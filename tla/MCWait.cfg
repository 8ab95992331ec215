CONSTANTS
    r1 = r1
    r2 = r2
    s1 = s1
    s2 = s2
    n1 = n1
    n2 = n2
    Requests = {r1, r2}
    Slices = {s1, s2}
    Services = {n1, n2}
    Target <- OwnTarget
    ServiceOf <- OwnService
    Failover = {r1}
    Patient = {}
    QueueLength = 2
    MaxNotices = 1
SPECIFICATION Spec
INVARIANTS NoMissedWakeup OwnWorkloadWasReady
