CONSTANTS
    r1 = r1
    r2 = r2
    s1 = s1
    s2 = s2
    n1 = n1
    n2 = n2
    Requests = {r1, r2}
    Slices = {s1}
    Services = {n1}
    Target <- SameTarget
    ServiceOf <- SameService
    Failover = {r1}
    Patient = {r2}
    QueueLength = 1
    MaxNotices = 1
SPECIFICATION FairSpec
PROPERTIES EveryWaitEnds ReadyEndsWait
