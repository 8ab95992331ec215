CONSTANTS
    Replicas = {1, 2}
    Meddling = {1, 2}
    Skips = {TRUE, FALSE}
    MaxUid = 1
    MaxEdits = 1
    MaxFaults = 0
SPECIFICATION Spec
INVARIANT SkippedWhenSettled
CHECK_DEADLOCK FALSE
