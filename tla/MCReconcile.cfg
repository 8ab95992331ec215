CONSTANTS
    Replicas = {1, 99}
    Meddling = {1,2}
    Skips = {TRUE, FALSE}
    MaxUid = 2
    MaxEdits = 2
    MaxFaults = 2
SPECIFICATION FairSpec
INVARIANTS AppliedWhenSettled IInv
PROPERTIES Settles DeletedGoesAway
CHECK_DEADLOCK FALSE
