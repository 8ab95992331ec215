CONSTANTS
    Requests = {r1}
    Steps = 3
    Configs <- MCConfigs
    NoName = NoName
    ServerNames = {"h", "g", "x"}
SPECIFICATION FairSpec
INVARIANTS TypeOK CertHasName
PROPERTIES ExitsWhenDone StartsServing ReadyMeansRouted GivesUpOnSchedule RequestEnds
CHECK_DEADLOCK FALSE
