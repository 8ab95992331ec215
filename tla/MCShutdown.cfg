CONSTANTS
    Requests = {r1}
    Steps = 3
    Configs <- MCConfigs
    NoName = NoName
    ServerNames = {"h", "g", "x"}
SPECIFICATION Spec
INVARIANT GracefulShutdown
CHECK_DEADLOCK FALSE
