CONSTANTS
    Names = {n1, n2, n3}
    CreationTimes = {1, 2}
    Texts = {"", "h", "g", "80", "8080", "a", "b", "c"}
    Hosts <- MCHosts
    PathPrefixes <- MCPathPrefixes
    RequestHosts <- MCRequestHosts
    RequestPaths <- MCRequestPaths
SPECIFICATION Spec
INVARIANTS RouteToOldestOfLongest StoreAgreesWithIndex
PROPERTY ForgetSparesOthers
CHECK_DEADLOCK FALSE
