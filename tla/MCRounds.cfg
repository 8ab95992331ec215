CONSTANTS
    Interceptors = {i1, i2}
    Hosts = {h1}
    Silent = {}
    Readings <- TwoReadings
    AgeLimit = 3
    MaxAge = 1
    CheckPeriod = 1
SPECIFICATION HealthSpec
SYMMETRY SameInterceptors
INVARIANT ServingIsFresh
PROPERTY SavedIsSumOfRound
