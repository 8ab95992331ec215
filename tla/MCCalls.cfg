CONSTANTS
    None = None
    Interceptors = {i1}
    Hosts = {h1}
    Silent = {}
    Readings <- TwoReadings
    AgeLimit = 1
    Calls = {c1}
    Metrics <- OneOrBoth
SPECIFICATION FairSpec
INVARIANTS TypeOK AnsweredBeforeExit
PROPERTIES SlowRateIsActive ValueFitsTarget CallReturns PendingIsSaved StopsWhenCancelled ExitsUnlessStreaming
CHECK_DEADLOCK FALSE
