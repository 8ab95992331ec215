CONSTANTS
    Window = 5
    Granularity = 2
    PerSecond = 1
    Offset = 0
    MaxTime = 17
    MaxRecords = 5
SPECIFICATION Spec
INVARIANTS TypeOK WindowSumExact AverageWithinPeak ZeroOnlyWhenQuiet
