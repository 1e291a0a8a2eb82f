SPECIFICATION ProgressFairSpec
CONSTANTS
    MaxIterations = 2
    MaxSources = 2
    MaxQueries = 2
    Width = 2
    MaxSubtasks = 2
    Overrun = 1
    MaxFaults = 1
INVARIANTS
    TypeOK
    WithinRecursionLimit
    SourcesWithinBudget
    ReturnsCheckedReport
    StopIsTold
PROPERTIES
    LimitEndsDiscovery
    CancellationEndsWork
    BarGoesBackOnlyThere
    RunEnds
