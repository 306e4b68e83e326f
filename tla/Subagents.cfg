SPECIFICATION FairSpec
CONSTANTS
    MaxAgents = 3
    MaxRuns = 2
    MaxSteps = 2
    MaxRetries = 1
    ProfileFiles <- MCProfileFiles
INVARIANTS
    ForegroundNested
PROPERTIES
    NoNewsAfterTheEnd
    ChildrenReported
CHECK_DEADLOCK FALSE
