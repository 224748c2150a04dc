CONSTANTS
    Manual = {}
    RunId <- MCRunId
    Feeds = 2
    Period = 2
    Limit = 1
    ManualLimit = 1
    Threshold = 2
    Retention = 3
    MaxFaults = 1
    MaxManual = 0
    MaxStops = 0
    MaxBackfills = 0
SPECIFICATION FairSpec
CHECK_DEADLOCK FALSE
INVARIANTS TypeOK KilledLeavesAllOrNothing
PROPERTIES PrunedIsResolved EventuallyResolved
