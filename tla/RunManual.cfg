CONSTANTS
    Manual = {m}
    RunId <- MCFewRunIds
    Feeds = 1
    Period = 2
    Limit = 1
    ManualLimit = 4
    Threshold = 3
    Retention = 4
    MaxFaults = 1
    MaxManual = 1
    MaxStops = 2
    MaxBackfills = 1
SPECIFICATION Spec
CHECK_DEADLOCK FALSE
INVARIANTS ReapedIsOverdue CleanMeansComplete
PROPERTY OutcomeWrittenOnce
