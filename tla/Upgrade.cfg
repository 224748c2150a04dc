CONSTANTS
    a = a
    b = b
    Proc = {p, q}
    Source = {a, b}
    OldDatabase <- MCOldDatabase
    FirstDay = 2
    MaxDay = 3
    MaxRuns = 3
    MaxFaults = 2
    Edits <- MCEdits
    NoDay = NoDay
    NoProc = NoProc
    MinAge = 0
    StalledWindow = 0
    FeedWindow = 2
SPECIFICATION FairSpec
CHECK_DEADLOCK FALSE
INVARIANTS TypeOK MigratedBeforeUse FirstSeenSound FlagsExact
PROPERTIES FlagsClearByNews EventuallyMigrated
