CONSTANTS
    Proc = {run, manual}
    RunProc = {}
    Source = {1, 2}
    Weight <- MCWeight
    Arrivals <- MCFewArrivals
    Window = 1
    MinDate <- MCMinDate
    MaxArticles = 3
    MaxFaults = 1
SPECIFICATION Spec
CHECK_DEADLOCK FALSE
INVARIANT DisplayAgrees
