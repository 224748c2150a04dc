CONSTANTS
    Proc = {run}
    RunProc = {}
    Source = {1, 2}
    Weight <- MCWeight
    Arrivals <- MCPageArrivals
    Window = 1
    MinDate <- MCMinDate
    MaxArticles = 3
    MaxFaults = 1
    Moments <- MCMoments
SPECIFICATION RenderSpec
CHECK_DEADLOCK FALSE
INVARIANTS CardSupported PageComplete
PROPERTIES EventuallyShown
