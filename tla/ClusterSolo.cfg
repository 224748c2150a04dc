CONSTANTS
    Proc = {run}
    RunProc = {}
    Source = {1, 2}
    Weight <- MCWeight
    Arrivals <- MCDatedArrivals
    Window = 1
    MinDate <- MCMinDate
    MaxArticles = 3
    MaxFaults = 2
SPECIFICATION FairSpec
CHECK_DEADLOCK FALSE
INVARIANTS TypeOK AtMostOneCluster MeanAgrees BackfillEquivalent
PROPERTIES ImplementsPromise EventuallyClustered
