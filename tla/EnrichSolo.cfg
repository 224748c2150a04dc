CONSTANTS
    p = p
    q = q
    m1 = m1
    m2 = m2
    Proc = {p}
    RunProc = {p}
    Article <- MCArticle
    Published <- MCPublished
    Near <- MCNear
    Model = {m1,m2}
    Batch = 2
    Window = 0
    MaxTime = 1
    MaxChanges = 1
    MaxFaults = 2
SPECIFICATION MCSpec
CHECK_DEADLOCK FALSE
INVARIANTS TypeOK EmbeddedBeforeClustering CentroidOfEmbeddings
PROPERTY EventuallyPlaced
