CONSTANTS
    f = f
    g = g
    i1 = i1
    i2 = i2
    i3 = i3
    Proc = {p}
    Url = {f, g}
    Version <- MCVersion
    Item = {i1, i2, i3}
    Offers <- MCOffers
    Validated = {f}
    FailLimit = 2
    MaxEdits = 2
    MaxErrors = 3
    MaxFaults = 1
SPECIFICATION FairSpec
CHECK_DEADLOCK FALSE
INVARIANTS TypeOK ValidatorCovered FileDecides FlaggedAtLimit
PROPERTIES EventuallyIngested
