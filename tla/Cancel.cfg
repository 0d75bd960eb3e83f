\* One command, a restart, failures: a pending row holds its runs back, and a cancel ends them.
SPECIFICATION FairSpec
CONSTANTS
    top = top
    mid = mid
    leaf = leaf
    r1 = r1
    r2 = r2
    NoItem = NoItem
    Item = {top, mid, leaf}
    Run = {r1, r2}
    Child <- Chain
    ItemOf <- LeafRuns
    Dispatch <- TwoDispatches
    RunOf <- Apart
    KeyOf <- Siblings
    MaxCancels = 1
    MaxBoots = 1
    MaxFaults = 1
PROPERTIES CancelSurvives SubtreeStops CancelReachesTask
CHECK_DEADLOCK FALSE
