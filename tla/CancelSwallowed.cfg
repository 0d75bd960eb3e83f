\* Two requests for one run: the second drains the cancel the first should see.
SPECIFICATION FairSpec
CONSTANTS
    top = top
    mid = mid
    leaf = leaf
    r1 = r1
    r2 = r2
    NoItem = NoItem
    Item = {top, mid, leaf}
    Run = {r1, r2}
    Child <- Chain
    ItemOf <- LeafRuns
    Dispatch <- TwoDispatches
    RunOf <- Together
    KeyOf <- Siblings
    MaxCancels = 1
    MaxBoots = 0
    MaxFaults = 0
PROPERTY CancelReachesTask
CHECK_DEADLOCK FALSE
