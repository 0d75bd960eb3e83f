SPECIFICATION FairSpec
CONSTANTS
    Child <- MCChild
    Depends <- MCDepends
    Cancellable = {"a", "c"}
    None = None
    MaxFailures = 2
    MaxCrashes = 1
INVARIANTS JoinKept OfferedComplete NeverStuck
PROPERTY Completes
CHECK_DEADLOCK FALSE
