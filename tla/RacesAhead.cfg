SPECIFICATION Spec
CONSTANTS
    Child <- MCChild
    Depends <- MCDepends
    Cancellable = {"a", "c"}
    None = None
    MaxFailures = 2
    MaxCrashes = 1
PROPERTY NeverAhead
CHECK_DEADLOCK FALSE
