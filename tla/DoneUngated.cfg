SPECIFICATION Spec
CONSTANTS
    Item <- MCItem
    Kids <- MCKids
    Planned <- MCPlanned
    None = None
    MaxStarts = 2
    MaxCrashes = 1
PROPERTY DoneIsGated
CHECK_DEADLOCK FALSE
