SPECIFICATION Spec
CONSTANTS
    Item <- MCItem
    Kids <- MCKids
    Planned <- MCPlanned
    None = None
    MaxStarts = 2
    MaxCrashes = 1
INVARIANTS TypeOK NoStaleVerdict MirroredFirst
PROPERTY ClosedIsFinal
CHECK_DEADLOCK FALSE
