SPECIFICATION Spec
CONSTANTS
    Followup <- MCFollowup
    MaxRefusals = 2
    MaxFaults = 2

PROPERTY CreatedIsFinal
CHECK_DEADLOCK FALSE
