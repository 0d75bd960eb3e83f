SPECIFICATION FairSpec
CONSTANTS
    Followup <- MCFollowup
    MaxRefusals = 2
    MaxFaults = 2
INVARIANTS CreatedIsTracked IssuesAccounted
PROPERTY Filed
CHECK_DEADLOCK FALSE
