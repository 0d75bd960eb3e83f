\* A blocker opened after the request was emitted does not stop the dispatch.
SPECIFICATION Spec
CONSTANTS
    stays = stays
    returns = returns
    Issue = {stays, returns}
    Routable = {stays, returns}
    MaxInFlight = 1
    MaxVisits <- Visits
    MaxFaults = 1
PROPERTY BlockedNotDispatched
CHECK_DEADLOCK FALSE
