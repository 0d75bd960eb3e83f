\* Two issues, one permit: dispatched once, and in the end, per appearance.
SPECIFICATION FairSpec
CONSTANTS
    stays = stays
    returns = returns
    Issue = {stays, returns}
    Routable = {stays, returns}
    MaxInFlight = 1
    MaxVisits <- Visits
    MaxFaults = 1
INVARIANTS TypeOK OncePerVisit
PROPERTIES OncePerAppearance Served
CHECK_DEADLOCK FALSE
