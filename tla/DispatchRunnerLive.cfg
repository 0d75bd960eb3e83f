\* The driver makes progress, shuts down, and a cancel sticks.
SPECIFICATION FairSpec
CONSTANTS
    specialist = specialist
    qa = qa
    global = global
    role = role
    run = run
    item = item
    NoKey = NoKey
    NoRequest = NoRequest
    Order <- Runners
    Scope <- Scopes
    UsesActiveSet <- Nobody
    Request <- Requests3
    RunnerOf <- RunnerOf3
    ScopesOf <- ScopesOf3
    Cap <- TightCaps
    MaxInFlight <- Permits
    RunKey <- RunKey3
    ItemKey <- ItemKey3
    MaxFaults = 1
PROPERTIES WorkDrains ShutdownEnds CancelSticks
