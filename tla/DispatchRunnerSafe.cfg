\* Two runners under one gate: permits, scope permits, lists and their order.
SPECIFICATION Spec
CONSTANTS
    specialist = specialist
    qa = qa
    global = global
    role = role
    run = run
    item = item
    NoKey = NoKey
    NoRequest = NoRequest
    Order <- Runners
    Scope <- Scopes
    UsesActiveSet <- ActiveSetUsers
    Request <- Requests3
    RunnerOf <- RunnerOf3
    ScopesOf <- ScopesOf3
    Cap <- TightCaps
    MaxInFlight <- WidePermits
    RunKey <- RunKey3
    ItemKey <- ItemKey3
    MaxFaults = 1
INVARIANTS TypeOK PermitsBalance ScopesBalance AgeOrder NoneLost
