\* Two runners, one episode, two clients, two slots, three events, three faults of any kind.
SPECIFICATION FairSpec
CONSTANTS
    specialist = specialist
    qa = qa
    scopes = scopes
    k1 = k1
    k2 = k2
    tail = tail
    watch = watch
    Runner = {specialist, qa}
    Log = {scopes}
    Key = {k1}
    SeenBy <- OneKey
    LogOf <- OneLog
    Client = {tail, watch}
    Resuming = {tail}
    MaxSubs = 2
    Page = 2
    Buffer = 1
    Window = 1
    MaxEvents = 3
    MaxFaults = 3
INVARIANTS TypeOK EpisodesAccounted LiveBehindLog SlotsAccounted
PROPERTIES GapFree CatchesUp
CHECK_DEADLOCK FALSE
