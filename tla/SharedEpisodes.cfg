\* Two runners share a log: a pass of one ends the episodes of the other: violated.
SPECIFICATION Spec
CONSTANTS
    specialist = specialist
    qa = qa
    scopes = scopes
    k1 = k1
    k2 = k2
    tail = tail
    watch = watch
    Runner = {specialist, qa}
    Log = {scopes}
    Key = {k1, k2}
    SeenBy <- OneKeyEach
    LogOf <- OneLog
    Client = {watch}
    Resuming = {}
    MaxSubs = 2
    Page = 2
    Buffer = 1
    Window = 1
    MaxEvents = 3
    MaxFaults = 0
INVARIANT EpisodesToldOnce
CHECK_DEADLOCK FALSE
