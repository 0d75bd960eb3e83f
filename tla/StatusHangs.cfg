\* A connected client keeps a server that is told to stop from stopping.
SPECIFICATION FairSpec
CONSTANTS
    specialist = specialist
    qa = qa
    scopes = scopes
    k1 = k1
    k2 = k2
    tail = tail
    watch = watch
    Runner = {specialist, qa}
    Log = {scopes}
    Key = {k1, k2}
    SeenBy <- OneKeyEach
    LogOf <- OneLog
    Client = {watch}
    Resuming = {}
    MaxSubs = 2
    Page = 2
    Buffer = 1
    Window = 1
    MaxEvents = 1
    MaxFaults = 0
PROPERTY ShutdownCompletes
CHECK_DEADLOCK FALSE
