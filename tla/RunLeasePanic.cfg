\* The heartbeat a panicked dispatch leaves behind keeps its lease for ever.
SPECIFICATION FairSpec
CONSTANTS
    NoOwner = NoOwner
    Owner = {a, b}
    Run = {r1}
    Ttl = 3
    Margin = 1
    PulseEvery = 0
    Punctual = FALSE
    PromptDrop = TRUE
    RecoverApplies = FALSE
PROPERTY PanicClearsLease
