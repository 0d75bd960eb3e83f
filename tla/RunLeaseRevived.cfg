\* A pulse re-acquires the lease between the release and the deregistration.
SPECIFICATION Spec
CONSTANTS
    NoOwner = NoOwner
    Owner = {a, b}
    Run = {r1}
    Ttl = 3
    Margin = 1
    PulseEvery = 2
    Punctual = TRUE
    PromptDrop = TRUE
    RecoverApplies = FALSE
PROPERTY ReleasedStaysReleased
