\* A stalled owner's release clears the lease of the owner that took over.
SPECIFICATION Spec
CONSTANTS
    NoOwner = NoOwner
    Owner = {a, b}
    Run = {r1}
    Ttl = 3
    Margin = 1
    PulseEvery = 0
    Punctual = FALSE
    PromptDrop = TRUE
    RecoverApplies = FALSE
INVARIANT NoDuplicateActiveLease
