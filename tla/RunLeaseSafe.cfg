\* Punctual pulses and no operator: the lease excludes, and outlives its task.
SPECIFICATION Spec
CONSTANTS
    NoOwner = NoOwner
    Owner = {a, b, c}
    Run = {r1}
    Ttl = 3
    Margin = 1
    PulseEvery = 2
    Punctual = TRUE
    PromptDrop = TRUE
    RecoverApplies = FALSE
SYMMETRY Symmetry
INVARIANTS OneDispatchPerRun LeaseOutlivesTask
PROPERTY Exclusive
