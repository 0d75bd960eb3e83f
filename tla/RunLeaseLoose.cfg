\* Stalled processes, late releases and an operator: what the heartbeat still knows,
\* and that a dead process does not keep its lease.
SPECIFICATION FairSpec
CONSTANTS
    NoOwner = NoOwner
    Owner = {a, b}
    Run = {r1}
    Ttl = 2
    Margin = 1
    PulseEvery = 0
    Punctual = FALSE
    PromptDrop = FALSE
    RecoverApplies = TRUE
INVARIANT BeatNeverAhead
PROPERTY DeadLeaseFrees
