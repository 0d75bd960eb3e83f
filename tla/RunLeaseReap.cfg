\* recover releases a row that was taken over after it was found expired.
SPECIFICATION Spec
CONSTANTS
    NoOwner = NoOwner
    Owner = {a, b}
    Run = {r1}
    Ttl = 3
    Margin = 1
    PulseEvery = 2
    Punctual = TRUE
    PromptDrop = TRUE
    RecoverApplies = TRUE
PROPERTY ReapsOnlyExpired
