\* Two peers, two turns each, and room for one skipped key.
SPECIFICATION Spec
CHECK_DEADLOCK FALSE
CONSTANTS
    MaxSkipPerChain = 1
    MaxSkip = 1
    MaxTurns = 2
    MaxFirst = 3
    MaxLater = 2
    Reattach = TRUE
INVARIANTS
    InStep
    
