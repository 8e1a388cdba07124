SPECIFICATION Spec
CONSTANTS
    InterpOrder = 2
    Configs <- PastEnd
    MaxLives = 0
INVARIANTS
    NeverOverstep
