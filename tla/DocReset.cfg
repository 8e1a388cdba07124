SPECIFICATION Spec
CONSTANTS
    InterpOrder = 2
    Configs <- Repeating
    MaxLives = 0
INVARIANTS
    RepeatsSubsteps
