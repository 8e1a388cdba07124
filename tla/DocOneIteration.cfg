SPECIFICATION Spec
CONSTANTS
    Params <- OneIteration
    CallErr <- NoErrors
    MaxCalls = 1
INVARIANTS
    SmallUpdateConverges
