SPECIFICATION Spec
CONSTANTS
    Params <- SafetyParams
    CallErr <- SomeErrors
    MaxCalls = 3
INVARIANTS
    TypeOK
    CorrectionsBounded
    JacobianFresh
    NoSilentDivergence
    WarnedAfterRebuilds
    UpdatedOnce
    OutputsMatchInputs
    DivergenceIsReal
PROPERTIES
    EveryCallReturns
    RetryRebuilds
