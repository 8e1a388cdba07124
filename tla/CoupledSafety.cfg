SPECIFICATION Spec
CONSTANTS
    InterpOrder = 2
    Configs <- All
    MaxLives = 2
INVARIANTS
    TypeOK
    ClocksAgree
    CleanSteps
    NoOverstep
    SamplesAreHistory
    RestartPointExists
PROPERTIES
    LossBounded
    Refines
    ProcessEnds
