SPECIFICATION Spec
CONSTANTS
    Processes <- Pairs
    Outputs <- ManyOutputs
    FileLevels <- AllLevels
    MaxCalls = 5
INVARIANTS
    TypeOK
    ErrorsRaise
    EndedOnRaise
    EndedOnce
    LibraryReleased
    RowInBounds
    RowsAreSteps
CHECK_DEADLOCK FALSE
