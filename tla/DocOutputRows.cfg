SPECIFICATION Spec
CONSTANTS
    Processes <- FastOnly
    Outputs <- ManyOutputs
    FileLevels <- AllLevels
    MaxCalls = 5
INVARIANT
    RowsSuffice
CHECK_DEADLOCK FALSE
