CONSTANTS
  t1 = t1
  t2 = t2
  Tests <- MCTests
  Programs <- Suite
  TestDir <- MCTestDir
  Configured <- MCConfigured
  ReturnCodes <- Codes
  MaxAttempts <- MCMaxAttempts
  MaxKills = 1
SPECIFICATION FairSpec
CHECK_DEADLOCK FALSE
INVARIANTS TypeOK  InputsWhole FailureReported
PROPERTY EveryAttemptEnds
