CONSTANTS
  t1 = t1
  t2 = t2
  Tests <- MCTests
  Programs <- WithLinear
  TestDir <- MCTestDir
  Configured <- MCConfigured
  ReturnCodes <- Codes
  MaxAttempts <- MCMaxAttempts
  MaxKills = 0
SPECIFICATION Spec
CHECK_DEADLOCK FALSE
INVARIANT TestsAreIndependent
