SPECIFICATION Spec
CONSTANTS
  first = first
  second = second
  Programs = {first, second}
  Names = {"a"}
  SourceFiles <- Decks
  Assignments <- TwoLines
  ROSCO = FALSE
  FoldsCase = TRUE
  MaxKills = 0
PROPERTY DocRoundTrip
CHECK_DEADLOCK FALSE
