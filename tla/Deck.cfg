SPECIFICATION FairSpec
CONSTANTS
  first = first
  second = second
  Programs = {first, second}
  Names = {"a", "b"}
  SourceFiles <- Decks
  Assignments <- All
  ROSCO = TRUE
  FoldsCase = TRUE
  MaxKills = 1
INVARIANTS TypeOK MainLast
PROPERTIES RoundTrip ReadIsOneVersion EveryReadEnds
CHECK_DEADLOCK FALSE
