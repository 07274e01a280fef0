CONSTANTS
  HasWorkspace = TRUE
  IdsGiven = TRUE
  Harnesses <- SomeHarnesses
  Contracts <- SomeContracts
  Budget = 5
  KeepTurns = 2
  KeepTools = 1
  MaxResults = 3
  Token <- Tokens
SPECIFICATION Spec
CHECK_DEADLOCK FALSE
INVARIANTS
  ResultsReadable
  OneBinding
PROPERTIES
  RecentKept
