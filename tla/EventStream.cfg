CONSTANTS
  r1 = r1
  Run = {r1}
  Streaming = TRUE
  MaxForeign = 2
  MaxTurns <- Turns3
SPECIFICATION FairSpec
CHECK_DEADLOCK FALSE
INVARIANTS
  TypeOK
  OwnInOrder
  NothingAfterTheEnd
  AnswerDelivered
PROPERTIES
  StreamsEnd
