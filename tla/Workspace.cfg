CONSTANTS
  Requests <- Checked
  AllowInPlace = TRUE
  Loses = TRUE
SPECIFICATION Spec
CHECK_DEADLOCK FALSE
INVARIANTS
  TypeOK
  WholeUnlessLost
  RunsAsAsked
  ClosedClean

  
