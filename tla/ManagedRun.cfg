CONSTANTS
  Entries = {"rest", "agui"}
SPECIFICATION Spec
CHECK_DEADLOCK FALSE
INVARIANTS
  TypeOK
  WorkCovered
  CancelledNotCompleted
  CloseKeepsHold
PROPERTIES
  CloseEndsRun
