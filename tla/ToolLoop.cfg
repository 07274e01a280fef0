CONSTANTS
  Call = {c1, c2, c3}
  MaxCalls = 3
SPECIFICATION Spec
CHECK_DEADLOCK FALSE
INVARIANTS
  TypeOK
  CallsAccounted
  RunsOnce
  AskedNeedsGrant
PROPERTIES
  SegmentEnds
