CONSTANTS
  e1 = e1
  a1 = a1
  a2 = a2
  t1 = t1
  r1 = r1
  r2 = r2
  r3 = r3
  NoThread = NoThread
  Execution = {e1, a1}
  Thread = {t1}
  Run = {r1, r2}
  HomeThread <- MixedHome
  Entries = {"execute", "resume", "agui", "aguiResume"}
SPECIFICATION Spec
SYMMETRY RunSymmetry
CHECK_DEADLOCK FALSE
INVARIANTS
  TypeOK
  ExclusiveScopes
  LiveWorkerHoldsClaim
  ClosedScopeQuiet
  ClosedIsTerminal
PROPERTIES
  CompletedPreserved
