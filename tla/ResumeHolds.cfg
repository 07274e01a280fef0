CONSTANTS
  e1 = e1
  a1 = a1
  h1 = h1
  h2 = h2
  h3 = h3
  r1 = r1
  r2 = r2
  r3 = r3
  NoHold = NoHold
  NoRun = NoRun
  NoExecution = NoExecution
  Execution = {e1, a1}
  Session = {e1}
  Hold = {h1, h2}
  Run = {r1, r2, r3}
  Kinds = {"execute", "resume", "agui", "aguiResume", "resumeRun"}
SPECIFICATION Spec
SYMMETRY RequestSymmetry
CHECK_DEADLOCK FALSE
INVARIANTS
  TypeOK
  OneClaimPerHold
  AnsweredOnce
  AwaitingAnswerable
PROPERTIES
  KeepsPromise
