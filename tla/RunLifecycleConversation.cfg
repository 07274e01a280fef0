CONSTANTS
  e1 = e1
  a1 = a1
  a2 = a2
  t1 = t1
  r1 = r1
  r2 = r2
  r3 = r3
  NoThread = NoThread
  Execution = {a1, a2}
  Thread = {t1}
  Run = {r1, r2}
  HomeThread <- ConversationHome
  Entries = {"agui", "aguiResume"}
SPECIFICATION Spec
SYMMETRY RunSymmetry
CHECK_DEADLOCK FALSE
PROPERTIES
  ImplementsLease
