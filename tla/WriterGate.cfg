SPECIFICATION FairSpec
CONSTANTS
  t1 = t1  t2 = t2  t3 = t3  t4 = t4
  NoThread = NoThread
  NoSlot = NoSlot
  Threads = {t1, t2, t3}
  NumSlots = 2
  Token <- OneToken
INVARIANTS
  TypeOK Exclusion ClosedHasOwner
PROPERTIES
  DrainEnds GateReopens
\* A thread that stops for ever violates the properties themselves.
CHECK_DEADLOCK FALSE
