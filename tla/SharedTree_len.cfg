SPECIFICATION Spec
CONSTANTS
  t1 = t1  t2 = t2  t3 = t3  k1 = k1  k2 = k2  k3 = k3
  NoThread = NoThread
  NoSlot = NoSlot
  NoKey = NoKey
  Threads = {t1, t2}
  NumSlots = 2
  Token <- OneToken
  Keys = {k1, k2, k3}
  Digits = {0, 1}
  DigitOf <- TwoDigits
  LeafCap = 2
  MaxRetries = 2
  InitialKeys = {k1, k3}
  Ops = {"insert", "remove", "clear", "exclusive", "len"}
  MayPanic = {"exclusive"}
  MaxCalls = 4
SYMMETRY Symmetry
INVARIANTS
  TypeOK SectionAlone PopulationExact CondenseSeesExact LenSettled
PROPERTIES
  GateSpec
\* After a panic in an exclusive section the tree word stays odd, and the
\* optimistic mutations and reads that sample it wait for ever.
CHECK_DEADLOCK FALSE
