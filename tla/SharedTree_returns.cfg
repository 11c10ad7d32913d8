SPECIFICATION FairSpec
CONSTANTS
  t1 = t1  t2 = t2  t3 = t3  k1 = k1  k2 = k2  k3 = k3
  NoThread = NoThread
  NoSlot = NoSlot
  NoKey = NoKey
  Threads = {t1, t2}
  NumSlots = 1
  Token <- OneToken
  Keys = {k1, k2, k3}
  Digits = {0, 1}
  DigitOf <- TwoDigits
  LeafCap = 2
  MaxRetries = 2
  InitialKeys = {k1, k2, k3}
  Ops = {"remove", "locked", "get"}
  MayPanic = {"locked"}
  MaxCalls = 3
INVARIANTS
  PopulationExact CondenseSeesExact ViewExact
PROPERTIES
  WritersReturn ReadersReturn
\* A thread that stops for ever violates the property itself.
CHECK_DEADLOCK FALSE
