SPECIFICATION Spec
CONSTANTS
  rd = rd  w1 = w1  w2 = w2
  n1 = n1  n2 = n2  n3 = n3  n4 = n4  b1 = b1  b2 = b2  b3 = b3  b4 = b4
  Root = Root
  NoBlock = NoBlock
  NoThread = NoThread
  NoCall = NoCall
  Threads = {rd, w1, w2}
  Readers = {rd}
  Nodes = {n1, n2, n3, n4}
  Buffers = {b1, b2, b3, b4}
  Keys = {11, 12, 13, 14, 15, 21, 31}
  Hi <- Tens
  Lo <- Ones
  SmallCap = 2
  LargeCap = 5
  ImmMax = 1
  LeafMax = 4
  CapClass <- Classes124
  OBSOLETE = 1000
  MaxRetries = 2
  Scenarios <- FormsAndRaces
SYMMETRY Twins
INVARIANTS
  TreeSpellsKeys BlocksOwned NoDanglingPointer LockFindsEdge
PROPERTIES
  AtomicSetSpec
