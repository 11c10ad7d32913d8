SPECIFICATION Spec
CONSTANTS
  a = a  b = b  c = c  d = d
  None = None
  Macs = {a, b, c, d}
  HashOf <- Hash
  Capacity = 2
  Sec = 2
  Wrap = 11
  RelMax = 3
  RebaseSpan = 2
  KeepSpan = 1
  SecTurn = 64
  Late = 4
  Ttl = 2
  Start = {4}
  MaxTime = 13
  MaxSlips = 0
VIEW Read
SYMMETRY Alike
INVARIANTS
  CountsActive
