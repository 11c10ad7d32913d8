SPECIFICATION Spec
CONSTANTS
  a = a  b = b  c = c  d = d
  None = None
  Macs = {a, b, c, d}
  HashOf <- Hash
  Capacity = 2
  Sec = 1
  Wrap = 11
  RelMax = 4
  RebaseSpan = 3
  KeepSpan = 2
  SecTurn = 64
  Late = 2
  Ttl = 2
  Start = {4}
  MaxTime = 13
  MaxSlips = 1
VIEW Read
SYMMETRY Alike
PROPERTIES
  ExpiresStale
