SPECIFICATION SliceSpec
CONSTANTS
  rd = rd
  Readers = {rd}
  Entries = {1, 2, 3}
  UserOf <- Users
  PrefixOf <- Users
  Ops = {}
  Shapes <- DefaultScope
  Batch = 2
INVARIANT
  SliceSeekExact
