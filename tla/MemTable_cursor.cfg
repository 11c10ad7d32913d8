SPECIFICATION Spec
CONSTANTS
  rd = rd
  Readers = {rd}
  Entries = {1, 2, 3}
  UserOf <- Users
  PrefixOf <- Users
  Ops = {"first", "next"}
  Shapes <- DefaultScope
  Batch = 2
PROPERTY
  StepExact
