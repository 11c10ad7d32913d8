SPECIFICATION Spec
CONSTANTS
  rd = rd
  Readers = {rd}
  Entries = {1, 2, 3}
  UserOf <- Users
  PrefixOf <- Users
  Ops = {"get", "contains", "seek", "seekprev", "first", "last", "valid", "next", "prev", "scan"}
  Shapes <- AllScopes
  Batch = 2
INVARIANTS
  TypeOK ChainExact TrieReaches Anchored NoneBehind
PROPERTIES
  MinNeverRises ReseekExact Promise
