SPECIFICATION Spec
CONSTANTS
  Keys = {"a", "b", "c"}
  Hash <- MCHash
  NSubs = 2
  Caps = {2, 4, 8, 16}
  DefaultCap = 2
  MaxEntries = 3
  MaxReserve = 1
INVARIANTS LookupsAnswer MemoryOwned
PROPERTIES ImplementsStore
CHECK_DEADLOCK FALSE
