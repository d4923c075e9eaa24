\* Dumps of four records over two maps; addresses are counted modulo 16.
SPECIFICATION Spec
CONSTANTS
  AddressMod = 16
  Files <- MCFiles
  Maps <- MCMaps
  Functions = {1, 4, 9}
  ReturnSites = {3, 4, 8}
  CacheLimit = 2
  StaleFlags = {"dirname", "line"}
  MaxRecords = 4
CHECK_DEADLOCK FALSE
INVARIANTS
  MappedOnce
PROPERTIES
  EdgeFaithful
  RightObject
