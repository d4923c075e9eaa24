\* Two slots of the cache, keys and times that wrap at four.
SPECIFICATION Spec
CONSTANTS
  AddressMod = 16
  CacheSize = 2
  KeyMod = 4
  TimeMod = 4
  Lookups <- MCLookups
CHECK_DEADLOCK FALSE
INVARIANTS
  CompleteWalk
  NameRight
  DeclIsAsked
  CacheSound
  LineRight
  FileRight
