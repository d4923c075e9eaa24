\* The build of the Makefile: two loads and two stores of each index.
SPECIFICATION FairSpec
CONSTANTS
  Size = 2
  MaxWrite = 3
  Byte = {a, b}
INVARIANTS
  FlushesCommitted
