\* The build of the Makefile: two loads and two stores of each index.
SPECIFICATION FairSpec
CONSTANTS
  Size = 2
  MaxWrite = 3
  Byte = {a, b}
INVARIANTS
  TypeOK
  WithinArray
  NoOverwrite
  ReaderStaysBehind
  CommitWriteRecords
  FlushDrains
  FlushesFront
PROPERTIES
  ImplementsQueue
  WriteDataReturns
