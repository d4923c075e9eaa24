\* Two threads, one of which forks and exits, and a child process.
SPECIFICATION FairSpec
CONSTANTS
  Names = {m, w}
  First = m
  Managers = {k}
  Free = Free
  LastProc = 1
  Forkers = {w}
  Exiters = {w}
  Spawners = {0}
  MaxRecords = 2
  BufferSize = 2
  MainFirst = TRUE
INVARIANTS
  DumpInOrder
  NothingLost
  Excluded
  ChildHasList
  ExitFlushes
PROPERTIES
  EventuallyWritten
\* A program that has exited takes no step.
CHECK_DEADLOCK FALSE
