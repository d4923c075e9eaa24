\* The child forks, too.
SPECIFICATION FairSpec
CONSTANTS
  Names = {m}
  First = m
  Managers = {k}
  Free = Free
  LastProc = 2
  Forkers = {m}
  Exiters = {}
  Spawners = {}
  MaxRecords = 0
  BufferSize = 1
  MainFirst = TRUE
PROPERTIES
  ForkReturns
\* A program that has exited takes no step.
CHECK_DEADLOCK FALSE
