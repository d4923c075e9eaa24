\* Two threads record for the first time at once.
SPECIFICATION Spec
CONSTANTS
  Names = {m, w}
  First = m
  Managers = {k, l}
  Free = Free
  LastProc = 0
  Forkers = {}
  Exiters = {m}
  Spawners = {0}
  MaxRecords = 1
  BufferSize = 1
  MainFirst = FALSE
INVARIANTS
  KnownAreListed
\* A program that has exited takes no step.
CHECK_DEADLOCK FALSE
