\* Two threads, a fork in any state of the breakpoint, and a fork of the child.
SPECIFICATION Spec
CONSTANTS
  Threads = {t1, t2}
  MaxForks = 2
INVARIANTS
  SavedIsOriginal
  RearmedAfterwards
  AtInstructions
PROPERTIES
  ToldOnce
  
