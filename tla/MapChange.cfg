\* Two threads that load, unload, call and fork.
SPECIFICATION Spec
CONSTANTS
  Threads = {t1, t2}
  Main = Main
  Objects = {a, b}
  NoOne = NoOne
  MaxDepth = 2
  MaxForks = 1
  NameFits = TRUE
INVARIANTS
  EnterUnlessRaced
  MapCurrent
PROPERTIES
  LeaveUnlessRaced
