\* Sequences of instructions, given in pieces of these lengths.
SPECIFICATION Spec
CONSTANTS
  Programs <- MCPrograms
  Pieces = {1, 2, 5}
CHECK_DEADLOCK FALSE
INVARIANTS
  StopsAtInstructions
  KindsRight
