\* Units of a few entries, over all forms and their truncations.
SPECIFICATION Spec
CONSTANTS Cases <- MCCases
CHECK_DEADLOCK FALSE
INVARIANTS
  InStep
  FieldsRight
  TruncationSeen
