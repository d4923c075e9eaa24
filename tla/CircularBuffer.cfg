\* One thread: every sequence of calls on a buffer of four bytes.
SPECIFICATION Spec
CONSTANTS
  Size = 4
  Byte = {a, b}
PROPERTIES
  ImplementsQueue
