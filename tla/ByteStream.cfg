\* Every capacity the int arithmetic of a 4-bit int is safe for: 0 .. 4.
SPECIFICATION Spec
CONSTANTS
  Byte = {" ", "a", "b"}
  Blank = " "
  INT_MAX = 7
  SIZE_MAX = 15
  Capacities = {0, 1, 3}
  MaxInput = 2
  Inputs <- MCInputs
  Lens = {0, 1, 2, 15}
INVARIANTS TypeOK BufferSizeExact
PROPERTY ImplementsQueue
