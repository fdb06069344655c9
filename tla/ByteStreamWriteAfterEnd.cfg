\* The doc of byte_stream.hh against the code: writes after end_input().
SPECIFICATION Spec
CONSTANTS
  Byte = {" ", "a", "b"}
  Blank = " "
  INT_MAX = 7
  SIZE_MAX = 15
  Capacities = {2}
  MaxInput = 1
  Inputs <- MCInputs
  Lens = {1}
PROPERTY NoWriteAfterEnd
