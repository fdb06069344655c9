\* Capacities 1 to 4; the long message goes around the largest twice.
SPECIFICATION PipeSpec
CONSTANTS
  Byte = {" ", "a", "b", "c", "d", "e", "f", "g", "h", "i"}
  Blank = " "
  INT_MAX = 7
  SIZE_MAX = 15
  Capacities = {1, 2, 3, 4}
  Inputs = {}
  Lens = {1, 2, 15}
  Messages <- MCMessages
INVARIANTS Conservation FinishedHasAll
PROPERTIES EofIsFinal Delivered
