\* Pages of up to five bytes, read one to three at a time; a request that
\* takes two rounds.
SPECIFICATION WebSpec
CONSTANTS
  Sock = Sock
  Wrapper = {Sock}
  None = None
  Num = {0}
  UINT_MAX = 2
  MaxHandles = 1
  MaxIn = 3
  MaxOut = 2
  Kinds <- MCKinds
  Limits = {}
  Sizes = {}
  DatagramSizes = {}
  Mtus = {}
  Request = 3
  MaxPage = 5
INVARIANTS SuccessIsWhole ClosedAtExit
PROPERTY Terminates
