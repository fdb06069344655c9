\* Two wrappers on two numbers: a listening socket and its connection, or a
\* closed wrapper whose number is used again.
SPECIFICATION SocketSpec
CONSTANTS
  any = any
  other = other
  Wrapper = {any, other}
  None = None
  Num = {0, 1}
  UINT_MAX = 0
  MaxHandles = 2
  MaxIn = 1
  MaxOut = 1
  Kinds <- MCKinds
  Limits = {0, 1}
  Sizes = {0, 2}
  DatagramSizes = {0, 1, 2}
  Mtus = {1}
INVARIANTS FDTypeOK Ownership EofIsTrue AllOrThrow
CHECK_DEADLOCK FALSE
