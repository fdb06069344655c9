\* A socket with two rules and a pipe with one, which a callback may add.
\* Callbacks read, write and close what they like of what they know, also
\* what another rule watches; poll may fail, and the counts wrap after two
\* services, as many as one callback may make.
SPECIFICATION LoopSpec
CONSTANTS
  sock = sock
  pipe = pipe
  sockIn = sockIn
  sockOut = sockOut
  pipeIn = pipeIn
  Wrapper = {sock, pipe}
  None = None
  Num = {0, 1}
  UINT_MAX = 1
  MaxHandles = 3
  MaxIn = 1
  MaxOut = 1
  Kinds <- LocalKinds
  Limits = {}
  Sizes = {}
  DatagramSizes = {}
  Mtus = {}
  Rule = {sockIn, sockOut, pipeIn}
  RuleFd <- MCRuleFd
  RuleDir <- MCRuleDir
  MayServe <- AnyWay
  MayClose <- Shared
  MayAdd <- SockAdds
  MayShut = {}
  Fickle = {sockOut}
  Lazy = {sockIn}
  MaxServes = 2
  MayFail = TRUE
INVARIANTS LoopTypeOK Aligned CancelOnce StaleOnlyByCallbacks
PROPERTY BlamedForIdling
