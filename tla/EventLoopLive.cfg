\* One rule for each descriptor.  The callback on the socket may shut it down for
\* writing, the one on the pipe may write to the socket what it has read.
SPECIFICATION LoopSpec
CONSTANTS
  sock = sock
  pipe = pipe
  sockIn = sockIn
  sockOut = sockOut
  pipeIn = pipeIn
  Wrapper = {sock, pipe}
  None = None
  Num = {0, 1}
  UINT_MAX = 1
  MaxHandles = 3
  MaxIn = 1
  MaxOut = 1
  Kinds <- MCKinds
  Limits = {}
  Sizes = {}
  DatagramSizes = {}
  Mtus = {}
  Rule = {sockOut, pipeIn}
  RuleFd <- MCRuleFd
  RuleDir <- MCRuleDir
  MayServe <- PassOn
  MayClose <- OwnOnly
  MayAdd <- NoneAdds
  MayShut = {sockOut}
  Fickle = {pipeIn}
  Lazy = {sockOut}
  MaxServes = 2
  MayFail = FALSE
PROPERTIES BlamedForIdling CallReturns ClosedIsCancelled EndIsCancelled
