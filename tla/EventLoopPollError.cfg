\* The doc of wait_next_event against the code: poll fails.
SPECIFICATION LoopSpec
CONSTANTS
  sock = sock
  pipe = pipe
  sockIn = sockIn
  sockOut = sockOut
  pipeIn = pipeIn
  Wrapper = {sock, pipe}
  None = None
  Num = {0, 1}
  UINT_MAX = 1
  MaxHandles = 3
  MaxIn = 1
  MaxOut = 1
  Kinds <- MCKinds
  Limits = {}
  Sizes = {}
  DatagramSizes = {}
  Mtus = {}
  Rule = {sockIn, sockOut, pipeIn}
  RuleFd <- MCRuleFd
  RuleDir <- MCRuleDir
  MayServe <- OwnWay
  MayClose <- OwnOnly
  MayAdd <- NoneAdds
  MayShut = {}
  Fickle = {sockOut}
  Lazy = {sockIn}
  MaxServes = 1
  MayFail = TRUE
INVARIANT PollErrorThrows
