SPECIFICATION UpstreamSpec
CONSTANTS
  outcomes = outcomes
  risks = risks
  GeckoCallers = {outcomes, risks}
  Kinds <- WorkerKinds
  RpcCallers = {actors}
  GeckoInterval = 2
  RpcInterval = 1
  RequestTimeout = 3
  DefaultPause = 4
  Pauses = {1}
  NoRequest = NoRequest
  MaxTime = 11
INVARIANTS
  SelectionIsPrompt
  WaitIsBounded
PROPERTY PacingIsKept
CHECK_DEADLOCK FALSE
