\* One controlUp and one controlAttachTun, made when its contract allows it,
\* and controlDown at any time.
CONSTANTS
  Servers = {s1, s2}
  ExitNodes = {x1}
  NoExit = NoExit
  NeverUp = NeverUp
  None = None
  Rounds = {}
  MaxPingPeers = 1
  MaxPathPeers = 1
SPECIFICATION ContractSpec
PROPERTY DownStaysDown
