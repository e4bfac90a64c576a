\* Two ping rounds over two sessions, with their path probing; two peers.  No
\* symmetry, for liveness.
CONSTANTS
  Servers = {s1, s2}
  ExitNodes = {x1}
  NoExit = NoExit
  NeverUp = NeverUp
  None = None
  Rounds = {r1, r2}
  MaxPingPeers = 2
  MaxPathPeers = 2
SPECIFICATION FairSpec
INVARIANTS TypeOK PingRoundsDoNotMix
PROPERTY PingRoundsEnd
