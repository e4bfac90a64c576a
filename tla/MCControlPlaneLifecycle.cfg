\* Overlapping sessions: three servers, so up to three controlUp and
\* controlAttachTun calls whose goroutines all run at once.  No symmetry, for
\* liveness.
CONSTANTS
  Servers = {s1, s2, s3}
  ExitNodes = {x1}
  NoExit = NoExit
  NeverUp = NeverUp
  None = None
  Rounds = {}
  MaxPingPeers = 1
  MaxPathPeers = 1
SPECIFICATION FairSpec
INVARIANTS QueriesHitOpenServers OneCloser TunAfterOldClosed
           SomeoneWillReport
PROPERTIES ExitNodeBeforeUp AttemptsSettle RetiredServersClose
           ImplementsGoCoreFairly
