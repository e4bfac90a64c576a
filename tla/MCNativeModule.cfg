\* Two sessions of the core, whose loops overlap, and two keys: one machine key and
\* one node key, so that a further generation fails.  Two threads that call the
\* tunnel, one probe task, and builds of the Go libraries that lack no function, any
\* one, or one of each.  No symmetry, for liveness; addPeer may stop the tunnel for good.
SPECIFICATION NativeSpec
CONSTANTS
  Sessions = {s1, s2}
  Keys = {k1, k2}
  None = None
  PeerKeys = {p1, p2}
  Callers = {t1, t2}
  Owner = t1
  Nobody = Nobody
  Endpoints = {e1}
  MaxPeers = 2
  Statuses = {200, 500}
  NoStatus = NoStatus
  Tasks = {a1}
  Gaps = {
    {}, {"GoHello"}, {"GoFree"}, {"GoStartTicker"}, {"GoTicks"}, {"GoUDPStart"},
    {"GoUDPStats"}, {"GoUDPSendTo"}, {"GoDNSLookup"}, {"GoTunStart"},
    {"GoTunWrite"}, {"GoTunStats"}, {"GoTunCapture"}, {"GoTunBuildUDP"},
    {"ArkMeshSelfTest"}, {"ArkMeshNetCheck"}, {"ArkMeshFree"}, {"ArkMeshIfProbe"},
    {"ArkMeshControlUp"}, {"ArkMeshControlStatus"}, {"ArkMeshPingPeers"},
    {"ArkMeshDnsProbe"}, {"ArkMeshControlDown"}, {"ArkMeshAttachTun"},
    {"GoUDPStart", "ArkMeshFree"}}
INVARIANTS
  ThreadsAreSafe
  SessionIsComplete
  TunnelIsSound
  HttpIsSound
  BridgeIsSound
PROPERTIES
  IdentityIsKept
  EverythingEnds
  BlockingCallsReturn
CHECK_DEADLOCK FALSE
