-------------------------- MODULE VpnSessionProofs --------------------------
(***************************************************************************)
(* Proofs about the session: the extension process of VpnAbility, alone    *)
(* and with the pages of VpnSession, for any set of starts.  A page moves  *)
(* nothing of the extension but by starting a process, so what holds of    *)
(* VpnAbility holds of the session.                                        *)
(***************************************************************************)
EXTENDS VpnSession, TLAPS

-----------------------------------------------------------------------------
(***************************************************************************)
(* The inductive invariant: what runGoTunnel may rely on in each await.    *)
(***************************************************************************)

\* The heartbeat runs as long as runGoTunnel does, and never after onDestroy.
HeartbeatInv ==
  /\ proc = "none" => run = "none"
  /\ proc = "alive" => run # "none" /\ (run # "ended" => "status" \in timers)
  /\ proc = "destroyed" => "status" \notin timers /\ run # "loading"

CoreAtRest == building = {} /\ current = "none"

\* Until coreAttachTun nobody but the attempt of coreControlUp moves the core:
\* it is built first, then it reports, and then nothing is left.  onDestroy takes
\* the core down for good.
CoreInv ==
  /\ proc = "none" \/ run = "loading" => CoreAtRest /\ state = "idle"
  /\ run = "registering" =>
       /\ building \subseteq {"register"}
       /\ ~CoreAtRest => state = "starting" /\ proc = "alive"
       /\ building # {} => current = "none"
       /\ proc = "destroyed" => state = "idle"
  /\ run = "creating" =>
       /\ CoreAtRest
       /\ \/ state = "up" /\ proc = "alive"
          \/ state = "idle" /\ proc = "destroyed"

IInv == TypeOK /\ SilenceIsExplained /\ HeartbeatInv /\ CoreInv

-----------------------------------------------------------------------------
\* Every step of the extension process keeps it.
LEMMA IInvStep ==
  ASSUME IInv, Next
  PROVE  IInv'
<1> USE DEF IInv, TypeOK, SilenceIsExplained, HeartbeatInv, CoreInv, CoreAtRest,
        Core!TypeOK, Core!Running, Core!Waiting, Suspended, Polling
<1>1. ASSUME OnCreate
      PROVE  IInv'
    BY <1>1 DEF OnCreate, Write, coreVars
<1>2. ASSUME CoreControlUp
      PROVE  IInv'
    BY <1>2 DEF CoreControlUp, Core!Up, Core!Running, Core!Waiting,
      Attempts, fileVars
<1>3. ASSUME CoreControlUpFails
      PROVE  IInv'
    BY <1>3 DEF CoreControlUpFails, GivesUp, PublishFailure, Write, coreVars
<1>4. ASSUME Registered
      PROVE  IInv'
    BY <1>4 DEF Registered, PollSucceeds, coreVars, fileVars
<1>5. ASSUME RegisteredWithoutIPs
      PROVE  IInv'
    BY <1>5 DEF RegisteredWithoutIPs, GivesUp, PublishFailure, Write,
      coreVars
<1>6. ASSUME PollFails
      PROVE  IInv'
    BY <1>6 DEF PollFails, Polling, GivesUp, PublishFailure, Write, coreVars
<1>7. ASSUME VpnCreated
      PROVE  IInv'
    BY <1>7 DEF VpnCreated, Core!Attach, Core!Running, Core!Waiting,
      Attempts, GivesUp, PublishFailure, Write, coreVars, fileVars
<1>8. ASSUME VpnCreateFails
      PROVE  IInv'
    BY <1>8 DEF VpnCreateFails, GivesUp, PublishFailure, Write, coreVars
<1>9. ASSUME Reattached
      PROVE  IInv'
    BY <1>9 DEF Reattached, PollSucceeds, coreVars, fileVars
<1>10. ASSUME PeersAwaited
      PROVE  IInv'
    BY <1>10, ZenonT(60) DEF PeersAwaited, AutoProbe, Write, coreVars, fileVars
<1>11. ASSUME PingsAwaited
      PROVE  IInv'
    BY <1>11 DEF PingsAwaited, AutoProbe, Write, coreVars
<1>12. ASSUME Heartbeat
      PROVE  IInv'
    BY <1>12 DEF Heartbeat, Write, coreVars
<1>13. ASSUME OnDestroy
      PROVE  IInv'
    BY <1>13 DEF OnDestroy, ThreadIsFree, Core!Down, Write
<1>14. ASSUME VpnDestroyed
      PROVE  IInv'
  <2>1. cleaning' \in BOOLEAN /\ fresh' \in BOOLEAN
    BY <1>14, Zenon DEF VpnDestroyed, fileVars
  <2>2. vpn' \in {"none", "creating", "open"}
    BY <1>14 DEF VpnDestroyed
  <2>3. UNCHANGED <<coreVars, proc, run, timers, snapshot>>
    BY <1>14 DEF VpnDestroyed, fileVars
  <2>4. QED
    BY <2>1, <2>2, <2>3 DEF coreVars
<1>15. ASSUME ProcessEnds
      PROVE  IInv'
    BY <1>15 DEF ProcessEnds, fileVars
<1>16. ASSUME Ages
      PROVE  IInv'
  <2>1. cleaning' \in BOOLEAN /\ fresh' \in BOOLEAN
    BY <1>16, Zenon DEF Ages
  <2>2. UNCHANGED <<coreVars, proc, run, timers, vpn, snapshot>>
    BY <1>16 DEF Ages
  <2>3. QED
    BY <2>1, <2>2 DEF coreVars
<1>17. ASSUME CoreMoves
      PROVE  IInv'
  <2>1. UNCHANGED <<proc, run, timers, vpn, cleaning, snapshot, fresh>>
    BY <1>17 DEF CoreMoves, fileVars
  <2>2. ASSUME NEW a \in Attempts, Core!Publish(a)
        PROVE  IInv'
    <3>1. run \notin {"loading", "creating"} /\ proc # "none"
      BY <2>2 DEF Core!Publish
    <3>2. building' \subseteq Attempts /\ current' \in Attempts
      BY <2>2 DEF Core!Publish
    <3>3. ASSUME run = "registering"
          PROVE  building' = {} /\ state = "starting" /\ proc = "alive"
      BY <2>2, <3>3 DEF Core!Publish
    <3>4. QED
      BY <2>1, <2>2, <3>1, <3>2, <3>3 DEF Core!Publish
  <2>3. ASSUME NEW a \in Attempts, Core!AttachFails(a)
        PROVE  IInv'
    BY <2>1, <2>3 DEF Core!AttachFails, Attempts
  <2>4. ASSUME Core!Report
        PROVE  IInv'
    BY <2>1, <2>4 DEF Core!Report
  <2>5. QED
    BY <1>17, <2>2, <2>3, <2>4 DEF CoreMoves, Core!Internal
<1>18. QED
  BY <1>1, <1>2, <1>3, <1>4, <1>5, <1>6, <1>7, <1>8, <1>9, <1>10, <1>11,
     <1>12, <1>13, <1>14, <1>15, <1>16, <1>17 DEF Next, Process, RunGoTunnel

\* What a page does leaves the extension process alone, or starts one.
LEMMA SessionStep ==
  ASSUME [SessionNext]_sessionVars
  PROVE  [Next]_vars
<1>1. ASSUME UI
      PROVE  [Next]_vars
  <2>1. ASSUME NEW t \in Starts, Launch(t)
        PROVE  [Next]_vars
    BY <2>1 DEF Launch, Next
  <2>2. ASSUME NEW t \in Starts,
               TapConnect(t) \/ SwitchExitNode(t) \/ LaunchFails(t)
        PROVE  UNCHANGED vars
    BY <2>2 DEF TapConnect, SwitchExitNode, LaunchFails
  <2>3. ASSUME TapStop \/ Refresh \/ GraceEnds \/ NodesRefresh
        PROVE  UNCHANGED vars
    BY <2>3 DEF TapStop, Refresh, GraceEnds, NodesRefresh
  <2>4. QED
    BY <1>1, <2>1, <2>2, <2>3 DEF UI
<1>2. ASSUME Extension(Process)
      PROVE  [Next]_vars
  BY <1>2 DEF Extension, Next
<1>3. ASSUME UNCHANGED sessionVars
      PROVE  [Next]_vars
  BY <1>3 DEF sessionVars
<1>4. QED
  BY <1>1, <1>2, <1>3 DEF SessionNext

LEMMA IInvAlways == SessionSpec => []IInv
<1>1. SessionInit => IInv
  BY DEF SessionInit, Init, Core!Init, IInv, TypeOK, Core!TypeOK, Core!Running,
     Core!Waiting, SilenceIsExplained, HeartbeatInv, CoreInv, CoreAtRest
<1>2. ASSUME IInv, UNCHANGED vars
      PROVE  IInv'
  BY <1>2 DEF vars, coreVars, fileVars, IInv, TypeOK, Core!TypeOK,
     Core!Running, Core!Waiting, SilenceIsExplained, HeartbeatInv, CoreInv,
     CoreAtRest
<1>3. IInv /\ [SessionNext]_sessionVars => IInv'
  BY <1>2, IInvStep, SessionStep
<1>4. QED
  BY <1>1, <1>3, PTL DEF SessionSpec

-----------------------------------------------------------------------------
\* Every variable keeps its type, the page's count of stale reads its bound, and
\* what the page shows is one of its four states (HomeView.ets:166).
THEOREM TypeCorrect == SessionSpec => []SessionTypeOK
<1> DEFINE UITypeOK ==
      /\ status \in {"DISCONNECTED", "CONNECTING", "CONNECTED", "ERROR"}
      /\ pending \in BOOLEAN /\ graceOver \in BOOLEAN /\ stopAsked \in BOOLEAN
      /\ staleHits \in 0 .. STALE_FLIP_HITS /\ tunnelUp \in BOOLEAN
      /\ start \in [Starts -> {"unused", "delay", "over"}]
<1>1. SessionInit => UITypeOK
  <2>1. ASSUME SessionInit
        PROVE  /\ pending \in BOOLEAN /\ graceOver \in BOOLEAN
               /\ stopAsked \in BOOLEAN /\ tunnelUp \in BOOLEAN
    BY <2>1, Zenon DEF SessionInit
  <2>2. ASSUME SessionInit
        PROVE  /\ staleHits \in 0 .. STALE_FLIP_HITS
               /\ start \in [Starts -> {"unused", "delay", "over"}]
    BY <2>2 DEF SessionInit, STALE_FLIP_HITS
  <2>3. QED
    BY <2>1, <2>2, Zenon DEF SessionInit
<1>2. ASSUME UITypeOK, UI
      PROVE  UITypeOK'
  <2>1. ASSUME NEW t \in Starts, TapConnect(t)
        PROVE  UITypeOK'
    BY <1>2, <2>1 DEF TapConnect, BeginStart, AskStop
  <2>2. ASSUME NEW t \in Starts, SwitchExitNode(t)
        PROVE  UITypeOK'
    BY <1>2, <2>2 DEF SwitchExitNode, BeginStart, AskStop, uiVars
  <2>3. ASSUME NEW t \in Starts, Launch(t)
        PROVE  UITypeOK'
    BY <1>2, <2>3 DEF Launch, uiVars
  <2>4. ASSUME NEW t \in Starts, LaunchFails(t)
        PROVE  UITypeOK'
    BY <1>2, <2>4 DEF LaunchFails, uiVars
  <2>5. ASSUME TapStop
        PROVE  UITypeOK'
    BY <1>2, <2>5 DEF TapStop, AskStop
  <2>6. ASSUME Refresh
        PROVE  UITypeOK'
    <3>1. staleHits' \in 0 .. STALE_FLIP_HITS
      BY <1>2, <2>6 DEF Refresh, RefreshStopped, RefreshStale, RefreshFresh,
         STALE_FLIP_HITS
    <3>2. ASSUME ShowNoTunnel
          PROVE  /\ status' \in {"DISCONNECTED", "CONNECTING", "ERROR"}
                 /\ pending' \in BOOLEAN /\ graceOver' \in BOOLEAN
      BY <1>2, <3>2, Zenon DEF ShowNoTunnel
    <3>3. ASSUME UNCHANGED <<status, pending, graceOver>> \/ RefreshFresh
          PROVE  /\ status' \in {"DISCONNECTED", "CONNECTING", "CONNECTED", "ERROR"}
                 /\ pending' \in BOOLEAN /\ graceOver' \in BOOLEAN
      BY <1>2, <3>3, Zenon DEF RefreshFresh
    <3>4. QED
      BY <1>2, <2>6, <3>1, <3>2, <3>3, Zenon
      DEF Refresh, RefreshStopped, RefreshStale
  <2>7. ASSUME GraceEnds
        PROVE  UITypeOK'
    BY <1>2, <2>7 DEF GraceEnds
  <2>8. ASSUME NodesRefresh
        PROVE  UITypeOK'
    BY <1>2, <2>8, Zenon DEF NodesRefresh, uiVars
  <2>9. QED
    BY <1>2, <2>1, <2>2, <2>3, <2>4, <2>5, <2>6, <2>7, <2>8 DEF UI
<1>3. ASSUME UITypeOK, Extension(Process)
      PROVE  UITypeOK'
  BY <1>3, Zenon DEF Extension, uiVars
<1>4. ASSUME UITypeOK, UNCHANGED sessionVars
      PROVE  UITypeOK'
  BY <1>4 DEF sessionVars, uiVars
<1>5. UITypeOK /\ [SessionNext]_sessionVars => UITypeOK'
  BY <1>2, <1>3, <1>4 DEF SessionNext
<1>6. IInv /\ UITypeOK => SessionTypeOK
  BY DEF IInv, SessionTypeOK
<1>7. QED
  BY <1>1, <1>5, <1>6, IInvAlways, PTL DEF SessionSpec

\* However the pages start and stop the extension, a running extension whose
\* heartbeat has stopped has left its failure on disk: the home page never
\* stays at "connecting" because publishFailure (ArkMeshVpnAbility.ets:515) was
\* skipped on some path of runGoTunnel.
THEOREM SilenceExplained == SessionSpec => []SilenceIsExplained
<1>1. IInv => SilenceIsExplained
  BY DEF IInv
<1>2. QED
  BY <1>1, IInvAlways, PTL

\* However runGoTunnel is overtaken by onDestroy, the core accepts its
\* descriptor only while it is up in a process that is not being destroyed,
\* which is what ArkMeshAttachTun asks of its caller (main.go:86).
THEOREM AttachesWhenUp == SessionSpec => AttachWhenUp
<1>1. ASSUME IInv, Next, run = "creating", run' = "reattaching"
      PROVE  state = "up" /\ proc = "alive"
  <2>1. VpnCreated
    BY <1>1 DEF Next, Process, RunGoTunnel, OnCreate, CoreControlUp,
       CoreControlUpFails, Registered, RegisteredWithoutIPs, PollFails,
       Polling, VpnCreateFails, Reattached, PeersAwaited, PingsAwaited,
       GivesUp, AutoProbe, Heartbeat, OnDestroy, VpnDestroyed, ProcessEnds,
       Ages, CoreMoves
  <2>2. state \in Core!Running
    BY <1>1, <2>1 DEF VpnCreated, Core!Attach, GivesUp
  <2>3. QED
    BY <1>1, <2>2 DEF IInv, CoreInv, Core!Running, Core!Waiting
<1>2. IInv /\ [SessionNext]_sessionVars
        => [run = "creating" /\ run' = "reattaching"
              => state = "up" /\ proc = "alive"]_vars
  BY <1>1, SessionStep
<1>3. QED
  BY <1>2, IInvAlways, PTL DEF SessionSpec, AttachWhenUp

\* Once runGoTunnel has ended, nothing writes over the snapshot of a process
\* whose onDestroy has run, up to its end: the last word that the page reads
\* ("stopped", ArkMeshVpnAbility.ets:243) is replaced by a new process only.
THEOREM LastWordStays == SessionSpec => StoppedStays
<1>1. ASSUME IInv, Next, proc = "destroyed", run = "ended"
      PROVE  snapshot' = snapshot
  <2>1. "status" \notin timers
    BY <1>1 DEF IInv, HeartbeatInv
  <2>2. VpnDestroyed \/ ProcessEnds \/ Ages \/ CoreMoves
    BY <1>1, <2>1 DEF Next, Process, RunGoTunnel, OnCreate, CoreControlUp,
       CoreControlUpFails, Registered, RegisteredWithoutIPs, PollFails,
       Polling, VpnCreated, VpnCreateFails, Reattached, PeersAwaited,
       PingsAwaited, Heartbeat, OnDestroy
  <2>3. QED
    BY <2>2 DEF VpnDestroyed, ProcessEnds, Ages, CoreMoves, fileVars
<1>2. IInv /\ [SessionNext]_sessionVars
        => [proc = "destroyed" /\ run = "ended"
              => snapshot' = snapshot]_vars
  BY <1>1, SessionStep
<1>3. QED
  BY <1>2, IInvAlways, PTL DEF SessionSpec, StoppedStays

=============================================================================
