----------------------------- MODULE VpnAbility -----------------------------
(***************************************************************************)
(* The VPN extension process (ets/vpn/ArkMeshVpnAbility.ets) around the Go *)
(* core: onCreate, the asynchronous runGoTunnel with the points where it   *)
(* is suspended in an await, the 2 s heartbeat that writes the status      *)
(* snapshot (ets/core/TunnelStatusStore.ts), onDestroy, and the end of the *)
(* process, orderly or not.                                                *)
(*                                                                         *)
(* The process has one JavaScript thread: a step is what runs between two  *)
(* suspensions.  The thread is blocked inside coreControlUp, so nothing    *)
(* else of the process moves until the core has built its first server.    *)
(* What awaits and timers see of the core is GoCore; its internal steps    *)
(* interleave freely.  The VPN service, the system that starts and ends    *)
(* the process, and how long anything takes are external: an awaited poll  *)
(* may end at its deadline in any state.                                   *)
(***************************************************************************)
EXTENDS Naturals

VARIABLES
  state, building, current, \* the Go core of this process
  proc,     \* the process: "none", "alive", "destroyed" (onDestroy has run)
  run,      \* where runGoTunnel is suspended
  timers,   \* "status" (statusTimer) and "stats" (goStatsTimer)
  vpn,      \* the interface: "none", "creating", "open"
  cleaning, \* cleanupVpn is suspended in vpnConnection.destroy
  snapshot, \* the state in the snapshot file; "none" when there is no file
  fresh     \* it is younger than SNAPSHOT_STALE_MS

coreVars == <<state, building, current>>
fileVars == <<snapshot, fresh>>
vars     == <<coreVars, proc, run, timers, vpn, cleaning, fileVars>>

\* One call of coreControlUp and one of coreAttachTun in a process.
Attempts == {"register", "reattach"}

Core == INSTANCE GoCore WITH Attempts <- Attempts, None <- "none"

Polling   == {"registering", "reattaching"}
Suspended == Polling \cup {"creating", "peers", "pings"}

TypeOK ==
  /\ Core!TypeOK
  /\ proc \in {"none", "alive", "destroyed"}
  /\ run \in Suspended \cup {"none", "loading", "ended"}
  /\ timers \subseteq {"status", "stats"}
  /\ vpn \in {"none", "creating", "open"}
  /\ cleaning \in BOOLEAN /\ fresh \in BOOLEAN
  /\ snapshot \in Core!Running
                  \cup {"none", "boot", "idle", "failed", "stopped"}

Init ==
  /\ Core!Init
  /\ proc = "none" /\ run = "none" /\ timers = {}
  /\ vpn = "none" /\ cleaning = FALSE
  /\ snapshot = "none" /\ fresh = FALSE

-----------------------------------------------------------------------------
\* TunnelStatusStore.write: the rename puts one whole snapshot in place.
Write(st) == snapshot' = st /\ fresh' = TRUE

\* The JavaScript thread is not inside coreControlUp.
ThreadIsFree == run # "loading" /\ "register" \notin building

\* Mutant: publishFailure does not write when there is a snapshot already.
PublishFailureOnce ==
  /\ timers' = timers \ {"status"}
  /\ IF snapshot = "none" THEN Write("failed") ELSE UNCHANGED fileVars

\* Neither the core nor an existing VPN is taken down.
PublishFailure == timers' = timers \ {"status"} /\ Write("failed")

\* runGoTunnel returns after publishFailure.
GivesUp ==
  /\ run' = "ended" /\ PublishFailure

\* onCreate up to coreControlUp: the boot snapshot is on disk before the core
\* is loaded.
OnCreate ==
  /\ proc = "none"
  /\ proc' = "alive" /\ run' = "loading"
  /\ Write("boot")
  /\ timers' = {"status"}
  /\ UNCHANGED <<coreVars, vpn, cleaning>>

\* coreControlUp accepts, and blocks the thread until the server is built...
CoreControlUp ==
  /\ run = "loading"
  /\ Core!Up("register")
  /\ run' = "registering"
  /\ UNCHANGED <<proc, timers, vpn, cleaning, fileVars>>

\* ... or refuses, or its library does not load.
CoreControlUpFails ==
  /\ run = "loading"
  /\ GivesUp
  /\ UNCHANGED <<coreVars, proc, vpn, cleaning>>

\* pollGoCore returns the status.
PollSucceeds == state = "up"

\* pollGoCore has seen failed, or has reached its deadline: whatever the state
\* is by then, up included.
PollFails ==
  /\ ThreadIsFree /\ run \in Polling
  /\ GivesUp
  /\ UNCHANGED <<coreVars, proc, vpn, cleaning>>

\* After the first poll: the addresses are there, vpnConnection.create is
\* called ...
Registered ==
  /\ ThreadIsFree /\ run = "registering"
  /\ PollSucceeds
  /\ run' = "creating" /\ vpn' = "creating"
  /\ UNCHANGED <<coreVars, proc, timers, cleaning, fileVars>>

\* ... or the control plane has assigned none.
RegisteredWithoutIPs ==
  /\ ThreadIsFree /\ run = "registering"
  /\ PollSucceeds
  /\ GivesUp
  /\ UNCHANGED <<coreVars, proc, vpn, cleaning>>

VpnCreateFails ==
  /\ run = "creating"
  /\ vpn' = "none"
  /\ GivesUp
  /\ UNCHANGED <<coreVars, proc, cleaning>>

\* Whether onDestroy has run meanwhile is not asked: coreAttachTun is called
\* with the new descriptor, and the core accepts or refuses.
VpnCreated ==
  /\ run = "creating"
  /\ vpn' = "open"
  /\ \/ Core!Attach("reattach") /\ run' = "reattaching"
        /\ UNCHANGED <<timers, fileVars>>
     \/ state \notin Core!Running /\ GivesUp /\ UNCHANGED coreVars
  /\ UNCHANGED <<proc, cleaning>>

Reattached ==
  /\ run = "reattaching"
  /\ PollSucceeds
  /\ run' = "peers" /\ timers' = timers \cup {"stats"}
  /\ UNCHANGED <<coreVars, proc, vpn, cleaning, fileVars>>

\* Mutant: the probe publishes a state of its own.
AutoProbeOwnState == run' = "ended" /\ Write("probing")

\* runAutoDnsProbe, which publishes the status first, and the end of
\* runGoTunnel.
AutoProbe == run' = "ended" /\ Write(state)

\* awaitPeers returns, at the latest after 20 s; corePingPeers is accepted
\* only while the core is up.
PeersAwaited ==
  /\ run = "peers"
  /\ IF state = "up" THEN run' = "pings" /\ UNCHANGED fileVars ELSE AutoProbe
  /\ UNCHANGED <<coreVars, proc, timers, vpn, cleaning>>

\* awaitPings returns, at the latest after 40 s.
PingsAwaited ==
  /\ run = "pings"
  /\ AutoProbe
  /\ UNCHANGED <<coreVars, proc, timers, vpn, cleaning>>

RunGoTunnel ==
  \/ CoreControlUp \/ CoreControlUpFails
  \/ Registered \/ RegisteredWithoutIPs \/ PollFails
  \/ VpnCreated \/ VpnCreateFails
  \/ Reattached \/ PeersAwaited \/ PingsAwaited

\* publishStatus on the timer.
Heartbeat ==
  /\ ThreadIsFree
  /\ "status" \in timers
  /\ Write(state)
  /\ UNCHANGED <<coreVars, proc, run, timers, vpn, cleaning>>

\* Mutant: onDestroy leaves the core alone.
OnDestroyKeepsCore ==
  /\ ThreadIsFree
  /\ proc = "alive"
  /\ proc' = "destroyed" /\ timers' = {}
  /\ Write("stopped")
  /\ cleaning' = (vpn # "none")
  /\ UNCHANGED <<coreVars, run, vpn>>

\* Mutant: onDestroy leaves the heartbeat running.
OnDestroyKeepsTimer ==
  /\ ThreadIsFree
  /\ proc = "alive"
  /\ proc' = "destroyed"
  /\ Core!Down
  /\ Write("stopped")
  /\ cleaning' = (vpn # "none")
  /\ UNCHANGED <<run, timers, vpn>>

\* runGoTunnel, if suspended, is not told.
OnDestroy ==
  /\ ThreadIsFree
  /\ proc = "alive"
  /\ proc' = "destroyed" /\ timers' = {}
  /\ Core!Down
  /\ Write("stopped")
  /\ cleaning' = (vpn # "none")
  /\ UNCHANGED <<run, vpn>>

\* destroy closes an interface that exists; one being created comes up later.
VpnDestroyed ==
  /\ cleaning
  /\ cleaning' = FALSE
  /\ vpn' = IF vpn = "open" THEN "none" ELSE vpn
  /\ UNCHANGED <<coreVars, proc, run, timers, fileVars>>

\* The process ends: after onDestroy, or killed or crashed at any time, which
\* leaves the snapshot as it is.
ProcessEnds ==
  /\ proc # "none"
  /\ proc' = "none" /\ run' = "none" /\ timers' = {}
  /\ vpn' = "none" /\ cleaning' = FALSE
  /\ state' = "idle" /\ building' = {} /\ current' = "none"
  /\ UNCHANGED fileVars

\* The snapshot reaches the age at which the UI no longer trusts it, because
\* nobody writes it or because a synchronous call holds up the heartbeat.
Ages ==
  /\ fresh /\ fresh' = FALSE
  /\ UNCHANGED <<coreVars, proc, run, timers, vpn, cleaning, snapshot>>

CoreMoves ==
  /\ Core!Internal
  /\ UNCHANGED <<proc, run, timers, vpn, cleaning, fileVars>>

Process ==
  \/ RunGoTunnel \/ Heartbeat \/ OnDestroy \/ VpnDestroyed \/ ProcessEnds
  \/ Ages \/ CoreMoves

Next == OnCreate \/ Process

(***************************************************************************)
(* Awaits end (each has a deadline, and the VPN service answers), timers   *)
(* fire, the core keeps GoCore's promise, a snapshot nobody writes ages,   *)
(* and a process whose onDestroy has run ends.  Nothing else has to        *)
(* happen.                                                                 *)
(***************************************************************************)
AgesUnwritten == "status" \notin timers /\ Ages
Ends          == proc = "destroyed" /\ ProcessEnds

Fairness ==
  /\ WF_vars(RunGoTunnel) /\ WF_vars(Heartbeat)
  /\ WF_vars(CoreMoves)
  /\ WF_vars(AgesUnwritten) /\ WF_vars(Ends)

Spec == Init /\ [][Next]_vars

-----------------------------------------------------------------------------
(***************************************************************************)
(* Properties.                                                             *)
(***************************************************************************)

\* "Otherwise the UI would stay at connecting" (ArkMeshVpnAbility.ets:513):
\* when the heartbeat of a running extension has stopped, the last thing on
\* disk is the failure that stopped it, whichever step of runGoTunnel failed.
SilenceIsExplained ==
  proc = "alive" /\ "status" \notin timers => snapshot = "failed"

\* What ArkMeshAttachTun asks for ("called only after the status has become
\* up", main.go:86) and what the run "down" assumes: the core accepts a
\* descriptor only while it is up, and never once onDestroy has taken it down,
\* although runGoTunnel resumes without asking.
AttachWhenUp ==
  [][run = "creating" /\ run' = "reattaching"
       => state = "up" /\ proc = "alive"]_vars

\* When runGoTunnel had ended, "stopped" is the last word of a process: only a
\* resumed runGoTunnel can write after onDestroy.
StoppedStays ==
  [][proc = "destroyed" /\ run = "ended" => snapshot' = snapshot]_vars

\* The UI takes "stopped" for "the last word the extension writes, by hand, in
\* onDestroy" (HomeView.ets:171) and exempts it from the staleness check.  The
\* code does not keep this promise: a runGoTunnel suspended in an await writes
\* after onDestroy.
StoppedIsLast == [][proc = "destroyed" => snapshot' = snapshot]_vars

=============================================================================
