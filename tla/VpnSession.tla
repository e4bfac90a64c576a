----------------------------- MODULE VpnSession -----------------------------
(***************************************************************************)
(* A session as its user sees it: the home page (ets/view/HomeView.ets)    *)
(* with its connect button and its polling of the snapshot, the switch of  *)
(* the exit node on the nodes page (ets/view/NodesView.ets), and           *)
(* TunnelControl (ets/core/TunnelControl.ts), which both use, in the UI    *)
(* process; composed with the extension process of VpnAbility, to which    *)
(* the only ways are the snapshot file and the requests to start and stop  *)
(* the extension.                                                          *)
(***************************************************************************)
EXTENDS VpnAbility

CONSTANT Starts \* the calls of TunnelControl.start that may be made

VARIABLES
  status,    \* what the home page shows
  pending,   \* pendingStartAt is set
  graceOver, \* START_GRACE_MS have passed since it was set
  staleHits,
  tunnelUp,  \* the nodes page has read "up", whatever has become of it since
  start,     \* of a call of TunnelControl.start: "unused", "delay", "over"
  stopAsked  \* the system has yet to deliver onDestroy

uiVars      == <<status, pending, graceOver, staleHits>>
sessionVars == <<vars, uiVars, tunnelUp, start, stopAsked>>

STALE_FLIP_HITS == 2

SessionTypeOK ==
  /\ TypeOK
  /\ status \in {"DISCONNECTED", "CONNECTING", "CONNECTED", "ERROR"}
  /\ pending \in BOOLEAN /\ graceOver \in BOOLEAN /\ stopAsked \in BOOLEAN
  /\ staleHits \in 0 .. STALE_FLIP_HITS /\ tunnelUp \in BOOLEAN
  /\ start \in [Starts -> {"unused", "delay", "over"}]

SessionInit ==
  /\ Init
  /\ status = "DISCONNECTED" /\ pending = FALSE /\ graceOver = FALSE
  /\ staleHits = 0 /\ tunnelUp = FALSE
  /\ start = [t \in Starts |-> "unused"]
  /\ stopAsked = FALSE

-----------------------------------------------------------------------------
\* TunnelControl.stop: the request is taken when there is a process; otherwise
\* its promise is rejected.
AskStop == stopAsked' = (proc # "none")

\* TunnelControl.start up to the end of its delay; the outcome of the stop is
\* ignored.
BeginStart(t) ==
  /\ start[t] = "unused"
  /\ start' = [start EXCEPT ![t] = "delay"]
  /\ AskStop

\* HomeView.connect on a page that shows a connection, or one being made.
TapStop ==
  /\ status \in {"CONNECTED", "CONNECTING"}
  /\ pending' = FALSE /\ graceOver' = FALSE
  /\ AskStop
  /\ status' = IF proc = "none" THEN "ERROR" ELSE status
  /\ UNCHANGED <<vars, staleHits, tunnelUp, start>>

\* HomeView.connect otherwise.
TapConnect(t) ==
  /\ status \in {"DISCONNECTED", "ERROR"}
  /\ status' = "CONNECTING"
  /\ pending' = TRUE /\ graceOver' = FALSE
  /\ BeginStart(t)
  /\ UNCHANGED <<vars, staleHits, tunnelUp>>

\* refresh of the nodes page, when its tab is shown or at a tap: it does not ask
\* how old the snapshot is.
NodesRefresh ==
  /\ tunnelUp' = (snapshot = "up")
  /\ UNCHANGED <<vars, uiVars, start, stopAsked>>

\* chooseExit with a tunnel that was up when the nodes page looked last; without
\* one it only notes the choice.
SwitchExitNode(t) ==
  /\ tunnelUp
  /\ BeginStart(t)
  /\ UNCHANGED <<vars, uiVars, tunnelUp>>

\* RESTART_DELAY_MS have passed.  While the earlier process is there the
\* request to start reaches it as onRequest, which it does not declare, and
\* nothing happens.
Launch(t) ==
  /\ start[t] = "delay"
  /\ start' = [start EXCEPT ![t] = "over"]
  /\ IF proc = "none" THEN OnCreate ELSE UNCHANGED vars
  /\ UNCHANGED <<uiVars, tunnelUp, stopAsked>>

\* startVpnExtensionAbility fails, and the page that asked is told.
LaunchFails(t) ==
  /\ start[t] = "delay"
  /\ start' = [start EXCEPT ![t] = "over"]
  /\ \/ UNCHANGED uiVars
     \/ status' = "ERROR" /\ pending' = FALSE /\ graceOver' = FALSE
        /\ UNCHANGED staleHits
  /\ UNCHANGED <<vars, tunnelUp, stopAsked>>

GraceEnds ==
  /\ pending /\ ~graceOver
  /\ graceOver' = TRUE
  /\ UNCHANGED <<vars, status, pending, staleHits, tunnelUp, start, stopAsked>>

\* Mutant: showNoTunnel trusts the grace window to be ended elsewhere.
ShowNoTunnelPatient ==
  /\ status' = IF pending THEN "CONNECTING" ELSE "DISCONNECTED"
  /\ UNCHANGED <<pending, graceOver>>

\* showNoTunnel.
ShowNoTunnel ==
  IF pending /\ ~graceOver
  THEN status' = "CONNECTING" /\ UNCHANGED <<pending, graceOver>>
  ELSE /\ status' = IF pending THEN "ERROR" ELSE "DISCONNECTED"
       /\ pending' = FALSE /\ graceOver' = FALSE

\* refreshTunnelStatus without a snapshot, or with the last word of onDestroy.
RefreshStopped ==
  /\ snapshot \in {"none", "stopped"}
  /\ staleHits' = 0
  /\ ShowNoTunnel

\* Mutant: the counter of stale reads is reset by a stale read.
RefreshStaleForgets ==
  /\ snapshot \notin {"none", "stopped"} /\ ~fresh
  /\ staleHits' = 0
  /\ UNCHANGED <<status, pending, graceOver>>

\* refreshTunnelStatus with a snapshot nobody has written for a while: one
\* stale read does not count.
RefreshStale ==
  /\ snapshot \notin {"none", "stopped"} /\ ~fresh
  /\ staleHits' = IF staleHits = STALE_FLIP_HITS THEN staleHits
                  ELSE staleHits + 1
  /\ IF staleHits' < STALE_FLIP_HITS
     THEN UNCHANGED <<status, pending, graceOver>>
     ELSE ShowNoTunnel

\* refreshTunnelStatus with a snapshot it trusts.
RefreshFresh ==
  /\ snapshot \notin {"none", "stopped"} /\ fresh
  /\ staleHits' = 0 /\ pending' = FALSE /\ graceOver' = FALSE
  /\ status' = CASE snapshot = "up"     -> "CONNECTED"
                 [] snapshot = "failed" -> "ERROR"
                 [] OTHER               -> "CONNECTING"

Refresh ==
  /\ RefreshStopped \/ RefreshStale \/ RefreshFresh
  /\ UNCHANGED <<vars, tunnelUp, start, stopAsked>>

UI ==
  \/ TapStop
  \/ \E t \in Starts : TapConnect(t) \/ SwitchExitNode(t)
  \/ Refresh \/ GraceEnds \/ NodesRefresh
  \/ \E t \in Starts : Launch(t) \/ LaunchFails(t)

\* A step A of the extension process; its end settles the request to stop.
Extension(A) ==
  /\ A
  /\ stopAsked' = (stopAsked /\ proc' = "alive")
  /\ UNCHANGED <<uiVars, tunnelUp, start>>

SessionNext == UI \/ Extension(Process)

(***************************************************************************)
(* The home page is in front and polls (its timer re-arms itself), the     *)
(* delay and the grace window pass, a request to stop is delivered, and    *)
(* the extension is as fair as VpnAbility says.  Nobody has to tap.        *)
(***************************************************************************)
Stopping == stopAsked /\ (OnDestroy \/ ProcessEnds)

SessionFairness ==
  /\ WF_sessionVars(Refresh) /\ WF_sessionVars(GraceEnds)
  /\ \A t \in Starts : WF_sessionVars(Launch(t) \/ LaunchFails(t))
  /\ WF_sessionVars(Extension(RunGoTunnel))
  /\ WF_sessionVars(Extension(Heartbeat))
  /\ WF_sessionVars(Extension(CoreMoves))
  /\ WF_sessionVars(Extension(AgesUnwritten))
  /\ WF_sessionVars(Extension(Ends))
  /\ WF_sessionVars(Extension(Stopping))

SessionSpec     == SessionInit /\ [][SessionNext]_sessionVars
FairSessionSpec == SessionSpec /\ SessionFairness

-----------------------------------------------------------------------------
(***************************************************************************)
(* Properties.                                                             *)
(***************************************************************************)

\* The page never stays at "connecting": the process that was asked for comes
\* up, fails, dies or never appears, and each of these shows, although the
\* page has nothing but a file and its age to go by.
ConnectingEnds == status = "CONNECTING" ~> status # "CONNECTING"

\* The page does not go on showing a connection whose process is gone, however
\* it went: the reads that find the snapshot stale add up.
ConnectionsFade ==
  status = "CONNECTED" /\ proc = "none" ~> status # "CONNECTED" \/ proc # "none"

\* "After the stop one has to wait until the extension has really gone through
\* onDestroy" (TunnelControl.ts:14): no request to start is sent while a stop is
\* undelivered.  The code does not keep this promise: it waits two seconds, and
\* the thread that has to run onDestroy may be inside a probe of the core for
\* longer.
RestartWaitsForStop ==
  [][\A t \in Starts : start[t] = "delay" /\ start'[t] = "over"
       => ~stopAsked]_sessionVars

=============================================================================
