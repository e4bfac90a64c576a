---------------------------- MODULE ControlPlane ----------------------------
(***************************************************************************)
(* The control plane of the Go core (go/arkmesh-core/control.go): the      *)
(* package variables guarded by ctlMu, the exported calls that change      *)
(* them, and the goroutines those calls leave behind.                      *)
(*                                                                         *)
(* One step is one critical section of ctlMu together with the purely      *)
(* local or external work that leads to it.  The calls of main.go arrive   *)
(* one after the other, because their only caller is the main thread of    *)
(* the VPN extension process (the comments at control.go:206 and :427);    *)
(* the goroutines of all earlier calls keep running in between.            *)
(*                                                                         *)
(* A tsnet.Server is a member of Servers.  Every server is built by one    *)
(* call, controlUp or controlAttachTun, and is brought up by one           *)
(* goroutine, so the member also names that goroutine (job) and, for an    *)
(* attach, the VPN fd it was given and the ohosTun wrapped around it.      *)
(*                                                                         *)
(* An operator introduced as a mutant is no part of the specification: it  *)
(* is the next definition with a plausible bug, and breaks a property.     *)
(***************************************************************************)
EXTENDS Naturals, FiniteSets

CONSTANTS
  Servers,      \* the servers that may be built in one process lifetime
  ExitNodes,    \* the exit node addresses a user may choose
  NoExit,       \* "" : no exit node
  NeverUp,      \* ctlParams before the first controlUp (controlURL == "")
  None,         \* the nil pointer, and -1 for a descriptor
  Rounds,       \* the rounds of controlPingPeers that may be started
  MaxPingPeers, \* maxPingPeers (3 in the code)
  MaxPathPeers  \* maxPathPeers (8 in the code)

ASSUME ConstantsAssumption ==
  /\ None \notin Servers
  /\ NoExit \notin ExitNodes
  /\ NeverUp \notin ExitNodes \cup {NoExit}
  /\ MaxPingPeers \in Nat \ {0}
  /\ MaxPathPeers \in Nat \ {0}

VARIABLES
  ctlState,     \* "idle", "starting", "up", "reattaching" or "failed"
  ctlErr,       \* the cause reported with "failed"; "none" is the empty string
  ctlParams,    \* the exit node of the last controlUp
  ctlSrv,       \* the published server
  ctlTunFD,     \* the descriptor of the last attach
  ctlTun,       \* the published tun device
  ctlPings,     \* how many results of each round are in ctlPings
  ctlPathPings, \* the same for ctlPathPings
  ctlPingBusy,
  life,         \* of a server: not constructed, live, being closed, closed
  applied,      \* the exit node in the prefs of a server
  job,          \* the goroutine that brings a server up
  round,        \* the goroutine of a ping round
  path,         \* the probePaths goroutine a round leaves behind
  caller        \* what the main thread of the extension is inside of

ctlVars  == <<ctlState, ctlErr, ctlParams, ctlSrv, ctlTunFD, ctlTun>>
listVars == <<ctlPings, ctlPathPings>>
pingVars == <<ctlPings, ctlPathPings, ctlPingBusy, round, path>>
vars     == <<ctlVars, pingVars, life, applied, job, caller>>

ExitChoice == ExitNodes \cup {NoExit}
Running    == {"starting", "up", "reattaching"}
Free       == [op |-> "none", srv |-> None, tun |-> None]

JobPc   == {"unused", "built", "close", "wrap", "publish", "up", "exit",
            "commit", "done"}
RoundPc == {"unused", "status", "nobody", "pinging", "return", "done"}
PathPc  == {"unused", "status", "nobody", "probing", "done"}

JobType    == [pc : JobPc, exit : ExitChoice, old : Servers \cup {None}]
RoundType  == [pc : RoundPc, tsmp : BOOLEAN, left : Nat]
PathType   == [pc : PathPc, left : Nat]
CallerType == [op : {"none", "up", "status", "probe", "down"},
               srv : Servers \cup {None}, tun : Servers \cup {None}]

(***************************************************************************)
(* The type invariant.                                                     *)
(***************************************************************************)
TypeOK ==
  /\ ctlState \in Running \cup {"idle", "failed"}
  /\ ctlErr \in {"none", "up", "exit", "tun"}
  /\ ctlParams \in ExitChoice \cup {NeverUp}
  /\ ctlSrv \in Servers \cup {None}
  /\ ctlTunFD \in Servers \cup {None}
  /\ ctlTun \in Servers \cup {None}
  /\ ctlPings \in [Rounds -> Nat]
  /\ ctlPathPings \in [Rounds -> Nat]
  /\ ctlPingBusy \in BOOLEAN
  /\ life \in [Servers -> {"none", "live", "closing", "closed"}]
  /\ applied \in [Servers -> ExitChoice]
  /\ job \in [Servers -> JobType]
  /\ round \in [Rounds -> RoundType]
  /\ path \in [Rounds -> PathType]
  /\ caller \in CallerType

Nothing == [r \in Rounds |-> 0]

Init ==
  /\ ctlState = "idle" /\ ctlErr = "none" /\ ctlParams = NeverUp
  /\ ctlSrv = None /\ ctlTunFD = None /\ ctlTun = None
  /\ ctlPings = Nothing /\ ctlPathPings = Nothing /\ ctlPingBusy = FALSE
  /\ life = [s \in Servers |-> "none"]
  /\ applied = [s \in Servers |-> NoExit]
  /\ job = [s \in Servers |->
              [pc |-> "unused", exit |-> NoExit, old |-> None]]
  /\ round = [r \in Rounds |-> [pc |-> "unused", tsmp |-> FALSE, left |-> 0]]
  /\ path = [r \in Rounds |-> [pc |-> "unused", left |-> 0]]
  /\ caller = Free

-----------------------------------------------------------------------------
(***************************************************************************)
(* The calls of the main thread.  A call the code refuses (wrong state,    *)
(* an unusable fd or exit node address) changes nothing.                   *)
(***************************************************************************)
ClearResults == ctlPings' = Nothing /\ ctlPathPings' = Nothing

\* controlUp up to its first Unlock: the state is taken, the server not yet
\* built.
ControlUp(s, x) ==
  /\ caller = Free
  /\ ctlState \notin Running
  /\ job[s].pc = "unused"
  /\ ctlState' = "starting" /\ ctlErr' = "none" /\ ctlParams' = x
  /\ ctlTunFD' = None /\ ctlTun' = None
  /\ ClearResults
  /\ job' = [job EXCEPT ![s] = [pc |-> "built", exit |-> x, old |-> None]]
  /\ caller' = [op |-> "up", srv |-> s, tun |-> None]
  /\ UNCHANGED <<ctlSrv, ctlPingBusy, round, path, life, applied>>

\* The rest of controlUp: the second critical section publishes the server,
\* then bringUp is spawned.
ControlUpPublish ==
  /\ caller.op = "up"
  /\ ctlSrv' = caller.srv
  /\ life' = [life EXCEPT ![caller.srv] = "live"]
  /\ job' = [job EXCEPT ![caller.srv].pc = "up"]
  /\ caller' = Free
  /\ UNCHANGED <<ctlState, ctlErr, ctlParams, ctlTunFD, ctlTun, pingVars,
                 applied>>

\* Mutant: the old server stays in ctlSrv while the goroutine closes it.
ControlAttachTunKeepsServer(s) ==
  /\ caller = Free
  /\ ctlParams # NeverUp /\ ctlState \in Running /\ job[s].pc = "unused"
  /\ ctlState' = "reattaching" /\ ctlErr' = "none" /\ ctlSrv' = ctlSrv
  /\ ctlTunFD' = s /\ ctlTun' = None
  /\ ClearResults
  /\ job' = [job EXCEPT ![s] =
               [pc   |-> IF ctlSrv = None THEN "wrap" ELSE "close",
                exit |-> ctlParams, old |-> ctlSrv]]
  /\ life' = IF ctlSrv = None THEN life
             ELSE [life EXCEPT ![ctlSrv] = "closing"]
  /\ UNCHANGED <<ctlParams, ctlPingBusy, round, path, applied, caller>>

\* Mutant: the tun device is built while the old server is still closing.
ControlAttachTunDoesNotWait(s) ==
  /\ caller = Free
  /\ ctlParams # NeverUp /\ ctlState \in Running /\ job[s].pc = "unused"
  /\ ctlState' = "reattaching" /\ ctlErr' = "none" /\ ctlSrv' = None
  /\ ctlTunFD' = s /\ ctlTun' = None
  /\ ClearResults
  /\ job' = [job EXCEPT ![s] =
               [pc |-> "wrap", exit |-> ctlParams, old |-> ctlSrv]]
  /\ life' = IF ctlSrv = None THEN life
             ELSE [life EXCEPT ![ctlSrv] = "closing"]
  /\ UNCHANGED <<ctlParams, ctlPingBusy, round, path, applied, caller>>

\* controlAttachTun: the published server is taken out of ctlSrv and handed to
\* a new goroutine, which first closes it when there is one.
ControlAttachTun(s) ==
  /\ caller = Free
  /\ ctlParams # NeverUp
  /\ ctlState \in Running
  /\ job[s].pc = "unused"
  /\ ctlState' = "reattaching" /\ ctlErr' = "none" /\ ctlSrv' = None
  /\ ctlTunFD' = s /\ ctlTun' = None
  /\ ClearResults
  /\ job' = [job EXCEPT ![s] =
               [pc   |-> IF ctlSrv = None THEN "wrap" ELSE "close",
                exit |-> ctlParams, old |-> ctlSrv]]
  /\ life' = IF ctlSrv = None THEN life
             ELSE [life EXCEPT ![ctlSrv] = "closing"]
  /\ UNCHANGED <<ctlParams, ctlPingBusy, round, path, applied, caller>>

\* Mutant: controlDown closes the server but forgets to unpublish it.
ControlDownKeepsServer ==
  /\ caller = Free
  /\ ctlState' = "idle" /\ ctlErr' = "none" /\ ctlSrv' = ctlSrv
  /\ ctlTunFD' = None /\ ctlTun' = None
  /\ ClearResults
  /\ IF ctlSrv = None
     THEN UNCHANGED <<life, caller>>
     ELSE /\ life' = [life EXCEPT ![ctlSrv] = "closing"]
          /\ caller' = [op |-> "down", srv |-> ctlSrv, tun |-> None]
  /\ UNCHANGED <<ctlParams, ctlPingBusy, round, path, applied, job>>

\* Mutant: controlDown also resets ctlPingBusy, as it resets everything else.
ControlDownResetsBusy ==
  /\ caller = Free
  /\ ctlState' = "idle" /\ ctlErr' = "none" /\ ctlSrv' = None
  /\ ctlTunFD' = None /\ ctlTun' = None
  /\ ClearResults /\ ctlPingBusy' = FALSE
  /\ IF ctlSrv = None
     THEN UNCHANGED <<life, caller>>
     ELSE /\ life' = [life EXCEPT ![ctlSrv] = "closing"]
          /\ caller' = [op |-> "down", srv |-> ctlSrv, tun |-> None]
  /\ UNCHANGED <<ctlParams, round, path, applied, job>>

\* controlDown: everything but the parameters is reset, the server it found is
\* closed after the Unlock.
ControlDown ==
  /\ caller = Free
  /\ ctlState' = "idle" /\ ctlErr' = "none" /\ ctlSrv' = None
  /\ ctlTunFD' = None /\ ctlTun' = None
  /\ ClearResults
  /\ IF ctlSrv = None
     THEN UNCHANGED <<life, caller>>
     ELSE /\ life' = [life EXCEPT ![ctlSrv] = "closing"]
          /\ caller' = [op |-> "down", srv |-> ctlSrv, tun |-> None]
  /\ UNCHANGED <<ctlParams, ctlPingBusy, round, path, applied, job>>

ControlDownReturns ==
  /\ caller.op = "down"
  /\ life' = [life EXCEPT ![caller.srv] = "closed"]
  /\ caller' = Free
  /\ UNCHANGED <<ctlVars, pingVars, applied, job>>

\* controlStatusJSON and controlDnsProbe snapshot the package variables, leave
\* the lock and then talk to the server (and the tun device) they found.
ControlStatus ==
  /\ caller = Free
  /\ ctlSrv # None /\ ctlState = "up"
  /\ caller' = [op |-> "status", srv |-> ctlSrv, tun |-> None]
  /\ UNCHANGED <<ctlVars, pingVars, life, applied, job>>

ControlDnsProbe ==
  /\ caller = Free
  /\ ctlTun # None /\ ctlState = "up" /\ ctlSrv # None
  /\ caller' = [op |-> "probe", srv |-> ctlSrv, tun |-> ctlTun]
  /\ UNCHANGED <<ctlVars, pingVars, life, applied, job>>

QueryReturns ==
  /\ caller.op \in {"status", "probe"}
  /\ caller' = Free
  /\ UNCHANGED <<ctlVars, pingVars, life, applied, job>>

\* controlPingPeers: refused while a round is running.
ControlPingPeers(r, tsmp) ==
  /\ caller = Free
  /\ ctlState = "up" /\ ctlSrv # None
  /\ ~ctlPingBusy
  /\ round[r].pc = "unused"
  /\ ctlPingBusy' = TRUE
  /\ ClearResults
  /\ round' = [round EXCEPT ![r] =
                 [pc |-> "status", tsmp |-> tsmp, left |-> 0]]
  /\ UNCHANGED <<ctlVars, path, life, applied, job, caller>>

-----------------------------------------------------------------------------
(***************************************************************************)
(* The goroutine of controlAttachTun, then bringUp, for server s.  What    *)
(* tsnet answers is not in this repository: Up, EditPrefs and wrapping the *)
(* descriptor each succeed or fail, whatever has become of the server.     *)
(***************************************************************************)

\* Mutant: the goroutine moves on although Close has not returned.
CloseOldTimesOut(s) ==
  /\ job[s].pc = "close"
  /\ job' = [job EXCEPT ![s].pc = "wrap"]
  /\ UNCHANGED <<ctlVars, pingVars, life, applied, caller>>

\* Mutant: the goroutine goes on waiting when Close has returned.
CloseOldWaitsOn(s) ==
  /\ job[s].pc = "close"
  /\ life' = [life EXCEPT ![job[s].old] = "closed"]
  /\ UNCHANGED <<ctlVars, pingVars, applied, job, caller>>

CloseOldReturns(s) ==
  /\ job[s].pc = "close"
  /\ life' = [life EXCEPT ![job[s].old] = "closed"]
  /\ job' = [job EXCEPT ![s].pc = "wrap"]
  /\ UNCHANGED <<ctlVars, pingVars, applied, caller>>

TunWrapped(s) ==
  /\ job[s].pc = "wrap"
  /\ ctlTun' = s
  /\ job' = [job EXCEPT ![s].pc = "publish"]
  /\ UNCHANGED <<ctlState, ctlErr, ctlParams, ctlSrv, ctlTunFD, pingVars,
                 life, applied, caller>>

\* Mutant: a failure to wrap the descriptor is only logged.
TunFailsSilently(s) ==
  /\ job[s].pc = "wrap"
  /\ job' = [job EXCEPT ![s].pc = "done"]
  /\ UNCHANGED <<ctlVars, pingVars, life, applied, caller>>

TunFails(s) ==
  /\ job[s].pc = "wrap"
  /\ ctlState' = "failed" /\ ctlErr' = "tun"
  /\ ctlTunFD' = None /\ ctlTun' = None
  /\ job' = [job EXCEPT ![s].pc = "done"]
  /\ UNCHANGED <<ctlParams, ctlSrv, pingVars, life, applied, caller>>

AttachPublish(s) ==
  /\ job[s].pc = "publish"
  /\ ctlSrv' = s
  /\ life' = [life EXCEPT ![s] = "live"]
  /\ job' = [job EXCEPT ![s].pc = "up"]
  /\ UNCHANGED <<ctlState, ctlErr, ctlParams, ctlTunFD, ctlTun, pingVars,
                 applied, caller>>

\* bringUp reports a failure, or success, only for the server that is still
\* published.
Report(s, state, err) ==
  /\ job' = [job EXCEPT ![s].pc = "done"]
  /\ IF ctlSrv = s
     THEN ctlState' = state /\ ctlErr' = err
     ELSE UNCHANGED <<ctlState, ctlErr>>
  /\ UNCHANGED <<ctlParams, ctlSrv, ctlTunFD, ctlTun, pingVars, life, applied,
                 caller>>

\* Mutant: a failed Up is only logged.
UpFailsSilently(s) ==
  /\ job[s].pc = "up"
  /\ job' = [job EXCEPT ![s].pc = "done"]
  /\ UNCHANGED <<ctlVars, pingVars, life, applied, caller>>

UpFails(s) == job[s].pc = "up" /\ Report(s, "failed", "up")

UpSucceeds(s) ==
  /\ job[s].pc = "up"
  /\ job' = [job EXCEPT ![s].pc =
               IF job[s].exit = NoExit THEN "commit" ELSE "exit"]
  /\ UNCHANGED <<ctlVars, pingVars, life, applied, caller>>

\* Mutant: a failed applyExitNode is a warning, and the state becomes up.
ExitNodeOnlyWarns(s) == job[s].pc = "exit" /\ Report(s, "up", "none")

\* applyExitNode, which every Up is followed by when there is an exit node.
ExitNodeFails(s) == job[s].pc = "exit" /\ Report(s, "failed", "exit")

ExitNodeApplied(s) ==
  /\ job[s].pc = "exit"
  /\ applied' = [applied EXCEPT ![s] = job[s].exit]
  /\ job' = [job EXCEPT ![s].pc = "commit"]
  /\ UNCHANGED <<ctlVars, pingVars, life, caller>>

\* The last critical section of bringUp leaves ctlErr alone.
Commit(s) == job[s].pc = "commit" /\ Report(s, "up", ctlErr)

Goroutine(s) ==
  \/ CloseOldReturns(s) \/ TunWrapped(s) \/ TunFails(s) \/ AttachPublish(s)
  \/ UpFails(s) \/ UpSucceeds(s)
  \/ ExitNodeFails(s) \/ ExitNodeApplied(s) \/ Commit(s)

-----------------------------------------------------------------------------
(***************************************************************************)
(* The goroutine of controlPingPeers and, after a TSMP round, probePaths.  *)
(* Both append to the package lists without asking whether the session     *)
(* they were started in is still the current one.                          *)
(***************************************************************************)
Recorded(list, r) == [list EXCEPT ![r] = @ + 1]

\* The goroutine of r moves on, with n more results to record.
Moved(f, r, pc, n) == [f EXCEPT ![r].pc = pc, ![r].left = n]

\* Mutant: the early return skips the reset of ctlPingBusy (no defer).
PingStatusFailsBusy(r) ==
  /\ round[r].pc = "status"
  /\ ctlPings' = Recorded(ctlPings, r)
  /\ round' = Moved(round, r, "done", 0)
  /\ UNCHANGED <<ctlVars, ctlPathPings, ctlPingBusy, path, life, applied, job,
                 caller>>

PingStatusFails(r) ==
  /\ round[r].pc = "status"
  /\ ctlPings' = Recorded(ctlPings, r)
  /\ round' = Moved(round, r, "return", 0)
  /\ UNCHANGED <<ctlVars, ctlPathPings, ctlPingBusy, path, life, applied, job,
                 caller>>

\* Mutant: the case of no online peer is not told apart.
PingStatusReturnsAlways(r, n) ==
  /\ round[r].pc = "status"
  /\ round' = Moved(round, r, "pinging", n)
  /\ UNCHANGED <<ctlVars, listVars, ctlPingBusy, path, life, applied, job,
                 caller>>

PingStatusReturns(r, n) ==
  /\ round[r].pc = "status"
  /\ round' = Moved(round, r, IF n = 0 THEN "nobody" ELSE "pinging", n)
  /\ UNCHANGED <<ctlVars, listVars, ctlPingBusy, path, life, applied, job,
                 caller>>

\* The end of the loop: path probing is spawned before the deferred function
\* clears ctlPingBusy.
LoopEnds(r) ==
  path' = IF round[r].tsmp THEN Moved(path, r, "status", 0) ELSE path

PingNobody(r) ==
  /\ round[r].pc = "nobody"
  /\ ctlPings' = Recorded(ctlPings, r)
  /\ round' = Moved(round, r, "return", 0)
  /\ LoopEnds(r)
  /\ UNCHANGED <<ctlVars, ctlPathPings, ctlPingBusy, life, applied, job,
                 caller>>

PingOne(r) ==
  /\ round[r].pc = "pinging"
  /\ ctlPings' = Recorded(ctlPings, r)
  /\ IF round[r].left = 1
     THEN /\ round' = Moved(round, r, "return", 0)
          /\ LoopEnds(r)
     ELSE /\ round' = Moved(round, r, "pinging", round[r].left - 1)
          /\ UNCHANGED path
  /\ UNCHANGED <<ctlVars, ctlPathPings, ctlPingBusy, life, applied, job,
                 caller>>

PingRoundReturns(r) ==
  /\ round[r].pc = "return"
  /\ ctlPingBusy' = FALSE
  /\ round' = Moved(round, r, "done", 0)
  /\ UNCHANGED <<ctlVars, listVars, path, life, applied, job, caller>>

PingRound(r) ==
  \/ PingStatusFails(r)
  \/ \E n \in 0 .. MaxPingPeers : PingStatusReturns(r, n)
  \/ PingNobody(r) \/ PingOne(r) \/ PingRoundReturns(r)

PathStatusFails(r) ==
  /\ path[r].pc = "status"
  /\ ctlPathPings' = Recorded(ctlPathPings, r)
  /\ path' = Moved(path, r, "done", 0)
  /\ UNCHANGED <<ctlVars, ctlPings, ctlPingBusy, round, life, applied, job,
                 caller>>

PathStatusReturns(r, n) ==
  /\ path[r].pc = "status"
  /\ ctlPathPings' = Nothing
  /\ path' = Moved(path, r, IF n = 0 THEN "nobody" ELSE "probing", n)
  /\ UNCHANGED <<ctlVars, ctlPings, ctlPingBusy, round, life, applied, job,
                 caller>>

\* One of the concurrent disco pings records its result.
PathOne(r) ==
  /\ path[r].pc = "probing"
  /\ ctlPathPings' = Recorded(ctlPathPings, r)
  /\ path' = IF path[r].left = 1 THEN Moved(path, r, "done", 0)
              ELSE Moved(path, r, "probing", path[r].left - 1)
  /\ UNCHANGED <<ctlVars, ctlPings, ctlPingBusy, round, life, applied, job,
                 caller>>

PathNobody(r) ==
  /\ path[r].pc = "nobody"
  /\ ctlPathPings' = Recorded(ctlPathPings, r)
  /\ path' = Moved(path, r, "done", 0)
  /\ UNCHANGED <<ctlVars, ctlPings, ctlPingBusy, round, life, applied, job,
                 caller>>

ProbePaths(r) ==
  \/ PathStatusFails(r)
  \/ \E n \in 0 .. MaxPathPeers : PathStatusReturns(r, n)
  \/ PathOne(r) \/ PathNobody(r)

-----------------------------------------------------------------------------
Call ==
  \/ \E s \in Servers, x \in ExitChoice : ControlUp(s, x)
  \/ \E s \in Servers : ControlAttachTun(s)
  \/ ControlDown
  \/ ControlStatus
  \/ ControlDnsProbe
  \/ \E r \in Rounds, tsmp \in BOOLEAN : ControlPingPeers(r, tsmp)

CallReturns == ControlUpPublish \/ ControlDownReturns \/ QueryReturns

Next ==
  \/ Call
  \/ CallReturns
  \/ \E s \in Servers : Goroutine(s)
  \/ \E r \in Rounds : PingRound(r) \/ ProbePaths(r)

(***************************************************************************)
(* Goroutines and calls in progress go on: every wait in the code has a    *)
(* timeout (Up 90s, EditPrefs 20s, Status 2s to 12s, Ping 6s), except      *)
(* Server.Close, which is assumed to return.  No call has to be made.      *)
(***************************************************************************)
Fairness ==
  /\ WF_vars(CallReturns)
  /\ \A s \in Servers : WF_vars(Goroutine(s))
  /\ \A r \in Rounds : WF_vars(PingRound(r)) /\ WF_vars(ProbePaths(r))

Spec     == Init /\ [][Next]_vars
FairSpec == Spec /\ Fairness

-----------------------------------------------------------------------------
(***************************************************************************)
(* Properties.                                                             *)
(***************************************************************************)

\* The goroutine that is closing server s after an attach, if any.
AttachCloser(s, t) == job[t].pc = "close" /\ job[t].old = s
DownCloser(s)      == caller.op = "down" /\ caller.srv = s

\* controlAttachTun takes the old server out of ctlSrv "so that a concurrent
\* status query does not hit a server being closed" (control.go:336).  While
\* the main thread is inside controlStatusJSON or controlDnsProbe, past the
\* Unlock, the server it holds is neither being closed nor closed, and the tun
\* device it injects into does not belong to such a server.
QueriesHitOpenServers ==
  caller.op \in {"status", "probe"} =>
    /\ life[caller.srv] = "live"
    /\ caller.op = "probe" => life[caller.tun] \notin {"closing", "closed"}

\* A server is handed to exactly one Close: no two goroutines (nor a goroutine
\* and controlDown) close the same one, nobody closes a server without having
\* taken it out, and a server once taken out of ctlSrv is never published
\* again.
OneCloser ==
  \A s \in Servers :
    /\ \A t, u \in Servers :
         AttachCloser(s, t) /\ AttachCloser(s, u) => t = u
    /\ \A t \in Servers : ~(AttachCloser(s, t) /\ DownCloser(s))
    /\ life[s] = "closing" <=>
         DownCloser(s) \/ \E t \in Servers : AttachCloser(s, t)
    /\ life[s] \in {"closing", "closed"} => ctlSrv # s

\* "The tun.Device must be built only after the old server is closed"
\* (control.go:355): an attach that has wrapped its descriptor waited for the
\* Close of the server it replaces, whatever the other goroutines did.
TunAfterOldClosed ==
  \A s \in Servers :
    /\ job[s].old # None
    /\ job[s].pc \in {"wrap", "publish", "up", "exit", "commit"}
    => life[job[s].old] = "closed"

\* Nobody is left waiting for an answer that cannot come: while the state is
\* "starting" or "reattaching" (the states pollGoCore waits on) there is a
\* call or a goroutine in progress whose last step will be allowed to report.
\* bringUp only reports for the server in ctlSrv, so overlapping attaches
\* could take that permission away from each other.
SomeoneWillReport ==
  ctlState \in {"starting", "reattaching"} =>
    \/ caller.op = "up"
    \/ \E s \in Servers : job[s].pc \in {"close", "wrap", "publish"}
    \/ ctlSrv # None /\ job[ctlSrv].pc \in {"up", "exit", "commit"}

\* "The exit node must be in place before the state becomes up"
\* (control.go:223): the state only becomes "up" on behalf of the published
\* server, and that server then has in its prefs the exit node it was asked
\* for.
ExitNodeBeforeUp ==
  [][ctlState # "up" /\ ctlState' = "up"
       => /\ ctlSrv' # None
          /\ applied'[ctlSrv'] = job'[ctlSrv'].exit]_vars

\* Rounds of pings exclude each other although controlDown, controlUp and
\* controlAttachTun do not touch ctlPingBusy: at most one round runs, the flag
\* is set exactly while it does, and ctlPings never mixes the results of two
\* rounds nor exceeds what one round may record (awaitPings in
\* ArkMeshVpnAbility.ets reads list and flag together).
ActiveRound(r) == round[r].pc \in {"status", "nobody", "pinging", "return"}
PingRoundsDoNotMix ==
  /\ ctlPingBusy <=> \E r \in Rounds : ActiveRound(r)
  /\ \A r, q \in Rounds :
       /\ ActiveRound(r) /\ ActiveRound(q) => r = q
       /\ ctlPings[r] > 0 /\ ctlPings[q] > 0 => r = q
  /\ \A r \in Rounds : ctlPings[r] + round[r].left <= MaxPingPeers

\* Every connection attempt is settled: "starting" and "reattaching" do not
\* last, however attaches, downs and failures overlap.
AttemptsSettle ==
  ctlState \in {"starting", "reattaching"}
    ~> ctlState \in {"up", "failed", "idle"}

\* A server taken out of ctlSrv does get closed.
RetiredServersClose ==
  \A s \in Servers : life[s] = "closing" ~> life[s] = "closed"

\* ctlPingBusy, which nothing but the end of the round resets, is reset.
PingRoundsEnd == ctlPingBusy ~> ~ctlPingBusy

\* What onDestroy relies on ("the Go core must be taken offline on purpose, or
\* the node stays online in the console", ArkMeshVpnAbility.ets:109): after
\* controlDown has made the state "idle" it does not become "up" again without
\* a new controlUp.  The code does not keep this promise: the goroutine of a
\* controlAttachTun still in progress publishes its server after controlDown.
DownStaysDown == [][ctlState = "idle" => ctlState' # "up"]_vars

\* The contract of ArkMeshAttachTun (main.go:86): it is called only after the
\* status has become "up".
AttachWhenUp ==
  (\E s \in Servers :
     job[s].pc = "unused" /\ job'[s].pc \in {"close", "wrap"})
  => ctlState = "up"

ContractSpec == Init /\ [][Next /\ AttachWhenUp]_vars

(***************************************************************************)
(* The abstract core.  A server is one attempt; it is being built until it *)
(* is published, and the current attempt is the server in ctlSrv while its *)
(* bringUp has not reported.                                               *)
(***************************************************************************)
Building == {s \in Servers : job[s].pc \in {"built", "close", "wrap", "publish"}}
Current  == IF /\ ctlSrv # None
               /\ job[ctlSrv].pc \in {"up", "exit", "commit"}
            THEN ctlSrv ELSE None

Core == INSTANCE GoCore WITH Attempts <- Servers, state <- ctlState,
                             building <- Building, current <- Current

\* Whatever overlaps, the control plane behaves like the abstract core: a
\* goroutine of an earlier session changes the state only in the ways, and at
\* the moments, GoCore allows an attempt to.
ImplementsGoCore == Core!Spec

\* The same with GoCore's fairness: every attempt is published or fails, and
\* the published one reports.
ImplementsGoCoreFairly == Core!FairSpec

=============================================================================
