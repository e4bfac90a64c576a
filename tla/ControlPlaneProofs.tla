------------------------- MODULE ControlPlaneProofs -------------------------
(***************************************************************************)
(* Proofs about ControlPlane, for every set of servers, exit nodes and     *)
(* ping rounds.  The invariants of ControlPlane are not inductive; IInv    *)
(* adds to them who owns a server at each point of its life (Ownership),   *)
(* that prefs are untouched until applyExitNode (part of ExitInv), and     *)
(* what a ping round has recorded so far (PingInv).  At the end: the       *)
(* control plane implements GoCore (Refinement).                           *)
(***************************************************************************)
EXTENDS ControlPlane, TLAPS

-----------------------------------------------------------------------------
(***************************************************************************)
(* The inductive invariant.                                                *)
(***************************************************************************)

\* A server is private to its builder, then published in ctlSrv, then handed
\* to one closer; whatever the main thread holds is still where it found it.
Ownership ==
  /\ \A s \in Servers :
       /\ job[s].pc \in {"unused", "built", "close", "wrap", "publish"}
            => life[s] = "none"
       /\ job[s].pc = "built" => job[s].old = None
       /\ job[s].pc = "close" => /\ job[s].old \in Servers
                                 /\ life[job[s].old] = "closing"
       /\ life[s] = "closing" =>
            DownCloser(s) \/ \E t \in Servers : AttachCloser(s, t)
       /\ \A t, u \in Servers :
            AttachCloser(s, t) /\ AttachCloser(s, u) => t = u
       /\ \A t \in Servers : ~(AttachCloser(s, t) /\ DownCloser(s))
  /\ ctlSrv # None => life[ctlSrv] = "live"
  /\ ctlTun # None => life[ctlTun] \notin {"closing", "closed"}
  /\ caller.op = "up" => /\ caller.srv \in Servers
                         /\ job[caller.srv].pc = "built"
  /\ caller.op = "down" => /\ caller.srv \in Servers
                           /\ life[caller.srv] = "closing"
  /\ caller.op \in {"status", "probe"} => /\ caller.srv \in Servers
                                          /\ life[caller.srv] = "live"
  /\ caller.op = "probe" => /\ caller.tun \in Servers
                            /\ life[caller.tun] \notin {"closing", "closed"}

ExitInv ==
  \A s \in Servers :
    /\ job[s].pc \notin {"commit", "done"} => applied[s] = NoExit
    /\ job[s].pc = "commit" => applied[s] = job[s].exit

PingInv ==
  /\ ctlPingBusy <=> \E r \in Rounds : ActiveRound(r)
  /\ \A r, q \in Rounds :
       /\ ActiveRound(r) /\ ActiveRound(q) => r = q
       /\ ActiveRound(r) /\ ctlPings[q] > 0 => r = q
       /\ ctlPings[r] > 0 /\ ctlPings[q] > 0 => r = q
  /\ \A r \in Rounds :
       /\ round[r].pc \in {"status", "nobody"} =>
            ctlPings[r] = 0 /\ round[r].left = 0
       /\ round[r].pc = "pinging" => round[r].left > 0
       /\ path[r].pc = "probing" => path[r].left > 0
       /\ ctlPings[r] + round[r].left <= MaxPingPeers

IInv ==
  /\ TypeOK
  /\ Ownership
  /\ TunAfterOldClosed
  /\ SomeoneWillReport
  /\ ExitInv
  /\ PingInv

-----------------------------------------------------------------------------
(***************************************************************************)
(* Facts about the records and lists the actions update.                   *)
(***************************************************************************)

LEMMA JobFields ==
  ASSUME TypeOK, NEW s \in Servers
  PROVE  /\ job[s].pc \in JobPc
         /\ job[s].exit \in ExitChoice
         /\ job[s].old \in Servers \cup {None}
BY DEF TypeOK, JobType

LEMMA JobStep ==
  ASSUME TypeOK, NEW s \in Servers, NEW p \in JobPc,
         job' = [job EXCEPT ![s].pc = p]
  PROVE  /\ job' \in [Servers -> JobType]
         /\ job'[s].pc = p
         /\ job'[s].exit = job[s].exit
         /\ job'[s].old = job[s].old
         /\ \A t \in Servers : t # s => job'[t] = job[t]
<1>1. job \in [Servers -> JobType]
  BY DEF TypeOK
<1>2. job[s] \in JobType
  BY <1>1
<1>3. [job[s] EXCEPT !.pc = p] \in JobType
  BY <1>2 DEF JobType
<1>4. QED
  BY <1>1, <1>2, <1>3 DEF JobType

LEMMA JobNew ==
  ASSUME TypeOK, NEW s \in Servers, NEW p \in JobPc, NEW x \in ExitChoice,
         NEW o \in Servers \cup {None},
         job' = [job EXCEPT ![s] = [pc |-> p, exit |-> x, old |-> o]]
  PROVE  /\ job' \in [Servers -> JobType]
         /\ job'[s].pc = p
         /\ job'[s].exit = x
         /\ job'[s].old = o
         /\ \A t \in Servers : t # s => job'[t] = job[t]
<1>1. [pc |-> p, exit |-> x, old |-> o] \in JobType
  BY DEF JobType
<1>2. QED
  BY <1>1 DEF TypeOK

LEMMA RoundFields ==
  ASSUME TypeOK, NEW r \in Rounds
  PROVE  /\ round[r].pc \in RoundPc /\ round[r].left \in Nat
         /\ path[r].pc \in PathPc /\ path[r].left \in Nat
         /\ ctlPings[r] \in Nat /\ ctlPathPings[r] \in Nat
BY DEF TypeOK, RoundType, PathType

LEMMA RoundStep ==
  ASSUME TypeOK, NEW r \in Rounds, NEW p \in RoundPc, NEW n \in Nat
  PROVE  /\ Moved(round, r, p, n) \in [Rounds -> RoundType]
         /\ Moved(round, r, p, n)[r].pc = p
         /\ Moved(round, r, p, n)[r].left = n
         /\ \A q \in Rounds : q # r => Moved(round, r, p, n)[q] = round[q]
<1>1. round \in [Rounds -> RoundType] /\ round[r] \in RoundType
  BY DEF TypeOK
<1>2. QED
  BY <1>1 DEF RoundType, Moved

LEMMA RoundNew ==
  ASSUME TypeOK, NEW r \in Rounds, NEW tsmp \in BOOLEAN,
         round' = [round EXCEPT ![r] =
                     [pc |-> "status", tsmp |-> tsmp, left |-> 0]]
  PROVE  /\ round' \in [Rounds -> RoundType]
         /\ round'[r].pc = "status"
         /\ round'[r].left = 0
         /\ \A q \in Rounds : q # r => round'[q] = round[q]
BY DEF TypeOK, RoundType, RoundPc

LEMMA PathStep ==
  ASSUME TypeOK, NEW r \in Rounds, NEW p \in PathPc, NEW n \in Nat
  PROVE  /\ Moved(path, r, p, n) \in [Rounds -> PathType]
         /\ Moved(path, r, p, n)[r].pc = p
         /\ Moved(path, r, p, n)[r].left = n
         /\ \A q \in Rounds : q # r => Moved(path, r, p, n)[q] = path[q]
<1>1. path \in [Rounds -> PathType] /\ path[r] \in PathType
  BY DEF TypeOK
<1>2. QED
  BY <1>1 DEF PathType, Moved

LEMMA RecordedStep ==
  ASSUME NEW list \in [Rounds -> Nat], NEW r \in Rounds
  PROVE  /\ Recorded(list, r) \in [Rounds -> Nat]
         /\ Recorded(list, r)[r] = list[r] + 1
         /\ \A q \in Rounds : q # r => Recorded(list, r)[q] = list[q]
BY DEF Recorded

LEMMA NothingType ==
  /\ Nothing \in [Rounds -> Nat]
  /\ \A r \in Rounds : Nothing[r] = 0
BY DEF Nothing


-----------------------------------------------------------------------------
(***************************************************************************)
(* Type correctness is preserved.                                          *)
(***************************************************************************)

LEMMA TypeStep ==
  ASSUME IInv, [Next]_vars
  PROVE  TypeOK'
<1>1. TypeOK /\ PingInv /\ Ownership
  BY DEF IInv
<1>2. ASSUME NEW s \in Servers, NEW x \in ExitChoice, ControlUp(s, x)
      PROVE  TypeOK'
  BY <1>2, <1>1, JobNew, NothingType, ConstantsAssumption
  DEF TypeOK, ControlUp, ClearResults, JobPc, Running, CallerType
<1>3. ASSUME ControlUpPublish
      PROVE  TypeOK'
  BY <1>3, <1>1, JobStep, ZenonT(60)
  DEF TypeOK, ControlUpPublish, Ownership, JobPc, Free, CallerType, pingVars
<1>4. ASSUME NEW s \in Servers, ControlAttachTun(s)
      PROVE  TypeOK'
  BY <1>4, <1>1, JobNew, NothingType
  DEF TypeOK, ControlAttachTun, ClearResults, JobPc, Running
<1>5. ASSUME ControlDown
      PROVE  TypeOK'
  BY <1>5, <1>1, NothingType DEF TypeOK, ControlDown, ClearResults, CallerType
<1>6. ASSUME ControlDownReturns
      PROVE  TypeOK'
  BY <1>6, <1>1
  DEF TypeOK, ControlDownReturns, Free, CallerType, ctlVars, pingVars
<1>7. ASSUME ControlStatus
      PROVE  TypeOK'
  BY <1>7, <1>1 DEF TypeOK, ControlStatus, CallerType, ctlVars, pingVars
<1>8. ASSUME ControlDnsProbe
      PROVE  TypeOK'
  BY <1>8, <1>1 DEF TypeOK, ControlDnsProbe, CallerType, ctlVars, pingVars
<1>9. ASSUME QueryReturns
      PROVE  TypeOK'
  BY <1>9, <1>1 DEF TypeOK, QueryReturns, Free, CallerType, ctlVars, pingVars
<1>10. ASSUME NEW r \in Rounds, NEW tsmp \in BOOLEAN,
              ControlPingPeers(r, tsmp)
      PROVE  TypeOK'
  BY <1>10, <1>1, RoundNew, NothingType
  DEF TypeOK, ControlPingPeers, ClearResults, RoundPc, ctlVars
<1>11. ASSUME NEW s \in Servers, CloseOldReturns(s)
      PROVE  TypeOK'
  BY <1>11, <1>1, JobStep, JobFields, ZenonT(60)
  DEF TypeOK, CloseOldReturns, JobPc, Running, ctlVars, pingVars
<1>12. ASSUME NEW s \in Servers, TunWrapped(s)
      PROVE  TypeOK'
  BY <1>12, <1>1, JobStep, JobFields
  DEF TypeOK, TunWrapped, JobPc, Running, ctlVars, pingVars
<1>13. ASSUME NEW s \in Servers, TunFails(s)
      PROVE  TypeOK'
  BY <1>13, <1>1, JobStep, JobFields
  DEF TypeOK, TunFails, JobPc, Running, ctlVars, pingVars
<1>14. ASSUME NEW s \in Servers, AttachPublish(s)
      PROVE  TypeOK'
  BY <1>14, <1>1, JobStep, JobFields
  DEF TypeOK, AttachPublish, JobPc, Running, ctlVars, pingVars
<1>15. ASSUME NEW s \in Servers, UpFails(s)
      PROVE  TypeOK'
  BY <1>15, <1>1, JobStep, JobFields, ZenonT(60)
  DEF TypeOK, UpFails, JobPc, Running, Report, ctlVars, pingVars
<1>16. ASSUME NEW s \in Servers, UpSucceeds(s)
      PROVE  TypeOK'
  BY <1>16, <1>1, JobStep, JobFields
  DEF TypeOK, UpSucceeds, JobPc, Running, ctlVars, pingVars
<1>17. ASSUME NEW s \in Servers, ExitNodeFails(s)
      PROVE  TypeOK'
  BY <1>17, <1>1, JobStep, JobFields
  DEF TypeOK, ExitNodeFails, JobPc, Running, Report, ctlVars, pingVars
<1>18. ASSUME NEW s \in Servers, ExitNodeApplied(s)
      PROVE  TypeOK'
  BY <1>18, <1>1, JobStep, JobFields, ZenonT(60)
  DEF TypeOK, ExitNodeApplied, JobPc, Running, ctlVars, pingVars
<1>19. ASSUME NEW s \in Servers, Commit(s)
      PROVE  TypeOK'
  BY <1>19, <1>1, JobStep, JobFields
  DEF TypeOK, Commit, JobPc, Running, Report, ctlVars, pingVars
<1>20. ASSUME NEW r \in Rounds, PingStatusFails(r)
      PROVE  TypeOK'
  BY <1>20, <1>1, RoundStep, RoundFields, RecordedStep
  DEF TypeOK, PingStatusFails, RoundPc, ctlVars
<1>21. ASSUME NEW r \in Rounds, NEW n \in 0 .. MaxPingPeers,
              PingStatusReturns(r, n)
      PROVE  TypeOK'
  BY <1>21, <1>1, RoundStep, ConstantsAssumption
  DEF TypeOK, PingStatusReturns, RoundPc, ctlVars, listVars
<1>22. ASSUME NEW r \in Rounds, PingNobody(r)
      PROVE  TypeOK'
  BY <1>22, <1>1, RoundStep, PathStep, RoundFields, RecordedStep, ZenonT(60)
  DEF TypeOK, PingNobody, LoopEnds, PingInv, RoundPc, PathPc, ctlVars
<1>23. ASSUME NEW r \in Rounds, PingOne(r)
      PROVE  TypeOK'
  <2>1. round[r].left \in Nat /\ round[r].left > 0
    BY <1>1, <1>23, RoundFields DEF PingOne, PingInv
  <2>2. ctlPings' \in [Rounds -> Nat]
    BY <1>1, <1>23, RecordedStep DEF PingOne, TypeOK
  <2>3. round' \in [Rounds -> RoundType]
    <3>1. CASE round[r].left = 1
      BY <1>1, <1>23, <3>1, RoundStep DEF PingOne, RoundPc
    <3>2. CASE round[r].left # 1
      <4>1. round[r].left - 1 \in Nat
        BY <2>1, <3>2
      <4>2. round' = Moved(round, r, "pinging", round[r].left - 1)
        BY <1>23, <3>2 DEF PingOne
      <4>3. QED
        BY <1>1, <4>1, <4>2, RoundStep DEF RoundPc
    <3>3. QED
      BY <3>1, <3>2
  <2>4. path' \in [Rounds -> PathType]
    <3>1. \/ path' = Moved(path, r, "status", 0)
          \/ path' = path
      BY <1>23 DEF PingOne, LoopEnds
    <3>2. QED
      BY <1>1, <3>1, PathStep DEF PathPc, TypeOK
  <2>5. QED
    BY <1>1, <1>23, <2>2, <2>3, <2>4 DEF TypeOK, PingOne, ctlVars
<1>24. ASSUME NEW r \in Rounds, PingRoundReturns(r)
      PROVE  TypeOK'
  BY <1>24, <1>1, RoundStep, RoundFields
  DEF TypeOK, PingRoundReturns, RoundPc, ctlVars, listVars
<1>25. ASSUME NEW r \in Rounds, PathStatusFails(r)
      PROVE  TypeOK'
  BY <1>25, <1>1, PathStep, RoundFields, RecordedStep
  DEF TypeOK, PathStatusFails, PingInv, PathPc, ctlVars
<1>26. ASSUME NEW r \in Rounds, NEW n \in 0 .. MaxPathPeers,
              PathStatusReturns(r, n)
      PROVE  TypeOK'
  BY <1>26, <1>1, PathStep, NothingType, ConstantsAssumption
  DEF TypeOK, PathStatusReturns, PathPc, ctlVars
<1>27. ASSUME NEW r \in Rounds, PathOne(r)
      PROVE  TypeOK'
  <2>1. path[r].left \in Nat /\ path[r].left > 0
    BY <1>1, <1>27, RoundFields DEF PathOne, PingInv
  <2>2. CASE path[r].left = 1
    BY <1>1, <1>27, <2>2, PathStep, RecordedStep
    DEF TypeOK, PathOne, PathPc, ctlVars
  <2>3. CASE path[r].left # 1
    <3>1. path[r].left - 1 \in Nat
      BY <2>1, <2>3
    <3>2. QED
      BY <1>1, <1>27, <2>3, <3>1, PathStep, RecordedStep
      DEF TypeOK, PathOne, PathPc, ctlVars
  <2>4. QED
    BY <2>2, <2>3
<1>28. ASSUME NEW r \in Rounds, PathNobody(r)
      PROVE  TypeOK'
  BY <1>28, <1>1, PathStep, RoundFields, RecordedStep
  DEF TypeOK, PathNobody, PingInv, PathPc, ctlVars
<1>29. CASE UNCHANGED vars
  BY <1>1, <1>29 DEF TypeOK, vars, ctlVars, pingVars
<1>30. QED
  BY <1>2, <1>3, <1>4, <1>5, <1>6, <1>7, <1>8, <1>9, <1>10, <1>11, <1>12,
     <1>13, <1>14, <1>15, <1>16, <1>17, <1>18, <1>19, <1>20, <1>21, <1>22,
     <1>23, <1>24, <1>25, <1>26, <1>27, <1>28, <1>29
  DEF Next, Call, CallReturns, Goroutine, PingRound, ProbePaths


-----------------------------------------------------------------------------
(***************************************************************************)
(* The life of the servers.  A step of a ping round leaves it alone.       *)
(***************************************************************************)
PingStep ==
  \/ \E r \in Rounds, tsmp \in BOOLEAN : ControlPingPeers(r, tsmp)
  \/ \E r \in Rounds : PingRound(r) \/ ProbePaths(r)

LEMMA PingStepLeavesLife ==
  ASSUME PingStep
  PROVE  UNCHANGED <<ctlVars, life, applied, job, caller>>
BY DEF PingStep, ControlPingPeers, PingRound, PingStatusFails,
       PingStatusReturns, PingNobody, PingOne, PingRoundReturns, ProbePaths,
       PathStatusFails, PathStatusReturns, PathOne, PathNobody

LEMMA NextCases ==
  ASSUME [Next]_vars
  PROVE  \/ \E s \in Servers, x \in ExitChoice : ControlUp(s, x)
         \/ \E s \in Servers :
              \/ ControlAttachTun(s) \/ CloseOldReturns(s) \/ TunWrapped(s)
              \/ TunFails(s) \/ AttachPublish(s) \/ UpFails(s) \/ UpSucceeds(s)
              \/ ExitNodeFails(s) \/ ExitNodeApplied(s) \/ Commit(s)
         \/ ControlUpPublish \/ ControlDown \/ ControlDownReturns
         \/ ControlStatus \/ ControlDnsProbe \/ QueryReturns
         \/ PingStep \/ UNCHANGED vars
BY DEF Next, Call, CallReturns, Goroutine, PingStep

\* What ControlUpPublish does to the server s.
PublishedAt(s) ==
  /\ s \in Servers /\ ctlSrv' = s /\ ctlTun' = ctlTun /\ caller'.op = "none"
  /\ job[s].pc = "built" /\ life[s] = "none"
  /\ job'[s].pc = "up" /\ job'[s].exit = job[s].exit /\ job'[s].old = job[s].old
  /\ \A t \in Servers : t # s => job'[t] = job[t]
  /\ life'[s] = "live"
  /\ \A t \in Servers : t # s => life'[t] = life[t]

LEMMA UpPublishes ==
  ASSUME TypeOK, Ownership, ControlUpPublish
  PROVE  PublishedAt(caller.srv)
<1>1. /\ caller.srv \in Servers /\ job[caller.srv].pc = "built"
      /\ life[caller.srv] = "none"
  BY DEF ControlUpPublish, Ownership
<1>2. "up" \in JobPc
  BY DEF JobPc
<1>3. /\ job'[caller.srv].pc = "up" /\ job'[caller.srv].exit = job[caller.srv].exit
      /\ job'[caller.srv].old = job[caller.srv].old
      /\ \A t \in Servers : t # caller.srv => job'[t] = job[t]
  BY <1>1, <1>2, JobStep DEF ControlUpPublish
<1>4. /\ life'[caller.srv] = "live"
      /\ \A t \in Servers : t # caller.srv => life'[t] = life[t]
  BY <1>1 DEF ControlUpPublish, TypeOK
<1>5. ctlSrv' = caller.srv /\ ctlTun' = ctlTun /\ caller'.op = "none"
  BY DEF ControlUpPublish, Free, pingVars
<1>6. QED
  BY <1>1, <1>3, <1>4, <1>5 DEF PublishedAt

\* Who owns a server at each point of its life.
LEMMA OwnershipStep ==
  ASSUME IInv, [Next]_vars
  PROVE  Ownership'
<1>1. TypeOK /\ Ownership /\ TunAfterOldClosed /\ SomeoneWillReport /\ ExitInv
  BY DEF IInv
<1> USE ConstantsAssumption
<1>2. ASSUME NEW s \in Servers, NEW x \in ExitChoice, ControlUp(s, x)
      PROVE  Ownership'
  BY <1>2, <1>1, JobNew
  DEF ControlUp, Free, JobPc, Ownership, AttachCloser, DownCloser, TypeOK
<1>3. ASSUME ControlUpPublish
      PROVE  Ownership'
  <2>1. PublishedAt(caller.srv)
    BY <1>1, <1>3, UpPublishes
  <2>2. \A s, t \in Servers : AttachCloser(s, t)' <=> AttachCloser(s, t)
    BY <2>1 DEF PublishedAt, AttachCloser
  <2>3. \A s \in Servers : ~DownCloser(s) /\ ~DownCloser(s)'
    BY <2>1, <1>3 DEF PublishedAt, ControlUpPublish, DownCloser
  <2>4. \A s \in Servers : life'[s] = "closing" <=> life[s] = "closing"
    BY <2>1, <1>1 DEF PublishedAt, Ownership
  <2>5. QED
    BY <1>1, <1>3, <2>1, <2>2, <2>3, <2>4
    DEF PublishedAt, ControlUpPublish, Ownership, AttachCloser
<1>4. ASSUME NEW s \in Servers, ControlAttachTun(s)
      PROVE  Ownership'
  BY <1>4, <1>1, JobNew
  DEF ControlAttachTun, Free, JobPc, Running, Ownership, AttachCloser,
       DownCloser, TypeOK
<1>5. ASSUME ControlDown
      PROVE  Ownership'
  BY <1>5, <1>1
  DEF ControlDown, Free, Ownership, AttachCloser, DownCloser, TypeOK
<1>6. ASSUME ControlDownReturns
      PROVE  Ownership'
  BY <1>6, <1>1
  DEF ControlDownReturns, ctlVars, Free, Ownership, AttachCloser, DownCloser,
       TypeOK
<1>7. ASSUME ControlStatus
      PROVE  Ownership'
  BY <1>7, <1>1
  DEF ControlStatus, ctlVars, Free, Ownership, AttachCloser, DownCloser,
       TypeOK
<1>8. ASSUME ControlDnsProbe
      PROVE  Ownership'
  BY <1>8, <1>1
  DEF ControlDnsProbe, ctlVars, Free, Ownership, AttachCloser, DownCloser,
       TypeOK
<1>9. ASSUME QueryReturns
      PROVE  Ownership'
  BY <1>9, <1>1
  DEF QueryReturns, ctlVars, Free, Ownership, AttachCloser, DownCloser,
       TypeOK
<1>10. ASSUME NEW s \in Servers, CloseOldReturns(s)
      PROVE  Ownership'
  BY <1>10, <1>1, JobStep, JobFields
  DEF CloseOldReturns, ctlVars, JobPc, Ownership, AttachCloser, DownCloser,
       TypeOK
<1>11. ASSUME NEW s \in Servers, TunWrapped(s)
      PROVE  Ownership'
  BY <1>11, <1>1, JobStep, JobFields
  DEF TunWrapped, JobPc, Ownership, AttachCloser, DownCloser, TypeOK
<1>12. ASSUME NEW s \in Servers, TunFails(s)
      PROVE  Ownership'
  BY <1>12, <1>1, JobStep, JobFields
  DEF TunFails, JobPc, Ownership, AttachCloser, DownCloser, TypeOK
<1>13. ASSUME NEW s \in Servers, AttachPublish(s)
      PROVE  Ownership'
  BY <1>13, <1>1, JobStep, JobFields
  DEF AttachPublish, JobPc, Ownership, AttachCloser, DownCloser, TypeOK
<1>14. ASSUME NEW s \in Servers, UpFails(s)
      PROVE  Ownership'
  BY <1>14, <1>1, JobStep, JobFields
  DEF UpFails, Report, JobPc, Ownership, AttachCloser, DownCloser, TypeOK
<1>15. ASSUME NEW s \in Servers, UpSucceeds(s)
      PROVE  Ownership'
  BY <1>15, <1>1, JobStep, JobFields
  DEF UpSucceeds, ctlVars, JobPc, Ownership, AttachCloser, DownCloser, TypeOK
<1>16. ASSUME NEW s \in Servers, ExitNodeFails(s)
      PROVE  Ownership'
  BY <1>16, <1>1, JobStep, JobFields
  DEF ExitNodeFails, Report, JobPc, Ownership, AttachCloser, DownCloser,
       TypeOK
<1>17. ASSUME NEW s \in Servers, ExitNodeApplied(s)
      PROVE  Ownership'
  BY <1>17, <1>1, JobStep, JobFields
  DEF ExitNodeApplied, ctlVars, JobPc, Ownership, AttachCloser, DownCloser,
       TypeOK
<1>18. ASSUME NEW s \in Servers, Commit(s)
      PROVE  Ownership'
  BY <1>18, <1>1, JobStep, JobFields
  DEF Commit, Report, JobPc, Ownership, AttachCloser, DownCloser, TypeOK
<1>19. CASE PingStep \/ UNCHANGED vars
  <2>1. UNCHANGED <<ctlVars, life, applied, job, caller>>
    BY <1>19, PingStepLeavesLife DEF vars
  <2>2. QED
    BY <1>1, <2>1 DEF ctlVars, Ownership, AttachCloser, DownCloser, TypeOK
<1>20. QED
  BY <1>2, <1>3, <1>4, <1>5, <1>6, <1>7, <1>8, <1>9, <1>10, <1>11, <1>12,
     <1>13, <1>14, <1>15, <1>16, <1>17, <1>18, <1>19, NextCases

\* An attach waits for the Close of the server it replaces.
LEMMA TunAfterOldClosedStep ==
  ASSUME IInv, [Next]_vars
  PROVE  TunAfterOldClosed'
<1>1. TypeOK /\ Ownership /\ TunAfterOldClosed /\ SomeoneWillReport /\ ExitInv
  BY DEF IInv
<1> USE ConstantsAssumption
<1>2. ASSUME NEW s \in Servers, NEW x \in ExitChoice, ControlUp(s, x)
      PROVE  TunAfterOldClosed'
  BY <1>2, <1>1, JobNew
  DEF ControlUp, Free, JobPc, Ownership, TunAfterOldClosed, TypeOK
<1>3. ASSUME ControlUpPublish
      PROVE  TunAfterOldClosed'
  <2>1. caller.srv \in Servers /\ job[caller.srv].old = None
    BY <1>1, <1>3 DEF ControlUpPublish, Ownership
  <2>2. life[caller.srv] = "none"
    BY <1>1, <1>3, <2>1 DEF ControlUpPublish, Ownership
  <2>3. \A s \in Servers : /\ job'[s].old = job[s].old
                           /\ s # caller.srv => job'[s] = job[s]
    BY <1>1, <1>3, <2>1, JobStep DEF ControlUpPublish, JobPc
  <2>4. \A s \in Servers : s # caller.srv => life'[s] = life[s]
    BY <1>1, <1>3 DEF ControlUpPublish, TypeOK
  <2>5. \A s \in Servers : job[s].old \in Servers \cup {None}
    BY <1>1, JobFields
  <2>6. QED
    BY <1>1, <2>1, <2>2, <2>3, <2>4, <2>5 DEF TunAfterOldClosed
<1>4. ASSUME NEW s \in Servers, ControlAttachTun(s)
      PROVE  TunAfterOldClosed'
  BY <1>4, <1>1, JobNew
  DEF ControlAttachTun, Free, JobPc, Running, Ownership, TunAfterOldClosed,
       TypeOK
<1>5. ASSUME ControlDown
      PROVE  TunAfterOldClosed'
  <2>1. \A s \in Servers : life[s] = "closed" => life'[s] = "closed"
    BY <1>1, <1>5 DEF ControlDown, Ownership, TypeOK
  <2>2. \A s \in Servers : job[s].old \in Servers \cup {None}
    BY <1>1, JobFields
  <2>3. job' = job
    BY <1>5 DEF ControlDown
  <2>4. QED
    BY <1>1, <2>1, <2>2, <2>3 DEF TunAfterOldClosed
<1>6. ASSUME ControlDownReturns
      PROVE  TunAfterOldClosed'
  BY <1>6, <1>1
  DEF ControlDownReturns, ctlVars, Free, Ownership, TunAfterOldClosed, TypeOK
<1>7. ASSUME ControlStatus
      PROVE  TunAfterOldClosed'
  BY <1>7, <1>1
  DEF ControlStatus, ctlVars, Free, Ownership, TunAfterOldClosed, TypeOK
<1>8. ASSUME ControlDnsProbe
      PROVE  TunAfterOldClosed'
  BY <1>8, <1>1
  DEF ControlDnsProbe, ctlVars, Free, Ownership, TunAfterOldClosed, TypeOK
<1>9. ASSUME QueryReturns
      PROVE  TunAfterOldClosed'
  BY <1>9, <1>1
  DEF QueryReturns, ctlVars, Free, Ownership, TunAfterOldClosed, TypeOK
<1>10. ASSUME NEW s \in Servers, CloseOldReturns(s)
      PROVE  TunAfterOldClosed'
  BY <1>10, <1>1, JobStep, JobFields
  DEF CloseOldReturns, ctlVars, JobPc, Ownership, TunAfterOldClosed, TypeOK
<1>11. ASSUME NEW s \in Servers, TunWrapped(s)
      PROVE  TunAfterOldClosed'
  BY <1>11, <1>1, JobStep, JobFields
  DEF TunWrapped, JobPc, Ownership, TunAfterOldClosed, TypeOK
<1>12. ASSUME NEW s \in Servers, TunFails(s)
      PROVE  TunAfterOldClosed'
  BY <1>12, <1>1, JobStep, JobFields
  DEF TunFails, JobPc, Ownership, TunAfterOldClosed, TypeOK
<1>13. ASSUME NEW s \in Servers, AttachPublish(s)
      PROVE  TunAfterOldClosed'
  BY <1>13, <1>1, JobStep, JobFields
  DEF AttachPublish, JobPc, Ownership, TunAfterOldClosed, TypeOK
<1>14. ASSUME NEW s \in Servers, UpFails(s)
      PROVE  TunAfterOldClosed'
  BY <1>14, <1>1, JobStep, JobFields
  DEF UpFails, Report, JobPc, Ownership, TunAfterOldClosed, TypeOK
<1>15. ASSUME NEW s \in Servers, UpSucceeds(s)
      PROVE  TunAfterOldClosed'
  BY <1>15, <1>1, JobStep, JobFields
  DEF UpSucceeds, ctlVars, JobPc, Ownership, TunAfterOldClosed, TypeOK
<1>16. ASSUME NEW s \in Servers, ExitNodeFails(s)
      PROVE  TunAfterOldClosed'
  BY <1>16, <1>1, JobStep, JobFields
  DEF ExitNodeFails, Report, JobPc, Ownership, TunAfterOldClosed, TypeOK
<1>17. ASSUME NEW s \in Servers, ExitNodeApplied(s)
      PROVE  TunAfterOldClosed'
  BY <1>17, <1>1, JobStep, JobFields
  DEF ExitNodeApplied, ctlVars, JobPc, Ownership, TunAfterOldClosed, TypeOK
<1>18. ASSUME NEW s \in Servers, Commit(s)
      PROVE  TunAfterOldClosed'
  BY <1>18, <1>1, JobStep, JobFields
  DEF Commit, Report, JobPc, Ownership, TunAfterOldClosed, TypeOK
<1>19. CASE PingStep \/ UNCHANGED vars
  <2>1. UNCHANGED <<ctlVars, life, applied, job, caller>>
    BY <1>19, PingStepLeavesLife DEF vars
  <2>2. QED
    BY <1>1, <2>1 DEF ctlVars, Ownership, TunAfterOldClosed, TypeOK
<1>20. QED
  BY <1>2, <1>3, <1>4, <1>5, <1>6, <1>7, <1>8, <1>9, <1>10, <1>11, <1>12,
     <1>13, <1>14, <1>15, <1>16, <1>17, <1>18, <1>19, NextCases

\* Somebody remains who is allowed to report.
LEMMA SomeoneWillReportStep ==
  ASSUME IInv, [Next]_vars
  PROVE  SomeoneWillReport'
<1>1. TypeOK /\ Ownership /\ TunAfterOldClosed /\ SomeoneWillReport /\ ExitInv
  BY DEF IInv
<1> USE ConstantsAssumption
<1>2. ASSUME NEW s \in Servers, NEW x \in ExitChoice, ControlUp(s, x)
      PROVE  SomeoneWillReport'
  BY <1>2, <1>1, JobNew
  DEF ControlUp, Free, JobPc, Ownership, SomeoneWillReport, TypeOK
<1>3. ASSUME ControlUpPublish
      PROVE  SomeoneWillReport'
  BY <1>3, <1>1, JobStep, JobFields, SMTT(30)
  DEF ControlUpPublish, Free, JobPc, Ownership, SomeoneWillReport, TypeOK
<1>4. ASSUME NEW s \in Servers, ControlAttachTun(s)
      PROVE  SomeoneWillReport'
  BY <1>4, <1>1, JobNew
  DEF ControlAttachTun, Free, JobPc, Running, Ownership, SomeoneWillReport,
       TypeOK
<1>5. ASSUME ControlDown
      PROVE  SomeoneWillReport'
  BY <1>5, <1>1 DEF ControlDown, Free, Ownership, SomeoneWillReport, TypeOK
<1>6. ASSUME ControlDownReturns
      PROVE  SomeoneWillReport'
  BY <1>6, <1>1
  DEF ControlDownReturns, ctlVars, Free, Ownership, SomeoneWillReport, TypeOK
<1>7. ASSUME ControlStatus
      PROVE  SomeoneWillReport'
  BY <1>7, <1>1
  DEF ControlStatus, ctlVars, Free, Ownership, SomeoneWillReport, TypeOK
<1>8. ASSUME ControlDnsProbe
      PROVE  SomeoneWillReport'
  BY <1>8, <1>1
  DEF ControlDnsProbe, ctlVars, Free, Ownership, SomeoneWillReport, TypeOK
<1>9. ASSUME QueryReturns
      PROVE  SomeoneWillReport'
  BY <1>9, <1>1
  DEF QueryReturns, ctlVars, Free, Ownership, SomeoneWillReport, TypeOK
<1>10. ASSUME NEW s \in Servers, CloseOldReturns(s)
      PROVE  SomeoneWillReport'
  BY <1>10, <1>1, JobStep, JobFields
  DEF CloseOldReturns, ctlVars, JobPc, Ownership, SomeoneWillReport, TypeOK
<1>11. ASSUME NEW s \in Servers, TunWrapped(s)
      PROVE  SomeoneWillReport'
  BY <1>11, <1>1, JobStep, JobFields
  DEF TunWrapped, JobPc, Ownership, SomeoneWillReport, TypeOK
<1>12. ASSUME NEW s \in Servers, TunFails(s)
      PROVE  SomeoneWillReport'
  BY <1>12, <1>1, JobStep, JobFields
  DEF TunFails, JobPc, Ownership, SomeoneWillReport, TypeOK
<1>13. ASSUME NEW s \in Servers, AttachPublish(s)
      PROVE  SomeoneWillReport'
  BY <1>13, <1>1, JobStep, JobFields
  DEF AttachPublish, JobPc, Ownership, SomeoneWillReport, TypeOK
<1>14. ASSUME NEW s \in Servers, UpFails(s)
      PROVE  SomeoneWillReport'
  BY <1>14, <1>1, JobStep, JobFields
  DEF UpFails, Report, JobPc, Ownership, SomeoneWillReport, TypeOK
<1>15. ASSUME NEW s \in Servers, UpSucceeds(s)
      PROVE  SomeoneWillReport'
  BY <1>15, <1>1, JobStep, JobFields
  DEF UpSucceeds, ctlVars, JobPc, Ownership, SomeoneWillReport, TypeOK
<1>16. ASSUME NEW s \in Servers, ExitNodeFails(s)
      PROVE  SomeoneWillReport'
  BY <1>16, <1>1, JobStep, JobFields
  DEF ExitNodeFails, Report, JobPc, Ownership, SomeoneWillReport, TypeOK
<1>17. ASSUME NEW s \in Servers, ExitNodeApplied(s)
      PROVE  SomeoneWillReport'
  BY <1>17, <1>1, JobStep, JobFields
  DEF ExitNodeApplied, ctlVars, JobPc, Ownership, SomeoneWillReport, TypeOK
<1>18. ASSUME NEW s \in Servers, Commit(s)
      PROVE  SomeoneWillReport'
  BY <1>18, <1>1, JobStep, JobFields
  DEF Commit, Report, JobPc, Ownership, SomeoneWillReport, TypeOK
<1>19. CASE PingStep \/ UNCHANGED vars
  <2>1. UNCHANGED <<ctlVars, life, applied, job, caller>>
    BY <1>19, PingStepLeavesLife DEF vars
  <2>2. QED
    BY <1>1, <2>1 DEF ctlVars, Ownership, SomeoneWillReport, TypeOK
<1>20. QED
  BY <1>2, <1>3, <1>4, <1>5, <1>6, <1>7, <1>8, <1>9, <1>10, <1>11, <1>12,
     <1>13, <1>14, <1>15, <1>16, <1>17, <1>18, <1>19, NextCases

\* The prefs of a server.
LEMMA ExitInvStep ==
  ASSUME IInv, [Next]_vars
  PROVE  ExitInv'
<1>1. TypeOK /\ Ownership /\ TunAfterOldClosed /\ SomeoneWillReport /\ ExitInv
  BY DEF IInv
<1> USE ConstantsAssumption
<1>2. ASSUME NEW s \in Servers, NEW x \in ExitChoice, ControlUp(s, x)
      PROVE  ExitInv'
  BY <1>2, <1>1, JobNew DEF ControlUp, Free, JobPc, Ownership, ExitInv, TypeOK
<1>3. ASSUME ControlUpPublish
      PROVE  ExitInv'
  <2>1. PublishedAt(caller.srv) /\ applied' = applied
    BY <1>1, <1>3, UpPublishes DEF ControlUpPublish
  <2>2. QED
    BY <1>1, <2>1 DEF PublishedAt, ExitInv
<1>4. ASSUME NEW s \in Servers, ControlAttachTun(s)
      PROVE  ExitInv'
  BY <1>4, <1>1, JobNew
  DEF ControlAttachTun, Free, JobPc, Running, Ownership, ExitInv, TypeOK
<1>5. ASSUME ControlDown
      PROVE  ExitInv'
  BY <1>5, <1>1 DEF ControlDown, Free, Ownership, ExitInv, TypeOK
<1>6. ASSUME ControlDownReturns
      PROVE  ExitInv'
  BY <1>6, <1>1
  DEF ControlDownReturns, ctlVars, Free, Ownership, ExitInv, TypeOK
<1>7. ASSUME ControlStatus
      PROVE  ExitInv'
  BY <1>7, <1>1 DEF ControlStatus, ctlVars, Free, Ownership, ExitInv, TypeOK
<1>8. ASSUME ControlDnsProbe
      PROVE  ExitInv'
  BY <1>8, <1>1 DEF ControlDnsProbe, ctlVars, Free, Ownership, ExitInv, TypeOK
<1>9. ASSUME QueryReturns
      PROVE  ExitInv'
  BY <1>9, <1>1 DEF QueryReturns, ctlVars, Free, Ownership, ExitInv, TypeOK
<1>10. ASSUME NEW s \in Servers, CloseOldReturns(s)
      PROVE  ExitInv'
  BY <1>10, <1>1, JobStep, JobFields
  DEF CloseOldReturns, ctlVars, JobPc, Ownership, ExitInv, TypeOK
<1>11. ASSUME NEW s \in Servers, TunWrapped(s)
      PROVE  ExitInv'
  BY <1>11, <1>1, JobStep, JobFields
  DEF TunWrapped, JobPc, Ownership, ExitInv, TypeOK
<1>12. ASSUME NEW s \in Servers, TunFails(s)
      PROVE  ExitInv'
  BY <1>12, <1>1, JobStep, JobFields
  DEF TunFails, JobPc, Ownership, ExitInv, TypeOK
<1>13. ASSUME NEW s \in Servers, AttachPublish(s)
      PROVE  ExitInv'
  BY <1>13, <1>1, JobStep, JobFields
  DEF AttachPublish, JobPc, Ownership, ExitInv, TypeOK
<1>14. ASSUME NEW s \in Servers, UpFails(s)
      PROVE  ExitInv'
  BY <1>14, <1>1, JobStep, JobFields
  DEF UpFails, Report, JobPc, Ownership, ExitInv, TypeOK
<1>15. ASSUME NEW s \in Servers, UpSucceeds(s)
      PROVE  ExitInv'
  BY <1>15, <1>1, JobStep, JobFields
  DEF UpSucceeds, ctlVars, JobPc, Ownership, ExitInv, TypeOK
<1>16. ASSUME NEW s \in Servers, ExitNodeFails(s)
      PROVE  ExitInv'
  BY <1>16, <1>1, JobStep, JobFields
  DEF ExitNodeFails, Report, JobPc, Ownership, ExitInv, TypeOK
<1>17. ASSUME NEW s \in Servers, ExitNodeApplied(s)
      PROVE  ExitInv'
  BY <1>17, <1>1, JobStep, JobFields
  DEF ExitNodeApplied, ctlVars, JobPc, Ownership, ExitInv, TypeOK
<1>18. ASSUME NEW s \in Servers, Commit(s)
      PROVE  ExitInv'
  BY <1>18, <1>1, JobStep, JobFields
  DEF Commit, Report, JobPc, Ownership, ExitInv, TypeOK
<1>19. CASE PingStep \/ UNCHANGED vars
  <2>1. UNCHANGED <<ctlVars, life, applied, job, caller>>
    BY <1>19, PingStepLeavesLife DEF vars
  <2>2. QED
    BY <1>1, <2>1 DEF ctlVars, Ownership, ExitInv, TypeOK
<1>20. QED
  BY <1>2, <1>3, <1>4, <1>5, <1>6, <1>7, <1>8, <1>9, <1>10, <1>11, <1>12,
     <1>13, <1>14, <1>15, <1>16, <1>17, <1>18, <1>19, NextCases


-----------------------------------------------------------------------------
(***************************************************************************)
(* The ping rounds.                                                        *)
(***************************************************************************)

\* Steps that run no ping goroutine leave the rounds alone, but may clear the
\* results (controlUp, controlAttachTun, controlDown).
LEMMA OtherStepsClearAtMost ==
  ASSUME [Next]_vars, ~PingStep
  PROVE  /\ UNCHANGED <<ctlPingBusy, round, path>>
         /\ ctlPings' = Nothing \/ ctlPings' = ctlPings
<1>1. ASSUME NEW s \in Servers, Goroutine(s)
      PROVE  UNCHANGED pingVars
  BY <1>1 DEF Goroutine, CloseOldReturns, TunWrapped, TunFails, AttachPublish,
     UpFails, UpSucceeds, ExitNodeFails, ExitNodeApplied, Commit, Report
<1>2. ASSUME CallReturns \/ ControlStatus \/ ControlDnsProbe
      PROVE  UNCHANGED pingVars
  BY <1>2 DEF CallReturns, ControlUpPublish, ControlDownReturns, QueryReturns,
     ControlStatus, ControlDnsProbe
<1>3. ASSUME \/ \E s \in Servers, x \in ExitChoice : ControlUp(s, x)
             \/ \E s \in Servers : ControlAttachTun(s)
             \/ ControlDown
      PROVE  UNCHANGED <<ctlPingBusy, round, path>> /\ ctlPings' = Nothing
  BY <1>3 DEF ControlUp, ControlAttachTun, ControlDown, ClearResults
<1>4. CASE UNCHANGED vars
  BY <1>4 DEF vars, pingVars
<1>5. QED
  BY <1>1, <1>2, <1>3, <1>4 DEF Next, Call, PingStep, pingVars

\* While a round runs, the results recorded are its own; a round in progress
\* that records one keeps what PingInv says of the list.
LEMMA RoundRecords ==
  ASSUME TypeOK, PingInv, NEW r \in Rounds, ActiveRound(r),
         NEW p \in {"pinging", "return"}, NEW n \in Nat,
         ctlPings[r] + 1 + n =< MaxPingPeers,
         p = "pinging" => n > 0,
         ctlPings' = Recorded(ctlPings, r), round' = Moved(round, r, p, n),
         ctlPingBusy' = ctlPingBusy,
         \A q \in Rounds : path'[q].pc = "probing" => path'[q].left > 0
  PROVE  PingInv'
<1>1. /\ round'[r].pc = p /\ round'[r].left = n
      /\ \A q \in Rounds : q # r => round'[q] = round[q]
  BY RoundStep DEF RoundPc
<1>2. /\ ctlPings'[r] = ctlPings[r] + 1
      /\ \A q \in Rounds : q # r => ctlPings'[q] = ctlPings[q]
  BY RecordedStep DEF TypeOK
<1>3. \A q \in Rounds : ActiveRound(q)' <=> ActiveRound(q)
  BY <1>1 DEF ActiveRound
<1>4. \A q \in Rounds : q # r => ~(ctlPings[q] > 0)
  BY DEF PingInv
<1>5. \A q \in Rounds : ctlPings'[q] > 0 => q = r
  BY <1>2, <1>4
<1>6. (ctlPingBusy <=> \E q \in Rounds : ActiveRound(q))'
  BY <1>3 DEF PingInv
<1>7. \A q, t \in Rounds : ActiveRound(q)' /\ ActiveRound(t)' => q = t
  BY <1>3 DEF PingInv
<1>8. ASSUME NEW q \in Rounds
      PROVE  /\ round'[q].pc \in {"status", "nobody"} =>
                  ctlPings'[q] = 0 /\ round'[q].left = 0
             /\ round'[q].pc = "pinging" => round'[q].left > 0
             /\ ctlPings'[q] + round'[q].left =< MaxPingPeers
  <2>1. CASE q = r
    BY <2>1, <1>1, <1>2, RoundFields
  <2>2. CASE q # r
    BY <2>2, <1>1, <1>2 DEF PingInv
  <2>3. QED
    BY <2>1, <2>2
<1>9. QED
  BY <1>3, <1>5, <1>6, <1>7, <1>8 DEF PingInv

LEMMA PathInv ==
  ASSUME TypeOK, PingInv, NEW r \in Rounds, LoopEnds(r) \/ UNCHANGED path
  PROVE  \A q \in Rounds : path'[q].pc = "probing" => path'[q].left > 0
<1>1. path' = Moved(path, r, "status", 0) \/ path' = path
  BY DEF LoopEnds
<1>2. CASE path' = Moved(path, r, "status", 0)
  <2>1. /\ path'[r].pc = "status"
        /\ \A q \in Rounds : q # r => path'[q] = path[q]
    BY <1>2, PathStep DEF PathPc
  <2>2. QED
    BY <2>1 DEF PingInv
<1>3. QED
  BY <1>1, <1>2 DEF PingInv

LEMMA PingInvStep ==
  ASSUME IInv, [Next]_vars
  PROVE  PingInv'
<1>1. TypeOK /\ PingInv
  BY DEF IInv
<1>2. CASE ~PingStep
  <2>1. /\ UNCHANGED <<ctlPingBusy, round, path>>
        /\ ctlPings' = Nothing \/ ctlPings' = ctlPings
    BY <1>2, OtherStepsClearAtMost
  <2>2. CASE ctlPings' = ctlPings
    BY <1>1, <2>1, <2>2 DEF PingInv, ActiveRound
  <2>3. CASE ctlPings' = Nothing
    <3>1. \A r \in Rounds : ctlPings'[r] = 0
      BY <2>3, NothingType
    <3>2. \A r \in Rounds : ctlPings[r] \in Nat /\ round[r].left \in Nat
      BY <1>1, RoundFields
    <3>3. \A r \in Rounds : ActiveRound(r)' <=> ActiveRound(r)
      BY <2>1 DEF ActiveRound
    <3>4. \A r \in Rounds : ctlPings'[r] + round'[r].left =< MaxPingPeers
      BY <1>1, <2>1, <3>1, <3>2, ConstantsAssumption DEF PingInv
    <3>5. QED
      BY <1>1, <2>1, <3>1, <3>3, <3>4 DEF PingInv
  <2>4. QED
    BY <2>1, <2>2, <2>3
<1>3. ASSUME NEW r \in Rounds, NEW tsmp \in BOOLEAN, ControlPingPeers(r, tsmp)
      PROVE  PingInv'
  <2>1. /\ round'[r].pc = "status" /\ round'[r].left = 0
        /\ \A q \in Rounds : q # r => round'[q] = round[q]
    BY <1>1, <1>3, RoundNew DEF ControlPingPeers
  <2>2. \A q \in Rounds : ctlPings'[q] = 0
    BY <1>3, NothingType DEF ControlPingPeers, ClearResults
  <2>3. \A q \in Rounds : ~ActiveRound(q)
    BY <1>1, <1>3 DEF ControlPingPeers, PingInv
  <2>4. \A q \in Rounds : ActiveRound(q)' <=> q = r
    BY <2>1, <2>3 DEF ActiveRound
  <2>5. ASSUME NEW q \in Rounds
        PROVE  /\ round'[q].left \in Nat
               /\ round'[q].left =< MaxPingPeers
               /\ round'[q].pc \in {"status", "nobody"} => round'[q].left = 0
               /\ round'[q].pc = "pinging" => round'[q].left > 0
    <3>1. CASE q = r
      BY <3>1, <2>1, ConstantsAssumption
    <3>2. CASE q # r
      BY <3>2, <1>1, <2>1, RoundFields, ConstantsAssumption DEF PingInv
    <3>3. QED
      BY <3>1, <3>2
  <2>6. ctlPingBusy' = TRUE /\ path' = path
    BY <1>3 DEF ControlPingPeers
  <2>7. QED
    BY <1>1, <2>2, <2>4, <2>5, <2>6 DEF PingInv
<1>4. ASSUME NEW r \in Rounds, PingStatusFails(r)
      PROVE  PingInv'
  <2>1. ActiveRound(r) /\ ctlPings[r] = 0
    BY <1>1, <1>4 DEF PingStatusFails, ActiveRound, PingInv
  <2>2. ctlPings[r] + 1 + 0 =< MaxPingPeers
    BY <2>1, ConstantsAssumption
  <2>3. path' = path
    BY <1>4 DEF PingStatusFails
  <2>4. \A q \in Rounds : path'[q].pc = "probing" => path'[q].left > 0
    BY <1>1, <2>3 DEF PingInv
  <2>5. QED
    BY <1>1, <1>4, <2>1, <2>2, <2>4, RoundRecords DEF PingStatusFails
<1>5. ASSUME NEW r \in Rounds, NEW n \in 0 .. MaxPingPeers,
             PingStatusReturns(r, n)
      PROVE  PingInv'
  <2> DEFINE p == IF n = 0 THEN "nobody" ELSE "pinging"
  <2>1. n \in Nat /\ n =< MaxPingPeers /\ p \in RoundPc
    BY ConstantsAssumption DEF RoundPc
  <2>2. round' = Moved(round, r, p, n)
    BY <1>5 DEF PingStatusReturns
  <2>3. /\ round'[r].pc = p /\ round'[r].left = n
        /\ \A q \in Rounds : q # r => round'[q] = round[q]
    BY <1>1, <2>1, <2>2, RoundStep
  <2>4. ActiveRound(r) /\ ctlPings[r] = 0
    BY <1>1, <1>5 DEF PingStatusReturns, ActiveRound, PingInv
  <2>5. \A q \in Rounds : ActiveRound(q)' <=> ActiveRound(q)
    BY <2>3, <2>4 DEF ActiveRound
  <2>6. UNCHANGED <<ctlPings, ctlPingBusy, path>>
    BY <1>5 DEF PingStatusReturns, listVars
  <2>7. ASSUME NEW q \in Rounds
        PROVE  /\ round'[q].pc \in {"status", "nobody"} =>
                    ctlPings[q] = 0 /\ round'[q].left = 0
               /\ round'[q].pc = "pinging" => round'[q].left > 0
               /\ ctlPings[q] + round'[q].left =< MaxPingPeers
    <3>1. CASE q = r
      BY <3>1, <2>1, <2>3, <2>4
    <3>2. CASE q # r
      BY <3>2, <1>1, <2>3 DEF PingInv
    <3>3. QED
      BY <3>1, <3>2
  <2> HIDE DEF p
  <2>8. QED
    BY <1>1, <2>5, <2>6, <2>7 DEF PingInv
<1>6. ASSUME NEW r \in Rounds, PingNobody(r)
      PROVE  PingInv'
  <2>1. ActiveRound(r) /\ ctlPings[r] = 0
    BY <1>1, <1>6 DEF PingNobody, ActiveRound, PingInv
  <2>2. ctlPings[r] + 1 + 0 =< MaxPingPeers
    BY <2>1, ConstantsAssumption
  <2>3. \A q \in Rounds : path'[q].pc = "probing" => path'[q].left > 0
    BY <1>1, <1>6, PathInv DEF PingNobody
  <2>4. QED
    BY <1>1, <1>6, <2>1, <2>2, <2>3, RoundRecords DEF PingNobody
<1>7. ASSUME NEW r \in Rounds, PingOne(r)
      PROVE  PingInv'
  <2>1. /\ ActiveRound(r) /\ round[r].left > 0
        /\ ctlPings[r] + round[r].left =< MaxPingPeers
    BY <1>1, <1>7 DEF PingOne, ActiveRound, PingInv
  <2>2. ctlPings[r] \in Nat /\ round[r].left \in Nat
    BY <1>1, RoundFields
  <2>3. \A q \in Rounds : path'[q].pc = "probing" => path'[q].left > 0
    BY <1>1, <1>7, PathInv DEF PingOne
  <2>4. /\ ctlPings' = Recorded(ctlPings, r) /\ ctlPingBusy' = ctlPingBusy
        /\ \/ round[r].left = 1 /\ round' = Moved(round, r, "return", 0)
           \/ /\ round[r].left # 1
              /\ round' = Moved(round, r, "pinging", round[r].left - 1)
    BY <1>7 DEF PingOne
  <2>5. CASE round[r].left = 1
    <3>1. ctlPings[r] + 1 + 0 =< MaxPingPeers
      BY <2>1, <2>2, <2>5
    <3>2. QED
      BY <1>1, <2>1, <2>3, <2>4, <2>5, <3>1, RoundRecords
  <2>6. CASE round[r].left # 1
    <3> DEFINE n == round[r].left - 1
    <3>1. n \in Nat /\ n > 0 /\ ctlPings[r] + 1 + n =< MaxPingPeers
      BY <2>1, <2>2, <2>6, ConstantsAssumption
    <3>2. round' = Moved(round, r, "pinging", n)
      BY <2>4, <2>6
    <3> HIDE DEF n
    <3>3. QED
      BY <1>1, <2>1, <2>3, <2>4, <3>1, <3>2, RoundRecords
  <2>7. QED
    BY <2>5, <2>6
<1>8. ASSUME NEW r \in Rounds, PingRoundReturns(r)
      PROVE  PingInv'
  <2>1. round' = Moved(round, r, "done", 0)
    BY <1>8 DEF PingRoundReturns
  <2>2. /\ round'[r].pc = "done" /\ round'[r].left = 0
        /\ \A q \in Rounds : q # r => round'[q] = round[q]
    BY <1>1, <2>1, RoundStep DEF RoundPc
  <2>3. ActiveRound(r)
    BY <1>8 DEF PingRoundReturns, ActiveRound
  <2>4. \A q \in Rounds : ~ActiveRound(q)'
    BY <1>1, <2>2, <2>3 DEF ActiveRound, PingInv
  <2>5. ctlPingBusy' = FALSE /\ UNCHANGED <<ctlPings, path>>
    BY <1>8 DEF PingRoundReturns, listVars
  <2>6. ASSUME NEW q \in Rounds
        PROVE  /\ round'[q].pc \in {"status", "nobody"} =>
                    ctlPings[q] = 0 /\ round'[q].left = 0
               /\ round'[q].pc = "pinging" => round'[q].left > 0
               /\ ctlPings[q] + round'[q].left =< MaxPingPeers
    <3>1. CASE q = r
      <4>1. ctlPings[r] \in Nat /\ round[r].left \in Nat
        BY <1>1, RoundFields
      <4>2. ctlPings[r] + 0 =< MaxPingPeers
        BY <1>1, <4>1, ConstantsAssumption DEF PingInv
      <4>3. QED
        BY <3>1, <2>2, <4>2
    <3>2. CASE q # r
      BY <3>2, <1>1, <2>2 DEF PingInv
    <3>3. QED
      BY <3>1, <3>2
  <2>7. QED
    BY <1>1, <2>4, <2>5, <2>6 DEF PingInv
<1>9. ASSUME NEW r \in Rounds, ProbePaths(r)
      PROVE  PingInv'
  <2>1. UNCHANGED <<ctlPings, ctlPingBusy, round>>
    BY <1>9 DEF ProbePaths, PathStatusFails, PathStatusReturns, PathOne,
       PathNobody
  <2>2. \E p \in PathPc, n \in Nat :
          path' = Moved(path, r, p, n) /\ (p = "probing" => n > 0)
    <3>1. CASE PathStatusFails(r) \/ PathNobody(r)
      BY <3>1 DEF PathStatusFails, PathNobody, PathPc
    <3>2. ASSUME NEW n \in 0 .. MaxPathPeers, PathStatusReturns(r, n)
          PROVE  \E p \in PathPc, m \in Nat :
                   path' = Moved(path, r, p, m) /\ (p = "probing" => m > 0)
      <4>1. n \in Nat
        BY ConstantsAssumption
      <4>2. QED
        BY <3>2, <4>1 DEF PathStatusReturns, PathPc
    <3>3. CASE PathOne(r)
      <4>1. path[r].left \in Nat /\ path[r].left > 0
        BY <1>1, <3>3, RoundFields DEF PathOne, PingInv
      <4>2. CASE path[r].left = 1
        BY <3>3, <4>2 DEF PathOne, PathPc
      <4>3. CASE path[r].left # 1
        <5>1. path[r].left - 1 \in Nat /\ path[r].left - 1 > 0
          BY <4>1, <4>3
        <5>2. path' = Moved(path, r, "probing", path[r].left - 1)
          BY <3>3, <4>3 DEF PathOne
        <5>3. QED
          BY <5>1, <5>2 DEF PathPc
      <4>4. QED
        BY <4>2, <4>3
    <3>4. QED
      BY <1>9, <3>1, <3>2, <3>3 DEF ProbePaths
  <2>3. PICK p \in PathPc, n \in Nat :
          path' = Moved(path, r, p, n) /\ (p = "probing" => n > 0)
    BY <2>2
  <2>4. \A q \in Rounds : path'[q].pc = "probing" => path'[q].left > 0
    <3>1. /\ path'[r].pc = p /\ path'[r].left = n
          /\ \A q \in Rounds : q # r => path'[q] = path[q]
      BY <1>1, <2>3, PathStep
    <3>2. QED
      BY <1>1, <2>3, <3>1 DEF PingInv
  <2>5. QED
    BY <1>1, <2>1, <2>4 DEF PingInv, ActiveRound
<1>10. CASE PingStep
  BY <1>3, <1>4, <1>5, <1>6, <1>7, <1>8, <1>9, <1>10 DEF PingStep, PingRound
<1>11. QED
  BY <1>2, <1>10


-----------------------------------------------------------------------------
(***************************************************************************)
(* The invariant holds, and with it the properties of ControlPlane.        *)
(***************************************************************************)

LEMMA InitInv ==
  ASSUME Init
  PROVE  IInv
<1>1. /\ \A s \in Servers : /\ life[s] = "none" /\ applied[s] = NoExit
                            /\ job[s].pc = "unused" /\ job[s].old = None
      /\ \A r \in Rounds : /\ round[r].pc = "unused" /\ round[r].left = 0
                           /\ path[r].pc = "unused" /\ ctlPings[r] = 0
  BY DEF Init, Nothing
<1>2. TypeOK
  BY NothingType
  DEF Init, TypeOK, Free, CallerType, JobType, JobPc, RoundType,
     RoundPc, PathType, PathPc, ExitChoice
<1>3. Ownership
  BY <1>1 DEF Init, Ownership, AttachCloser, DownCloser, Free
<1>4. TunAfterOldClosed /\ SomeoneWillReport /\ ExitInv
  BY <1>1 DEF Init, TunAfterOldClosed, SomeoneWillReport, ExitInv
<1>5. PingInv
  BY <1>1, ConstantsAssumption DEF Init, PingInv, ActiveRound
<1>6. QED
  BY <1>2, <1>3, <1>4, <1>5 DEF IInv

\* Every reachable state satisfies the inductive invariant.
THEOREM IInvariance == Spec => []IInv
<1>1. Init => IInv
  BY InitInv
<1>2. IInv /\ [Next]_vars => IInv'
  BY TypeStep, OwnershipStep, TunAfterOldClosedStep, SomeoneWillReportStep,
     ExitInvStep, PingInvStep DEF IInv
<1>3. QED
  BY <1>1, <1>2, PTL DEF Spec

\* The package variables of control.go and the goroutines around them keep
\* their types: in particular a ping round never counts below zero peers left,
\* and the server and tun pointers only ever name servers that were built.
THEOREM TypeCorrect == Spec => []TypeOK
<1>1. IInv => TypeOK
  BY DEF IInv
<1>2. QED
  BY <1>1, IInvariance, PTL

\* While controlStatusJSON or controlDnsProbe talks to the server it found,
\* nobody closes it: for any number of overlapping attaches and downs.
THEOREM QueriesAreSafe == Spec => []QueriesHitOpenServers
<1>1. IInv => QueriesHitOpenServers
  BY DEF IInv, Ownership, QueriesHitOpenServers
<1>2. QED
  BY <1>1, IInvariance, PTL

\* A server is handed to exactly one Close, by whoever took it out of ctlSrv,
\* and is never published again.
THEOREM CloseIsExclusive == Spec => []OneCloser
<1>1. IInv => OneCloser
  <2> SUFFICES ASSUME IInv
               PROVE  OneCloser
    OBVIOUS
  <2>1. TypeOK /\ Ownership
    BY DEF IInv
  <2>2. ASSUME NEW s \in Servers, NEW t \in Servers, AttachCloser(s, t)
        PROVE  life[s] = "closing"
    BY <2>1, <2>2 DEF Ownership, AttachCloser
  <2>3. ASSUME NEW s \in Servers, DownCloser(s)
        PROVE  life[s] = "closing"
    BY <2>1, <2>3 DEF Ownership, DownCloser
  <2>4. ASSUME NEW s \in Servers, life[s] \in {"closing", "closed"}
        PROVE  ctlSrv # s
    BY <2>1, <2>4, ConstantsAssumption DEF Ownership
  <2>5. QED
    BY <2>1, <2>2, <2>3, <2>4 DEF OneCloser, Ownership
<1>2. QED
  BY <1>1, IInvariance, PTL

\* An attach builds its tun device only after the Close of the server it
\* replaces has returned.
THEOREM TunWaitsForClose == Spec => []TunAfterOldClosed
<1>1. IInv => TunAfterOldClosed
  BY DEF IInv
<1>2. QED
  BY <1>1, IInvariance, PTL

\* "starting" and "reattaching" always have somebody in progress who is
\* allowed to end them.
THEOREM ReportsRemain == Spec => []SomeoneWillReport
<1>1. IInv => SomeoneWillReport
  BY DEF IInv
<1>2. QED
  BY <1>1, IInvariance, PTL

\* Ping rounds exclude each other and never mix their results.
THEOREM RoundsAreExclusive == Spec => []PingRoundsDoNotMix
<1>1. IInv => PingRoundsDoNotMix
  BY DEF IInv, PingInv, PingRoundsDoNotMix
<1>2. QED
  BY <1>1, IInvariance, PTL

\* The state becomes "up" only once the prefs of the published server carry
\* the exit node it was asked for, for any overlap of attempts.
THEOREM ExitNodeFirst == Spec => ExitNodeBeforeUp
<1>1. ASSUME IInv, [Next]_vars, ctlState # "up", ctlState' = "up"
      PROVE  ctlSrv' # None /\ applied'[ctlSrv'] = job'[ctlSrv'].exit
  <2>1. TypeOK /\ ExitInv
    BY <1>1 DEF IInv
  <2>2. \E s \in Servers : Commit(s) /\ ctlSrv = s
    <3>1. ~PingStep
      BY <1>1, PingStepLeavesLife DEF ctlVars
    <3>2. ~ UNCHANGED vars
      BY <1>1 DEF vars, ctlVars
    <3>3. ASSUME NEW s \in Servers, NEW x \in ExitChoice
          PROVE  ~ControlUp(s, x)
      BY <1>1 DEF ControlUp
    <3>4. ASSUME NEW s \in Servers
          PROVE  /\ ~ControlAttachTun(s) /\ ~CloseOldReturns(s)
                 /\ ~TunWrapped(s) /\ ~TunFails(s) /\ ~AttachPublish(s)
                 /\ ~UpFails(s) /\ ~UpSucceeds(s) /\ ~ExitNodeFails(s)
                 /\ ~ExitNodeApplied(s)
      BY <1>1 DEF ControlAttachTun, CloseOldReturns, TunWrapped, TunFails,
         AttachPublish, UpFails, UpSucceeds, ExitNodeFails, ExitNodeApplied,
         Report, ctlVars
    <3>5. /\ ~ControlUpPublish /\ ~ControlDown /\ ~ControlDownReturns
          /\ ~ControlStatus /\ ~ControlDnsProbe /\ ~QueryReturns
      BY <1>1 DEF ControlUpPublish, ControlDown, ControlDownReturns,
         ControlStatus, ControlDnsProbe, QueryReturns, ctlVars
    <3>6. PICK s \in Servers : Commit(s)
      BY <1>1, <3>1, <3>2, <3>3, <3>4, <3>5, NextCases
    <3>7. ctlSrv = s
      BY <1>1, <3>6 DEF Commit, Report
    <3>8. QED
      BY <3>6, <3>7
  <2>3. PICK s \in Servers : Commit(s) /\ ctlSrv = s
    BY <2>2
  <2>4. applied[s] = job[s].exit
    BY <2>1, <2>3 DEF Commit, ExitInv
  <2>5. ctlSrv' = s /\ applied' = applied
    BY <2>3 DEF Commit, Report
  <2>6. job'[s].exit = job[s].exit
    BY <2>1, <2>3, JobStep DEF Commit, Report, JobPc
  <2>7. QED
    BY <2>4, <2>5, <2>6, ConstantsAssumption
<1>2. IInv /\ [Next]_vars =>
        [ctlState # "up" /\ ctlState' = "up"
           => /\ ctlSrv' # None
              /\ applied'[ctlSrv'] = job'[ctlSrv'].exit]_vars
  BY <1>1
<1>3. QED
  BY <1>2, IInvariance, PTL DEF Spec, ExitNodeBeforeUp

-----------------------------------------------------------------------------
(***************************************************************************)
(* DownStaysDown does not hold, because an attach in progress publishes    *)
(* its server after a controlDown.  Nothing else undoes a controlDown.     *)
(***************************************************************************)

\* Taken down, with nobody left who will publish a server.
Offline == ctlState = "idle" /\ ctlSrv = None /\ Building = {}

\* A controlDown that finds no attempt under construction takes the node offline,
\* and only a controlUp ends that.
DownEndsUntilUp ==
  [][/\ ControlDown /\ Building = {} => Offline'
     /\ Offline => Offline' \/ \E s \in Servers, x \in ExitChoice : ControlUp(s, x)]_vars

\* A goroutine that moves on without having been about to publish.
LEMMA StaysOffline ==
  ASSUME IInv, Offline, NEW s \in Servers,
         NEW p \in JobPc \ {"built", "close", "wrap", "publish"},
         job' = [job EXCEPT ![s].pc = p], ctlState' = ctlState, ctlSrv' = ctlSrv
  PROVE  Offline'
<1>1. /\ job'[s].pc = p
      /\ \A t \in Servers : t # s => job'[t] = job[t]
  BY JobStep DEF IInv
<1>2. \A t \in Servers : job[t].pc \notin {"built", "close", "wrap", "publish"}
  BY DEF Offline, Building
<1>3. Building' = {}
  BY <1>1, <1>2 DEF Building
<1>4. QED
  BY <1>3 DEF Offline

\* The goroutines that earlier sessions left behind cannot bring a node back that
\* controlDown has taken down: only an attach in progress can (see DownStaysDown).
THEOREM DownEnds == Spec => DownEndsUntilUp
<1>1. ASSUME ControlDown, Building = {}
      PROVE  Offline'
  BY <1>1 DEF ControlDown, Offline, Building
<1>2. ASSUME IInv, [Next]_vars, Offline
      PROVE  Offline' \/ \E s \in Servers, x \in ExitChoice : ControlUp(s, x)
  <2> USE <1>2
  <2>1. ctlState = "idle" /\ ctlSrv = None
    BY DEF Offline
  <2>2. \A s \in Servers : job[s].pc \notin {"built", "close", "wrap", "publish"}
    BY DEF Offline, Building
  <2>3. ASSUME ctlState' = ctlState, ctlSrv' = ctlSrv, job' = job
        PROVE  Offline'
    BY <2>3 DEF Offline, Building
  <2>4. ~ControlUpPublish
    BY <2>2 DEF ControlUpPublish, IInv, Ownership
  <2>5. ASSUME NEW s \in Servers
        PROVE  /\ ~ControlAttachTun(s) /\ ~CloseOldReturns(s) /\ ~TunWrapped(s)
               /\ ~TunFails(s) /\ ~AttachPublish(s)
    BY <2>1, <2>2 DEF ControlAttachTun, Running, CloseOldReturns, TunWrapped, TunFails,
       AttachPublish
  <2>6. ASSUME NEW s \in Servers, NEW state, NEW err, Report(s, state, err)
        PROVE  Offline'
    <3>1. ctlSrv # s
      BY <2>1, ConstantsAssumption
    <3>2. job' = [job EXCEPT ![s].pc = "done"] /\ ctlState' = ctlState /\ ctlSrv' = ctlSrv
      BY <2>6, <3>1 DEF Report
    <3>3. QED
      BY <3>2, StaysOffline DEF JobPc
  <2>7. ASSUME NEW s \in Servers, UpFails(s) \/ ExitNodeFails(s) \/ Commit(s)
        PROVE  Offline'
    BY <2>6, <2>7 DEF UpFails, ExitNodeFails, Commit
  <2>8. ASSUME NEW s \in Servers, UpSucceeds(s)
        PROVE  Offline'
    <3>1. /\ job' = [job EXCEPT ![s].pc = IF job[s].exit = NoExit THEN "commit" ELSE "exit"]
          /\ ctlState' = ctlState /\ ctlSrv' = ctlSrv
      BY <2>8 DEF UpSucceeds, ctlVars
    <3>2. PICK p \in {"commit", "exit"} : job' = [job EXCEPT ![s].pc = p]
      BY <3>1
    <3>3. p \in JobPc \ {"built", "close", "wrap", "publish"}
      BY DEF JobPc
    <3>4. QED
      BY <3>1, <3>2, <3>3, StaysOffline
  <2>9. ASSUME NEW s \in Servers, ExitNodeApplied(s)
        PROVE  Offline'
    <3>1. /\ job' = [job EXCEPT ![s].pc = "commit"]
          /\ ctlState' = ctlState /\ ctlSrv' = ctlSrv
      BY <2>9 DEF ExitNodeApplied, ctlVars
    <3>2. QED
      BY <3>1, StaysOffline DEF JobPc
  <2>10. ASSUME ControlDown
         PROVE  Offline'
    BY <1>1, <2>10 DEF Offline
  <2>11. ASSUME ControlDownReturns \/ ControlStatus \/ ControlDnsProbe \/ QueryReturns
         PROVE  Offline'
    BY <2>3, <2>11 DEF ControlDownReturns, ControlStatus, ControlDnsProbe, QueryReturns, ctlVars
  <2>12. ASSUME PingStep \/ UNCHANGED vars
         PROVE  Offline'
    BY <2>3, <2>12, PingStepLeavesLife DEF vars, ctlVars
  <2>13. QED
    BY <2>4, <2>5, <2>7, <2>8, <2>9, <2>10, <2>11, <2>12, NextCases
<1>3. IInv /\ [Next]_vars =>
        [/\ ControlDown /\ Building = {} => Offline'
         /\ Offline => Offline' \/ \E s \in Servers, x \in ExitChoice : ControlUp(s, x)]_vars
  BY <1>1, <1>2
<1>4. QED
  BY <1>3, IInvariance, PTL DEF Spec, DownEndsUntilUp

-----------------------------------------------------------------------------
(***************************************************************************)
(* The control plane implements GoCore.  The inductive invariant says      *)
(* which servers are building; the rest is one step per action.            *)
(***************************************************************************)


Mapped == <<ctlState, Building, Current>>

\* The states of a goroutine in which its server is being built, and in which
\* it may still report.
Early == {"built", "close", "wrap", "publish"}
Late  == {"up", "exit", "commit"}

\* A goroutine that moves on within one of the two groups is not visible.
LEMMA BuildingKept ==
  ASSUME TypeOK, TypeOK', NEW s \in Servers, NEW p \in JobPc,
         job' = [job EXCEPT ![s].pc = p], job[s].pc \in Early <=> p \in Early
  PROVE  Building' = Building
<1>1. /\ job'[s].pc = p
      /\ \A t \in Servers : t # s => job'[t] = job[t]
  BY JobStep
<1>2. ASSUME NEW t \in Servers
      PROVE  job'[t].pc \in Early <=> job[t].pc \in Early
  BY <1>1
<1>3. QED
  BY <1>2 DEF Building, Early

LEMMA CurrentKept ==
  ASSUME TypeOK, TypeOK', NEW s \in Servers, NEW p \in JobPc,
         job' = [job EXCEPT ![s].pc = p], UNCHANGED ctlSrv,
         ctlSrv = s => (job[s].pc \in Late <=> p \in Late)
  PROVE  Current' = Current
<1>1. /\ job'[s].pc = p
      /\ \A t \in Servers : t # s => job'[t] = job[t]
  BY JobStep
<1>2. ctlSrv # None => (job'[ctlSrv].pc \in Late <=> job[ctlSrv].pc \in Late)
  BY <1>1 DEF TypeOK
<1>3. QED
  BY <1>2 DEF Current, Late

\* A server that has published is no longer building.
LEMMA BuildingLoses ==
  ASSUME TypeOK, TypeOK', NEW s \in Servers, NEW p \in JobPc \ Early,
         job' = [job EXCEPT ![s].pc = p]
  PROVE  Building' = Building \ {s}
<1>1. /\ job'[s].pc = p
      /\ \A t \in Servers : t # s => job'[t] = job[t]
  BY JobStep
<1>2. ASSUME NEW t \in Servers
      PROVE  job'[t].pc \in Early <=> job[t].pc \in Early /\ t # s
  BY <1>1
<1>3. QED
  BY <1>2 DEF Building, Early

LEMMA BuildingGains ==
  ASSUME TypeOK, TypeOK', NEW s \in Servers, NEW p \in Early,
         NEW x \in ExitChoice, NEW o \in Servers \cup {None},
         job' = [job EXCEPT ![s] = [pc |-> p, exit |-> x, old |-> o]]
  PROVE  Building' = Building \cup {s}
<1>1. /\ job'[s].pc = p
      /\ \A t \in Servers : t # s => job'[t] = job[t]
  BY JobNew DEF Early, JobPc
<1>2. ASSUME NEW t \in Servers
      PROVE  job'[t].pc \in Early <=> job[t].pc \in Early \/ t = s
  BY <1>1
<1>3. QED
  BY <1>2 DEF Building, Early

\* bringUp, which has reached its last step, is seen to report when its server
\* is still published and is not seen otherwise.
LEMMA ReportMaps ==
  ASSUME TypeOK, TypeOK', NEW s \in Servers, job[s].pc \in Late,
         NEW state \in {"up", "failed"}, NEW err, Report(s, state, err)
  PROVE  Core!Next \/ UNCHANGED Mapped
<1> USE ConstantsAssumption
<1>1. Building' = Building
  BY BuildingKept DEF Report, JobPc, Early, Late
<1>2. CASE ctlSrv = s
  <2>1. job'[s].pc = "done"
    BY JobStep DEF Report, JobPc
  <2>2. Current = s /\ Current' = None /\ ctlState' = state
    BY <1>2, <2>1 DEF Report, Current, Late
  <2>3. Core!Report
    BY <1>1, <2>2 DEF Core!Report
  <2>4. QED
    BY <2>3 DEF Core!Next, Core!Internal
<1>3. CASE ctlSrv # s
  <2>1. Current' = Current
    BY <1>3, CurrentKept DEF Report, JobPc
  <2>2. QED
    BY <1>1, <1>3, <2>1 DEF Report, Mapped
<1>4. QED
  BY <1>2, <1>3

\* Every step of the control plane is a step of the abstract core or leaves it
\* alone.
LEMMA StepMaps ==
  ASSUME IInv, [Next]_vars
  PROVE  Core!Next \/ UNCHANGED Mapped
<1>0. TypeOK /\ TypeOK' /\ Ownership
  BY TypeStep DEF IInv
<1> USE ConstantsAssumption
<1>1. ASSUME NEW s \in Servers, NEW x \in ExitChoice, ControlUp(s, x)
      PROVE  Core!Next
  <2>1. Building' = Building \cup {s} /\ s \notin Building
    BY <1>0, <1>1, BuildingGains DEF ControlUp, Building, Early
  <2>2. Current' = Current /\ s # Current
    <3>1. \A t \in Servers : t # s => job'[t] = job[t]
      BY <1>0, <1>1, JobNew DEF ControlUp, JobPc
    <3>2. ctlSrv # s
      BY <1>0, <1>1 DEF ControlUp, Ownership
    <3>3. QED
      BY <1>0, <1>1, <3>1, <3>2 DEF ControlUp, Current, TypeOK
  <2>3. Core!Up(s)
    BY <1>1, <2>1, <2>2 DEF ControlUp, Core!Up, Core!Running, Core!Waiting,
       Running
  <2>4. QED
    BY <2>3 DEF Core!Next
<1>2. ASSUME NEW s \in Servers, ControlAttachTun(s)
      PROVE  Core!Next
  <2>1. ctlParams \in ExitChoice /\ ctlSrv \in Servers \cup {None}
    BY <1>0, <1>2 DEF ControlAttachTun, TypeOK
  <2>2. Building' = Building \cup {s} /\ s \notin Building
    BY <1>0, <1>2, <2>1, BuildingGains DEF ControlAttachTun, Building, Early
  <2>3. Current' = None /\ s # Current
    BY <1>0, <1>2 DEF ControlAttachTun, Current
  <2>4. Core!Attach(s)
    BY <1>2, <2>2, <2>3 DEF ControlAttachTun, Core!Attach, Core!Running,
       Core!Waiting, Running
  <2>5. QED
    BY <2>4 DEF Core!Next
<1>3. CASE ControlDown
  <2>1. Current' = None /\ Building' = Building
    BY <1>3 DEF ControlDown, Current, Building
  <2>2. Core!Down
    BY <1>3, <2>1 DEF ControlDown, Core!Down
  <2>3. QED
    BY <2>2 DEF Core!Next
<1>4. CASE ControlUpPublish
  <2> DEFINE s == caller.srv
  <2>1. s \in Servers /\ job[s].pc = "built"
    BY <1>0, <1>4 DEF ControlUpPublish, Ownership
  <2>2. s \in Building /\ Building' = Building \ {s}
    BY <1>0, <1>4, <2>1, BuildingLoses
    DEF ControlUpPublish, Building, JobPc, Early
  <2>3. job'[s].pc = "up"
    BY <1>0, <1>4, <2>1, JobStep DEF ControlUpPublish, JobPc
  <2>4. Current' = s
    BY <1>4, <2>1, <2>3 DEF ControlUpPublish, Current
  <2>5. Core!Publish(s)
    BY <1>4, <2>2, <2>4 DEF ControlUpPublish, Core!Publish
  <2>6. QED
    BY <2>1, <2>5 DEF Core!Next, Core!Internal
<1>5. ASSUME NEW s \in Servers, AttachPublish(s)
      PROVE  Core!Next
  <2>1. s \in Building /\ Building' = Building \ {s}
    BY <1>0, <1>5, BuildingLoses
    DEF AttachPublish, Building, JobPc, Early
  <2>2. job'[s].pc = "up"
    BY <1>0, <1>5, JobStep DEF AttachPublish, JobPc
  <2>3. Current' = s
    BY <1>5, <2>2 DEF AttachPublish, Current
  <2>4. Core!Publish(s)
    BY <1>5, <2>1, <2>3 DEF AttachPublish, Core!Publish
  <2>5. QED
    BY <2>4 DEF Core!Next, Core!Internal
<1>6. ASSUME NEW s \in Servers, TunFails(s)
      PROVE  Core!Next
  <2>1. s \in Building /\ Building' = Building \ {s}
    BY <1>0, <1>6, BuildingLoses DEF TunFails, Building, JobPc, Early
  <2>2. ctlSrv # s
    BY <1>0, <1>6 DEF TunFails, Ownership
  <2>3. Current' = Current
    BY <1>0, <1>6, <2>2, CurrentKept DEF TunFails, JobPc
  <2>4. Core!AttachFails(s)
    BY <1>6, <2>1, <2>3 DEF TunFails, Core!AttachFails
  <2>5. QED
    BY <2>4 DEF Core!Next, Core!Internal
<1>7. ASSUME NEW s \in Servers, UpFails(s) \/ ExitNodeFails(s) \/ Commit(s)
      PROVE  Core!Next \/ UNCHANGED Mapped
  BY <1>0, <1>7, ReportMaps DEF UpFails, ExitNodeFails, Commit, Late
<1>8. ASSUME NEW s \in Servers,
             \/ CloseOldReturns(s) \/ TunWrapped(s)
             \/ UpSucceeds(s) \/ ExitNodeApplied(s)
      PROVE  UNCHANGED Mapped
  <2>1. PICK p \in JobPc : /\ job' = [job EXCEPT ![s].pc = p]
                           /\ job[s].pc \in Early <=> p \in Early
                           /\ job[s].pc \in Late <=> p \in Late
    BY <1>8 DEF CloseOldReturns, TunWrapped, UpSucceeds, ExitNodeApplied,
       JobPc, Early, Late
  <2>2. UNCHANGED <<ctlState, ctlSrv>>
    BY <1>8 DEF CloseOldReturns, TunWrapped, UpSucceeds, ExitNodeApplied,
       ctlVars
  <2>3. Building' = Building /\ Current' = Current
    BY <1>0, <2>1, <2>2, BuildingKept, CurrentKept
  <2>4. QED
    BY <2>2, <2>3 DEF Mapped
<1>9. CASE \/ ControlDownReturns \/ ControlStatus \/ ControlDnsProbe
           \/ QueryReturns \/ PingStep \/ UNCHANGED vars
  <2>1. UNCHANGED <<ctlState, ctlSrv, job>>
    BY <1>9, PingStepLeavesLife DEF ControlDownReturns, ControlStatus,
       ControlDnsProbe, QueryReturns, vars, ctlVars
  <2>2. QED
    BY <2>1 DEF Mapped, Building, Current
<1>10. QED
  BY <1>1, <1>2, <1>3, <1>4, <1>5, <1>6, <1>7, <1>8, <1>9, NextCases

\* The control plane implements the abstract core: what a status query returns
\* changes only as GoCore allows, for any number of overlapping attempts.
THEOREM Refinement == Spec => ImplementsGoCore
<1>1. Init => Core!Init
  BY DEF Init, Core!Init, Building, Current
<1>2. IInv /\ [Next]_vars => [Core!Next]_(Core!vars)
  BY StepMaps DEF Mapped, Core!vars
<1>3. QED
  BY <1>1, <1>2, IInvariance, PTL DEF Spec, ImplementsGoCore, Core!Spec

=============================================================================
