------------------------------- MODULE GoCore -------------------------------
(***************************************************************************)
(* What the Go core promises the process that hosts it: the state a status *)
(* query returns, and who may still change it.  An attempt is one accepted *)
(* call of controlUp or controlAttachTun.  It is first being built; when   *)
(* it has published its server it is the current attempt, the only one     *)
(* that may report, and it reports once.                                   *)
(*                                                                         *)
(* ControlPlane implements this specification (its ImplementsGoCore), and  *)
(* VpnAbility is built on it: the extension sees no more of the core.      *)
(***************************************************************************)

CONSTANTS
  Attempts, \* the accepted calls of controlUp and controlAttachTun
  None      \* no attempt

VARIABLES
  state,    \* what controlStatusJSON returns
  building, \* the attempts that have not published their server yet
  current   \* the published attempt, until it has reported

vars == <<state, building, current>>

Waiting == {"starting", "reattaching"}
Running == Waiting \cup {"up"}

TypeOK ==
  /\ state \in Running \cup {"idle", "failed"}
  /\ building \subseteq Attempts
  /\ current \in Attempts \cup {None}

Init == state = "idle" /\ building = {} /\ current = None

\* An attempt left over from before keeps its right to report.
Up(a) ==
  /\ state \notin Running
  /\ a \notin building /\ a # current
  /\ state' = "starting"
  /\ building' = building \cup {a}
  /\ UNCHANGED current

Attach(a) ==
  /\ state \in Running
  /\ a \notin building /\ a # current
  /\ state' = "reattaching"
  /\ building' = building \cup {a}
  /\ current' = None

\* Attempts still being built are not stopped: they publish later.
Down ==
  /\ state' = "idle" /\ current' = None
  /\ UNCHANGED building

Publish(a) ==
  /\ a \in building
  /\ building' = building \ {a}
  /\ current' = a
  /\ UNCHANGED state

\* The descriptor of an attach cannot be wrapped.
AttachFails(a) ==
  /\ a \in building
  /\ building' = building \ {a}
  /\ state' = "failed"
  /\ UNCHANGED current

Report ==
  /\ current # None
  /\ state' \in {"up", "failed"}
  /\ current' = None
  /\ UNCHANGED building

Internal ==
  \/ \E a \in Attempts : Publish(a) \/ AttachFails(a)
  \/ Report

Next ==
  \/ \E a \in Attempts : Up(a) \/ Attach(a)
  \/ Down
  \/ Internal

Fairness ==
  /\ \A a \in Attempts : WF_vars(Publish(a) \/ AttachFails(a))
  /\ WF_vars(Report)

Spec     == Init /\ [][Next]_vars
FairSpec == Spec /\ Fairness

=============================================================================
