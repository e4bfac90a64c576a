----------------------------- MODULE GoBridge -----------------------------
(***************************************************************************)
(* The native bridge to the Go libraries (cpp/src/bridge/go_probe.cpp) and *)
(* the wrapper of its promises (ets/core/ArkMeshNative.ts).                *)
(*                                                                         *)
(* Two libraries are opened lazily, each by the first call that needs it,  *)
(* and their functions are looked up by name.  All calls come from the     *)
(* main thread of ArkTS; the three probes run on worker threads and come   *)
(* back to the main thread to settle a promise, which ArkTS races against  *)
(* a timer.                                                                *)
(*                                                                         *)
(* What a library exports is decided before the program starts.  dlopen    *)
(* may fail at any time, a Go function may return NULL, a probe may never  *)
(* return, and each napi call that allocates may fail.                     *)
(*                                                                         *)
(* An operator introduced as a mutant is no part of the specification: it  *)
(* is the next definition with a plausible bug, and breaks a property.     *)
(***************************************************************************)
EXTENDS Naturals, FiniteSets

CONSTANTS
  Tasks,    \* the calls of the asynchronous entry points
  Gaps      \* the sets of functions a build of a library may lack

Hello == "libgohello.so"
Core  == "libarkmesh_core.so"
Libs  == {Hello, Core}

\* The functions EnsureLoaded and EnsureCoreLoaded insist on, and the others.
Mandatory == [l \in Libs |->
  IF l = Hello THEN {"GoHello", "GoFree", "GoStartTicker", "GoTicks"}
               ELSE {"ArkMeshSelfTest", "ArkMeshNetCheck", "ArkMeshFree"}]
Optional == [l \in Libs |->
  IF l = Hello
  THEN {"GoUDPStart", "GoUDPStats", "GoUDPSendTo", "GoDNSLookup", "GoTunStart",
        "GoTunWrite", "GoTunStats", "GoTunCapture", "GoTunBuildUDP"}
  ELSE {"ArkMeshIfProbe", "ArkMeshControlUp", "ArkMeshControlStatus", "ArkMeshPingPeers",
        "ArkMeshDnsProbe", "ArkMeshControlDown", "ArkMeshAttachTun"}]
Free == [l \in Libs |-> IF l = Hello THEN "GoFree" ELSE "ArkMeshFree"]

VARIABLES
  exports,  \* what the build of each library exports
  loaded,   \* the handle of the library is not null
  crashed,  \* a null pointer was called, or a string freed by the wrong library
  answer,   \* what the last call returned
  work,     \* the ProbeTask of a call, and its async work
  promise,  \* the promise of a call
  waiter    \* what withProbeTimeout made of it

libVars  == <<exports, loaded>>
taskVars == <<work, promise, waiter>>
vars     == <<libVars, crashed, answer, taskVars>>

Kinds == {"selfTest", "netCheck", "ifProbe"}
NoWork == [at |-> "none", kind |-> "selfTest"]

\* The type invariant.
TypeOK ==
  /\ exports \in [Libs -> SUBSET UNION {Mandatory[l] \cup Optional[l] : l \in Libs}]
  /\ loaded \in [Libs -> BOOLEAN]
  /\ crashed \in BOOLEAN
  /\ answer \in {"none", "ERR", "report", "promise"}
  /\ work \in [Tasks -> [at : {"none", "queued", "executed", "deleted"}, kind : Kinds]]
  /\ promise \in [Tasks -> {"none", "pending", "settled", "twice"}]
  /\ waiter \in [Tasks -> {"none", "waiting", "value", "timeout", "rejected"}]

Init ==
  /\ exports \in {[l \in Libs |-> (Mandatory[l] \cup Optional[l]) \ gap] : gap \in Gaps}
  /\ loaded = [l \in Libs |-> FALSE]
  /\ crashed = FALSE /\ answer = "none"
  /\ work = [t \in Tasks |-> NoWork]
  /\ promise = [t \in Tasks |-> "none"]
  /\ waiter = [t \in Tasks |-> "none"]

-----------------------------------------------------------------------------
(***************************************************************************)
(* Loading, and the strings Go hands over.                                 *)
(***************************************************************************)

Complete(l) == Mandatory[l] \subseteq exports[l]

\* Opens l unless its handle is set; err: an error description was returned.
\* The handle stays set when a mandatory function turns out to be missing.
Ensure(l, err) ==
  \/ loaded[l] /\ ~err /\ UNCHANGED libVars
  \/ ~loaded[l] /\ err /\ UNCHANGED libVars
  \/ /\ ~loaded[l]
     /\ err = ~Complete(l)
     /\ loaded' = [loaded EXCEPT ![l] = TRUE]
     /\ UNCHANGED exports

EnsureLoaded(err)     == Ensure(Hello, err)
EnsureCoreLoaded(err) == Ensure(Core, err)

\* The function pointer f of library l is not null.
Resolved(l, f) == loaded'[l] /\ f \in exports[l]

\* A string made by l (or NULL) is copied and freed by l's own free.
TakeGoString   == Resolved(Hello, Free[Hello])
TakeCoreString == Resolved(Core, Free[Core])

\* The call of f returns a string; a null pointer on the way ends the process.
CallsForString(l, f) ==
  crashed' = ~(Resolved(l, f) /\ IF l = Hello THEN TakeGoString ELSE TakeCoreString)

\* A synchronous entry point: it loads l, looks whether f was found (checks),
\* and calls it with the arguments it was given; argsOk: there are enough.
Entry(Load(_), l, f, argsOk) ==
  /\ ~crashed
  /\ \E err \in BOOLEAN :
       /\ Load(err)
       /\ IF err \/ f \notin exports[l] \/ ~argsOk
          THEN answer' = "ERR" /\ UNCHANGED crashed
          ELSE CallsForString(l, f) /\ answer' = "report"
  /\ UNCHANGED taskVars

-----------------------------------------------------------------------------
(***************************************************************************)
(* The entry points of libgohello.so.                                      *)
(***************************************************************************)

\* Probe calls GoHello without looking at the pointer.
Probe ==
  /\ ~crashed
  /\ \E err \in BOOLEAN :
       /\ EnsureLoaded(err)
       /\ IF err THEN answer' = "ERR" /\ UNCHANGED crashed
                 ELSE CallsForString(Hello, "GoHello") /\ answer' = "report"
  /\ UNCHANGED taskVars

StartTicker ==
  /\ ~crashed
  /\ \E err \in BOOLEAN :
       /\ EnsureLoaded(err)
       /\ IF err THEN answer' = "ERR" /\ UNCHANGED crashed
                 ELSE crashed' = ~Resolved(Hello, "GoStartTicker") /\ answer' = "report"
  /\ UNCHANGED taskVars

\* Ticks never loads anything.
Ticks ==
  /\ ~crashed
  /\ answer' = IF loaded[Hello] /\ "GoTicks" \in exports[Hello] THEN "report" ELSE "ERR"
  /\ UNCHANGED <<libVars, crashed, taskVars>>

\* PrepareS5 loads the library and checks the one function.
S5(f, argsOk) == Entry(EnsureLoaded, Hello, f, argsOk)

UdpStart    == S5("GoUDPStart", TRUE)
UdpStats    == S5("GoUDPStats", TRUE)
UdpSendTo   == \E argc \in 0 .. 2 : S5("GoUDPSendTo", argc >= 2)
DnsLookup   == \E argc \in 0 .. 1 : S5("GoDNSLookup", argc >= 1)
TunStart    == \E argc \in 0 .. 1 : S5("GoTunStart", argc >= 1)
TunWrite    == \E argc \in 0 .. 2 : S5("GoTunWrite", argc >= 2)
TunStats    == S5("GoTunStats", TRUE)
TunCapture  == \E argc \in 0 .. 3 : S5("GoTunCapture", argc >= 3)
TunBuildUdp == \E argc \in 0 .. 5 : S5("GoTunBuildUDP", argc >= 5)

-----------------------------------------------------------------------------
(***************************************************************************)
(* The synchronous entry points of the core.                               *)
(***************************************************************************)

CoreCall(f, argsOk) == Entry(EnsureCoreLoaded, Core, f, argsOk)

CoreControlUp     == \E argc \in 0 .. 5 : CoreCall("ArkMeshControlUp", argc >= 5)
CoreControlStatus == CoreCall("ArkMeshControlStatus", TRUE)
CorePingPeers     == CoreCall("ArkMeshPingPeers", TRUE)
CoreDnsProbe      == CoreCall("ArkMeshDnsProbe", TRUE)
CoreAttachTun     == \E argc \in 0 .. 2 : CoreCall("ArkMeshAttachTun", argc >= 1)

\* Answers "ok" also when the core cannot be taken down.
CoreControlDown ==
  /\ ~crashed
  /\ \E err \in BOOLEAN :
       /\ EnsureCoreLoaded(err)
       /\ answer' = IF err THEN "ERR" ELSE "report"
  /\ UNCHANGED <<crashed, taskVars>>

-----------------------------------------------------------------------------
(***************************************************************************)
(* The probes: a promise, a task on a worker thread, and back.             *)
(***************************************************************************)

Settled(t) == IF promise[t] \in {"none", "pending"} THEN "settled" ELSE "twice"

\* A promise that is settled before it is returned (ResolvedPromise), or, when
\* no promise can be made, a plain string, on which withProbeTimeout throws.
ResolvedPromise(t) ==
  /\ UNCHANGED work
  /\ \/ /\ promise' = [promise EXCEPT ![t] = Settled(t)]
        /\ waiter' = [waiter EXCEPT ![t] = "waiting"]
        /\ answer' = "promise"
     \/ /\ waiter' = [waiter EXCEPT ![t] = "rejected"]
        /\ answer' = "report"
        /\ UNCHANGED promise

\* Mutant: a work that cannot be queued is deleted, its promise forgotten.
QueuedUnsettled(t, kind) ==
  /\ answer' = "promise"
  /\ waiter' = [waiter EXCEPT ![t] = "waiting"]
  /\ \/ /\ promise' = [promise EXCEPT ![t] = "pending"]
        /\ work' = [work EXCEPT ![t] = [at |-> "queued", kind |-> kind]]
     \/ /\ promise' = [promise EXCEPT ![t] = "pending"]
        /\ work' = [work EXCEPT ![t] = [at |-> "deleted", kind |-> kind]]

\* The promise is made: the work is queued, or the task is given up at once.
Queued(t, kind) ==
  /\ answer' = "promise"
  /\ waiter' = [waiter EXCEPT ![t] = "waiting"]
  /\ \/ /\ promise' = [promise EXCEPT ![t] = "pending"]
        /\ work' = [work EXCEPT ![t] = [at |-> "queued", kind |-> kind]]
     \/ /\ promise' = [promise EXCEPT ![t] = Settled(t)]
        /\ work' = [work EXCEPT ![t] = [at |-> "deleted", kind |-> kind]]

StartProbeAsync(t, kind) ==
  /\ ~crashed /\ waiter[t] = "none"
  /\ \E err \in BOOLEAN :
       /\ EnsureCoreLoaded(err)
       /\ \/ ResolvedPromise(t)
          \/ ~err /\ Queued(t, kind)
  /\ UNCHANGED crashed

\* CoreNetCheck refuses a missing or empty host before it loads anything.
RefusedHost(t) ==
  /\ ~crashed /\ waiter[t] = "none"
  /\ ResolvedPromise(t)
  /\ UNCHANGED <<libVars, crashed>>

CoreSelfTest(t) == StartProbeAsync(t, "selfTest")
CoreNetCheck(t) == RefusedHost(t) \/ StartProbeAsync(t, "netCheck")
CoreIfProbe(t)  == StartProbeAsync(t, "ifProbe")

Function(kind) == CASE kind = "selfTest" -> "ArkMeshSelfTest"
                    [] kind = "netCheck" -> "ArkMeshNetCheck"
                    [] kind = "ifProbe"  -> "ArkMeshIfProbe"

\* The worker thread: only the function of ifProbe is checked.
ProbeExecute(t) ==
  /\ ~crashed /\ work[t].at = "queued"
  /\ LET f == Function(work[t].kind) IN
       crashed' = ~(\/ f = "ArkMeshIfProbe" /\ f \notin exports[Core]
                    \/ {f, Free[Core]} \subseteq exports[Core])
  /\ work' = [work EXCEPT ![t].at = "executed"]
  /\ UNCHANGED <<libVars, answer, promise, waiter>>

\* The main thread again; the task was executed, or cancelled by the runtime.
ProbeComplete(t) ==
  /\ ~crashed /\ work[t].at \in {"queued", "executed"}
  /\ promise' = [promise EXCEPT ![t] = Settled(t)]
  /\ work' = [work EXCEPT ![t].at = "deleted"]
  /\ UNCHANGED <<libVars, crashed, answer, waiter>>

\* withProbeTimeout: the value arrives, unless the timer was first.
ValueArrives(t) ==
  /\ ~crashed /\ waiter[t] = "waiting"
  /\ promise[t] \in {"settled", "twice"}
  /\ waiter' = [waiter EXCEPT ![t] = "value"]
  /\ UNCHANGED <<libVars, crashed, answer, work, promise>>

\* Mutant: the time is counted from the end of the probe.
TimerAfterProbe(t) ==
  /\ ~crashed /\ waiter[t] = "waiting" /\ work[t].at # "queued"
  /\ waiter' = [waiter EXCEPT ![t] = "timeout"]
  /\ UNCHANGED <<libVars, crashed, answer, work, promise>>

TimerFires(t) ==
  /\ ~crashed /\ waiter[t] = "waiting"
  /\ waiter' = [waiter EXCEPT ![t] = "timeout"]
  /\ UNCHANGED <<libVars, crashed, answer, work, promise>>

-----------------------------------------------------------------------------
Calls ==
  \/ Probe \/ StartTicker \/ Ticks
  \/ UdpStart \/ UdpStats \/ UdpSendTo \/ DnsLookup
  \/ TunStart \/ TunWrite \/ TunStats \/ TunCapture \/ TunBuildUdp
  \/ CoreControlUp \/ CoreControlStatus \/ CorePingPeers \/ CoreDnsProbe
  \/ CoreAttachTun \/ CoreControlDown

Next ==
  \/ Calls
  \/ \E t \in Tasks :
       \/ CoreSelfTest(t) \/ CoreNetCheck(t) \/ CoreIfProbe(t)
       \/ ProbeExecute(t) \/ ProbeComplete(t)
       \/ ValueArrives(t) \/ TimerFires(t)

\* A timer fires.  Nothing is assumed of the workers: a probe may hang, as the
\* comment at go_probe.cpp:739 expects.
Fairness == \A t \in Tasks : WF_vars(TimerFires(t))

Spec     == Init /\ [][Next]_vars
FairSpec == Spec /\ Fairness

-----------------------------------------------------------------------------
\* On any thread and in any order of first calls, an optional function that the
\* build lacks is never called ("each entry checks for itself", go_probe.cpp:52),
\* and no string is freed by the wrong library.  A mandatory one can be: what
\* EnsureLoaded refuses stays loaded and is not refused again (go_probe.cpp:218).
NoNullCall == crashed => \E l \in Libs : loaded[l] /\ ~Complete(l)

\* A task is deleted only when its promise is settled, and no promise is settled
\* twice: every path out of StartProbeAsync and ProbeComplete does both.
TaskEndsWithPromise ==
  \A t \in Tasks :
    /\ work[t].at = "deleted" => promise[t] # "pending"
    /\ promise[t] # "twice"

\* ArkTS always gets something, although a probe may hang for ever.
ProbesConverge ==
  \A t \in Tasks : []<>(crashed \/ waiter[t] # "waiting")

=============================================================================
