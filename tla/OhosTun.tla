------------------------------ MODULE OhosTun ------------------------------
(***************************************************************************)
(* The tun device the Go core wraps around the VPN descriptor              *)
(* (go/arkmesh-core/ohostun.go), and the threads that meet in it:          *)
(*                                                                         *)
(*   - one reader (wireguard-go's TUN reader) inside Read;                 *)
(*   - any number of writers inside Write, of which only those that carry  *)
(*     the answer to a probe matter here;                                  *)
(*   - the main thread inside runDNSProbe, one probe after the other;      *)
(*   - any number of callers of Close (the engine, tsnet, Write(-1)).      *)
(*                                                                         *)
(* No lock orders them: they share atomic flags, two channels and the read *)
(* deadline of the descriptor.  One step is one access to one of these.    *)
(* The descriptor, the engine behind Read and Write, and the clock are     *)
(* not in this repository: a packet or an I/O error may come at any time,  *)
(* a query may be answered late or never, a deadline in the future may     *)
(* expire at any time.                                                     *)
(*                                                                         *)
(* An operator introduced as a mutant is no part of the specification: it  *)
(* is the next definition with a plausible bug, and breaks a property.     *)
(***************************************************************************)
EXTENDS Naturals, Sequences, FiniteSets

CONSTANTS
  Probes,     \* the calls of runDNSProbe; a member also names its query
  Closers,    \* the calls of Close
  Capacity,   \* of the channel inj (4 in the code)
  Nothing,    \* an empty channel, or no probe in progress
  Failed      \* what a probe that was not answered returns

ASSUME ConstantsAssumption ==
  /\ Nothing \notin Probes /\ Failed \notin Probes /\ Nothing # Failed
  /\ Capacity \in Nat \ {0}

VARIABLES
  closed,     \* closed.Load()
  once,       \* closeOnce
  events,     \* the channel events: open, closed, or closed twice (a panic)
  deadline,   \* the read deadline of file: none, in the future, expired
  probeArmed,
  inj,        \* the queries to be handed out by Read
  probeReply, \* the captured answer
  reader,     \* where the reader is inside Read
  query,      \* of a query: where it, then the Write of its answer, is
  probe,      \* where runDNSProbe is, and for which query
  result,     \* what runDNSProbe returned
  closer      \* where a call of Close is

flags == <<closed, once, events, closer>>
main  == <<probe, result>>
vars  == <<flags, main, deadline, probeArmed, inj, probeReply, reader, query>>

\* "outside": between two calls of Read.  "stopped" and "fatal": Read returned
\* os.ErrClosed, or an I/O error.
ReaderPc == {"outside", "loop", "armed", "select", "poll", "read", "timeout",
             "clear", "ioerror", "data", "dataClear", "stopped", "fatal"}
QueryPc  == {"unused", "queued", "engine", "open", "capture", "done"}
ProbePc  == {"idle", "drained", "armed", "wake", "wait", "disarm"}
CloserPc == {"outside", "once", "events", "deadline", "return", "returned"}

\* The type invariant.
TypeOK ==
  /\ closed \in BOOLEAN
  /\ once \in {"new", "running", "done"}
  /\ events \in {"open", "closed", "panic"}
  /\ deadline \in {"none", "future", "expired"}
  /\ probeArmed \in BOOLEAN
  /\ inj \in Seq(Probes) /\ Len(inj) <= Capacity
  /\ probeReply \in Probes \cup {Nothing}
  /\ reader \in ReaderPc
  /\ query \in [Probes -> QueryPc]
  /\ probe \in [pc : ProbePc, q : Probes \cup {Nothing}]
  /\ result \in [Probes -> Probes \cup {Nothing, Failed}]
  /\ closer \in [Closers -> CloserPc]

Init ==
  /\ closed = FALSE /\ once = "new" /\ events = "open" /\ deadline = "none"
  /\ probeArmed = FALSE /\ inj = <<>> /\ probeReply = Nothing
  /\ reader = "outside"
  /\ query = [q \in Probes |-> "unused"]
  /\ probe = [pc |-> "idle", q |-> Nothing]
  /\ result = [q \in Probes |-> Nothing]
  /\ closer = [c \in Closers |-> "outside"]

-----------------------------------------------------------------------------
(***************************************************************************)
(* Read.                                                                   *)
(***************************************************************************)

\* The reader goes from one point of Read to another and touches nothing else.
ReaderMoves(from, to) ==
  /\ reader = from
  /\ reader' = to
  /\ UNCHANGED <<flags, main, deadline, probeArmed, inj, probeReply, query>>

\* The reader changes the read deadline on its way.
ReaderSets(from, to, d) ==
  /\ reader = from
  /\ reader' = to
  /\ deadline' = d
  /\ UNCHANGED <<flags, main, probeArmed, inj, probeReply, query>>

ReadCalled == ReaderMoves("outside", "loop")
ReadLoop   == ReaderMoves("loop", IF closed THEN "stopped" ELSE "armed")
ReadArmed  == ReaderMoves("armed", IF probeArmed THEN "select" ELSE "read")

\* The select on inj: a query is handed to the engine as if the phone had
\* sent it.
ReadInjected ==
  /\ reader = "select"
  /\ inj # <<>>
  /\ inj' = Tail(inj)
  /\ query' = [query EXCEPT ![Head(inj)] = "engine"]
  /\ reader' = "outside"
  /\ UNCHANGED <<flags, main, deadline, probeArmed, probeReply>>

ReadNotInjected == inj = <<>> /\ ReaderMoves("select", "poll")
ReadPolls       == ReaderSets("poll", "read", "future")

\* file.Read: an expired deadline is reported before any packet.
ReadData     == deadline # "expired" /\ ReaderMoves("read", "data")
ReadFails    == deadline # "expired" /\ ReaderMoves("read", "ioerror")
ReadTimesOut == deadline # "none" /\ ReaderMoves("read", "timeout")

ReadTimeout == ReaderMoves("timeout", IF closed THEN "stopped" ELSE "clear")

\* Mutant: a timeout waits for the next packet without looking at the flags.
ReadClearsAndWaits == ReaderSets("clear", "read", "none")

ReadClears  == ReaderSets("clear", "loop", "none")
ReadIOError == ReaderMoves("ioerror", IF closed THEN "stopped" ELSE "fatal")

ReadGotData ==
  ReaderMoves("data", IF probeArmed THEN "dataClear" ELSE "outside")
ReadDataClears == ReaderSets("dataClear", "outside", "none")

\* The steps of Read that do not wait for the descriptor.
ReadGoesOn ==
  \/ ReadCalled \/ ReadLoop \/ ReadArmed \/ ReadInjected \/ ReadNotInjected
  \/ ReadPolls \/ ReadTimesOut \/ ReadTimeout \/ ReadClears \/ ReadIOError
  \/ ReadGotData \/ ReadDataClears

-----------------------------------------------------------------------------
(***************************************************************************)
(* Write of the answer to query q, with captureProbeReply at its end.      *)
(***************************************************************************)
WriteMoves(q, from, to) ==
  /\ query[q] = from
  /\ query' = [query EXCEPT ![q] = to]
  /\ UNCHANGED <<flags, main, deadline, probeArmed, inj, probeReply, reader>>

\* The engine answers, or drops the query.
WriteCalled(q)   == WriteMoves(q, "engine", IF closed THEN "done" ELSE "open")
EngineDrops(q)   == WriteMoves(q, "engine", "done")
WriteFails(q)    == WriteMoves(q, "open", "done")
WriteSucceeds(q) ==
  WriteMoves(q, "open", IF probeArmed THEN "capture" ELSE "done")

Capture(q) ==
  /\ query[q] = "capture"
  /\ probeReply' = IF probeReply = Nothing THEN q ELSE probeReply
  /\ query' = [query EXCEPT ![q] = "done"]
  /\ UNCHANGED <<flags, main, deadline, probeArmed, inj, reader>>

Write(q) == WriteFails(q) \/ WriteSucceeds(q) \/ Capture(q)

-----------------------------------------------------------------------------
(***************************************************************************)
(* runDNSProbe.                                                            *)
(***************************************************************************)
At(pc) == probe.pc = pc

\* Mutant: an answer left over from the last probe is not drained.
ProbeStartsDirty(q) ==
  /\ At("idle") /\ query[q] = "unused"
  /\ probe' = [pc |-> "drained", q |-> q]
  /\ query' = [query EXCEPT ![q] = "queued"]
  /\ UNCHANGED <<flags, result, deadline, probeArmed, inj, probeReply, reader>>

ProbeStarts(q) ==
  /\ At("idle") /\ query[q] = "unused"
  /\ probeReply' = Nothing
  /\ probe' = [pc |-> "drained", q |-> q]
  /\ query' = [query EXCEPT ![q] = "queued"]
  /\ UNCHANGED <<flags, result, deadline, probeArmed, inj, reader>>

ProbeArms ==
  /\ At("drained")
  /\ probeArmed' = TRUE
  /\ probe' = [probe EXCEPT !.pc = "armed"]
  /\ UNCHANGED <<flags, result, deadline, inj, probeReply, reader, query>>

\* Mutant: the send does not give up when the channel is full.
ProbeInjectsAlways ==
  /\ At("armed")
  /\ inj' = Append(inj, probe.q)
  /\ probe' = [probe EXCEPT !.pc = "wake"]
  /\ UNCHANGED <<flags, result, deadline, probeArmed, probeReply, reader,
                 query>>

\* Mutant: the reader is not woken, the poll interval is relied upon.
ProbeInjectsSilently ==
  /\ At("armed") /\ Len(inj) < Capacity
  /\ inj' = Append(inj, probe.q)
  /\ probe' = [probe EXCEPT !.pc = "wait"]
  /\ UNCHANGED <<flags, result, deadline, probeArmed, probeReply, reader,
                 query>>

ProbeInjects ==
  /\ At("armed") /\ Len(inj) < Capacity
  /\ inj' = Append(inj, probe.q)
  /\ probe' = [probe EXCEPT !.pc = "wake"]
  /\ UNCHANGED <<flags, result, deadline, probeArmed, probeReply, reader,
                 query>>

ProbeFindsQueueFull ==
  /\ At("armed") /\ Len(inj) = Capacity
  /\ result' = [result EXCEPT ![probe.q] = Failed]
  /\ query' = [query EXCEPT ![probe.q] = "done"]
  /\ probe' = [probe EXCEPT !.pc = "disarm"]
  /\ UNCHANGED <<flags, deadline, probeArmed, inj, probeReply, reader>>

ProbeWakesReader ==
  /\ At("wake")
  /\ deadline' = "expired"
  /\ probe' = [probe EXCEPT !.pc = "wait"]
  /\ UNCHANGED <<flags, result, probeArmed, inj, probeReply, reader, query>>

ProbeAnswered ==
  /\ At("wait") /\ probeReply # Nothing
  /\ result' = [result EXCEPT ![probe.q] = probeReply]
  /\ probeReply' = Nothing
  /\ probe' = [probe EXCEPT !.pc = "disarm"]
  /\ UNCHANGED <<flags, deadline, probeArmed, inj, reader, query>>

ProbeTimesOut ==
  /\ At("wait")
  /\ result' = [result EXCEPT ![probe.q] = Failed]
  /\ probe' = [probe EXCEPT !.pc = "disarm"]
  /\ UNCHANGED <<flags, deadline, probeArmed, inj, probeReply, reader, query>>

ProbeReturns ==
  /\ At("disarm")
  /\ probeArmed' = FALSE
  /\ probe' = [pc |-> "idle", q |-> Nothing]
  /\ UNCHANGED <<flags, result, deadline, inj, probeReply, reader, query>>

\* The steps of a probe in progress, other than its timeout.
ProbeGoesOn ==
  \/ ProbeArms \/ ProbeInjects \/ ProbeFindsQueueFull \/ ProbeWakesReader
  \/ ProbeAnswered \/ ProbeReturns

-----------------------------------------------------------------------------
(***************************************************************************)
(* Close.  closeOnce.Do makes a second caller wait until the first is      *)
(* through.                                                                *)
(***************************************************************************)
CloserMoves(c, from, to) ==
  closer[c] = from /\ closer' = [closer EXCEPT ![c] = to]

others == <<main, probeArmed, inj, probeReply, reader, query>>

CloseCalled(c) ==
  /\ CloserMoves(c, "outside", "once")
  /\ UNCHANGED <<closed, once, events, deadline, others>>

\* Mutant: no Once, every caller goes through the function.
CloseWithoutOnce(c) ==
  /\ once' = "running"
  /\ closed' = TRUE
  /\ CloserMoves(c, "once", "events")
  /\ UNCHANGED <<events, deadline, others>>

\* closeOnce.Do runs the function, whose first step sets closed.
CloseFirst(c) ==
  /\ once = "new" /\ once' = "running"
  /\ closed' = TRUE
  /\ CloserMoves(c, "once", "events")
  /\ UNCHANGED <<events, deadline, others>>

\* Mutant: the second caller does not wait for the first.
CloseAgainAtOnce(c) ==
  /\ once # "new"
  /\ CloserMoves(c, "once", "returned")
  /\ UNCHANGED <<closed, once, events, deadline, others>>

CloseAgain(c) ==
  /\ once = "done"
  /\ CloserMoves(c, "once", "returned")
  /\ UNCHANGED <<closed, once, events, deadline, others>>

CloseEvents(c) ==
  /\ CloserMoves(c, "events", "deadline")
  /\ events' = IF events = "open" THEN "closed" ELSE "panic"
  /\ UNCHANGED <<closed, once, deadline, others>>

CloseWakesReader(c) ==
  /\ CloserMoves(c, "deadline", "return")
  /\ deadline' = "expired"
  /\ UNCHANGED <<closed, once, events, others>>

CloseReturns(c) ==
  /\ CloserMoves(c, "return", "returned")
  /\ once' = "done"
  /\ UNCHANGED <<closed, events, deadline, others>>

\* The steps of a Close in progress.
CloseGoesOn(c) ==
  CloseFirst(c) \/ CloseAgain(c) \/ CloseEvents(c) \/ CloseWakesReader(c)
  \/ CloseReturns(c)

-----------------------------------------------------------------------------
Next ==
  \/ ReadGoesOn \/ ReadData \/ ReadFails
  \/ \E q \in Probes :
       WriteCalled(q) \/ EngineDrops(q) \/ Write(q) \/ ProbeStarts(q)
  \/ ProbeGoesOn \/ ProbeTimesOut
  \/ \E c \in Closers : CloseCalled(c) \/ CloseGoesOn(c)

(***************************************************************************)
(* Threads inside the code go on, and Read is called again after it has    *)
(* returned a packet.  Nothing is assumed of the descriptor, the engine or *)
(* the timeout of a probe.                                                 *)
(***************************************************************************)
Fairness ==
  /\ WF_vars(ReadGoesOn)
  /\ \A q \in Probes : WF_vars(Write(q))
  /\ WF_vars(ProbeGoesOn)
  /\ \A c \in Closers : WF_vars(CloseGoesOn(c))

Spec     == Init /\ [][Next]_vars
FairSpec == Spec /\ Fairness

-----------------------------------------------------------------------------
(***************************************************************************)
(* Properties.                                                             *)
(***************************************************************************)

\* Inside file.Read with nothing that would ever make it return but a packet.
Blocked == reader = "read" /\ deadline = "none"

\* Close "only makes both ends stop" (ohostun.go:41) by waking the reader with
\* a deadline, which probes and the reader itself overwrite and clear.  The
\* wakeup is never lost: once some Close has returned, the reader is not
\* blocked, and is not about to be.
CloseIsNotLost ==
  (\E c \in Closers : closer[c] = "returned") => closed /\ ~Blocked

\* The same for a probe: "an injected packet is guaranteed to be read"
\* (ohostun.go:136).  While runDNSProbe waits, the reader is not blocked with a
\* query in the queue.
InjectionIsNotLost == At("wait") /\ inj # <<>> => ~Blocked

\* events is closed once, however many threads call Close.
EventsClosedOnce == events # "panic"

\* A probe reports the answer to its own query.
AnswersAreOwn ==
  \A q \in Probes : result[q] \in Probes => result[q] = q

\* The reader does stop after a Close.
CloseStopsReader ==
  (\E c \in Closers : closer[c] = "returned")
    ~> reader \in {"stopped", "fatal"}

\* An injected query does reach the engine, unless the probe gives up, or the
\* reader is gone.
InjectionIsRead ==
  \A q \in Probes :
    At("wait") /\ probe.q = q /\ query[q] = "queued"
      ~> query[q] # "queued" \/ ~At("wait") \/ reader \in {"stopped", "fatal"}

=============================================================================
