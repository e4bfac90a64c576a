------------------------------ MODULE MCOhosTun ------------------------------
(***************************************************************************)
(* The instances of OhosTun that TLC checks.  A history variable tells the *)
(* behaviours whose probes have all started on settled queries: for these, *)
(* and only for these, the drain at the start of runDNSProbe is enough.    *)
(***************************************************************************)
EXTENDS OhosTun

VARIABLE settled \* every probe so far has started on settled queries

historyVars == <<vars, settled>>

\* Every query of an earlier probe is settled: its packet is out of the queue,
\* and the engine and the writers are through with it.
Settled == inj = <<>> /\ \A q \in Probes : query[q] \in {"unused", "done"}

HistoryInit == Init /\ settled = TRUE

HistoryNext ==
  /\ Next
  /\ settled' = (settled /\ ((\E q \in Probes : ProbeStarts(q)) => Settled))

HistorySpec     == HistoryInit /\ [][HistoryNext]_historyVars
FairHistorySpec == HistorySpec /\ Fairness

\* As long as every probe starts only after the query of the one before has
\* left the queue, the engine and the writers, each reports its own answer.
OwnWhenSettled == settled => AnswersAreOwn
=============================================================================
