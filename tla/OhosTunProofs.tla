---------------------------- MODULE OhosTunProofs ----------------------------
(***************************************************************************)
(* Proofs about OhosTun, for any number of probes and callers of Close and *)
(* any capacity of the queue; of MCOhosTun they use the history variable.  *)
(*                                                                         *)
(* That a wakeup is not lost cannot be seen from the reader inside         *)
(* file.Read alone: the reader may have looked at the flags long before    *)
(* it gets there.  The inductive invariant speaks of all the points of     *)
(* Read between the look and the wait (Committed), and of who is inside    *)
(* closeOnce.                                                              *)
(***************************************************************************)
EXTENDS MCOhosTun, SequenceTheorems, TLAPS

\* The reader has seen closed unset and will enter file.Read, or is in it.
Committed == reader \in {"armed", "select", "poll", "read"}

InsideOnce(c) == closer[c] \in {"events", "deadline", "return"}

OnceInv ==
  /\ once = "new" => ~closed /\ events = "open"
  /\ once # "new" => closed
  /\ \A c \in Closers :
       /\ InsideOnce(c) => once = "running"
       /\ closer[c] = "events" => events = "open"
       /\ closer[c] = "returned" => once = "done"
       /\ \A d \in Closers : InsideOnce(c) /\ InsideOnce(d) => c = d
  /\ events # "panic"

CloseInv ==
  (once = "done" \/ \E c \in Closers : closer[c] = "return") /\ Committed
    => deadline # "none"

ProbeInv ==
  /\ probeArmed <=> probe.pc \in {"armed", "wake", "wait", "disarm"}
  /\ probe.pc # "idle" => probe.q \in Probes
  /\ InjectionIsNotLost

IInv == TypeOK /\ OnceInv /\ CloseInv /\ ProbeInv

-----------------------------------------------------------------------------
\* Types are preserved.
LEMMA TypeStep ==
  ASSUME IInv, [Next]_vars
  PROVE  TypeOK'
<1>1. TypeOK /\ ProbeInv
  BY DEF IInv
<1> USE ConstantsAssumption
<1>2. ASSUME ReadCalled
      PROVE  TypeOK'
  BY <1>2, <1>1 DEF ReadCalled, ReaderMoves, flags, main, TypeOK, ReaderPc
<1>3. ASSUME ReadLoop
      PROVE  TypeOK'
  BY <1>3, <1>1 DEF ReadLoop, ReaderMoves, flags, main, TypeOK, ReaderPc
<1>4. ASSUME ReadArmed
      PROVE  TypeOK'
  BY <1>4, <1>1 DEF ReadArmed, ReaderMoves, flags, main, TypeOK, ReaderPc
<1>5. ASSUME ReadInjected
      PROVE  TypeOK'
  BY <1>5, <1>1 DEF ReadInjected, flags, main, TypeOK, ReaderPc, QueryPc
<1>6. ASSUME ReadNotInjected
      PROVE  TypeOK'
  BY <1>6, <1>1
  DEF ReadNotInjected, ReaderMoves, flags, main, TypeOK, ReaderPc
<1>7. ASSUME ReadPolls
      PROVE  TypeOK'
  BY <1>7, <1>1 DEF ReadPolls, ReaderSets, flags, main, TypeOK, ReaderPc
<1>8. ASSUME ReadData
      PROVE  TypeOK'
  BY <1>8, <1>1 DEF ReadData, ReaderMoves, flags, main, TypeOK, ReaderPc
<1>9. ASSUME ReadFails
      PROVE  TypeOK'
  BY <1>9, <1>1 DEF ReadFails, ReaderMoves, flags, main, TypeOK, ReaderPc
<1>10. ASSUME ReadTimesOut
      PROVE  TypeOK'
  BY <1>10, <1>1 DEF ReadTimesOut, ReaderMoves, flags, main, TypeOK, ReaderPc
<1>11. ASSUME ReadTimeout
      PROVE  TypeOK'
  BY <1>11, <1>1 DEF ReadTimeout, ReaderMoves, flags, main, TypeOK, ReaderPc
<1>12. ASSUME ReadClears
      PROVE  TypeOK'
  BY <1>12, <1>1 DEF ReadClears, ReaderSets, flags, main, TypeOK, ReaderPc
<1>13. ASSUME ReadIOError
      PROVE  TypeOK'
  BY <1>13, <1>1 DEF ReadIOError, ReaderMoves, flags, main, TypeOK, ReaderPc
<1>14. ASSUME ReadGotData
      PROVE  TypeOK'
  BY <1>14, <1>1 DEF ReadGotData, ReaderMoves, flags, main, TypeOK, ReaderPc
<1>15. ASSUME ReadDataClears
      PROVE  TypeOK'
  BY <1>15, <1>1 DEF ReadDataClears, ReaderSets, flags, main, TypeOK, ReaderPc
<1>16. ASSUME ProbeArms
      PROVE  TypeOK'
  BY <1>16, <1>1 DEF ProbeArms, At, flags, main, TypeOK, ProbePc
<1>17. ASSUME ProbeInjects
      PROVE  TypeOK'
  <2>1. probe.q \in Probes /\ Len(inj) < Capacity
    BY <1>1, <1>17 DEF ProbeInjects, At, ProbeInv
  <2>2. inj' \in Seq(Probes) /\ Len(inj') = Len(inj) + 1 /\ Len(inj) \in Nat
    BY <1>1, <1>17, <2>1, AppendProperties, LenProperties
    DEF ProbeInjects, TypeOK
  <2>3. Len(inj') <= Capacity
    BY <2>1, <2>2
  <2>4. QED
    BY <1>1, <1>17, <2>2, <2>3
    DEF ProbeInjects, flags, TypeOK, ProbePc
<1>18. ASSUME ProbeFindsQueueFull
      PROVE  TypeOK'
  <2>1. probe.q \in Probes
    BY <1>1, <1>18 DEF ProbeFindsQueueFull, At, ProbeInv
  <2>2. QED
    BY <1>1, <1>18, <2>1
    DEF ProbeFindsQueueFull, flags, TypeOK, QueryPc, ProbePc
<1>19. ASSUME ProbeWakesReader
      PROVE  TypeOK'
  BY <1>19, <1>1 DEF ProbeWakesReader, At, flags, main, TypeOK, ProbePc
<1>20. ASSUME ProbeAnswered
      PROVE  TypeOK'
  <2>1. result' \in [Probes -> Probes \cup {Nothing, Failed}]
    BY <1>1, <1>20 DEF ProbeAnswered, TypeOK
  <2>2. probe' \in [pc : ProbePc, q : Probes \cup {Nothing}]
    BY <1>1, <1>20 DEF ProbeAnswered, TypeOK, ProbePc
  <2>3. QED
    BY <1>1, <1>20, <2>1, <2>2 DEF ProbeAnswered, TypeOK, flags
<1>21. ASSUME ProbeTimesOut
      PROVE  TypeOK'
  <2>1. result' \in [Probes -> Probes \cup {Nothing, Failed}]
    BY <1>1, <1>21 DEF ProbeTimesOut, TypeOK
  <2>2. probe' \in [pc : ProbePc, q : Probes \cup {Nothing}]
    BY <1>1, <1>21 DEF ProbeTimesOut, TypeOK, ProbePc
  <2>3. QED
    BY <1>1, <1>21, <2>1, <2>2 DEF ProbeTimesOut, TypeOK, flags
<1>22. ASSUME ProbeReturns
      PROVE  TypeOK'
  BY <1>22, <1>1 DEF ProbeReturns, At, flags, main, TypeOK, ProbePc
<1>23. ASSUME NEW q \in Probes, WriteCalled(q)
      PROVE  TypeOK'
  BY <1>23, <1>1 DEF WriteCalled, WriteMoves, flags, main, TypeOK, QueryPc
<1>24. ASSUME NEW q \in Probes, EngineDrops(q)
      PROVE  TypeOK'
  BY <1>24, <1>1 DEF EngineDrops, WriteMoves, flags, main, TypeOK, QueryPc
<1>25. ASSUME NEW q \in Probes, WriteFails(q)
      PROVE  TypeOK'
  BY <1>25, <1>1 DEF WriteFails, WriteMoves, flags, main, TypeOK, QueryPc
<1>26. ASSUME NEW q \in Probes, WriteSucceeds(q)
      PROVE  TypeOK'
  BY <1>26, <1>1 DEF WriteSucceeds, WriteMoves, flags, main, TypeOK, QueryPc
<1>27. ASSUME NEW q \in Probes, Capture(q)
      PROVE  TypeOK'
  BY <1>27, <1>1 DEF Capture, flags, main, TypeOK, QueryPc
<1>28. ASSUME NEW q \in Probes, ProbeStarts(q)
      PROVE  TypeOK'
  BY <1>28, <1>1 DEF ProbeStarts, At, flags, main, TypeOK, QueryPc, ProbePc
<1>29. ASSUME NEW c \in Closers, CloseCalled(c)
      PROVE  TypeOK'
  BY <1>29, <1>1 DEF CloseCalled, CloserMoves, others, main, TypeOK, CloserPc
<1>30. ASSUME NEW c \in Closers, CloseFirst(c)
      PROVE  TypeOK'
  BY <1>30, <1>1 DEF CloseFirst, CloserMoves, others, main, TypeOK, CloserPc
<1>31. ASSUME NEW c \in Closers, CloseAgain(c)
      PROVE  TypeOK'
  BY <1>31, <1>1 DEF CloseAgain, CloserMoves, others, main, TypeOK, CloserPc
<1>32. ASSUME NEW c \in Closers, CloseEvents(c)
      PROVE  TypeOK'
  BY <1>32, <1>1 DEF CloseEvents, CloserMoves, others, main, TypeOK, CloserPc
<1>33. ASSUME NEW c \in Closers, CloseWakesReader(c)
      PROVE  TypeOK'
  BY <1>33, <1>1
  DEF CloseWakesReader, CloserMoves, others, main, TypeOK, CloserPc
<1>34. ASSUME NEW c \in Closers, CloseReturns(c)
      PROVE  TypeOK'
  BY <1>34, <1>1 DEF CloseReturns, CloserMoves, others, main, TypeOK, CloserPc
<1>35. CASE UNCHANGED vars
  BY <1>35, <1>1
  DEF vars, flags, main, TypeOK, ReaderPc, QueryPc, ProbePc, CloserPc
<1>36. QED
  BY <1>2, <1>3, <1>4, <1>5, <1>6, <1>7, <1>8, <1>9, <1>10, <1>11, <1>12,
     <1>13, <1>14, <1>15, <1>16, <1>17, <1>18, <1>19, <1>20, <1>21, <1>22,
     <1>23, <1>24, <1>25, <1>26, <1>27, <1>28, <1>29, <1>30, <1>31, <1>32,
     <1>33, <1>34, <1>35
  DEF Next, ReadGoesOn, Write, ProbeGoesOn, CloseGoesOn

\* Who is inside closeOnce.
LEMMA OnceStep ==
  ASSUME IInv, [Next]_vars
  PROVE  OnceInv'
<1>1. TypeOK /\ OnceInv
  BY DEF IInv
<1> USE ConstantsAssumption
<1>2. ASSUME ReadCalled
      PROVE  OnceInv'
  BY <1>2, <1>1
  DEF ReadCalled, ReaderMoves, flags, main, TypeOK, OnceInv, InsideOnce
<1>3. ASSUME ReadLoop
      PROVE  OnceInv'
  BY <1>3, <1>1
  DEF ReadLoop, ReaderMoves, flags, main, TypeOK, OnceInv, InsideOnce
<1>4. ASSUME ReadArmed
      PROVE  OnceInv'
  BY <1>4, <1>1
  DEF ReadArmed, ReaderMoves, flags, main, TypeOK, OnceInv, InsideOnce
<1>5. ASSUME ReadInjected
      PROVE  OnceInv'
  BY <1>5, <1>1 DEF ReadInjected, flags, main, TypeOK, OnceInv, InsideOnce
<1>6. ASSUME ReadNotInjected
      PROVE  OnceInv'
  BY <1>6, <1>1
  DEF ReadNotInjected, ReaderMoves, flags, main, TypeOK, OnceInv, InsideOnce
<1>7. ASSUME ReadPolls
      PROVE  OnceInv'
  BY <1>7, <1>1
  DEF ReadPolls, ReaderSets, flags, main, TypeOK, OnceInv, InsideOnce
<1>8. ASSUME ReadData
      PROVE  OnceInv'
  BY <1>8, <1>1
  DEF ReadData, ReaderMoves, flags, main, TypeOK, OnceInv, InsideOnce
<1>9. ASSUME ReadFails
      PROVE  OnceInv'
  BY <1>9, <1>1
  DEF ReadFails, ReaderMoves, flags, main, TypeOK, OnceInv, InsideOnce
<1>10. ASSUME ReadTimesOut
      PROVE  OnceInv'
  BY <1>10, <1>1
  DEF ReadTimesOut, ReaderMoves, flags, main, TypeOK, OnceInv, InsideOnce
<1>11. ASSUME ReadTimeout
      PROVE  OnceInv'
  BY <1>11, <1>1
  DEF ReadTimeout, ReaderMoves, flags, main, TypeOK, OnceInv, InsideOnce
<1>12. ASSUME ReadClears
      PROVE  OnceInv'
  BY <1>12, <1>1
  DEF ReadClears, ReaderSets, flags, main, TypeOK, OnceInv, InsideOnce
<1>13. ASSUME ReadIOError
      PROVE  OnceInv'
  BY <1>13, <1>1
  DEF ReadIOError, ReaderMoves, flags, main, TypeOK, OnceInv, InsideOnce
<1>14. ASSUME ReadGotData
      PROVE  OnceInv'
  BY <1>14, <1>1
  DEF ReadGotData, ReaderMoves, flags, main, TypeOK, OnceInv, InsideOnce
<1>15. ASSUME ReadDataClears
      PROVE  OnceInv'
  BY <1>15, <1>1
  DEF ReadDataClears, ReaderSets, flags, main, TypeOK, OnceInv, InsideOnce
<1>16. ASSUME ProbeArms
      PROVE  OnceInv'
  BY <1>16, <1>1 DEF ProbeArms, At, flags, main, TypeOK, OnceInv, InsideOnce
<1>17. ASSUME ProbeInjects
      PROVE  OnceInv'
  BY <1>17, <1>1
  DEF ProbeInjects, At, flags, main, TypeOK, OnceInv, InsideOnce
<1>18. ASSUME ProbeFindsQueueFull
      PROVE  OnceInv'
  BY <1>18, <1>1
  DEF ProbeFindsQueueFull, At, flags, main, TypeOK, OnceInv, InsideOnce
<1>19. ASSUME ProbeWakesReader
      PROVE  OnceInv'
  BY <1>19, <1>1
  DEF ProbeWakesReader, At, flags, main, TypeOK, OnceInv, InsideOnce
<1>20. ASSUME ProbeAnswered
      PROVE  OnceInv'
  BY <1>20, <1>1
  DEF ProbeAnswered, At, flags, main, TypeOK, OnceInv, InsideOnce
<1>21. ASSUME ProbeTimesOut
      PROVE  OnceInv'
  BY <1>21, <1>1
  DEF ProbeTimesOut, At, flags, main, TypeOK, OnceInv, InsideOnce
<1>22. ASSUME ProbeReturns
      PROVE  OnceInv'
  BY <1>22, <1>1
  DEF ProbeReturns, At, flags, main, TypeOK, OnceInv, InsideOnce
<1>23. ASSUME NEW q \in Probes, WriteCalled(q)
      PROVE  OnceInv'
  BY <1>23, <1>1
  DEF WriteCalled, WriteMoves, flags, main, TypeOK, OnceInv, InsideOnce
<1>24. ASSUME NEW q \in Probes, EngineDrops(q)
      PROVE  OnceInv'
  BY <1>24, <1>1
  DEF EngineDrops, WriteMoves, flags, main, TypeOK, OnceInv, InsideOnce
<1>25. ASSUME NEW q \in Probes, WriteFails(q)
      PROVE  OnceInv'
  BY <1>25, <1>1
  DEF WriteFails, WriteMoves, flags, main, TypeOK, OnceInv, InsideOnce
<1>26. ASSUME NEW q \in Probes, WriteSucceeds(q)
      PROVE  OnceInv'
  BY <1>26, <1>1
  DEF WriteSucceeds, WriteMoves, flags, main, TypeOK, OnceInv, InsideOnce
<1>27. ASSUME NEW q \in Probes, Capture(q)
      PROVE  OnceInv'
  BY <1>27, <1>1 DEF Capture, flags, main, TypeOK, OnceInv, InsideOnce
<1>28. ASSUME NEW q \in Probes, ProbeStarts(q)
      PROVE  OnceInv'
  BY <1>28, <1>1 DEF ProbeStarts, At, flags, main, TypeOK, OnceInv, InsideOnce
<1>29. ASSUME NEW c \in Closers, CloseCalled(c)
      PROVE  OnceInv'
  BY <1>29, <1>1
  DEF CloseCalled, CloserMoves, others, main, TypeOK, OnceInv, InsideOnce
<1>30. ASSUME NEW c \in Closers, CloseFirst(c)
      PROVE  OnceInv'
  BY <1>30, <1>1
  DEF CloseFirst, CloserMoves, others, main, TypeOK, OnceInv, InsideOnce
<1>31. ASSUME NEW c \in Closers, CloseAgain(c)
      PROVE  OnceInv'
  BY <1>31, <1>1
  DEF CloseAgain, CloserMoves, others, main, TypeOK, OnceInv, InsideOnce
<1>32. ASSUME NEW c \in Closers, CloseEvents(c)
      PROVE  OnceInv'
  BY <1>32, <1>1
  DEF CloseEvents, CloserMoves, others, main, TypeOK, OnceInv, InsideOnce
<1>33. ASSUME NEW c \in Closers, CloseWakesReader(c)
      PROVE  OnceInv'
  BY <1>33, <1>1
  DEF CloseWakesReader, CloserMoves, others, main, TypeOK, OnceInv,
       InsideOnce
<1>34. ASSUME NEW c \in Closers, CloseReturns(c)
      PROVE  OnceInv'
  BY <1>34, <1>1
  DEF CloseReturns, CloserMoves, others, main, TypeOK, OnceInv, InsideOnce
<1>35. CASE UNCHANGED vars
  BY <1>35, <1>1 DEF vars, flags, main, TypeOK, OnceInv, InsideOnce
<1>36. QED
  BY <1>2, <1>3, <1>4, <1>5, <1>6, <1>7, <1>8, <1>9, <1>10, <1>11, <1>12,
     <1>13, <1>14, <1>15, <1>16, <1>17, <1>18, <1>19, <1>20, <1>21, <1>22,
     <1>23, <1>24, <1>25, <1>26, <1>27, <1>28, <1>29, <1>30, <1>31, <1>32,
     <1>33, <1>34, <1>35
  DEF Next, ReadGoesOn, Write, ProbeGoesOn, CloseGoesOn

\* The wakeup of Close survives every change of the deadline.
LEMMA CloseStep ==
  ASSUME IInv, [Next]_vars
  PROVE  CloseInv'
<1>1. TypeOK /\ OnceInv /\ CloseInv
  BY DEF IInv
<1> USE ConstantsAssumption
<1>2. ASSUME ReadCalled
      PROVE  CloseInv'
  BY <1>2, <1>1
  DEF ReadCalled, ReaderMoves, flags, main, TypeOK, OnceInv, CloseInv,
       Committed, InsideOnce
<1>3. ASSUME ReadLoop
      PROVE  CloseInv'
  BY <1>3, <1>1
  DEF ReadLoop, ReaderMoves, flags, main, TypeOK, OnceInv, CloseInv,
       Committed, InsideOnce
<1>4. ASSUME ReadArmed
      PROVE  CloseInv'
  BY <1>4, <1>1
  DEF ReadArmed, ReaderMoves, flags, main, TypeOK, OnceInv, CloseInv,
       Committed, InsideOnce
<1>5. ASSUME ReadInjected
      PROVE  CloseInv'
  BY <1>5, <1>1
  DEF ReadInjected, flags, main, TypeOK, OnceInv, CloseInv, Committed,
       InsideOnce
<1>6. ASSUME ReadNotInjected
      PROVE  CloseInv'
  BY <1>6, <1>1
  DEF ReadNotInjected, ReaderMoves, flags, main, TypeOK, OnceInv, CloseInv,
       Committed, InsideOnce
<1>7. ASSUME ReadPolls
      PROVE  CloseInv'
  BY <1>7, <1>1
  DEF ReadPolls, ReaderSets, flags, main, TypeOK, OnceInv, CloseInv,
       Committed, InsideOnce
<1>8. ASSUME ReadData
      PROVE  CloseInv'
  BY <1>8, <1>1
  DEF ReadData, ReaderMoves, flags, main, TypeOK, OnceInv, CloseInv,
       Committed, InsideOnce
<1>9. ASSUME ReadFails
      PROVE  CloseInv'
  BY <1>9, <1>1
  DEF ReadFails, ReaderMoves, flags, main, TypeOK, OnceInv, CloseInv,
       Committed, InsideOnce
<1>10. ASSUME ReadTimesOut
      PROVE  CloseInv'
  BY <1>10, <1>1
  DEF ReadTimesOut, ReaderMoves, flags, main, TypeOK, OnceInv, CloseInv,
       Committed, InsideOnce
<1>11. ASSUME ReadTimeout
      PROVE  CloseInv'
  BY <1>11, <1>1
  DEF ReadTimeout, ReaderMoves, flags, main, TypeOK, OnceInv, CloseInv,
       Committed, InsideOnce
<1>12. ASSUME ReadClears
      PROVE  CloseInv'
  BY <1>12, <1>1
  DEF ReadClears, ReaderSets, flags, main, TypeOK, OnceInv, CloseInv,
       Committed, InsideOnce
<1>13. ASSUME ReadIOError
      PROVE  CloseInv'
  BY <1>13, <1>1
  DEF ReadIOError, ReaderMoves, flags, main, TypeOK, OnceInv, CloseInv,
       Committed, InsideOnce
<1>14. ASSUME ReadGotData
      PROVE  CloseInv'
  BY <1>14, <1>1
  DEF ReadGotData, ReaderMoves, flags, main, TypeOK, OnceInv, CloseInv,
       Committed, InsideOnce
<1>15. ASSUME ReadDataClears
      PROVE  CloseInv'
  BY <1>15, <1>1
  DEF ReadDataClears, ReaderSets, flags, main, TypeOK, OnceInv, CloseInv,
       Committed, InsideOnce
<1>16. ASSUME ProbeArms
      PROVE  CloseInv'
  BY <1>16, <1>1
  DEF ProbeArms, At, flags, main, TypeOK, OnceInv, CloseInv, Committed,
       InsideOnce
<1>17. ASSUME ProbeInjects
      PROVE  CloseInv'
  BY <1>17, <1>1
  DEF ProbeInjects, At, flags, main, TypeOK, OnceInv, CloseInv, Committed,
       InsideOnce
<1>18. ASSUME ProbeFindsQueueFull
      PROVE  CloseInv'
  BY <1>18, <1>1
  DEF ProbeFindsQueueFull, At, flags, main, TypeOK, OnceInv, CloseInv,
       Committed, InsideOnce
<1>19. ASSUME ProbeWakesReader
      PROVE  CloseInv'
  BY <1>19, <1>1
  DEF ProbeWakesReader, At, flags, main, TypeOK, OnceInv, CloseInv,
       Committed, InsideOnce
<1>20. ASSUME ProbeAnswered
      PROVE  CloseInv'
  BY <1>20, <1>1
  DEF ProbeAnswered, At, flags, main, TypeOK, OnceInv, CloseInv, Committed,
       InsideOnce
<1>21. ASSUME ProbeTimesOut
      PROVE  CloseInv'
  BY <1>21, <1>1
  DEF ProbeTimesOut, At, flags, main, TypeOK, OnceInv, CloseInv, Committed,
       InsideOnce
<1>22. ASSUME ProbeReturns
      PROVE  CloseInv'
  BY <1>22, <1>1
  DEF ProbeReturns, At, flags, main, TypeOK, OnceInv, CloseInv, Committed,
       InsideOnce
<1>23. ASSUME NEW q \in Probes, WriteCalled(q)
      PROVE  CloseInv'
  BY <1>23, <1>1
  DEF WriteCalled, WriteMoves, flags, main, TypeOK, OnceInv, CloseInv,
       Committed, InsideOnce
<1>24. ASSUME NEW q \in Probes, EngineDrops(q)
      PROVE  CloseInv'
  BY <1>24, <1>1
  DEF EngineDrops, WriteMoves, flags, main, TypeOK, OnceInv, CloseInv,
       Committed, InsideOnce
<1>25. ASSUME NEW q \in Probes, WriteFails(q)
      PROVE  CloseInv'
  BY <1>25, <1>1
  DEF WriteFails, WriteMoves, flags, main, TypeOK, OnceInv, CloseInv,
       Committed, InsideOnce
<1>26. ASSUME NEW q \in Probes, WriteSucceeds(q)
      PROVE  CloseInv'
  BY <1>26, <1>1
  DEF WriteSucceeds, WriteMoves, flags, main, TypeOK, OnceInv, CloseInv,
       Committed, InsideOnce
<1>27. ASSUME NEW q \in Probes, Capture(q)
      PROVE  CloseInv'
  BY <1>27, <1>1
  DEF Capture, flags, main, TypeOK, OnceInv, CloseInv, Committed, InsideOnce
<1>28. ASSUME NEW q \in Probes, ProbeStarts(q)
      PROVE  CloseInv'
  BY <1>28, <1>1
  DEF ProbeStarts, At, flags, main, TypeOK, OnceInv, CloseInv, Committed,
       InsideOnce
<1>29. ASSUME NEW c \in Closers, CloseCalled(c)
      PROVE  CloseInv'
  BY <1>29, <1>1
  DEF CloseCalled, CloserMoves, others, main, TypeOK, OnceInv, CloseInv,
       Committed, InsideOnce
<1>30. ASSUME NEW c \in Closers, CloseFirst(c)
      PROVE  CloseInv'
  BY <1>30, <1>1
  DEF CloseFirst, CloserMoves, others, main, TypeOK, OnceInv, CloseInv,
       Committed, InsideOnce
<1>31. ASSUME NEW c \in Closers, CloseAgain(c)
      PROVE  CloseInv'
  BY <1>31, <1>1
  DEF CloseAgain, CloserMoves, others, main, TypeOK, OnceInv, CloseInv,
       Committed, InsideOnce
<1>32. ASSUME NEW c \in Closers, CloseEvents(c)
      PROVE  CloseInv'
  BY <1>32, <1>1
  DEF CloseEvents, CloserMoves, others, main, TypeOK, OnceInv, CloseInv,
       Committed, InsideOnce
<1>33. ASSUME NEW c \in Closers, CloseWakesReader(c)
      PROVE  CloseInv'
  BY <1>33, <1>1
  DEF CloseWakesReader, CloserMoves, others, main, TypeOK, OnceInv, CloseInv,
       Committed, InsideOnce
<1>34. ASSUME NEW c \in Closers, CloseReturns(c)
      PROVE  CloseInv'
  BY <1>34, <1>1
  DEF CloseReturns, CloserMoves, others, main, TypeOK, OnceInv, CloseInv,
       Committed, InsideOnce
<1>35. CASE UNCHANGED vars
  BY <1>35, <1>1
  DEF vars, flags, main, TypeOK, OnceInv, CloseInv, Committed, InsideOnce
<1>36. QED
  BY <1>2, <1>3, <1>4, <1>5, <1>6, <1>7, <1>8, <1>9, <1>10, <1>11, <1>12,
     <1>13, <1>14, <1>15, <1>16, <1>17, <1>18, <1>19, <1>20, <1>21, <1>22,
     <1>23, <1>24, <1>25, <1>26, <1>27, <1>28, <1>29, <1>30, <1>31, <1>32,
     <1>33, <1>34, <1>35
  DEF Next, ReadGoesOn, Write, ProbeGoesOn, CloseGoesOn

\* So does the wakeup of a probe.
LEMMA ProbeStep ==
  ASSUME IInv, [Next]_vars
  PROVE  ProbeInv'
<1>1. TypeOK /\ ProbeInv
  BY DEF IInv
<1> USE ConstantsAssumption
<1>2. ASSUME ReadCalled
      PROVE  ProbeInv'
  BY <1>2, <1>1
  DEF ReadCalled, ReaderMoves, flags, main, TypeOK, ProbeInv,
       InjectionIsNotLost, Blocked, At
<1>3. ASSUME ReadLoop
      PROVE  ProbeInv'
  BY <1>3, <1>1
  DEF ReadLoop, ReaderMoves, flags, main, TypeOK, ProbeInv,
       InjectionIsNotLost, Blocked, At
<1>4. ASSUME ReadArmed
      PROVE  ProbeInv'
  BY <1>4, <1>1
  DEF ReadArmed, ReaderMoves, flags, main, TypeOK, ProbeInv,
       InjectionIsNotLost, Blocked, At
<1>5. ASSUME ReadInjected
      PROVE  ProbeInv'
  BY <1>5, <1>1
  DEF ReadInjected, flags, main, TypeOK, ProbeInv, InjectionIsNotLost,
       Blocked, At
<1>6. ASSUME ReadNotInjected
      PROVE  ProbeInv'
  BY <1>6, <1>1
  DEF ReadNotInjected, ReaderMoves, flags, main, TypeOK, ProbeInv,
       InjectionIsNotLost, Blocked, At
<1>7. ASSUME ReadPolls
      PROVE  ProbeInv'
  BY <1>7, <1>1
  DEF ReadPolls, ReaderSets, flags, main, TypeOK, ProbeInv,
       InjectionIsNotLost, Blocked, At
<1>8. ASSUME ReadData
      PROVE  ProbeInv'
  BY <1>8, <1>1
  DEF ReadData, ReaderMoves, flags, main, TypeOK, ProbeInv,
       InjectionIsNotLost, Blocked, At
<1>9. ASSUME ReadFails
      PROVE  ProbeInv'
  BY <1>9, <1>1
  DEF ReadFails, ReaderMoves, flags, main, TypeOK, ProbeInv,
       InjectionIsNotLost, Blocked, At
<1>10. ASSUME ReadTimesOut
      PROVE  ProbeInv'
  BY <1>10, <1>1
  DEF ReadTimesOut, ReaderMoves, flags, main, TypeOK, ProbeInv,
       InjectionIsNotLost, Blocked, At
<1>11. ASSUME ReadTimeout
      PROVE  ProbeInv'
  BY <1>11, <1>1
  DEF ReadTimeout, ReaderMoves, flags, main, TypeOK, ProbeInv,
       InjectionIsNotLost, Blocked, At
<1>12. ASSUME ReadClears
      PROVE  ProbeInv'
  BY <1>12, <1>1
  DEF ReadClears, ReaderSets, flags, main, TypeOK, ProbeInv,
       InjectionIsNotLost, Blocked, At
<1>13. ASSUME ReadIOError
      PROVE  ProbeInv'
  BY <1>13, <1>1
  DEF ReadIOError, ReaderMoves, flags, main, TypeOK, ProbeInv,
       InjectionIsNotLost, Blocked, At
<1>14. ASSUME ReadGotData
      PROVE  ProbeInv'
  BY <1>14, <1>1
  DEF ReadGotData, ReaderMoves, flags, main, TypeOK, ProbeInv,
       InjectionIsNotLost, Blocked, At
<1>15. ASSUME ReadDataClears
      PROVE  ProbeInv'
  BY <1>15, <1>1
  DEF ReadDataClears, ReaderSets, flags, main, TypeOK, ProbeInv,
       InjectionIsNotLost, Blocked, At
<1>16. ASSUME ProbeArms
      PROVE  ProbeInv'
  BY <1>16, <1>1
  DEF ProbeArms, At, flags, main, TypeOK, ProbeInv, InjectionIsNotLost,
       Blocked
<1>17. ASSUME ProbeInjects
      PROVE  ProbeInv'
  BY <1>17, <1>1
  DEF ProbeInjects, At, flags, main, TypeOK, ProbeInv, InjectionIsNotLost,
       Blocked
<1>18. ASSUME ProbeFindsQueueFull
      PROVE  ProbeInv'
  BY <1>18, <1>1
  DEF ProbeFindsQueueFull, At, flags, main, TypeOK, ProbeInv,
       InjectionIsNotLost, Blocked
<1>19. ASSUME ProbeWakesReader
      PROVE  ProbeInv'
  BY <1>19, <1>1
  DEF ProbeWakesReader, At, flags, main, TypeOK, ProbeInv,
       InjectionIsNotLost, Blocked
<1>20. ASSUME ProbeAnswered
      PROVE  ProbeInv'
  BY <1>20, <1>1
  DEF ProbeAnswered, At, flags, main, TypeOK, ProbeInv, InjectionIsNotLost,
       Blocked
<1>21. ASSUME ProbeTimesOut
      PROVE  ProbeInv'
  BY <1>21, <1>1
  DEF ProbeTimesOut, At, flags, main, TypeOK, ProbeInv, InjectionIsNotLost,
       Blocked
<1>22. ASSUME ProbeReturns
      PROVE  ProbeInv'
  BY <1>22, <1>1
  DEF ProbeReturns, At, flags, main, TypeOK, ProbeInv, InjectionIsNotLost,
       Blocked
<1>23. ASSUME NEW q \in Probes, WriteCalled(q)
      PROVE  ProbeInv'
  BY <1>23, <1>1
  DEF WriteCalled, WriteMoves, flags, main, TypeOK, ProbeInv,
       InjectionIsNotLost, Blocked, At
<1>24. ASSUME NEW q \in Probes, EngineDrops(q)
      PROVE  ProbeInv'
  BY <1>24, <1>1
  DEF EngineDrops, WriteMoves, flags, main, TypeOK, ProbeInv,
       InjectionIsNotLost, Blocked, At
<1>25. ASSUME NEW q \in Probes, WriteFails(q)
      PROVE  ProbeInv'
  BY <1>25, <1>1
  DEF WriteFails, WriteMoves, flags, main, TypeOK, ProbeInv,
       InjectionIsNotLost, Blocked, At
<1>26. ASSUME NEW q \in Probes, WriteSucceeds(q)
      PROVE  ProbeInv'
  BY <1>26, <1>1
  DEF WriteSucceeds, WriteMoves, flags, main, TypeOK, ProbeInv,
       InjectionIsNotLost, Blocked, At
<1>27. ASSUME NEW q \in Probes, Capture(q)
      PROVE  ProbeInv'
  BY <1>27, <1>1
  DEF Capture, flags, main, TypeOK, ProbeInv, InjectionIsNotLost, Blocked, At
<1>28. ASSUME NEW q \in Probes, ProbeStarts(q)
      PROVE  ProbeInv'
  BY <1>28, <1>1
  DEF ProbeStarts, At, flags, main, TypeOK, ProbeInv, InjectionIsNotLost,
       Blocked
<1>29. ASSUME NEW c \in Closers, CloseCalled(c)
      PROVE  ProbeInv'
  BY <1>29, <1>1
  DEF CloseCalled, CloserMoves, others, main, TypeOK, ProbeInv,
       InjectionIsNotLost, Blocked, At
<1>30. ASSUME NEW c \in Closers, CloseFirst(c)
      PROVE  ProbeInv'
  BY <1>30, <1>1
  DEF CloseFirst, CloserMoves, others, main, TypeOK, ProbeInv,
       InjectionIsNotLost, Blocked, At
<1>31. ASSUME NEW c \in Closers, CloseAgain(c)
      PROVE  ProbeInv'
  BY <1>31, <1>1
  DEF CloseAgain, CloserMoves, others, main, TypeOK, ProbeInv,
       InjectionIsNotLost, Blocked, At
<1>32. ASSUME NEW c \in Closers, CloseEvents(c)
      PROVE  ProbeInv'
  BY <1>32, <1>1
  DEF CloseEvents, CloserMoves, others, main, TypeOK, ProbeInv,
       InjectionIsNotLost, Blocked, At
<1>33. ASSUME NEW c \in Closers, CloseWakesReader(c)
      PROVE  ProbeInv'
  BY <1>33, <1>1
  DEF CloseWakesReader, CloserMoves, others, main, TypeOK, ProbeInv,
       InjectionIsNotLost, Blocked, At
<1>34. ASSUME NEW c \in Closers, CloseReturns(c)
      PROVE  ProbeInv'
  BY <1>34, <1>1
  DEF CloseReturns, CloserMoves, others, main, TypeOK, ProbeInv,
       InjectionIsNotLost, Blocked, At
<1>35. CASE UNCHANGED vars
  BY <1>35, <1>1
  DEF vars, flags, main, TypeOK, ProbeInv, InjectionIsNotLost, Blocked, At
<1>36. QED
  BY <1>2, <1>3, <1>4, <1>5, <1>6, <1>7, <1>8, <1>9, <1>10, <1>11, <1>12,
     <1>13, <1>14, <1>15, <1>16, <1>17, <1>18, <1>19, <1>20, <1>21, <1>22,
     <1>23, <1>24, <1>25, <1>26, <1>27, <1>28, <1>29, <1>30, <1>31, <1>32,
     <1>33, <1>34, <1>35
  DEF Next, ReadGoesOn, Write, ProbeGoesOn, CloseGoesOn

LEMMA InitInv ==
  ASSUME Init
  PROVE  IInv
<1>1. TypeOK
  <2>1. inj = <<>> /\ 0 <= Capacity
    BY ConstantsAssumption DEF Init
  <2>2. inj \in Seq(Probes) /\ Len(inj) <= Capacity
    BY <2>1, EmptySeq
  <2>3. QED
    BY <2>2 DEF Init, TypeOK, ReaderPc, QueryPc, ProbePc, CloserPc
<1>2. OnceInv /\ CloseInv /\ ProbeInv
  BY DEF Init, OnceInv, InsideOnce, CloseInv, Committed, ProbeInv,
     InjectionIsNotLost, Blocked, At
<1>3. QED
  BY <1>1, <1>2 DEF IInv

-----------------------------------------------------------------------------
\* Every reachable state satisfies the inductive invariant.
THEOREM IInvariance == Spec => []IInv
<1>1. Init => IInv
  BY InitInv
<1>2. IInv /\ [Next]_vars => IInv'
  BY TypeStep, OnceStep, CloseStep, ProbeStep DEF IInv
<1>3. QED
  BY <1>1, <1>2, PTL DEF Spec

\* The flags, channels and program counters of the tun device keep their
\* types, and the queue of injected packets its capacity.
THEOREM TypeCorrect == Spec => []TypeOK
<1>1. IInv => TypeOK
  BY DEF IInv
<1>2. QED
  BY <1>1, IInvariance, PTL

\* Once a Close has returned the reader is not blocked in file.Read, however
\* probes and other callers of Close interleave with it.
THEOREM CloseWakes == Spec => []CloseIsNotLost
<1>1. IInv => CloseIsNotLost
  BY DEF IInv, OnceInv, CloseInv, Committed, CloseIsNotLost, Blocked
<1>2. QED
  BY <1>1, IInvariance, PTL

\* While a probe waits, the reader is not blocked with a query in the queue.
THEOREM ProbeWakes == Spec => []InjectionIsNotLost
<1>1. IInv => InjectionIsNotLost
  BY DEF IInv, ProbeInv
<1>2. QED
  BY <1>1, IInvariance, PTL

\* The channel of tun events is closed at most once.
THEOREM EventsOnce == Spec => []EventsClosedOnce
<1>1. IInv => EventsClosedOnce
  BY DEF IInv, OnceInv, EventsClosedOnce
<1>2. QED
  BY <1>1, IInvariance, PTL

-----------------------------------------------------------------------------
(***************************************************************************)
(* Probes that start only once every earlier query is settled.  At most    *)
(* one query is then on its way, and it is that of the probe in progress;  *)
(* so what is captured while a probe is in progress can only be its own    *)
(* answer, and what is captured between two probes is drained.             *)
(***************************************************************************)
InFlight(q) == query[q] \notin {"unused", "done"}

InProgress == probe.pc # "idle"

OwnInv ==
  /\ \A q, r \in Probes : InFlight(q) /\ InFlight(r) => q = r
  /\ \A q \in Probes : InProgress /\ InFlight(q) => q = probe.q
  /\ InProgress => probeReply \in {Nothing, probe.q}
  /\ inj # <<>> => inj = <<inj[1]>> /\ query[inj[1]] = "queued"
  /\ probe.pc \in {"drained", "armed"} => inj = <<>> /\ query[probe.q] = "queued"
  /\ AnswersAreOwn

ownVars == <<probe, result, inj, probeReply, query>>

SettledNext == Next /\ ((\E q \in Probes : ProbeStarts(q)) => Settled)

\* OwnInv is inductive as long as probes start settled.
LEMMA OwnStep ==
  ASSUME IInv, OwnInv, [SettledNext]_vars
  PROVE  OwnInv'
<1>1. TypeOK /\ ProbeInv
  BY DEF IInv
<1> USE ConstantsAssumption
<1>2. ASSUME UNCHANGED ownVars
      PROVE  OwnInv'
  BY <1>2 DEF ownVars, OwnInv, InFlight, InProgress, AnswersAreOwn
<1>3. ASSUME \/ ReadCalled \/ ReadLoop \/ ReadArmed \/ ReadNotInjected \/ ReadPolls
             \/ ReadData \/ ReadFails \/ ReadTimesOut \/ ReadTimeout \/ ReadClears
             \/ ReadIOError \/ ReadGotData \/ ReadDataClears
      PROVE  UNCHANGED ownVars
  BY <1>3
  DEF ReadCalled, ReadLoop, ReadArmed, ReadNotInjected, ReadPolls, ReadData, ReadFails,
      ReadTimesOut, ReadTimeout, ReadClears, ReadIOError, ReadGotData, ReadDataClears,
      ReaderMoves, ReaderSets, main, ownVars
<1>4. ASSUME NEW c \in Closers, CloseCalled(c) \/ CloseGoesOn(c)
      PROVE  UNCHANGED ownVars
  BY <1>4
  DEF CloseCalled, CloseGoesOn, CloseFirst, CloseAgain, CloseEvents, CloseWakesReader,
      CloseReturns, others, main, ownVars
<1>5. ASSUME ReadInjected
      PROVE  OwnInv'
  <2>1. /\ inj = <<inj[1]>> /\ query[inj[1]] = "queued" /\ inj[1] \in Probes
        /\ inj' = <<>> /\ query' = [query EXCEPT ![inj[1]] = "engine"]
        /\ UNCHANGED <<probe, result, probeReply>>
    BY <1>5, <1>1 DEF ReadInjected, OwnInv, TypeOK, main
  <2>2. ASSUME NEW q \in Probes
        PROVE  InFlight(q)' => InFlight(q)
    BY <2>1, <1>1 DEF InFlight, TypeOK
  <2>3. probe.pc \notin {"drained", "armed"}
    BY <2>1 DEF OwnInv
  <2>4. QED
    BY <2>1, <2>2, <2>3 DEF OwnInv, InProgress, AnswersAreOwn
<1>6. ASSUME NEW q \in Probes,
             WriteCalled(q) \/ EngineDrops(q) \/ WriteFails(q) \/ WriteSucceeds(q)
      PROVE  OwnInv'
  <2>1. /\ query[q] \in {"engine", "open"}
        /\ \E to \in QueryPc : query' = [query EXCEPT ![q] = to]
        /\ UNCHANGED <<probe, result, inj, probeReply>>
    BY <1>6
    DEF WriteCalled, EngineDrops, WriteFails, WriteSucceeds, WriteMoves, main, QueryPc
  <2>2. ASSUME NEW r \in Probes
        PROVE  /\ InFlight(r)' => InFlight(r)
               /\ query[r] = "queued" => query'[r] = "queued"
    BY <2>1, <1>1 DEF InFlight, TypeOK
  <2>3. inj # <<>> => inj[1] \in Probes
    BY <1>1 DEF TypeOK
  <2>4. InProgress => probe.q \in Probes
    BY <1>1 DEF ProbeInv, InProgress
  <2>5. QED
    BY <2>1, <2>2, <2>3, <2>4 DEF OwnInv, InProgress, AnswersAreOwn
<1>7. ASSUME NEW q \in Probes, Capture(q)
      PROVE  OwnInv'
  <2>1. /\ query[q] = "capture" /\ InFlight(q)
        /\ query' = [query EXCEPT ![q] = "done"] /\ probeReply' \in {probeReply, q}
        /\ UNCHANGED <<probe, result, inj>>
    BY <1>7 DEF Capture, main, InFlight
  <2>2. ASSUME NEW r \in Probes
        PROVE  /\ InFlight(r)' => InFlight(r)
               /\ query[r] = "queued" => query'[r] = "queued"
    BY <2>1, <1>1 DEF InFlight, TypeOK
  <2>3. inj # <<>> => inj[1] \in Probes
    BY <1>1 DEF TypeOK
  <2>4. InProgress => probe.q \in Probes /\ q = probe.q
    BY <1>1, <2>1 DEF ProbeInv, InProgress, OwnInv
  <2>5. QED
    BY <2>1, <2>2, <2>3, <2>4 DEF OwnInv, InProgress, AnswersAreOwn
<1>8. ASSUME NEW q \in Probes, ProbeStarts(q), Settled
      PROVE  OwnInv'
  <2>1. /\ query' = [query EXCEPT ![q] = "queued"] /\ probe' = [pc |-> "drained", q |-> q]
        /\ probeReply' = Nothing /\ UNCHANGED <<result, inj>>
    BY <1>8 DEF ProbeStarts
  <2>2. inj = <<>> /\ query'[q] = "queued"
        /\ \A r \in Probes : InFlight(r)' => r = q
    BY <1>8, <2>1, <1>1 DEF Settled, InFlight, TypeOK
  <2>3. QED
    BY <2>1, <2>2 DEF OwnInv, InProgress, AnswersAreOwn
<1>9. ASSUME ProbeArms
      PROVE  OwnInv'
  <2>1. /\ probe'.pc = "armed" /\ probe'.q = probe.q /\ probe.pc = "drained"
        /\ UNCHANGED <<result, inj, probeReply, query>>
    BY <1>9, <1>1 DEF ProbeArms, At, TypeOK
  <2>2. QED
    BY <2>1 DEF OwnInv, InFlight, InProgress, AnswersAreOwn
<1>10. ASSUME ProbeInjects
       PROVE  OwnInv'
  <2>1. /\ probe'.pc = "wake" /\ probe'.q = probe.q /\ probe.pc = "armed"
        /\ inj = <<>> /\ query[probe.q] = "queued" /\ inj' = Append(inj, probe.q)
        /\ UNCHANGED <<result, probeReply, query>>
    BY <1>10, <1>1 DEF ProbeInjects, At, TypeOK, OwnInv
  <2>2. inj' = <<probe.q>> /\ inj'[1] = probe.q
    BY <2>1
  <2>3. QED
    BY <2>1, <2>2 DEF OwnInv, InFlight, InProgress, AnswersAreOwn
<1>11. ASSUME ProbeFindsQueueFull
       PROVE  OwnInv'
  <2>1. inj = <<>> /\ Len(inj) = Capacity
    BY <1>11 DEF ProbeFindsQueueFull, At, OwnInv
  <2>2. QED
    BY <2>1
<1>12. ASSUME ProbeWakesReader
       PROVE  OwnInv'
  <2>1. /\ probe'.pc = "wait" /\ probe'.q = probe.q /\ probe.pc = "wake"
        /\ UNCHANGED <<result, inj, probeReply, query>>
    BY <1>12, <1>1 DEF ProbeWakesReader, At, TypeOK
  <2>2. QED
    BY <2>1 DEF OwnInv, InFlight, InProgress, AnswersAreOwn
<1>13. ASSUME ProbeAnswered \/ ProbeTimesOut
       PROVE  OwnInv'
  <2>1. /\ probe'.pc = "disarm" /\ probe'.q = probe.q /\ probe.pc = "wait"
        /\ probeReply' \in {Nothing, probeReply} /\ UNCHANGED <<inj, query>>
    BY <1>13, <1>1 DEF ProbeAnswered, ProbeTimesOut, At, TypeOK
  <2>2. \/ result' = [result EXCEPT ![probe.q] = probe.q]
        \/ result' = [result EXCEPT ![probe.q] = Failed]
    BY <1>13 DEF ProbeAnswered, ProbeTimesOut, At, OwnInv, InProgress
  <2>3. AnswersAreOwn'
    BY <2>2, <1>1 DEF OwnInv, AnswersAreOwn, TypeOK
  <2>4. QED
    BY <2>1, <2>3 DEF OwnInv, InFlight, InProgress
<1>14. ASSUME ProbeReturns
       PROVE  OwnInv'
  <2>1. /\ probe'.pc = "idle"
        /\ UNCHANGED <<result, inj, probeReply, query>>
    BY <1>14 DEF ProbeReturns
  <2>2. QED
    BY <2>1 DEF OwnInv, InFlight, InProgress, AnswersAreOwn
<1>15. ASSUME UNCHANGED vars
       PROVE  UNCHANGED ownVars
  BY <1>15 DEF vars, main, ownVars
<1>16. QED
  BY <1>2, <1>3, <1>4, <1>5, <1>6, <1>7, <1>8, <1>9, <1>10, <1>11, <1>12, <1>13, <1>14,
     <1>15
  DEF SettledNext, Next, ReadGoesOn, Write, ProbeGoesOn

\* As long as each probe starts only when the queries of the earlier ones are
\* settled, probes report the answer to their own query, or none; the first one
\* that starts otherwise ends the promise, and this is all that can end it.
THEOREM OwnAnswers == HistorySpec => []OwnWhenSettled
<1>1. ASSUME HistoryInit
      PROVE  IInv /\ OwnInv
  <2>1. probe.pc = "idle" /\ inj = <<>> /\ \A q \in Probes : ~InFlight(q)
    BY <1>1 DEF HistoryInit, Init, InFlight
  <2>2. AnswersAreOwn
    BY <1>1, ConstantsAssumption DEF HistoryInit, Init, AnswersAreOwn
  <2>3. QED
    BY <1>1, <2>1, <2>2, InitInv DEF HistoryInit, OwnInv, InProgress
<1> DEFINE HInv == IInv /\ (settled => OwnInv)
<1>2. HInv /\ [HistoryNext]_historyVars => HInv'
  <2>1. [HistoryNext]_historyVars => [Next]_vars
    BY DEF HistoryNext, historyVars
  <2>2. [HistoryNext]_historyVars /\ settled' => settled /\ [SettledNext]_vars
    BY DEF HistoryNext, historyVars, SettledNext
  <2>3. IInv /\ [Next]_vars => IInv'
    BY TypeStep, OnceStep, CloseStep, ProbeStep DEF IInv
  <2>4. QED
    BY <2>1, <2>2, <2>3, OwnStep
<1>3. HInv => OwnWhenSettled
  BY DEF OwnInv, OwnWhenSettled
<1>4. QED
  BY <1>1, <1>2, <1>3, PTL DEF HistorySpec

=============================================================================
