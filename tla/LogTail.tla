------------------------------ MODULE LogTail ------------------------------
(***************************************************************************)
(* DumpDebugLog (cpp/src/bridge/go_probe.cpp): when a library is opened,   *)
(* the end of the newest log of another process is replayed: the last      *)
(* lines of its last bytes, through a ring of fixed size.                  *)
(*                                                                         *)
(* A log is a sequence of bytes; only the line feed is told apart.  The    *)
(* limits of the code (192 KiB, 110 lines) are constants.  A file whose    *)
(* stat fails has the time NoTime.  Left out, since no property is about   *)
(* them, are the clip of a line at 320 bytes and a read that fails halfway.*)
(*                                                                         *)
(* An operator introduced as a mutant is no part of the specification: it  *)
(* is the next definition with a plausible bug, and breaks a property.     *)
(***************************************************************************)
EXTENDS Integers, Sequences

CONSTANTS
  Bytes, LF,     \* what a log is made of
  Dirs,          \* the log directories: of each file its text and its time
  Files,         \* the names in them
  Self,          \* the log of this process
  TailBytes,     \* kTailBytes
  KeepLines      \* kKeepLines

NoFile == "none"
NoTime == -1

\* What is assumed of the constants.
TailAssumption ==
  /\ LF \in Bytes
  /\ TailBytes \in Nat \ {0} /\ KeepLines \in Nat \ {0}
  /\ NoFile \notin Files \cup {Self}

VARIABLES
  dir,    \* the log files that exist: their contents and modification time
  unread, \* the names readdir has still to return
  best, bestTime,
  all,    \* the bytes that were read
  pos,    \* the next byte to look at (zero based, as in the code)
  keep, kept,
  emitted,
  at      \* the part of the function being executed

vars == <<dir, unread, best, bestTime, all, pos, keep, kept, emitted, at>>

\* The type invariant.
TypeOK ==
  /\ unread \subseteq Files
  /\ best \in Files \cup {NoFile}
  /\ all \in Seq(Bytes) /\ pos \in 0 .. Len(all) + 1
  /\ kept \in Nat
  /\ keep \in [0 .. KeepLines - 1 -> Seq(Bytes \ {LF})]
  /\ emitted \in Seq(Seq(Bytes \ {LF}))
  /\ at \in {"readdir", "read", "lines", "failed", "returned"}

Init ==
  /\ dir \in Dirs
  /\ unread = DOMAIN dir
  /\ best = NoFile /\ bestTime = 0
  /\ all = <<>> /\ pos = 0
  /\ keep = [i \in 0 .. KeepLines - 1 |-> <<>>] /\ kept = 0
  /\ emitted = <<>> /\ at = "readdir"

\* Mutant: the log this process is writing is not left out.
ReadDirWithSelf(f) ==
  /\ at = "readdir" /\ f \in unread
  /\ unread' = unread \ {f}
  /\ IF dir[f].time # NoTime /\ dir[f].time >= bestTime
     THEN best' = f /\ bestTime' = dir[f].time
     ELSE UNCHANGED <<best, bestTime>>
  /\ UNCHANGED <<dir, all, pos, keep, kept, emitted, at>>

\* The next name, in the order of the file system; the newest log wins, the
\* last of equals, and one that stat knows nothing of is passed over.
ReadDir(f) ==
  /\ at = "readdir" /\ f \in unread
  /\ unread' = unread \ {f}
  /\ IF f # Self /\ dir[f].time # NoTime /\ dir[f].time >= bestTime
     THEN best' = f /\ bestTime' = dir[f].time
     ELSE UNCHANGED <<best, bestTime>>
  /\ UNCHANGED <<dir, all, pos, keep, kept, emitted, at>>

DirRead ==
  /\ at = "readdir" /\ unread = {}
  /\ at' = IF best = NoFile THEN "returned" ELSE "read"
  /\ UNCHANGED <<dir, unread, best, bestTime, all, pos, keep, kept, emitted>>

FirstLF(s) ==
  IF \E i \in DOMAIN s : s[i] = LF
  THEN CHOOSE i \in DOMAIN s : s[i] = LF /\ \A j \in 1 .. i - 1 : s[j] # LF
  ELSE 0

\* What was read when the file is entered at start: if that is not the
\* beginning, everything up to the first line feed is dropped.
WholeLines(start, tail) ==
  IF start = 0 THEN tail
  ELSE IF FirstLF(tail) = 0 THEN <<>>
       ELSE SubSeq(tail, FirstLF(tail) + 1, Len(tail))

\* Where the file is entered.
TailStart(text) == IF Len(text) > TailBytes THEN Len(text) - TailBytes ELSE 0

\* The chosen log cannot be opened, or the place to start at not be reached.
OpenFails ==
  /\ at = "read" /\ at' = "failed"
  /\ UNCHANGED <<dir, unread, best, bestTime, all, pos, keep, kept, emitted>>

\* A size that fseek cannot tell counts as 0.
ReadTail ==
  /\ at = "read"
  /\ LET text == dir[best].text IN
       \E start \in {TailStart(text), 0} :
         LET rest == WholeLines(start, SubSeq(text, start + 1, Len(text)))
         IN  /\ all' = rest
             /\ at' = IF rest = <<>> THEN "returned" ELSE "lines"
  /\ UNCHANGED <<dir, unread, best, bestTime, pos, keep, kept, emitted>>

\* The end of the line that begins at pos: a line feed, or the end.
LineEnd ==
  IF \E i \in pos .. Len(all) - 1 : all[i + 1] = LF
  THEN CHOOSE i \in pos .. Len(all) - 1 :
         all[i + 1] = LF /\ \A j \in pos .. i - 1 : all[j + 1] # LF
  ELSE Len(all)

\* One turn of the loop: an empty line is not kept.
KeepLine ==
  /\ at = "lines" /\ pos < Len(all)
  /\ LET line == SubSeq(all, pos + 1, LineEnd) IN
       IF line = <<>> THEN UNCHANGED <<keep, kept>>
       ELSE /\ keep' = [keep EXCEPT ![kept % KeepLines] = line]
            /\ kept' = kept + 1
  /\ pos' = LineEnd + 1
  /\ UNCHANGED <<dir, unread, best, bestTime, all, emitted, at>>

\* The ring is replayed, oldest line first.
Emit ==
  /\ at = "lines" /\ pos >= Len(all)
  /\ LET emit == IF kept < KeepLines THEN kept ELSE KeepLines
     IN  emitted' = [i \in 1 .. emit |-> keep[(kept - emit + (i - 1)) % KeepLines]]
  /\ at' = "returned"
  /\ UNCHANGED <<dir, unread, best, bestTime, all, pos, keep, kept>>

Next == \/ \E f \in Files : ReadDir(f)
        \/ DirRead \/ OpenFails \/ ReadTail \/ KeepLine \/ Emit

Spec == Init /\ [][Next]_vars /\ WF_vars(Next)

-----------------------------------------------------------------------------
\* The lines of a text that are not empty: each from where to where it reaches.
LinesOf(text) ==
  {l \in [from : 0 .. Len(text), to : 0 .. Len(text)] :
     /\ l.from < l.to
     /\ \A i \in l.from + 1 .. l.to : text[i] # LF
     /\ l.from = 0 \/ text[l.from] = LF
     /\ l.to = Len(text) \/ text[l.to + 1] = LF}

\* What is replayed are lines of the log, each of them whole and in order, with
\* none left out after the first of them; and unless there are KeepLines of them,
\* they are all that begin in the tail that was read.
TailIsReplayed ==
  (at = "returned" /\ best # NoFile) =>
    LET text == dir[best].text IN
      \E replayed \in [DOMAIN emitted -> LinesOf(text)] :
        /\ \A k \in DOMAIN emitted :
             emitted[k] = SubSeq(text, replayed[k].from + 1, replayed[k].to)
        /\ \A k, l \in DOMAIN emitted : k < l => replayed[k].from < replayed[l].from
        /\ \A l \in LinesOf(text) :
             \/ \E k \in DOMAIN emitted : replayed[k] = l
             \/ /\ \A k \in DOMAIN emitted : l.from < replayed[k].from
                /\ \/ Len(emitted) = KeepLines
                   \/ TailStart(text) # 0 /\ l.from <= TailStart(text)

\* The replayed log is the newest of those whose time is known, and not the one
\* being written.
NewestIsReplayed ==
  at # "readdir" =>
    /\ best # Self
    /\ \A f \in DOMAIN dir \ {Self} :
         dir[f].time # NoTime => best # NoFile /\ dir[f].time <= dir[best].time
=============================================================================
