------------------------------- MODULE Sha256 -------------------------------
(***************************************************************************)
(* The hash context of the retired core (struct Sha256 of                  *)
(* cpp/src/utils/portable_crypto.cpp): a message given to update in two    *)
(* calls, as hmac_sha256 does, and final.  What is modelled is which bytes *)
(* reach the compression function, in which words; its 64 rounds are not.  *)
(*                                                                         *)
(* A block has BlockBytes bytes (64 in the code), a word WordBytes (4), the*)
(* length at the end LengthBytes (8).                                      *)
(*                                                                         *)
(* An operator introduced as a mutant is no part of the specification: it  *)
(* is the next definition with a plausible bug, and breaks a property.     *)
(***************************************************************************)
EXTENDS Naturals, Sequences, SequencesExt

CONSTANTS BlockBytes, WordBytes, LengthBytes,
          MaxLen \* the longest message

\* What is assumed of the constants.
ShaAssumption ==
  /\ BlockBytes \in Nat /\ WordBytes \in Nat \ {0} /\ BlockBytes % WordBytes = 0
  /\ LengthBytes \in 1 .. BlockBytes - 1 /\ MaxLen \in Nat

VARIABLES
  calls,      \* the lengths of the two calls of update
  at,         \* "update 1", "update 2", "pad", "zeros", "length" or "done"
  left,       \* how many bytes of this call are left
  totalBytes,
  buffer,
  bitLen,     \* of final, in bytes
  blocks,     \* what compress was given
  words       \* w[0] to w[15] of every block, the highest byte first

vars == <<calls, at, left, totalBytes, buffer, bitLen, blocks, words>>

\* A byte given to compress: the i-th of the message, the 0x80 or a zero of the
\* padding, or the j-th of the length n, the highest first.
DataByte(i)  == <<"data", i>>
One          == <<"one">>
Zero         == <<"zero">>
LengthOf(n)  == [j \in 1 .. LengthBytes |-> <<"length", n, j>>]

\* load32_le of the k-th word of a block, and the words w[0] to w[15].
load32_le(block, k) == Reverse(SubSeq(block, (k - 1) * WordBytes + 1, k * WordBytes))

Words(block) == [k \in 1 .. BlockBytes \div WordBytes |-> load32_le(block, k)]

Init ==
  /\ calls \in [1 .. 2 -> 0 .. MaxLen] /\ calls[1] + calls[2] <= MaxLen
  /\ at = "update 1" /\ left = calls[1]
  /\ totalBytes = calls[1] /\ buffer = <<>> /\ bitLen = 0
  /\ blocks = <<>> /\ words = <<>>

\* The bytes go to the buffer, and a full buffer to compress.
Buffered(bytes) ==
  LET full == buffer \o bytes
  IN  IF Len(full) = BlockBytes
      THEN /\ buffer' = <<>> /\ blocks' = Append(blocks, full)
           /\ words' = Append(words, Words(full))
      ELSE buffer' = full /\ UNCHANGED <<blocks, words>>

\* Mutant: the rest of a call that fills the buffer is forgotten.
UpdateDropsRest ==
  /\ at \in {"update 1", "update 2"} /\ left > 0
  /\ LET room == BlockBytes - Len(buffer)
         take == IF room > left THEN left ELSE room
         from == totalBytes - left
     IN  Buffered([i \in 1 .. take |-> DataByte(from + i)]) /\ left' = 0
  /\ UNCHANGED <<calls, at, totalBytes, bitLen>>

\* One turn of update's loop.
Update ==
  /\ at \in {"update 1", "update 2"} /\ left > 0
  /\ LET room == BlockBytes - Len(buffer)
         take == IF room > left THEN left ELSE room
         from == totalBytes - left
     IN  Buffered([i \in 1 .. take |-> DataByte(from + i)]) /\ left' = left - take
  /\ UNCHANGED <<calls, at, totalBytes, bitLen>>

SecondUpdate ==
  /\ at = "update 1" /\ left = 0
  /\ at' = "update 2" /\ left' = calls[2] /\ totalBytes' = totalBytes + calls[2]
  /\ UNCHANGED <<calls, buffer, bitLen, blocks, words>>

\* final: the length is taken before the padding counts as well.
Final ==
  /\ at = "update 2" /\ left = 0
  /\ bitLen' = totalBytes /\ at' = "pad"
  /\ UNCHANGED <<calls, left, totalBytes, buffer, blocks, words>>

Pad ==
  /\ at = "pad"
  /\ Buffered(<<One>>) /\ totalBytes' = totalBytes + 1
  /\ at' = "zeros"
  /\ UNCHANGED <<calls, left, bitLen>>

Zeros ==
  /\ at = "zeros"
  /\ IF Len(buffer) # BlockBytes - LengthBytes
     THEN Buffered(<<Zero>>) /\ totalBytes' = totalBytes + 1 /\ UNCHANGED at
     ELSE at' = "length" /\ UNCHANGED <<totalBytes, buffer, blocks, words>>
  /\ UNCHANGED <<calls, left, bitLen>>

Length ==
  /\ at = "length"
  /\ Buffered(LengthOf(bitLen))
  /\ at' = "done" /\ left' = 0 /\ totalBytes' = 0
  /\ UNCHANGED <<calls, bitLen>>

Next == Update \/ SecondUpdate \/ Final \/ Pad \/ Zeros \/ Length

Spec == Init /\ [][Next]_vars

-----------------------------------------------------------------------------
\* FIPS 180-4, 5.1.1: the message, a one bit, the fewest zeros that leave the
\* length at the end of a block, and the length.
Padded(n) ==
  LET zeros == CHOOSE z \in 0 .. BlockBytes - 1 : (n + 1 + z + LengthBytes) % BlockBytes = 0
  IN  [i \in 1 .. n |-> DataByte(i)] \o <<One>> \o [z \in 1 .. zeros |-> Zero] \o LengthOf(n)

\* However a message is cut into calls, what has been compressed are the first
\* blocks of its padded form, in order, and at the end all of them.
CompressesThePaddedMessage ==
  LET whole == Padded(calls[1] + calls[2])
  IN  /\ Len(blocks) * BlockBytes <= Len(whole)
      /\ \A k \in DOMAIN blocks :
           blocks[k] = SubSeq(whole, (k - 1) * BlockBytes + 1, k * BlockBytes)
      /\ at = "done" => Len(blocks) * BlockBytes = Len(whole)

\* The buffer never holds a full block between two turns, so memcpy always has
\* room, and final always finds room for the length.
BufferHasRoom ==
  /\ Len(buffer) < BlockBytes
  /\ at = "length" => Len(buffer) + LengthBytes = BlockBytes

=============================================================================
