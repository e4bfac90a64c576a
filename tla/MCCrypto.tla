------------------------------ MODULE MCCrypto ------------------------------
(***************************************************************************)
(* The two primitives of cpp/src/utils/portable_crypto.cpp that a tunnel   *)
(* needs, side by side: a key agreement (X25519) and a sealed message      *)
(* (Aead), each with one input, against the RFCs that portable_crypto.h    *)
(* names.                                                                  *)
(***************************************************************************)
EXTENDS Integers

CONSTANTS
  MacRadix, MacFold, LimbWidth, BlockBytes, ByteBits, ChunkBytes, \* of Aead
  MaxAad, MaxLen,
  Radix, Fold, LimbBits, WordBits, CarryBits,                     \* of FieldElements
  ScalarBits, LowBits, BasePoint                                  \* of X25519

\* A key of each side, a one-time key, and messages of one byte.
Privates == {77}
Rs    == {943}
Pads  == {262143}
Bytes == {63}

VARIABLES private, call, pos, swap, x2, z2, x3, z3, result
VARIABLES aad, text, r, pad, at, blocks, mac, counter, cipher, tag, altered, plain

ladderVars == <<private, call, pos, swap, x2, z2, x3, z3, result>>
sealVars == <<aad, text, r, pad, at, blocks, mac, counter, cipher, tag, altered, plain>>
vars == <<ladderVars, sealVars>>

Ladder == INSTANCE X25519
Seal == INSTANCE Aead WITH Radix <- MacRadix, Fold <- MacFold

Init == Ladder!Init /\ Seal!Init

Next == \/ Ladder!Next /\ UNCHANGED sealVars
        \/ Seal!Next /\ UNCHANGED ladderVars

Spec == Init /\ [][Next]_vars

-----------------------------------------------------------------------------
\* portable_crypto.h: "These implementations follow the relevant RFCs", RFC 7748
\* for X25519 and RFC 8439 for ChaCha20-Poly1305.  This asks for less, that one of
\* the two does: so a counterexample refutes the words about each of them.
OneFollowsItsRfc == Ladder!FollowsRfc7748 \/ Seal!TagIsRfc8439
=============================================================================
