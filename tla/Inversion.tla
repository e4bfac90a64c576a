----------------------------- MODULE Inversion -----------------------------
(***************************************************************************)
(* fe_invert (cpp/src/utils/portable_crypto.cpp): the inverse of z as a    *)
(* power of z, by a fixed chain of squarings and products.                 *)
(*                                                                         *)
(* A register holds a power of z; it is modelled by its exponent, and that *)
(* by the set of its bits: squaring shifts it.  Every product of the chain *)
(* adds exponents without a common bit (NoCarry), which is then a union.   *)
(*                                                                         *)
(* An operator introduced as a mutant is no part of the specification: it  *)
(* is the next definition with a plausible bug, and breaks a property.     *)
(***************************************************************************)
EXTENDS Integers, Sequences

VARIABLES reg,  \* the bits of the exponent in each register
          line, \* of the chain
          left  \* how many squarings are left of this line

vars == <<reg, line, left>>

\* A line of the chain: d becomes a * b, or a squared once and then n - 1
\* times more in place.
Product(d, a, b)  == [d |-> d, a |-> a, b |-> b, n |-> 1]
Squares(d, a, n)  == [d |-> d, a |-> a, b |-> a, n |-> n]

\* Mutant: a loop of squarings ends one early.
LoopShort(k) == k - 1

\* A squaring into the register and for (i = 1; i < k; ++i) in place.
Loop(k) == k

Beginning == <<
  Squares("t0", "z", 1),           Squares("t1", "t0", 2),          Product("t1", "z", "t1"),
  Product("t0", "t0", "t1"),       Squares("t2", "t0", 1),          Product("t1", "t1", "t2"),
  Squares("t2", "t1", Loop(5)),    Product("t1", "t2", "t1"),
  Squares("t2", "t1", Loop(10)),   Product("t2", "t2", "t1"),
  Squares("t3", "t2", Loop(20)),   Product("t2", "t3", "t2"),
  Squares("t2", "t2", Loop(10)),   Product("t1", "t2", "t1"),
  Squares("t2", "t1", Loop(50)),   Product("t2", "t2", "t1"),
  Squares("t3", "t2", Loop(100)),  Product("t2", "t3", "t2"),
  Squares("t2", "t2", Loop(50)),   Product("t1", "t2", "t1") >>

Ending == << Squares("t1", "t1", Loop(5)), Product("out", "t1", "t0") >>

Chain == Beginning \o Ending

Init ==
  /\ reg = [r \in {"z", "t0", "t1", "t2", "t3", "out"} |-> IF r = "z" THEN {0} ELSE {}]
  /\ line = 1 /\ left = Chain[1].n

Shift(bits) == {b + 1 : b \in bits}

Advance ==
  IF left > 1 THEN left' = left - 1 /\ UNCHANGED line
  ELSE /\ line' = line + 1
       /\ left' = IF line = Len(Chain) THEN 0 ELSE Chain[line + 1].n

Square ==
  /\ line <= Len(Chain)
  /\ LET c == Chain[line]
     IN  /\ c.a = c.b
         /\ reg' = [reg EXCEPT ![c.d] = Shift(reg[IF left = c.n THEN c.a ELSE c.d])]
  /\ Advance

Multiply ==
  /\ line <= Len(Chain)
  /\ LET c == Chain[line]
     IN  /\ c.a # c.b
         /\ reg' = [reg EXCEPT ![c.d] = reg[c.a] \cup reg[c.b]]
  /\ Advance

Next == Square \/ Multiply

Spec == Init /\ [][Next]_vars

-----------------------------------------------------------------------------
\* The two factors of a product share no bit: the union is the sum.
NoCarry ==
  line <= Len(Chain) =>
    LET c == Chain[line] IN c.a # c.b => reg[c.a] \cap reg[c.b] = {}

\* The chain raises z to 2^255 - 21, which is P - 2: by Fermat's theorem the
\* inverse of z, and 0 for 0.  In bits: all of 0 to 254 but 2 and 4.
PowerIsInverse == line > Len(Chain) => reg["out"] = (0 .. 254) \ {2, 4}
=============================================================================
