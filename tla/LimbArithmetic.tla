--------------------------- MODULE LimbArithmetic ---------------------------
(***************************************************************************)
(* Numbers modulo Radix^5 - Fold as five limbs, which fe_mul of X25519     *)
(* (2^51, 19) and processBlock of Poly1305 (2^26, 5) multiply alike        *)
(* (cpp/src/utils/portable_crypto.cpp).                                    *)
(*                                                                         *)
(* An operator introduced as a mutant is no part of the specification: it  *)
(* is the next definition with a plausible bug, and breaks a property.     *)
(***************************************************************************)
EXTENDS Integers, Sequences, FiniteSetsExt, SequencesExt

CONSTANTS Radix, \* one more than the largest reduced limb
          Fold   \* what a carry out of the top limb is worth in limb 0

Limbs == 0 .. 4
Span  == Radix * Radix * Radix * Radix * Radix
P     == Span - Fold

\* What is assumed of the constants.
LimbAssumption == Radix \in Nat \ {0} /\ Fold \in Nat \ {0} /\ P > 0

\* Powers of two: what the provers can be told of is a function.
Power2[n \in Nat] == IF n = 0 THEN 1 ELSE 2 * Power2[n - 1]

\* The number that limbs stand for, that modulo P, and the digits of a number.
Number(h) == h[0] + Radix * (h[1] + Radix * (h[2] + Radix * (h[3] + Radix * h[4])))
Value(h)  == Number(h) % P
Digits(n) ==
  LET Up(m) == m \div Radix
  IN  [i \in Limbs |->
         <<n, Up(n), Up(Up(n)), Up(Up(Up(n))), Up(Up(Up(Up(n))))>>[i + 1] % Radix]

\* The carries out of the limbs of a product, and what they leave.
Carries(t) ==
  LET c[i \in Limbs] == (t[i] + IF i = 0 THEN 0 ELSE c[i - 1]) \div Radix IN c
Kept(t) ==
  [i \in Limbs |-> (t[i] + IF i = 0 THEN 0 ELSE Carries(t)[i - 1]) % Radix]

\* Mutant: the carry out of the top limb comes back unmultiplied.
CarriedUnfolded(t) ==
  LET h0 == Kept(t)[0] + Carries(t)[4]
  IN  [Kept(t) EXCEPT ![0] = h0 % Radix, ![1] = @ + h0 \div Radix]

\* The carries after a product: once around, and from limb 0 once more.
Carried(t) ==
  LET h0 == Kept(t)[0] + Carries(t)[4] * Fold
  IN  [Kept(t) EXCEPT ![0] = h0 % Radix, ![1] = @ + h0 \div Radix]

\* The product, what is beyond the top limb folded back.
Product(f, g) ==
  LET Term(i, k) == f[i] * IF i <= k THEN g[k - i] ELSE Fold * g[k + 5 - i]
  IN  [k \in Limbs |-> Term(0, k) + Term(1, k) + Term(2, k) + Term(3, k) + Term(4, k)]

\* Words of a width, bit by bit from the lowest one: x | y, and x ^ y.
OnBits(Op(_, _), x, y, width) ==
  LET word[n \in Nat] ==
        [p \in Nat \X Nat |->
           IF n = 0 THEN 0
           ELSE Op(p[1] % 2, p[2] % 2) + 2 * word[n - 1][<<p[1] \div 2, p[2] \div 2>>]]
  IN  word[width][<<x, y>>]

BitOr(x, y, width)  == OnBits(LAMBDA a, b : IF a + b > 0 THEN 1 ELSE 0, x, y, width)
BitXor(x, y, width) == OnBits(LAMBDA a, b : (a + b) % 2, x, y, width)
=============================================================================
