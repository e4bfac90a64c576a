--------------------------- MODULE FieldElements ---------------------------
(***************************************************************************)
(* The field arithmetic of X25519 (cpp/src/utils/portable_crypto.cpp,      *)
(* "5-limb radix 2^51 representation"): a field element is five signed     *)
(* limbs, the number they stand for is read modulo 2^255 - 19.             *)
(*                                                                         *)
(* The widths are parameters: 51-bit limbs, 64-bit words and 19 in the     *)
(* code, 3, 4 and 19 for TLC (2^15 - 19 is a prime as well).  The relations*)
(* between them are the code's: 5 limbs are one bit short of 4 words, and  *)
(* the carries of fe_tobytes (26 and 25 bits) add up to one limb.  A limb  *)
(* has 13 spare bits in the code and is not bounded here.                  *)
(***************************************************************************)
EXTENDS LimbArithmetic

CONSTANTS LimbBits,  \* 51
          WordBits,  \* 64
          CarryBits  \* 26: what fe_tobytes carries out of an even limb

\* What is assumed of the constants.
WidthAssumption ==
  /\ LimbBits \in Nat /\ WordBits \in Nat /\ CarryBits \in Nat
  /\ Radix = 2^LimbBits
  /\ 5 * LimbBits + 1 = 4 * WordBits
  /\ 2 * CarryBits - 1 = LimbBits

fe_0 == [i \in Limbs |-> 0]

\* The top bit of the 256 is masked off before the limbs are cut.
fe_frombytes(n) == Digits(n % Span)

fe_add(f, g) == [i \in Limbs |-> f[i] + g[i]]
fe_sub(f, g) == [i \in Limbs |-> f[i] - g[i]]

\* mask = b - 1 is all ones for b = 0.
fe_cswap(pair, b) == IF b = 0 THEN <<pair[2], pair[1]>> ELSE pair

fe_mul(f, g)    == Carried(Product(f, g))
fe_sq(f)        == fe_mul(f, f)
fe_mul121666(f) == Carried([i \in Limbs |-> 121666 * f[i]])

\* One carry of fe_tobytes, rounding, out of limb i into the next.
CarryOut(h, i) ==
  LET n == IF i % 2 = 0 THEN CarryBits ELSE CarryBits - 1
      q == (h[i] + 2^(n - 1)) \div 2^n
      j == (i + 1) % 5
  IN  [h EXCEPT ![i] = @ - q * 2^n, ![j] = @ + q * (IF i = 4 THEN Fold ELSE 1)]

\* Carries twice around, then the limbs, taken as unsigned words, are put
\* together into four words; the top bit of the last is cleared.
fe_tobytes(h) ==
  LET c    == FoldLeft(CarryOut, h, <<0, 1, 2, 3, 4, 0, 1, 2, 3, 4, 0>>)
      W    == 2^WordBits
      b(i) == c[i] % W
      word(i) == BitOr(b(i) \div 2^(i * (WordBits - LimbBits)),
                       b(i + 1) * 2^((i + 1) * LimbBits - i * WordBits), WordBits)
  IN  word(0) + W * word(1) + W^2 * word(2) + W^3 * (word(3) % 2^(WordBits - 1))
=============================================================================
