------------------------------- MODULE X25519 -------------------------------
(***************************************************************************)
(* The key agreement of the retired core (x25519_public_key,               *)
(* x25519_shared_secret, x25519_scalar_mult of portable_crypto.cpp): two   *)
(* sides derive their public keys, exchange them and derive the secret,    *)
(* each by a Montgomery ladder that takes a bit of the scalar per step.    *)
(*                                                                         *)
(* The ladder runs on numbers modulo P: FieldElements checks that the limbs*)
(* compute them.  The last product and the encoding are done on limbs.     *)
(* ScalarBits is 255 in the code, and odd here too.  The clamping clears   *)
(* the low bits and sets the top one.                                      *)
(*                                                                         *)
(* An operator introduced as a mutant is no part of the specification: it  *)
(* is the next definition with a plausible bug, and breaks a property.     *)
(***************************************************************************)
EXTENDS FieldElements

CONSTANTS ScalarBits, \* 255
          LowBits,    \* 3: the bits e[0] &= 248 clears
          BasePoint,  \* 9
          Privates    \* the private keys the two sides draw

\* What is assumed of the constants.
ScalarAssumption ==
  /\ ScalarBits \in Nat /\ LowBits \in 0 .. ScalarBits - 1
  /\ Privates \subseteq 0 .. 2^(ScalarBits + 1) - 1 /\ BasePoint \in 0 .. P - 1

VARIABLES
  private, \* the private key of each side
  call,    \* the calls to x25519_scalar_mult: 1 to 4, then 5
  pos,     \* of the loop, or -1 after it
  swap,
  x2, z2, x3, z3,
  result   \* what each call returned: the coordinate and its encoding

vars == <<private, call, pos, swap, x2, z2, x3, z3, result>>
ladder == <<swap, x2, z2, x3, z3>>

Calls == 1 .. 4

\* Calls 1 and 2 derive the public keys, 3 and 4 the secret at each side.
Side(c)  == IF c \in {1, 3} THEN 1 ELSE 2
Other(s) == 3 - s

None == [x |-> 0, bytes |-> 0]

\* The point a call is given: the base point, or the other side's public key.
Point(c) == IF c \in {1, 2} THEN BasePoint ELSE result[Other(Side(c))].bytes

Clamped(k) ==
  ((k % 2^(ScalarBits - 1)) \div 2^LowBits) * 2^LowBits + 2^(ScalarBits - 1)

Bit(k, i) == (k \div 2^i) % 2

\* The ladder's x1, as fe_frombytes reads it.
X1(c) == Value(fe_frombytes(Point(c)))

Mul(a, b) == (a * b) % P
Sq(a)     == Mul(a, a)
Sub(a, b) == (a - b) % P
Add(a, b) == (a + b) % P

Init ==
  /\ private \in [1 .. 2 -> Privates]
  /\ call = 1 /\ pos = ScalarBits - 1 /\ swap = 0
  /\ x2 = 1 /\ z2 = 0 /\ x3 = X1(1) /\ z3 = 1
  /\ result = [c \in Calls |-> None]

-----------------------------------------------------------------------------
\* One round on the pairs (x2, z2) and (x3, z3) after the conditional swap:
\* the first is doubled, the second becomes their sum, with x1 the difference.
Round(x1, u2, w2, u3, w3) ==
  LET tmp0 == Sub(u3, w3)
      tmp1 == Sub(u2, w2)
      sum2 == Add(u2, w2)
      da   == Mul(tmp0, sum2)
      cb   == Mul(Add(u3, w3), tmp1)
      bb   == Sq(tmp1)
      aa   == Sq(sum2)
      e    == Sub(aa, bb)
  IN  /\ x2' = Mul(aa, bb)
      /\ z2' = Mul(e, Add(bb, Mul(121666 % P, e)))
      /\ x3' = Sq(Add(da, cb))
      /\ z3' = Mul(x1, Sq(Sub(da, cb)))

\* Mutant: only the first coordinates are swapped.
LadderStepSwapsHalf ==
  /\ call \in Calls /\ pos >= 0
  /\ LET b  == Bit(Clamped(private[Side(call)]), pos)
         px == fe_cswap(<<x2, x3>>, (swap + b) % 2)
     IN  Round(X1(call), px[1], z2, px[2], z3) /\ swap' = b
  /\ pos' = pos - 1
  /\ UNCHANGED <<private, call, result>>

LadderStep ==
  /\ call \in Calls /\ pos >= 0
  /\ LET b  == Bit(Clamped(private[Side(call)]), pos)
         px == fe_cswap(<<x2, x3>>, (swap + b) % 2)
         pz == fe_cswap(<<z2, z3>>, (swap + b) % 2)
     IN  Round(X1(call), px[1], pz[1], px[2], pz[2]) /\ swap' = b
  /\ pos' = pos - 1
  /\ UNCHANGED <<private, call, result>>

\* fe_invert: the inverse, and 0 for 0 (module Inversion).
fe_invert(z) ==
  LET power[e \in 0 .. P - 2] ==
        IF e = 0 THEN 1
        ELSE IF e % 2 = 0 THEN Sq(power[e \div 2]) ELSE Mul(z, power[e - 1])
  IN  power[P - 2]

\* The last swap, the division and the encoding; the next call starts.
Finish ==
  /\ call \in Calls /\ pos = -1
  /\ LET x == fe_cswap(<<x2, x3>>, swap)[1]
         z == fe_cswap(<<z2, z3>>, swap)[1]
         q == fe_mul(Digits(x), Digits(fe_invert(z)))
     IN  result' = [result EXCEPT ![call] = [x |-> Value(q), bytes |-> fe_tobytes(q)]]
  /\ call' = call + 1
  /\ pos' = ScalarBits - 1 /\ swap' = 0
  /\ x2' = 1 /\ z2' = 0 /\ z3' = 1
  /\ x3' = IF call = 4 THEN 0 ELSE X1(call)'
  /\ UNCHANGED private

Next == LadderStep \/ Finish

Spec == Init /\ [][Next]_vars

-----------------------------------------------------------------------------
(***************************************************************************)
(* What the ladder should compute: the coordinate of k times a point, from *)
(* the curve's doubling and differential addition alone.                   *)
(***************************************************************************)

Doubled(p) ==
  LET aa == Sq(Add(p[1], p[2]))
      bb == Sq(Sub(p[1], p[2]))
      e  == Sub(aa, bb)
  IN  <<Mul(aa, bb), Mul(e, Add(bb, Mul(121666 % P, e)))>>

Added(p, q, x) ==
  LET u == Mul(Sub(p[1], p[2]), Add(q[1], q[2]))
      v == Mul(Add(p[1], p[2]), Sub(q[1], q[2]))
  IN  <<Sq(Add(u, v)), Mul(x, Sq(Sub(u, v)))>>

Multiple(k, x) ==
  LET m[n \in Nat] ==
        IF n = 0 THEN <<1, 0>>
        ELSE IF n = 1 THEN <<x, 1>>
        ELSE IF n % 2 = 0 THEN Doubled(m[n \div 2])
        ELSE Added(m[n \div 2], m[n \div 2 + 1], x)
  IN  m[k]

Affine(p) == Mul(p[1], fe_invert(p[2]))

\* The same point, of which any multiple of the two coordinates is given.
Same(p, q) == p # <<0, 0>> /\ Mul(p[1], q[2]) = Mul(q[1], p[2])

\* Whatever the swaps select, the two points of the ladder stay neighbours: the
\* m-th and the next multiple of the point given, in one order or the other,
\* with m below 2 to the number of rounds done; that is what the difference x1 of
\* the addition rests on.  And a call divides one of them, and no other point.
LadderMultiplies ==
  /\ call \in Calls =>
       \E m \in 0 .. 2^(ScalarBits - 1 - pos) - 1 :
         LET low  == Multiple(m, X1(call))
             high == Multiple(m + 1, X1(call))
         IN  \/ Same(<<x2, z2>>, low) /\ Same(<<x3, z3>>, high)
             \/ Same(<<x2, z2>>, high) /\ Same(<<x3, z3>>, low)
  /\ \A c \in 1 .. call - 1 :
       \E m \in 0 .. 2^ScalarBits : result[c].x = Affine(Multiple(m, X1(c)))

\* portable_crypto.h: "X25519 - RFC 7748", whose function multiplies the point by
\* the clamped private key and encodes the coordinate below P.
FollowsRfc7748 ==
  \A c \in 1 .. call - 1 :
    result[c].bytes = Affine(Multiple(Clamped(private[Side(c)]), X1(c)))

=============================================================================
