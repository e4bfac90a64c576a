--------------------------- MODULE NaturalsLemmas ---------------------------
(***************************************************************************)
(* Induction on the natural numbers, stated of a set of numbers instead of *)
(* a predicate, and functions defined by recursion.  It rests on the       *)
(* strict inclusion of finite sets being well founded: of a non-empty set  *)
(* of numbers n, look at the intervals 0 .. n, of which one is minimal.    *)
(***************************************************************************)
EXTENDS Integers, FiniteSetTheorems, WellFoundedInduction, TLAPS

\* Every non-empty set of natural numbers has a least element.
LEMMA LeastNatural ==
  ASSUME NEW X \in SUBSET Nat, X # {}
  PROVE  \E n \in X : \A m \in X : n <= m
<1> DEFINE T == {0 .. n : n \in X}
<1>1. T # {}
  OBVIOUS
<1>2. ASSUME NEW n \in X
      PROVE  0 .. n \in FiniteSubsetsOf(Nat)
  <2>1. IsFiniteSet(0 .. n)
    BY FS_Interval
  <2>2. 0 .. n \subseteq Nat
    OBVIOUS
  <2>3. QED
    BY <2>1, <2>2 DEF FiniteSubsetsOf
<1>3. T \subseteq FiniteSubsetsOf(Nat)
  BY <1>2
<1>4. IsWellFoundedOn(StrictSubsetOrdering(Nat), FiniteSubsetsOf(Nat))
  BY FS_StrictSubsetOrderingWellFounded
<1>5. PICK s \in T : \A t \in T : <<t, s>> \notin StrictSubsetOrdering(Nat)
  <2> HIDE DEF T
  <2>1. QED
    BY <1>1, <1>3, <1>4, WFMin
<1>6. PICK n \in X : s = 0 .. n
  OBVIOUS
<1>7. ASSUME NEW m \in X, m < n
      PROVE  FALSE
  <2>1. 0 .. m \subseteq 0 .. n /\ n \in 0 .. n /\ n \notin 0 .. m
    BY <1>7
  <2>2. <<0 .. m, s>> \in StrictSubsetOrdering(Nat)
    BY <2>1, <1>6 DEF StrictSubsetOrdering
  <2>3. QED
    BY <2>2, <1>5
<1>8. QED
  BY <1>7

\* A set of natural numbers that has 0, and with a number the next one, has all.
LEMMA Induction ==
  ASSUME NEW S \in SUBSET Nat, 0 \in S, \A n \in S : n + 1 \in S
  PROVE  S = Nat
<1>1. SUFFICES ASSUME Nat \ S # {}
               PROVE  FALSE
  OBVIOUS
<1>2. PICK n \in Nat \ S : \A m \in Nat \ S : n <= m
  <2>1. Nat \ S \in SUBSET Nat
    OBVIOUS
  <2>2. QED
    BY <1>1, <2>1, LeastNatural
<1>3. n - 1 \in S
  BY <1>2
<1>4. QED
  BY <1>2, <1>3

\* A function on the numbers up to n, from its first value and each value from
\* the one before.
Recursion(V, v, n, step) ==
  \E u \in [0 .. n -> V] : /\ u[0] = v
                           /\ \A i \in 1 .. n : u[i] = step[i][u[i - 1]]

\* There is one.
LEMMA RecursionExists ==
  ASSUME NEW V, NEW v \in V, NEW n \in Nat, NEW step \in [1 .. n -> [V -> V]]
  PROVE  Recursion(V, v, n, step)
<1> DEFINE Defines(m, u) == /\ u[0] = v
                           /\ \A i \in 1 .. m : u[i] = step[i][u[i - 1]]
           S == {m \in Nat : m <= n => \E u \in [0 .. m -> V] : Defines(m, u)}
<1>1. 0 \in S
  <2>1. [i \in 0 .. 0 |-> v] \in [0 .. 0 -> V] /\ Defines(0, [i \in 0 .. 0 |-> v])
    OBVIOUS
  <2>2. QED
    BY <2>1
<1>2. ASSUME NEW m \in S, m + 1 <= n
      PROVE  \E u \in [0 .. m + 1 -> V] : Defines(m + 1, u)
  <2>1. m \in Nat /\ m + 1 \in 1 .. n
    BY <1>2
  <2>2. PICK w \in [0 .. m -> V] : Defines(m, w)
    BY <1>2, <2>1
  <2> DEFINE next == step[m + 1][w[m]]
             u == [i \in 0 .. m + 1 |-> IF i = m + 1 THEN next ELSE w[i]]
  <2>3. next \in V
    BY <2>1, <2>2
  <2> HIDE DEF next
  <2>4. /\ u \in [0 .. m + 1 -> V] /\ u[m + 1] = next
        /\ \A i \in 0 .. m : u[i] = w[i]
    BY <2>1, <2>2, <2>3
  <2> HIDE DEF u
  <2>5. u[0] = v
    BY <2>1, <2>2, <2>4
  <2>6. ASSUME NEW i \in 1 .. m + 1
        PROVE  u[i] = step[i][u[i - 1]]
    <3>1. CASE i = m + 1
      <4>1. u[i] = step[m + 1][w[m]]
        BY <2>4, <3>1 DEF next
      <4>2. i - 1 = m /\ m \in 0 .. m
        BY <2>1, <3>1
      <4>3. u[i - 1] = w[m]
        BY <2>4, <4>2, Zenon
      <4>4. QED
        BY <3>1, <4>1, <4>3, Zenon
    <3>2. CASE i # m + 1
      <4>1. i \in 1 .. m /\ i \in 0 .. m /\ i - 1 \in 0 .. m
        BY <2>1, <3>2
      <4>2. QED
        BY <2>2, <2>4, <4>1
    <3>3. QED
      BY <3>1, <3>2
  <2>7. QED
    BY <2>4, <2>5, <2>6
<1>3. \A m \in S : m + 1 \in S
  BY <1>2
<1>4. S = Nat
  <2> HIDE DEF S
  <2>1. S \in SUBSET Nat
    BY DEF S
  <2>2. QED
    BY <1>1, <1>3, <2>1, Induction
<1>5. n \in S
  BY <1>4
<1>6. QED
  BY <1>5 DEF Recursion

\* A function on all numbers, from its first value and each value from the one
\* before.
Recursive(V, v, step) ==
  \E u \in [Nat -> V] : u[0] = v /\ \A i \in Nat : u[i + 1] = step[i][u[i]]

LEMMA RecursiveExists ==
  ASSUME NEW V, NEW v \in V, NEW step \in [Nat -> [V -> V]]
  PROVE  Recursive(V, v, step)
<1> DEFINE Defines(n, w) == /\ w[0] = v
                           /\ \A i \in 1 .. n : w[i] = step[i - 1][w[i - 1]]
           W(n) == CHOOSE w \in [0 .. n -> V] : Defines(n, w)
           u == [n \in Nat |-> W(n)[n]]
<1>1. ASSUME NEW n \in Nat
      PROVE  W(n) \in [0 .. n -> V] /\ Defines(n, W(n))
  <2> DEFINE part == [i \in 1 .. n |-> step[i - 1]]
  <2>1. part \in [1 .. n -> [V -> V]] /\ \A i \in 1 .. n : part[i] = step[i - 1]
    OBVIOUS
  <2> HIDE DEF part
  <2>2. Recursion(V, v, n, part)
    BY <2>1, RecursionExists
  <2>3. PICK w \in [0 .. n -> V] : w[0] = v /\ \A i \in 1 .. n : w[i] = part[i][w[i - 1]]
    BY <2>2 DEF Recursion
  <2>4. Defines(n, w)
    BY <2>1, <2>3
  <2>5. QED
    BY <2>4, Zenon
<1>2. ASSUME NEW n \in Nat, NEW w, NEW x, Defines(n, w), Defines(n, x), NEW k \in 0 .. n
      PROVE  w[k] = x[k]
  <2> DEFINE S == {m \in Nat : m <= n => w[m] = x[m]}
  <2>1. 0 \in S
    BY <1>2
  <2>2. ASSUME NEW m \in S
        PROVE  m + 1 \in S
    <3>1. SUFFICES ASSUME m + 1 <= n
                   PROVE  w[m + 1] = x[m + 1]
      BY <2>2
    <3>2. m + 1 \in 1 .. n /\ (m + 1) - 1 = m /\ w[m] = x[m]
      BY <2>2, <3>1
    <3>3. QED
      BY <1>2, <3>2
  <2> HIDE DEF S
  <2>3. S \in SUBSET Nat
    BY DEF S
  <2>4. S = Nat
    BY <2>1, <2>2, <2>3, Induction
  <2>5. k \in S
    BY <2>4
  <2>6. QED
    BY <2>5 DEF S
<1> HIDE DEF W
<1>3. u \in [Nat -> V]
  BY <1>1
<1>4. u[0] = v
  BY <1>1
<1>5. ASSUME NEW i \in Nat
      PROVE  u[i + 1] = step[i][u[i]]
  <2>1. i + 1 \in Nat /\ i + 1 \in 1 .. i + 1 /\ (i + 1) - 1 = i /\ i \in 0 .. i
    OBVIOUS
  <2>2. Defines(i + 1, W(i + 1)) /\ Defines(i, W(i))
    BY <1>1, <2>1
  <2>3. Defines(i, W(i + 1))
    BY <2>2
  <2>4. W(i + 1)[i] = W(i)[i]
    <3> HIDE DEF Defines
    <3>1. QED
      BY <1>2, <2>1, <2>2, <2>3
  <2>5. W(i + 1)[i + 1] = step[i][W(i + 1)[i]]
    BY <2>1, <2>2
  <2>6. QED
    BY <2>1, <2>4, <2>5
<1>6. QED
  BY <1>3, <1>4, <1>5 DEF Recursive

-----------------------------------------------------------------------------
\* Quotient and remainder, of negative numbers too.
LEMMA DivMod ==
  ASSUME NEW a \in Int, NEW p \in Nat \ {0}
  PROVE  /\ a \div p \in Int /\ a % p \in 0 .. p - 1
         /\ a = p * (a \div p) + (a % p)
BY SMTT(30)

\* There is one remainder.
LEMMA Remainder ==
  ASSUME NEW p \in Nat \ {0}, NEW x \in Int, NEW q \in Int, NEW d \in 0 .. p - 1,
         x = q * p + d
  PROVE  x % p = d
OBVIOUS

\* Numbers that differ by a multiple have one remainder.
LEMMA SameRemainder ==
  ASSUME NEW p \in Nat \ {0}, NEW x \in Int, NEW y \in Int,
         \E k \in Int : x = y + p * k
  PROVE  x % p = y % p
<1>1. y \div p \in Int /\ y % p \in 0 .. p - 1 /\ y = p * (y \div p) + (y % p)
  BY DivMod
<1>2. PICK k \in Int : x = y + p * k
  OBVIOUS
<1>3. x = (y \div p + k) * p + (y % p)
  BY <1>1, <1>2
<1>4. y \div p + k \in Int
  BY <1>1
<1>5. QED
  BY <1>1, <1>3, <1>4, Remainder

\* A number is a multiple of p and its remainder.
LEMMA Split ==
  ASSUME NEW p \in Nat \ {0}, NEW a \in Int
  PROVE  \E i \in Int, m \in Int : a = p * i + m /\ m = a % p
<1>1. a \div p \in Int /\ a % p \in Int /\ a = p * (a \div p) + (a % p)
  BY DivMod
<1>2. QED
  BY <1>1

\* A number without a remainder is a multiple.
LEMMA NoRemainder ==
  ASSUME NEW p \in Nat \ {0}, NEW x \in Nat, x % p = 0
  PROVE  \E q \in Nat : x = p * q
<1>1. x \div p \in Int /\ x = p * (x \div p) + (x % p)
  BY DivMod
<1>2. PICK q \in Int : x = p * q
  BY <1>1
<1>3. q >= 0
  BY <1>2
<1>4. QED
  BY <1>2, <1>3

\* Products and sums of remainders.
LEMMA ProductRemainder ==
  ASSUME NEW p \in Nat \ {0}, NEW a \in Int, NEW b \in Int
  PROVE  (a * b) % p = ((a % p) * (b % p)) % p
<1>1. PICK i \in Int, m \in Int : a = p * i + m /\ m = a % p
  BY Split
<1>2. PICK j \in Int, n \in Int : b = p * j + n /\ n = b % p
  BY Split
<1>3. a * b = m * n + p * (i * b + m * j)
  <2>1. a * b = (p * i + m) * b
    BY <1>1
  <2>2. m * b = m * (p * j + n)
    BY <1>2
  <2>3. QED
    BY <2>1, <2>2
<1>4. i * b + m * j \in Int /\ a * b \in Int /\ m * n \in Int
  OBVIOUS
<1>5. (a * b) % p = (m * n) % p
  BY <1>3, <1>4, SameRemainder
<1>6. QED
  BY <1>1, <1>2, <1>5

LEMMA SumRemainder ==
  ASSUME NEW p \in Nat \ {0}, NEW a \in Int, NEW b \in Int
  PROVE  /\ (a + b) % p = ((a % p) + (b % p)) % p
         /\ (a - b) % p = ((a % p) - (b % p)) % p
<1>1. PICK i \in Int, m \in Int : a = p * i + m /\ m = a % p
  BY Split
<1>2. PICK j \in Int, n \in Int : b = p * j + n /\ n = b % p
  BY Split
<1>3. a + b = (m + n) + p * (i + j) /\ a - b = (m - n) + p * (i - j)
  BY <1>1, <1>2
<1>4. /\ i + j \in Int /\ a + b \in Int /\ m + n \in Int
      /\ i - j \in Int /\ a - b \in Int /\ m - n \in Int
  OBVIOUS
<1>5. (a + b) % p = (m + n) % p
  <2>1. \E k \in Int : a + b = (m + n) + p * k
    BY <1>3, <1>4, Zenon
  <2>2. QED
    BY <2>1, <1>4, SameRemainder, Zenon
<1>6. (a - b) % p = (m - n) % p
  <2>1. \E k \in Int : a - b = (m - n) + p * k
    BY <1>3, <1>4, Zenon
  <2>2. QED
    BY <2>1, <1>4, SameRemainder, Zenon
<1>7. QED
  BY <1>1, <1>2, <1>5, <1>6
=============================================================================
