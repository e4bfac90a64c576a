----------------------------- MODULE CryptoProofs -----------------------------
(***************************************************************************)
(* Proofs about two of the parts of MCAlgorithms, for any constants that   *)
(* fit the assumptions.  The field arithmetic (FieldSafe): fe_add, fe_sub, *)
(* fe_mul, fe_sq and fe_mul121666 compute modulo P on any limbs.  The seal *)
(* (SealSafe, SealOpens): the tag is the polynomial of the blocks,         *)
(* different messages have different blocks, and opening gives back what   *)
(* was sealed.                                                             *)
(***************************************************************************)
EXTENDS MCAlgorithms, NaturalsLemmas, SequenceTheorems

-----------------------------------------------------------------------------
\* A step of another part leaves this one off.
LEMMA OnePart ==
  ASSUME [Next]_vars
  PROVE  /\ part' = part
         /\ part = "log" => Log!Next \/ UNCHANGED logVars
         /\ part = "field" => Field!Next \/ UNCHANGED fieldVars
         /\ part = "sha" => Sha!Next \/ UNCHANGED shaVars
         /\ part = "seal" => Seal!Next \/ UNCHANGED sealVars
         /\ part = "stun" => Stun!Next \/ UNCHANGED stunVars
<1>1. CASE Next
  BY <1>1 DEF Next
<1>2. CASE UNCHANGED vars
  BY <1>2 DEF vars
<1>3. QED
  BY <1>1, <1>2

-----------------------------------------------------------------------------
\* The two parts of a concatenation.
IsJoined(u, s, t) ==
  /\ Len(u) = Len(s) + Len(t)
  /\ \A i \in 1 .. Len(s) : u[i] = s[i]
  /\ \A i \in 1 .. Len(t) : u[Len(s) + i] = t[i]

\* A concatenation is joined of its two parts.
LEMMA Parts ==
  ASSUME NEW S, NEW s \in Seq(S), NEW t \in Seq(S)
  PROVE  s \o t \in Seq(S) /\ IsJoined(s \o t, s, t)
BY DEF IsJoined

\* A slice of a sequence.
LEMMA Slice ==
  ASSUME NEW S, NEW w \in Seq(S), NEW a \in Nat, NEW b \in Nat, NEW c \in Nat,
         b = a + c, b <= Len(w)
  PROVE  /\ SubSeq(w, a + 1, b) \in Seq(S) /\ Len(SubSeq(w, a + 1, b)) = c
         /\ \A j \in 1 .. c : SubSeq(w, a + 1, b)[j] = w[a + j]
BY SMTT(30)

\* When a sequence is a slice of another.
LEMMA SliceIs ==
  ASSUME NEW S, NEW w \in Seq(S), NEW t \in Seq(S), NEW a \in Nat, NEW b \in Nat,
         NEW c \in Nat, b = a + c, b <= Len(w), Len(t) = c,
         \A j \in 1 .. c : t[j] = w[a + j]
  PROVE  t = SubSeq(w, a + 1, b)
<1> DEFINE u == SubSeq(w, a + 1, b)
<1>1. u \in Seq(S) /\ Len(u) = c /\ \A j \in 1 .. c : u[j] = w[a + j]
  BY Slice
<1> HIDE DEF u
<1>2. t = u
  BY <1>1, SeqEqual
<1>3. QED
  BY <1>2 DEF u

-----------------------------------------------------------------------------
(***************************************************************************)
(* LimbArithmetic with its constants as parameters: what is proved of the  *)
(* operators below holds of the field elements and of the accumulator.     *)
(***************************************************************************)
Limbs5 == 0 .. 4
Element == [Limbs5 -> Int]

PIn(radix, fold) == radix * radix * radix * radix * radix - fold
NumberIn(radix, a) ==
  a[0] + radix * (a[1] + radix * (a[2] + radix * (a[3] + radix * a[4])))
ValueIn(radix, fold, a) == NumberIn(radix, a) % PIn(radix, fold)

CarriesIn(radix, t) ==
  LET c[i \in Limbs5] == (t[i] + IF i = 0 THEN 0 ELSE c[i - 1]) \div radix IN c
KeptIn(radix, t) ==
  [i \in Limbs5 |-> (t[i] + IF i = 0 THEN 0 ELSE CarriesIn(radix, t)[i - 1]) % radix]
CarriedIn(radix, fold, t) ==
  LET h0 == KeptIn(radix, t)[0] + CarriesIn(radix, t)[4] * fold
  IN  [KeptIn(radix, t) EXCEPT ![0] = h0 % radix, ![1] = @ + h0 \div radix]
ProductIn(fold, a, b) ==
  LET Term(i, k) == a[i] * IF i <= k THEN b[k - i] ELSE fold * b[k + 5 - i]
  IN  [k \in Limbs5 |-> Term(0, k) + Term(1, k) + Term(2, k) + Term(3, k) + Term(4, k)]

\* The operators of both instances of LimbArithmetic are those above.
LEMMA BothInstances ==
  /\ Field!Limbs = Limbs5 /\ Field!P = PIn(Radix, Fold)
  /\ \A t : /\ Field!Carried(t) = CarriedIn(Radix, Fold, t)
            /\ Field!Number(t) = NumberIn(Radix, t) /\ Field!Value(t) = ValueIn(Radix, Fold, t)
  /\ \A a, b : Field!Product(a, b) = ProductIn(Fold, a, b)
  /\ Seal!Limbs = Limbs5 /\ Seal!P = PIn(MacRadix, MacFold)
  /\ \A t : /\ Seal!Carried(t) = CarriedIn(MacRadix, MacFold, t)
            /\ Seal!Number(t) = NumberIn(MacRadix, t)
            /\ Seal!Value(t) = ValueIn(MacRadix, MacFold, t)
  /\ \A a, b : Seal!Product(a, b) = ProductIn(MacFold, a, b)
<1>1. Field!Limbs = Limbs5 /\ Seal!Limbs = Limbs5
  BY DEF Field!Limbs, Seal!Limbs, Limbs5
<1>2. Field!P = PIn(Radix, Fold) /\ Seal!P = PIn(MacRadix, MacFold)
  BY DEF Field!P, Field!Span, Seal!P, Seal!Span, PIn
<1>3. ASSUME NEW t
      PROVE  /\ Field!Number(t) = NumberIn(Radix, t)
             /\ Field!Value(t) = ValueIn(Radix, Fold, t)
             /\ Seal!Number(t) = NumberIn(MacRadix, t)
             /\ Seal!Value(t) = ValueIn(MacRadix, MacFold, t)
  BY <1>2 DEF Field!Number, Field!Value, Seal!Number, Seal!Value, NumberIn, ValueIn
<1>4. ASSUME NEW t
      PROVE  /\ Field!Carried(t) = CarriedIn(Radix, Fold, t)
             /\ Seal!Carried(t) = CarriedIn(MacRadix, MacFold, t)
  BY DEF Field!Carried, Field!Carries, Field!Kept, Field!Limbs, Seal!Carried, Seal!Carries,
         Seal!Kept, Seal!Limbs, CarriedIn, CarriesIn, KeptIn, Limbs5
<1>5. ASSUME NEW a, NEW b
      PROVE  /\ Field!Product(a, b) = ProductIn(Fold, a, b)
             /\ Seal!Product(a, b) = ProductIn(MacFold, a, b)
  BY DEF Field!Product, Field!Limbs, Seal!Product, Seal!Limbs, ProductIn, Limbs5
<1>6. QED
  BY <1>1, <1>2, <1>3, <1>4, <1>5

LimbsFit(radix, fold) == radix \in Nat \ {0} /\ fold \in Nat \ {0} /\ PIn(radix, fold) > 0

\* What fits is typed.
LEMMA LimbsTyped ==
  ASSUME NEW radix, NEW fold, LimbsFit(radix, fold)
  PROVE  /\ radix \in Nat \ {0} /\ fold \in Nat \ {0} /\ PIn(radix, fold) \in Nat \ {0}
         /\ PIn(radix, fold) = radix * radix * radix * radix * radix - fold
<1>1. radix \in Nat \ {0} /\ fold \in Nat \ {0} /\ PIn(radix, fold) > 0
  BY DEF LimbsFit
<1>2. PIn(radix, fold) = radix * radix * radix * radix * radix - fold
  BY DEF PIn
<1>3. radix * radix * radix * radix * radix \in Int
  BY <1>1
<1>4. QED
  BY <1>1, <1>2, <1>3

\* The field of the key agreement and that of the tag fit.
LEMMA BothFit == LimbsFit(Radix, Fold) /\ LimbsFit(MacRadix, MacFold)
<1>1. Field!LimbAssumption /\ Seal!LimbAssumption
  BY PartsAssumption
<1>2. QED
  BY <1>1, BothInstances DEF LimbsFit, Field!LimbAssumption, Seal!LimbAssumption

\* What the carries out of the limbs t are, one by one.
CarriesOf(radix, c, t) ==
  /\ c \in Element
  /\ c[0] = t[0] \div radix
  /\ \A i \in 1 .. 4 : c[i] = (t[i] + c[i - 1]) \div radix

\* Limbs stand for a number.
LEMMA NumberTyped ==
  ASSUME NEW radix, NEW fold, LimbsFit(radix, fold), NEW a \in Element
  PROVE  NumberIn(radix, a) \in Int
<1>1. a[0] \in Int /\ a[1] \in Int /\ a[2] \in Int /\ a[3] \in Int /\ a[4] \in Int
  BY SMTT(30) DEF Element, Limbs5
<1>2. radix \in Int
  BY LimbsTyped
<1>3. QED
  BY <1>1, <1>2 DEF NumberIn

\* The carries are what the recursion says.
LEMMA CarriesKept ==
  ASSUME NEW radix, NEW fold, LimbsFit(radix, fold), NEW t \in Element
  PROVE  CarriesOf(radix, CarriesIn(radix, t), t)
<1>0. /\ radix \in Nat \ {0} /\ fold \in Nat \ {0} /\ PIn(radix, fold) \in Nat \ {0}
      /\ PIn(radix, fold) = radix * radix * radix * radix * radix - fold
  BY LimbsTyped, Zenon
<1> DEFINE q(c, i) == (t[i] + IF i = 0 THEN 0 ELSE c[i - 1]) \div radix
           c0 == t[0] \div radix
           c1 == (t[1] + c0) \div radix
           c2 == (t[2] + c1) \div radix
           c3 == (t[3] + c2) \div radix
           c4 == (t[4] + c3) \div radix
           w  == [i \in Limbs5 |->
                    IF i = 0 THEN c0 ELSE IF i = 1 THEN c1 ELSE IF i = 2 THEN c2
                    ELSE IF i = 3 THEN c3 ELSE c4]
<1>1. /\ Limbs5 = 0 .. 4
      /\ \A i \in Limbs5 : t[i] \in Int
      /\ 0 \in Limbs5 /\ 1 \in Limbs5 /\ 2 \in Limbs5
      /\ 3 \in Limbs5 /\ 4 \in Limbs5
  BY DEF Element, Limbs5
<1>2. c0 \in Int /\ c1 \in Int /\ c2 \in Int /\ c3 \in Int /\ c4 \in Int
  <2>1. c0 \in Int
    BY <1>1, <1>0
  <2> HIDE DEF c0
  <2>2. c1 \in Int
    BY <1>1, <2>1, <1>0
  <2> HIDE DEF c1
  <2>3. c2 \in Int
    BY <1>1, <2>2, <1>0
  <2> HIDE DEF c2
  <2>4. c3 \in Int
    BY <1>1, <2>3, <1>0
  <2> HIDE DEF c3
  <2>5. c4 \in Int
    BY <1>1, <2>4, <1>0
  <2>6. QED
    BY <2>1, <2>2, <2>3, <2>4, <2>5
<1>3. w[0] = c0 /\ w[1] = c1 /\ w[2] = c2 /\ w[3] = c3 /\ w[4] = c4
  <2> HIDE DEF c0, c1, c2, c3, c4
  <2>1. QED
    BY <1>1
<1>4. w = [i \in Limbs5 |-> q(w, i)]
  <2>1. w = [i \in Limbs5 |-> w[i]]
    OBVIOUS
  <2>2. \A i \in Limbs5 : i = 0 \/ i = 1 \/ i = 2 \/ i = 3 \/ i = 4
    BY <1>1
  <2>3. \A i \in Limbs5 : w[i] = q(w, i)
    <3>1. t[0] + 0 = t[0]
      BY <1>1
    <3>2. w[0] = q(w, 0) /\ w[1] = q(w, 1) /\ w[2] = q(w, 2) /\ w[3] = q(w, 3) /\ w[4] = q(w, 4)
      <4> HIDE DEF w
      <4>1. QED
        BY <1>3, <3>1
    <3> HIDE DEF w, q
    <3>3. QED
      BY <2>2, <3>2
  <2> HIDE DEF w, q
  <2>4. QED
    BY <2>1, <2>3
<1>5. CarriesIn(radix, t) = CHOOSE c : c = [i \in Limbs5 |-> q(c, i)]
  BY DEF CarriesIn
<1>6. PICK c : c = [i \in Limbs5 |-> q(c, i)] /\ CarriesIn(radix, t) = c
  <2> HIDE DEF w, q
  <2>1. QED
    BY <1>4, <1>5
<1>7. \A i \in Limbs5 : c[i] = (t[i] + IF i = 0 THEN 0 ELSE c[i - 1]) \div radix
  BY <1>6
<1>8. c[0] = t[0] \div radix
  BY <1>1, <1>7
<1>9. /\ c[1] = (t[1] + c[0]) \div radix /\ c[2] = (t[2] + c[1]) \div radix
      /\ c[3] = (t[3] + c[2]) \div radix /\ c[4] = (t[4] + c[3]) \div radix
  BY <1>1, <1>7
<1>10. c[0] = c0 /\ c[1] = c1 /\ c[2] = c2 /\ c[3] = c3 /\ c[4] = c4
  BY <1>8, <1>9
<1>11. c \in Element
  <2>1. \A i \in Limbs5 : c[i] \in Int
    <3> HIDE DEF c0, c1, c2, c3, c4
    <3>1. QED
      BY <1>1, <1>2, <1>10
  <2>2. c = [i \in Limbs5 |-> c[i]]
    BY <1>6
  <2> HIDE DEF q
  <2>3. QED
    BY <2>1, <2>2 DEF Element
<1>12. QED
  <2>1. \A i \in 1 .. 4 : c[i] = (t[i] + c[i - 1]) \div radix
    BY <1>1, <1>7
  <2>2. QED
    BY <2>1, <1>6, <1>8, <1>11 DEF CarriesOf

\* The carries and what they leave, limb by limb.
CarryChain(radix, fold, t, res, c, k, d, e) ==
  /\ c \in Element /\ k \in [Limbs5 -> 0 .. radix - 1] /\ d \in Int /\ e \in 0 .. radix - 1
  /\ t[0] = radix * c[0] + k[0]
  /\ t[1] + c[0] = radix * c[1] + k[1]
  /\ t[2] + c[1] = radix * c[2] + k[2]
  /\ t[3] + c[2] = radix * c[3] + k[3]
  /\ t[4] + c[3] = radix * c[4] + k[4]
  /\ k[0] + c[4] * fold = radix * d + e
  /\ res = [i \in Limbs5 |-> IF i = 0 THEN e ELSE IF i = 1 THEN k[1] + d ELSE k[i]]

\* What a carry takes from a limb it gives to the next, the last one folded.
LEMMA CarriedChain ==
  ASSUME NEW radix, NEW fold, LimbsFit(radix, fold), NEW t \in Element
  PROVE  \E c, k, d, e : CarryChain(radix, fold, t, CarriedIn(radix, fold, t), c, k, d, e)
<1>0. /\ radix \in Nat \ {0} /\ fold \in Nat \ {0} /\ PIn(radix, fold) \in Nat \ {0}
      /\ PIn(radix, fold) = radix * radix * radix * radix * radix - fold
  BY LimbsTyped, Zenon
<1> DEFINE c == CarriesIn(radix, t)
           k == KeptIn(radix, t)
           x == k[0] + c[4] * fold
           res == [k EXCEPT ![0] = x % radix, ![1] = @ + x \div radix]
<1>1. /\ c \in Element /\ c[0] = t[0] \div radix
      /\ c[1] = (t[1] + c[0]) \div radix /\ c[2] = (t[2] + c[1]) \div radix
      /\ c[3] = (t[3] + c[2]) \div radix /\ c[4] = (t[4] + c[3]) \div radix
  <2>1. CarriesOf(radix, c, t)
    BY CarriesKept
  <2> HIDE DEF c
  <2>2. QED
    BY <2>1 DEF CarriesOf
<1>2. CarriedIn(radix, fold, t) = res
  BY DEF CarriedIn
<1>3. Limbs5 = 0 .. 4
  BY DEF Limbs5
<1> HIDE DEF c
<1>4. /\ k[0] = t[0] % radix /\ k[1] = (t[1] + c[0]) % radix /\ k[2] = (t[2] + c[1]) % radix
      /\ k[3] = (t[3] + c[2]) % radix /\ k[4] = (t[4] + c[3]) % radix
      /\ k = [i \in Limbs5 |-> k[i]]
  <2>1. k = [i \in Limbs5 |-> (t[i] + IF i = 0 THEN 0 ELSE c[i - 1]) % radix]
    BY DEF KeptIn, c
  <2>2. t[0] + 0 = t[0]
    BY <1>3 DEF Element
  <2> HIDE DEF k
  <2>3. QED
    BY <2>1, <2>2, <1>3
<1> HIDE DEF k
<1>5. /\ t[0] \in Int /\ t[1] \in Int /\ t[2] \in Int /\ t[3] \in Int /\ t[4] \in Int
      /\ c[0] \in Int /\ c[1] \in Int /\ c[2] \in Int /\ c[3] \in Int /\ c[4] \in Int
  BY <1>1, <1>3, SMTT(30) DEF Element
<1>6. /\ k[0] \in 0 .. radix - 1 /\ t[0] = radix * c[0] + k[0]
      /\ k[1] \in 0 .. radix - 1 /\ t[1] + c[0] = radix * c[1] + k[1]
      /\ k[2] \in 0 .. radix - 1 /\ t[2] + c[1] = radix * c[2] + k[2]
      /\ k[3] \in 0 .. radix - 1 /\ t[3] + c[2] = radix * c[3] + k[3]
      /\ k[4] \in 0 .. radix - 1 /\ t[4] + c[3] = radix * c[4] + k[4]
  <2>1. /\ t[1] + c[0] \in Int /\ t[2] + c[1] \in Int /\ t[3] + c[2] \in Int /\ t[4] + c[3] \in Int
    BY <1>5
  <2>2. \A n \in Int : n % radix \in 0 .. radix - 1 /\ n = radix * (n \div radix) + (n % radix)
    BY <1>0, DivMod
  <2>3. QED
    BY <2>1, <2>2, <1>1, <1>4, <1>5
<1>7. x \in Int /\ x \div radix \in Int /\ x % radix \in 0 .. radix - 1
      /\ k[0] + c[4] * fold = radix * (x \div radix) + (x % radix)
  <2>1. x \in Int
    BY <1>5, <1>6, <1>0
  <2> HIDE DEF x
  <2>2. x \div radix \in Int /\ x % radix \in 0 .. radix - 1
        /\ x = radix * (x \div radix) + (x % radix)
    BY <2>1, <1>0, DivMod
  <2>3. QED
    BY <2>1, <2>2 DEF x
<1> HIDE DEF x
<1>8. /\ res[0] = x % radix /\ res[1] = k[1] + x \div radix
      /\ res[2] = k[2] /\ res[3] = k[3] /\ res[4] = k[4]
      /\ res = [i \in Limbs5 |-> res[i]]
  BY <1>3, <1>4
<1> HIDE DEF res
<1>9. k \in [Limbs5 -> 0 .. radix - 1]
  <2>1. \A i \in Limbs5 : k[i] \in 0 .. radix - 1
    <3>1. \A i \in Limbs5 : i = 0 \/ i = 1 \/ i = 2 \/ i = 3 \/ i = 4
      BY <1>3
    <3>2. QED
      BY <1>6, <3>1
  <2>2. QED
    BY <1>4, <2>1
<1>10. res = [i \in Limbs5 |-> IF i = 0 THEN x % radix
                               ELSE IF i = 1 THEN k[1] + x \div radix ELSE k[i]]
  <2> DEFINE v(i) == IF i = 0 THEN x % radix ELSE IF i = 1 THEN k[1] + x \div radix ELSE k[i]
  <2>1. \A i \in Limbs5 : i = 0 \/ i = 1 \/ i = 2 \/ i = 3 \/ i = 4
    BY <1>3
  <2>2. \A i \in Limbs5 : res[i] = v(i)
    BY <1>8, <2>1
  <2> HIDE DEF v
  <2>3. res = [i \in Limbs5 |-> v(i)]
    BY <1>8, <2>2, SMTT(30)
  <2>4. QED
    BY <2>3 DEF v
<1>11. CarryChain(radix, fold, t, res, c, k, x \div radix, x % radix)
  BY <1>1, <1>6, <1>7, <1>9, <1>10 DEF CarryChain
<1>12. QED
  BY <1>2, <1>11

\* The carries leave the value as it is.
LEMMA CarriedIsCongruent ==
  ASSUME NEW radix, NEW fold, LimbsFit(radix, fold), NEW t \in Element
  PROVE  LET res == CarriedIn(radix, fold, t) IN
           /\ res \in Element
           /\ \A i \in Limbs5 \ {1} : res[i] \in 0 .. radix - 1
           /\ ValueIn(radix, fold, res) = ValueIn(radix, fold, t)
<1>0. /\ radix \in Nat \ {0} /\ fold \in Nat \ {0} /\ PIn(radix, fold) \in Nat \ {0}
      /\ PIn(radix, fold) = radix * radix * radix * radix * radix - fold
  BY LimbsTyped, Zenon
<1> DEFINE res == CarriedIn(radix, fold, t)
<1>1. PICK c, k, d, e : CarryChain(radix, fold, t, res, c, k, d, e)
  BY CarriedChain, Zenon
<1> HIDE DEF res
<1>2. Limbs5 = 0 .. 4 /\ 0 .. radix - 1 \subseteq Int
  BY <1>0 DEF Limbs5
<1>3. /\ res = [i \in Limbs5 |-> res[i]]
      /\ res[0] = e /\ res[1] = k[1] + d /\ res[2] = k[2] /\ res[3] = k[3] /\ res[4] = k[4]
  BY <1>1, <1>2 DEF CarryChain
<1>4. /\ k[0] \in 0 .. radix - 1 /\ k[1] \in 0 .. radix - 1 /\ k[2] \in 0 .. radix - 1
      /\ k[3] \in 0 .. radix - 1 /\ k[4] \in 0 .. radix - 1 /\ e \in 0 .. radix - 1
  BY <1>1, <1>2 DEF CarryChain
<1>5. \A i \in Limbs5 \ {1} : res[i] \in 0 .. radix - 1
  <2>1. \A i \in Limbs5 : i = 0 \/ i = 1 \/ i = 2 \/ i = 3 \/ i = 4
    BY <1>2
  <2>2. QED
    BY <1>3, <1>4, <2>1
<1>6. res \in Element
  <2>1. res[1] \in Int
    BY <1>1, <1>2, <1>3, <1>4 DEF CarryChain
  <2>2. \A i \in Limbs5 : res[i] \in Int
    BY <1>2, <1>5, <2>1
  <2>3. QED
    BY <1>3, <2>2 DEF Element
<1>7. /\ t[0] \in Int /\ t[1] \in Int /\ t[2] \in Int /\ t[3] \in Int /\ t[4] \in Int
      /\ c[0] \in Int /\ c[1] \in Int /\ c[2] \in Int /\ c[3] \in Int /\ c[4] \in Int
  BY <1>1, <1>2, SMTT(30) DEF CarryChain, Element
<1>8. NumberIn(radix, t) = NumberIn(radix, res) + PIn(radix, fold) * c[4]
  <2>1. PICK R \in Int, F \in Int, x \in Int, y \in Int :
          R = radix /\ F = fold /\ x = d /\ y = e
    BY <1>0, <1>1, <1>2 DEF CarryChain
  <2>2. PICK t0 \in Int, t1 \in Int, t2 \in Int, t3 \in Int, t4 \in Int :
          t0 = t[0] /\ t1 = t[1] /\ t2 = t[2] /\ t3 = t[3] /\ t4 = t[4]
    BY <1>7
  <2>3. PICK c0 \in Int, c1 \in Int, c2 \in Int, c3 \in Int, c4 \in Int :
          c0 = c[0] /\ c1 = c[1] /\ c2 = c[2] /\ c3 = c[3] /\ c4 = c[4]
    BY <1>7
  <2>4. PICK k0 \in Int, k1 \in Int, k2 \in Int, k3 \in Int, k4 \in Int :
          k0 = k[0] /\ k1 = k[1] /\ k2 = k[2] /\ k3 = k[3] /\ k4 = k[4]
    BY <1>2, <1>4
  <2>5. /\ t0 = R*c0 + k0 /\ t1 + c0 = R*c1 + k1 /\ t2 + c1 = R*c2 + k2
        /\ t3 + c2 = R*c3 + k3 /\ t4 + c3 = R*c4 + k4 /\ k0 + c4*F = R*x + y
    BY <1>1, <2>1, <2>2, <2>3, <2>4, Zenon DEF CarryChain
  <2>6. t4 = R*c4 + k4 - c3 /\ t3 = R*c3 + k3 - c2 /\ t2 = R*c2 + k2 - c1
        /\ t1 = R*c1 + k1 - c0 /\ t0 = R*c0 + k0 /\ k0 = R*x + y - c4*F
    BY <2>5
  <2>7. t0 + R*(t1 + R*(t2 + R*(t3 + R*t4)))
        = (y + R*((k1 + x) + R*(k2 + R*(k3 + R*k4)))) + (R*R*R*R*R - F) * c4
    BY <2>6, SMTT(60)
  <2>8. NumberIn(radix, t) = t0 + R*(t1 + R*(t2 + R*(t3 + R*t4)))
    BY <2>1, <2>2 DEF NumberIn
  <2>9. NumberIn(radix, res) = y + R*((k1 + x) + R*(k2 + R*(k3 + R*k4)))
    BY <1>3, <2>1, <2>4 DEF NumberIn
  <2>10. PIn(radix, fold) * c[4] = (R*R*R*R*R - F) * c4
    BY <1>0, <2>1, <2>3
  <2>11. QED
    BY <2>7, <2>8, <2>9, <2>10
<1>9. ValueIn(radix, fold, res) = ValueIn(radix, fold, t)
  <2>1. NumberIn(radix, res) \in Int /\ NumberIn(radix, t) \in Int
    BY <1>6, NumberTyped
  <2>2. NumberIn(radix, t) % PIn(radix, fold) = NumberIn(radix, res) % PIn(radix, fold)
    <3>1. \E n \in Int : NumberIn(radix, t) = NumberIn(radix, res) + PIn(radix, fold) * n
      BY <1>7, <1>8
    <3>2. QED
      BY <2>1, <3>1, <1>0, SameRemainder
  <2>3. QED
    BY <2>2 DEF ValueIn
<1>10. QED
  BY <1>5, <1>6, <1>9 DEF res

\* A product of limbs stands for the product modulo P.
LEMMA ProductIsCongruent ==
  ASSUME NEW radix, NEW fold, LimbsFit(radix, fold), NEW a \in Element, NEW b \in Element
  PROVE  LET res == ProductIn(fold, a, b) IN
           /\ res \in Element
           /\ ValueIn(radix, fold, res) = (ValueIn(radix, fold, a) * ValueIn(radix, fold, b)) % PIn(radix, fold)
<1>0. /\ radix \in Nat \ {0} /\ fold \in Nat \ {0} /\ PIn(radix, fold) \in Nat \ {0}
      /\ PIn(radix, fold) = radix * radix * radix * radix * radix - fold
  BY LimbsTyped, Zenon
<1> DEFINE T(i, n) == a[i] * IF i <= n THEN b[n - i] ELSE fold * b[n + 5 - i]
           res == [n \in Limbs5 |-> T(0, n) + T(1, n) + T(2, n) + T(3, n) + T(4, n)]
<1>1. ProductIn(fold, a, b) = res
  BY DEF ProductIn
<1>2. Limbs5 = 0 .. 4
  BY DEF Limbs5
<1>3. /\ a[0] \in Int /\ a[1] \in Int /\ a[2] \in Int /\ a[3] \in Int /\ a[4] \in Int
      /\ b[0] \in Int /\ b[1] \in Int /\ b[2] \in Int /\ b[3] \in Int /\ b[4] \in Int
      /\ radix \in Int /\ fold \in Int /\ PIn(radix, fold) \in Int
  BY <1>2, <1>0 DEF Element
<1>4. /\ res[0] = a[0]*b[0] + a[1]*(fold*b[4]) + a[2]*(fold*b[3]) + a[3]*(fold*b[2]) + a[4]*(fold*b[1])
      /\ res[1] = a[0]*b[1] + a[1]*b[0] + a[2]*(fold*b[4]) + a[3]*(fold*b[3]) + a[4]*(fold*b[2])
      /\ res[2] = a[0]*b[2] + a[1]*b[1] + a[2]*b[0] + a[3]*(fold*b[4]) + a[4]*(fold*b[3])
      /\ res[3] = a[0]*b[3] + a[1]*b[2] + a[2]*b[1] + a[3]*b[0] + a[4]*(fold*b[4])
      /\ res[4] = a[0]*b[4] + a[1]*b[3] + a[2]*b[2] + a[3]*b[1] + a[4]*b[0]
  BY <1>2, <1>3
<1>5. res \in Element
  <2>1. res[0] \in Int /\ res[1] \in Int /\ res[2] \in Int /\ res[3] \in Int /\ res[4] \in Int
    <3> HIDE DEF res
    <3>1. QED
      BY <1>3, <1>4
  <2>2. res = [n \in Limbs5 |-> res[n]]
    OBVIOUS
  <2> HIDE DEF res
  <2>3. \A n \in Limbs5 : res[n] \in Int
    BY <2>1, <1>2
  <2>4. QED
    BY <2>2, <2>3 DEF Element
<1> HIDE DEF res
<1> DEFINE hi == a[1]*b[4] + a[2]*b[3] + a[3]*b[2] + a[4]*b[1]
                 + radix*(a[2]*b[4] + a[3]*b[3] + a[4]*b[2] + radix*(a[3]*b[4] + a[4]*b[3] + radix*(a[4]*b[4])))
<1>6. hi \in Int
  BY <1>3
<1>7. NumberIn(radix, a) * NumberIn(radix, b) = NumberIn(radix, res) + PIn(radix, fold) * hi
  <2>1. PICK R \in Int, F \in Int : R = radix /\ F = fold
    BY <1>0
  <2>2. PICK a0 \in Int, a1 \in Int, a2 \in Int, a3 \in Int, a4 \in Int :
          a0 = a[0] /\ a1 = a[1] /\ a2 = a[2] /\ a3 = a[3] /\ a4 = a[4]
    BY <1>3
  <2>3. PICK b0 \in Int, b1 \in Int, b2 \in Int, b3 \in Int, b4 \in Int :
          b0 = b[0] /\ b1 = b[1] /\ b2 = b[2] /\ b3 = b[3] /\ b4 = b[4]
    BY <1>3
  <2>4. (a0 + R*(a1 + R*(a2 + R*(a3 + R*a4)))) * (b0 + R*(b1 + R*(b2 + R*(b3 + R*b4))))
        = ((a0*b0 + a1*(F*b4) + a2*(F*b3) + a3*(F*b2) + a4*(F*b1))
           + R*((a0*b1 + a1*b0 + a2*(F*b4) + a3*(F*b3) + a4*(F*b2))
           + R*((a0*b2 + a1*b1 + a2*b0 + a3*(F*b4) + a4*(F*b3))
           + R*((a0*b3 + a1*b2 + a2*b1 + a3*b0 + a4*(F*b4))
           + R*(a0*b4 + a1*b3 + a2*b2 + a3*b1 + a4*b0)))))
          + (R*R*R*R*R - F) * (a1*b4 + a2*b3 + a3*b2 + a4*b1
             + R*(a2*b4 + a3*b3 + a4*b2 + R*(a3*b4 + a4*b3 + R*(a4*b4))))
    BY SMTT(60)
  <2>5. /\ NumberIn(radix, a) = a0 + R*(a1 + R*(a2 + R*(a3 + R*a4)))
        /\ NumberIn(radix, b) = b0 + R*(b1 + R*(b2 + R*(b3 + R*b4)))
    BY <2>1, <2>2, <2>3 DEF NumberIn
  <2>6. /\ res[0] = a0*b0 + a1*(F*b4) + a2*(F*b3) + a3*(F*b2) + a4*(F*b1)
        /\ res[1] = a0*b1 + a1*b0 + a2*(F*b4) + a3*(F*b3) + a4*(F*b2)
        /\ res[2] = a0*b2 + a1*b1 + a2*b0 + a3*(F*b4) + a4*(F*b3)
        /\ res[3] = a0*b3 + a1*b2 + a2*b1 + a3*b0 + a4*(F*b4)
        /\ res[4] = a0*b4 + a1*b3 + a2*b2 + a3*b1 + a4*b0
    BY <2>1, <2>2, <2>3, <1>4
  <2>7. PIn(radix, fold) * hi = (R*R*R*R*R - F) * (a1*b4 + a2*b3 + a3*b2 + a4*b1
             + R*(a2*b4 + a3*b3 + a4*b2 + R*(a3*b4 + a4*b3 + R*(a4*b4))))
    BY <2>1, <2>2, <2>3, <1>0
  <2>8. NumberIn(radix, res) = res[0] + radix*(res[1] + radix*(res[2] + radix*(res[3] + radix*res[4])))
    BY DEF NumberIn
  <2> HIDE DEF hi
  <2>9. NumberIn(radix, res)
        = ((a0*b0 + a1*(F*b4) + a2*(F*b3) + a3*(F*b2) + a4*(F*b1))
           + R*((a0*b1 + a1*b0 + a2*(F*b4) + a3*(F*b3) + a4*(F*b2))
           + R*((a0*b2 + a1*b1 + a2*b0 + a3*(F*b4) + a4*(F*b3))
           + R*((a0*b3 + a1*b2 + a2*b1 + a3*b0 + a4*(F*b4))
           + R*(a0*b4 + a1*b3 + a2*b2 + a3*b1 + a4*b0)))))
    BY <2>1, <2>6, <2>8
  <2>10. QED
    BY <2>4, <2>5, <2>7, <2>9
<1> HIDE DEF hi
<1>8. NumberIn(radix, a) \in Int /\ NumberIn(radix, b) \in Int /\ NumberIn(radix, res) \in Int
  BY <1>5, NumberTyped
<1>9. NumberIn(radix, a) * NumberIn(radix, b) \in Int
  BY <1>8
<1>10. (NumberIn(radix, a) * NumberIn(radix, b)) % PIn(radix, fold) = NumberIn(radix, res) % PIn(radix, fold)
  <2>1. \E n \in Int : NumberIn(radix, a) * NumberIn(radix, b) = NumberIn(radix, res) + PIn(radix, fold) * n
    BY <1>6, <1>7
  <2>2. QED
    BY <2>1, <1>8, <1>9, <1>0, SameRemainder
<1>11. QED
  BY <1>1, <1>5, <1>8, <1>10, <1>0, ProductRemainder DEF ValueIn
-----------------------------------------------------------------------------
\* The same of the field of the key agreement.
LEMMA RadixTyped ==
  /\ Radix \in Nat \ {0} /\ Fold \in Nat \ {0} /\ Field!P \in Nat \ {0}
  /\ Field!Limbs = 0 .. 4 /\ Element = [Field!Limbs -> Int]
BY BothInstances, BothFit, LimbsTyped DEF Element, Limbs5

\* The number of limbs.
LEMMA FieldNumber ==
  ASSUME NEW a \in Element
  PROVE  Field!Number(a) \in Int
<1>1. NumberIn(Radix, a) \in Int
  BY BothFit, NumberTyped, Zenon
<1>2. QED
  BY <1>1, BothInstances, Zenon

\* The carries keep the value.
LEMMA FieldCarried ==
  ASSUME NEW t \in Element
  PROVE  LET res == Field!Carried(t) IN
           /\ res \in Element
           /\ \A i \in Field!Limbs \ {1} : res[i] \in 0 .. Radix - 1
           /\ Field!Value(res) = Field!Value(t)
<1> DEFINE res == CarriedIn(Radix, Fold, t)
<1>1. /\ res \in Element
      /\ \A i \in Limbs5 \ {1} : res[i] \in 0 .. Radix - 1
      /\ ValueIn(Radix, Fold, res) = ValueIn(Radix, Fold, t)
  BY BothFit, CarriedIsCongruent, Zenon
<1>2. /\ Field!Carried(t) = res /\ Field!Limbs = Limbs5
      /\ Field!Value(res) = ValueIn(Radix, Fold, res)
      /\ Field!Value(t) = ValueIn(Radix, Fold, t)
  BY BothInstances, Zenon
<1> HIDE DEF res
<1>3. QED
  BY <1>1, <1>2

\* The product of limbs is the product of the values.
LEMMA FieldProduct ==
  ASSUME NEW a \in Element, NEW b \in Element
  PROVE  LET res == Field!Product(a, b) IN
           /\ res \in Element
           /\ Field!Value(res) = (Field!Value(a) * Field!Value(b)) % Field!P
<1> DEFINE res == ProductIn(Fold, a, b)
<1>1. /\ res \in Element
      /\ ValueIn(Radix, Fold, res)
         = (ValueIn(Radix, Fold, a) * ValueIn(Radix, Fold, b)) % PIn(Radix, Fold)
  BY BothFit, ProductIsCongruent, Zenon
<1>2. /\ Field!Product(a, b) = res /\ Field!P = PIn(Radix, Fold)
      /\ Field!Value(res) = ValueIn(Radix, Fold, res)
      /\ Field!Value(a) = ValueIn(Radix, Fold, a) /\ Field!Value(b) = ValueIn(Radix, Fold, b)
  BY BothInstances, Zenon
<1> HIDE DEF res
<1>3. QED
  BY <1>1, <1>2

-----------------------------------------------------------------------------
LEMMA SumIsCongruent ==
  ASSUME NEW a \in Element, NEW b \in Element
  PROVE  /\ Field!Value(Field!fe_add(a, b)) = (Field!Value(a) + Field!Value(b)) % Field!P
         /\ Field!Value(Field!fe_sub(a, b)) = (Field!Value(a) - Field!Value(b)) % Field!P
<1>1. Field!Limbs = 0 .. 4
  BY RadixTyped
<1>2. PICK R \in Int : R = Radix
  BY RadixTyped
<1>3. PICK a0 \in Int, a1 \in Int, a2 \in Int, a3 \in Int, a4 \in Int :
        a0 = a[0] /\ a1 = a[1] /\ a2 = a[2] /\ a3 = a[3] /\ a4 = a[4]
  BY SMTT(30) DEF Element, Limbs5
<1>4. PICK b0 \in Int, b1 \in Int, b2 \in Int, b3 \in Int, b4 \in Int :
        b0 = b[0] /\ b1 = b[1] /\ b2 = b[2] /\ b3 = b[3] /\ b4 = b[4]
  BY SMTT(30) DEF Element, Limbs5
<1>5. /\ Field!Number(a) = a0 + R*(a1 + R*(a2 + R*(a3 + R*a4)))
      /\ Field!Number(b) = b0 + R*(b1 + R*(b2 + R*(b3 + R*b4)))
  BY <1>2, <1>3, <1>4 DEF Field!Number
<1>6. Field!Number(Field!fe_add(a, b)) = Field!Number(a) + Field!Number(b)
  <2> DEFINE res == Field!fe_add(a, b)
  <2>1. res[0] = a0 + b0 /\ res[1] = a1 + b1 /\ res[2] = a2 + b2 /\ res[3] = a3 + b3 /\ res[4] = a4 + b4
    BY <1>1, <1>3, <1>4 DEF Field!fe_add
  <2> HIDE DEF res
  <2>2. Field!Number(res) = (a0+b0) + R*((a1+b1) + R*((a2+b2) + R*((a3+b3) + R*(a4+b4))))
    BY <1>2, <2>1 DEF Field!Number
  <2>3. (a0+b0) + R*((a1+b1) + R*((a2+b2) + R*((a3+b3) + R*(a4+b4))))
        = (a0 + R*(a1 + R*(a2 + R*(a3 + R*a4)))) + (b0 + R*(b1 + R*(b2 + R*(b3 + R*b4))))
    BY SMTT(60)
  <2>4. QED
    BY <1>5, <2>2, <2>3 DEF res
<1>7. Field!Number(Field!fe_sub(a, b)) = Field!Number(a) - Field!Number(b)
  <2> DEFINE res == Field!fe_sub(a, b)
  <2>1. res[0] = a0 - b0 /\ res[1] = a1 - b1 /\ res[2] = a2 - b2 /\ res[3] = a3 - b3 /\ res[4] = a4 - b4
    BY <1>1, <1>3, <1>4 DEF Field!fe_sub
  <2> HIDE DEF res
  <2>2. Field!Number(res) = (a0-b0) + R*((a1-b1) + R*((a2-b2) + R*((a3-b3) + R*(a4-b4))))
    BY <1>2, <2>1 DEF Field!Number
  <2>3. (a0-b0) + R*((a1-b1) + R*((a2-b2) + R*((a3-b3) + R*(a4-b4))))
        = (a0 + R*(a1 + R*(a2 + R*(a3 + R*a4)))) - (b0 + R*(b1 + R*(b2 + R*(b3 + R*b4))))
    BY SMTT(60)
  <2>4. QED
    BY <1>5, <2>2, <2>3 DEF res
<1>8. Field!Number(a) \in Int /\ Field!Number(b) \in Int
  BY FieldNumber
<1>9. Field!P \in Nat \ {0}
  BY RadixTyped
<1>10. (Field!Number(a) + Field!Number(b)) % Field!P
       = ((Field!Number(a) % Field!P) + (Field!Number(b) % Field!P)) % Field!P
  BY <1>8, <1>9, SumRemainder, ZenonT(60)
<1>11. (Field!Number(a) - Field!Number(b)) % Field!P
       = ((Field!Number(a) % Field!P) - (Field!Number(b) % Field!P)) % Field!P
  BY <1>8, <1>9, SumRemainder, ZenonT(60)
<1>12. QED
  BY <1>6, <1>7, <1>10, <1>11 DEF Field!Value

\* Every limb times a number: what fe_mul121666 does with its.
LEMMA ScaledIsCongruent ==
  ASSUME NEW a \in Element, NEW k \in Int
  PROVE  LET res == Field!Carried([i \in Field!Limbs |-> k * a[i]]) IN
           /\ Field!Value(res) = ((k % Field!P) * Field!Value(a)) % Field!P
           /\ \A i \in Field!Limbs \ {1} : res[i] \in 0 .. Radix - 1
<1> DEFINE t == [i \in Field!Limbs |-> k * a[i]]
<1>1. Field!Limbs = 0 .. 4
  BY RadixTyped
<1>2. PICK R \in Int : R = Radix
  BY RadixTyped
<1>3. PICK a0 \in Int, a1 \in Int, a2 \in Int, a3 \in Int, a4 \in Int :
        a0 = a[0] /\ a1 = a[1] /\ a2 = a[2] /\ a3 = a[3] /\ a4 = a[4]
  BY DEF Element, Limbs5
<1>4. t \in Element
  BY RadixTyped
<1>5. t[0] = k*a0 /\ t[1] = k*a1 /\ t[2] = k*a2 /\ t[3] = k*a3 /\ t[4] = k*a4
  BY <1>1, <1>3
<1> HIDE DEF t
<1>6. Field!Number(t) = k*a0 + R*(k*a1 + R*(k*a2 + R*(k*a3 + R*(k*a4))))
  BY <1>2, <1>5 DEF Field!Number
<1>7. k*a0 + R*(k*a1 + R*(k*a2 + R*(k*a3 + R*(k*a4))))
      = k * (a0 + R*(a1 + R*(a2 + R*(a3 + R*a4))))
  BY SMTT(60)
<1>8. Field!Number(a) = a0 + R*(a1 + R*(a2 + R*(a3 + R*a4)))
  BY <1>2, <1>3 DEF Field!Number
<1>9. Field!Number(t) = k * Field!Number(a)
  BY <1>6, <1>7, <1>8
<1>10. Field!Number(a) \in Int /\ Field!P \in Nat \ {0}
  BY FieldNumber, RadixTyped
<1>11. (k * Field!Number(a)) % Field!P
       = ((k % Field!P) * (Field!Number(a) % Field!P)) % Field!P
  BY <1>10, ProductRemainder, Zenon
<1>12. Field!Value(t) = ((k % Field!P) * Field!Value(a)) % Field!P
  BY <1>9, <1>11 DEF Field!Value
<1>13. QED
  BY <1>4, <1>12, FieldCarried DEF t

\* fe_add, fe_sub, fe_mul, fe_sq and fe_mul121666 on any limbs: the limbs of the
\* result stand for the sum, difference or product modulo P, and a product is
\* reduced but for limb 1.
THEOREM FieldArithmetic ==
  ASSUME NEW a \in Element, NEW b \in Element
  PROVE  /\ Field!Value(Field!fe_add(a, b)) = (Field!Value(a) + Field!Value(b)) % Field!P
         /\ Field!Value(Field!fe_sub(a, b)) = (Field!Value(a) - Field!Value(b)) % Field!P
         /\ Field!Value(Field!fe_mul(a, b)) = (Field!Value(a) * Field!Value(b)) % Field!P
         /\ Field!Value(Field!fe_sq(a)) = (Field!Value(a) * Field!Value(a)) % Field!P
         /\ Field!Value(Field!fe_mul121666(a)) = ((121666 % Field!P) * Field!Value(a)) % Field!P
         /\ \A i \in Field!Limbs \ {1} :
              /\ Field!fe_mul(a, b)[i] \in 0 .. Radix - 1
              /\ Field!fe_sq(a)[i] \in 0 .. Radix - 1
              /\ Field!fe_mul121666(a)[i] \in 0 .. Radix - 1
<1>1. ASSUME NEW c \in Element, NEW d \in Element
      PROVE  /\ Field!Value(Field!fe_mul(c, d)) = (Field!Value(c) * Field!Value(d)) % Field!P
             /\ \A i \in Field!Limbs \ {1} : Field!fe_mul(c, d)[i] \in 0 .. Radix - 1
  BY FieldProduct, FieldCarried DEF Field!fe_mul
<1>2. /\ Field!Value(Field!fe_sq(a)) = (Field!Value(a) * Field!Value(a)) % Field!P
      /\ \A i \in Field!Limbs \ {1} : Field!fe_sq(a)[i] \in 0 .. Radix - 1
  BY <1>1 DEF Field!fe_sq
<1>3. /\ Field!Value(Field!fe_mul121666(a)) = ((121666 % Field!P) * Field!Value(a)) % Field!P
      /\ \A i \in Field!Limbs \ {1} : Field!fe_mul121666(a)[i] \in 0 .. Radix - 1
  BY ScaledIsCongruent, SMT DEF Field!fe_mul121666
<1>4. QED
  BY <1>1, <1>2, <1>3, SumIsCongruent, SMT

\* In the run: an operation has been done on limbs of the operands, once.
FieldInv ==
  part = "field" =>
    /\ f \in Element /\ g \in Element
    /\ op \in {"none", "add", "sub", "mul", "sq", "mul121666"}
    /\ Field!ArithmeticIsModP /\ Field!ProductsAreReduced

\* It holds at first: nothing has been computed.
LEMMA FieldInit == Init => FieldInv
<1>1. SUFFICES ASSUME Init, part = "field"
               PROVE  FieldInv
  BY DEF FieldInv
<1>2. /\ f \in Field!Elements /\ g \in Field!Elements
      /\ op = "none" /\ h = Field!fe_0
  BY <1>1 DEF Init, Field!Init
<1>3. f \in Element /\ g \in Element
  BY <1>2, RadixTyped DEF Field!Elements, LimbValues
<1>4. Field!Value(h) = 0
  <2>1. h[0] = 0 /\ h[1] = 0 /\ h[2] = 0 /\ h[3] = 0 /\ h[4] = 0
    BY <1>2 DEF Field!fe_0, Field!Limbs
  <2>2. Field!Number(h) = 0
    BY <2>1, RadixTyped DEF Field!Number
  <2>3. 0 % Field!P = 0
    BY RadixTyped
  <2>4. QED
    BY <2>2, <2>3 DEF Field!Value
<1>5. QED
  BY <1>2, <1>3, <1>4 DEF FieldInv, Field!ArithmeticIsModP, Field!ProductsAreReduced

\* Each operation is one of FieldArithmetic.
LEMMA FieldStep == FieldInv /\ [Next]_vars => FieldInv'
<1>1. SUFFICES ASSUME FieldInv, [Next]_vars, part' = "field"
               PROVE  FieldInv'
  BY DEF FieldInv
<1>2. part = "field" /\ (Field!Next \/ UNCHANGED fieldVars)
  BY <1>1, OnePart
<1>3. CASE UNCHANGED fieldVars
  BY <1>1, <1>2, <1>3 DEF FieldInv, fieldVars, Field!ArithmeticIsModP, Field!ProductsAreReduced
<1>4. CASE Field!Next
  <2>1. f' = f /\ g' = g /\ f \in Element /\ g \in Element
    BY <1>1, <1>2, <1>4, SMT DEF FieldInv, Field!Next, Field!Does
  <2>2. CASE op' = "add" /\ h' = Field!fe_add(f, g)
    BY <1>1, <2>1, <2>2, FieldArithmetic, SMT
    DEF FieldInv, Field!ArithmeticIsModP, Field!ProductsAreReduced
  <2>3. CASE op' = "sub" /\ h' = Field!fe_sub(f, g)
    BY <1>1, <2>1, <2>3, FieldArithmetic, SMT
    DEF FieldInv, Field!ArithmeticIsModP, Field!ProductsAreReduced
  <2>4. CASE op' = "mul" /\ h' = Field!fe_mul(f, g)
    BY <1>1, <2>1, <2>4, FieldArithmetic, SMT
    DEF FieldInv, Field!ArithmeticIsModP, Field!ProductsAreReduced
  <2>5. CASE op' = "sq" /\ h' = Field!fe_sq(f)
    BY <1>1, <2>1, <2>5, FieldArithmetic, SMT
    DEF FieldInv, Field!ArithmeticIsModP, Field!ProductsAreReduced
  <2>6. CASE op' = "mul121666" /\ h' = Field!fe_mul121666(f)
    BY <1>1, <2>1, <2>6, FieldArithmetic, SMT
    DEF FieldInv, Field!ArithmeticIsModP, Field!ProductsAreReduced
  <2>7. QED
    BY <1>4, <2>2, <2>3, <2>4, <2>5, <2>6, SMT DEF Field!Next, Field!Does
<1>5. QED
  BY <1>2, <1>3, <1>4

\* The field arithmetic of the key agreement (fe_add to fe_mul121666) computes
\* modulo P, whatever the radix and the fold.
THEOREM FieldSafe == Spec => []FieldIsModP
<1>1. FieldInv => FieldIsModP
  BY DEF FieldInv, FieldIsModP
<1>2. QED
  BY FieldInit, FieldStep, <1>1, PTL DEF Spec
-----------------------------------------------------------------------------
\* Powers of two.
LEMMA Power2Is ==
  /\ Seal!Power2[0] = 1
  /\ \A n \in Nat : Seal!Power2[n] \in Nat \ {0} /\ Seal!Power2[n + 1] = 2 * Seal!Power2[n]
<1> DEFINE body(s) == [n \in Nat |-> IF n = 0 THEN 1 ELSE 2 * s[n - 1]]
           power == CHOOSE s : s = body(s)
<1>1. \E s : s = body(s)
  <2> DEFINE step == [n \in Nat |-> [m \in Nat |-> 2 * m]]
  <2>1. step \in [Nat -> [Nat -> Nat]] /\ \A n, m \in Nat : step[n][m] = 2 * m
    OBVIOUS
  <2> HIDE DEF step
  <2>2. Recursive(Nat, 1, step)
    BY <2>1, RecursiveExists
  <2>3. PICK u \in [Nat -> Nat] : u[0] = 1 /\ \A i \in Nat : u[i + 1] = step[i][u[i]]
    BY <2>2 DEF Recursive
  <2>4. ASSUME NEW n \in Nat
        PROVE  u[n] = IF n = 0 THEN 1 ELSE 2 * u[n - 1]
    <3>1. CASE n = 0
      BY <2>3, <3>1
    <3>2. CASE n # 0
      <4>1. n - 1 \in Nat /\ (n - 1) + 1 = n /\ u[n - 1] \in Nat
        BY <2>3, <3>2
      <4>2. u[n] = step[n - 1][u[n - 1]]
        BY <2>3, <4>1
      <4>3. QED
        BY <2>1, <3>2, <4>1, <4>2
    <3>3. QED
      BY <3>1, <3>2
  <2>5. u = body(u)
    BY <2>3, <2>4
  <2>6. QED
    BY <2>5
<1>2. power = body(power)
  <2> HIDE DEF body
  <2>1. QED
    BY <1>1
<1>3. Seal!Power2 = power
  BY DEF Seal!Power2
<1> HIDE DEF power
<1>4. power[0] = 1
  BY <1>2
<1>5. ASSUME NEW n \in Nat
      PROVE  power[n + 1] = 2 * power[n]
  <2>1. n + 1 \in Nat /\ n + 1 # 0 /\ (n + 1) - 1 = n
    OBVIOUS
  <2>2. power[n + 1] = body(power)[n + 1]
    BY <1>2
  <2>3. QED
    BY <2>1, <2>2
<1> DEFINE S == {n \in Nat : power[n] \in Nat \ {0}}
<1>6. S = Nat
  <2>1. 0 \in S
    BY <1>4
  <2>2. \A n \in S : n + 1 \in S
    BY <1>5
  <2> HIDE DEF S
  <2>3. S \in SUBSET Nat
    BY DEF S
  <2>4. QED
    BY <2>1, <2>2, <2>3, Induction
<1>7. QED
  BY <1>3, <1>4, <1>5, <1>6

\* Words by their bits, for any operation on bits.
Pairs == Nat \X Nat

ByBits(bit, s) ==
  [n \in Nat |->
     [p \in Pairs |->
        IF n = 0 THEN 0
        ELSE bit[<<p[1] % 2, p[2] % 2>>] + 2 * s[n - 1][<<p[1] \div 2, p[2] \div 2>>]]]

\* The lowest bit of a number, and the number without it.
LEMMA BitAndRest ==
  ASSUME NEW x \in Nat
  PROVE  x % 2 \in {0, 1} /\ x \div 2 \in Nat /\ x = 2 * (x \div 2) + (x % 2)
OBVIOUS

\* There is such a function, for every operation on bits.
LEMMA ByBitsExists ==
  ASSUME NEW bit \in [{0, 1} \X {0, 1} -> {0, 1}]
  PROVE  \E s : s = ByBits(bit, s)
<1> DEFINE V == [Pairs -> Nat]
           next(s) == [p \in Pairs |->
                         bit[<<p[1] % 2, p[2] % 2>>] + 2 * s[<<p[1] \div 2, p[2] \div 2>>]]
           zero == [p \in Pairs |-> 0]
           step == [n \in Nat |-> [s \in V |-> next(s)]]
<1>1. ASSUME NEW s \in V
      PROVE  next(s) \in V
  <2>1. ASSUME NEW p \in Pairs
        PROVE  bit[<<p[1] % 2, p[2] % 2>>] + 2 * s[<<p[1] \div 2, p[2] \div 2>>] \in Nat
    <3>1. p[1] \in Nat /\ p[2] \in Nat
      BY DEF Pairs
    <3>2. /\ <<p[1] % 2, p[2] % 2>> \in {0, 1} \X {0, 1}
          /\ <<p[1] \div 2, p[2] \div 2>> \in Pairs
      BY <3>1, BitAndRest DEF Pairs
    <3>3. bit[<<p[1] % 2, p[2] % 2>>] \in {0, 1} /\ s[<<p[1] \div 2, p[2] \div 2>>] \in Nat
      BY <3>2
    <3>4. QED
      BY <3>3
  <2>2. QED
    BY <2>1
<1>2. zero \in V
  OBVIOUS
<1> HIDE DEF V, next, zero
<1>3. step \in [Nat -> [V -> V]] /\ \A n \in Nat : \A s \in V : step[n][s] = next(s)
  BY <1>1
<1> HIDE DEF step
<1>4. Recursive(V, zero, step)
  BY <1>2, <1>3, RecursiveExists
<1>5. PICK u \in [Nat -> V] : u[0] = zero /\ \A i \in Nat : u[i + 1] = step[i][u[i]]
  BY <1>4 DEF Recursive
<1>6. ASSUME NEW n \in Nat
      PROVE  u[n] = IF n = 0 THEN zero ELSE next(u[n - 1])
  <2>1. CASE n = 0
    BY <1>5, <2>1
  <2>2. CASE n # 0
    <3>1. n - 1 \in Nat /\ (n - 1) + 1 = n /\ u[n - 1] \in V
      BY <1>5, <2>2
    <3>2. u[n] = step[n - 1][u[n - 1]]
      BY <1>5, <3>1
    <3>3. QED
      BY <1>3, <2>2, <3>1, <3>2
  <2>3. QED
    BY <2>1, <2>2
<1>7. \A n \in Nat : u[n] = ByBits(bit, u)[n]
  <2>1. TAKE n \in Nat
  <2>2. CASE n = 0
    BY <1>6, <2>2 DEF zero, ByBits
  <2>3. CASE n # 0
    BY <1>6, <2>3 DEF next, ByBits
  <2>4. QED
    BY <2>2, <2>3
<1>8. u = ByBits(bit, u)
  <2>1. u = [n \in Nat |-> u[n]] /\ ByBits(bit, u) = [n \in Nat |-> ByBits(bit, u)[n]]
    BY <1>5 DEF ByBits
  <2>2. QED
    BY <1>7, <2>1, Zenon
<1>9. QED
  BY <1>8

\* What a word by bits is: the lowest bit, and the word of the rest.
AreWords(bit, s) ==
  \A x, y \in Nat :
    /\ s[0][<<x, y>>] = 0
    /\ \A n \in Nat : s[n + 1][<<x, y>>]
                      = bit[<<x % 2, y % 2>>] + 2 * s[n][<<x \div 2, y \div 2>>]

\* What the function is for words.
LEMMA ByBitsAre ==
  ASSUME NEW bit \in [{0, 1} \X {0, 1} -> {0, 1}], NEW s, s = ByBits(bit, s)
  PROVE  AreWords(bit, s)
<1>1. SUFFICES ASSUME NEW x \in Nat, NEW y \in Nat
               PROVE  /\ s[0][<<x, y>>] = 0
                      /\ \A n \in Nat : s[n + 1][<<x, y>>]
                           = bit[<<x % 2, y % 2>>] + 2 * s[n][<<x \div 2, y \div 2>>]
  BY DEF AreWords
<1>2. <<x, y>> \in Pairs /\ <<x, y>>[1] = x /\ <<x, y>>[2] = y
  BY SMTT(30) DEF Pairs
<1>3. ASSUME NEW n \in Nat
      PROVE  s[n] = [p \in Pairs |->
               IF n = 0 THEN 0
               ELSE bit[<<p[1] % 2, p[2] % 2>>] + 2 * s[n - 1][<<p[1] \div 2, p[2] \div 2>>]]
  <2>1. s[n] = ByBits(bit, s)[n]
    OBVIOUS
  <2>2. QED
    BY <2>1 DEF ByBits
<1>4. s[0][<<x, y>>] = 0
  <2>1. s[0] = [p \in Pairs |-> 0]
    BY <1>3
  <2>2. QED
    BY <1>2, <2>1
<1>5. ASSUME NEW n \in Nat
      PROVE  s[n + 1][<<x, y>>] = bit[<<x % 2, y % 2>>] + 2 * s[n][<<x \div 2, y \div 2>>]
  <2>1. n + 1 \in Nat /\ n + 1 # 0 /\ (n + 1) - 1 = n
    OBVIOUS
  <2>2. s[n + 1] = [p \in Pairs |->
               IF n + 1 = 0 THEN 0
               ELSE bit[<<p[1] % 2, p[2] % 2>>] + 2 * s[(n + 1) - 1][<<p[1] \div 2, p[2] \div 2>>]]
    BY <1>3, <2>1
  <2>3. s[n + 1] = [p \in Pairs |->
               bit[<<p[1] % 2, p[2] % 2>>] + 2 * s[n][<<p[1] \div 2, p[2] \div 2>>]]
    BY <2>1, <2>2
  <2>4. QED
    BY <1>2, <2>3
<1>6. QED
  BY <1>4, <1>5

\* The words of the seal.
LEMMA XorIs ==
  ASSUME NEW u \in Nat, NEW v \in Nat
  PROVE  /\ Seal!BitXor(u, v, 0) = 0
         /\ \A n \in Nat : Seal!BitXor(u, v, n + 1)
                           = (((u % 2) + (v % 2)) % 2) + 2 * Seal!BitXor(u \div 2, v \div 2, n)
<1> DEFINE bit == [q \in {0, 1} \X {0, 1} |-> (q[1] + q[2]) % 2]
           body(s) == [n \in Nat |->
                        [p \in Nat \X Nat |->
                          IF n = 0 THEN 0
                          ELSE (((p[1] % 2) + (p[2] % 2)) % 2)
                               + 2 * s[n - 1][<<p[1] \div 2, p[2] \div 2>>]]]
           word == CHOOSE s : s = body(s)
<1>1. \A x, y \in Nat, n \in Nat : Seal!BitXor(x, y, n) = word[n][<<x, y>>]
  BY DEF Seal!BitXor, Seal!OnBits
<1>2. bit \in [{0, 1} \X {0, 1} -> {0, 1}]
      /\ \A x, y \in {0, 1} : bit[<<x, y>>] = (x + y) % 2
  BY SMTT(30)
<1> HIDE DEF bit
<1>3. ASSUME NEW s
      PROVE  body(s) = ByBits(bit, s)
  <2>1. ASSUME NEW n \in Nat, NEW p \in Pairs
        PROVE  bit[<<p[1] % 2, p[2] % 2>>] = ((p[1] % 2) + (p[2] % 2)) % 2
    <3>1. p[1] \in Nat /\ p[2] \in Nat
      BY DEF Pairs
    <3>2. p[1] % 2 \in {0, 1} /\ p[2] % 2 \in {0, 1}
      BY <3>1, BitAndRest
    <3>3. QED
      BY <1>2, <3>2
  <2>2. QED
    BY <2>1 DEF ByBits, Pairs
<1>4. \E s : s = body(s)
  BY <1>2, <1>3, ByBitsExists, ZenonT(40)
<1>5. word = ByBits(bit, word)
  <2>1. word = body(word)
    <3> HIDE DEF body
    <3>1. QED
      BY <1>4
  <2> HIDE DEF word, body
  <2>2. QED
    BY <1>3, <2>1
<1> HIDE DEF word, body
<1>6. /\ u % 2 \in {0, 1} /\ v % 2 \in {0, 1} /\ u \div 2 \in Nat /\ v \div 2 \in Nat
      /\ bit[<<u % 2, v % 2>>] = ((u % 2) + (v % 2)) % 2
  BY <1>2, BitAndRest
<1>7. /\ word[0][<<u, v>>] = 0
      /\ \A n \in Nat : word[n + 1][<<u, v>>]
           = bit[<<u % 2, v % 2>>] + 2 * word[n][<<u \div 2, v \div 2>>]
  <2>1. AreWords(bit, word)
    BY <1>2, <1>5, ByBitsAre
  <2>2. QED
    BY <2>1 DEF AreWords
<1>8. Seal!BitXor(u, v, 0) = 0
  BY <1>1, <1>7
<1>9. ASSUME NEW n \in Nat
       PROVE  Seal!BitXor(u, v, n + 1) = (((u % 2) + (v % 2)) % 2) + 2 * Seal!BitXor(u \div 2, v \div 2, n)
  <2>1. /\ Seal!BitXor(u, v, n + 1) = word[n + 1][<<u, v>>]
        /\ Seal!BitXor(u \div 2, v \div 2, n) = word[n][<<u \div 2, v \div 2>>]
    <3>1. n + 1 \in Nat
      OBVIOUS
    <3>2. QED
      BY <1>1, <1>6, <3>1, Zenon
  <2>2. QED
    BY <1>6, <1>7, <2>1
<1>10. QED
  BY <1>8, <1>9

EitherBit(b, c) == IF b + c > 0 THEN 1 ELSE 0

\* An OR, bit by bit.
LEMMA OrIs ==
  ASSUME NEW u \in Nat, NEW v \in Nat
  PROVE  /\ Seal!BitOr(u, v, 0) = 0
         /\ \A n \in Nat : Seal!BitOr(u, v, n + 1)
                           = EitherBit(u % 2, v % 2) + 2 * Seal!BitOr(u \div 2, v \div 2, n)
<1> DEFINE bit == [q \in {0, 1} \X {0, 1} |-> IF q[1] + q[2] > 0 THEN 1 ELSE 0]
           body(s) == [n \in Nat |->
                        [p \in Nat \X Nat |->
                          IF n = 0 THEN 0
                          ELSE (IF (p[1] % 2) + (p[2] % 2) > 0 THEN 1 ELSE 0)
                               + 2 * s[n - 1][<<p[1] \div 2, p[2] \div 2>>]]]
           word == CHOOSE s : s = body(s)
<1>1. \A x, y \in Nat, n \in Nat : Seal!BitOr(x, y, n) = word[n][<<x, y>>]
  BY DEF Seal!BitOr, Seal!OnBits
<1>2. bit \in [{0, 1} \X {0, 1} -> {0, 1}]
      /\ \A x, y \in {0, 1} : bit[<<x, y>>] = IF x + y > 0 THEN 1 ELSE 0
  BY SMTT(30)
<1> HIDE DEF bit
<1>3. ASSUME NEW s
      PROVE  body(s) = ByBits(bit, s)
  <2>1. ASSUME NEW n \in Nat, NEW p \in Pairs
        PROVE  bit[<<p[1] % 2, p[2] % 2>>] = IF (p[1] % 2) + (p[2] % 2) > 0 THEN 1 ELSE 0
    <3>1. p[1] \in Nat /\ p[2] \in Nat
      BY DEF Pairs
    <3>2. p[1] % 2 \in {0, 1} /\ p[2] % 2 \in {0, 1}
      BY <3>1, BitAndRest
    <3>3. QED
      BY <1>2, <3>2
  <2>2. QED
    BY <2>1 DEF ByBits, Pairs
<1>4. \E s : s = body(s)
  BY <1>2, <1>3, ByBitsExists, ZenonT(40)
<1>5. word = ByBits(bit, word)
  <2>1. word = body(word)
    <3> HIDE DEF body
    <3>1. QED
      BY <1>4
  <2> HIDE DEF word, body
  <2>2. QED
    BY <1>3, <2>1
<1> HIDE DEF word, body
<1>6. /\ u % 2 \in {0, 1} /\ v % 2 \in {0, 1} /\ u \div 2 \in Nat /\ v \div 2 \in Nat
      /\ bit[<<u % 2, v % 2>>] = EitherBit(u % 2, v % 2)
  BY <1>2, BitAndRest DEF EitherBit
<1>7. /\ word[0][<<u, v>>] = 0
      /\ \A n \in Nat : word[n + 1][<<u, v>>]
           = bit[<<u % 2, v % 2>>] + 2 * word[n][<<u \div 2, v \div 2>>]
  <2>1. AreWords(bit, word)
    BY <1>2, <1>5, ByBitsAre
  <2>2. QED
    BY <2>1 DEF AreWords
<1>8. Seal!BitOr(u, v, 0) = 0
  BY <1>1, <1>7
<1>9. ASSUME NEW n \in Nat
       PROVE  Seal!BitOr(u, v, n + 1) = EitherBit(u % 2, v % 2) + 2 * Seal!BitOr(u \div 2, v \div 2, n)
  <2>1. /\ Seal!BitOr(u, v, n + 1) = word[n + 1][<<u, v>>]
        /\ Seal!BitOr(u \div 2, v \div 2, n) = word[n][<<u \div 2, v \div 2>>]
    <3>1. n + 1 \in Nat
      OBVIOUS
    <3>2. QED
      BY <1>1, <1>6, <3>1, Zenon
  <2>2. QED
    BY <1>6, <1>7, <2>1
<1>10. QED
  BY <1>8, <1>9

\* A word is put together from its lowest bit and the rest.
LEMMA BitPutBack ==
  ASSUME NEW b \in {0, 1}, NEW y \in Nat
  PROVE  (b + 2 * y) \in Nat /\ (b + 2 * y) % 2 = b /\ (b + 2 * y) \div 2 = y
OBVIOUS

\* Half of a word is a word of one bit less.
LEMMA HalfBound ==
  ASSUME NEW p \in Nat, NEW x \in 0 .. 2 * p - 1
  PROVE  x \div 2 \in 0 .. p - 1
OBVIOUS

\* A word xor another twice is the word.
LEMMA XorTwice ==
  ASSUME NEW n \in Nat, NEW x \in 0 .. Seal!Power2[n] - 1, NEW y \in Nat
  PROVE  /\ Seal!BitXor(x, y, n) \in 0 .. Seal!Power2[n] - 1
         /\ Seal!BitXor(Seal!BitXor(x, y, n), y, n) = x
<1> DEFINE Good(m, u, v) ==
             /\ Seal!BitXor(u, v, m) \in 0 .. Seal!Power2[m] - 1
             /\ Seal!BitXor(Seal!BitXor(u, v, m), v, m) = u
           S == {m \in Nat : \A u \in 0 .. Seal!Power2[m] - 1, v \in Nat : Good(m, u, v)}
<1>1. 0 \in S
  <2>1. Seal!Power2[0] = 1
    BY Power2Is
  <2>2. ASSUME NEW u \in 0 .. Seal!Power2[0] - 1, NEW v \in Nat
        PROVE  Good(0, u, v)
    <3>1. u = 0
      BY <2>1, <2>2
    <3>2. Seal!BitXor(0, v, 0) = 0
      BY XorIs
    <3>3. 0 \in 0 .. Seal!Power2[0] - 1
      BY <2>1
    <3>4. QED
      BY <3>1, <3>2, <3>3
  <2>3. QED
    BY <2>2
<1>2. ASSUME NEW m \in S
      PROVE  m + 1 \in S
  <2>1. m \in Nat /\ m + 1 \in Nat /\ Seal!Power2[m] \in Nat \ {0}
        /\ Seal!Power2[m + 1] = 2 * Seal!Power2[m]
    BY Power2Is
  <2>2. ASSUME NEW u \in 0 .. Seal!Power2[m + 1] - 1, NEW v \in Nat
        PROVE  Good(m + 1, u, v)
    <3> DEFINE b == ((u % 2) + (v % 2)) % 2
               w == Seal!BitXor(u \div 2, v \div 2, m)
    <3>1. /\ u \in Nat /\ u % 2 \in {0, 1} /\ v % 2 \in {0, 1} /\ v \div 2 \in Nat
          /\ u \div 2 \in Nat /\ u = 2 * (u \div 2) + (u % 2)
      <4>1. u \in Nat
        BY <2>1
      <4>2. QED
        BY <4>1, BitAndRest, Zenon
    <3>2. u \div 2 \in 0 .. Seal!Power2[m] - 1
      BY <2>1, HalfBound
    <3>3. Good(m, u \div 2, v \div 2)
      <4> HIDE DEF Good
      <4>1. QED
        BY <1>2, <3>1, <3>2
    <3>4. w \in 0 .. Seal!Power2[m] - 1 /\ Seal!BitXor(w, v \div 2, m) = u \div 2
      BY <3>3
    <3>5. Seal!BitXor(u, v, m + 1) = b + 2 * w
      <4>1. u \in Nat /\ v \in Nat /\ m \in Nat
        BY <2>1, <3>1
      <4>2. QED
        BY <4>1, XorIs, Zenon
    <3> HIDE DEF w
    <3>6. b \in {0, 1} /\ (b + (v % 2)) % 2 = u % 2
      BY <3>1
    <3> HIDE DEF b
    <3>7. w \in Nat
      BY <2>1, <3>4
    <3>8. b + 2 * w \in Nat /\ (b + 2 * w) % 2 = b /\ (b + 2 * w) \div 2 = w
      BY <3>6, <3>7, BitPutBack
    <3>9. Seal!BitXor(b + 2 * w, v, m + 1)
          = ((((b + 2 * w) % 2) + (v % 2)) % 2) + 2 * Seal!BitXor((b + 2 * w) \div 2, v \div 2, m)
      <4>1. b + 2 * w \in Nat
        BY <3>8
      <4> DEFINE z == b + 2 * w
      <4> HIDE DEF z
      <4>2. z \in Nat
        BY <4>1 DEF z
      <4>3. Seal!BitXor(z, v, m + 1)
            = (((z % 2) + (v % 2)) % 2) + 2 * Seal!BitXor(z \div 2, v \div 2, m)
        BY <4>2, <2>1, XorIs, ZenonT(40)
      <4>4. QED
        BY <4>3 DEF z
    <3>10. Seal!BitXor(b + 2 * w, v, m + 1) = u
      <4>1. Seal!BitXor(b + 2 * w, v, m + 1) = (u % 2) + 2 * (u \div 2)
        BY <3>4, <3>6, <3>8, <3>9, Zenon
      <4>2. (u % 2) + 2 * (u \div 2) = u
        BY <3>1
      <4>3. QED
        BY <4>1, <4>2, Zenon
    <3>11. b + 2 * w \in 0 .. Seal!Power2[m + 1] - 1
      BY <2>1, <3>4, <3>6
    <3>12. QED
      BY <3>5, <3>10, <3>11
  <2> HIDE DEF Good
  <2>3. QED
    BY <2>1, <2>2
<1>3. S = Nat
  <2> HIDE DEF S
  <2>1. S \in SUBSET Nat
    BY DEF S
  <2>2. QED
    BY <1>1, <1>2, <2>1, Induction
<1>4. Good(n, x, y)
  <2> HIDE DEF Good
  <2>1. n \in S
    BY <1>3
  <2>2. QED
    BY <2>1
<1>5. QED
  BY <1>4

\* The lowest bit, and the remainder of the rest, make up the remainder.
LEMMA RemainderByBits ==
  ASSUME NEW x \in Nat, NEW p \in Nat \ {0}
  PROVE  x % (2 * p) = (x % 2) + 2 * ((x \div 2) % p)
<1> DEFINE q == (x \div 2) \div p
           d == (x \div 2) % p
<1>1. x \div 2 \in Nat /\ x % 2 \in {0, 1} /\ x = 2 * (x \div 2) + (x % 2)
  BY BitAndRest
<1>2. q \in Int /\ d \in 0 .. p - 1 /\ x \div 2 = p * q + d
  <2>1. x \div 2 \in Int /\ p \in Nat \ {0}
    BY <1>1
  <2>2. QED
    BY <2>1, DivMod, Zenon
<1> HIDE DEF q, d
<1>3. PICK b \in {0, 1} : b = x % 2
  BY <1>1
<1>4. x = q * (2 * p) + (b + 2 * d)
  <2>1. x = 2 * (p * q + d) + b
    BY <1>1, <1>2, <1>3
  <2>2. d \in Int
    BY <1>2
  <2>3. QED
    BY <1>2, <1>3, <2>1, <2>2, SMTT(30)
<1>5. b + 2 * d \in 0 .. 2 * p - 1
  BY <1>2, <1>3
<1>6. 2 * p \in Nat \ {0}
  OBVIOUS
<1>7. x % (2 * p) = b + 2 * d
  <2> DEFINE m == 2 * p
             e == b + 2 * d
  <2>1. m \in Nat \ {0} /\ e \in 0 .. m - 1 /\ x = q * m + e /\ x \in Int
    BY <1>4, <1>5, <1>6
  <2> HIDE DEF m, e
  <2>2. x % m = e
    BY <1>2, <2>1, Remainder
  <2>3. QED
    BY <2>2 DEF m, e
<1>8. QED
  BY <1>3, <1>7 DEF d

\* The OR of a number with one whose bits begin above it is their sum, as far as
\* the word holds it.
LEMMA OrIsSum ==
  ASSUME NEW n \in Nat, NEW m \in Nat, NEW x \in 0 .. Seal!Power2[m] - 1, NEW y \in Nat
  PROVE  Seal!BitOr(x, y * Seal!Power2[m], n) = (x + y * Seal!Power2[m]) % Seal!Power2[n]
<1> DEFINE Good(w, k, u, v) == Seal!BitOr(u, v * Seal!Power2[k], w)
                               = (u + v * Seal!Power2[k]) % Seal!Power2[w]
           S == {w \in Nat : \A k \in Nat : \A u \in 0 .. Seal!Power2[k] - 1, v \in Nat :
                               Good(w, k, u, v)}
<1>1. 0 \in S
  <2>1. ASSUME NEW k \in Nat, NEW u \in 0 .. Seal!Power2[k] - 1, NEW v \in Nat
        PROVE  Good(0, k, u, v)
    <3>1. Seal!Power2[0] = 1 /\ Seal!Power2[k] \in Nat
      BY Power2Is
    <3>2. u \in Nat /\ v * Seal!Power2[k] \in Nat
      BY <3>1
    <3>3. (u + v * Seal!Power2[k]) % 1 = 0
      BY <3>2
    <3>4. Seal!BitOr(u, v * Seal!Power2[k], 0) = 0
      BY <3>2, OrIs
    <3>5. QED
      BY <3>1, <3>3, <3>4
  <2> HIDE DEF Good
  <2>2. QED
    BY <2>1
<1>2. ASSUME NEW w \in S
      PROVE  w + 1 \in S
  <2>1. w \in Nat /\ w + 1 \in Nat /\ Seal!Power2[w] \in Nat \ {0}
        /\ Seal!Power2[w + 1] = 2 * Seal!Power2[w]
    BY Power2Is
  <2>2. ASSUME NEW k \in Nat, NEW u \in 0 .. Seal!Power2[k] - 1, NEW v \in Nat
        PROVE  Good(w + 1, k, u, v)
    <3> DEFINE t == v * Seal!Power2[k]
    <3>1. u \in Nat /\ t \in Nat /\ Seal!Power2[k] \in Nat \ {0}
      <4>1. Seal!Power2[k] \in Nat \ {0}
        BY Power2Is
      <4>2. QED
        BY <4>1
    <3>2. /\ u % 2 \in {0, 1} /\ u \div 2 \in Nat /\ u = 2 * (u \div 2) + (u % 2)
          /\ t % 2 \in {0, 1} /\ t \div 2 \in Nat /\ t = 2 * (t \div 2) + (t % 2)
      <4> HIDE DEF t
      <4>1. QED
        BY <3>1, BitAndRest, Zenon
    <3>3. /\ Seal!BitOr(u \div 2, t \div 2, w) = ((u \div 2) + (t \div 2)) % Seal!Power2[w]
          /\ u % 2 = 0 \/ t % 2 = 0
      <4>1. CASE k = 0
        <5>1. Seal!Power2[0] = 1
          BY Power2Is
        <5>2. u = 0 /\ t = v
          BY <4>1, <5>1
        <5>3. u \div 2 = 0 /\ u % 2 = 0
          BY <5>2
        <5>4. Good(w, 0, 0, t \div 2)
          <6>1. 0 \in 0 .. Seal!Power2[0] - 1
            BY <5>1
          <6> HIDE DEF Good, t
          <6>2. QED
            BY <1>2, <3>2, <6>1
        <5>5. (t \div 2) * 1 = t \div 2
          BY <3>2
        <5> HIDE DEF t
        <5>6. QED
          BY <5>1, <5>3, <5>4, <5>5
      <4>2. CASE k # 0
        <5>1. k - 1 \in Nat /\ (k - 1) + 1 = k
          BY <4>2
        <5>2. PICK j \in Nat : j = k - 1 /\ j + 1 = k
          BY <5>1
        <5>3. Seal!Power2[j] \in Nat \ {0} /\ Seal!Power2[k] = 2 * Seal!Power2[j]
          BY <5>2, Power2Is
        <5>4. u \div 2 \in 0 .. Seal!Power2[j] - 1
          BY <5>3, HalfBound
        <5>5. Good(w, j, u \div 2, v)
          <6> HIDE DEF Good
          <6>1. QED
            BY <1>2, <5>4
        <5>6. t = 2 * (v * Seal!Power2[j]) /\ v * Seal!Power2[j] \in Nat
          BY <5>3
        <5>7. t \div 2 = v * Seal!Power2[j] /\ t % 2 = 0
          BY <5>6
        <5> HIDE DEF t
        <5>8. QED
          BY <5>5, <5>7
      <4>3. QED
        BY <4>1, <4>2
    <3> HIDE DEF t
    <3>4. /\ (u + t) % 2 = EitherBit(u % 2, t % 2)
          /\ (u + t) \div 2 = (u \div 2) + (t \div 2)
      <4>1. PICK b \in {0, 1}, c \in {0, 1}, d \in Nat, e \in Nat :
              b = u % 2 /\ c = t % 2 /\ d = u \div 2 /\ e = t \div 2
        BY <3>2
      <4>2. u + t = (b + c) + 2 * (d + e) /\ b + c \in {0, 1} /\ d + e \in Nat
        <5>1. u = 2 * d + b /\ t = 2 * e + c /\ (b = 0 \/ c = 0)
          BY <3>2, <3>3, <4>1, Zenon
        <5>2. QED
          BY <5>1
      <4>3. (u + t) % 2 = b + c /\ (u + t) \div 2 = d + e
        BY <4>2, BitPutBack
      <4>4. b + c = EitherBit(b, c)
        BY <4>2 DEF EitherBit
      <4>5. QED
        BY <4>1, <4>3, <4>4
    <3>5. u + t \in Nat
      BY <3>1
    <3>6. (u + t) % (2 * Seal!Power2[w])
          = ((u + t) % 2) + 2 * (((u + t) \div 2) % Seal!Power2[w])
      BY <2>1, <3>5, RemainderByBits
    <3>7. Seal!BitOr(u, t, w + 1) = EitherBit(u % 2, t % 2)
                                     + 2 * Seal!BitOr(u \div 2, t \div 2, w)
      <4>1. u \in Nat /\ t \in Nat /\ w \in Nat
        BY <2>1, <3>1
      <4> HIDE DEF S, Good
      <4>2. \A n1 \in Nat : Seal!BitOr(u, t, n1 + 1)
                           = EitherBit(u % 2, t % 2) + 2 * Seal!BitOr(u \div 2, t \div 2, n1)
        BY <4>1, OrIs, Zenon
      <4>3. QED
        BY <4>1, <4>2, Zenon
    <3>8. Seal!BitOr(u, t, w + 1) = (u + t) % Seal!Power2[w + 1]
      BY <2>1, <3>3, <3>4, <3>6, <3>7
    <3>9. QED
      BY <3>8 DEF t
  <2> HIDE DEF Good
  <2>3. QED
    BY <2>1, <2>2
<1>3. S = Nat
  <2> HIDE DEF S
  <2>1. S \in SUBSET Nat
    BY DEF S
  <2>2. QED
    BY <1>1, <1>2, <2>1, Induction
<1>4. Good(n, m, x, y)
  <2> HIDE DEF Good
  <2>1. n \in S
    BY <1>3
  <2>2. QED
    BY <2>1
<1>5. QED
  BY <1>4

\* Powers multiply.
LEMMA PowerOfSum ==
  ASSUME NEW n \in Nat, NEW m \in Nat
  PROVE  Seal!Power2[n + m] = Seal!Power2[n] * Seal!Power2[m]
<1> DEFINE S == {k \in Nat : Seal!Power2[n + k] = Seal!Power2[n] * Seal!Power2[k]}
<1>1. \A k \in Nat : Seal!Power2[k] \in Nat /\ Seal!Power2[k + 1] = 2 * Seal!Power2[k]
  BY Power2Is
<1>2. 0 \in S
  <2>1. Seal!Power2[0] = 1 /\ n + 0 = n
    BY Power2Is
  <2>2. QED
    BY <1>1, <2>1
<1>3. ASSUME NEW k \in S
      PROVE  k + 1 \in S
  <2>1. k \in Nat /\ n + k \in Nat /\ n + (k + 1) = (n + k) + 1
    OBVIOUS
  <2>2. PICK a \in Nat, b \in Nat : a = Seal!Power2[n] /\ b = Seal!Power2[k]
    BY <1>1
  <2>3. Seal!Power2[n + (k + 1)] = 2 * (a * b)
    BY <1>1, <2>1, <2>2
  <2>4. Seal!Power2[k + 1] = 2 * b
    BY <1>1, <2>2
  <2>5. 2 * (a * b) = a * (2 * b)
    OBVIOUS
  <2>6. QED
    BY <2>1, <2>2, <2>3, <2>4, <2>5
<1>4. S = Nat
  <2> HIDE DEF S
  <2>1. S \in SUBSET Nat
    BY DEF S
  <2>2. QED
    BY <1>2, <1>3, <2>1, Induction
<1>5. QED
  BY <1>4

-----------------------------------------------------------------------------
\* What bytes are.
Base == Seal!Power2[ByteBits]
Byte == 0 .. Base - 1

\* The constants of the seal.
LEMMA SealTyped ==
  /\ Base \in Nat \ {0, 1} /\ ByteBits \in Nat \ {0} /\ BlockBytes \in Nat \ {0, 1}
  /\ ChunkBytes \in Nat \ {0} /\ LimbWidth \in Nat
  /\ MacRadix = Seal!Power2[LimbWidth] /\ BlockBytes * ByteBits + 2 = 5 * LimbWidth
  /\ MacRadix \in Nat \ {0} /\ MacFold \in Nat \ {0} /\ Seal!P > 0
  /\ Seal!BlockSpan = Seal!Power2[BlockBytes * ByteBits] /\ Seal!BlockSpan \in Nat \ {0}
  /\ MaxAad \in 0 .. Base - 1 /\ MaxLen \in 0 .. Base - 1
  /\ Bytes \subseteq Byte /\ Rs \subseteq 0 .. Seal!BlockSpan - 1
  /\ Pads \subseteq 0 .. Seal!BlockSpan - 1
<1>1. Seal!LimbAssumption /\ Seal!AeadAssumption
  BY PartsAssumption
<1>2. ByteBits \in Nat \ {0} /\ BlockBytes \in Nat /\ BlockBytes * ByteBits \in Nat
  BY <1>1 DEF Seal!AeadAssumption
<1>3. Base \in Nat \ {0, 1}
  <2>1. PICK b \in Nat : ByteBits = b + 1
    <3>1. ByteBits - 1 \in Nat /\ ByteBits = (ByteBits - 1) + 1
      BY <1>2
    <3>2. QED
      BY <3>1
  <2>2. Seal!Power2[b] \in Nat \ {0} /\ Base = 2 * Seal!Power2[b]
    BY <2>1, Power2Is DEF Base
  <2>3. QED
    BY <2>2
<1>4. Seal!BlockSpan = Seal!Power2[BlockBytes * ByteBits] /\ Seal!BlockSpan \in Nat \ {0}
  BY <1>2, Power2Is DEF Seal!BlockSpan
<1>5. QED
  BY <1>1, <1>3, <1>4 DEF Seal!LimbAssumption, Seal!AeadAssumption, Base, Byte

\* The numbers that the last bytes of a block stand for.
Uppers(bytes, u) ==
  /\ u \in [0 .. Len(bytes) -> Nat] /\ u[0] = 0
  /\ \A k \in 1 .. Len(bytes) : u[k] = bytes[Len(bytes) - k + 1] + Base * u[k - 1]

\* The number of a block is the last of those the recursion gives.
LEMMA BlockIs ==
  ASSUME NEW bytes \in Seq(Byte)
  PROVE  \E u : Uppers(bytes, u) /\ Seal!BlockOf(bytes) = u[Len(bytes)]
<1> DEFINE n == Len(bytes)
           body(s) == [k \in 0 .. n |->
                         IF k = 0 THEN 0 ELSE bytes[n - k + 1] + Base * s[k - 1]]
           upper == CHOOSE s : s = body(s)
           step == [k \in 1 .. n |-> [m \in Nat |-> bytes[n - k + 1] + Base * m]]
<1>1. n \in Nat /\ \A k \in 1 .. n : bytes[n - k + 1] \in Byte
  <2>1. n \in Nat
    OBVIOUS
  <2>2. ASSUME NEW k \in 1 .. n
        PROVE  bytes[n - k + 1] \in Byte
    <3>1. n - k + 1 \in 1 .. n
      BY <2>1
    <3>2. QED
      BY <3>1
  <2>3. QED
    BY <2>1, <2>2
<1> HIDE DEF n
<1>2. step \in [1 .. n -> [Nat -> Nat]]
      /\ \A k \in 1 .. n : \A m \in Nat : step[k][m] = bytes[n - k + 1] + Base * m
  <2>1. ASSUME NEW k \in 1 .. n, NEW m \in Nat
        PROVE  bytes[n - k + 1] + Base * m \in Nat
    <3>1. bytes[n - k + 1] \in Nat /\ Base \in Nat
      BY <1>1, SealTyped DEF Byte
    <3>2. QED
      BY <3>1
  <2>2. QED
    BY <2>1
<1> HIDE DEF step
<1>3. Recursion(Nat, 0, n, step)
  <2>1. 0 \in Nat
    OBVIOUS
  <2>2. QED
    BY <1>1, <1>2, <2>1, RecursionExists, Zenon
<1>4. PICK w \in [0 .. n -> Nat] : w[0] = 0 /\ \A k \in 1 .. n : w[k] = step[k][w[k - 1]]
  BY <1>3 DEF Recursion
<1>5. ASSUME NEW k \in 0 .. n
      PROVE  w[k] = IF k = 0 THEN 0 ELSE bytes[n - k + 1] + Base * w[k - 1]
  <2>1. CASE k = 0
    BY <1>4, <2>1
  <2>2. CASE k # 0
    <3>1. k \in 1 .. n /\ k - 1 \in 0 .. n
      BY <1>1, <2>2
    <3>2. w[k - 1] \in Nat
      BY <1>4, <3>1
    <3>3. w[k] = bytes[n - k + 1] + Base * w[k - 1]
      BY <1>2, <1>4, <3>1, <3>2
    <3>4. QED
      BY <2>2, <3>3
  <2>3. QED
    BY <2>1, <2>2
<1>6. w = body(w)
  BY <1>4, <1>5
<1>7. upper = body(upper)
  <2> HIDE DEF body
  <2>1. QED
    BY <1>6
<1>8. Seal!BlockOf(bytes) = upper[n]
  BY DEF Seal!BlockOf, Base, n
<1> HIDE DEF upper
<1>9. /\ upper[0] = 0
      /\ \A k \in 1 .. n : upper[k] = bytes[n - k + 1] + Base * upper[k - 1]
      /\ upper = [k \in 0 .. n |-> upper[k]]
  <2>1. \A k \in 0 .. n : upper[k] = IF k = 0 THEN 0 ELSE bytes[n - k + 1] + Base * upper[k - 1]
    BY <1>7
  <2>2. upper = [k \in 0 .. n |-> upper[k]]
    BY <1>7
  <2> HIDE DEF body
  <2>3. 0 \in 0 .. n /\ \A k \in 1 .. n : k \in 0 .. n /\ k # 0
    BY <1>1
  <2>4. QED
    BY <2>1, <2>2, <2>3
<1>10. \A k \in 0 .. n : upper[k] \in Nat
  <2> DEFINE S == {k \in Nat : k <= n => upper[k] \in Nat}
  <2>1. 0 \in S
    BY <1>9
  <2>2. ASSUME NEW k \in S
        PROVE  k + 1 \in S
    <3>1. CASE k + 1 <= n
      <4>1. k + 1 \in 1 .. n /\ (k + 1) - 1 = k /\ upper[k] \in Nat
        BY <2>2, <3>1, <1>1
      <4>2. bytes[n - (k + 1) + 1] \in Nat /\ Base \in Nat
        <5>1. \A x \in Byte : x \in Nat
          BY SealTyped DEF Byte
        <5>2. QED
          BY <1>1, <4>1, <5>1, SealTyped
      <4>3. upper[k + 1] = bytes[n - (k + 1) + 1] + Base * upper[k]
        BY <1>9, <4>1
      <4>4. QED
        BY <4>1, <4>2, <4>3
    <3>2. CASE ~(k + 1 <= n)
      BY <3>2
    <3>3. QED
      BY <3>1, <3>2
  <2>3. S = Nat
    <3> HIDE DEF S
    <3>1. S \in SUBSET Nat
      BY DEF S
    <3>2. QED
      BY <2>1, <2>2, <3>1, Induction
  <2>4. QED
    BY <2>3, <1>1, SMTT(30)
<1>11. Uppers(bytes, upper)
  <2>1. upper \in [0 .. n -> Nat]
    BY <1>9, <1>10
  <2>2. QED
    BY <1>9, <2>1 DEF Uppers, n
<1>12. QED
  BY <1>8, <1>11 DEF n

\* A block of so many bytes is within as many bits.
LEMMA BlockWithin ==
  ASSUME NEW bytes \in Seq(Byte)
  PROVE  Seal!BlockOf(bytes) \in 0 .. Seal!Power2[Len(bytes) * ByteBits] - 1
<1>1. PICK u : Uppers(bytes, u) /\ Seal!BlockOf(bytes) = u[Len(bytes)]
  BY BlockIs
<1> DEFINE n == Len(bytes)
           S == {k \in Nat : k <= n => u[k] \in 0 .. Seal!Power2[k * ByteBits] - 1}
<1>2. n \in Nat /\ ByteBits \in Nat /\ Base \in Nat
  BY SealTyped
<1>3. u[0] = 0 /\ \A k \in 1 .. n : u[k] = bytes[n - k + 1] + Base * u[k - 1]
  BY <1>1 DEF Uppers
<1>4. \A k \in 1 .. n : bytes[n - k + 1] \in Byte
  <2>1. \A k \in 1 .. n : n - k + 1 \in 1 .. n
    BY <1>2
  <2>2. \A k \in 1 .. n : bytes[k] \in Byte
    OBVIOUS
  <2>3. QED
    BY <2>1, <2>2
<1> HIDE DEF n
<1>5. 0 \in S
  <2>1. 0 * ByteBits = 0 /\ Seal!Power2[0] = 1
    BY <1>2, Power2Is
  <2>2. QED
    BY <1>3, <2>1
<1>6. ASSUME NEW k \in S, k + 1 <= n
      PROVE  u[k + 1] \in 0 .. Seal!Power2[(k + 1) * ByteBits] - 1
  <2>1. k \in Nat /\ k + 1 \in 1 .. n /\ (k + 1) - 1 = k
    BY <1>2, <1>6
  <2>2. k * ByteBits \in Nat /\ (k + 1) * ByteBits = ByteBits + k * ByteBits
    BY <1>2, <2>1
  <2>3. /\ Seal!Power2[(k + 1) * ByteBits] = Base * Seal!Power2[k * ByteBits]
        /\ Seal!Power2[k * ByteBits] \in Nat \ {0}
    <3>1. Seal!Power2[ByteBits + k * ByteBits] = Seal!Power2[ByteBits] * Seal!Power2[k * ByteBits]
      BY <1>2, <2>2, PowerOfSum, Zenon
    <3>2. Seal!Power2[k * ByteBits] \in Nat \ {0}
      BY <2>2, Power2Is, Zenon
    <3>3. QED
      BY <2>2, <3>1, <3>2, Zenon DEF Base
  <2>4. u[k] \in 0 .. Seal!Power2[k * ByteBits] - 1
    BY <1>6, <1>2, <2>1
  <2>5. PICK b \in Byte : b = bytes[n - (k + 1) + 1]
    BY <1>4, <2>1
  <2>6. u[k + 1] = b + Base * u[k]
    BY <1>3, <2>1, <2>5
  <2>7. PICK p \in Nat : p = Seal!Power2[k * ByteBits]
    BY <2>3
  <2>8. PICK v \in 0 .. p - 1 : v = u[k]
    BY <2>4, <2>7
  <2>9. b + Base * v \in 0 .. Base * p - 1
    <3>1. Base * v <= Base * (p - 1)
      BY <1>2, <2>7, <2>8, SMTT(30)
    <3>2. Base * (p - 1) = Base * p - Base
      BY <1>2, <2>7
    <3>3. b \in 0 .. Base - 1 /\ Base * v \in Nat /\ Base * p \in Nat
      BY <1>2, <2>7, <2>8, SMTT(30) DEF Byte
    <3>4. QED
      BY <1>2, <3>1, <3>2, <3>3
  <2>10. QED
    BY <2>3, <2>6, <2>7, <2>8, <2>9
<1>7. S = Nat
  <2>1. \A k \in S : k + 1 \in S
    BY <1>6
  <2> HIDE DEF S
  <2>2. S \in SUBSET Nat
    BY DEF S
  <2>3. QED
    BY <1>5, <2>1, <2>2, Induction
<1>8. u[n] \in 0 .. Seal!Power2[n * ByteBits] - 1
  BY <1>2, <1>7
<1>9. QED
  BY <1>1, <1>8 DEF n

\* Blocks of as many bytes are equal only if their bytes are.
LEMMA BlocksApart ==
  ASSUME NEW a \in Seq(Byte), NEW b \in Seq(Byte), Len(a) = Len(b),
         Seal!BlockOf(a) = Seal!BlockOf(b)
  PROVE  a = b
<1> DEFINE n == Len(a)
<1>1. PICK u : Uppers(a, u) /\ Seal!BlockOf(a) = u[n]
  BY BlockIs
<1>2. PICK v : Uppers(b, v) /\ Seal!BlockOf(b) = v[n]
  BY BlockIs
<1>3. n \in Nat /\ Base \in Nat \ {0}
  BY SealTyped
<1>4. /\ \A k \in 0 .. n : u[k] \in Nat /\ v[k] \in Nat
      /\ \A k \in 1 .. n : u[k] = a[n - k + 1] + Base * u[k - 1]
      /\ \A k \in 1 .. n : v[k] = b[n - k + 1] + Base * v[k - 1]
  BY <1>1, <1>2 DEF Uppers
<1>5. \A i \in 1 .. n : a[i] \in Byte /\ b[i] \in Byte
  OBVIOUS
<1>6. u[n] = v[n]
  BY <1>1, <1>2, Zenon
<1> HIDE DEF n
<1>7. ASSUME NEW k \in 1 .. n, u[k] = v[k]
      PROVE  u[k - 1] = v[k - 1] /\ a[n - k + 1] = b[n - k + 1]
  <2>1. n - k + 1 \in 1 .. n /\ k - 1 \in 0 .. n
    BY <1>3
  <2>2. a[n - k + 1] \in 0 .. Base - 1 /\ b[n - k + 1] \in 0 .. Base - 1
    BY <1>5, <2>1 DEF Byte
  <2>3. PICK x \in 0 .. Base - 1, y \in 0 .. Base - 1, p \in Nat, q \in Nat :
          x = a[n - k + 1] /\ y = b[n - k + 1] /\ p = u[k - 1] /\ q = v[k - 1]
    BY <1>4, <2>1, <2>2
  <2>4. x + Base * p = y + Base * q
    BY <1>4, <1>7, <2>3
  <2>5. PICK z \in Nat : z = x + Base * p /\ z = p * Base + x /\ z = q * Base + y
    BY <1>3, <2>4
  <2>6. z % Base = x /\ z % Base = y
    <3>1. p \in Int /\ q \in Int /\ z \in Int
      OBVIOUS
    <3>2. QED
      BY <1>3, <2>5, <3>1, Remainder, Zenon
  <2>7. Base * p = Base * q
    BY <1>3, <2>4, <2>6
  <2>8. p = q
    BY <1>3, <2>7
  <2>9. QED
    BY <2>3, <2>6, <2>8
<1> DEFINE S == {i \in Nat : i <= n => u[n - i] = v[n - i]}
<1>8. S = Nat
  <2>1. 0 \in S
    <3>1. n - 0 = n
      BY <1>3
    <3>2. QED
      BY <1>6, <3>1
  <2>2. ASSUME NEW i \in S, i + 1 <= n
        PROVE  u[n - (i + 1)] = v[n - (i + 1)]
    <3>1. n - i \in 1 .. n /\ (n - i) - 1 = n - (i + 1) /\ u[n - i] = v[n - i]
      BY <1>3, <2>2
    <3>2. QED
      BY <1>7, <3>1
  <2>3. \A i \in S : i + 1 \in S
    BY <2>2
  <2> HIDE DEF S
  <2>4. S \in SUBSET Nat
    BY DEF S
  <2>5. QED
    BY <2>1, <2>3, <2>4, Induction
<1>9. ASSUME NEW i \in 1 .. n
      PROVE  a[i] = b[i]
  <2>1. n - i + 1 \in 1 .. n /\ i - 1 \in Nat /\ i - 1 <= n
        /\ n - (i - 1) = n - i + 1 /\ n - (n - i + 1) + 1 = i
    BY <1>3
  <2>2. u[n - i + 1] = v[n - i + 1]
    BY <1>8, <2>1
  <2>3. a[n - (n - i + 1) + 1] = b[n - (n - i + 1) + 1]
    BY <1>7, <2>1, <2>2
  <2>4. QED
    BY <2>1, <2>3
<1>10. QED
  BY <1>9, SeqEqual DEF n

\* A greater power is a greater number.
LEMMA PowerGrows ==
  ASSUME NEW n \in Nat, NEW m \in Nat, n <= m
  PROVE  Seal!Power2[n] <= Seal!Power2[m]
<1>1. PICK k \in Nat : m = n + k
  <2>1. m - n \in Nat /\ m = n + (m - n)
    OBVIOUS
  <2>2. QED
    BY <2>1
<1>2. Seal!Power2[m] = Seal!Power2[n] * Seal!Power2[k]
  BY <1>1, PowerOfSum, Zenon
<1>3. Seal!Power2[n] \in Nat \ {0} /\ Seal!Power2[k] \in Nat \ {0}
  BY Power2Is, Zenon
<1>4. QED
  BY <1>2, <1>3

\* A message in pieces of a block.
PieceCount(bytes) == (Len(bytes) + BlockBytes - 1) \div BlockBytes
PieceEnd(bytes, k) == IF k * BlockBytes < Len(bytes) THEN k * BlockBytes ELSE Len(bytes)
Piece(bytes, k) == SubSeq(bytes, (k - 1) * BlockBytes + 1, PieceEnd(bytes, k))

\* A piece is not empty and not longer than a block.
LEMMA PieceIs ==
  ASSUME NEW bytes \in Seq(Byte), NEW k \in 1 .. PieceCount(bytes)
  PROVE  /\ Piece(bytes, k) \in Seq(Byte)
         /\ Len(Piece(bytes, k)) = PieceEnd(bytes, k) - (k - 1) * BlockBytes
         /\ Len(Piece(bytes, k)) \in 1 .. BlockBytes
         /\ \A j \in 1 .. Len(Piece(bytes, k)) :
              Piece(bytes, k)[j] = bytes[(k - 1) * BlockBytes + j]
<1> DEFINE n == Len(bytes)
           start == (k - 1) * BlockBytes
           end == PieceEnd(bytes, k)
           c == end - start
<1>1. n \in Nat /\ BlockBytes \in Nat \ {0} /\ k \in Nat \ {0}
  <2>1. n \in Nat /\ BlockBytes \in Nat \ {0}
    BY SealTyped
  <2>2. PieceCount(bytes) \in Int
    BY <2>1 DEF PieceCount
  <2>3. QED
    BY <2>1, <2>2
<1>2. start \in Nat /\ k * BlockBytes = start + BlockBytes
  BY <1>1
<1>3. start < n
  <2> DEFINE q == PieceCount(bytes)
             x == n + BlockBytes - 1
  <2>1. x \in Int /\ BlockBytes \in Nat \ {0} /\ q = x \div BlockBytes
    BY <1>1 DEF PieceCount
  <2> HIDE DEF x, q
  <2>2. q \in Int /\ x % BlockBytes \in 0 .. BlockBytes - 1
        /\ x = BlockBytes * q + (x % BlockBytes)
    BY <2>1, DivMod, Zenon
  <2>3. BlockBytes * q <= x
    BY <2>1, <2>2
  <2>4. k <= q
    BY <2>2 DEF q
  <2>5. BlockBytes * k <= BlockBytes * q
    BY <1>1, <2>2, <2>4
  <2>6. k * BlockBytes <= x
    BY <1>1, <2>1, <2>2, <2>3, <2>5
  <2>7. QED
    BY <1>1, <1>2, <2>6 DEF x
<1>4. end \in Nat /\ c \in 1 .. BlockBytes /\ end = start + c /\ end <= n
  BY <1>1, <1>2, <1>3 DEF PieceEnd
<1> HIDE DEF n, start, end, c
<1>5. c \in Nat
  BY <1>1, <1>4
<1>6. Piece(bytes, k) = SubSeq(bytes, start + 1, end)
  BY DEF Piece, start, end
<1>7. /\ Piece(bytes, k) \in Seq(Byte) /\ Len(Piece(bytes, k)) = c
      /\ \A j \in 1 .. c : Piece(bytes, k)[j] = bytes[start + j]
  <2>1. end <= Len(bytes)
    BY <1>4 DEF n
  <2> DEFINE w == SubSeq(bytes, start + 1, end)
  <2>2. /\ w \in Seq(Byte) /\ Len(w) = c
        /\ \A j \in 1 .. c : w[j] = bytes[start + j]
    BY <1>2, <1>4, <1>5, <2>1, Slice
  <2> HIDE DEF w
  <2>3. Piece(bytes, k) = w
    BY <1>6 DEF w
  <2>4. QED
    BY <2>2, <2>3, Zenon
<1>8. QED
  BY <1>4, <1>7 DEF c, start, end

\* The blocks of a message are those of its pieces.
LEMMA BlocksAre ==
  ASSUME NEW bytes \in Seq(Byte)
  PROVE  /\ PieceCount(bytes) \in Nat
         /\ Seal!BlocksOf(bytes) \in Seq(0 .. Seal!BlockSpan - 1)
         /\ Len(Seal!BlocksOf(bytes)) = PieceCount(bytes)
         /\ \A k \in 1 .. PieceCount(bytes) :
              Seal!BlocksOf(bytes)[k] = Seal!BlockOf(Piece(bytes, k))
<1> DEFINE n == PieceCount(bytes)
<1>1. n \in Nat
  <2>1. Len(bytes) \in Nat /\ BlockBytes \in Nat \ {0}
    BY SealTyped
  <2>2. QED
    BY <2>1 DEF PieceCount
<1>2. Seal!BlocksOf(bytes) = [k \in 1 .. n |-> Seal!BlockOf(Piece(bytes, k))]
  BY DEF Seal!BlocksOf, PieceCount, Piece, PieceEnd
<1>3. ASSUME NEW k \in 1 .. n
      PROVE  Seal!BlockOf(Piece(bytes, k)) \in 0 .. Seal!BlockSpan - 1
  <2>1. Piece(bytes, k) \in Seq(Byte) /\ Len(Piece(bytes, k)) \in 1 .. BlockBytes
    BY PieceIs
  <2>2. PICK m \in 1 .. BlockBytes : m = Len(Piece(bytes, k))
    BY <2>1
  <2>3. m \in Nat /\ BlockBytes \in Nat /\ ByteBits \in Nat
    BY SealTyped
  <2>4. m * ByteBits \in Nat /\ BlockBytes * ByteBits \in Nat /\ m * ByteBits <= BlockBytes * ByteBits
    BY <2>3
  <2>5. Seal!Power2[m * ByteBits] <= Seal!BlockSpan
    <3>1. Seal!Power2[m * ByteBits] <= Seal!Power2[BlockBytes * ByteBits]
      BY <2>4, PowerGrows, Zenon
    <3>2. QED
      BY <3>1, SealTyped, Zenon
  <2>6. Seal!BlockOf(Piece(bytes, k)) \in 0 .. Seal!Power2[m * ByteBits] - 1
    BY <2>1, <2>2, BlockWithin, Zenon
  <2>7. Seal!Power2[m * ByteBits] \in Nat /\ Seal!BlockSpan \in Nat
    <3>1. Seal!Power2[m * ByteBits] \in Nat \ {0}
      BY <2>4, Power2Is, Zenon
    <3>2. QED
      BY <3>1, SealTyped
  <2>8. QED
    BY <2>5, <2>6, <2>7
<1> HIDE DEF n
<1>4. [k \in 1 .. n |-> Seal!BlockOf(Piece(bytes, k))] \in [1 .. n -> 0 .. Seal!BlockSpan - 1]
  BY <1>3
<1> DEFINE s == [k \in 1 .. n |-> Seal!BlockOf(Piece(bytes, k))]
<1>5. s \in [1 .. n -> 0 .. Seal!BlockSpan - 1]
      /\ \A k \in 1 .. n : s[k] = Seal!BlockOf(Piece(bytes, k))
  BY <1>4
<1> HIDE DEF s
<1>6. s \in Seq(0 .. Seal!BlockSpan - 1) /\ Len(s) = n
  <2> DEFINE D == 0 .. Seal!BlockSpan - 1
  <2>1. s \in [1 .. n -> D]
    BY <1>5
  <2> HIDE DEF D
  <2>2. s \in Seq(D) /\ Len(s) = n
    BY <1>1, <2>1
  <2>3. QED
    BY <2>2 DEF D
<1>7. Seal!BlocksOf(bytes) = s
  BY <1>2 DEF s
<1>8. QED
  BY <1>1, <1>5, <1>6, <1>7 DEF n

\* Texts of one length have the same blocks only if they are the same.
LEMMA BlocksOfApart ==
  ASSUME NEW a \in Seq(Byte), NEW b \in Seq(Byte), Len(a) = Len(b),
         Seal!BlocksOf(a) = Seal!BlocksOf(b)
  PROVE  a = b
<1>1. ASSUME NEW i \in 1 .. Len(a)
      PROVE  a[i] = b[i]
  <2> DEFINE n == Len(a)
             k == (i - 1) \div BlockBytes + 1
             j == ((i - 1) % BlockBytes) + 1
  <2>1. n \in Nat /\ BlockBytes \in Nat \ {0} /\ i \in 1 .. n
    BY SealTyped
  <2> HIDE DEF n
  <2>2. /\ i - 1 \in Int /\ (i - 1) \div BlockBytes \in Int
        /\ (i - 1) % BlockBytes \in 0 .. BlockBytes - 1
        /\ i - 1 = BlockBytes * ((i - 1) \div BlockBytes) + ((i - 1) % BlockBytes)
    <3>1. i - 1 \in Int
      BY <2>1
    <3>2. QED
      BY <2>1, <3>1, DivMod, Zenon
  <2>3. PICK q \in Int, d \in 0 .. BlockBytes - 1 :
          q = (i - 1) \div BlockBytes /\ d = (i - 1) % BlockBytes
    BY <2>2
  <2>4. i = BlockBytes * q + d + 1 /\ k = q + 1 /\ j = d + 1
    BY <2>1, <2>2, <2>3
  <2> HIDE DEF k, j
  <2>5. q >= 0
    BY <2>1, <2>4
  <2>6. /\ k \in 1 .. PieceCount(a) /\ PieceCount(b) = PieceCount(a)
        /\ (k - 1) * BlockBytes + j = i
    <3> DEFINE x == n + BlockBytes - 1
               r0 == x \div BlockBytes
    <3>1. x \in Int /\ PieceCount(a) = r0 /\ PieceCount(b) = r0
      BY <2>1 DEF PieceCount, n
    <3>2. r0 \in Int /\ x % BlockBytes \in 0 .. BlockBytes - 1
          /\ x = BlockBytes * r0 + (x % BlockBytes)
      <4> HIDE DEF x
      <4>1. QED
        BY <2>1, <3>1, DivMod, Zenon
    <3>3. PICK e \in 0 .. BlockBytes - 1 : n + BlockBytes - 1 = BlockBytes * r0 + e
      BY <3>2
    <3> HIDE DEF r0, x
    <3>4. BlockBytes * q < BlockBytes * r0
      <4>1. PICK g0 \in Int, g1 \in Int : g0 = BlockBytes * q /\ g1 = BlockBytes * r0
        BY <2>1, <3>2
      <4>2. i = g0 + d + 1 /\ n + BlockBytes - 1 = g1 + e /\ i <= n
        BY <2>1, <2>4, <3>3, <4>1
      <4>3. g0 < g1
        BY <2>1, <4>2
      <4>4. QED
        BY <4>1, <4>3
    <3>5. q < r0
      BY <2>1, <3>2, <3>4
    <3>6. (k - 1) * BlockBytes + j = i
      BY <2>1, <2>4
    <3>7. QED
      BY <2>4, <2>5, <3>1, <3>2, <3>5, <3>6
  <2>7. Piece(a, k) \in Seq(Byte) /\ Piece(b, k) \in Seq(Byte)
    BY <2>6, PieceIs, Zenon
  <2>8. Seal!BlockOf(Piece(a, k)) = Seal!BlockOf(Piece(b, k))
    BY <2>6, BlocksAre, Zenon
  <2>9. PieceEnd(a, k) = PieceEnd(b, k)
    BY DEF PieceEnd
  <2>10. Len(Piece(a, k)) = Len(Piece(b, k))
         /\ Len(Piece(a, k)) = PieceEnd(a, k) - (k - 1) * BlockBytes
    BY <2>6, <2>9, PieceIs, Zenon
  <2>11. Piece(a, k) = Piece(b, k)
    BY <2>7, <2>8, <2>10, BlocksApart, Zenon
  <2>12. j \in 1 .. Len(Piece(a, k))
    <3>1. q * BlockBytes \in Int /\ (k - 1) * BlockBytes = BlockBytes * q
          /\ k * BlockBytes = BlockBytes * q + BlockBytes
      BY <2>1, <2>4
    <3>2. Len(Piece(a, k)) = PieceEnd(a, k) - BlockBytes * q
      BY <2>10, <3>1
    <3>3. PieceEnd(a, k) >= BlockBytes * q + d + 1
      BY <2>1, <2>4, <3>1 DEF PieceEnd, n
    <3>4. PieceEnd(a, k) \in Int
      BY <2>1, <3>1 DEF PieceEnd, n
    <3>5. QED
      BY <2>1, <2>4, <3>1, <3>2, <3>3, <3>4
  <2>13. Piece(a, k)[j] = a[i] /\ Piece(b, k)[j] = b[i]
    BY <2>6, <2>10, <2>12, PieceIs, Zenon
  <2>14. QED
    BY <2>11, <2>13, Zenon
<1>2. QED
  BY <1>1, SeqEqual

\* What is authenticated tells the messages apart.
LEMMA LengthBlockIs ==
  ASSUME NEW a \in Seq(Byte), NEW c \in Seq(Byte), Len(a) < Base, Len(c) < Base
  PROVE  /\ <<Len(a), Len(c)>> \in Seq(Byte) /\ Len(<<Len(a), Len(c)>>) = 2
         /\ Seal!LengthBlock(a, c) = Seal!BlockOf(<<Len(a), Len(c)>>)
         /\ Seal!LengthBlock(a, c) \in 0 .. Seal!BlockSpan - 1
<1>1. Len(a) \in Nat /\ Len(c) \in Nat /\ Base \in Nat
  BY SealTyped
<1>2. Len(a) \in Byte /\ Len(c) \in Byte
  BY <1>1 DEF Byte
<1> DEFINE pair == <<Len(a), Len(c)>>
<1>3. pair \in Seq(Byte) /\ Len(pair) = 2
  BY <1>2
<1>4. Seal!LengthBlock(a, c) = Seal!BlockOf(pair)
  BY DEF Seal!LengthBlock
<1> HIDE DEF pair
<1>5. Seal!BlockOf(pair) \in 0 .. Seal!Power2[2 * ByteBits] - 1
  BY <1>3, BlockWithin
<1>6. 2 * ByteBits \in Nat /\ BlockBytes * ByteBits \in Nat /\ 2 * ByteBits <= BlockBytes * ByteBits
  BY SealTyped
<1>7. Seal!Power2[2 * ByteBits] <= Seal!BlockSpan
  <2>1. Seal!Power2[2 * ByteBits] <= Seal!Power2[BlockBytes * ByteBits]
    BY <1>6, PowerGrows, Zenon
  <2>2. QED
    BY <2>1, SealTyped, Zenon
<1>8. Seal!Power2[2 * ByteBits] \in Nat /\ Seal!BlockSpan \in Nat
  <2>1. Seal!Power2[2 * ByteBits] \in Nat \ {0}
    BY <1>6, Power2Is, Zenon
  <2>2. QED
    BY <2>1, SealTyped
<1>9. Seal!BlockOf(pair) \in 0 .. Seal!BlockSpan - 1
  BY <1>5, <1>7, <1>8
<1>10. QED
  BY <1>3, <1>4, <1>9 DEF pair

AreAll(s, a, c) ==
  /\ s \in Seq(0 .. Seal!BlockSpan - 1)
  /\ Len(s) = PieceCount(a) + PieceCount(c) + 1
  /\ \A k \in 1 .. PieceCount(a) : s[k] = Seal!BlocksOf(a)[k]
  /\ \A k \in 1 .. PieceCount(c) : s[PieceCount(a) + k] = Seal!BlocksOf(c)[k]
  /\ s[PieceCount(a) + PieceCount(c) + 1] = Seal!LengthBlock(a, c)

\* All that is authenticated: the data, the ciphertext and the lengths.
LEMMA AllTyped ==
  ASSUME NEW a \in Seq(Byte), NEW c \in Seq(Byte), Len(a) < Base, Len(c) < Base
  PROVE  AreAll(Seal!All(a, c), a, c)
<1> DEFINE s == Seal!BlocksOf(a)
           t == Seal!BlocksOf(c)
           e == Seal!LengthBlock(a, c)
           D == 0 .. Seal!BlockSpan - 1
<1>1. /\ s \in Seq(D) /\ t \in Seq(D) /\ e \in D
      /\ Len(s) = PieceCount(a) /\ Len(t) = PieceCount(c)
  BY BlocksAre, LengthBlockIs, Zenon
<1>2. Seal!All(a, c) = Append(s \o t, e)
  BY DEF Seal!All
<1> HIDE DEF s, t, e, D
<1>3. /\ Append(s \o t, e) \in Seq(D) /\ Len(Append(s \o t, e)) = Len(s) + Len(t) + 1
      /\ \A k \in 1 .. Len(s) : Append(s \o t, e)[k] = s[k]
      /\ \A k \in 1 .. Len(t) : Append(s \o t, e)[Len(s) + k] = t[k]
      /\ Append(s \o t, e)[Len(s) + Len(t) + 1] = e
  BY <1>1, SMTT(30)
<1>4. QED
  BY <1>1, <1>2, <1>3 DEF s, t, e, D, AreAll

\* Different messages have different blocks.
LEMMA AllApart ==
  ASSUME NEW a \in Seq(Byte), NEW c \in Seq(Byte), Len(a) < Base, Len(c) < Base,
         NEW u \in Seq(Byte), NEW v \in Seq(Byte), Len(u) < Base, Len(v) < Base,
         Seal!All(a, c) = Seal!All(u, v)
  PROVE  a = u /\ c = v
<1> DEFINE s == Seal!All(a, c)
           i == PieceCount(a) + PieceCount(c) + 1
           j == PieceCount(u) + PieceCount(v) + 1
<1>1. AreAll(s, a, c)
  BY AllTyped, Zenon
<1>2. AreAll(s, u, v)
  <2>1. AreAll(Seal!All(u, v), u, v)
    BY AllTyped, Zenon
  <2>2. QED
    BY <2>1, Zenon
<1> HIDE DEF s
<1>3. Seal!LengthBlock(a, c) = Seal!LengthBlock(u, v)
  <2>1. Len(s) = i /\ Len(s) = j /\ s[i] = Seal!LengthBlock(a, c)
        /\ s[j] = Seal!LengthBlock(u, v)
    BY <1>1, <1>2, Zenon DEF AreAll
  <2>2. QED
    BY <2>1, Zenon
<1>4. Len(a) = Len(u) /\ Len(c) = Len(v)
  <2> DEFINE x == <<Len(a), Len(c)>>
             y == <<Len(u), Len(v)>>
  <2>1. /\ x \in Seq(Byte) /\ Len(x) = 2 /\ Seal!LengthBlock(a, c) = Seal!BlockOf(x)
        /\ y \in Seq(Byte) /\ Len(y) = 2 /\ Seal!LengthBlock(u, v) = Seal!BlockOf(y)
    BY LengthBlockIs, Zenon
  <2>2. x[1] = Len(a) /\ x[2] = Len(c) /\ y[1] = Len(u) /\ y[2] = Len(v)
    OBVIOUS
  <2> HIDE DEF x, y
  <2>3. x = y
    BY <1>3, <2>1, BlocksApart, Zenon
  <2>4. QED
    BY <2>2, <2>3, Zenon
<1>5. PieceCount(a) = PieceCount(u) /\ PieceCount(c) = PieceCount(v)
  BY <1>4 DEF PieceCount
<1> DEFINE D == 0 .. Seal!BlockSpan - 1
<1>6. Seal!BlocksOf(a) = Seal!BlocksOf(u)
  <2> DEFINE p == Seal!BlocksOf(a)
             q == Seal!BlocksOf(u)
  <2>1. p \in Seq(D) /\ q \in Seq(D) /\ Len(p) = PieceCount(a) /\ Len(q) = PieceCount(a)
    BY <1>5, BlocksAre, Zenon
  <2>2. \A k \in 1 .. PieceCount(a) : p[k] = q[k]
    BY <1>1, <1>2, <1>5, Zenon DEF AreAll
  <2> HIDE DEF p, q, D
  <2>3. p = q
    BY <2>1, <2>2, SeqEqual
  <2>4. QED
    BY <2>3 DEF p, q
<1>7. Seal!BlocksOf(c) = Seal!BlocksOf(v)
  <2> DEFINE p == Seal!BlocksOf(c)
             q == Seal!BlocksOf(v)
  <2>1. p \in Seq(D) /\ q \in Seq(D) /\ Len(p) = PieceCount(c) /\ Len(q) = PieceCount(c)
    BY <1>5, BlocksAre, Zenon
  <2>2. \A k \in 1 .. PieceCount(c) : p[k] = q[k]
    BY <1>1, <1>2, <1>5, Zenon DEF AreAll
  <2> HIDE DEF p, q, D
  <2>3. p = q
    BY <2>1, <2>2, SeqEqual
  <2>4. QED
    BY <2>3 DEF p, q
<1>8. QED
  BY <1>4, <1>6, <1>7, BlocksOfApart, Zenon

-----------------------------------------------------------------------------
\* Limbs that are not negative, and how large they get.
NatElement == [Limbs5 -> Nat]

\* There are five limbs.
LEMMA FiveLimbs ==
  ASSUME NEW i \in Limbs5
  PROVE  i = 0 \/ i = 1 \/ i = 2 \/ i = 3 \/ i = 4
BY DEF Limbs5

\* A carry is bounded by what it is a carry of.
LEMMA QuotientWithin ==
  ASSUME NEW radix \in Nat \ {0}, NEW x \in Nat, NEW q \in Int, NEW d \in 0 .. radix - 1,
         x = radix * q + d, NEW m \in Nat, x < radix * (m + 1)
  PROVE  q \in 0 .. m
<1>1. q >= 0
  <2>1. SUFFICES ASSUME q <= -1
                 PROVE  FALSE
    OBVIOUS
  <2>2. radix * q <= radix * (-1)
    BY <2>1
  <2>3. radix * q \in Int /\ radix * (-1) = -radix
    OBVIOUS
  <2>4. QED
    BY <2>2, <2>3
<1>2. q <= m
  <2>1. SUFFICES ASSUME q >= m + 1
                 PROVE  FALSE
    OBVIOUS
  <2>2. radix * q >= radix * (m + 1)
    BY <2>1
  <2>3. radix * q \in Int /\ radix * (m + 1) \in Int
    OBVIOUS
  <2>4. QED
    BY <2>2, <2>3
<1>3. QED
  BY <1>1, <1>2

\* A product is bounded by that of the bounds.
LEMMA FactorsWithin ==
  ASSUME NEW n \in Nat, NEW m \in Nat, NEW x \in 0 .. n, NEW y \in 0 .. m
  PROVE  x * y \in 0 .. n * m
<1>1. x * y \in Nat /\ n * y \in Nat /\ n * m \in Nat
  OBVIOUS
<1>2. x * y <= n * y
  OBVIOUS
<1>3. n * y <= n * m
  OBVIOUS
<1>4. QED
  BY <1>1, <1>2, <1>3

\* The limbs of a product, of factors with limbs up to 2 * m, but 3 * m for limb 1,
\* and up to m.
LEMMA ProductWithin ==
  ASSUME NEW fold \in Nat \ {0}, NEW m \in Nat, NEW a \in NatElement, NEW b \in NatElement,
         a[0] \in 0 .. 2 * m, a[1] \in 0 .. 3 * m, a[2] \in 0 .. 2 * m, a[3] \in 0 .. 2 * m,
         a[4] \in 0 .. 2 * m, \A i \in Limbs5 : b[i] \in 0 .. m
  PROVE  \A i \in Limbs5 : ProductIn(fold, a, b)[i] \in 0 .. (11 * (fold * m)) * m
<1> DEFINE T(i, n) == a[i] * IF i <= n THEN b[n - i] ELSE fold * b[n + 5 - i]
           res == [n \in Limbs5 |-> T(0, n) + T(1, n) + T(2, n) + T(3, n) + T(4, n)]
           fac(i, n) == IF i <= n THEN b[n - i] ELSE fold * b[n + 5 - i]
           M == fold * m
<1>1. ProductIn(fold, a, b) = res
  BY DEF ProductIn
<1>2. M \in Nat /\ 2 * m \in Nat /\ 3 * m \in Nat
  OBVIOUS
<1>3. ASSUME NEW x \in 0 .. m
      PROVE  x \in 0 .. M /\ fold * x \in 0 .. M
  <2>1. fold * x \in 0 .. M
    BY FactorsWithin
  <2>2. x <= fold * x
    OBVIOUS
  <2> HIDE DEF M
  <2>3. QED
    BY <1>2, <2>1, <2>2
<1>4. ASSUME NEW i \in Limbs5, NEW n \in Limbs5
      PROVE  fac(i, n) \in 0 .. M
  <2>1. CASE i <= n
    <3>1. n - i \in Limbs5
      BY <2>1 DEF Limbs5
    <3>2. fac(i, n) = b[n - i] /\ b[n - i] \in 0 .. m
      BY <2>1, <3>1
    <3> HIDE DEF fac, M
    <3>3. QED
      BY <1>3, <3>2
  <2>2. CASE ~(i <= n)
    <3>1. n + 5 - i \in Limbs5
      BY <2>2 DEF Limbs5
    <3>2. fac(i, n) = fold * b[n + 5 - i] /\ b[n + 5 - i] \in 0 .. m
      BY <2>2, <3>1
    <3> HIDE DEF fac, M
    <3>3. QED
      BY <1>3, <3>2
  <2>3. QED
    BY <2>1, <2>2
<1>5. ASSUME NEW n \in Limbs5
      PROVE  res[n] \in 0 .. (11 * M) * m
  <2> DEFINE t0 == a[0] * fac(0, n)
             t1 == a[1] * fac(1, n)
             t2 == a[2] * fac(2, n)
             t3 == a[3] * fac(3, n)
             t4 == a[4] * fac(4, n)
  <2>1. res[n] = t0 + t1 + t2 + t3 + t4
    OBVIOUS
  <2>2. /\ fac(0, n) \in 0 .. M /\ fac(1, n) \in 0 .. M /\ fac(2, n) \in 0 .. M
        /\ fac(3, n) \in 0 .. M /\ fac(4, n) \in 0 .. M
    <3>1. 0 \in Limbs5 /\ 1 \in Limbs5 /\ 2 \in Limbs5 /\ 3 \in Limbs5 /\ 4 \in Limbs5
      BY DEF Limbs5
    <3> HIDE DEF fac, M
    <3>2. QED
      BY <1>4, <3>1
  <2> HIDE DEF fac, M, res
  <2>3. /\ t0 \in 0 .. (2 * m) * M /\ t1 \in 0 .. (3 * m) * M /\ t2 \in 0 .. (2 * m) * M
        /\ t3 \in 0 .. (2 * m) * M /\ t4 \in 0 .. (2 * m) * M
    BY <1>2, <2>2, FactorsWithin
  <2> HIDE DEF t0, t1, t2, t3, t4
  <2>4. PICK x \in Nat : x = m * M
    BY <1>2
  <2>5. (2 * m) * M = 2 * x /\ (3 * m) * M = 3 * x /\ (11 * M) * m = 11 * x
    BY <1>2, <2>4
  <2>6. QED
    BY <2>1, <2>3, <2>4, <2>5
<1> HIDE DEF res, M
<1>6. \A i \in Limbs5 : res[i] \in 0 .. (11 * M) * m
  BY <1>5
<1>7. QED
  BY <1>1, <1>6 DEF M

\* Limbs that are not negative have such a product.
LEMMA ProductNat ==
  ASSUME NEW fold \in Nat \ {0}, NEW a \in NatElement, NEW b \in NatElement
  PROVE  ProductIn(fold, a, b) \in NatElement
<1> DEFINE fac(i, n) == IF i <= n THEN b[n - i] ELSE fold * b[n + 5 - i]
           res == [n \in Limbs5 |-> a[0] * fac(0, n) + a[1] * fac(1, n) + a[2] * fac(2, n)
                                    + a[3] * fac(3, n) + a[4] * fac(4, n)]
<1>1. ProductIn(fold, a, b) = res
  BY DEF ProductIn
<1>2. /\ 0 \in Limbs5 /\ 1 \in Limbs5 /\ 2 \in Limbs5 /\ 3 \in Limbs5 /\ 4 \in Limbs5
      /\ \A i \in Limbs5 : a[i] \in Nat /\ b[i] \in Nat
  BY DEF Limbs5, NatElement
<1>3. ASSUME NEW i \in Limbs5, NEW n \in Limbs5
      PROVE  a[i] * fac(i, n) \in Nat
  <2>1. CASE i <= n
    <3>1. n - i \in Limbs5
      BY <2>1 DEF Limbs5
    <3>2. QED
      BY <1>2, <2>1, <3>1
  <2>2. CASE ~(i <= n)
    <3>1. n + 5 - i \in Limbs5
      BY <2>2 DEF Limbs5
    <3>2. QED
      BY <1>2, <2>2, <3>1
  <2>3. QED
    BY <2>1, <2>2
<1>4. ASSUME NEW n \in Limbs5
      PROVE  a[0] * fac(0, n) + a[1] * fac(1, n) + a[2] * fac(2, n) + a[3] * fac(3, n) + a[4] * fac(4, n) \in Nat
  <2> HIDE DEF fac
  <2>1. /\ a[0] * fac(0, n) \in Nat /\ a[1] * fac(1, n) \in Nat /\ a[2] * fac(2, n) \in Nat
        /\ a[3] * fac(3, n) \in Nat /\ a[4] * fac(4, n) \in Nat
    BY <1>2, <1>3
  <2>2. QED
    BY <2>1
<1> HIDE DEF fac
<1>5. res \in NatElement
  BY <1>4 DEF NatElement
<1>6. QED
  BY <1>1, <1>5

\* What the carries leave of limbs that are not negative is not negative; and
\* limb 1, the only one that is not reduced, exceeds the radix by little.
LEMMA CarriedWithin ==
  ASSUME NEW radix, NEW fold, LimbsFit(radix, fold), NEW t \in NatElement
  PROVE  /\ CarriedIn(radix, fold, t) \in NatElement
         /\ \A top \in Nat, m \in Nat :
              /\ \A i \in Limbs5 : t[i] \in 0 .. top * (radix - 1)
              /\ radix - 1 + top * fold < radix * (m + 1)
              => CarriedIn(radix, fold, t)[1] \in 0 .. radix - 1 + m
<1>0. /\ radix \in Nat \ {0} /\ fold \in Nat \ {0} /\ PIn(radix, fold) \in Nat \ {0}
      /\ PIn(radix, fold) = radix * radix * radix * radix * radix - fold
  BY LimbsTyped, Zenon
<1> DEFINE res == CarriedIn(radix, fold, t)
<1>1. t \in Element
  BY DEF NatElement, Element
<1>2. PICK c, k, d, e : CarryChain(radix, fold, t, res, c, k, d, e)
  BY <1>1, CarriedChain, Zenon
<1> HIDE DEF res
<1>3. Limbs5 = 0 .. 4
  BY DEF Limbs5
<1>4. /\ res = [i \in Limbs5 |-> res[i]]
      /\ res[0] = e /\ res[1] = k[1] + d /\ res[2] = k[2] /\ res[3] = k[3] /\ res[4] = k[4]
  BY <1>2, <1>3 DEF CarryChain
<1>5. /\ k[0] \in 0 .. radix - 1 /\ k[1] \in 0 .. radix - 1 /\ k[2] \in 0 .. radix - 1
      /\ k[3] \in 0 .. radix - 1 /\ k[4] \in 0 .. radix - 1 /\ e \in 0 .. radix - 1 /\ d \in Int
  BY <1>2, <1>3 DEF CarryChain
<1>6. /\ t[0] \in Nat /\ t[1] \in Nat /\ t[2] \in Nat /\ t[3] \in Nat /\ t[4] \in Nat
      /\ c[0] \in Int /\ c[1] \in Int /\ c[2] \in Int /\ c[3] \in Int /\ c[4] \in Int
  BY <1>2, <1>3, SMTT(30) DEF CarryChain, NatElement, Element
<1>7. /\ t[0] = radix * c[0] + k[0]
      /\ t[1] + c[0] = radix * c[1] + k[1]
      /\ t[2] + c[1] = radix * c[2] + k[2]
      /\ t[3] + c[2] = radix * c[3] + k[3]
      /\ t[4] + c[3] = radix * c[4] + k[4]
      /\ k[0] + c[4] * fold = radix * d + e
  BY <1>2, Zenon DEF CarryChain
<1>8. ASSUME NEW top \in Nat, NEW m \in Nat, \A i \in Limbs5 : t[i] \in 0 .. top * (radix - 1),
             radix - 1 + top * fold < radix * (m + 1)
      PROVE  c[4] \in 0 .. top /\ d \in 0 .. m
  <2>1. /\ t[0] <= top * (radix - 1) /\ t[1] <= top * (radix - 1) /\ t[2] <= top * (radix - 1)
        /\ t[3] <= top * (radix - 1) /\ t[4] <= top * (radix - 1)
    BY <1>3, <1>8
  <2>2. top * (radix - 1) + top < radix * (top + 1) /\ top * (radix - 1) \in Nat
        /\ radix * (top + 1) \in Nat
    <3>1. PICK x \in Nat : x = top * radix
      BY <1>0
    <3>2. top * (radix - 1) = x - top /\ radix * (top + 1) = x + radix /\ top * (radix - 1) \in Nat
      BY <1>0, <3>1
    <3>3. QED
      BY <1>0, <3>1, <3>2
  <2>3. c[0] \in 0 .. top
    <3>1. t[0] < radix * (top + 1)
      BY <1>6, <2>1, <2>2
    <3>2. QED
      BY <1>0, <1>5, <1>6, <1>7, <3>1, QuotientWithin, Zenon
  <2>4. ASSUME NEW x \in Nat, NEW y \in 0 .. top, x <= top * (radix - 1)
        PROVE  x + y \in Nat /\ x + y < radix * (top + 1)
    BY <2>2, <2>4
  <2>5. c[1] \in 0 .. top
    <3>1. t[1] + c[0] \in Nat /\ t[1] + c[0] < radix * (top + 1)
      BY <1>6, <2>1, <2>3, <2>4, Zenon
    <3>2. QED
      BY <1>0, <1>5, <1>6, <1>7, <3>1, QuotientWithin, Zenon
  <2>6. c[2] \in 0 .. top
    <3>1. t[2] + c[1] \in Nat /\ t[2] + c[1] < radix * (top + 1)
      BY <1>6, <2>1, <2>5, <2>4, Zenon
    <3>2. QED
      BY <1>0, <1>5, <1>6, <1>7, <3>1, QuotientWithin, Zenon
  <2>7. c[3] \in 0 .. top
    <3>1. t[3] + c[2] \in Nat /\ t[3] + c[2] < radix * (top + 1)
      BY <1>6, <2>1, <2>6, <2>4, Zenon
    <3>2. QED
      BY <1>0, <1>5, <1>6, <1>7, <3>1, QuotientWithin, Zenon
  <2>8. c[4] \in 0 .. top
    <3>1. t[4] + c[3] \in Nat /\ t[4] + c[3] < radix * (top + 1)
      BY <1>6, <2>1, <2>7, <2>4, Zenon
    <3>2. QED
      BY <1>0, <1>5, <1>6, <1>7, <3>1, QuotientWithin, Zenon
  <2>9. d \in 0 .. m
    <3>1. c[4] * fold <= top * fold /\ c[4] * fold \in Nat /\ top * fold \in Nat
      BY <1>0, <2>8
    <3>2. k[0] + c[4] * fold \in Nat /\ k[0] + c[4] * fold < radix * (m + 1)
      <4>1. radix * (m + 1) \in Nat
        BY <1>0
      <4>2. QED
        BY <1>0, <1>5, <1>8, <3>1, <4>1
    <3>3. QED
      BY <1>0, <1>5, <1>7, <3>2, QuotientWithin, Zenon
  <2>10. QED
    BY <2>8, <2>9
<1>9. d \in Nat
  <2>1. \A x \in Nat : x <= x
    OBVIOUS
  <2>2. CASE radix = 1
    <3>1. PIn(radix, fold) = 1 - fold
      BY <1>0, <2>2
    <3>2. QED
      BY <1>0, <3>1
  <2>3. CASE radix # 1
    <3> DEFINE top == t[0] + t[1] + t[2] + t[3] + t[4]
               m == radix + top * fold
    <3>1. top \in Nat /\ \A i \in Limbs5 : t[i] \in 0 .. top
      <4>1. top \in Nat
        BY <1>6
      <4>2. t[0] \in 0 .. top /\ t[1] \in 0 .. top /\ t[2] \in 0 .. top /\ t[3] \in 0 .. top /\ t[4] \in 0 .. top
        BY <1>6
      <4> HIDE DEF top
      <4>3. QED
        BY <4>1, <4>2, FiveLimbs
    <3> HIDE DEF top
    <3>2. top <= top * (radix - 1) /\ top * (radix - 1) \in Nat
      BY <1>0, <2>3, <3>1
    <3>3. \A i \in Limbs5 : t[i] \in 0 .. top * (radix - 1)
      BY <3>1, <3>2
    <3>4. m \in Nat /\ radix - 1 + top * fold < m + 1
      <4>1. top * fold \in Nat
        BY <1>0, <3>1
      <4>2. QED
        BY <1>0, <4>1
    <3>5. m + 1 <= radix * (m + 1) /\ radix * (m + 1) \in Nat
      <4>1. m \in Nat
        BY <3>4
      <4> HIDE DEF m
      <4>2. QED
        BY <1>0, <4>1
    <3>6. radix - 1 + top * fold < radix * (m + 1)
      <4>1. PICK x \in Nat : x = top * fold
        BY <1>0, <3>1
      <4> HIDE DEF m
      <4>2. QED
        BY <1>0, <3>4, <3>5, <4>1
    <3>7. d \in 0 .. m
      <4>1. m \in Nat
        BY <3>4
      <4> HIDE DEF m
      <4>2. QED
        BY <1>8, <3>1, <3>3, <3>6, <4>1, Zenon
    <3> HIDE DEF m
    <3>8. QED
      BY <3>7, <1>5
  <2>4. QED
    BY <2>2, <2>3
<1>10. res \in NatElement
  <2>1. /\ res[0] \in Nat /\ res[1] \in Nat /\ res[2] \in Nat /\ res[3] \in Nat /\ res[4] \in Nat
    BY <1>0, <1>4, <1>5, <1>9
  <2>2. \A i \in Limbs5 : res[i] \in Nat
    BY <2>1, FiveLimbs
  <2>3. QED
    BY <1>4, <2>2 DEF NatElement
<1>11. ASSUME NEW top \in Nat, NEW m \in Nat, \A i \in Limbs5 : t[i] \in 0 .. top * (radix - 1),
              radix - 1 + top * fold < radix * (m + 1)
       PROVE  res[1] \in 0 .. radix - 1 + m
  <2>1. d \in 0 .. m
    BY <1>8, <1>11
  <2>2. QED
    BY <1>0, <1>4, <1>5, <2>1
<1>12. QED
  BY <1>10, <1>11 DEF res

-----------------------------------------------------------------------------
\* The digits of a number are limbs below the radix, and stand for the number.
LEMMA DigitsAre ==
  ASSUME NEW n \in Nat
  PROVE  /\ Seal!Digits(n) \in NatElement
         /\ \A i \in Limbs5 : Seal!Digits(n)[i] \in 0 .. MacRadix - 1
         /\ n < Seal!Span => NumberIn(MacRadix, Seal!Digits(n)) = n
<1> DEFINE R == MacRadix
           Up(m) == m \div R
           n1 == Up(n)
           n2 == Up(Up(n))
           n3 == Up(Up(Up(n)))
           n4 == Up(Up(Up(Up(n))))
           n5 == Up(n4)
           s == <<n, n1, n2, n3, n4>>
           res == [i \in Limbs5 |-> s[i + 1] % R]
<1>1. R \in Nat \ {0}
  BY SealTyped
<1> HIDE DEF R
<1>2. \A x \in Nat : /\ Up(x) \in Nat /\ x % R \in 0 .. R - 1 /\ x = R * Up(x) + (x % R)
  <2>1. ASSUME NEW x \in Nat
        PROVE  /\ Up(x) \in Nat /\ x % R \in 0 .. R - 1 /\ x = R * Up(x) + (x % R)
    <3>1. x \in Int
      OBVIOUS
    <3>2. x \div R \in Int /\ x % R \in 0 .. R - 1 /\ x = R * (x \div R) + (x % R)
      BY <1>1, <3>1, DivMod, Zenon
    <3>3. x \div R \in Nat
      BY <1>1
    <3>4. QED
      BY <3>2, <3>3
  <2>2. QED
    BY <2>1
<1>3. Seal!Digits(n) = res
  BY DEF Seal!Digits, Seal!Limbs, Limbs5, R
<1> HIDE DEF Up
<1>4. n1 \in Nat /\ n2 \in Nat /\ n3 \in Nat /\ n4 \in Nat /\ n5 \in Nat
  BY <1>2
<1>5. /\ n = R * n1 + (n % R) /\ n1 = R * n2 + (n1 % R) /\ n2 = R * n3 + (n2 % R)
      /\ n3 = R * n4 + (n3 % R) /\ n4 = R * n5 + (n4 % R)
      /\ n % R \in 0 .. R - 1 /\ n1 % R \in 0 .. R - 1 /\ n2 % R \in 0 .. R - 1
      /\ n3 % R \in 0 .. R - 1 /\ n4 % R \in 0 .. R - 1
  BY <1>2, <1>4
<1> HIDE DEF n1, n2, n3, n4, n5
<1>6. /\ res[0] = n % R /\ res[1] = n1 % R /\ res[2] = n2 % R /\ res[3] = n3 % R
      /\ res[4] = n4 % R /\ res = [i \in Limbs5 |-> res[i]]
  BY DEF Limbs5
<1> HIDE DEF res
<1>7. \A i \in Limbs5 : res[i] \in 0 .. R - 1
  BY <1>5, <1>6, FiveLimbs
<1>8. res \in NatElement
  <2>1. 0 .. R - 1 \subseteq Nat
    BY <1>1
  <2>2. \A i \in Limbs5 : res[i] \in Nat
    BY <1>7, <2>1
  <2>3. QED
    BY <1>6, <2>2 DEF NatElement
<1>9. ASSUME n < Seal!Span
      PROVE  NumberIn(R, res) = n
  <2>1. PICK d0 \in 0 .. R - 1, d1 \in 0 .. R - 1, d2 \in 0 .. R - 1, d3 \in 0 .. R - 1,
             d4 \in 0 .. R - 1 :
          d0 = n % R /\ d1 = n1 % R /\ d2 = n2 % R /\ d3 = n3 % R /\ d4 = n4 % R
    BY <1>5
  <2>2. n = R * n1 + d0 /\ n1 = R * n2 + d1 /\ n2 = R * n3 + d2 /\ n3 = R * n4 + d3
        /\ n4 = R * n5 + d4
    BY <1>5, <2>1
  <2>3. NumberIn(R, res) = d0 + R * (d1 + R * (d2 + R * (d3 + R * d4)))
    BY <1>6, <2>1 DEF NumberIn
  <2>4. /\ d0 \in Nat /\ d1 \in Nat /\ d2 \in Nat /\ d3 \in Nat /\ d4 \in Nat /\ R \in Nat
        /\ n5 \in Nat
    BY <1>1, <1>4
  <2>5. n = (d0 + R * (d1 + R * (d2 + R * (d3 + R * d4)))) + (R * R * R * R * R) * n5
    BY <2>2, <2>4, SMTT(60)
  <2>6. d0 + R * (d1 + R * (d2 + R * (d3 + R * d4))) \in Nat /\ R * R * R * R * R \in Nat
    BY <2>4
  <2>7. n5 = 0
    <3>1. Seal!Span = R * R * R * R * R
      BY DEF Seal!Span, R
    <3>2. PICK x \in Nat, y \in Nat : x = d0 + R * (d1 + R * (d2 + R * (d3 + R * d4)))
                                      /\ y = R * R * R * R * R
      BY <2>6
    <3>3. n = x + y * n5 /\ n < y
      BY <1>9, <2>5, <3>1, <3>2
    <3>4. SUFFICES ASSUME n5 >= 1
                   PROVE  FALSE
      BY <2>4
    <3>5. y * n5 >= y * 1
      BY <2>4, <3>4
    <3>6. y * n5 \in Nat
      BY <2>4
    <3>7. QED
      BY <3>3, <3>5, <3>6
  <2>8. QED
    BY <2>3, <2>5, <2>6, <2>7
<1>10. QED
  BY <1>3, <1>7, <1>8, <1>9 DEF R

\* One block into an accumulator, with the key q.
Added(h1, n) == [i \in Limbs5 |-> h1[i] + Seal!Digits(n)[i]]
Step(q, h1, n) ==
  CarriedIn(MacRadix, MacFold, ProductIn(MacFold, Added(h1, n), Seal!Digits(q)))

\* What processBlock does to the accumulator.
LEMMA ProcessIsStep ==
  ASSUME NEW h1 \in NatElement, NEW n \in Nat
  PROVE  Seal!ProcessBlock(h1, n, FALSE) = Step(r, h1, n)
<1> DEFINE d == Seal!Digits(n)
           s == [i \in Limbs5 |-> h1[i] + d[i] + IF FALSE /\ i = 4 THEN MacRadix \div 4 ELSE 0]
<1>1. Seal!ProcessBlock(h1, n, FALSE) = Seal!Carried(Seal!Product(s, Seal!Digits(r)))
  BY BothInstances DEF Seal!ProcessBlock
<1>2. d \in NatElement
  BY DigitsAre
<1> HIDE DEF d
<1>3. s = [i \in Limbs5 |-> h1[i] + d[i]]
  <2>1. ASSUME NEW i \in Limbs5
        PROVE  h1[i] + d[i] + (IF FALSE /\ i = 4 THEN MacRadix \div 4 ELSE 0) = h1[i] + d[i]
    <3>1. h1[i] + d[i] \in Nat
      BY <1>2 DEF NatElement
    <3>2. QED
      BY <3>1
  <2>2. QED
    BY <2>1
<1>4. s = Added(h1, n)
  BY <1>3 DEF Added, d
<1> HIDE DEF s
<1>5. Seal!Product(s, Seal!Digits(r)) = ProductIn(MacFold, s, Seal!Digits(r))
  BY BothInstances, Zenon
<1>6. Seal!Carried(ProductIn(MacFold, s, Seal!Digits(r)))
      = CarriedIn(MacRadix, MacFold, ProductIn(MacFold, s, Seal!Digits(r)))
  BY BothInstances, Zenon
<1>7. QED
  BY <1>1, <1>4, <1>5, <1>6, Zenon DEF Step

\* The limbs of the accumulator are never negative.
LEMMA StepTyped ==
  ASSUME NEW q \in Nat, NEW h1 \in NatElement, NEW n \in Nat
  PROVE  Added(h1, n) \in NatElement /\ Step(q, h1, n) \in NatElement
<1> DEFINE s == Added(h1, n)
           d == Seal!Digits(n)
<1>1. Seal!Digits(q) \in NatElement /\ d \in NatElement
  BY DigitsAre
<1> HIDE DEF d
<1>2. s \in NatElement
  <2>1. \A i \in Limbs5 : h1[i] + d[i] \in Nat
    BY <1>1 DEF NatElement
  <2>2. QED
    BY <2>1 DEF NatElement, Added, d
<1> HIDE DEF s
<1>3. MacFold \in Nat \ {0} /\ LimbsFit(MacRadix, MacFold)
  BY SealTyped, BothFit
<1>4. ProductIn(MacFold, s, Seal!Digits(q)) \in NatElement
  BY <1>1, <1>2, <1>3, ProductNat, Zenon
<1>5. CarriedIn(MacRadix, MacFold, ProductIn(MacFold, s, Seal!Digits(q))) \in NatElement
  BY <1>3, <1>4, CarriedWithin, Zenon
<1>6. QED
  BY <1>2, <1>5 DEF Step, s

\* What an accumulator is: all limbs but limb 1 reduced, and limb 1 nearly so.
Accumulator(h1) ==
  /\ h1 \in NatElement
  /\ \A i \in Limbs5 \ {1} : h1[i] \in 0 .. MacRadix - 1
  /\ h1[1] \in 0 .. 2 * (MacRadix - 1)

\* That the fold is small for the radix, as 5 is for 2^26, is what this takes.
LimbsAreWide == 11 * (MacFold * MacFold) < MacRadix

\* The limbs of the accumulator stay within their bounds.
LEMMA StepKeeps ==
  ASSUME LimbsAreWide, NEW q \in Nat, NEW h1, Accumulator(h1), NEW n \in Nat
  PROVE  Accumulator(Step(q, h1, n))
<1> DEFINE s == Added(h1, n)
           d == Seal!Digits(n)
           g1 == Seal!Digits(q)
           m == MacRadix - 1
           t == ProductIn(MacFold, s, g1)
           res == CarriedIn(MacRadix, MacFold, t)
           top == 11 * (MacFold * m)
           e == 11 * (MacFold * MacFold)
<1>1. /\ MacRadix \in Nat \ {0} /\ MacFold \in Nat \ {0} /\ LimbsFit(MacRadix, MacFold)
      /\ m \in Nat /\ e \in Nat /\ top \in Nat
  BY SealTyped, BothFit
<1>2. /\ d \in NatElement /\ \A i \in Limbs5 : d[i] \in 0 .. m
      /\ g1 \in NatElement /\ \A i \in Limbs5 : g1[i] \in 0 .. m
  BY DigitsAre
<1>3. s \in NatElement /\ res \in NatElement
  BY StepTyped DEF Accumulator, Step
<1>4. 0 \in Limbs5 /\ 1 \in Limbs5 /\ 2 \in Limbs5 /\ 3 \in Limbs5 /\ 4 \in Limbs5
  BY DEF Limbs5
<1>5. /\ s[0] \in 0 .. 2 * m /\ s[1] \in 0 .. 3 * m /\ s[2] \in 0 .. 2 * m
      /\ s[3] \in 0 .. 2 * m /\ s[4] \in 0 .. 2 * m
  <2>1. \A i \in Limbs5 : s[i] = h1[i] + d[i]
    BY DEF Added
  <2> HIDE DEF s, d
  <2>2. /\ h1[0] \in 0 .. m /\ h1[1] \in 0 .. 2 * m /\ h1[2] \in 0 .. m /\ h1[3] \in 0 .. m
        /\ h1[4] \in 0 .. m
    BY <1>4 DEF Accumulator
  <2>3. d[0] \in 0 .. m /\ d[1] \in 0 .. m /\ d[2] \in 0 .. m /\ d[3] \in 0 .. m /\ d[4] \in 0 .. m
    BY <1>2, <1>4
  <2> HIDE DEF m
  <2>4. QED
    BY <1>1, <1>4, <2>1, <2>2, <2>3
<1> HIDE DEF s, d, g1
<1>6. \A i \in Limbs5 : t[i] \in 0 .. top * m
  <2> HIDE DEF m
  <2>1. QED
    BY <1>1, <1>2, <1>3, <1>5, ProductWithin, Zenon
<1>7. m + top * MacFold < MacRadix * (e + 1)
  <2>1. PICK x \in Nat : x = MacFold * MacFold
    BY <1>1
  <2>2. top * MacFold = 11 * (x * m)
    <3>1. (MacFold * m) * MacFold = x * m
      BY <1>1, <2>1
    <3>2. QED
      BY <1>1, <3>1
  <2>3. PICK y \in Nat : y = x * MacRadix
    BY <1>1
  <2>4. x * m = y - x
    BY <1>1, <2>3
  <2>5. MacRadix * (e + 1) = 11 * y + MacRadix
    BY <1>1, <2>1, <2>3
  <2>6. QED
    BY <1>1, <2>2, <2>4, <2>5
<1>8. t \in NatElement
  BY <1>1, <1>2, <1>3, ProductNat, Zenon
<1> HIDE DEF t
<1>9. res[1] \in 0 .. MacRadix - 1 + e
  <2>1. \A i \in Limbs5 : t[i] \in 0 .. top * (MacRadix - 1)
    BY <1>6 DEF m
  <2>2. MacRadix - 1 + top * MacFold < MacRadix * (e + 1)
    BY <1>7 DEF m
  <2> HIDE DEF top, e
  <2>3. QED
    BY <1>1, <1>8, <2>1, <2>2, CarriedWithin, Zenon
<1>10. e <= MacRadix - 1
  BY <1>1 DEF LimbsAreWide
<1>11. res[1] \in 0 .. 2 * (MacRadix - 1)
  <2> HIDE DEF res, e
  <2>1. QED
    BY <1>1, <1>9, <1>10
<1>12. \A i \in Limbs5 \ {1} : res[i] \in 0 .. MacRadix - 1
  <2>1. t \in Element
    BY <1>8 DEF NatElement, Element
  <2>2. QED
    BY <1>1, <2>1, CarriedIsCongruent, Zenon
<1>13. Accumulator(res)
  BY <1>3, <1>11, <1>12 DEF Accumulator
<1>14. QED
  BY <1>13 DEF Step, res, t, s, g1

\* The value of what a step leaves.
LEMMA StepValue ==
  ASSUME NEW q \in Nat, q < Seal!Span, NEW h1 \in NatElement, NEW n \in Nat, n < Seal!Span
  PROVE  ValueIn(MacRadix, MacFold, Step(q, h1, n))
         = ((((ValueIn(MacRadix, MacFold, h1) + n) % Seal!P) * q) % Seal!P)
<1> DEFINE R == MacRadix
           F == MacFold
           s == Added(h1, n)
           d == Seal!Digits(n)
           g1 == Seal!Digits(q)
           p == Seal!P
<1>1. /\ LimbsFit(R, F) /\ R \in Nat \ {0} /\ p \in Nat \ {0} /\ p = PIn(R, F)
  <2>1. LimbsFit(R, F) /\ p = PIn(R, F)
    BY BothFit, BothInstances
  <2>2. QED
    BY <2>1, LimbsTyped
<1>2. d \in NatElement /\ g1 \in NatElement /\ NumberIn(R, d) = n /\ NumberIn(R, g1) = q
  BY DigitsAre
<1>3. s \in NatElement
  BY StepTyped
<1>4. s \in Element /\ g1 \in Element /\ h1 \in Element /\ d \in Element
  BY <1>2, <1>3 DEF NatElement, Element
<1>5. \A i \in Limbs5 : s[i] = h1[i] + d[i]
  BY DEF Added
<1> HIDE DEF R, F, s, d, g1, p
<1>6. NumberIn(R, s) = NumberIn(R, h1) + n
  <2>1. /\ 0 \in Limbs5 /\ 1 \in Limbs5 /\ 2 \in Limbs5 /\ 3 \in Limbs5 /\ 4 \in Limbs5
    BY DEF Limbs5
  <2>2. PICK a0 \in Int, a1 \in Int, a2 \in Int, a3 \in Int, a4 \in Int :
          a0 = h1[0] /\ a1 = h1[1] /\ a2 = h1[2] /\ a3 = h1[3] /\ a4 = h1[4]
    BY <1>4, <2>1 DEF Element
  <2>3. PICK b0 \in Int, b1 \in Int, b2 \in Int, b3 \in Int, b4 \in Int :
          b0 = d[0] /\ b1 = d[1] /\ b2 = d[2] /\ b3 = d[3] /\ b4 = d[4]
    BY <1>4, <2>1 DEF Element
  <2>4. s[0] = a0 + b0 /\ s[1] = a1 + b1 /\ s[2] = a2 + b2 /\ s[3] = a3 + b3 /\ s[4] = a4 + b4
    BY <1>5, <2>1, <2>2, <2>3
  <2>5. NumberIn(R, s) = (a0+b0) + R*((a1+b1) + R*((a2+b2) + R*((a3+b3) + R*(a4+b4))))
    BY <2>4 DEF NumberIn
  <2>6. /\ NumberIn(R, h1) = a0 + R*(a1 + R*(a2 + R*(a3 + R*a4)))
        /\ NumberIn(R, d) = b0 + R*(b1 + R*(b2 + R*(b3 + R*b4)))
    BY <2>2, <2>3 DEF NumberIn
  <2>7. PICK S \in Int : S = R
    BY <1>1
  <2>8. (a0+b0) + S*((a1+b1) + S*((a2+b2) + S*((a3+b3) + S*(a4+b4))))
        = (a0 + S*(a1 + S*(a2 + S*(a3 + S*a4)))) + (b0 + S*(b1 + S*(b2 + S*(b3 + S*b4))))
    BY SMTT(60)
  <2>9. QED
    BY <1>2, <2>5, <2>6, <2>7, <2>8
<1>7. NumberIn(R, h1) \in Int
  BY <1>1, <1>4, NumberTyped, Zenon
<1>8. ValueIn(R, F, s) = (ValueIn(R, F, h1) + n) % p
  <2>1. PICK x \in Int : x = NumberIn(R, h1)
    BY <1>7
  <2>2. n \in Int
    OBVIOUS
  <2>3. (x + n) % p = ((x % p) + (n % p)) % p
    BY <1>1, <2>2, SumRemainder, Zenon
  <2>4. x % p \in Int /\ n % p \in Int
    BY <1>1, <2>2
  <2>5. ((x % p) + n) % p = (((x % p) % p) + (n % p)) % p
    BY <1>1, <2>2, <2>4, SumRemainder, Zenon
  <2>6. (x % p) % p = x % p
    BY <1>1
  <2>7. (x + n) % p = ((x % p) + n) % p
    BY <2>3, <2>5, <2>6, Zenon
  <2>8. QED
    BY <1>1, <1>6, <2>1, <2>7, Zenon DEF ValueIn
<1> DEFINE t == ProductIn(F, s, g1)
<1>9. t \in Element /\ ValueIn(R, F, t) = (ValueIn(R, F, s) * ValueIn(R, F, g1)) % p
  BY <1>1, <1>4, ProductIsCongruent, Zenon
<1>10. ValueIn(R, F, CarriedIn(R, F, t)) = ValueIn(R, F, t)
  BY <1>1, <1>9, CarriedIsCongruent, Zenon
<1>11. ValueIn(R, F, g1) = q % p
  BY <1>1, <1>2, Zenon DEF ValueIn
<1>12. ValueIn(R, F, s) \in Int /\ ValueIn(R, F, s) % p = ValueIn(R, F, s)
  <2>1. NumberIn(R, s) \in Int
    BY <1>1, <1>4, NumberTyped, Zenon
  <2>2. QED
    BY <1>1, <2>1 DEF ValueIn
<1>13. (ValueIn(R, F, s) * (q % p)) % p = (ValueIn(R, F, s) * q) % p
  <2>1. PICK x \in Int : x = ValueIn(R, F, s) /\ x % p = x
    BY <1>12
  <2>2. q \in Int
    OBVIOUS
  <2>3. (x * q) % p = ((x % p) * (q % p)) % p
    BY <1>1, <2>2, ProductRemainder, Zenon
  <2>4. QED
    BY <2>1, <2>3, Zenon
<1>14. Step(q, h1, n) = CarriedIn(R, F, t)
  BY DEF Step, R, F, s, g1
<1>15. QED
  BY <1>8, <1>9, <1>10, <1>11, <1>13, <1>14, Zenon DEF R, F, p

-----------------------------------------------------------------------------
\* An OR of words is a word.
LEMMA OrTyped ==
  ASSUME NEW n \in Nat, NEW x \in Nat, NEW y \in Nat
  PROVE  Seal!BitOr(x, y, n) \in Nat
<1> DEFINE S == {m \in Nat : \A u, v \in Nat : Seal!BitOr(u, v, m) \in Nat}
<1>1. 0 \in S
  <2>1. \A u, v \in Nat : Seal!BitOr(u, v, 0) = 0
    BY OrIs
  <2>2. QED
    BY <2>1
<1>2. ASSUME NEW m \in S
      PROVE  m + 1 \in S
  <2>1. m \in Nat
    OBVIOUS
  <2>2. ASSUME NEW u \in Nat, NEW v \in Nat
        PROVE  Seal!BitOr(u, v, m + 1) \in Nat
    <3>1. u \div 2 \in Nat /\ v \div 2 \in Nat
      BY BitAndRest
    <3>2. Seal!BitOr(u \div 2, v \div 2, m) \in Nat
      BY <1>2, <3>1
    <3> HIDE DEF S
    <3>3. Seal!BitOr(u, v, m + 1)
          = EitherBit(u % 2, v % 2) + 2 * Seal!BitOr(u \div 2, v \div 2, m)
      BY <2>1, OrIs, Zenon
    <3>4. EitherBit(u % 2, v % 2) \in Nat
      BY DEF EitherBit
    <3>5. QED
      BY <3>2, <3>3, <3>4
  <2>3. QED
    BY <2>1, <2>2
<1>3. S = Nat
  <2> HIDE DEF S
  <2>1. S \in SUBSET Nat
    BY DEF S
  <2>2. QED
    BY <1>1, <1>2, <2>1, Induction
<1>4. \A u, v \in Nat : Seal!BitOr(u, v, n) \in Nat
  <2>1. n \in S
    <3> HIDE DEF S
    <3>1. QED
      BY <1>3
  <2>2. QED
    BY <2>1
<1>5. QED
  BY <1>4, Zenon

\* The powers of the radix as powers of two.
LEMMA RadixPowers ==
  LET L == LimbWidth
      R == MacRadix
  IN  /\ Seal!Power2[L] = R /\ Seal!Power2[2 * L] = R * R
      /\ Seal!Power2[3 * L] = (R * R) * R /\ Seal!Power2[4 * L] = (R * R) * (R * R)
      /\ Seal!Span = 4 * Seal!BlockSpan
      /\ R > 2 => (R * R) * (R * R) <= Seal!BlockSpan
<1> DEFINE L == LimbWidth
           R == MacRadix
           W == BlockBytes * ByteBits
<1>1. L \in Nat /\ R \in Nat \ {0} /\ Seal!Power2[L] = R /\ W \in Nat /\ W + 2 = 5 * L
      /\ Seal!BlockSpan = Seal!Power2[W]
  BY SealTyped
<1> HIDE DEF L, R, W
<1>2. 2 * L \in Nat /\ 3 * L \in Nat /\ 4 * L \in Nat /\ 5 * L \in Nat
      /\ 2 * L = L + L /\ 3 * L = 2 * L + L /\ 4 * L = 2 * L + 2 * L /\ 5 * L = 4 * L + L
  BY <1>1
<1>3. Seal!Power2[2 * L] = R * R
  <2>1. Seal!Power2[L + L] = Seal!Power2[L] * Seal!Power2[L]
    BY <1>1, PowerOfSum
  <2>2. QED
    BY <1>1, <1>2, <2>1, Zenon
<1>4. Seal!Power2[3 * L] = (R * R) * R
  <2>1. Seal!Power2[2 * L + L] = Seal!Power2[2 * L] * Seal!Power2[L]
    BY <1>1, <1>2, PowerOfSum
  <2>2. QED
    BY <1>1, <1>2, <1>3, <2>1, Zenon
<1>5. Seal!Power2[4 * L] = (R * R) * (R * R)
  <2>1. Seal!Power2[2 * L + 2 * L] = Seal!Power2[2 * L] * Seal!Power2[2 * L]
    BY <1>2, PowerOfSum
  <2>2. QED
    BY <1>2, <1>3, <2>1, Zenon
<1>6. Seal!Span = 4 * Seal!BlockSpan
  <2>1. Seal!Power2[5 * L] = ((R * R) * (R * R)) * R
    <3>1. Seal!Power2[4 * L + L] = Seal!Power2[4 * L] * Seal!Power2[L]
      BY <1>1, <1>2, PowerOfSum
    <3>2. QED
      BY <1>1, <1>2, <1>5, <3>1, Zenon
  <2>2. Seal!Span = R * R * R * R * R
    BY DEF Seal!Span, R
  <2>3. ((R * R) * (R * R)) * R = R * R * R * R * R
    BY <1>1
  <2>4. Seal!Power2[W + 2] = 4 * Seal!Power2[W]
    <3>1. Seal!Power2[W] \in Nat /\ Seal!Power2[W + 1] = 2 * Seal!Power2[W]
      BY <1>1, Power2Is
    <3>2. Seal!Power2[(W + 1) + 1] = 2 * Seal!Power2[W + 1]
      BY <1>1, Power2Is
    <3>3. (W + 1) + 1 = W + 2
      BY <1>1
    <3>4. QED
      BY <3>1, <3>2, <3>3
  <2>5. QED
    BY <1>1, <2>1, <2>2, <2>3, <2>4, Zenon
<1>7. ASSUME R > 2
      PROVE  (R * R) * (R * R) <= Seal!BlockSpan
  <2>1. L >= 2
    <3>1. Seal!Power2[0] = 1 /\ Seal!Power2[0 + 1] = 2 * Seal!Power2[0]
      BY Power2Is
    <3>2. L # 0 /\ L # 1
      BY <1>1, <1>7, <3>1
    <3>3. QED
      BY <1>1, <3>2
  <2>2. 4 * L <= W
    BY <1>1, <2>1
  <2>3. QED
    BY <1>1, <1>2, <1>5, <2>2, PowerGrows, Zenon
<1>8. QED
  BY <1>1, <1>3, <1>4, <1>5, <1>6, <1>7 DEF L, R

\* Joined limbs are a number.
LEMMA JoinedNat ==
  ASSUME NEW l \in NatElement
  PROVE  Seal!Joined(l) \in Nat
<1> DEFINE W == BlockBytes * ByteBits
           R == MacRadix
           Q == R * R
           o0 == Seal!BitOr(0, l[0] * 1, W)
           o1 == Seal!BitOr(o0, l[1] * R, W)
           o2 == Seal!BitOr(o1, l[2] * Q, W)
           o3 == Seal!BitOr(o2, l[3] * (Q * R), W)
           o4 == Seal!BitOr(o3, l[4] * (Q * Q), W)
<1>1. W \in Nat /\ R \in Nat
  BY SealTyped
<1>2. l[0] \in Nat /\ l[1] \in Nat /\ l[2] \in Nat /\ l[3] \in Nat /\ l[4] \in Nat
  BY DEF NatElement, Limbs5
<1>3. Seal!Joined(l) = o4
  BY DEF Seal!Joined
<1> HIDE DEF W, R
<1>4. /\ l[0] * 1 \in Nat /\ l[1] * R \in Nat /\ l[2] * Q \in Nat /\ l[3] * (Q * R) \in Nat
      /\ l[4] * (Q * Q) \in Nat /\ 0 \in Nat
  <2>1. Q \in Nat
    BY <1>1
  <2> HIDE DEF Q
  <2>2. Q * R \in Nat /\ Q * Q \in Nat
    BY <1>1, <2>1
  <2>3. QED
    BY <1>1, <1>2, <2>1, <2>2
<1> HIDE DEF Q
<1>5. o0 \in Nat
  BY <1>1, <1>4, OrTyped, Zenon
<1> HIDE DEF o0
<1>6. o1 \in Nat
  BY <1>1, <1>4, <1>5, OrTyped, Zenon
<1> HIDE DEF o1
<1>7. o2 \in Nat
  BY <1>1, <1>4, <1>6, OrTyped, Zenon
<1> HIDE DEF o2
<1>8. o3 \in Nat
  BY <1>1, <1>4, <1>7, OrTyped, Zenon
<1> HIDE DEF o3
<1>9. o4 \in Nat
  BY <1>1, <1>4, <1>8, OrTyped, Zenon
<1>10. QED
  BY <1>3, <1>9, Zenon

\* Limbs below the radix are joined to the number they stand for.
LEMMA JoinedIs ==
  ASSUME LimbsAreWide, NEW l \in NatElement, \A i \in Limbs5 : l[i] \in 0 .. MacRadix - 1
  PROVE  Seal!Joined(l) = NumberIn(MacRadix, l) % Seal!BlockSpan
<1> DEFINE W == BlockBytes * ByteBits
           L == LimbWidth
           R == MacRadix
           Q == R * R
           B == Seal!BlockSpan
           o0 == Seal!BitOr(0, l[0] * 1, W)
           o1 == Seal!BitOr(o0, l[1] * R, W)
           o2 == Seal!BitOr(o1, l[2] * Q, W)
           o3 == Seal!BitOr(o2, l[3] * (Q * R), W)
           o4 == Seal!BitOr(o3, l[4] * (Q * Q), W)
<1>1. W \in Nat /\ R \in Nat /\ B = Seal!Power2[W] /\ B \in Nat \ {0} /\ L \in Nat /\ R > 2
  <2>1. 11 * (MacFold * MacFold) >= 11
    <3>1. MacFold \in Nat \ {0}
      BY SealTyped
    <3>2. MacFold * MacFold >= 1
      BY <3>1
    <3>3. QED
      BY <3>1, <3>2
  <2>2. 11 * (MacFold * MacFold) \in Int
    BY SealTyped
  <2>3. QED
    BY SealTyped, <2>1, <2>2 DEF LimbsAreWide
<1>2. /\ l[0] \in 0 .. R - 1 /\ l[1] \in 0 .. R - 1 /\ l[2] \in 0 .. R - 1
      /\ l[3] \in 0 .. R - 1 /\ l[4] \in 0 .. R - 1
  BY DEF Limbs5
<1>3. Seal!Joined(l) = o4
  BY DEF Seal!Joined
<1>4. /\ Seal!Power2[L] = R /\ Seal!Power2[2 * L] = Q /\ Seal!Power2[3 * L] = Q * R
      /\ Seal!Power2[4 * L] = Q * Q /\ Q * Q <= B /\ Seal!Power2[0] = 1
  BY <1>1, RadixPowers, Power2Is
<1> HIDE DEF W, R, B, L
<1>5. PICK l0 \in 0 .. R - 1, l1 \in 0 .. R - 1, l2 \in 0 .. R - 1, l3 \in 0 .. R - 1,
           l4 \in 0 .. R - 1 :
        l0 = l[0] /\ l1 = l[1] /\ l2 = l[2] /\ l3 = l[3] /\ l4 = l[4]
  BY <1>2
<1>6. /\ l0 \in Nat /\ l1 \in Nat /\ l2 \in Nat /\ l3 \in Nat /\ l4 \in Nat
  BY <1>1
<1>7. Q \in Nat /\ Q * R \in Nat /\ Q * Q \in Nat /\ Q * Q = (Q * R) * R
  BY <1>1
<1> DEFINE n0 == l0
           n1 == l0 + l1 * R
           n2 == n1 + l2 * Q
           n3 == n2 + l3 * (Q * R)
           n4 == n3 + l4 * (Q * Q)
<1>8. ASSUME NEW x \in Nat, NEW y \in 0 .. x - 1, NEW z \in 0 .. R - 1
      PROVE  y + z * x \in 0 .. x * R - 1
  <2>1. z * x \in Nat /\ z * x <= (R - 1) * x
    BY <1>1
  <2>2. (R - 1) * x = x * R - x /\ x * R \in Nat
    BY <1>1
  <2>3. QED
    BY <2>1, <2>2
<1>9. n0 \in 0 .. R - 1 /\ n1 \in 0 .. Q - 1
  <2>1. n1 \in 0 .. R * R - 1
    BY <1>1, <1>8
  <2>2. QED
    BY <2>1
<1>10. n2 \in 0 .. Q * R - 1
  <2> HIDE DEF Q, n1
  <2>1. QED
    BY <1>7, <1>8, <1>9
<1>11. n3 \in 0 .. Q * Q - 1
  <2>1. PICK x \in Nat : x = Q * R /\ Q * Q = x * R
    BY <1>7
  <2> HIDE DEF Q, n2
  <2>2. n2 \in 0 .. x - 1
    BY <1>10, <2>1
  <2>3. n2 + l3 * x \in 0 .. x * R - 1
    BY <1>8, <2>1, <2>2
  <2>4. QED
    BY <2>1, <2>3
<1> HIDE DEF Q
<1>12. R <= Q /\ Q <= Q * R /\ Q * R <= Q * Q
  BY <1>1, <1>7 DEF Q
<1>13. n0 \in 0 .. B - 1 /\ n1 \in 0 .. B - 1 /\ n2 \in 0 .. B - 1 /\ n3 \in 0 .. B - 1
       /\ l4 * (Q * Q) \in Nat
  <2>1. PICK x \in Nat, y \in Nat : x = Q * R /\ y = Q * Q
    BY <1>7
  <2> HIDE DEF n1, n2, n3
  <2>2. R <= B /\ Q <= B /\ x <= B /\ y <= B
    BY <1>1, <1>4, <1>7, <1>12, <2>1
  <2>3. l4 * y \in Nat
    BY <1>6, <2>1
  <2>4. QED
    BY <1>1, <1>7, <1>9, <1>10, <1>11, <2>1, <2>2, <2>3
<1>14. \A x \in 0 .. B - 1 : x % B = x
  BY <1>1
<1>15. 0 \in 0 .. Seal!Power2[0] - 1 /\ 0 \in Nat /\ 0 + l0 * 1 = n0
  BY <1>4, <1>6
<1>16. 2 * L \in Nat /\ 3 * L \in Nat /\ 4 * L \in Nat
  BY <1>1
<1> HIDE DEF n1, n2, n3
<1>17. o0 = n0
  <2>1. Seal!BitOr(0, l0 * Seal!Power2[0], W) = (0 + l0 * Seal!Power2[0]) % Seal!Power2[W]
    BY <1>1, <1>6, <1>15, OrIsSum, Zenon
  <2>2. QED
    BY <1>1, <1>4, <1>5, <1>13, <1>14, <1>15, <2>1, Zenon
<1>18. o1 = n1
  <2>1. n0 \in 0 .. Seal!Power2[L] - 1
    BY <1>4, <1>9, Zenon
  <2>2. Seal!BitOr(n0, l1 * Seal!Power2[L], W) = (n0 + l1 * Seal!Power2[L]) % Seal!Power2[W]
    BY <1>1, <1>6, <2>1, OrIsSum, Zenon
  <2>3. (n0 + l1 * R) % B = n1
    BY <1>13, <1>14, Zenon DEF n1
  <2> HIDE DEF o0
  <2>4. QED
    BY <1>1, <1>4, <1>5, <1>17, <2>2, <2>3, Zenon
<1>19. o2 = n2
  <2>1. n1 \in 0 .. Seal!Power2[2 * L] - 1
    BY <1>4, <1>9, Zenon
  <2>2. Seal!BitOr(n1, l2 * Seal!Power2[2 * L], W)
        = (n1 + l2 * Seal!Power2[2 * L]) % Seal!Power2[W]
    BY <1>1, <1>6, <1>16, <2>1, OrIsSum, Zenon
  <2>3. (n1 + l2 * Q) % B = n2
    BY <1>13, <1>14, Zenon DEF n2
  <2> HIDE DEF o1
  <2>4. QED
    BY <1>1, <1>4, <1>5, <1>18, <2>2, <2>3, Zenon
<1>20. o3 = n3
  <2>1. n2 \in 0 .. Seal!Power2[3 * L] - 1
    BY <1>4, <1>10, Zenon
  <2>2. Seal!BitOr(n2, l3 * Seal!Power2[3 * L], W)
        = (n2 + l3 * Seal!Power2[3 * L]) % Seal!Power2[W]
    BY <1>1, <1>6, <1>16, <2>1, OrIsSum, Zenon
  <2>3. (n2 + l3 * (Q * R)) % B = n3
    BY <1>13, <1>14, Zenon DEF n3
  <2> HIDE DEF o2
  <2>4. QED
    BY <1>1, <1>4, <1>5, <1>19, <2>2, <2>3, Zenon
<1>21. o4 = n4 % B
  <2>1. n3 \in 0 .. Seal!Power2[4 * L] - 1
    BY <1>4, <1>11, Zenon
  <2>2. Seal!BitOr(n3, l4 * Seal!Power2[4 * L], W)
        = (n3 + l4 * Seal!Power2[4 * L]) % Seal!Power2[W]
    BY <1>1, <1>6, <1>16, <2>1, OrIsSum, Zenon
  <2> HIDE DEF o3
  <2>3. QED
    BY <1>1, <1>4, <1>5, <1>20, <2>2, Zenon
<1>22. n4 = NumberIn(R, l)
  <2>1. NumberIn(R, l) = l0 + R * (l1 + R * (l2 + R * (l3 + R * l4)))
    BY <1>5 DEF NumberIn
  <2>2. n4 = l0 + l1 * R + l2 * (R * R) + l3 * ((R * R) * R) + l4 * ((R * R) * (R * R))
    BY DEF n1, n2, n3, Q
  <2>3. l0 + l1 * R + l2 * (R * R) + l3 * ((R * R) * R) + l4 * ((R * R) * (R * R))
        = l0 + R * (l1 + R * (l2 + R * (l3 + R * l4)))
    BY <1>1, <1>6, SMTT(60)
  <2>4. QED
    BY <2>1, <2>2, <2>3
<1>23. QED
  BY <1>3, <1>21, <1>22, Zenon DEF R, B

\* The last carries.
LEMMA CarriedOnTyped ==
  ASSUME NEW h1 \in NatElement
  PROVE  Seal!CarriedOn(h1) \in NatElement /\ Seal!Reduced(h1) \in NatElement
<1> DEFINE R == MacRadix
           F == MacFold
<1>1. R \in Nat \ {0} /\ F \in Nat
  BY SealTyped
<1>2. h1[0] \in Nat /\ h1[1] \in Nat /\ h1[2] \in Nat /\ h1[3] \in Nat /\ h1[4] \in Nat
  BY DEF NatElement, Limbs5
<1> HIDE DEF R, F
<1>3. \A x \in Nat : x \div R \in Nat /\ x % R \in Nat
  BY <1>1
<1>4. Seal!CarriedOn(h1) \in NatElement
  <2> DEFINE t2 == h1[2] + h1[1] \div R
             t3 == h1[3] + t2 \div R
             t4 == h1[4] + t3 \div R
             t0 == h1[0] + (t4 \div R) * F
             u1 == (h1[1] % R) + t0 \div R
             s == <<t0 % R, u1, t2 % R, t3 % R, t4 % R>>
             res == [i \in Limbs5 |-> s[i + 1]]
  <2>1. Seal!CarriedOn(h1) = res
    BY DEF Seal!CarriedOn, Seal!Limbs, Limbs5, R, F
  <2>2. t2 \in Nat
    BY <1>2, <1>3
  <2> HIDE DEF t2
  <2>3. t3 \in Nat
    BY <1>2, <1>3, <2>2
  <2> HIDE DEF t3
  <2>4. t4 \in Nat
    BY <1>2, <1>3, <2>3
  <2> HIDE DEF t4
  <2>5. t0 \in Nat
    BY <1>1, <1>2, <1>3, <2>4
  <2> HIDE DEF t0
  <2>6. u1 \in Nat
    BY <1>2, <1>3, <2>5
  <2>7. t0 % R \in Nat /\ t2 % R \in Nat /\ t3 % R \in Nat /\ t4 % R \in Nat
    BY <1>3, <2>2, <2>3, <2>4, <2>5
  <2> HIDE DEF u1
  <2>8. \A i \in Limbs5 : res[i] \in Nat
    <3>1. res[0] = t0 % R /\ res[1] = u1 /\ res[2] = t2 % R /\ res[3] = t3 % R /\ res[4] = t4 % R
      BY DEF Limbs5
    <3> HIDE DEF res
    <3>2. QED
      BY <2>6, <2>7, <3>1, FiveLimbs
  <2>9. res \in NatElement
    <3>1. res = [i \in Limbs5 |-> res[i]]
      OBVIOUS
    <3> HIDE DEF res
    <3>2. QED
      BY <2>8, <3>1 DEF NatElement
  <2>10. QED
    BY <2>1, <2>9
<1>5. Seal!Reduced(h1) \in NatElement
  <2> DEFINE t0 == h1[0] + F
             t1 == h1[1] + t0 \div R
             t2 == h1[2] + t1 \div R
             t3 == h1[3] + t2 \div R
             t4 == h1[4] + t3 \div R - R
             s == <<t0 % R, t1 % R, t2 % R, t3 % R, t4>>
             res == [i \in Limbs5 |-> s[i + 1]]
  <2>1. Seal!Reduced(h1) = IF t4 < 0 THEN h1 ELSE res
    BY DEF Seal!Reduced, Seal!Limbs, Limbs5, R, F
  <2>2. t0 \in Nat
    BY <1>1, <1>2
  <2> HIDE DEF t0
  <2>3. t1 \in Nat
    BY <1>2, <1>3, <2>2
  <2> HIDE DEF t1
  <2>4. t2 \in Nat
    BY <1>2, <1>3, <2>3
  <2> HIDE DEF t2
  <2>5. t3 \in Nat
    BY <1>2, <1>3, <2>4
  <2> HIDE DEF t3
  <2>6. t4 \in Int
    BY <1>1, <1>2, <1>3, <2>5
  <2>7. t0 % R \in Nat /\ t1 % R \in Nat /\ t2 % R \in Nat /\ t3 % R \in Nat
    BY <1>3, <2>2, <2>3, <2>4, <2>5
  <2> HIDE DEF t4
  <2>8. CASE t4 < 0
    BY <2>1, <2>8
  <2>9. CASE ~(t4 < 0)
    <3>1. t4 \in Nat
      BY <2>6, <2>9
    <3>2. res[0] = t0 % R /\ res[1] = t1 % R /\ res[2] = t2 % R /\ res[3] = t3 % R /\ res[4] = t4
          /\ res = [i \in Limbs5 |-> res[i]]
      BY DEF Limbs5
    <3> HIDE DEF res
    <3>3. \A i \in Limbs5 : res[i] \in Nat
      BY <2>7, <3>1, <3>2, FiveLimbs
    <3>4. res \in NatElement
      BY <3>2, <3>3 DEF NatElement
    <3>5. QED
      BY <2>1, <2>9, <3>4
  <2>10. QED
    BY <2>8, <2>9
<1>6. QED
  BY <1>4, <1>5

\* A limb with a carry into it: at most one goes on.
LEMMA SmallCarry ==
  ASSUME NEW R \in Nat \ {0}, NEW x \in 0 .. 2 * R - 1
  PROVE  \/ x < R /\ x \div R = 0 /\ x % R = x
         \/ x >= R /\ x \div R = 1 /\ x % R = x - R
<1>1. x \in Int /\ x \div R \in Int /\ x % R \in 0 .. R - 1 /\ x = R * (x \div R) + (x % R)
  <2>1. x \in Int
    OBVIOUS
  <2>2. QED
    BY <2>1, DivMod, Zenon
<1>2. PICK q \in Int, d \in 0 .. R - 1 : q = x \div R /\ d = x % R /\ x = R * q + d
  BY <1>1
<1>3. q \in 0 .. 1
  <2>1. x \in Nat /\ 1 \in Nat /\ x < R * (1 + 1)
    OBVIOUS
  <2>2. QED
    BY <1>2, <2>1, QuotientWithin, Zenon
<1>4. CASE q = 0
  BY <1>2, <1>4
<1>5. CASE q = 1
  BY <1>2, <1>5
<1>6. QED
  BY <1>3, <1>4, <1>5

\* Carrying on leaves every limb below the radix, and the value as it is.
LEMMA CarriedOnIs ==
  ASSUME LimbsAreWide, NEW h1, Accumulator(h1)
  PROVE  /\ \A i \in Limbs5 : Seal!CarriedOn(h1)[i] \in 0 .. MacRadix - 1
         /\ \E k \in Int : NumberIn(MacRadix, h1)
                           = NumberIn(MacRadix, Seal!CarriedOn(h1)) + Seal!P * k
<1> DEFINE R == MacRadix
           F == MacFold
           t2 == h1[2] + h1[1] \div R
           t3 == h1[3] + t2 \div R
           t4 == h1[4] + t3 \div R
           t0 == h1[0] + (t4 \div R) * F
           u1 == (h1[1] % R) + t0 \div R
           s == <<t0 % R, u1, t2 % R, t3 % R, t4 % R>>
           res == [i \in Limbs5 |-> s[i + 1]]
<1>1. R \in Nat \ {0} /\ F \in Nat \ {0} /\ F < R
  <2>1. R \in Nat \ {0} /\ F \in Nat \ {0}
    BY SealTyped
  <2>2. F <= 11 * (F * F) /\ 11 * (F * F) \in Nat
    BY <2>1
  <2>3. 11 * (F * F) < R
    BY DEF LimbsAreWide
  <2>4. QED
    BY <2>1, <2>2, <2>3
<1>2. Seal!P = R * R * R * R * R - F
  BY DEF Seal!P, Seal!Span
<1>3. Seal!CarriedOn(h1) = res
  BY DEF Seal!CarriedOn, Seal!Limbs, Limbs5
<1>4. /\ h1[0] \in 0 .. R - 1 /\ h1[1] \in 0 .. 2 * R - 2 /\ h1[2] \in 0 .. R - 1
      /\ h1[3] \in 0 .. R - 1 /\ h1[4] \in 0 .. R - 1
  <2>1. 2 * (R - 1) = 2 * R - 2
    BY <1>1
  <2>2. QED
    BY <2>1 DEF Accumulator, Limbs5
<1> HIDE DEF R, F
<1>5. PICK a0 \in 0 .. R - 1, a1 \in 0 .. 2 * R - 2, a2 \in 0 .. R - 1, a3 \in 0 .. R - 1,
           a4 \in 0 .. R - 1 :
        a0 = h1[0] /\ a1 = h1[1] /\ a2 = h1[2] /\ a3 = h1[3] /\ a4 = h1[4]
  BY <1>4
<1>6. \/ a1 < R /\ h1[1] \div R = 0 /\ h1[1] % R = a1
      \/ a1 >= R /\ h1[1] \div R = 1 /\ h1[1] % R = a1 - R
  <2>1. a1 \in 0 .. 2 * R - 1
    BY <1>1
  <2>2. QED
    BY <1>1, <1>5, <2>1, SmallCarry, Zenon
<1>7. PICK c1 \in 0 .. 1, k1 \in Int : c1 = h1[1] \div R /\ k1 = h1[1] % R
                                      /\ a1 = R * c1 + k1 /\ k1 \in 0 .. R - 1
                                      /\ (c1 = 1 => k1 <= R - 2)
  BY <1>1, <1>6
<1>8. t2 = a2 + c1
  BY <1>5, <1>7
<1> HIDE DEF t2
<1>9. PICK c2 \in 0 .. 1, k2 \in 0 .. R - 1 : c2 = t2 \div R /\ k2 = t2 % R
                                   /\ a2 + c1 = R * c2 + k2 /\ (c2 = 1 => c1 = 1)
  <2>1. t2 \in 0 .. 2 * R - 1
    BY <1>1, <1>8
  <2>2. \/ t2 < R /\ t2 \div R = 0 /\ t2 % R = t2
        \/ t2 >= R /\ t2 \div R = 1 /\ t2 % R = t2 - R
    BY <1>1, <2>1, SmallCarry, Zenon
  <2>3. QED
    BY <1>1, <1>8, <2>1, <2>2
<1>10. t3 = a3 + c2
  BY <1>5, <1>9
<1> HIDE DEF t3
<1>11. PICK c3 \in 0 .. 1, k3 \in 0 .. R - 1 : c3 = t3 \div R /\ k3 = t3 % R
                                   /\ a3 + c2 = R * c3 + k3 /\ (c3 = 1 => c2 = 1)
  <2>1. t3 \in 0 .. 2 * R - 1
    BY <1>1, <1>10
  <2>2. \/ t3 < R /\ t3 \div R = 0 /\ t3 % R = t3
        \/ t3 >= R /\ t3 \div R = 1 /\ t3 % R = t3 - R
    BY <1>1, <2>1, SmallCarry, Zenon
  <2>3. QED
    BY <1>1, <1>10, <2>1, <2>2
<1>12. t4 = a4 + c3
  BY <1>5, <1>11
<1> HIDE DEF t4
<1>13. PICK c4 \in 0 .. 1, k4 \in 0 .. R - 1 : c4 = t4 \div R /\ k4 = t4 % R
                                   /\ a4 + c3 = R * c4 + k4 /\ (c4 = 1 => c3 = 1)
  <2>1. t4 \in 0 .. 2 * R - 1
    BY <1>1, <1>12
  <2>2. \/ t4 < R /\ t4 \div R = 0 /\ t4 % R = t4
        \/ t4 >= R /\ t4 \div R = 1 /\ t4 % R = t4 - R
    BY <1>1, <2>1, SmallCarry, Zenon
  <2>3. QED
    BY <1>1, <1>12, <2>1, <2>2
<1>14. t0 = a0 + c4 * F
  BY <1>5, <1>13
<1> HIDE DEF t0
<1>15. PICK c0 \in 0 .. 1, k0 \in 0 .. R - 1 : c0 = t0 \div R /\ k0 = t0 % R
                                   /\ a0 + c4 * F = R * c0 + k0 /\ (c0 = 1 => c4 = 1)
  <2>1. t0 \in 0 .. 2 * R - 1 /\ (t0 >= R => c4 = 1)
    BY <1>1, <1>14
  <2>2. \/ t0 < R /\ t0 \div R = 0 /\ t0 % R = t0
        \/ t0 >= R /\ t0 \div R = 1 /\ t0 % R = t0 - R
    BY <1>1, <2>1, SmallCarry, Zenon
  <2>3. QED
    BY <1>1, <1>14, <2>1, <2>2
<1>16. u1 = k1 + c0 /\ k1 + c0 \in 0 .. R - 1
  <2>1. c0 = 1 => k1 <= R - 2
    BY <1>7, <1>9, <1>11, <1>13, <1>15
  <2>2. u1 = k1 + c0
    BY <1>7, <1>15
  <2> HIDE DEF u1
  <2>3. QED
    BY <1>1, <1>7, <2>1, <2>2
<1> HIDE DEF u1
<1>17. res[0] = k0 /\ res[1] = k1 + c0 /\ res[2] = k2 /\ res[3] = k3 /\ res[4] = k4
  BY <1>9, <1>11, <1>13, <1>15, <1>16 DEF Limbs5
<1> HIDE DEF res
<1>18. \A i \in Limbs5 : res[i] \in 0 .. R - 1
  BY <1>16, <1>17, FiveLimbs
<1>19. NumberIn(R, h1) = NumberIn(R, res) + Seal!P * c4
  <2>1. NumberIn(R, h1) = a0 + R * (a1 + R * (a2 + R * (a3 + R * a4)))
    BY <1>5 DEF NumberIn
  <2>2. NumberIn(R, res) = k0 + R * ((k1 + c0) + R * (k2 + R * (k3 + R * k4)))
    BY <1>17 DEF NumberIn
  <2>3. /\ a0 = R * c0 + k0 - c4 * F /\ a1 = R * c1 + k1 /\ a2 = R * c2 + k2 - c1
        /\ a3 = R * c3 + k3 - c2 /\ a4 = R * c4 + k4 - c3
    <3>1. a0 = R * c0 + k0 - c4 * F
      BY <1>1, <1>15
    <3>2. a1 = R * c1 + k1
      BY <1>7
    <3>3. a2 = R * c2 + k2 - c1
      <4>1. PICK x \in Int : x = R * c2
        BY <1>1
      <4>2. a2 + c1 = x + k2
        BY <1>9, <4>1
      <4>3. a2 \in Int /\ k2 \in Int /\ c1 \in Int
        BY <1>1
      <4>4. a2 = x + k2 - c1
        BY <4>2, <4>3
      <4>5. QED
        BY <4>1, <4>4
    <3>4. a3 = R * c3 + k3 - c2
      <4>1. PICK x \in Int : x = R * c3
        BY <1>1
      <4>2. a3 + c2 = x + k3
        BY <1>11, <4>1
      <4>3. a3 \in Int /\ k3 \in Int /\ c2 \in Int
        BY <1>1
      <4>4. a3 = x + k3 - c2
        BY <4>2, <4>3
      <4>5. QED
        BY <4>1, <4>4
    <3>5. a4 = R * c4 + k4 - c3
      <4>1. PICK x \in Int : x = R * c4
        BY <1>1
      <4>2. a4 + c3 = x + k4
        BY <1>13, <4>1
      <4>3. a4 \in Int /\ k4 \in Int /\ c3 \in Int
        BY <1>1
      <4>4. a4 = x + k4 - c3
        BY <4>2, <4>3
      <4>5. QED
        BY <4>1, <4>4
    <3>6. QED
      BY <3>1, <3>2, <3>3, <3>4, <3>5
  <2>4. /\ k0 \in Int /\ k2 \in Int /\ k3 \in Int /\ k4 \in Int /\ R \in Int /\ F \in Int
    BY <1>1
  <2>5. a0 + R * (a1 + R * (a2 + R * (a3 + R * a4)))
        = (k0 + R * ((k1 + c0) + R * (k2 + R * (k3 + R * k4)))) + (R * R * R * R * R - F) * c4
    BY <2>3, <2>4, SMTT(60)
  <2>6. QED
    BY <1>2, <2>1, <2>2, <2>5
<1>20. QED
  BY <1>3, <1>18, <1>19 DEF R

\* What is left is reduced below P.
LEMMA ReducedIs ==
  ASSUME LimbsAreWide, NEW h1 \in NatElement, \A i \in Limbs5 : h1[i] \in 0 .. MacRadix - 1
  PROVE  /\ Seal!Reduced(h1) \in NatElement
         /\ \A i \in Limbs5 : Seal!Reduced(h1)[i] \in 0 .. MacRadix - 1
         /\ NumberIn(MacRadix, Seal!Reduced(h1)) = NumberIn(MacRadix, h1) % Seal!P
<1> DEFINE R == MacRadix
           F == MacFold
           t0 == h1[0] + F
           t1 == h1[1] + t0 \div R
           t2 == h1[2] + t1 \div R
           t3 == h1[3] + t2 \div R
           t4 == h1[4] + t3 \div R - R
           s == <<t0 % R, t1 % R, t2 % R, t3 % R, t4>>
           res == [i \in Limbs5 |-> s[i + 1]]
           p == Seal!P
<1>1. R \in Nat \ {0} /\ F \in Nat \ {0} /\ F < R
  <2>1. R \in Nat \ {0} /\ F \in Nat \ {0}
    BY SealTyped
  <2>2. F <= 11 * (F * F) /\ 11 * (F * F) \in Nat
    BY <2>1
  <2>3. 11 * (F * F) < R
    BY DEF LimbsAreWide
  <2>4. QED
    BY <2>1, <2>2, <2>3
<1>2. p = R * R * R * R * R - F
  BY DEF Seal!P, Seal!Span
<1>3. Seal!Reduced(h1) = IF t4 < 0 THEN h1 ELSE res
  BY DEF Seal!Reduced, Seal!Limbs, Limbs5
<1>4. /\ h1[0] \in 0 .. R - 1 /\ h1[1] \in 0 .. R - 1 /\ h1[2] \in 0 .. R - 1
      /\ h1[3] \in 0 .. R - 1 /\ h1[4] \in 0 .. R - 1
  BY DEF Limbs5
<1> HIDE DEF R, F, p
<1>5. PICK a0 \in 0 .. R - 1, a1 \in 0 .. R - 1, a2 \in 0 .. R - 1, a3 \in 0 .. R - 1,
           a4 \in 0 .. R - 1 :
        a0 = h1[0] /\ a1 = h1[1] /\ a2 = h1[2] /\ a3 = h1[3] /\ a4 = h1[4]
  BY <1>4
<1>6. ASSUME NEW x \in 0 .. 2 * R - 1
      PROVE  \E c \in 0 .. 1, k \in 0 .. R - 1 : c = x \div R /\ k = x % R /\ x = R * c + k
  <2>1. \/ x < R /\ x \div R = 0 /\ x % R = x
        \/ x >= R /\ x \div R = 1 /\ x % R = x - R
    BY <1>1, SmallCarry, Zenon
  <2>2. QED
    BY <1>1, <2>1
<1>7. t0 = a0 + F
  BY <1>5
<1> HIDE DEF t0
<1>8. PICK c0 \in 0 .. 1, k0 \in 0 .. R - 1 : c0 = t0 \div R /\ k0 = t0 % R /\ t0 = R * c0 + k0
  BY <1>1, <1>6, <1>7
<1>9. t1 = a1 + c0
  BY <1>5, <1>8
<1> HIDE DEF t1
<1>10. PICK c1 \in 0 .. 1, k1 \in 0 .. R - 1 : c1 = t1 \div R /\ k1 = t1 % R /\ t1 = R * c1 + k1
  BY <1>1, <1>6, <1>9
<1>11. t2 = a2 + c1
  BY <1>5, <1>10
<1> HIDE DEF t2
<1>12. PICK c2 \in 0 .. 1, k2 \in 0 .. R - 1 : c2 = t2 \div R /\ k2 = t2 % R /\ t2 = R * c2 + k2
  BY <1>1, <1>6, <1>11
<1>13. t3 = a3 + c2
  BY <1>5, <1>12
<1> HIDE DEF t3
<1>14. PICK c3 \in 0 .. 1, k3 \in 0 .. R - 1 : c3 = t3 \div R /\ k3 = t3 % R /\ t3 = R * c3 + k3
  BY <1>1, <1>6, <1>13
<1>15. t4 = a4 + c3 - R /\ t4 \in Int /\ t4 <= 0
  <2>1. t4 = a4 + c3 - R
    BY <1>5, <1>14
  <2>2. QED
    BY <1>1, <2>1
<1> HIDE DEF t4
<1>16. PICK n \in Int, S \in Int : n = NumberIn(R, h1) /\ S = R * R * R * R * R
                                  /\ n = a0 + R * (a1 + R * (a2 + R * (a3 + R * a4)))
  <2>1. NumberIn(R, h1) = a0 + R * (a1 + R * (a2 + R * (a3 + R * a4)))
    BY <1>5 DEF NumberIn
  <2>2. a0 + R * (a1 + R * (a2 + R * (a3 + R * a4))) \in Int /\ R * R * R * R * R \in Int
    BY <1>1
  <2>3. QED
    BY <2>1, <2>2
<1>17. ASSUME NEW x \in Nat, NEW y \in 0 .. x - 1, NEW z \in 0 .. R - 1
       PROVE  z + R * y \in 0 .. R * x - 1
  <2>1. R * y \in Nat /\ R * y <= R * (x - 1)
    BY <1>1
  <2>2. R * (x - 1) = R * x - R /\ R * x \in Nat
    BY <1>1
  <2>3. QED
    BY <1>1, <2>1, <2>2
<1> DEFINE Low(b0, b1, b2, b3) == b0 + R * (b1 + R * (b2 + R * b3))
<1>18. ASSUME NEW b0 \in 0 .. R - 1, NEW b1 \in 0 .. R - 1, NEW b2 \in 0 .. R - 1,
              NEW b3 \in 0 .. R - 1
       PROVE  Low(b0, b1, b2, b3) \in 0 .. R * (R * (R * R)) - 1
  <2>1. R \in Nat /\ R * R \in Nat /\ R * (R * R) \in Nat
    BY <1>1
  <2>2. b2 + R * b3 \in 0 .. R * R - 1
    BY <1>17, <2>1
  <2>3. PICK x \in 0 .. R * R - 1 : x = b2 + R * b3
    BY <2>2
  <2>4. b1 + R * x \in 0 .. R * (R * R) - 1
    BY <1>17, <2>1
  <2>5. PICK y \in 0 .. R * (R * R) - 1 : y = b1 + R * x
    BY <2>4
  <2>6. b0 + R * y \in 0 .. R * (R * (R * R)) - 1
    BY <1>17, <2>1
  <2>7. QED
    BY <2>3, <2>5, <2>6
<1>19. n \in 0 .. S - 1
  <2>1. PICK x \in Nat : x = R * (R * (R * R))
    BY <1>1
  <2>2. a1 + R * (a2 + R * (a3 + R * a4)) = Low(a1, a2, a3, a4)
    OBVIOUS
  <2>3. Low(a1, a2, a3, a4) \in 0 .. x - 1
    <3> HIDE DEF Low
    <3>1. QED
      BY <1>18, <2>1
  <2>4. PICK y \in 0 .. x - 1 : y = a1 + R * (a2 + R * (a3 + R * a4))
    BY <2>2, <2>3
  <2>5. a0 + R * y \in 0 .. R * x - 1
    BY <1>17
  <2>6. S = R * x
    BY <1>1, <1>16, <2>1
  <2>7. QED
    BY <1>16, <2>4, <2>5, <2>6
<1>20. n - p = Low(k0, k1, k2, k3) + (R * (R * (R * R))) * t4
  <2>1. /\ a0 = R * c0 + k0 - F /\ a1 = R * c1 + k1 - c0 /\ a2 = R * c2 + k2 - c1
        /\ a3 = R * c3 + k3 - c2 /\ a4 = t4 + R - c3
    <3>1. a0 = R * c0 + k0 - F
      BY <1>1, <1>7, <1>8
    <3>2. a1 = R * c1 + k1 - c0
      BY <1>1, <1>9, <1>10
    <3>3. a2 = R * c2 + k2 - c1
      BY <1>1, <1>11, <1>12
    <3>4. a3 = R * c3 + k3 - c2
      BY <1>1, <1>13, <1>14
    <3>5. a4 = t4 + R - c3
      BY <1>1, <1>15
    <3>6. QED
      BY <3>1, <3>2, <3>3, <3>4, <3>5
  <2>2. k0 \in Int /\ k1 \in Int /\ k2 \in Int /\ k3 \in Int /\ R \in Int /\ F \in Int
        /\ c0 \in Int /\ c1 \in Int /\ c2 \in Int /\ c3 \in Int /\ t4 \in Int
    BY <1>1, <1>15
  <2>3. (a0 + R * (a1 + R * (a2 + R * (a3 + R * a4)))) - (R * R * R * R * R - F)
        = (k0 + R * (k1 + R * (k2 + R * k3))) + (R * (R * (R * R))) * t4
    BY <2>1, <2>2, SMTT(60)
  <2>4. QED
    BY <1>2, <1>16, <2>3
<1>21a. PICK x \in Nat : x = R * (R * (R * R))
  BY <1>1
<1>21. PICK v \in 0 .. x - 1 : v = Low(k0, k1, k2, k3) /\ n - p = v + x * t4
  <2>1. Low(k0, k1, k2, k3) \in 0 .. R * (R * (R * R)) - 1
    BY <1>18
  <2> HIDE DEF Low
  <2>2. QED
    BY <1>20, <1>21a, <2>1
<1> HIDE DEF Low
<1>22. p \in Nat \ {0} /\ p = S - F /\ F <= p
  <2>1. S - F >= F /\ S - F > 0
    <3>1. S >= R * 2
      <4>1. R >= 2
        BY <1>1
      <4>2. R * R >= R * 2 /\ R * R \in Nat
        BY <1>1, <4>1
      <4>3. \A y \in Nat : y * R >= y /\ y * R \in Nat
        BY <1>1
      <4>4. S >= R * R
        BY <1>16, <4>2, <4>3
      <4>5. QED
        BY <1>1, <1>16, <4>2, <4>4
    <3>2. QED
      BY <1>1, <1>16, <3>1
  <2>2. QED
    BY <1>1, <1>2, <1>16, <2>1
<1>23. CASE t4 < 0
  <2>1. x * t4 <= x * (-1) /\ x * t4 \in Int /\ x * (-1) = -x
    BY <1>15, <1>23
  <2>2. n < p
    BY <1>21, <1>22, <2>1
  <2>3. n % p = n
    <3>1. n \in 0 .. p - 1
      BY <1>19, <1>22, <2>2
    <3>2. QED
      BY <1>22, <3>1
  <2>4. Seal!Reduced(h1) = h1
    BY <1>3, <1>23
  <2>5. QED
    BY <1>16, <2>3, <2>4 DEF R, p
<1>24. CASE ~(t4 < 0)
  <2>1. t4 = 0
    BY <1>15, <1>24
  <2>2. n - p = v
    BY <1>21, <2>1
  <2>3. n % p = v
    <3>1. v \in 0 .. p - 1
      <4>1. v < S - p /\ v >= 0 /\ v \in Int
        BY <1>19, <1>21, <1>22, <2>2
      <4>2. S - p = F
        BY <1>1, <1>16, <1>22
      <4>3. QED
        BY <1>1, <1>22, <4>1, <4>2
    <3>0. n = 1 * p + v
      BY <1>16, <1>21, <1>22, <2>2
    <3>2. 1 \in Int
      OBVIOUS
    <3>3. QED
      BY <1>22, <3>0, <3>1, <3>2, Remainder, Zenon
  <2>4. Seal!Reduced(h1) = res
    BY <1>3, <1>24
  <2>5. res[0] = k0 /\ res[1] = k1 /\ res[2] = k2 /\ res[3] = k3 /\ res[4] = 0
    BY <1>8, <1>10, <1>12, <1>14, <2>1 DEF Limbs5
  <2> HIDE DEF res
  <2>6. \A i \in Limbs5 : res[i] \in 0 .. R - 1
    <3>1. 0 \in 0 .. R - 1
      BY <1>1
    <3>2. QED
      BY <2>5, <3>1, FiveLimbs
  <2>7. NumberIn(R, res) = v
    <3>1. NumberIn(R, res) = k0 + R * (k1 + R * (k2 + R * (k3 + R * 0)))
      BY <2>5 DEF NumberIn
    <3>2. R * 0 = 0 /\ k3 + 0 = k3
      BY <1>1
    <3>3. QED
      BY <1>21, <3>1, <3>2 DEF Low
  <2>8. Seal!Reduced(h1) \in NatElement
    BY CarriedOnTyped
  <2>9. QED
    BY <1>16, <2>3, <2>4, <2>6, <2>7, <2>8 DEF R, p
<1>25. QED
  BY <1>23, <1>24

\* The tag of an accumulator is its value, and what is added, in a block.
LEMMA TagIs ==
  ASSUME pad \in 0 .. Seal!BlockSpan - 1, NEW h1 \in NatElement
  PROVE  /\ Seal!TagOf(h1) \in 0 .. Seal!BlockSpan - 1
         /\ LimbsAreWide /\ Accumulator(h1) =>
              Seal!TagOf(h1) = (ValueIn(MacRadix, MacFold, h1) + pad) % Seal!BlockSpan
<1> DEFINE g1 == Seal!CarriedOn(h1)
           l == Seal!Reduced(g1)
           B == Seal!BlockSpan
<1>1. g1 \in NatElement
  BY CarriedOnTyped
<1>2. l \in NatElement
  BY <1>1, CarriedOnTyped
<1>3. Seal!TagOf(h1) = (Seal!Joined(l) + pad) % B
  BY DEF Seal!TagOf
<1> HIDE DEF l, g1
<1>4. Seal!Joined(l) \in Nat
  BY <1>2, JoinedNat
<1>5. B \in Nat \ {0} /\ pad \in Nat
  BY SealTyped
<1> HIDE DEF B
<1>6. Seal!TagOf(h1) \in 0 .. B - 1
  <2>1. PICK x \in Nat : x = Seal!Joined(l)
    BY <1>4
  <2>2. (x + pad) % B \in 0 .. B - 1
    BY <1>5
  <2>3. QED
    BY <1>3, <2>1, <2>2
<1>7. ASSUME LimbsAreWide, Accumulator(h1)
      PROVE  Seal!TagOf(h1) = (ValueIn(MacRadix, MacFold, h1) + pad) % B
  <2> DEFINE v == ValueIn(MacRadix, MacFold, h1)
  <2>1. \A i \in Limbs5 : g1[i] \in 0 .. MacRadix - 1
    BY <1>7, CarriedOnIs, Zenon DEF g1
  <2>2. /\ \A i \in Limbs5 : l[i] \in 0 .. MacRadix - 1
        /\ NumberIn(MacRadix, l) = NumberIn(MacRadix, g1) % Seal!P
    BY <1>1, <1>7, <2>1, ReducedIs, Zenon DEF l
  <2>3. Seal!Joined(l) = NumberIn(MacRadix, l) % B
    BY <1>2, <1>7, <2>2, JoinedIs, Zenon DEF B
  <2>4. NumberIn(MacRadix, g1) % Seal!P = v
    <3>1. PICK k \in Int : NumberIn(MacRadix, h1) = NumberIn(MacRadix, g1) + Seal!P * k
      BY <1>7, CarriedOnIs, Zenon DEF g1
    <3>2. NumberIn(MacRadix, g1) \in Int /\ NumberIn(MacRadix, h1) \in Int
      <4>1. g1 \in Element /\ h1 \in Element
        BY <1>1 DEF NatElement, Element
      <4>2. QED
        BY <4>1, BothFit, NumberTyped, Zenon
    <3>3. Seal!P = PIn(MacRadix, MacFold) /\ Seal!P \in Nat \ {0}
      BY BothInstances, BothFit, LimbsTyped
    <3>4. NumberIn(MacRadix, h1) % Seal!P = NumberIn(MacRadix, g1) % Seal!P
      BY <3>1, <3>2, <3>3, SameRemainder, ZenonT(40)
    <3>5. QED
      BY <3>3, <3>4, Zenon DEF ValueIn
  <2>5. v \in Int
    <3>1. h1 \in Element
      BY DEF NatElement, Element
    <3>2. NumberIn(MacRadix, h1) \in Int /\ PIn(MacRadix, MacFold) \in Nat \ {0}
      BY <3>1, BothFit, NumberTyped, LimbsTyped, Zenon
    <3>3. QED
      BY <3>2 DEF ValueIn
  <2>6. Seal!TagOf(h1) = ((v % B) + pad) % B
    BY <1>3, <2>2, <2>3, <2>4, Zenon
  <2> HIDE DEF v
  <2>7. ((v % B) + pad) % B = (v + pad) % B
    <3>1. pad \in Int /\ v % B \in Int
      BY <1>5, <2>5
    <3>2. (v + pad) % B = ((v % B) + (pad % B)) % B
      BY <1>5, <2>5, <3>1, SumRemainder, Zenon
    <3>3. ((v % B) + pad) % B = (((v % B) % B) + (pad % B)) % B
      BY <1>5, <3>1, SumRemainder, Zenon
    <3>4. (v % B) % B = v % B
      BY <1>5, <2>5
    <3>5. QED
      BY <3>2, <3>3, <3>4, Zenon
  <2>8. QED
    BY <2>6, <2>7 DEF v
<1>8. QED
  BY <1>6, <1>7 DEF B

-----------------------------------------------------------------------------
\* What the accumulator has of the first n of a sequence of blocks.
Chained(q, T, n, u) ==
  /\ u \in [0 .. n -> NatElement]
  /\ u[0] = Seal!Digits(0)
  /\ \A i \in 1 .. n : u[i] = Step(q, u[i - 1], T[i])

Fed(q, T, n, h1) == \E u : Chained(q, T, n, u) /\ u[n] = h1

\* Nothing is in the accumulator at first.
LEMMA FedStart ==
  ASSUME NEW q, NEW T
  PROVE  Fed(q, T, 0, Seal!Digits(0))
<1> DEFINE u == [i \in 0 .. 0 |-> Seal!Digits(0)]
<1>1. Seal!Digits(0) \in NatElement
  <2>1. 0 \in Nat
    OBVIOUS
  <2>2. QED
    BY <2>1, DigitsAre, Zenon
<1>2. u \in [0 .. 0 -> NatElement] /\ u[0] = Seal!Digits(0)
  BY <1>1
<1>3. 1 .. 0 = {}
  OBVIOUS
<1>4. Chained(q, T, 0, u)
  <2> HIDE DEF u
  <2>1. QED
    BY <1>2, <1>3 DEF Chained
<1>5. QED
  <2> HIDE DEF u
  <2>1. QED
    BY <1>2, <1>4 DEF Fed

\* What is in the accumulator are limbs.
LEMMA FedTyped ==
  ASSUME NEW q, NEW T, NEW n \in Nat, NEW h1, Fed(q, T, n, h1)
  PROVE  h1 \in NatElement
<1>1. PICK u : Chained(q, T, n, u) /\ u[n] = h1
  BY DEF Fed
<1>2. u \in [0 .. n -> NatElement] /\ n \in 0 .. n
  BY <1>1 DEF Chained
<1>3. QED
  BY <1>1, <1>2

\* One block more.
LEMMA FedNext ==
  ASSUME NEW q \in Nat, NEW T, NEW n \in Nat, T[n + 1] \in Nat, NEW h1, Fed(q, T, n, h1)
  PROVE  Fed(q, T, n + 1, Step(q, h1, T[n + 1]))
<1> DEFINE b == T[n + 1]
           h2 == Step(q, h1, b)
           m == n + 1
<1>1. PICK u : Chained(q, T, n, u) /\ u[n] = h1
  BY DEF Fed
<1>2. h2 \in NatElement
  <2>1. h1 \in NatElement
    BY FedTyped, Zenon
  <2>2. b \in Nat
    OBVIOUS
  <2>3. QED
    BY <2>1, <2>2, StepTyped, Zenon
<1>3. /\ u \in [0 .. n -> NatElement] /\ u[0] = Seal!Digits(0)
      /\ \A i \in 1 .. n : u[i] = Step(q, u[i - 1], T[i])
  BY <1>1 DEF Chained
<1> HIDE DEF b, h2
<1> DEFINE v == [i \in 0 .. m |-> IF i = m THEN h2 ELSE u[i]]
<1>4. v[m] = h2 /\ \A i \in 0 .. n : v[i] = u[i]
  OBVIOUS
<1>5. v \in [0 .. m -> NatElement]
  <2>1. \A i \in 0 .. m : i = m \/ i \in 0 .. n
    OBVIOUS
  <2>2. QED
    BY <1>2, <1>3, <2>1
<1> HIDE DEF v
<1>6. v[0] = Seal!Digits(0)
  <2>1. 0 \in 0 .. n
    OBVIOUS
  <2>2. QED
    BY <1>3, <1>4, <2>1
<1>7. ASSUME NEW i \in 1 .. m
      PROVE  v[i] = Step(q, v[i - 1], T[i])
  <2>1. CASE i = m
    <3>1. i - 1 = n /\ n \in 0 .. n
      BY <2>1
    <3>2. v[i - 1] = h1
      BY <1>1, <1>4, <3>1
    <3>3. T[i] = b
      BY <2>1 DEF b
    <3>4. QED
      BY <1>4, <2>1, <3>2, <3>3 DEF h2
  <2>2. CASE i # m
    <3>1. i \in 1 .. n /\ i \in 0 .. n /\ i - 1 \in 0 .. n
      BY <2>2
    <3>2. QED
      BY <1>3, <1>4, <3>1
  <2>3. QED
    BY <2>1, <2>2
<1> HIDE DEF m
<1>8. Chained(q, T, m, v)
  BY <1>5, <1>6, <1>7 DEF Chained
<1>9. Fed(q, T, m, h2)
  BY <1>4, <1>8 DEF Fed
<1>10. QED
  BY <1>9 DEF m, h2, b

\* Only the blocks that were fed matter.
LEMMA FedSame ==
  ASSUME NEW q, NEW T, NEW U, NEW n \in Nat, NEW h1, Fed(q, T, n, h1),
         \A i \in 1 .. n : U[i] = T[i]
  PROVE  Fed(q, U, n, h1)
<1>1. PICK u : Chained(q, T, n, u) /\ u[n] = h1
  BY DEF Fed
<1>2. Chained(q, U, n, u)
  BY <1>1 DEF Chained
<1>3. QED
  BY <1>1, <1>2 DEF Fed

\* There is one accumulator for the blocks.
LEMMA FedOnce ==
  ASSUME NEW q, NEW T, NEW n \in Nat, NEW h1, NEW h2, Fed(q, T, n, h1), Fed(q, T, n, h2)
  PROVE  h1 = h2
<1>1. PICK u : Chained(q, T, n, u) /\ u[n] = h1
  BY DEF Fed
<1>2. PICK v : Chained(q, T, n, v) /\ v[n] = h2
  BY DEF Fed
<1> DEFINE S == {i \in Nat : i <= n => u[i] = v[i]}
<1>3. 0 \in S
  BY <1>1, <1>2 DEF Chained
<1>4. ASSUME NEW i \in S
      PROVE  i + 1 \in S
  <2>1. CASE i + 1 <= n
    <3>1. i + 1 \in 1 .. n /\ (i + 1) - 1 = i /\ u[i] = v[i]
      BY <2>1
    <3>2. u[i + 1] = Step(q, u[i], T[i + 1]) /\ v[i + 1] = Step(q, v[i], T[i + 1])
      BY <1>1, <1>2, <3>1 DEF Chained
    <3>3. QED
      BY <3>1, <3>2
  <2>2. CASE ~(i + 1 <= n)
    BY <2>2
  <2>3. QED
    BY <2>1, <2>2
<1>5. S = Nat
  <2> HIDE DEF S
  <2>1. S \in SUBSET Nat
    BY DEF S
  <2>2. QED
    BY <1>3, <1>4, <2>1, Induction
<1>6. u[n] = v[n]
  <2>1. n \in S
    <3> HIDE DEF S
    <3>1. QED
      BY <1>5
  <2>2. QED
    BY <2>1
<1>7. QED
  BY <1>1, <1>2, <1>6

\* The multiplication that TLC's integers hold is that modulo P.
LEMMA MulPIs ==
  ASSUME NEW a \in Int, NEW b \in Int
  PROVE  Seal!MulP(a, b) = (a * b) % Seal!P
<1> DEFINE p == Seal!P
<1>1. p \in Nat \ {0}
  BY BothInstances, BothFit, LimbsTyped
<1> HIDE DEF p
<1>k. PICK k \in Nat \ {0} : k = 1024
  OBVIOUS
<1>2. Seal!MulP(a, b)
      = (((((a * (b \div k)) % p) * k) % p) + ((a * (b % k)) % p)) % p
  BY <1>k DEF Seal!MulP, p
<1>3. b \div k \in Int /\ b % k \in Int /\ b = k * (b \div k) + (b % k)
  <2>2. b % k \in 0 .. k - 1 => b % k \in Int
    OBVIOUS
  <2>3. QED
    BY <2>2, DivMod, Zenon
<1>4. PICK d \in Int, m \in Int : d = b \div k /\ m = b % k /\ b = k * d + m
  BY <1>3
<1>5. PICK ad \in Int, am \in Int : ad = a * d /\ am = a * m
  OBVIOUS
<1>6. a * b = ad * k + am
  BY <1>4, <1>5
<1>7. ad * k \in Int /\ (ad % p) * k \in Int /\ ad % p \in Int /\ am % p \in Int
      /\ (ad * k) % p \in Int
  BY <1>1
<1>8. ((ad % p) * k) % p = (ad * k) % p
  <2>1. k \in Int
    OBVIOUS
  <2>2. (ad * k) % p = ((ad % p) * (k % p)) % p
    BY <1>1, <2>1, ProductRemainder, Zenon
  <2>3. ((ad % p) * k) % p = (((ad % p) % p) * (k % p)) % p
    BY <1>1, <1>7, <2>1, ProductRemainder, Zenon
  <2>4. (ad % p) % p = ad % p
    BY <1>1
  <2>5. QED
    BY <2>2, <2>3, <2>4, Zenon
<1>9. (ad * k + am) % p = (((ad * k) % p) + (am % p)) % p
  BY <1>1, <1>7, SumRemainder, Zenon
<1>10. Seal!MulP(a, b) = ((((ad % p) * k) % p) + (am % p)) % p
  BY <1>2, <1>4, <1>5
<1>11. QED
  BY <1>6, <1>8, <1>9, <1>10, Zenon DEF p

-----------------------------------------------------------------------------
\* The polynomial of a sequence of blocks, term by term.
Terms(T, u) ==
  /\ u[0] = 0
  /\ \A i \in 1 .. Len(T) : u[i] = ((((u[i - 1] + T[i]) % Seal!P) * r) % Seal!P)

\* The polynomial is the last of its terms.
LEMMA PolynomialIs ==
  ASSUME r \in Nat, NEW T \in Seq(Nat)
  PROVE  \E u : Terms(T, u) /\ Seal!Polynomial(T) = u[Len(T)]
<1> DEFINE n == Len(T)
           p == Seal!P
           term(s, k) == Seal!MulP((s + T[k]) % p, r)
           body(s) == [k \in 0 .. n |-> IF k = 0 THEN 0 ELSE term(s[k - 1], k)]
           sum == CHOOSE s : s = body(s)
           step == [k \in 1 .. n |-> [m \in Nat |-> term(m, k)]]
<1>1. n \in Nat /\ (\A k \in 1 .. n : T[k] \in Nat) /\ p \in Nat \ {0}
  <2>1. p \in Nat \ {0}
    BY BothInstances, BothFit, LimbsTyped
  <2>2. n \in Nat /\ \A k \in 1 .. n : T[k] \in Nat
    OBVIOUS
  <2>3. QED
    BY <2>1, <2>2
<1> HIDE DEF n, p
<1>2. \A k \in 1 .. n, m \in Nat : /\ term(m, k) = ((((m + T[k]) % p) * r) % p)
                                   /\ term(m, k) \in Nat
  <2>1. ASSUME NEW k \in 1 .. n, NEW m \in Nat
        PROVE  /\ term(m, k) = ((((m + T[k]) % p) * r) % p)
               /\ term(m, k) \in Nat
    <3>1. PICK y \in Nat : y = (m + T[k]) % p
      BY <1>1
    <3>2. y \in Int /\ r \in Int
      OBVIOUS
    <3>3. Seal!MulP(y, r) = (y * r) % p
      BY <3>2, MulPIs, Zenon DEF p
    <3>4. y * r \in Nat
      OBVIOUS
    <3>5. (y * r) % p \in Nat
      BY <1>1, <3>4
    <3>6. QED
      BY <3>1, <3>3, <3>5
  <2>2. QED
    BY <2>1
<1> HIDE DEF term
<1>3. Recursion(Nat, 0, n, step)
  <2>1. step \in [1 .. n -> [Nat -> Nat]]
    BY <1>2
  <2>2. 0 \in Nat
    OBVIOUS
  <2> HIDE DEF step
  <2>3. QED
    BY <1>1, <2>1, <2>2, RecursionExists, Zenon
<1>4. PICK w \in [0 .. n -> Nat] : w[0] = 0 /\ \A k \in 1 .. n : w[k] = term(w[k - 1], k)
  <2>1. PICK w \in [0 .. n -> Nat] : w[0] = 0 /\ \A k \in 1 .. n : w[k] = step[k][w[k - 1]]
    <3> HIDE DEF step
    <3>1. QED
      BY <1>3 DEF Recursion
  <2>2. \A k \in 1 .. n : k - 1 \in 0 .. n
    BY <1>1
  <2>3. \A k \in 1 .. n : w[k - 1] \in Nat
    BY <2>2
  <2>4. \A k \in 1 .. n : w[k] = term(w[k - 1], k)
    BY <2>1, <2>3
  <2>5. QED
    BY <2>1, <2>4
<1>5. w = body(w)
  <2>1. \A k \in 0 .. n : k # 0 => k \in 1 .. n
    BY <1>1
  <2>2. \A k \in 0 .. n : w[k] = IF k = 0 THEN 0 ELSE term(w[k - 1], k)
    BY <1>4, <2>1
  <2>3. w = [k \in 0 .. n |-> w[k]]
    OBVIOUS
  <2>4. QED
    BY <2>2, <2>3
<1>6. sum = body(sum)
  <2> HIDE DEF body
  <2>1. QED
    BY <1>5
<1>7. Seal!Polynomial(T) = sum[n]
  BY DEF Seal!Polynomial, n, p, term
<1> HIDE DEF sum
<1>8. sum[0] = 0 /\ \A k \in 1 .. n : sum[k] = term(sum[k - 1], k)
  <2>1. \A k \in 0 .. n : sum[k] = IF k = 0 THEN 0 ELSE term(sum[k - 1], k)
    BY <1>6
  <2> HIDE DEF body
  <2>2. 0 \in 0 .. n /\ \A k \in 1 .. n : k \in 0 .. n /\ k # 0
    BY <1>1
  <2>3. QED
    BY <2>1, <2>2
<1>9. \A k \in 0 .. n : sum[k] \in Nat
  <2> DEFINE S == {k \in Nat : k <= n => sum[k] \in Nat}
  <2>1. 0 \in S
    BY <1>8
  <2>2. ASSUME NEW k \in S
        PROVE  k + 1 \in S
    <3>1. CASE k + 1 <= n
      <4>1. k + 1 \in 1 .. n /\ (k + 1) - 1 = k /\ sum[k] \in Nat
        BY <2>2, <3>1, <1>1
      <4>2. sum[k + 1] = term(sum[k], k + 1)
        BY <1>8, <4>1
      <4>3. PICK m \in Nat : m = sum[k]
        BY <4>1
      <4>4. term(m, k + 1) \in Nat
        BY <1>2, <4>1
      <4>5. sum[k + 1] \in Nat /\ k + 1 \in Nat
        BY <1>1, <4>1, <4>2, <4>3, <4>4
      <4>6. QED
        BY <4>5
    <3>2. CASE ~(k + 1 <= n)
      BY <3>2
    <3>3. QED
      BY <3>1, <3>2
  <2>3. S = Nat
    <3> HIDE DEF S
    <3>1. S \in SUBSET Nat
      BY DEF S
    <3>2. QED
      BY <2>1, <2>2, <3>1, Induction
  <2>4. ASSUME NEW k \in 0 .. n
        PROVE  sum[k] \in Nat
    <3>1. k \in Nat /\ k <= n
      BY <1>1
    <3>2. k \in S
      <4> HIDE DEF S
      <4>1. QED
        BY <2>3, <3>1
    <3>3. QED
      BY <3>1, <3>2
  <2>5. QED
    BY <2>4
<1>10. Terms(T, sum)
  <2>1. \A k \in 1 .. n : sum[k - 1] \in Nat
    <3>1. \A k \in 1 .. n : k - 1 \in 0 .. n
      BY <1>1
    <3>2. QED
      BY <1>9, <3>1
  <2>2. \A k \in 1 .. n : sum[k] = ((((sum[k - 1] + T[k]) % p) * r) % p)
    BY <1>2, <1>8, <2>1
  <2>3. QED
    BY <1>8, <2>2 DEF Terms, n, p
<1>11. QED
  BY <1>7, <1>10 DEF n

\* An accumulator that is fed a sequence of blocks has the value of the polynomial.
LEMMA FedIs ==
  ASSUME LimbsAreWide, r \in 0 .. Seal!BlockSpan - 1,
         NEW T \in Seq(0 .. Seal!BlockSpan - 1), NEW h1, Fed(r, T, Len(T), h1)
  PROVE  Accumulator(h1) /\ ValueIn(MacRadix, MacFold, h1) = Seal!Polynomial(T)
<1> DEFINE n == Len(T)
           val(e) == ValueIn(MacRadix, MacFold, e)
<1>1. /\ Seal!BlockSpan \in Nat \ {0} /\ Seal!Span = 4 * Seal!BlockSpan
      /\ r \in Nat /\ r < Seal!Span
  <2>1. Seal!BlockSpan \in Nat \ {0} /\ Seal!Span = 4 * Seal!BlockSpan
    BY SealTyped, RadixPowers
  <2>2. QED
    BY <2>1
<1>2. n \in Nat /\ \A i \in 1 .. n : T[i] \in Nat /\ T[i] < Seal!Span
  <2> DEFINE V == 0 .. Seal!BlockSpan - 1
  <2>1. n \in Nat /\ \A i \in 1 .. n : T[i] \in V
    <3>1. T \in Seq(V)
      OBVIOUS
    <3> HIDE DEF V
    <3>2. QED
      BY <3>1
  <2>2. QED
    BY <1>1, <2>1
<1>3. T \in Seq(Nat)
  BY <1>1
<1>4. PICK u : Chained(r, T, n, u) /\ u[n] = h1
  BY DEF Fed
<1>5. PICK w : Terms(T, w) /\ Seal!Polynomial(T) = w[n]
  BY <1>1, <1>3, PolynomialIs, Zenon
<1> DEFINE S == {i \in Nat : i <= n => Accumulator(u[i]) /\ val(u[i]) = w[i]}
<1>6. 0 \in S
  <2>1. u[0] = Seal!Digits(0) /\ w[0] = 0
    BY <1>4, <1>5 DEF Chained, Terms
  <2>2. /\ Seal!Digits(0) \in NatElement
        /\ \A i \in Limbs5 : Seal!Digits(0)[i] \in 0 .. MacRadix - 1
        /\ NumberIn(MacRadix, Seal!Digits(0)) = 0
    <3>1. 0 \in Nat /\ 0 < Seal!Span
      BY <1>1
    <3>2. QED
      BY <3>1, DigitsAre, Zenon
  <2>3. Accumulator(Seal!Digits(0))
    <3>1. \A i \in 0 .. MacRadix - 1 : i \in 0 .. 2 * (MacRadix - 1)
      BY SealTyped
    <3>2. 1 \in Limbs5
      BY DEF Limbs5
    <3>3. QED
      BY <2>2, <3>1, <3>2 DEF Accumulator
  <2>4. val(Seal!Digits(0)) = 0
    <3>1. PIn(MacRadix, MacFold) \in Nat \ {0}
      BY BothFit, LimbsTyped
    <3>2. 0 % PIn(MacRadix, MacFold) = 0
      BY <3>1
    <3>3. QED
      BY <2>2, <3>2 DEF ValueIn
  <2> HIDE DEF val
  <2>5. QED
    BY <2>1, <2>3, <2>4
<1>7. ASSUME NEW i \in S
      PROVE  i + 1 \in S
  <2>1. CASE i + 1 <= n
    <3>1. i + 1 \in 1 .. n /\ (i + 1) - 1 = i /\ i \in Nat
      BY <1>2, <2>1
    <3>2. Accumulator(u[i]) /\ val(u[i]) = w[i]
      <4> HIDE DEF val
      <4>1. QED
        BY <2>1, <1>2
    <3> HIDE DEF S, val
    <3>3. PICK e : e = u[i]
      OBVIOUS
    <3>4. PICK b \in Nat : b = T[i + 1] /\ b < Seal!Span
      BY <1>2, <3>1
    <3>5. u[i + 1] = Step(r, e, b)
      BY <1>4, <3>1, <3>3, <3>4 DEF Chained
    <3>6. w[i + 1] = ((((val(e) + b) % Seal!P) * r) % Seal!P)
      BY <1>5, <3>1, <3>2, <3>3, <3>4 DEF Terms, n
    <3>7. Accumulator(e) /\ e \in NatElement
      BY <3>2, <3>3 DEF Accumulator
    <3>8. Accumulator(Step(r, e, b))
      BY <1>1, <3>7, StepKeeps, Zenon
    <3>9. val(Step(r, e, b)) = ((((val(e) + b) % Seal!P) * r) % Seal!P)
      BY <1>1, <3>4, <3>7, StepValue, Zenon DEF val
    <3>10. Accumulator(u[i + 1]) /\ val(u[i + 1]) = w[i + 1]
      BY <3>5, <3>6, <3>8, <3>9
    <3>11. QED
      BY <3>1, <3>10 DEF S
  <2>2. CASE ~(i + 1 <= n)
    <3>1. i \in Nat
      OBVIOUS
    <3> HIDE DEF val
    <3>2. QED
      BY <2>2, <3>1
  <2>3. QED
    BY <2>1, <2>2
<1>8. S = Nat
  <2> HIDE DEF S
  <2>1. S \in SUBSET Nat
    BY DEF S
  <2>2. QED
    BY <1>6, <1>7, <2>1, Induction
<1>9. Accumulator(u[n]) /\ val(u[n]) = w[n]
  <2> HIDE DEF val
  <2>1. n \in S
    <3> HIDE DEF S
    <3>1. QED
      BY <1>2, <1>8
  <2>2. QED
    BY <1>2, <2>1
<1>10. QED
  BY <1>4, <1>5, <1>9

-----------------------------------------------------------------------------
\* The byte of the keystream for the j-th byte of a text.
KeyByte(j) == Seal!Stream(((j - 1) \div ChunkBytes) + 1, ((j - 1) % ChunkBytes) + 1)

\* What a text has become after so many chunks: k is the counter of the next.
Turned(from, to, k) ==
  /\ to \in Seq(Byte) /\ Len(to) <= Len(from)
  /\ \/ Len(to) = (k - 1) * ChunkBytes
     \/ Len(to) = Len(from)
  /\ \A j \in 1 .. Len(to) : to[j] = Seal!BitXor(from[j], KeyByte(j), ByteBits)

\* A byte of the keystream is a number.
LEMMA StreamIs ==
  ASSUME NEW k \in Nat, NEW i \in Nat
  PROVE  Seal!Stream(k, i) \in Nat
<1>1. Seal!Stream(k, i) = (29 * k + 11 * i + 5) % Base
  BY DEF Seal!Stream, Base
<1>2. 29 * k + 11 * i + 5 \in Nat /\ Base \in Nat \ {0}
  BY SealTyped
<1>3. QED
  BY <1>1, <1>2

\* And so is the one for a byte of the text.
LEMMA KeyIs ==
  ASSUME NEW j \in Nat \ {0}
  PROVE  KeyByte(j) \in Nat
<1>1. ChunkBytes \in Nat \ {0}
  BY SealTyped
<1>2. (j - 1) \div ChunkBytes \in Nat /\ (j - 1) % ChunkBytes \in Nat
  <2>1. j - 1 \in Nat
    OBVIOUS
  <2>2. QED
    BY <1>1, <2>1
<1>3. ((j - 1) \div ChunkBytes) + 1 \in Nat /\ ((j - 1) % ChunkBytes) + 1 \in Nat
  BY <1>2
<1>4. QED
  BY <1>3, StreamIs, Zenon DEF KeyByte

\* A byte turned with the keystream is a byte, and turned again the one it was.
LEMMA XorIsByte ==
  ASSUME NEW b \in Byte, NEW k \in Nat
  PROVE  Seal!BitXor(b, k, ByteBits) \in Byte
         /\ Seal!BitXor(Seal!BitXor(b, k, ByteBits), k, ByteBits) = b
<1>1. ByteBits \in Nat /\ b \in 0 .. Seal!Power2[ByteBits] - 1
  BY SealTyped DEF Byte, Base
<1>2. QED
  BY <1>1, XorTwice, Zenon DEF Byte, Base

\* The chunk at the counter's place is turned with the keystream of the counter.
LEMMA ChunkTurns ==
  ASSUME NEW from \in Seq(Byte), NEW to, counter \in Nat \ {0}, Turned(from, to, counter),
         Len(to) < Len(from)
  PROVE  Turned(from, to \o Seal!Chunk(from, Len(to)), counter + 1)
<1> DEFINE C == ChunkBytes
           a == Len(to)
           n == Len(from)
           last == IF a + C < n THEN a + C ELSE n
           part1 == [i \in 1 .. last - a |-> Seal!BitXor(from[a + i], Seal!Stream(counter, i), ByteBits)]
           res == to \o part1
<1>1. C \in Nat \ {0} /\ n \in Nat /\ to \in Seq(Byte) /\ a \in Nat /\ a < n
      /\ a = (counter - 1) * C
  <2>1. C \in Nat \ {0} /\ n \in Nat
    BY SealTyped
  <2>2. to \in Seq(Byte) /\ (a = (counter - 1) * C \/ a = n)
    BY DEF Turned
  <2>3. a \in Nat
    BY <2>2
  <2>4. QED
    BY <2>1, <2>2, <2>3
<1>2. Seal!Chunk(from, a) = part1
  BY DEF Seal!Chunk
<1>3. last \in Nat /\ last <= n /\ a < last /\ last - a \in 1 .. C
      /\ (last = a + C \/ last = n)
  BY <1>1
<1>4. \A j \in 1 .. n : from[j] \in Byte
  OBVIOUS
<1> HIDE DEF last, n, a, C
<1>5. ASSUME NEW i \in 1 .. last - a
      PROVE  /\ part1[i] \in Byte
             /\ part1[i] = Seal!BitXor(from[a + i], KeyByte(a + i), ByteBits)
  <2>1. a + i \in 1 .. n /\ i \in 1 .. C /\ i \in Nat /\ a + i \in Nat \ {0}
    BY <1>1, <1>3
  <2>2. part1[i] = Seal!BitXor(from[a + i], Seal!Stream(counter, i), ByteBits)
    OBVIOUS
  <2>3. Seal!Stream(counter, i) = KeyByte(a + i)
    <3>1. PICK k \in Nat, d \in 0 .. C - 1 : k = counter - 1 /\ d = i - 1
      BY <1>1, <2>1
    <3>2. (a + i) - 1 = k * C + d
      BY <1>1, <2>1, <3>1
    <3>3. PICK x \in Int : x = (a + i) - 1
      BY <1>1
    <3>4. k \in Int /\ x = k * C + d
      BY <3>2, <3>3
    <3>5. x % C = d
      BY <1>1, <3>4, Remainder, Zenon
    <3>6. x \div C = k
      <4>1. PICK e \in Int : e = x \div C /\ x = C * e + (x % C)
        BY <1>1, DivMod, Zenon
      <4>2. C * e = C * k
        <5>1. PICK ce \in Int, ck \in Int : ce = C * e /\ ck = k * C
          BY <1>1
        <5>2. x = ce + d /\ x = ck + d
          BY <3>4, <3>5, <4>1, <5>1
        <5>3. ce = ck /\ C * k = k * C
          BY <1>1, <5>2
        <5>4. QED
          BY <5>1, <5>3
      <4>3. e = k
        BY <1>1, <4>2, SMTT(60)
      <4>4. QED
        BY <4>1, <4>3
    <3>7. KeyByte(a + i) = Seal!Stream(k + 1, d + 1)
      BY <3>3, <3>5, <3>6 DEF KeyByte, C
    <3>8. k + 1 = counter /\ d + 1 = i
      BY <2>1, <3>1
    <3>9. QED
      BY <3>7, <3>8
  <2>4. KeyByte(a + i) \in Nat
    BY <2>1, KeyIs, Zenon
  <2> HIDE DEF part1
  <2>5. from[a + i] \in Byte
    BY <1>4, <2>1
  <2>6. Seal!BitXor(from[a + i], KeyByte(a + i), ByteBits) \in Byte
    BY <2>4, <2>5, XorIsByte, Zenon
  <2>7. QED
    BY <2>2, <2>3, <2>6
<1>6. part1 \in Seq(Byte) /\ Len(part1) = last - a
  <2>1. part1 = [i \in 1 .. last - a |-> part1[i]]
    OBVIOUS
  <2>2. \A i \in 1 .. last - a : part1[i] \in Byte
    BY <1>5
  <2> HIDE DEF part1
  <2>3. last - a \in Nat
    BY <1>3
  <2>4. part1 \in [1 .. last - a -> Byte]
    BY <2>1, <2>2
  <2>5. QED
    BY <2>3, <2>4
<1> HIDE DEF part1, res
<1>7. res \in Seq(Byte) /\ Len(res) = last
  <2>1. Len(to) = a
    BY DEF a
  <2>2. res \in Seq(Byte) /\ Len(res) = Len(to) + Len(part1)
    BY <1>1, <1>6, ConcatProperties, Zenon DEF res
  <2>3. QED
    BY <1>1, <1>3, <1>6, <2>1, <2>2
<1>8. ASSUME NEW j \in 1 .. last
      PROVE  res[j] = Seal!BitXor(from[j], KeyByte(j), ByteBits)
  <2>0. Len(to) = a /\ to \in Seq(Byte) /\ part1 \in Seq(Byte) /\ Len(part1) = last - a
    BY <1>1, <1>6 DEF a
  <2> DEFINE Joined2 == \A i \in 1 .. Len(to) + Len(part1) :
                 res[i] = IF i <= Len(to) THEN to[i] ELSE part1[i - Len(to)]
  <2>j. Joined2
    BY <2>0, ConcatProperties, Zenon DEF res
  <2>1. CASE j <= a
    <3>1. j \in 1 .. a
      BY <1>1, <2>1
    <3>2. res[j] = to[j]
      BY <1>1, <1>3, <2>0, <2>j, <2>1
    <3>3. to[j] = Seal!BitXor(from[j], KeyByte(j), ByteBits)
      BY <2>0, <3>1 DEF Turned
    <3>4. QED
      BY <3>2, <3>3
  <2>2. CASE ~(j <= a)
    <3>1. PICK i \in 1 .. last - a : j = a + i
      <4>1. j - a \in 1 .. last - a /\ j = a + (j - a)
        BY <1>1, <1>3, <2>2
      <4>2. QED
        BY <4>1
    <3>2. res[j] = part1[i]
      BY <1>1, <1>3, <2>0, <2>j, <2>2, <3>1
    <3>3. QED
      BY <1>5, <3>1, <3>2
  <2>3. QED
    BY <2>1, <2>2
<1>9. last = ((counter + 1) - 1) * C \/ last = n
  <2>1. (counter - 1) * C + C = ((counter + 1) - 1) * C
    BY <1>1
  <2>2. QED
    BY <1>1, <1>3, <2>1
<1>10. Turned(from, res, counter + 1)
  BY <1>3, <1>7, <1>8, <1>9 DEF Turned, n, C
<1>11. QED
  BY <1>2, <1>10 DEF res, a

\* A text that is turned twice is the text.
LEMMA TurnedBack ==
  ASSUME NEW from \in Seq(Byte), NEW to, NEW back, NEW k, NEW n,
         Turned(from, to, k), Turned(to, back, n), Len(to) = Len(from), Len(back) = Len(to)
  PROVE  back = from
<1>1. to \in Seq(Byte) /\ back \in Seq(Byte)
  BY DEF Turned
<1>2. ASSUME NEW j \in 1 .. Len(from)
      PROVE  back[j] = from[j]
  <2>1. to[j] = Seal!BitXor(from[j], KeyByte(j), ByteBits)
    BY DEF Turned
  <2>2. back[j] = Seal!BitXor(to[j], KeyByte(j), ByteBits)
    BY DEF Turned
  <2>3. from[j] \in Byte /\ j \in Nat \ {0}
    OBVIOUS
  <2>4. KeyByte(j) \in Nat
    BY <2>3, KeyIs, Zenon
  <2>5. Seal!BitXor(Seal!BitXor(from[j], KeyByte(j), ByteBits), KeyByte(j), ByteBits) = from[j]
    BY <2>3, <2>4, XorIsByte, Zenon
  <2>6. QED
    BY <2>1, <2>2, <2>5
<1>3. QED
  BY <1>1, <1>2, SeqEqual

-----------------------------------------------------------------------------
\* What is left of a sequence of blocks, and that the accumulator has the rest.
Remaining(T, n, bs) ==
  /\ bs \in Seq(0 .. Seal!BlockSpan - 1) /\ n + Len(bs) = Len(T)
  /\ \A i \in 1 .. Len(bs) : bs[i] = T[n + i]

Taking(q, T, bs, m) == \E n \in Nat : Remaining(T, n, bs) /\ Fed(q, T, n, m)

\* All blocks are left at first.
LEMMA TakingStarts ==
  ASSUME NEW q, NEW T \in Seq(0 .. Seal!BlockSpan - 1)
  PROVE  Taking(q, T, T, Seal!Digits(0))
<1>1. Len(T) \in Nat
  OBVIOUS
<1>2. 0 + Len(T) = Len(T) /\ \A i \in 1 .. Len(T) : 0 + i = i
  BY <1>1
<1>3. Remaining(T, 0, T)
  BY <1>2 DEF Remaining
<1>4. Fed(q, T, 0, Seal!Digits(0)) /\ 0 \in Nat
  BY FedStart, Zenon
<1>5. QED
  BY <1>3, <1>4 DEF Taking

\* The first of those that are left goes into the accumulator.
LEMMA TakingNext ==
  ASSUME NEW q \in Nat, NEW T, NEW bs, NEW m, Taking(q, T, bs, m), bs # <<>>,
         Len(T) \in Nat
  PROVE  /\ m \in NatElement /\ Head(bs) \in Nat
         /\ Taking(q, T, Tail(bs), Step(q, m, Head(bs)))
<1> DEFINE V == 0 .. Seal!BlockSpan - 1
           rest == Tail(bs)
<1>1. PICK n \in Nat : Remaining(T, n, bs) /\ Fed(q, T, n, m)
  BY DEF Taking
<1>2. /\ bs \in Seq(V) /\ n + Len(bs) = Len(T)
      /\ \A i \in 1 .. Len(bs) : bs[i] = T[n + i]
  BY <1>1 DEF Remaining
<1>3. \A x \in V : x \in Nat
  BY SealTyped
<1>d. V = 0 .. Seal!BlockSpan - 1
  OBVIOUS
<1> HIDE DEF V
<1>4. /\ Head(bs) \in V /\ rest \in Seq(V) /\ Len(rest) = Len(bs) - 1
      /\ \A i \in 1 .. Len(rest) : rest[i] = bs[i + 1]
  BY <1>2, HeadTailProperties, Zenon
<1>5. Len(bs) \in Nat \ {0} /\ Head(bs) = bs[1]
  BY <1>2
<1> HIDE DEF rest
<1>6. Head(bs) = T[n + 1] /\ T[n + 1] \in Nat
  <2>1. 1 \in 1 .. Len(bs)
    BY <1>5
  <2>2. Head(bs) = T[n + 1]
    BY <1>2, <1>5, <2>1
  <2>3. QED
    BY <1>3, <1>4, <2>2
<1>7. Remaining(T, n + 1, rest)
  <2>1. (n + 1) + Len(rest) = Len(T)
    <3>1. PICK x \in Nat : x = Len(bs)
      BY <1>5
    <3>2. PICK y \in Int : y = Len(rest) /\ y = x - 1
      BY <1>4, <3>1
    <3>3. (n + 1) + y = n + x
      BY <3>2
    <3>4. QED
      BY <1>2, <3>1, <3>2, <3>3
  <2>2. ASSUME NEW i \in 1 .. Len(rest)
        PROVE  rest[i] = T[(n + 1) + i]
    <3>1. i + 1 \in 1 .. Len(bs) /\ n + (i + 1) = (n + 1) + i
      BY <1>4, <1>5
    <3>2. bs[i + 1] = T[n + (i + 1)]
      BY <1>2, <3>1
    <3>3. QED
      BY <1>4, <3>1, <3>2
  <2>3. QED
    BY <1>4, <1>d, <2>1, <2>2 DEF Remaining
<1>8. Fed(q, T, n + 1, Step(q, m, T[n + 1]))
  BY <1>1, <1>6, FedNext, Zenon
<1>9. m \in NatElement
  BY <1>1, FedTyped, Zenon
<1>10. n + 1 \in Nat
  OBVIOUS
<1>11. QED
  BY <1>3, <1>4, <1>6, <1>7, <1>8, <1>9, <1>10 DEF Taking, rest

\* When none is left, all are in the accumulator.
LEMMA TakingEnds ==
  ASSUME NEW q, NEW T, NEW m, Len(T) \in Nat, Taking(q, T, <<>>, m)
  PROVE  Fed(q, T, Len(T), m)
<1>1. PICK n \in Nat : Remaining(T, n, <<>>) /\ Fed(q, T, n, m)
  BY DEF Taking
<1>2. n + Len(<<>>) = Len(T) /\ Len(<<>>) = 0
  BY <1>1 DEF Remaining
<1>3. n = Len(T)
  BY <1>2
<1>4. QED
  BY <1>1, <1>3

\* The additional data is in the accumulator: the ciphertext and the lengths follow.
LEMMA TakingGoesOn ==
  ASSUME NEW a \in Seq(Byte), NEW c \in Seq(Byte), Len(a) < Base, Len(c) < Base,
         NEW q, NEW m, Fed(q, Seal!BlocksOf(a), Len(Seal!BlocksOf(a)), m)
  PROVE  Taking(q, Seal!All(a, c), Append(Seal!BlocksOf(c), Seal!LengthBlock(a, c)), m)
<1> DEFINE V == 0 .. Seal!BlockSpan - 1
           T == Seal!All(a, c)
           A == Seal!BlocksOf(a)
           D == Seal!BlocksOf(c)
           b == Seal!LengthBlock(a, c)
           bs == Append(D, b)
           n == PieceCount(a)
<1>1. AreAll(T, a, c)
  BY AllTyped, Zenon
<1>2. /\ n \in Nat /\ Len(A) = n /\ D \in Seq(V) /\ Len(D) = PieceCount(c)
      /\ PieceCount(c) \in Nat
  BY BlocksAre
<1>3. b \in V
  BY LengthBlockIs
<1> HIDE DEF V, D, b
<1>4. /\ bs \in Seq(V) /\ Len(bs) = Len(D) + 1 /\ bs[Len(D) + 1] = b
      /\ \A i \in 1 .. Len(D) : bs[i] = D[i]
  BY <1>2, <1>3, AppendProperties
<1> HIDE DEF T, A, n, bs
<1>5. /\ Len(T) = (n + Len(D)) + 1 /\ \A i \in 1 .. n : T[i] = A[i]
      /\ \A i \in 1 .. Len(D) : T[n + i] = D[i]
      /\ T[(n + Len(D)) + 1] = b
  <2>1. /\ Len(T) = PieceCount(a) + PieceCount(c) + 1
        /\ \A k \in 1 .. PieceCount(a) : T[k] = Seal!BlocksOf(a)[k]
        /\ \A k \in 1 .. PieceCount(c) : T[PieceCount(a) + k] = Seal!BlocksOf(c)[k]
        /\ T[PieceCount(a) + PieceCount(c) + 1] = Seal!LengthBlock(a, c)
    BY <1>1 DEF AreAll
  <2>2. PieceCount(a) + PieceCount(c) + 1 = (n + Len(D)) + 1
    BY <1>2 DEF n
  <2>3. QED
    BY <1>2, <2>1, <2>2 DEF A, D, b, n
<1>6. Remaining(T, n, bs)
  <2>1. n + Len(bs) = Len(T)
    BY <1>2, <1>4, <1>5
  <2>2. ASSUME NEW i \in 1 .. Len(bs)
        PROVE  bs[i] = T[n + i]
    <3>1. CASE i = Len(D) + 1
      <4>1. n + i = (n + Len(D)) + 1
        BY <1>2, <3>1
      <4>2. QED
        BY <1>4, <1>5, <3>1, <4>1
    <3>2. CASE i # Len(D) + 1
      <4>1. i \in 1 .. Len(D)
        BY <1>2, <1>4, <3>2
      <4>2. QED
        BY <1>4, <1>5, <4>1
    <3>3. QED
      BY <3>1, <3>2
  <2>3. QED
    BY <1>4, <2>1, <2>2 DEF Remaining, V
<1>7. Fed(q, T, n, m)
  <2>1. Fed(q, A, n, m)
    BY <1>2 DEF A
  <2>2. QED
    BY <1>2, <1>5, <2>1, FedSame, Zenon
<1>8. Taking(q, T, bs, m)
  BY <1>2, <1>6, <1>7 DEF Taking
<1>9. QED
  BY <1>8 DEF T, bs, D, b

\* The tag of an accumulator: what it is with the pad, and with a change on the way.
TagWith(m, p) == (Seal!Joined(Seal!Reduced(Seal!CarriedOn(m))) + p) % Seal!BlockSpan

Tagged(q, p, T, other, t) ==
  \E m : /\ Fed(q, T, Len(T), m)
         /\ t = (TagWith(m, p) + IF other THEN 1 ELSE 0) % Seal!BlockSpan

\* The tag is a block.
LEMMA TagIsWith ==
  ASSUME pad \in 0 .. Seal!BlockSpan - 1, NEW m \in NatElement
  PROVE  /\ Seal!TagOf(m) = TagWith(m, pad)
         /\ TagWith(m, pad) \in 0 .. Seal!BlockSpan - 1
<1>1. Seal!TagOf(m) = TagWith(m, pad)
  BY DEF Seal!TagOf, TagWith
<1>2. Seal!TagOf(m) \in 0 .. Seal!BlockSpan - 1
  BY TagIs, Zenon
<1>3. QED
  BY <1>1, <1>2

\* A changed tag is another one: a block has more than one value.
LEMMA TagTells ==
  ASSUME NEW x \in 0 .. Seal!BlockSpan - 1, NEW other \in BOOLEAN
  PROVE  (x = (x + IF other THEN 1 ELSE 0) % Seal!BlockSpan) <=> ~other
<1>1. PICK b \in Nat \ {0, 1} : b = Seal!BlockSpan
  <2>1. Seal!BlockSpan = Seal!Power2[BlockBytes * ByteBits] /\ ByteBits \in Nat \ {0}
        /\ BlockBytes \in Nat \ {0, 1} /\ Seal!BlockSpan \in Nat \ {0}
    BY SealTyped
  <2>2. 1 <= BlockBytes * ByteBits /\ BlockBytes * ByteBits \in Nat
    BY <2>1
  <2>3. Seal!Power2[1] = 2
    <3>1. Seal!Power2[0] = 1 /\ Seal!Power2[0 + 1] = 2 * Seal!Power2[0]
      BY Power2Is
    <3>2. QED
      BY <3>1
  <2>4. 1 \in Nat
    OBVIOUS
  <2>5. Seal!Power2[1] <= Seal!Power2[BlockBytes * ByteBits]
    BY <2>2, <2>4, PowerGrows, Zenon
  <2>6. QED
    BY <2>1, <2>3, <2>5
<1>2. x \in 0 .. b - 1
  BY <1>1
<1>3. CASE ~other
  <2>1. (x + 0) % b = x
    BY <1>2
  <2>2. QED
    BY <1>1, <1>3, <2>1
<1>4. CASE other
  <2>1. (x + 1) % b # x
    <3>1. CASE x + 1 < b
      <4>1. (x + 1) % b = x + 1
        BY <1>2, <3>1
      <4>2. QED
        BY <1>2, <4>1
    <3>2. CASE x + 1 = b
      <4>1. x + 1 = 1 * b + 0 /\ 0 \in 0 .. b - 1 /\ 1 \in Int /\ x + 1 \in Int /\ b \in Nat \ {0}
        BY <1>2, <3>2
      <4>2. (x + 1) % b = 0
        BY <4>1, Remainder, Zenon
      <4>3. QED
        BY <1>1, <3>2, <4>2
    <3>3. QED
      BY <1>1, <1>2, <3>1, <3>2
  <2>2. QED
    BY <1>1, <1>4, <2>1
<1>5. QED
  BY <1>3, <1>4

-----------------------------------------------------------------------------
\* What is sealed and with what, where the bytes of it are bytes.
SealKept ==
  /\ aad \in Seq(Byte) /\ Len(aad) < Base
  /\ text \in Seq(Byte) /\ Len(text) < Base
  /\ r \in 0 .. Seal!BlockSpan - 1 /\ pad \in 0 .. Seal!BlockSpan - 1
  /\ altered \in BOOLEAN

Ciphered == Len(cipher) = Len(text) /\ \E k : Turned(text, cipher, k)

\* At each stage: what the accumulator has, and what is encrypted or decrypted.
SealStage ==
  /\ sealAt \in {"seal aad", "encrypt", "seal", "open", "decrypt", "opened", "rejected"}
  /\ sealAt = "seal aad" =>
       cipher = <<>> /\ plain = <<>> /\ Taking(r, Seal!BlocksOf(aad), blocks, mac)
  /\ sealAt = "encrypt" =>
       /\ blocks = <<>> /\ plain = <<>>
       /\ Fed(r, Seal!BlocksOf(aad), Len(Seal!BlocksOf(aad)), mac)
       /\ counter \in Nat \ {0} /\ Turned(text, cipher, counter)
  /\ sealAt = "seal" =>
       plain = <<>> /\ Ciphered /\ Taking(r, Seal!All(aad, cipher), blocks, mac)
  /\ sealAt = "open" =>
       /\ plain = <<>> /\ Ciphered /\ Taking(r, Seal!All(aad, cipher), blocks, mac)
       /\ Tagged(r, pad, Seal!All(aad, cipher), altered, tag)
  /\ sealAt = "decrypt" =>
       /\ blocks = <<>> /\ ~altered /\ Ciphered
       /\ counter \in Nat \ {0} /\ Turned(cipher, plain, counter)
  /\ sealAt = "opened" => blocks = <<>> /\ ~altered /\ plain = text
  /\ sealAt = "rejected" => blocks = <<>> /\ altered /\ plain = <<>>

SealInv == part = "seal" => SealKept /\ SealStage

\* Nothing is turned yet.
LEMMA TurnedStarts ==
  ASSUME NEW from \in Seq(Byte)
  PROVE  Turned(from, <<>>, 1)
<1>1. <<>> \in Seq(Byte) /\ Len(<<>>) = 0 /\ Len(from) \in Nat
  OBVIOUS
<1>2. (1 - 1) * ChunkBytes = 0
  BY SealTyped
<1>3. QED
  BY <1>1, <1>2 DEF Turned

\* A message of the model is one of bytes.
LEMMA SealWords ==
  /\ \A a \in Seal!Aads : a \in Seq(Byte) /\ Len(a) < Base
  /\ \A c \in Seal!Texts : c \in Seq(Byte) /\ Len(c) < Base
<1>1. /\ Bytes \subseteq Byte /\ MaxAad \in 0 .. Base - 1 /\ MaxLen \in 0 .. Base - 1
      /\ Base \in Nat
  BY SealTyped
<1>2. ASSUME NEW n \in 0 .. Base - 1, NEW w \in Seal!SeqOf(Bytes, n)
      PROVE  w \in Seq(Byte) /\ Len(w) < Base
  <2>1. PICK m \in 0 .. n : w \in [1 .. m -> Bytes]
    BY DEF Seal!SeqOf
  <2>2. w \in [1 .. m -> Byte] /\ m \in Nat /\ m < Base
    BY <1>1, <2>1
  <2>3. QED
    BY <2>2
<1>3. QED
  BY <1>1, <1>2 DEF Seal!Aads, Seal!Texts

\* It holds at first.
LEMMA SealInit ==
  ASSUME Init
  PROVE  SealInv
<1>1. SUFFICES ASSUME part = "seal"
               PROVE  SealKept /\ SealStage
  BY DEF SealInv
<1>2. Seal!Init
  BY <1>1 DEF Init
<1>3. SealKept
  <2>1. aad \in Seal!Aads /\ text \in Seal!Texts /\ r \in Rs /\ pad \in Pads /\ altered = FALSE
    BY <1>2 DEF Seal!Init
  <2>2. Rs \subseteq 0 .. Seal!BlockSpan - 1 /\ Pads \subseteq 0 .. Seal!BlockSpan - 1
    BY SealTyped
  <2>3. QED
    BY <2>1, <2>2, SealWords DEF SealKept
<1>4. sealAt = "seal aad" /\ cipher = <<>> /\ plain = <<>> /\ blocks = Seal!BlocksOf(aad)
      /\ mac = Seal!Digits(0)
  BY <1>2 DEF Seal!Init
<1>5. Taking(r, Seal!BlocksOf(aad), blocks, mac)
  <2>1. Seal!BlocksOf(aad) \in Seq(0 .. Seal!BlockSpan - 1)
    BY <1>3, BlocksAre DEF SealKept
  <2>2. QED
    BY <1>4, <2>1, TakingStarts
<1>6. QED
  BY <1>3, <1>4, <1>5 DEF SealStage

\* The blocks of the invariant are sequences.
LEMMA SealBlocks ==
  ASSUME SealKept
  PROVE  /\ Len(Seal!BlocksOf(aad)) \in Nat /\ r \in Nat
         /\ Ciphered => /\ cipher \in Seq(Byte) /\ Len(cipher) < Base
                        /\ Seal!All(aad, cipher) \in Seq(0 .. Seal!BlockSpan - 1)
                        /\ Len(Seal!All(aad, cipher)) \in Nat
<1>1. aad \in Seq(Byte) /\ Len(aad) < Base /\ Len(text) < Base
  BY DEF SealKept
<1>2. Len(Seal!BlocksOf(aad)) \in Nat
  BY <1>1, BlocksAre
<1>3. r \in Nat
  BY SealTyped DEF SealKept
<1>4. ASSUME Ciphered
      PROVE  /\ cipher \in Seq(Byte) /\ Len(cipher) < Base
             /\ Seal!All(aad, cipher) \in Seq(0 .. Seal!BlockSpan - 1)
             /\ Len(Seal!All(aad, cipher)) \in Nat
  <2>1. cipher \in Seq(Byte) /\ Len(cipher) < Base
    BY <1>1, <1>4 DEF Ciphered, Turned
  <2>2. AreAll(Seal!All(aad, cipher), aad, cipher)
    BY <1>1, <2>1, AllTyped, Zenon
  <2> DEFINE T == Seal!All(aad, cipher)
  <2>3. T \in Seq(0 .. Seal!BlockSpan - 1)
    BY <2>2 DEF AreAll
  <2> HIDE DEF T
  <2>4. Len(T) \in Nat
    BY <2>3
  <2>5. QED
    BY <2>1, <2>3, <2>4 DEF T
<1>5. QED
  BY <1>2, <1>3, <1>4

\* A block into the accumulator.
LEMMA SealAuthenticates ==
  ASSUME SealKept, SealStage, Seal!Authenticate
  PROVE  SealStage'
<1>1. /\ blocks # <<>> /\ blocks' = Tail(blocks)
      /\ mac' = Seal!ProcessBlock(mac, Head(blocks), FALSE)
      /\ aad' = aad /\ text' = text /\ r' = r /\ pad' = pad /\ sealAt' = sealAt
      /\ cipher' = cipher /\ tag' = tag /\ altered' = altered /\ plain' = plain
  BY DEF Seal!Authenticate, Seal!Given
<1>2. sealAt = "seal aad" \/ sealAt = "seal" \/ sealAt = "open"
  BY <1>1 DEF SealStage
<1>3. ASSUME NEW T, Len(T) \in Nat, Taking(r, T, blocks, mac)
      PROVE  Taking(r, T, blocks', mac')
  <2>1. r \in Nat
    BY SealBlocks
  <2>2. /\ mac \in NatElement /\ Head(blocks) \in Nat
        /\ Taking(r, T, Tail(blocks), Step(r, mac, Head(blocks)))
    BY <1>1, <1>3, <2>1, TakingNext, Zenon
  <2>3. Seal!ProcessBlock(mac, Head(blocks), FALSE) = Step(r, mac, Head(blocks))
    BY <2>2, ProcessIsStep, Zenon
  <2>4. QED
    BY <1>1, <2>2, <2>3
<1>4. CASE sealAt = "seal aad"
  <2>1. cipher = <<>> /\ plain = <<>> /\ Taking(r, Seal!BlocksOf(aad), blocks, mac)
    BY <1>4 DEF SealStage
  <2>2. Taking(r, Seal!BlocksOf(aad), blocks', mac')
    BY <1>3, <2>1, SealBlocks
  <2>3. QED
    BY <1>1, <1>4, <2>1, <2>2 DEF SealStage
<1>5. CASE sealAt = "seal"
  <2>1. plain = <<>> /\ Ciphered /\ Taking(r, Seal!All(aad, cipher), blocks, mac)
    BY <1>5 DEF SealStage
  <2>2. Taking(r, Seal!All(aad, cipher), blocks', mac')
    BY <1>3, <2>1, SealBlocks
  <2>3. Ciphered'
    BY <1>1, <2>1 DEF Ciphered
  <2>4. QED
    BY <1>1, <1>5, <2>1, <2>2, <2>3 DEF SealStage
<1>6. CASE sealAt = "open"
  <2>1. /\ plain = <<>> /\ Ciphered /\ Taking(r, Seal!All(aad, cipher), blocks, mac)
        /\ Tagged(r, pad, Seal!All(aad, cipher), altered, tag)
    BY <1>6 DEF SealStage
  <2>2. Taking(r, Seal!All(aad, cipher), blocks', mac')
    BY <1>3, <2>1, SealBlocks
  <2>3. Ciphered'
    BY <1>1, <2>1 DEF Ciphered
  <2>4. QED
    BY <1>1, <1>6, <2>1, <2>2, <2>3 DEF SealStage
<1>7. QED
  BY <1>2, <1>4, <1>5, <1>6

\* The chunks of the encryption, and what follows them.
LEMMA SealEncrypts ==
  ASSUME SealKept, SealStage,
         Seal!SealAadEnds \/ Seal!EncryptChunk \/ Seal!EncryptEnds
  PROVE  SealStage'
<1>1. CASE Seal!SealAadEnds
  <2>1. /\ sealAt = "seal aad" /\ blocks = <<>> /\ sealAt' = "encrypt" /\ counter' = 1
        /\ blocks' = blocks /\ mac' = mac /\ plain' = plain /\ cipher' = cipher
        /\ aad' = aad /\ text' = text /\ r' = r
    BY <1>1 DEF Seal!SealAadEnds, Seal!Given
  <2>2. cipher = <<>> /\ plain = <<>> /\ Taking(r, Seal!BlocksOf(aad), blocks, mac)
    BY <2>1 DEF SealStage
  <2>3. Fed(r, Seal!BlocksOf(aad), Len(Seal!BlocksOf(aad)), mac)
    BY <2>1, <2>2, SealBlocks, TakingEnds
  <2>4. Turned(text, <<>>, 1)
    BY TurnedStarts DEF SealKept
  <2>5. Turned(text', cipher', counter') /\ counter' \in Nat \ {0}
    <3>1. text' = text /\ cipher' = <<>> /\ counter' = 1
      BY <2>1, <2>2, Zenon
    <3>2. Turned(text', cipher', counter')
      BY <2>4, <3>1, Zenon
    <3>3. 1 \in Nat \ {0}
      OBVIOUS
    <3>4. QED
      BY <3>1, <3>2, <3>3, Zenon
  <2>6. Fed(r', Seal!BlocksOf(aad'), Len(Seal!BlocksOf(aad')), mac')
    BY <2>1, <2>3
  <2>7. QED
    BY <2>1, <2>2, <2>5, <2>6 DEF SealStage
<1>2. CASE Seal!EncryptChunk
  <2>1. /\ sealAt = "encrypt" /\ Len(cipher) < Len(text)
        /\ cipher' = cipher \o Seal!Chunk(text, Len(cipher)) /\ counter' = counter + 1
        /\ sealAt' = sealAt /\ blocks' = blocks /\ mac' = mac /\ plain' = plain
        /\ aad' = aad /\ text' = text /\ r' = r
    BY <1>2 DEF Seal!EncryptChunk, Seal!Given
  <2>2. /\ blocks = <<>> /\ plain = <<>>
        /\ Fed(r, Seal!BlocksOf(aad), Len(Seal!BlocksOf(aad)), mac)
        /\ counter \in Nat \ {0} /\ Turned(text, cipher, counter)
    BY <2>1 DEF SealStage
  <2>3. Turned(text, cipher', counter')
    <3>1. text \in Seq(Byte)
      BY DEF SealKept
    <3>2. Turned(text, cipher \o Seal!Chunk(text, Len(cipher)), counter + 1)
      BY <2>1, <2>2, <3>1, ChunkTurns, Zenon
    <3>3. QED
      BY <2>1, <3>2
  <2>4. counter' \in Nat \ {0}
    BY <2>1, <2>2
  <2>5. QED
    BY <2>1, <2>2, <2>3, <2>4 DEF SealStage
<1>3. CASE Seal!EncryptEnds
  <2>1. /\ sealAt = "encrypt" /\ Len(cipher) = Len(text) /\ sealAt' = "seal"
        /\ blocks' = Append(Seal!BlocksOf(cipher), Seal!LengthBlock(aad, cipher))
        /\ mac' = mac /\ plain' = plain /\ cipher' = cipher
        /\ aad' = aad /\ text' = text /\ r' = r
    BY <1>3 DEF Seal!EncryptEnds, Seal!Given
  <2>2. /\ plain = <<>> /\ Fed(r, Seal!BlocksOf(aad), Len(Seal!BlocksOf(aad)), mac)
        /\ Turned(text, cipher, counter)
    BY <2>1 DEF SealStage
  <2>3. Ciphered
    BY <2>1, <2>2 DEF Ciphered
  <2>4. Taking(r, Seal!All(aad, cipher), blocks', mac)
    <3>1. aad \in Seq(Byte) /\ Len(aad) < Base /\ cipher \in Seq(Byte) /\ Len(cipher) < Base
      BY <2>3, SealBlocks DEF SealKept
    <3>2. QED
      BY <2>1, <2>2, <3>1, TakingGoesOn
  <2>5. Ciphered'
    BY <2>1, <2>3 DEF Ciphered
  <2>6. QED
    BY <2>1, <2>2, <2>4, <2>5 DEF SealStage
<1>4. QED
  BY <1>1, <1>2, <1>3

\* The tag is made, changed or not, and the opening starts from the first block.
LEMMA SealTags ==
  ASSUME SealKept, SealStage, Seal!Seal
  PROVE  SealStage'
<1> DEFINE T == Seal!All(aad, cipher)
<1>1. /\ sealAt = "seal" /\ blocks = <<>> /\ altered' \in BOOLEAN
      /\ tag' = (Seal!TagOf(mac) + IF altered' THEN 1 ELSE 0) % Seal!BlockSpan
      /\ sealAt' = "open" /\ blocks' = T /\ mac' = Seal!Digits(0)
      /\ plain' = plain /\ cipher' = cipher
      /\ aad' = aad /\ text' = text /\ r' = r /\ pad' = pad
  BY DEF Seal!Seal, Seal!Given, Seal!All
<1>2. plain = <<>> /\ Ciphered /\ Taking(r, T, blocks, mac)
  BY <1>1 DEF SealStage
<1>3. T \in Seq(0 .. Seal!BlockSpan - 1) /\ Len(T) \in Nat
  BY <1>2, SealBlocks
<1> HIDE DEF T
<1>4. Fed(r, T, Len(T), mac)
  BY <1>1, <1>2, <1>3, TakingEnds
<1>5. Tagged(r, pad, T, altered', tag')
  <2>1. mac \in NatElement
    BY <1>3, <1>4, FedTyped, Zenon
  <2>2. Seal!TagOf(mac) = TagWith(mac, pad)
    BY <2>1, TagIsWith DEF SealKept
  <2>3. QED
    BY <1>1, <1>4, <2>2, Zenon DEF Tagged
<1>6. Taking(r, T, blocks', mac')
  BY <1>1, <1>3, TakingStarts
<1>7. Ciphered'
  BY <1>1, <1>2 DEF Ciphered
<1>8. T' = T
  BY <1>1 DEF T
<1>9. QED
  BY <1>1, <1>2, <1>5, <1>6, <1>7, <1>8 DEF SealStage, T

\* The tag decides: an altered one is rejected, the other is decrypted.
LEMMA SealDecides ==
  ASSUME SealKept, SealStage, Seal!Open
  PROVE  SealStage'
<1> DEFINE T == Seal!All(aad, cipher)
<1>1. /\ sealAt = "open" /\ blocks = <<>> /\ counter' = 1
      /\ sealAt' = IF Seal!TagOf(mac) = tag THEN "decrypt" ELSE "rejected"
      /\ blocks' = blocks /\ altered' = altered /\ plain' = plain /\ cipher' = cipher
      /\ text' = text
  BY DEF Seal!Open, Seal!Given
<1>2. /\ plain = <<>> /\ Ciphered /\ Taking(r, T, blocks, mac)
      /\ Tagged(r, pad, T, altered, tag)
  BY <1>1 DEF SealStage
<1>3. Len(T) \in Nat /\ cipher \in Seq(Byte)
  BY <1>2, SealBlocks
<1> HIDE DEF T
<1>4. Fed(r, T, Len(T), mac)
  BY <1>1, <1>2, <1>3, TakingEnds
<1>5. PICK m : /\ Fed(r, T, Len(T), m)
               /\ tag = (TagWith(m, pad) + IF altered THEN 1 ELSE 0) % Seal!BlockSpan
  BY <1>2 DEF Tagged
<1>6. m = mac
  BY <1>3, <1>4, <1>5, FedOnce, Zenon
<1>7. Seal!TagOf(mac) = tag <=> ~altered
  <2>1. mac \in NatElement
    BY <1>3, <1>4, FedTyped, Zenon
  <2>2. Seal!TagOf(mac) = TagWith(mac, pad) /\ TagWith(mac, pad) \in 0 .. Seal!BlockSpan - 1
    BY <2>1, TagIsWith DEF SealKept
  <2>3. altered \in BOOLEAN
    BY DEF SealKept
  <2>4. PICK x \in 0 .. Seal!BlockSpan - 1 : x = TagWith(mac, pad)
    BY <2>2
  <2>5. (x = (x + IF altered THEN 1 ELSE 0) % Seal!BlockSpan) <=> ~altered
    BY <2>3, TagTells, Zenon
  <2>6. QED
    BY <1>5, <1>6, <2>2, <2>4, <2>5
<1>8. Ciphered'
  BY <1>1, <1>2 DEF Ciphered
<1>9. Turned(cipher, <<>>, 1)
  BY <1>3, TurnedStarts
<1>10. QED
  BY <1>1, <1>2, <1>7, <1>8, <1>9 DEF SealStage

\* The chunks of the decryption give back the text.
LEMMA SealDecrypts ==
  ASSUME SealKept, SealStage, Seal!DecryptChunk \/ Seal!DecryptEnds
  PROVE  SealStage'
<1>1. /\ sealAt = "decrypt" /\ blocks' = blocks /\ altered' = altered
      /\ cipher' = cipher /\ text' = text
  BY DEF Seal!DecryptChunk, Seal!DecryptEnds, Seal!Given
<1>2. /\ blocks = <<>> /\ ~altered /\ Ciphered
      /\ counter \in Nat \ {0} /\ Turned(cipher, plain, counter)
  BY <1>1 DEF SealStage
<1>3. cipher \in Seq(Byte) /\ text \in Seq(Byte)
  BY <1>2, SealBlocks DEF SealKept
<1>4. CASE Seal!DecryptChunk
  <2>1. /\ Len(plain) < Len(cipher) /\ plain' = plain \o Seal!Chunk(cipher, Len(plain))
        /\ counter' = counter + 1 /\ sealAt' = sealAt
    BY <1>4 DEF Seal!DecryptChunk
  <2>2. Turned(cipher, plain \o Seal!Chunk(cipher, Len(plain)), counter + 1)
    BY <1>2, <1>3, <2>1, ChunkTurns, Zenon
  <2>3. counter' \in Nat \ {0}
    BY <1>2, <2>1
  <2>4. Ciphered'
    BY <1>1, <1>2 DEF Ciphered
  <2>5. QED
    BY <1>1, <1>2, <2>1, <2>2, <2>3, <2>4 DEF SealStage
<1>5. CASE Seal!DecryptEnds
  <2>1. Len(plain) = Len(cipher) /\ sealAt' = "opened" /\ plain' = plain
    BY <1>5 DEF Seal!DecryptEnds
  <2>2. PICK k : Turned(text, cipher, k)
    BY <1>2 DEF Ciphered
  <2>3. Len(cipher) = Len(text)
    BY <1>2 DEF Ciphered
  <2>4. plain = text
    BY <1>2, <1>3, <2>1, <2>2, <2>3, TurnedBack, Zenon
  <2>5. QED
    BY <1>1, <1>2, <2>1, <2>4 DEF SealStage
<1>6. QED
  BY <1>4, <1>5

\* It is inductive.
LEMMA SealStep ==
  ASSUME SealInv, [Next]_vars
  PROVE  SealInv'
<1>1. SUFFICES ASSUME part' = "seal"
               PROVE  (SealKept /\ SealStage)'
  BY DEF SealInv
<1>2. part = "seal" /\ (Seal!Next \/ UNCHANGED sealVars)
  BY <1>1, OnePart
<1>3. SealKept /\ SealStage
  BY <1>2 DEF SealInv
<1>4. CASE Seal!Next
  <2>1. aad' = aad /\ text' = text /\ r' = r /\ pad' = pad
        /\ (altered' = altered \/ altered' \in BOOLEAN)
    BY <1>4 DEF Seal!Next, Seal!Given, Seal!Authenticate, Seal!SealAadEnds, Seal!EncryptChunk,
                Seal!EncryptEnds, Seal!Seal, Seal!Open, Seal!DecryptChunk, Seal!DecryptEnds
  <2>2. SealKept'
    BY <1>3, <2>1 DEF SealKept
  <2>3. SealStage'
    BY <1>3, <1>4, SealAuthenticates, SealEncrypts, SealTags, SealDecides, SealDecrypts, Zenon
       DEF Seal!Next
  <2>4. QED
    BY <2>2, <2>3
<1>5. CASE UNCHANGED sealVars
  <2>1. UNCHANGED <<aad, text, r, pad, sealAt, blocks, mac, counter, cipher, tag, altered, plain>>
    BY <1>5 DEF sealVars
  <2>2. SealKept'
    BY <1>3, <2>1 DEF SealKept
  <2>3. Ciphered' <=> Ciphered
    BY <2>1 DEF Ciphered
  <2>4. SealStage'
    BY <1>3, <2>1, <2>3 DEF SealStage
  <2>5. QED
    BY <2>2, <2>4
<1>6. QED
  BY <1>2, <1>4, <1>5

\* The tag, where the limbs have room for what a product leaves in them.
TagHolds == part = "seal" => (LimbsAreWide => Seal!TagIsThePolynomial)

\* It implies what the seal promises.
LEMMA SealImplies ==
  ASSUME SealInv
  PROVE  SealIsSound /\ TagHolds
<1>1. SUFFICES ASSUME part = "seal"
               PROVE  /\ Seal!BlocksTellMessagesApart /\ Seal!OpensWhatWasSealed
                      /\ LimbsAreWide => Seal!TagIsThePolynomial
  BY ZenonT(40) DEF TagHolds, SealIsSound
<1>2. SealKept /\ SealStage
  BY <1>1 DEF SealInv
<1>3. Seal!OpensWhatWasSealed
  BY <1>2 DEF SealStage, Seal!OpensWhatWasSealed
<1>4. Seal!BlocksTellMessagesApart
  <2>1. SUFFICES ASSUME sealAt = "seal", NEW a \in Seal!Aads, NEW c \in Seal!Texts,
                        Seal!All(a, c) = Seal!All(aad, cipher)
                 PROVE  a = aad /\ c = cipher
    BY DEF Seal!BlocksTellMessagesApart
  <2>2. Ciphered
    BY <1>2, <2>1 DEF SealStage
  <2>3. /\ aad \in Seq(Byte) /\ Len(aad) < Base /\ cipher \in Seq(Byte) /\ Len(cipher) < Base
        /\ a \in Seq(Byte) /\ Len(a) < Base /\ c \in Seq(Byte) /\ Len(c) < Base
    BY <1>2, <2>2, SealBlocks, SealWords DEF SealKept
  <2>4. QED
    BY <2>1, <2>3, AllApart, ZenonT(40)
<1>5. ASSUME LimbsAreWide
      PROVE  Seal!TagIsThePolynomial
  <2> DEFINE T == Seal!All(aad, cipher)
  <2>1. SUFFICES ASSUME sealAt = "open", ~altered
                 PROVE  tag = (Seal!Polynomial(T) + pad) % Seal!BlockSpan
    BY DEF Seal!TagIsThePolynomial, Seal!Sealed
  <2>2. Ciphered /\ Tagged(r, pad, T, altered, tag)
    BY <1>2, <2>1 DEF SealStage
  <2>3. T \in Seq(0 .. Seal!BlockSpan - 1) /\ Len(T) \in Nat
    BY <1>2, <2>2, SealBlocks
  <2> HIDE DEF T
  <2>4. PICK m : /\ Fed(r, T, Len(T), m)
                 /\ tag = (TagWith(m, pad) + IF altered THEN 1 ELSE 0) % Seal!BlockSpan
    BY <2>2 DEF Tagged
  <2>5. m \in NatElement
    BY <2>3, <2>4, FedTyped, Zenon
  <2>6. r \in 0 .. Seal!BlockSpan - 1 /\ pad \in 0 .. Seal!BlockSpan - 1
    BY <1>2 DEF SealKept
  <2>7. Accumulator(m) /\ ValueIn(MacRadix, MacFold, m) = Seal!Polynomial(T)
    BY <1>5, <2>3, <2>4, <2>6, FedIs, Zenon
  <2>8. TagWith(m, pad) = (Seal!Polynomial(T) + pad) % Seal!BlockSpan
        /\ TagWith(m, pad) \in 0 .. Seal!BlockSpan - 1
    BY <1>5, <2>5, <2>6, <2>7, TagIs, TagIsWith, Zenon
  <2>9. tag = TagWith(m, pad)
    <3>1. PICK x \in 0 .. Seal!BlockSpan - 1 : x = TagWith(m, pad)
      BY <2>8
    <3>2. FALSE \in BOOLEAN
      OBVIOUS
    <3>3. x = (x + IF FALSE THEN 1 ELSE 0) % Seal!BlockSpan
      BY <3>2, TagTells, Zenon
    <3>4. QED
      BY <2>1, <2>4, <3>1, <3>3
  <2>10. QED
    BY <2>8, <2>9
<1>6. QED
  BY <1>3, <1>4, <1>5

\* chacha20poly1305_encrypt and _decrypt, for any widths and any messages: two
\* messages are never authenticated as the same blocks, what is opened is the text
\* that was sealed, and of a message with another tag nothing is decrypted.
THEOREM SealOpens == Spec => []SealIsSound
<1>1. SealInv => SealIsSound
  BY SealImplies
<1>2. QED
  BY SealInit, SealStep, <1>1, PTL DEF Spec

\* Where 11 times the fold squared is below the radix, as 11 * 5 * 5 is below 2^26
\* in Poly1305: the tag is the polynomial modulo P of the blocks as the code takes
\* them, without the high bit of RFC 8439, whatever the limbs carried, for every
\* key r and every message.
THEOREM TagComputed ==
  Spec => [](LimbsAreWide /\ part = "seal" => Seal!TagIsThePolynomial)
<1>1. SealInv => (LimbsAreWide /\ part = "seal" => Seal!TagIsThePolynomial)
  BY SealImplies DEF TagHolds
<1>2. QED
  BY SealInit, SealStep, <1>1, PTL DEF Spec

=============================================================================
