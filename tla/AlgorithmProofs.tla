---------------------------- MODULE AlgorithmProofs ----------------------------
(***************************************************************************)
(* Proofs about three more parts of MCAlgorithms, for any constants that   *)
(* fit the assumptions.  The hash (HashSafe): what update and final        *)
(* compress is the padded message, however it was cut into calls and for   *)
(* any width of a block.  The STUN client (StunSafe, StunFinds): the walk  *)
(* finds the first IPv4 address of any answer, no socket is left open and  *)
(* no answer is believed that was sent for another request.  The log       *)
(* replay (LogSafe): what DumpDebugLog writes are the last whole lines of  *)
(* the newest log, in order.                                               *)
(***************************************************************************)
EXTENDS CryptoProofs

-----------------------------------------------------------------------------
\* What a byte given to compress can be.
HashBytes ==
       {Sha!DataByte(i) : i \in Nat} \cup {Sha!One, Sha!Zero}
  \cup {<<"length", n, j>> : n \in Nat, j \in Nat}

LEMMA ShaTyped ==
  /\ HashBlockBytes \in Nat /\ HashBlockBytes > 1 /\ LengthBytes \in Nat
  /\ LengthBytes > 0 /\ LengthBytes < HashBlockBytes /\ MaxHashed \in Nat
BY PartsAssumption DEF Sha!ShaAssumption

\* How many zeros Padded puts in: such that the length ends a block.
ZerosFor(n) ==
  CHOOSE z \in 0 .. HashBlockBytes - 1 : (n + 1 + z + LengthBytes) % HashBlockBytes = 0

Whole(n) == n + 1 + ZerosFor(n) + LengthBytes

LEMMA ZerosExist ==
  ASSUME NEW n \in Nat
  PROVE  /\ ZerosFor(n) \in 0 .. HashBlockBytes - 1
         /\ \E q \in Nat : Whole(n) = HashBlockBytes * q
<1> DEFINE B == HashBlockBytes
           m == n + 1 + LengthBytes
<1>1. B \in Nat \ {0} /\ m \in Nat /\ -m \in Int
  BY ShaTyped
<1>2. (-m) \div B \in Int /\ (-m) % B \in 0 .. B - 1
      /\ -m = B * ((-m) \div B) + ((-m) % B)
  BY <1>1, DivMod
<1>3. PICK q \in Int, z \in 0 .. B - 1 : -m = B * q + z
  BY <1>2
<1>4. n + 1 + z + LengthBytes = m + z /\ m + z = (-q) * B + 0
  BY <1>1, <1>3, ShaTyped
<1>5. (n + 1 + z + LengthBytes) % B = 0
  <2>1. -q \in Int /\ 0 \in 0 .. B - 1 /\ m + z \in Int
    BY <1>1
  <2>2. QED
    BY <2>1, <1>1, <1>4, Remainder
<1>6. /\ ZerosFor(n) \in 0 .. B - 1
      /\ (n + 1 + ZerosFor(n) + LengthBytes) % B = 0
  BY <1>5 DEF ZerosFor
<1>7. Whole(n) \in Nat /\ Whole(n) % B = 0
  BY <1>6, ShaTyped DEF Whole
<1>8. QED
  BY <1>1, <1>6, <1>7, NoRemainder

\* The bytes of the padded message, one by one.
LEMMA PaddedBytes ==
  ASSUME NEW n \in Nat
  PROVE  LET w == Sha!Padded(n) IN
           /\ w \in Seq(HashBytes) /\ Len(w) = Whole(n)
           /\ \A i \in 1 .. n : w[i] = Sha!DataByte(i)
           /\ w[n + 1] = Sha!One
           /\ \A i \in n + 2 .. n + 1 + ZerosFor(n) : w[i] = Sha!Zero
           /\ \A j \in 1 .. LengthBytes : w[n + 1 + ZerosFor(n) + j] = Sha!LengthOf(n)[j]
<1> DEFINE z == ZerosFor(n)
           w1 == [i \in 1 .. n |-> Sha!DataByte(i)]
           w2 == <<Sha!One>>
           w3 == [i \in 1 .. z |-> Sha!Zero]
           w4 == Sha!LengthOf(n)
<1>1. Sha!Padded(n) = w1 \o w2 \o w3 \o w4
  BY DEF Sha!Padded, ZerosFor
<1>2. z \in Nat /\ LengthBytes \in Nat
  BY ZerosExist, ShaTyped
<1>3. w1 \in Seq(HashBytes) /\ Len(w1) = n /\ \A i \in 1 .. n : w1[i] = Sha!DataByte(i)
  <2>1. \A i \in 1 .. n : Sha!DataByte(i) \in HashBytes
    BY DEF HashBytes
  <2> HIDE DEF HashBytes
  <2>2. QED
    BY <2>1
<1>4. w2 \in Seq(HashBytes) /\ Len(w2) = 1 /\ w2[1] = Sha!One
  BY DEF HashBytes
<1>5. w3 \in Seq(HashBytes) /\ Len(w3) = z /\ \A i \in 1 .. z : w3[i] = Sha!Zero
  <2>1. Sha!Zero \in HashBytes
    BY DEF HashBytes
  <2> HIDE DEF z
  <2>2. QED
    BY <2>1, <1>2
<1>6. w4 \in Seq(HashBytes) /\ Len(w4) = LengthBytes
  <2>1. \A j \in 1 .. LengthBytes : <<"length", n, j>> \in HashBytes
    BY <1>2 DEF HashBytes
  <2>2. QED
    BY <2>1, <1>2 DEF Sha!LengthOf
<1> HIDE DEF w1, w2, w3, w4, z
<1> DEFINE u == w1 \o w2
           v == u \o w3
<1>7. /\ u \in Seq(HashBytes) /\ Len(u) = n + 1
      /\ \A i \in 1 .. n : u[i] = w1[i]
      /\ u[n + 1] = w2[1]
  <2>1. u \in Seq(HashBytes) /\ IsJoined(u, w1, w2)
    BY <1>3, <1>4, Parts
  <2> HIDE DEF u
  <2>2. QED
    BY <2>1, <1>3, <1>4 DEF IsJoined
<1> HIDE DEF u
<1>8. /\ v \in Seq(HashBytes) /\ Len(v) = n + 1 + z
      /\ \A i \in 1 .. n + 1 : v[i] = u[i]
      /\ \A i \in 1 .. z : v[n + 1 + i] = w3[i]
  <2>1. v \in Seq(HashBytes) /\ IsJoined(v, u, w3)
    BY <1>5, <1>7, Parts
  <2> HIDE DEF v
  <2>2. QED
    BY <2>1, <1>2, <1>5, <1>7 DEF IsJoined
<1> HIDE DEF v
<1>9. /\ v \o w4 \in Seq(HashBytes) /\ Len(v \o w4) = n + 1 + z + LengthBytes
      /\ \A i \in 1 .. n + 1 + z : (v \o w4)[i] = v[i]
      /\ \A j \in 1 .. LengthBytes : (v \o w4)[n + 1 + z + j] = w4[j]
  <2>1. v \o w4 \in Seq(HashBytes) /\ IsJoined(v \o w4, v, w4)
    BY <1>6, <1>8, Parts
  <2>2. QED
    BY <2>1, <1>2, <1>6, <1>8 DEF IsJoined
<1>10. \A i \in 1 .. n : (v \o w4)[i] = Sha!DataByte(i)
  BY <1>2, <1>3, <1>7, <1>8, <1>9
<1>11. (v \o w4)[n + 1] = Sha!One
  BY <1>2, <1>4, <1>7, <1>8, <1>9, SMTT(60)
<1>12. \A i \in n + 2 .. n + 1 + z : (v \o w4)[i] = Sha!Zero
  <2>1. SUFFICES ASSUME NEW i \in n + 2 .. n + 1 + z
                 PROVE  (v \o w4)[i] = Sha!Zero
    OBVIOUS
  <2>2. i - (n + 1) \in 1 .. z /\ n + 1 + (i - (n + 1)) = i /\ i \in 1 .. n + 1 + z
    BY <1>2
  <2>3. v[n + 1 + (i - (n + 1))] = Sha!Zero
    BY <2>2, <1>5, <1>8
  <2>4. QED
    BY <2>2, <2>3, <1>9
<1>13. Sha!Padded(n) = v \o w4
  BY <1>1 DEF u, v
<1>14. QED
  BY <1>9, <1>10, <1>11, <1>12, <1>13 DEF Whole, z, w4

-----------------------------------------------------------------------------
\* The compressed blocks and the buffer are the beginning of the padded message.
Message == calls[1] + calls[2]
Given   == Len(shaBlocks) * HashBlockBytes + Len(buffer)

Framed ==
  /\ shaBlocks \in Seq(Seq(HashBytes)) /\ buffer \in Seq(HashBytes)
  /\ Len(buffer) < HashBlockBytes
  /\ \A k \in 1 .. Len(shaBlocks) :
       /\ Len(shaBlocks[k]) = HashBlockBytes
       /\ \A j \in 1 .. HashBlockBytes :
            shaBlocks[k][j] = Sha!Padded(Message)[(k - 1) * HashBlockBytes + j]
  /\ \A j \in 1 .. Len(buffer) :
       buffer[j] = Sha!Padded(Message)[Len(shaBlocks) * HashBlockBytes + j]

\* How far update and final have come, and that nothing is missing or twice
\* among what is compressed and buffered.
ShaInv ==
  part = "sha" =>
    /\ calls \in [1 .. 2 -> Nat]
    /\ Framed
    /\ \/ /\ shaAt = "update 1" /\ totalBytes = calls[1] /\ shaLeft \in 0 .. calls[1]
          /\ Given = totalBytes - shaLeft
       \/ /\ shaAt = "update 2" /\ totalBytes = Message /\ shaLeft \in 0 .. calls[2]
          /\ Given = totalBytes - shaLeft
       \/ shaAt = "pad" /\ Given = Message /\ bitLen = Message
       \/ /\ shaAt = "zeros" /\ bitLen = Message
          /\ Given \in Message + 1 .. Message + 1 + ZerosFor(Message)
       \/ /\ shaAt = "length" /\ bitLen = Message
          /\ Given = Message + 1 + ZerosFor(Message)
          /\ Len(buffer) + LengthBytes = HashBlockBytes
       \/ shaAt = "done" /\ Given = Whole(Message) /\ buffer = <<>>

\* More bytes of the padded message go to the buffer, at most until it is full.
LEMMA BufferedKeeps ==
  ASSUME calls \in [1 .. 2 -> Nat], calls' = calls, Framed,
         NEW bytes \in Seq(HashBytes), Len(bytes) <= HashBlockBytes - Len(buffer),
         \A i \in 1 .. Len(bytes) : bytes[i] = Sha!Padded(Message)[Given + i],
         Sha!Buffered(bytes)
  PROVE  /\ Framed' /\ Given' = Given + Len(bytes)
         /\ Len(buffer) + Len(bytes) = HashBlockBytes => buffer' = <<>>
<1> DEFINE B == HashBlockBytes
           full == buffer \o bytes
           W == Sha!Padded(Message)
           n == Len(shaBlocks)
<1>1. /\ B \in Nat /\ B > 1
      /\ shaBlocks \in Seq(Seq(HashBytes)) /\ buffer \in Seq(HashBytes) /\ n \in Nat
      /\ Len(buffer) \in Nat /\ Len(bytes) \in Nat /\ Len(buffer) < B
  BY ShaTyped DEF Framed
<1>2. /\ full \in Seq(HashBytes) /\ Len(full) = Len(buffer) + Len(bytes)
      /\ \A j \in 1 .. Len(buffer) : full[j] = buffer[j]
      /\ \A i \in 1 .. Len(bytes) : full[Len(buffer) + i] = bytes[i]
  BY <1>1
<1>3. Message' = Message
  BY DEF Message
<1>4. W' = W
  BY <1>3 DEF Sha!Padded, Sha!DataByte, Sha!One, Sha!Zero, Sha!LengthOf
<1> HIDE DEF W
<1>5. n * B \in Nat
  BY <1>1
<1>6. \A j \in 1 .. Len(full) : full[j] = W[n * B + j]
  <2>1. SUFFICES ASSUME NEW j \in 1 .. Len(full)
                 PROVE  full[j] = W[n * B + j]
    OBVIOUS
  <2>2. CASE j <= Len(buffer)
    <3>1. j \in 1 .. Len(buffer)
      BY <2>2, <1>1
    <3>2. QED
      BY <3>1, <1>2 DEF Framed, W
  <2>3. CASE j > Len(buffer)
    <3>1. j - Len(buffer) \in 1 .. Len(bytes)
      BY <2>3, <1>1, <1>2
    <3>2. full[Len(buffer) + (j - Len(buffer))] = bytes[j - Len(buffer)]
      BY <3>1, <1>2
    <3>3. bytes[j - Len(buffer)] = W[Given + (j - Len(buffer))]
      BY <3>1 DEF W
    <3>4. Given + (j - Len(buffer)) = n * B + j /\ Len(buffer) + (j - Len(buffer)) = j
      BY <1>1, <1>5 DEF Given
    <3>5. QED
      BY <3>2, <3>3, <3>4
  <2>4. QED
    BY <2>2, <2>3, <1>1
<1> HIDE DEF full
<1>7. CASE Len(full) = B
  <2>1. buffer' = <<>> /\ shaBlocks' = Append(shaBlocks, full)
    BY <1>7 DEF Sha!Buffered, full
  <2>2. /\ shaBlocks' \in Seq(Seq(HashBytes)) /\ Len(shaBlocks') = n + 1
        /\ \A k \in 1 .. n : shaBlocks'[k] = shaBlocks[k]
        /\ shaBlocks'[n + 1] = full
    BY <2>1, <1>1, <1>2
  <2>3. \A k \in 1 .. Len(shaBlocks') :
          /\ Len(shaBlocks'[k]) = B
          /\ \A j \in 1 .. B : shaBlocks'[k][j] = W[(k - 1) * B + j]
    <3>1. SUFFICES ASSUME NEW k \in 1 .. Len(shaBlocks')
                   PROVE  /\ Len(shaBlocks'[k]) = B
                          /\ \A j \in 1 .. B : shaBlocks'[k][j] = W[(k - 1) * B + j]
      OBVIOUS
    <3>2. CASE k \in 1 .. n
      <4>1. /\ Len(shaBlocks[k]) = B
            /\ \A j \in 1 .. B : shaBlocks[k][j] = W[(k - 1) * B + j]
        BY <3>2 DEF Framed, W
      <4>2. shaBlocks'[k] = shaBlocks[k]
        BY <3>2, <2>2
      <4>3. QED
        BY <4>1, <4>2
    <3>3. CASE k = n + 1
      <4>1. shaBlocks'[k] = full /\ k - 1 = n
        BY <3>3, <2>2, <1>1
      <4>2. QED
        BY <4>1, <1>6, <1>7
    <3>4. QED
      BY <3>2, <3>3, <2>2, <1>1
  <2>4. buffer' \in Seq(HashBytes) /\ Len(buffer') = 0
    BY <2>1
  <2>5. Framed'
    BY <2>2, <2>3, <2>4, <1>1, <1>4 DEF Framed, W
  <2>6. Given' = Given + Len(bytes)
    <3>1. (n + 1) * B = n * B + B
      BY <1>1
    <3>2. Given' = (n + 1) * B + 0
      <4> HIDE DEF n
      <4>1. Len(shaBlocks)' = n + 1 /\ Len(buffer)' = 0
        BY <2>2, <2>4
      <4>2. QED
        BY <4>1 DEF Given
    <3>3. Given = n * B + Len(buffer)
      BY DEF Given
    <3>4. PICK c \in Nat, l \in Nat, e \in Nat, b \in Nat :
            c = n * B /\ l = Len(buffer) /\ e = Len(bytes) /\ b = B
      BY <1>1, <1>5
    <3>5. l + e = b
      BY <3>4, <1>2, <1>7
    <3>6. Given = c + l /\ Given' = (c + b) + 0
      BY <3>1, <3>2, <3>3, <3>4
    <3>7. (c + b) + 0 = (c + l) + e
      BY <3>5
    <3>8. QED
      BY <3>4, <3>6, <3>7, Zenon
  <2>7. QED
    BY <2>1, <2>5, <2>6
<1>8. CASE Len(full) # B
  <2>1. buffer' = full /\ shaBlocks' = shaBlocks
    BY <1>8 DEF Sha!Buffered, full
  <2>2. Len(full) < B
    BY <1>1, <1>2, <1>8
  <2>3. Framed'
    BY <2>1, <2>2, <1>1, <1>2, <1>4, <1>6 DEF Framed, W
  <2>4. Given' = Given + Len(bytes)
    BY <2>1, <1>1, <1>2, <1>5 DEF Given
  <2>5. QED
    BY <2>3, <2>4, <1>2, <1>8
<1>9. QED
  BY <1>7, <1>8

-----------------------------------------------------------------------------
LEMMA ShaInit == Init => ShaInv
<1>1. SUFFICES ASSUME Init, part = "sha"
               PROVE  ShaInv
  BY DEF ShaInv
<1>2. /\ calls \in [1 .. 2 -> 0 .. MaxHashed]
      /\ shaAt = "update 1" /\ shaLeft = calls[1]
      /\ totalBytes = calls[1] /\ buffer = <<>> /\ shaBlocks = <<>>
  BY <1>1 DEF Init, Sha!Init
<1>3. calls \in [1 .. 2 -> Nat]
  <2>1. 0 .. MaxHashed \subseteq Nat
    BY ShaTyped
  <2>2. QED
    BY <1>2, <2>1
<1>4. Framed
  <2>1. /\ shaBlocks \in Seq(Seq(HashBytes)) /\ buffer \in Seq(HashBytes)
        /\ Len(shaBlocks) = 0 /\ Len(buffer) = 0
    <3>1. <<>> \in Seq(HashBytes) /\ <<>> \in Seq(Seq(HashBytes)) /\ Len(<<>>) = 0
      OBVIOUS
    <3>2. QED
      BY <3>1, <1>2
  <2>2. QED
    BY <2>1, ShaTyped DEF Framed
<1>5. Given = 0
  <2>1. Len(shaBlocks) = 0 /\ Len(buffer) = 0
    BY <1>2
  <2>2. QED
    BY <2>1, ShaTyped DEF Given
<1>6. calls[1] \in Nat /\ calls[1] \in 0 .. calls[1] /\ calls[1] - calls[1] = 0
  BY <1>3
<1>7. QED
  BY <1>2, <1>3, <1>4, <1>5, <1>6 DEF ShaInv

\* Where the zeros end the length ends a block, and only there.
LEMMA ZerosEnd ==
  ASSUME calls \in [1 .. 2 -> Nat], Framed,
         Given \in Message + 1 .. Message + 1 + ZerosFor(Message)
  PROVE  Len(buffer) + LengthBytes = HashBlockBytes
         <=> Given = Message + 1 + ZerosFor(Message)
<1>1. PICK B \in Nat, L \in Nat, z \in Nat, m \in Nat, n \in Nat, l \in Nat :
        /\ B = HashBlockBytes /\ L = LengthBytes /\ z = ZerosFor(Message)
        /\ m = Message /\ n = Len(shaBlocks) /\ l = Len(buffer)
  <2>1. HashBlockBytes \in Nat /\ LengthBytes \in Nat
    BY ShaTyped
  <2>2. Message \in Nat
    BY DEF Message
  <2>3. ZerosFor(Message) \in Nat
    BY <2>1, <2>2, ZerosExist
  <2>4. Len(shaBlocks) \in Nat /\ Len(buffer) \in Nat
    BY DEF Framed
  <2>5. QED
    BY <2>1, <2>2, <2>3, <2>4
<1>2. PICK q \in Nat : m + 1 + z + L = B * q
  BY <1>1, ZerosExist DEF Whole
<1>3. l < B /\ z <= B - 1 /\ 0 < L /\ L < B
  BY <1>1, ShaTyped, ZerosExist DEF Framed
<1>4. Given = n * B + l
  BY <1>1 DEF Given
<1>5. PICK got \in Nat : got = n * B + l /\ m + 1 <= got /\ got <= m + 1 + z
  BY <1>1, <1>4
<1>6. ASSUME l + L = B
      PROVE  got = m + 1 + z
  <2>1. got + L = B * (n + 1)
    BY <1>5, <1>6
  <2>2. B * q - B * (n + 1) = (m + 1 + z) - got
    <3>1. (m + 1 + z) - got = (m + 1 + z + L) - (got + L)
      OBVIOUS
    <3>2. QED
      BY <3>1, <2>1, <1>2, Zenon
  <2>3. B * q - B * (n + 1) = B * (q - (n + 1))
    OBVIOUS
  <2>4. B * (q - (n + 1)) >= 0 /\ B * (q - (n + 1)) < B
    BY <2>2, <2>3, <1>3, <1>5
  <2>5. q - (n + 1) = 0
    <3>1. CASE q - (n + 1) >= 1
      BY <3>1, <2>4
    <3>2. CASE q - (n + 1) <= -1
      BY <3>2, <2>4, <1>3
    <3>3. QED
      BY <3>1, <3>2
  <2>6. QED
    BY <2>1, <2>5, <1>2
<1>7. ASSUME got = m + 1 + z
      PROVE  l + L = B
  <2>1. l + L = B * q - n * B
    BY <1>2, <1>5, <1>7
  <2>2. B * q - n * B = B * (q - n)
    OBVIOUS
  <2>3. B * (q - n) > 0 /\ B * (q - n) < B + B
    BY <2>1, <2>2, <1>3
  <2>4. q - n = 1
    <3>1. CASE q - n >= 2
      BY <3>1, <2>3
    <3>2. CASE q - n <= 0
      BY <3>2, <2>3
    <3>3. QED
      BY <3>1, <3>2
  <2>5. QED
    BY <2>1, <2>2, <2>4
<1>8. QED
  BY <1>1, <1>4, <1>5, <1>6, <1>7

LEMMA ShaStep == ShaInv /\ [Next]_vars => ShaInv'
<1> SUFFICES ASSUME ShaInv, [Next]_vars, part' = "sha"
             PROVE  ShaInv'
  BY DEF ShaInv
<1>1. part = "sha" /\ (Sha!Next \/ UNCHANGED shaVars)
  BY OnePart
<1>2. /\ calls \in [1 .. 2 -> Nat] /\ Framed
      /\ calls[1] \in Nat /\ calls[2] \in Nat /\ Message \in Nat
      /\ ZerosFor(Message) \in Nat
      /\ Len(shaBlocks) \in Nat /\ Len(buffer) \in Nat /\ Given \in Nat
  <2>1. calls \in [1 .. 2 -> Nat] /\ Framed
    BY <1>1 DEF ShaInv
  <2>2. calls[1] \in Nat /\ calls[2] \in Nat /\ Message \in Nat
    BY <2>1 DEF Message
  <2>3. ZerosFor(Message) \in Nat
    BY <2>2, ZerosExist, ShaTyped
  <2>4. Len(shaBlocks) \in Nat /\ Len(buffer) \in Nat
    BY <2>1 DEF Framed
  <2>5. Given \in Nat
    BY <2>4, ShaTyped DEF Given
  <2>6. QED
    BY <2>1, <2>2, <2>3, <2>4, <2>5
<1>3. ASSUME calls' = calls
      PROVE  Message' = Message /\ ZerosFor(Message)' = ZerosFor(Message)
             /\ Whole(Message)' = Whole(Message)
  <2>1. Message' = Message
    BY <1>3 DEF Message
  <2>2. QED
    BY <2>1 DEF ZerosFor, Whole
<1>4. ASSUME calls' = calls, buffer' = buffer, shaBlocks' = shaBlocks
      PROVE  Framed' /\ Given' = Given
  <2>1. Sha!Padded(Message)' = Sha!Padded(Message)
    BY <1>3, <1>4 DEF Sha!Padded, Sha!DataByte, Sha!One, Sha!Zero, Sha!LengthOf
  <2>2. QED
    BY <1>2, <1>4, <2>1, ZenonT(40) DEF Framed, Given
<1>5. CASE UNCHANGED shaVars
  <2>1. /\ calls' = calls /\ buffer' = buffer /\ shaBlocks' = shaBlocks /\ shaAt' = shaAt
        /\ shaLeft' = shaLeft /\ totalBytes' = totalBytes /\ bitLen' = bitLen
    BY <1>5 DEF shaVars
  <2>2. QED
    BY <1>1, <1>2, <1>3, <1>4, <2>1 DEF ShaInv
<1>6. CASE Sha!Update
  <2>1. PICK room \in Nat, take \in Nat, from \in Nat :
          /\ room = HashBlockBytes - Len(buffer)
          /\ take = IF room > shaLeft THEN shaLeft ELSE room
          /\ from = totalBytes - shaLeft /\ from = Given /\ from + shaLeft <= Message
          /\ shaLeft \in Nat /\ shaLeft > 0
    <3>1. /\ shaLeft \in Nat /\ totalBytes - shaLeft = Given
          /\ totalBytes - shaLeft + shaLeft <= Message
      <4>1. CASE shaAt = "update 1"
        <5>1. /\ totalBytes = calls[1] /\ shaLeft \in 0 .. calls[1]
              /\ Given = totalBytes - shaLeft
          BY <1>1, <4>1 DEF ShaInv
        <5>2. QED
          BY <5>1, <1>2 DEF Message
      <4>2. CASE shaAt = "update 2"
        <5>1. /\ totalBytes = Message /\ shaLeft \in 0 .. calls[2]
              /\ Given = totalBytes - shaLeft
          BY <1>1, <4>2 DEF ShaInv
        <5>2. QED
          BY <5>1, <1>2
      <4>3. QED
        BY <1>6, <4>1, <4>2 DEF Sha!Update
    <3>2. shaLeft > 0
      BY <1>6 DEF Sha!Update
    <3>3. HashBlockBytes - Len(buffer) \in Nat
      <4>1. HashBlockBytes \in Nat
        BY ShaTyped
      <4>2. Len(buffer) < HashBlockBytes
        BY <1>2 DEF Framed
      <4>3. QED
        BY <4>1, <4>2, <1>2
    <3>4. PICK room \in Nat, from \in Nat :
            room = HashBlockBytes - Len(buffer) /\ from = totalBytes - shaLeft
      BY <1>2, <3>1, <3>3
    <3>5. (IF room > shaLeft THEN shaLeft ELSE room) \in Nat
      BY <3>1
    <3>6. QED
      BY <3>1, <3>2, <3>4, <3>5
  <2> DEFINE bytes == [i \in 1 .. take |-> Sha!DataByte(from + i)]
  <2>2. /\ Sha!Buffered(bytes) /\ shaLeft' = shaLeft - take /\ shaAt' = shaAt
        /\ calls' = calls /\ totalBytes' = totalBytes /\ bitLen' = bitLen
    BY <1>6, <2>1 DEF Sha!Update
  <2>3. take <= shaLeft /\ take <= room
    BY <2>1
  <2>4. bytes \in Seq(HashBytes) /\ Len(bytes) = take
    <3>1. \A i \in 1 .. take : Sha!DataByte(from + i) \in HashBytes
      BY DEF HashBytes
    <3>2. QED
      BY <3>1
  <2>5. \A i \in 1 .. Len(bytes) : bytes[i] = Sha!Padded(Message)[Given + i]
    <3>1. \A i \in 1 .. take : from + i \in 1 .. Message
      BY <1>2, <2>1, <2>3, SMTT(60)
    <3>2. \A i \in 1 .. take : bytes[i] = Sha!DataByte(from + i)
      OBVIOUS
    <3> HIDE DEF bytes
    <3>3. \A i \in 1 .. Message : Sha!Padded(Message)[i] = Sha!DataByte(i)
      BY <1>2, PaddedBytes
    <3>4. \A i \in 1 .. take : bytes[i] = Sha!Padded(Message)[from + i]
      BY <3>1, <3>2, <3>3
    <3>5. from = Given
      BY <2>1
    <3>6. QED
      BY <2>4, <3>4, <3>5
  <2> HIDE DEF bytes
  <2>6. Framed' /\ Given' = Given + take
    BY <1>2, <2>1, <2>2, <2>3, <2>4, <2>5, BufferedKeeps
  <2>7. calls' \in [1 .. 2 -> Nat]
    BY <1>2, <2>2
  <2>8. CASE shaAt = "update 1"
    <3>1. /\ totalBytes = calls[1] /\ shaLeft \in 0 .. calls[1] /\ Given = totalBytes - shaLeft
      BY <1>1, <2>8 DEF ShaInv
    <3>2. shaLeft - take \in 0 .. calls[1] /\ Given + take = totalBytes - (shaLeft - take)
      <4>1. PICK c \in Nat, l \in Nat, t \in Nat, got \in Nat :
              /\ c = calls[1] /\ l = shaLeft /\ t = totalBytes /\ got = Given
              /\ l <= c /\ take <= l /\ got = t - l
        <5>1. calls[1] \in Nat /\ shaLeft \in Nat /\ totalBytes \in Nat /\ Given \in Nat
          BY <1>2, <2>1, <3>1
        <5>2. shaLeft <= calls[1]
          BY <1>2, <3>1
        <5>3. QED
          BY <2>3, <3>1, <5>1, <5>2
      <4>2. l - take \in 0 .. c /\ got + take = t - (l - take)
        BY <4>1
      <4>3. QED
        BY <4>1, <4>2
    <3>3. QED
      BY <2>2, <2>6, <2>7, <2>8, <3>1, <3>2 DEF ShaInv
  <2>9. CASE shaAt = "update 2"
    <3>1. /\ totalBytes = Message /\ shaLeft \in 0 .. calls[2] /\ Given = totalBytes - shaLeft
      BY <1>1, <2>9 DEF ShaInv
    <3>2. shaLeft - take \in 0 .. calls[2] /\ Given + take = totalBytes - (shaLeft - take)
      <4>1. PICK c \in Nat, l \in Nat, t \in Nat, got \in Nat :
              /\ c = calls[2] /\ l = shaLeft /\ t = totalBytes /\ got = Given
              /\ l <= c /\ take <= l /\ got = t - l
        <5>1. calls[2] \in Nat /\ shaLeft \in Nat /\ totalBytes \in Nat /\ Given \in Nat
          BY <1>2, <2>1, <3>1
        <5>2. shaLeft <= calls[2]
          BY <1>2, <3>1
        <5>3. QED
          BY <2>3, <3>1, <5>1, <5>2
      <4>2. l - take \in 0 .. c /\ got + take = t - (l - take)
        BY <4>1
      <4>3. QED
        BY <4>1, <4>2
    <3>3. QED
      BY <1>3, <2>2, <2>6, <2>7, <2>9, <3>1, <3>2 DEF ShaInv
  <2>10. QED
    BY <1>6, <2>8, <2>9 DEF Sha!Update
<1>7. CASE Sha!SecondUpdate
  <2>1. /\ shaAt = "update 1" /\ shaLeft = 0 /\ shaAt' = "update 2" /\ shaLeft' = calls[2]
        /\ totalBytes' = totalBytes + calls[2]
        /\ calls' = calls /\ buffer' = buffer /\ shaBlocks' = shaBlocks
    BY <1>7 DEF Sha!SecondUpdate
  <2>2. totalBytes = calls[1] /\ Given = totalBytes - 0
    BY <1>1, <2>1 DEF ShaInv
  <2>3. totalBytes' = Message /\ shaLeft' \in 0 .. calls[2] /\ Given = Message - calls[2]
    <3>1. Message = calls[1] + calls[2]
      BY DEF Message
    <3>2. PICK c \in Nat, d \in Nat : c = calls[1] /\ d = calls[2]
      BY <1>2
    <3>3. c = (c + d) - d /\ d \in 0 .. d /\ c - 0 = c
      OBVIOUS
    <3>4. Given = c - 0 /\ totalBytes' = c + d /\ shaLeft' = d
      BY <2>1, <2>2, <3>2
    <3>5. QED
      BY <3>1, <3>2, <3>3, <3>4
  <2>4. QED
    BY <1>2, <1>3, <1>4, <2>1, <2>3 DEF ShaInv
<1>8. CASE Sha!Final
  <2>1. /\ shaAt = "update 2" /\ shaLeft = 0 /\ shaAt' = "pad" /\ bitLen' = totalBytes
        /\ calls' = calls /\ buffer' = buffer /\ shaBlocks' = shaBlocks
    BY <1>8 DEF Sha!Final
  <2>2. totalBytes = Message /\ Given = Message - 0
    BY <1>1, <2>1 DEF ShaInv
  <2>3. Given = Message
    BY <1>2, <2>2
  <2>4. QED
    BY <1>2, <1>3, <1>4, <2>1, <2>2, <2>3 DEF ShaInv
<1>9. CASE Sha!Pad
  <2> DEFINE bytes == <<Sha!One>>
  <2>1. /\ shaAt = "pad" /\ Sha!Buffered(bytes) /\ shaAt' = "zeros"
        /\ calls' = calls /\ bitLen' = bitLen
    BY <1>9 DEF Sha!Pad
  <2>2. Given = Message /\ bitLen = Message
    BY <1>1, <2>1 DEF ShaInv
  <2>3. bytes \in Seq(HashBytes) /\ Len(bytes) = 1 /\ bytes[1] = Sha!One
    BY DEF HashBytes
  <2> HIDE DEF bytes
  <2>4. \A i \in 1 .. Len(bytes) : bytes[i] = Sha!Padded(Message)[Given + i]
    <3>1. Sha!Padded(Message)[Message + 1] = Sha!One
      BY <1>2, PaddedBytes
    <3>2. \A i \in 1 .. 1 : i = 1
      OBVIOUS
    <3>3. QED
      BY <2>2, <2>3, <3>1, <3>2
  <2>5. Len(bytes) <= HashBlockBytes - Len(buffer)
    BY <1>2, <2>3, ShaTyped DEF Framed
  <2>6. Framed' /\ Given' = Given + 1
    BY <1>2, <2>1, <2>3, <2>4, <2>5, BufferedKeeps
  <2>7. Given + 1 \in Message + 1 .. Message + 1 + ZerosFor(Message)
    BY <1>2, <2>2
  <2>8. QED
    BY <1>2, <1>3, <2>1, <2>2, <2>6, <2>7 DEF ShaInv
<1>10. CASE Sha!Zeros
  <2>1. /\ shaAt = "zeros" /\ calls' = calls /\ bitLen' = bitLen
        /\ bitLen = Message /\ Given \in Message + 1 .. Message + 1 + ZerosFor(Message)
    BY <1>1, <1>10 DEF Sha!Zeros, ShaInv
  <2>2. Len(buffer) + LengthBytes = HashBlockBytes
        <=> Given = Message + 1 + ZerosFor(Message)
    BY <1>2, <2>1, ZerosEnd
  <2>3. CASE Len(buffer) # HashBlockBytes - LengthBytes
    <3> DEFINE bytes == <<Sha!Zero>>
    <3>1. Sha!Buffered(bytes) /\ shaAt' = "zeros"
      BY <1>10, <2>1, <2>3 DEF Sha!Zeros
    <3>2. Given # Message + 1 + ZerosFor(Message)
      BY <1>2, <2>2, <2>3, ShaTyped
    <3>3. /\ Given + 1 \in Message + 2 .. Message + 1 + ZerosFor(Message)
          /\ Given + 1 \in Message + 1 .. Message + 1 + ZerosFor(Message)
      BY <1>2, <2>1, <3>2
    <3>4. bytes \in Seq(HashBytes) /\ Len(bytes) = 1 /\ bytes[1] = Sha!Zero
      BY DEF HashBytes
    <3> HIDE DEF bytes
    <3>5. \A i \in 1 .. Len(bytes) : bytes[i] = Sha!Padded(Message)[Given + i]
      <4>1. Sha!Padded(Message)[Given + 1] = Sha!Zero
        BY <1>2, <3>3, PaddedBytes
      <4>2. \A i \in 1 .. 1 : i = 1
        OBVIOUS
      <4>3. QED
        BY <3>4, <4>1, <4>2
    <3>6. Len(bytes) <= HashBlockBytes - Len(buffer)
      BY <1>2, <3>4, ShaTyped DEF Framed
    <3>7. Framed' /\ Given' = Given + 1
      BY <1>2, <2>1, <3>1, <3>4, <3>5, <3>6, BufferedKeeps
    <3>8. QED
      BY <1>2, <1>3, <2>1, <3>1, <3>3, <3>7 DEF ShaInv
  <2>4. CASE Len(buffer) = HashBlockBytes - LengthBytes
    <3>1. shaAt' = "length" /\ buffer' = buffer /\ shaBlocks' = shaBlocks
      BY <1>10, <2>4 DEF Sha!Zeros
    <3>2. /\ Given = Message + 1 + ZerosFor(Message)
          /\ Len(buffer) + LengthBytes = HashBlockBytes
      BY <1>2, <2>2, <2>4, ShaTyped
    <3>3. QED
      BY <1>2, <1>3, <1>4, <2>1, <3>1, <3>2 DEF ShaInv
  <2>5. QED
    BY <2>3, <2>4
<1>11. CASE Sha!Length
  <2> DEFINE bytes == Sha!LengthOf(bitLen)
  <2>1. /\ shaAt = "length" /\ Sha!Buffered(bytes) /\ shaAt' = "done" /\ calls' = calls
    BY <1>11 DEF Sha!Length
  <2>2. /\ bitLen = Message /\ Given = Message + 1 + ZerosFor(Message)
        /\ Len(buffer) + LengthBytes = HashBlockBytes
    BY <1>1, <2>1 DEF ShaInv
  <2>3. bytes \in Seq(HashBytes) /\ Len(bytes) = LengthBytes
    <3>1. \A j \in 1 .. LengthBytes : <<"length", bitLen, j>> \in HashBytes
      BY <1>2, <2>2, ShaTyped DEF HashBytes
    <3>2. LengthBytes \in Nat
      BY ShaTyped
    <3>3. QED
      BY <3>1, <3>2 DEF Sha!LengthOf
  <2>4. \A j \in 1 .. LengthBytes :
          Sha!Padded(Message)[Message + 1 + ZerosFor(Message) + j] = bytes[j]
    BY <1>2, <2>2, PaddedBytes
  <2> HIDE DEF bytes
  <2>5. \A i \in 1 .. Len(bytes) : bytes[i] = Sha!Padded(Message)[Given + i]
    BY <2>2, <2>3, <2>4
  <2>6. /\ Len(bytes) <= HashBlockBytes - Len(buffer)
        /\ Len(buffer) + Len(bytes) = HashBlockBytes
    BY <1>2, <2>2, <2>3, ShaTyped
  <2>7. Framed' /\ Given' = Given + Len(bytes) /\ buffer' = <<>>
    BY <1>2, <2>1, <2>3, <2>5, <2>6, BufferedKeeps
  <2>8. Given + Len(bytes) = Whole(Message)
    BY <2>2, <2>3 DEF Whole
  <2>9. QED
    BY <1>2, <1>3, <2>1, <2>7, <2>8 DEF ShaInv
<1>12. QED
  BY <1>1, <1>5, <1>6, <1>7, <1>8, <1>9, <1>10, <1>11 DEF Sha!Next

\* What the invariant says of the blocks, in the words of the properties.
LEMMA ShaSafe == ShaInv => HashIsFramed
<1> SUFFICES ASSUME ShaInv, part = "sha"
             PROVE  Sha!CompressesThePaddedMessage /\ Sha!BufferHasRoom
  BY DEF HashIsFramed
<1> DEFINE B == HashBlockBytes
           W == Sha!Padded(Message)
           n == Len(shaBlocks)
<1>1. /\ calls \in [1 .. 2 -> Nat] /\ Message \in Nat /\ Framed
      /\ B \in Nat /\ B > 1 /\ LengthBytes \in Nat
      /\ n \in Nat /\ Len(buffer) \in Nat /\ Len(buffer) < B /\ n * B \in Nat
  <2>1. calls \in [1 .. 2 -> Nat] /\ Framed
    BY DEF ShaInv
  <2>2. Message \in Nat
    BY <2>1 DEF Message
  <2>3. B \in Nat /\ B > 1 /\ LengthBytes \in Nat
    BY ShaTyped
  <2>4. n \in Nat /\ Len(buffer) \in Nat /\ Len(buffer) < B
    BY <2>1 DEF Framed
  <2>5. n * B \in Nat
    BY <2>3, <2>4
  <2>6. QED
    BY <2>1, <2>2, <2>3, <2>4, <2>5
<1>2. W \in Seq(HashBytes) /\ Len(W) = Whole(Message) /\ ZerosFor(Message) \in Nat
  <2>1. W \in Seq(HashBytes) /\ Len(W) = Whole(Message)
    BY <1>1, PaddedBytes
  <2>2. ZerosFor(Message) \in 0 .. B - 1
    BY <1>1, ZerosExist
  <2>3. QED
    BY <1>1, <2>1, <2>2
<1>3. Whole(Message) = Message + 1 + ZerosFor(Message) + LengthBytes
  BY DEF Whole
<1>4. Given = n * B + Len(buffer)
  BY DEF Given
<1>5. Given <= Whole(Message)
  <2>1. PICK m \in Nat, z \in Nat, l \in Nat :
          m = Message /\ z = ZerosFor(Message) /\ l = LengthBytes
    BY <1>1, <1>2
  <2>2. Whole(Message) = m + 1 + z + l
    BY <1>3, <2>1
  <2>3. CASE shaAt \in {"update 1", "update 2"}
    <3>1. \E c \in Nat, d \in Nat, rest \in Nat : Given = c - rest /\ c + d = m
      <4>1. calls[1] \in Nat /\ calls[2] \in Nat /\ Message = calls[1] + calls[2]
        BY <1>1 DEF Message
      <4>2. CASE shaAt = "update 1"
        <5>1. shaLeft \in Nat /\ Given = calls[1] - shaLeft
          <6>1. shaLeft \in 0 .. calls[1] /\ Given = calls[1] - shaLeft
            BY <4>2 DEF ShaInv
          <6>2. QED
            BY <4>1, <6>1
        <5>2. QED
          BY <2>1, <4>1, <5>1
      <4>3. CASE shaAt = "update 2"
        <5>1. shaLeft \in Nat /\ Given = m - shaLeft
          <6>1. shaLeft \in 0 .. calls[2] /\ Given = Message - shaLeft
            BY <4>3 DEF ShaInv
          <6>2. QED
            BY <2>1, <4>1, <6>1
        <5>2. m + 0 = m /\ 0 \in Nat
          OBVIOUS
        <5>3. QED
          BY <5>1, <5>2
      <4>4. QED
        BY <2>3, <4>2, <4>3
    <3>2. PICK c \in Nat, d \in Nat, rest \in Nat : Given = c - rest /\ c + d = m
      BY <3>1
    <3>3. c - rest <= m + 1 + z + l
      BY <3>2
    <3>4. QED
      BY <2>2, <3>2, <3>3
  <2>4. CASE shaAt \notin {"update 1", "update 2"}
    <3>1. Given = m \/ Given \in m + 1 .. m + 1 + z \/ Given = m + 1 + z
          \/ Given = Whole(Message)
      BY <2>1, <2>4 DEF ShaInv
    <3>2. QED
      BY <2>2, <3>1
  <2>5. QED
    BY <2>3, <2>4
<1>6. n * B <= Len(W)
  BY <1>1, <1>2, <1>3, <1>4, <1>5, SMTT(60)
<1>7. ASSUME NEW k \in DOMAIN shaBlocks
      PROVE  shaBlocks[k] = SubSeq(W, (k - 1) * B + 1, k * B)
  <2>1. k \in 1 .. n /\ shaBlocks[k] \in Seq(HashBytes) /\ Len(shaBlocks[k]) = B
        /\ \A j \in 1 .. B : shaBlocks[k][j] = W[(k - 1) * B + j]
    <3>1. k \in 1 .. n
      <4>1. shaBlocks \in Seq(Seq(HashBytes))
        BY <1>1 DEF Framed
      <4>2. QED
        BY <4>1, <1>7
    <3>2. shaBlocks[k] \in Seq(HashBytes)
      <4>1. shaBlocks \in Seq(Seq(HashBytes))
        BY <1>1 DEF Framed
      <4>2. QED
        BY <4>1, <3>1
    <3>3. /\ Len(shaBlocks[k]) = B
          /\ \A j \in 1 .. B : shaBlocks[k][j] = W[(k - 1) * B + j]
      BY <1>1, <3>1 DEF Framed
    <3>4. QED
      BY <3>1, <3>2, <3>3
  <2>2. PICK a \in Nat, b \in Nat : a = (k - 1) * B /\ b = k * B /\ b = a + B /\ b <= Len(W)
    <3>1. (k - 1) * B \in Nat /\ k * B \in Nat /\ k * B = (k - 1) * B + B
      BY <1>1, <2>1, SMTT(60)
    <3>2. k * B <= n * B
      BY <1>1, <2>1
    <3>3. n * B \in Nat /\ Len(W) \in Nat
      BY <1>1, <1>2, <1>3
    <3> HIDE DEF W, n, B
    <3>4. PICK a \in Nat, b \in Nat, e \in Nat, l \in Nat, d \in Nat :
            a = (k - 1) * B /\ b = k * B /\ e = n * B /\ l = Len(W) /\ d = B
      BY <3>1, <3>3, <1>1
    <3>5. b = a + d /\ b <= e /\ e <= l
      BY <3>1, <3>2, <3>4, <1>6, Zenon
    <3>6. b <= l
      BY <3>5
    <3>7. QED
      BY <3>4, <3>5, <3>6, Zenon
  <2> HIDE DEF W, n, B
  <2>3. /\ Len(shaBlocks[k]) = B
        /\ \A j \in 1 .. B : shaBlocks[k][j] = W[a + j]
    BY <2>1, <2>2
  <2>4. shaBlocks[k] = SubSeq(W, a + 1, b)
    <3>1. /\ W \in Seq(HashBytes) /\ shaBlocks[k] \in Seq(HashBytes) /\ B \in Nat
          /\ b = a + B /\ b <= Len(W) /\ Len(shaBlocks[k]) = B
          /\ \A j \in 1 .. B : shaBlocks[k][j] = W[a + j]
      BY <1>1, <1>2, <2>1, <2>2, <2>3
    <3> DEFINE t == shaBlocks[k]
    <3>2. /\ t \in Seq(HashBytes) /\ Len(t) = B
          /\ \A j \in 1 .. B : t[j] = W[a + j]
      BY <3>1
    <3> HIDE DEF t
    <3>3. t = SubSeq(W, a + 1, b)
      BY <3>1, <3>2, SliceIs, SMTT(60)
    <3>4. QED
      BY <3>3 DEF t
  <2>5. QED
    BY <2>2, <2>4
<1>8. shaAt = "done" => n * B = Len(W)
  BY <1>1, <1>2, <1>4 DEF ShaInv
<1>9. Sha!CompressesThePaddedMessage
  BY <1>6, <1>7, <1>8 DEF Sha!CompressesThePaddedMessage, Message
<1>10. Sha!BufferHasRoom
  BY <1>1 DEF ShaInv, Framed, Sha!BufferHasRoom
<1>11. QED
  BY <1>9, <1>10

\* However a message is cut into two calls of update, and for any width of a
\* block, the hash compresses the message padded as FIPS 180-4 says.
THEOREM HashSafe == Spec => []HashIsFramed
  BY ShaInit, ShaStep, ShaSafe, PTL DEF Spec

-----------------------------------------------------------------------------
\* The offset after the padding: the next multiple of four.
LEMMA AlignedIs ==
  ASSUME NEW n \in Nat
  PROVE  /\ Stun!Aligned(n) \in Nat /\ Stun!Aligned(n) >= n
         /\ \E q \in Nat : Stun!Aligned(n) = 4 * q
         /\ \A k \in Nat : Stun!Aligned(4 * k + n) = 4 * k + Stun!Aligned(n)
<1>1. PICK i \in Int, m \in 0 .. 3 : n = 4 * i + m /\ n % 4 = m
  <2>1. n \div 4 \in Int /\ n % 4 \in 0 .. 3 /\ n = 4 * (n \div 4) + (n % 4)
    BY DivMod
  <2>2. QED
    BY <2>1
<1>2. i \in Nat
  BY <1>1
<1>3. Stun!Aligned(n) = IF m = 0 THEN n ELSE (n + 4) - m
  BY <1>1 DEF Stun!Aligned
<1>4. ASSUME NEW k \in Nat
      PROVE  Stun!Aligned(4 * k + n) = 4 * k + Stun!Aligned(n)
  <2>1. (4 * k + n) % 4 = m
    <3>1. 4 * k + n \in Int /\ k + i \in Int /\ 4 * k + n = (k + i) * 4 + m
      BY <1>1
    <3>2. QED
      BY <3>1, Remainder
  <2>2. QED
    BY <2>1, <1>1, <1>3 DEF Stun!Aligned
<1>5. \E q \in Nat : Stun!Aligned(n) = 4 * q
  <2>1. CASE m = 0
    BY <2>1, <1>1, <1>2, <1>3
  <2>2. CASE m # 0
    <3>1. i + 1 \in Nat /\ Stun!Aligned(n) = 4 * (i + 1)
      BY <2>2, <1>1, <1>2, <1>3
    <3>2. QED
      BY <3>1
  <2>3. QED
    BY <2>1, <2>2
<1>6. QED
  BY <1>1, <1>3, <1>4, <1>5

\* What is known of the attributes of an answer.
Sized(attributes) ==
  /\ Len(attributes) \in Nat
  /\ \A i \in 1 .. Len(attributes) : attributes[i].length \in Nat

\* Where the attributes of an answer start.
LEMMA StartIs ==
  ASSUME NEW a, Sized(a.attributes)
  PROVE  /\ Stun!Start(a, 1) = 20
         /\ \A i \in 1 .. Len(a.attributes) :
              /\ Stun!Start(a, i) \in Nat
              /\ Stun!Start(a, i + 1) =
                   Stun!Start(a, i) + 4 + Stun!Aligned(a.attributes[i].length)
<1> DEFINE n == Len(a.attributes)
           size(i) == 4 + Stun!Aligned(a.attributes[i].length)
           body(start) ==
             [i \in 1 .. n + 1 |->
                IF i = 1 THEN 20
                ELSE start[i - 1] + 4 + Stun!Aligned(a.attributes[i - 1].length)]
           start == CHOOSE s : s = body(s)
<1>1. n \in Nat /\ \A i \in 1 .. n : size(i) \in Nat
  <2>1. \A i \in 1 .. n : a.attributes[i].length \in Nat
    BY DEF Sized
  <2>2. \A i \in 1 .. n : Stun!Aligned(a.attributes[i].length) \in Nat
    BY <2>1, AlignedIs
  <2>3. QED
    BY <2>2 DEF Sized
<1>2. \E s : s = body(s)
  <2> DEFINE step == [i \in 1 .. n |-> [m \in Nat |-> m + size(i)]]
  <2>1. step \in [1 .. n -> [Nat -> Nat]]
    <3> HIDE DEF size
    <3>1. QED
      BY <1>1
  <2>2. \A i \in 1 .. n, m \in Nat : step[i][m] = m + size(i)
    OBVIOUS
  <2> HIDE DEF step
  <2>3. PICK u \in [0 .. n -> Nat] : /\ u[0] = 20
                                    /\ \A i \in 1 .. n : u[i] = step[i][u[i - 1]]
    <3>1. Recursion(Nat, 20, n, step)
      BY <1>1, <2>1, RecursionExists
    <3>2. QED
      BY <3>1 DEF Recursion
  <2> DEFINE s == [i \in 1 .. n + 1 |-> u[i - 1]]
  <2>4. ASSUME NEW i \in 1 .. n + 1, i # 1
        PROVE  s[i] = s[i - 1] + size(i - 1)
    <3>1. i - 1 \in 1 .. n /\ i - 1 \in 1 .. n + 1 /\ (i - 1) - 1 \in 0 .. n
      BY <1>1, <2>4
    <3>2. s[i] = u[i - 1] /\ s[i - 1] = u[(i - 1) - 1] /\ u[(i - 1) - 1] \in Nat
      BY <2>3, <3>1
    <3>3. u[i - 1] = step[i - 1][u[(i - 1) - 1]]
      BY <2>3, <3>1, Zenon
    <3>4. step[i - 1][u[(i - 1) - 1]] = u[(i - 1) - 1] + size(i - 1)
      BY <2>2, <3>1, <3>2, Zenon
    <3>5. QED
      BY <3>2, <3>3, <3>4, Zenon
  <2>5. s[1] = 20
    BY <1>1, <2>3
  <2>6. ASSUME NEW i \in 1 .. n + 1, i # 1
        PROVE  s[i] = s[i - 1] + 4 + Stun!Aligned(a.attributes[i - 1].length)
    <3>1. i - 1 \in 1 .. n /\ i - 1 \in 1 .. n + 1 /\ (i - 1) - 1 \in 0 .. n
      BY <1>1, <2>6
    <3>2. s[i - 1] \in Nat
      BY <2>3, <3>1
    <3>3. Stun!Aligned(a.attributes[i - 1].length) \in Nat
      BY <3>1, AlignedIs DEF Sized
    <3> HIDE DEF s, n
    <3>4. QED
      BY <2>4, <2>6, <3>2, <3>3
  <2>7. s = body(s)
    <3>1. s = [i \in 1 .. n + 1 |-> s[i]]
      OBVIOUS
    <3> HIDE DEF s, size
    <3>2. \A i \in 1 .. n + 1 :
            s[i] = IF i = 1 THEN 20
                   ELSE s[i - 1] + 4 + Stun!Aligned(a.attributes[i - 1].length)
      BY <2>5, <2>6
    <3>3. QED
      BY <3>1, <3>2, Zenon
  <2>8. QED
    BY <2>7
<1>3. start = body(start)
  <2> HIDE DEF body
  <2>1. QED
    BY <1>2
<1>4. \A i : Stun!Start(a, i) = start[i]
  BY DEF Stun!Start
<1> HIDE DEF start
<1>5. start[1] = 20
  BY <1>1, <1>3
<1>6. ASSUME NEW i \in 1 .. n
      PROVE  start[i + 1] = start[i] + 4 + Stun!Aligned(a.attributes[i].length)
  <2>1. i + 1 \in 1 .. n + 1 /\ i + 1 # 1 /\ (i + 1) - 1 = i
    BY <1>1
  <2>2. start[i + 1] = body(start)[i + 1]
    BY <1>3, Zenon
  <2>3. QED
    BY <2>1, <2>2
<1> DEFINE S == {m \in Nat : m < n => start[m + 1] \in Nat}
<1>7. S = Nat
  <2>1. 0 \in S
    BY <1>5
  <2>2. ASSUME NEW m \in S, m + 1 < n
        PROVE  start[(m + 1) + 1] \in Nat
    <3>1. m + 1 \in 1 .. n /\ start[m + 1] \in Nat
      BY <1>1, <2>2
    <3>2. Stun!Aligned(a.attributes[m + 1].length) \in Nat
      BY <3>1, AlignedIs DEF Sized
    <3>3. QED
      BY <1>6, <3>1, <3>2
  <2>3. \A m \in S : m + 1 \in S
    BY <2>2
  <2> HIDE DEF S
  <2>4. S \in SUBSET Nat
    BY DEF S
  <2>5. QED
    BY <2>1, <2>3, <2>4, Induction
<1>8. ASSUME NEW i \in 1 .. n
      PROVE  start[i] \in Nat
  <2>1. i - 1 \in S /\ (i - 1) + 1 = i /\ i - 1 < n
    BY <1>1, <1>7
  <2>2. QED
    BY <2>1
<1>9. QED
  BY <1>4, <1>5, <1>6, <1>8

\* They are multiples of four, one after the other.
LEMMA StartsApart ==
  ASSUME NEW a, Sized(a.attributes), NEW j \in 1 .. Len(a.attributes) + 1
  PROVE  /\ Stun!Start(a, j) \in Nat /\ Stun!Start(a, j) >= 20
         /\ \E q \in Nat : Stun!Start(a, j) = 4 * q
         /\ \A i \in 1 .. j - 1 : Stun!Start(a, i) + 4 <= Stun!Start(a, j)
<1> DEFINE n == Len(a.attributes)
           Apart(m) ==
             /\ Stun!Start(a, m) \in Nat /\ Stun!Start(a, m) >= 20
             /\ \E q \in Nat : Stun!Start(a, m) = 4 * q
             /\ \A i \in 1 .. m - 1 : Stun!Start(a, i) + 4 <= Stun!Start(a, m)
           S == {m \in Nat : m <= n => Apart(m + 1)}
<1>1. n \in Nat
  BY DEF Sized
<1>2. 0 \in S
  <2>1. Stun!Start(a, 1) = 20
    BY StartIs
  <2>2. \E q \in Nat : 20 = 4 * q
    <3>1. 5 \in Nat /\ 20 = 4 * 5
      OBVIOUS
    <3>2. QED
      BY <3>1
  <2>3. 1 .. 1 - 1 = {} /\ 0 + 1 = 1
    OBVIOUS
  <2>4. /\ Stun!Start(a, 1) \in Nat /\ Stun!Start(a, 1) >= 20
        /\ \A i \in 1 .. 1 - 1 : Stun!Start(a, i) + 4 <= Stun!Start(a, 1)
    BY <2>1, <2>3
  <2>5. \E q \in Nat : Stun!Start(a, 1) = 4 * q
    BY <2>1, <2>2, Zenon
  <2>6. Apart(1)
    BY <2>4, <2>5, Zenon
  <2> HIDE DEF Apart
  <2>7. QED
    BY <2>3, <2>6
<1>3. ASSUME NEW m \in S, m + 1 <= n
      PROVE  Apart((m + 1) + 1)
  <2>1. m \in Nat /\ m + 1 \in 1 .. n /\ Apart(m + 1)
    BY <1>1, <1>3
  <2> HIDE DEF S
  <2> DEFINE k == m + 1
             size == Stun!Aligned(a.attributes[k].length)
  <2>2. k \in 1 .. n /\ Apart(k)
    BY <2>1
  <2>3. size \in Nat /\ \E q \in Nat : size = 4 * q
    <3>1. a.attributes[k].length \in Nat
      BY <2>2 DEF Sized
    <3>2. QED
      BY <3>1, AlignedIs
  <2>4. Stun!Start(a, k + 1) = Stun!Start(a, k) + 4 + size
    BY <2>2, StartIs
  <2> HIDE DEF k, size
  <2>5. Stun!Start(a, k + 1) \in Nat /\ Stun!Start(a, k + 1) >= 20
    BY <2>2, <2>3, <2>4, SMTT(30)
  <2>6. \E q \in Nat : Stun!Start(a, k + 1) = 4 * q
    <3>1. PICK q1 \in Nat : Stun!Start(a, k) = 4 * q1
      BY <2>2
    <3>2. PICK q2 \in Nat : size = 4 * q2
      BY <2>3
    <3>3. q1 + 1 + q2 \in Nat /\ Stun!Start(a, k + 1) = 4 * (q1 + 1 + q2)
      BY <2>4, <3>1, <3>2
    <3>4. QED
      BY <3>3
  <2>7. ASSUME NEW i \in 1 .. (k + 1) - 1
        PROVE  Stun!Start(a, i) + 4 <= Stun!Start(a, k + 1)
    <3>1. CASE i = k
      BY <2>2, <2>3, <2>4, <3>1
    <3>2. CASE i # k
      <4>1. i \in 1 .. k - 1 /\ i \in 1 .. n
        BY <1>1, <2>2, <3>2
      <4>2. Stun!Start(a, i) + 4 <= Stun!Start(a, k) /\ Stun!Start(a, i) \in Nat
        BY <2>2, <4>1, StartIs
      <4>3. QED
        BY <2>2, <2>3, <2>4, <4>2
    <3>3. QED
      BY <3>1, <3>2
  <2>8. QED
    BY <2>5, <2>6, <2>7 DEF k
<1>4. S = Nat
  <2> HIDE DEF Apart
  <2>1. \A m \in S : m + 1 \in S
    BY <1>3
  <2> HIDE DEF S
  <2>2. S \in SUBSET Nat
    BY DEF S
  <2>3. QED
    BY <1>2, <2>1, <2>2, Induction
<1>5. j - 1 \in Nat /\ j - 1 <= n /\ (j - 1) + 1 = j
  BY <1>1
<1>6. Apart(j)
  <2> HIDE DEF Apart
  <2>1. QED
    BY <1>4, <1>5
<1>7. QED
  BY <1>6

\* What the walk does at an offset.
WalkFrom(a, found, offset) ==
  IF offset + 4 > Stun!Size(a) THEN Stun!NoAddress
  ELSE LET starting == {i \in DOMAIN a.attributes : Stun!Start(a, i) = offset}
       IN  IF starting = {} THEN Stun!NoAddress
           ELSE LET at == a.attributes[CHOOSE i \in starting : TRUE]
                IN  IF Stun!IsAddress(at) THEN [success |-> TRUE, value |-> at.value]
                    ELSE found[Stun!NextOffset(offset, at.length)]

Offsets(a) == 20 .. Stun!Size(a) + 64

\* At an attribute it finds its address or goes on to the next attribute.
LEMMA WalkStep ==
  ASSUME NEW a, Sized(a.attributes), DOMAIN a.attributes = 1 .. Len(a.attributes),
         NEW i \in 1 .. Len(a.attributes), NEW found
  PROVE  /\ Stun!Start(a, i) \in Offsets(a) /\ Stun!Start(a, i + 1) \in Offsets(a)
         /\ WalkFrom(a, found, Stun!Start(a, i)) =
              IF Stun!IsAddress(a.attributes[i])
              THEN [success |-> TRUE, value |-> a.attributes[i].value]
              ELSE found[Stun!Start(a, i + 1)]
<1> DEFINE n == Len(a.attributes)
           starting == {k \in DOMAIN a.attributes : Stun!Start(a, k) = Stun!Start(a, i)}
<1>1. n \in Nat /\ \A k \in 1 .. n : a.attributes[k].length \in Nat
  BY DEF Sized
<1>2. i \in 1 .. n + 1 /\ i + 1 \in 1 .. n + 1 /\ n + 1 \in 1 .. n + 1
  BY <1>1
<1>3. /\ \A k \in 1 .. n + 1 : Stun!Start(a, k) \in Nat /\ Stun!Start(a, k) >= 20
      /\ \A k \in 1 .. n + 1 : \A l \in 1 .. k - 1 : Stun!Start(a, l) + 4 <= Stun!Start(a, k)
  BY StartsApart
<1>4. /\ Stun!Size(a) = Stun!Start(a, n + 1)
      /\ Stun!Start(a, i) + 4 <= Stun!Size(a) /\ Stun!Start(a, i + 1) <= Stun!Size(a)
  <2>1. Stun!Size(a) = Stun!Start(a, n + 1)
    BY DEF Stun!Size
  <2>2. i \in 1 .. (n + 1) - 1
    BY <1>1
  <2>3. Stun!Start(a, i) + 4 <= Stun!Size(a)
    BY <2>1, <2>2, <1>2, <1>3
  <2>4. CASE i = n
    BY <1>2, <1>3, <2>1, <2>4
  <2>5. CASE i # n
    <3>1. i + 1 \in 1 .. (n + 1) - 1
      BY <1>1, <2>5
    <3>2. QED
      BY <3>1, <2>1, <1>2, <1>3, SMTT(30)
  <2>6. QED
    BY <2>1, <2>3, <2>4, <2>5
<1>5. Stun!Start(a, i) \in Offsets(a) /\ Stun!Start(a, i + 1) \in Offsets(a)
  <2>1. /\ Stun!Start(a, i) \in Nat /\ Stun!Start(a, i) >= 20
        /\ Stun!Start(a, i + 1) \in Nat /\ Stun!Start(a, i + 1) >= 20
        /\ Stun!Size(a) \in Nat
    BY <1>2, <1>3, <1>4
  <2>2. QED
    BY <2>1, <1>4 DEF Offsets
<1>6. starting = {i}
  <2>1. ASSUME NEW k \in 1 .. n, k # i
        PROVE  Stun!Start(a, k) # Stun!Start(a, i)
    <3>1. k \in 1 .. n + 1 /\ (k \in 1 .. i - 1 \/ i \in 1 .. k - 1)
      BY <1>1, <2>1
    <3>2. QED
      BY <3>1, <1>2, <1>3
  <2>2. QED
    BY <2>1
<1>7. (CHOOSE k \in starting : TRUE) = i
  BY <1>6
<1>8. Stun!NextOffset(Stun!Start(a, i), a.attributes[i].length) = Stun!Start(a, i + 1)
  <2>1. PICK q \in Nat : Stun!Start(a, i) = 4 * q
    BY <1>2, StartsApart
  <2> DEFINE len == a.attributes[i].length
  <2>2. len \in Nat /\ q + 1 \in Nat /\ Stun!Start(a, i) + 4 + len = 4 * (q + 1) + len
    BY <1>1, <2>1
  <2>3. Stun!Aligned(4 * (q + 1) + len) = 4 * (q + 1) + Stun!Aligned(len)
    BY <2>2, AlignedIs
  <2>4. Stun!Start(a, i + 1) = Stun!Start(a, i) + 4 + Stun!Aligned(len)
    BY StartIs
  <2>5. Stun!Aligned(len) \in Nat
    BY <2>2, AlignedIs
  <2>6. Stun!NextOffset(Stun!Start(a, i), len) = Stun!Aligned(Stun!Start(a, i) + 4 + len)
    BY DEF Stun!NextOffset
  <2> HIDE DEF len
  <2>7. QED
    BY <2>1, <2>2, <2>3, <2>4, <2>5, <2>6 DEF len
<1>9. ~(Stun!Start(a, i) + 4 > Stun!Size(a))
  <2>1. Stun!Size(a) \in Nat /\ Stun!Start(a, i) \in Nat
    BY <1>2, <1>3, <1>4
  <2>2. QED
    BY <2>1, <1>4
<1>10. WalkFrom(a, found, Stun!Start(a, i)) =
         IF Stun!IsAddress(a.attributes[i])
         THEN [success |-> TRUE, value |-> a.attributes[i].value]
         ELSE found[Stun!NextOffset(Stun!Start(a, i), a.attributes[i].length)]
  <2>1. starting # {}
    BY <1>6
  <2> DEFINE at == a.attributes[CHOOSE k \in starting : TRUE]
  <2>2. WalkFrom(a, found, Stun!Start(a, i)) =
          IF Stun!IsAddress(at) THEN [success |-> TRUE, value |-> at.value]
          ELSE found[Stun!NextOffset(Stun!Start(a, i), at.length)]
    BY <1>9, <2>1, Zenon DEF WalkFrom
  <2>3. at = a.attributes[i]
    BY <1>7, Zenon
  <2> HIDE DEF at
  <2>4. QED
    BY <2>2, <2>3
<1>11. QED
  BY <1>5, <1>8, <1>10, Zenon

\* Where no attribute starts it ends.
LEMMA WalkEnd ==
  ASSUME NEW a, NEW found, NEW offset,
         \A i \in DOMAIN a.attributes : Stun!Start(a, i) # offset
  PROVE  WalkFrom(a, found, offset) = Stun!NoAddress
<1>1. {i \in DOMAIN a.attributes : Stun!Start(a, i) = offset} = {}
  OBVIOUS
<1>2. QED
  BY <1>1, Zenon DEF WalkFrom

\* The address the walk is to find from the i-th attribute on.
Later(a, i) == {j \in i .. Len(a.attributes) : Stun!IsAddress(a.attributes[j])}
FirstOf(X)  == CHOOSE j \in X : \A k \in X : j <= k
Found(a, i) ==
  IF Later(a, i) = {} THEN Stun!NoAddress
  ELSE [success |-> TRUE, value |-> a.attributes[FirstOf(Later(a, i))].value]

\* The first number of a set of numbers.
LEMMA FirstIs ==
  ASSUME NEW X \in SUBSET Nat, NEW j \in X, \A k \in X : j <= k
  PROVE  FirstOf(X) = j
<1>1. \A i \in X : (\A k \in X : i <= k) => i = j
  OBVIOUS
<1>2. QED
  BY <1>1 DEF FirstOf

LEMMA FoundStep ==
  ASSUME NEW a, Sized(a.attributes), NEW i \in 1 .. Len(a.attributes)
  PROVE  Found(a, i) = IF Stun!IsAddress(a.attributes[i])
                       THEN [success |-> TRUE, value |-> a.attributes[i].value]
                       ELSE Found(a, i + 1)
<1>1. Len(a.attributes) \in Nat
  BY DEF Sized
<1>2. i .. Len(a.attributes) = {i} \cup (i + 1 .. Len(a.attributes))
  BY <1>1
<1>3. CASE Stun!IsAddress(a.attributes[i])
  <2>1. /\ i \in Later(a, i) /\ \A k \in Later(a, i) : i <= k
        /\ Later(a, i) \in SUBSET Nat
    BY <1>1, <1>3 DEF Later
  <2>2. FirstOf(Later(a, i)) = i
    BY <2>1, FirstIs
  <2>3. QED
    BY <1>3, <2>1, <2>2 DEF Found
<1>4. CASE ~Stun!IsAddress(a.attributes[i])
  <2>1. Later(a, i) = Later(a, i + 1)
    BY <1>2, <1>4, Zenon DEF Later
  <2>2. QED
    BY <1>4, <2>1 DEF Found
<1>5. QED
  BY <1>3, <1>4

\* The walk finds the first address of an answer, if it has one.
LEMMA WalkFinds ==
  ASSUME NEW a, Sized(a.attributes), DOMAIN a.attributes = 1 .. Len(a.attributes)
  PROVE  Stun!Walk(a) = Found(a, 1)
<1> DEFINE n == Len(a.attributes)
           body(found) == [offset \in Offsets(a) |-> WalkFrom(a, found, offset)]
           walk == CHOOSE found : found = body(found)
           startAt(offset) == CHOOSE i \in 1 .. n : Stun!Start(a, i) = offset
           w == [offset \in Offsets(a) |->
                   IF \E i \in 1 .. n : Stun!Start(a, i) = offset
                   THEN Found(a, startAt(offset)) ELSE Stun!NoAddress]
<1>1. n \in Nat
  BY DEF Sized
<1>2. /\ \A k \in 1 .. n + 1 : Stun!Start(a, k) \in Nat
      /\ \A k \in 1 .. n + 1 : \A l \in 1 .. k - 1 : Stun!Start(a, l) + 4 <= Stun!Start(a, k)
  BY StartsApart
<1>3. ASSUME NEW k \in 1 .. n + 1, NEW l \in 1 .. n + 1, k # l
      PROVE  Stun!Start(a, k) # Stun!Start(a, l)
  <2>1. k \in 1 .. l - 1 \/ l \in 1 .. k - 1
    BY <1>1, <1>3
  <2>2. QED
    BY <2>1, <1>2
<1>4. Found(a, n + 1) = Stun!NoAddress
  <2>1. n + 1 .. n = {}
    BY <1>1
  <2>2. Later(a, n + 1) = {}
    BY <2>1 DEF Later
  <2>3. QED
    BY <2>2 DEF Found
<1>5. \A i \in 1 .. n : Stun!Start(a, i) \in Offsets(a) /\ Stun!Start(a, i + 1) \in Offsets(a)
  BY WalkStep
<1>6. ASSUME NEW k \in 1 .. n + 1, Stun!Start(a, k) \in Offsets(a)
      PROVE  w[Stun!Start(a, k)] = Found(a, k)
  <2>1. CASE k \in 1 .. n
    <3>1. \A i \in 1 .. n : Stun!Start(a, i) = Stun!Start(a, k) => i = k
      BY <1>1, <1>3, <1>6
    <3>2. startAt(Stun!Start(a, k)) = k
      BY <2>1, <3>1
    <3> HIDE DEF startAt
    <3>3. QED
      BY <1>6, <2>1, <3>2
  <2>2. CASE k = n + 1
    <3>1. \A i \in 1 .. n : Stun!Start(a, i) # Stun!Start(a, k)
      <4>1. TAKE i \in 1 .. n
      <4>2. i \in 1 .. n + 1 /\ i # k
        BY <1>1, <2>2
      <4>3. QED
        BY <4>2, <1>3
    <3>2. w[Stun!Start(a, k)] = Stun!NoAddress
      BY <1>6, <3>1
    <3>3. QED
      BY <3>2, <1>4, <2>2
  <2>3. QED
    BY <2>1, <2>2, <1>1
<1>7. ASSUME NEW offset \in Offsets(a)
      PROVE  w[offset] = WalkFrom(a, w, offset)
  <2>1. CASE \E i \in 1 .. n : Stun!Start(a, i) = offset
    <3>1. PICK i \in 1 .. n : Stun!Start(a, i) = offset
      BY <2>1
    <3>2. i \in 1 .. n + 1 /\ i + 1 \in 1 .. n + 1
      BY <1>1
    <3>3. w[offset] = Found(a, i) /\ w[Stun!Start(a, i + 1)] = Found(a, i + 1)
      <4> HIDE DEF w
      <4>1. QED
        BY <1>5, <1>6, <3>1, <3>2
    <3> HIDE DEF w, n
    <3>4. WalkFrom(a, w, offset) = IF Stun!IsAddress(a.attributes[i])
                                   THEN [success |-> TRUE, value |-> a.attributes[i].value]
                                   ELSE w[Stun!Start(a, i + 1)]
      BY <3>1, WalkStep DEF n
    <3>5. Found(a, i) = IF Stun!IsAddress(a.attributes[i])
                        THEN [success |-> TRUE, value |-> a.attributes[i].value]
                        ELSE Found(a, i + 1)
      BY FoundStep DEF n
    <3>6. QED
      BY <3>3, <3>4, <3>5
  <2>2. CASE ~ \E i \in 1 .. n : Stun!Start(a, i) = offset
    <3>1. w[offset] = Stun!NoAddress
      BY <2>2
    <3> HIDE DEF w
    <3>2. \A i \in DOMAIN a.attributes : Stun!Start(a, i) # offset
      BY <2>2
    <3>3. WalkFrom(a, w, offset) = Stun!NoAddress
      BY <3>2, WalkEnd
    <3>4. QED
      BY <3>1, <3>3
  <2>3. QED
    BY <2>1, <2>2
<1>8. w = body(w)
  <2>1. w = [offset \in Offsets(a) |-> w[offset]]
    OBVIOUS
  <2> HIDE DEF w
  <2>2. QED
    BY <2>1, <1>7, Zenon
<1>9. walk = body(walk)
  <2> HIDE DEF w, body
  <2>1. QED
    BY <1>8
<1>10. Stun!Walk(a) = walk[20]
  BY Zenon DEF Stun!Walk, WalkFrom, Offsets
<1> HIDE DEF walk, w
<1>11. ASSUME NEW i \in 1 .. n
       PROVE  walk[Stun!Start(a, i)] = IF Stun!IsAddress(a.attributes[i])
                                       THEN [success |-> TRUE, value |-> a.attributes[i].value]
                                       ELSE walk[Stun!Start(a, i + 1)]
  <2>1. walk[Stun!Start(a, i)] = WalkFrom(a, walk, Stun!Start(a, i))
    <3>1. walk[Stun!Start(a, i)] = body(walk)[Stun!Start(a, i)]
      BY <1>9, Zenon
    <3>2. QED
      BY <3>1, <1>5
  <2>2. QED
    BY <2>1, WalkStep
<1>12. Stun!Start(a, n + 1) \in Offsets(a)
  <2>1. Stun!Size(a) = Stun!Start(a, n + 1) /\ n + 1 \in 1 .. n + 1
    BY <1>1 DEF Stun!Size
  <2>2. Stun!Start(a, n + 1) \in Nat /\ Stun!Start(a, n + 1) >= 20
    BY <2>1, StartsApart
  <2>3. QED
    BY <2>1, <2>2 DEF Offsets
<1>13. walk[Stun!Start(a, n + 1)] = Stun!NoAddress
  <2>1. \A i \in DOMAIN a.attributes : Stun!Start(a, i) # Stun!Start(a, n + 1)
    <3>1. TAKE i \in DOMAIN a.attributes
    <3>2. i \in 1 .. n + 1 /\ n + 1 \in 1 .. n + 1 /\ i # n + 1
      BY <1>1
    <3>3. QED
      BY <3>2, <1>3
  <2>2. WalkFrom(a, walk, Stun!Start(a, n + 1)) = Stun!NoAddress
    BY <2>1, WalkEnd
  <2>3. walk[Stun!Start(a, n + 1)] = body(walk)[Stun!Start(a, n + 1)]
    BY <1>9, Zenon
  <2>4. QED
    BY <2>2, <2>3, <1>12
<1> DEFINE Walked(m) == walk[Stun!Start(a, n + 1 - m)] = Found(a, n + 1 - m)
           S == {m \in Nat : m <= n => Walked(m)}
<1>14. S = Nat
  <2>1. 0 \in S
    <3>1. n + 1 - 0 = n + 1
      BY <1>1
    <3>2. QED
      BY <3>1, <1>4, <1>13
  <2>2. ASSUME NEW m \in S, m + 1 <= n
        PROVE  Walked(m + 1)
    <3> DEFINE i == n - m
    <3> HIDE DEF Walked
    <3>1. m \in Nat /\ Walked(m)
      BY <1>1, <2>2
    <3> HIDE DEF S, n
    <3>2. i \in 1 .. n /\ n + 1 - (m + 1) = i /\ n + 1 - m = i + 1
      BY <1>1, <2>2, <3>1
    <3>3. walk[Stun!Start(a, i + 1)] = Found(a, i + 1)
      BY <3>1, <3>2 DEF Walked
    <3> HIDE DEF i
    <3>4. Found(a, i) = IF Stun!IsAddress(a.attributes[i])
                        THEN [success |-> TRUE, value |-> a.attributes[i].value]
                        ELSE Found(a, i + 1)
      BY <3>2, FoundStep DEF n
    <3>5. walk[Stun!Start(a, i)] = Found(a, i)
      BY <1>11, <3>2, <3>3, <3>4
    <3>6. QED
      BY <3>2, <3>5 DEF Walked
  <2> HIDE DEF Walked
  <2>3. \A m \in S : m + 1 \in S
    BY <2>2
  <2> HIDE DEF S
  <2>4. S \in SUBSET Nat
    BY DEF S
  <2>5. QED
    BY <2>1, <2>3, <2>4, Induction
<1>15. n \in S /\ n <= n /\ n + 1 - n = 1
  BY <1>1, <1>14
<1>16. walk[Stun!Start(a, 1)] = Found(a, 1)
  BY <1>15
<1>17. QED
  BY <1>10, <1>16, StartIs

-----------------------------------------------------------------------------
\* The one socket of a request under way.
SocketInv ==
  /\ made \in Nat
  /\ pc \in {"idle", "create"} => open = {} /\ sock = -1
  /\ pc \in {"send", "receive"} => /\ made > 0 /\ sock = made
                                 /\ \E n : open = {[fd |-> made, port |-> n]}

StunInv == part = "stun" => SocketInv

LEMMA StunInit == Init => StunInv
<1> SUFFICES ASSUME Init, part = "stun"
             PROVE  SocketInv
  BY DEF StunInv
<1>1. Stun!Init
  BY DEF Init
<1>2. QED
  BY <1>1 DEF Stun!Init, SocketInv

LEMMA StunStep == StunInv /\ [Next]_vars => StunInv'
<1> SUFFICES ASSUME StunInv, [Next]_vars, part' = "stun"
             PROVE  SocketInv'
  BY DEF StunInv
<1>1. part = "stun" /\ (Stun!Next \/ UNCHANGED stunVars)
  BY OnePart
<1>2. SocketInv
  BY <1>1 DEF StunInv
<1>3. CASE UNCHANGED stunVars
  BY <1>2, <1>3 DEF stunVars, SocketInv
<1>4. ASSUME NEW port \in LocalPorts, Stun!SetLocalPort(port)
      PROVE  SocketInv'
  BY <1>2, <1>4 DEF Stun!SetLocalPort, SocketInv
<1>5. ASSUME NEW servers, Stun!PerformMultipleRequests(servers)
      PROVE  SocketInv'
  BY <1>2, <1>5 DEF Stun!PerformMultipleRequests, SocketInv
<1>6. CASE Stun!CreateSocket
  <2>1. pc = "create" /\ made' = made + 1 /\ open = {} /\ made \in Nat
    BY <1>2, <1>6 DEF Stun!CreateSocket, SocketInv
  <2>2. ASSUME NEW port, sock' = made + 1, pc' = "send",
               open' = open \cup {[fd |-> made + 1, port |-> port]}
        PROVE  SocketInv'
    BY <2>1, <2>2 DEF SocketInv
  <2>3. CASE sock' = -1 /\ open' = open /\ Stun!Returns(Stun!NoAddress, "nobody", <<>>)
    <3>1. pc' \in {"idle", "create"}
      BY <2>3 DEF Stun!Returns
    <3>2. QED
      BY <2>1, <2>3, <3>1 DEF SocketInv
  <2>4. QED
    BY <1>6, <2>2, <2>3 DEF Stun!CreateSocket
<1>7. ASSUME pc \in {"send", "receive"}, Stun!Closed, made' = made, NEW r1, NEW answerer,
             NEW answer, Stun!Returns(r1, answerer, answer)
      PROVE  SocketInv'
  <2>1. pc' \in {"idle", "create"}
    BY <1>7 DEF Stun!Returns
  <2>2. sock' = -1 /\ open' = {}
    BY <1>2, <1>7 DEF Stun!Closed, SocketInv
  <2>3. QED
    BY <1>2, <1>7, <2>1, <2>2 DEF SocketInv
<1>8. CASE Stun!SendRequest
  <2>1. pc = "send" /\ made' = made
    BY <1>8 DEF Stun!SendRequest
  <2>2. CASE Stun!Closed /\ Stun!Returns(Stun!NoAddress, "nobody", <<>>)
    BY <2>1, <2>2, <1>7
  <2>3. CASE pc' = "receive" /\ UNCHANGED <<sock, open>>
    BY <1>2, <2>1, <2>3 DEF SocketInv
  <2>4. QED
    BY <1>8, <2>2, <2>3 DEF Stun!SendRequest
<1>9. CASE Stun!Receive
  <2>1. pc = "receive" /\ made' = made /\ Stun!Closed
    BY <1>9 DEF Stun!Receive
  <2>2. ASSUME NEW m \in net, Stun!Returns(Stun!Parse(m.answer), m.from, m.answer)
        PROVE  SocketInv'
    BY <1>7, <2>1, <2>2
  <2>3. CASE Stun!Returns(Stun!NoAddress, "nobody", <<>>)
    BY <1>7, <2>1, <2>3
  <2>4. QED
    BY <1>9, <2>2, <2>3 DEF Stun!Receive
<1>10. QED
  BY <1>1, <1>3, <1>4, <1>5, <1>6, <1>8, <1>9 DEF Stun!Next

-----------------------------------------------------------------------------
\* What parseSTUNResponse makes of an answer: its first IPv4 address.
IsFound(answer, success, value) ==
  LET attributes == answer.attributes
      addresses  == {j \in DOMAIN attributes : Stun!IsAddress(attributes[j])}
  IN  /\ success <=> addresses # {}
      /\ \A j \in addresses :
           (\A k \in addresses : j <= k) => value = attributes[j].value

LEMMA SequencesOf ==
  ASSUME NEW S, NEW n \in Nat, NEW s \in Stun!SeqOf(S, n)
  PROVE  /\ s \in Seq(S) /\ Len(s) \in 0 .. n /\ DOMAIN s = 1 .. Len(s)
         /\ \A i \in 1 .. Len(s) : s[i] \in S
<1>1. PICK m \in 0 .. n : s \in [1 .. m -> S]
  BY DEF Stun!SeqOf
<1>2. s \in Seq(S)
  BY <1>1
<1>3. Len(s) = m
  BY <1>1, <1>2
<1>4. QED
  BY <1>1, <1>2, <1>3

LEMMA ParseIsRight ==
  ASSUME NEW a \in Stun!Answer
  PROVE  /\ Stun!Parse(a).value \in Stun!Endpoints
         /\ IsFound(a, Stun!Parse(a).success, Stun!Parse(a).value)
<1> DEFINE s == a.attributes
           n == Len(s)
           addresses == {j \in DOMAIN s : Stun!IsAddress(s[j])}
<1>1. Stun!NoAddress.success = FALSE /\ Stun!NoAddress.value = 0 /\ 0 \in Stun!Endpoints
  BY DEF Stun!NoAddress, Stun!Endpoints
<1>2. Device \in 0 .. 3 /\ Lengths \subseteq Nat /\ MaxAttributes \in Nat
  BY PartsAssumption DEF Stun!DeviceAssumption
<1>3. CASE a.kind # "response"
  <2>1. s = <<>>
    BY <1>3 DEF Stun!Answer
  <2>2. addresses = {}
    BY <2>1
  <2>3. Stun!Parse(a) = Stun!NoAddress
    BY <1>3 DEF Stun!Parse
  <2>4. QED
    BY <1>1, <2>2, <2>3 DEF IsFound
<1>4. CASE a.kind = "response"
  <2>1. s \in Stun!SeqOf(Stun!Attribute, MaxAttributes)
    BY <1>4 DEF Stun!Answer
  <2>2. /\ n \in Nat /\ DOMAIN s = 1 .. n
        /\ \A i \in 1 .. n : s[i] \in Stun!Attribute
    <3> HIDE DEF s
    <3>1. QED
      BY <2>1, <1>2, SequencesOf
  <2>3. \A i \in 1 .. n : s[i].length \in Nat /\ s[i].value \in Stun!Endpoints
    <3>1. TAKE i \in 1 .. n
    <3> DEFINE t == s[i]
    <3>2. t \in Stun!Attribute
      BY <2>2
    <3> HIDE DEF t
    <3>3. t.length \in Nat /\ t.value \in Stun!Endpoints
      BY <1>2, <3>2 DEF Stun!Attribute, Stun!Endpoints, Stun!Xored
    <3>4. QED
      BY <3>3 DEF t
  <2>4. Stun!Parse(a) = Found(a, 1)
    <3>1. Sized(a.attributes)
      BY <2>2, <2>3 DEF Sized
    <3>2. Stun!Walk(a) = Found(a, 1)
      BY <2>2, <3>1, WalkFinds
    <3>3. QED
      BY <1>4, <3>2 DEF Stun!Parse
  <2>5. Later(a, 1) = addresses
    BY <2>2 DEF Later
  <2>6. CASE addresses = {}
    <3>1. Found(a, 1) = Stun!NoAddress
      BY <2>5, <2>6 DEF Found
    <3>2. QED
      BY <1>1, <2>4, <2>6, <3>1 DEF IsFound
  <2>7. CASE addresses # {}
    <3>1. addresses \in SUBSET Nat
      BY <2>2
    <3>2. PICK j \in addresses : \A k \in addresses : j <= k
      <4> HIDE DEF addresses
      <4>1. QED
        BY <2>7, <3>1, LeastNatural
    <3>3. FirstOf(addresses) = j
      <4> HIDE DEF addresses
      <4>1. QED
        BY <3>1, <3>2, FirstIs
    <3>4. Found(a, 1) = [success |-> TRUE, value |-> s[j].value]
      BY <2>5, <2>7, <3>3 DEF Found
    <3>5. j \in 1 .. n
      BY <2>2, <3>2
    <3>6. \A i \in addresses : (\A k \in addresses : i <= k) => i = j
      <4>1. \A i \in addresses : i \in Nat
        BY <3>1
      <4> HIDE DEF addresses
      <4>2. QED
        BY <3>2, <4>1
    <3>7. Stun!Parse(a).success = TRUE /\ Stun!Parse(a).value = s[j].value
      BY <2>4, <3>4
    <3>8. s[j].value \in Stun!Endpoints
      BY <2>3, <3>5
    <3>9. IsFound(a, TRUE, s[j].value)
      BY <2>7, <3>6, Zenon DEF IsFound
    <3>10. QED
      BY <3>7, <3>8, <3>9
  <2>8. QED
    BY <2>6, <2>7
<1>5. QED
  BY <1>3, <1>4

-----------------------------------------------------------------------------
\* The address of a MAPPED attribute.
LEMMA MappedIsDevice ==
  ASSUME NEW a \in Stun!Answer, NEW j \in DOMAIN a.attributes,
         a.attributes[j].type = "mapped"
  PROVE  a.attributes[j].value = Device
<1>1. a.attributes \in Stun!SeqOf(Stun!Attribute, MaxAttributes) \/ a.attributes = <<>>
  BY DEF Stun!Answer
<1>2. MaxAttributes \in Nat
  BY PartsAssumption DEF Stun!DeviceAssumption
<1>3. a.attributes[j] \in Stun!Attribute
  <2>1. a.attributes # <<>>
    OBVIOUS
  <2>2. QED
    BY <1>1, <1>2, <2>1, SequencesOf
<1>4. QED
  BY <1>3 DEF Stun!Attribute

\* A result that is kept.
IsRight(e) ==
  /\ e.asked \in Servers /\ e.value \in Stun!Endpoints
  /\ e.answerer # "nobody" =>
       e.answer \in Stun!Answer /\ IsFound(e.answer, e.success, e.value)

\* A request for every result, the one under way included, and a server to ask
\* for every request to come.
AskedInv ==
  /\ localPort \in LocalPorts
  /\ stunServer \in Servers \cup {""} /\ (pc # "idle" => stunServer \in Servers)
  /\ pc \in {"idle", "create", "send", "receive"}
  /\ todo \in Seq(Servers) /\ (pc = "idle" <=> todo = <<>>)
  /\ \E S : results \in Seq(S)
  /\ Len(todo) + Len(results) <= MaxRequests
  /\ made = IF pc \in {"idle", "create"} THEN Len(results) ELSE Len(results) + 1
  /\ \A m \in net : m.answer \in Stun!Answer
  /\ \A i \in DOMAIN results : IsRight(results[i])

LEMMA AskedInit == ASSUME Stun!Init PROVE AskedInv
<1>1. /\ localPort \in LocalPorts /\ stunServer = "" /\ pc = "idle" /\ todo = <<>>
      /\ results = <<>> /\ made = 0 /\ net = {}
  BY DEF Stun!Init
<1>2. MaxRequests \in Nat
  BY PartsAssumption DEF Stun!DeviceAssumption
<1>3. <<>> \in Seq({}) /\ <<>> \in Seq(Servers) /\ Len(<<>>) = 0 /\ DOMAIN <<>> = {}
  OBVIOUS
<1>4. \E S : results \in Seq(S)
  BY <1>1, <1>3
<1>5. Len(todo) + Len(results) <= MaxRequests /\ made = Len(results)
  <2>1. Len(todo) = 0 /\ Len(results) = 0
    BY <1>1, <1>3, Zenon
  <2>2. made = Len(results)
    BY <1>1, <2>1, Zenon
  <2>3. 0 + 0 <= MaxRequests
    BY <1>2
  <2>4. QED
    BY <2>1, <2>2, <2>3, Zenon
<1>6. \A i \in DOMAIN results : IsRight(results[i])
  BY <1>1, <1>3
<1>7. \A m \in net : m.answer \in Stun!Answer
  BY <1>1
<1>8. QED
  BY <1>1, <1>3, <1>4, <1>5, <1>6, <1>7, Zenon DEF AskedInv

LEMMA AskedCounts ==
  ASSUME AskedInv
  PROVE  /\ todo \in Seq(Servers) /\ Len(todo) \in Nat
         /\ todo # <<>> => Len(todo) > 0
         /\ Len(results) \in Nat /\ Len(todo) + Len(results) <= MaxRequests
<1>1. /\ todo \in Seq(Servers) /\ Len(todo) + Len(results) <= MaxRequests
      /\ \E S : results \in Seq(S)
  BY Zenon DEF AskedInv
<1>2. PICK S : results \in Seq(S)
  BY <1>1, Zenon
<1>3. Len(results) \in Nat
  BY <1>2, LenProperties
<1>4. Len(todo) \in Nat /\ (todo # <<>> => Len(todo) > 0)
  BY <1>1, EmptySeq, LenProperties
<1>5. QED
  BY <1>1, <1>3, <1>4

\* What is left of a sequence.
LEMMA Rest ==
  ASSUME NEW S, NEW s \in Seq(S), s # <<>>
  PROVE  /\ Len(s) \in Nat /\ Len(s) > 0
         /\ Tail(s) \in Seq(S) /\ Len(Tail(s)) = Len(s) - 1
         /\ Len(s) = 1 <=> Tail(s) = <<>>
         /\ Len(s) # 1 => s[2] \in S
<1>1. Len(s) \in Nat /\ Len(s) > 0
  BY EmptySeq
<1>2. Tail(s) \in Seq(S) /\ Len(Tail(s)) = Len(s) - 1
  BY HeadTailProperties
<1>3. Tail(s) # <<>> => Len(Tail(s)) \in Nat \ {0}
  BY <1>2, EmptySeq
<1>4. Tail(s) = <<>> => Len(Tail(s)) = 0
  BY EmptySeq
<1>5. Len(s) = 1 <=> Tail(s) = <<>>
  BY <1>1, <1>2, <1>3, <1>4
<1>6. Len(s) # 1 => s[2] \in S
  <2>1. ASSUME NEW n \in Nat, n > 0, n # 1
        PROVE  2 \in 1 .. n
    BY <2>1
  <2>2. Len(s) # 1 => 2 \in 1 .. Len(s)
    BY <1>1, <2>1, Zenon
  <2>3. QED
    BY <2>2, ElementOfSeq
<1>7. QED
  BY <1>1, <1>2, <1>5, <1>6

\* A request returns.
LEMMA ReturnsKeep ==
  ASSUME AskedInv, pc # "idle", NEW r1, NEW answerer, NEW answer,
         Stun!Returns(r1, answerer, answer), localPort' = localPort,
         made' = Len(results) + 1, net' \subseteq net, r1.value \in Stun!Endpoints,
         answerer # "nobody" =>
           answer \in Stun!Answer /\ IsFound(answer, r1.success, r1.value)
  PROVE  AskedInv'
<1> DEFINE e == [asked |-> stunServer, success |-> r1.success, value |-> r1.value,
                 answerer |-> answerer, answer |-> answer]
<1>1. /\ results' = Append(results, e) /\ todo' = Tail(todo)
      /\ pc' = IF Len(todo) = 1 THEN "idle" ELSE "create"
      /\ stunServer' = IF Len(todo) = 1 THEN stunServer ELSE todo[2]
  BY DEF Stun!Returns, Stun!Left
<1>2. IsRight(e)
  BY DEF IsRight, AskedInv
<1> HIDE DEF e
<1>3. PICK S : results \in Seq(S)
  BY DEF AskedInv
<1>4. results \in Seq(S \cup {e})
  BY <1>3, SeqMonotonic
<1>5. /\ results' \in Seq(S \cup {e}) /\ Len(results') = Len(results) + 1
      /\ Len(results) \in Nat
      /\ \A i \in 1 .. Len(results) : results'[i] = results[i]
      /\ results'[Len(results) + 1] = e
  BY <1>1, <1>4
<1>6. \A i \in DOMAIN results' : IsRight(results'[i])
  <2>1. TAKE i \in DOMAIN results'
  <2>2. i \in 1 .. Len(results) + 1
    BY <1>5
  <2>3. CASE i \in 1 .. Len(results)
    <3>1. i \in DOMAIN results
      BY <1>3, <2>3, LenProperties
    <3>2. IsRight(results[i])
      BY <3>1, Zenon DEF AskedInv
    <3>3. QED
      BY <3>2, <1>5, <2>3
  <2>4. CASE i = Len(results) + 1
    BY <1>2, <1>5, <2>4
  <2>5. QED
    BY <2>2, <2>3, <2>4, <1>5
<1>7. todo \in Seq(Servers) /\ todo # <<>> /\ Len(todo) \in Nat /\ Len(todo) > 0
  <2>1. todo # <<>>
    BY Zenon DEF AskedInv
  <2>2. QED
    BY <2>1, AskedCounts
<1>8. /\ todo' \in Seq(Servers) /\ Len(todo') = Len(todo) - 1
      /\ (Len(todo) = 1 <=> todo' = <<>>)
  BY <1>1, <1>7, Rest, Zenon
<1>9. Len(todo) # 1 => todo[2] \in Servers
  BY <1>7, Rest, Zenon
<1>10. Len(todo') + Len(results') <= MaxRequests
  <2>1. Len(todo) + Len(results) <= MaxRequests /\ MaxRequests \in Nat
    BY AskedCounts, PartsAssumption DEF Stun!DeviceAssumption
  <2>2. QED
    BY <2>1, <1>5, <1>7, <1>8
<1>11. made' = Len(results') /\ pc' \in {"idle", "create"}
  BY <1>1, <1>5
<1>12. \A m \in net' : m.answer \in Stun!Answer
  BY DEF AskedInv
<1>13. (\E T : results \in Seq(T))'
  BY <1>5
<1>14. stunServer' \in Servers /\ localPort' \in LocalPorts
  BY <1>1, <1>9 DEF AskedInv
<1>15. pc' = "idle" <=> todo' = <<>>
  BY <1>1, <1>8
<1>16. QED
  BY <1>6, <1>8, <1>10, <1>11, <1>12, <1>13, <1>14, <1>15, Zenon DEF AskedInv

LEMMA AskedStep ==
  ASSUME AskedInv, Stun!Next \/ UNCHANGED stunVars
  PROVE  AskedInv'
<1>1. CASE UNCHANGED stunVars
  BY <1>1 DEF stunVars, IsRight, AskedInv
<1>2. ASSUME NEW port \in LocalPorts, Stun!SetLocalPort(port)
      PROVE  AskedInv'
  BY <1>2 DEF Stun!SetLocalPort, IsRight, AskedInv
<1>3. ASSUME NEW servers \in Stun!SeqOf(Servers, MaxRequests),
             Stun!PerformMultipleRequests(servers)
      PROVE  AskedInv'
  <2>1. servers \in Seq(Servers) /\ Len(servers) \in Nat
    <3>1. MaxRequests \in Nat
      BY PartsAssumption DEF Stun!DeviceAssumption
    <3>2. servers \in Seq(Servers)
      BY <3>1, SequencesOf
    <3>3. QED
      BY <3>2, LenProperties
  <2>2. /\ pc = "idle" /\ servers # <<>> /\ Len(results) + Len(servers) <= MaxRequests
        /\ todo' = servers /\ pc' = "create" /\ stunServer' = Head(servers)
        /\ UNCHANGED <<localPort, made, net, results>>
    BY <1>3 DEF Stun!PerformMultipleRequests
  <2>3. stunServer' \in Servers
    BY <2>1, <2>2, HeadTailProperties
  <2>4. Len(todo') + Len(results') <= MaxRequests
    BY <2>1, <2>2, AskedCounts
  <2>5. /\ localPort' \in LocalPorts /\ made' = Len(results')
        /\ \A m \in net' : m.answer \in Stun!Answer
        /\ (\E S : results \in Seq(S))'
        /\ \A i \in DOMAIN results' : IsRight(results'[i])
    BY <2>2 DEF AskedInv
  <2>6. QED
    BY <2>1, <2>2, <2>3, <2>4, <2>5, Zenon DEF AskedInv
<1>4. \A m \in net : m.answer \in Stun!Answer
  BY Zenon DEF AskedInv
<1>5. Stun!NoAddress.value \in Stun!Endpoints
  <2>1. Stun!NoAddress.value = 0
    BY DEF Stun!NoAddress
  <2>2. QED
    BY <2>1 DEF Stun!Endpoints
<1>6. CASE Stun!CreateSocket
  <2>1. pc = "create" /\ made' = made + 1 /\ localPort' = localPort /\ net' = net
    BY <1>6 DEF Stun!CreateSocket
  <2>2. made' = Len(results) + 1
    BY <2>1 DEF AskedInv
  <2>3. CASE pc' = "send" /\ UNCHANGED <<results, todo, stunServer>>
    BY <2>1, <2>2, <2>3 DEF AskedInv
  <2>4. CASE Stun!Returns(Stun!NoAddress, "nobody", <<>>)
    BY <2>1, <2>2, <2>4, <1>5, ReturnsKeep
  <2>5. QED
    BY <1>6, <2>3, <2>4 DEF Stun!CreateSocket
<1>7. CASE Stun!SendRequest
  <2>1. pc = "send" /\ made' = made /\ localPort' = localPort /\ made = Len(results) + 1
    BY <1>7 DEF Stun!SendRequest, AskedInv
  <2>2. CASE Stun!Returns(Stun!NoAddress, "nobody", <<>>) /\ net' = net
    BY <2>1, <2>2, <1>5, ReturnsKeep
  <2>3. ASSUME NEW a \in Stun!Answer,
               net' = net \cup {[to |-> Stun!PortOf(sock), from |-> stunServer, answer |-> a]},
               pc' = "receive", UNCHANGED <<results, todo, stunServer>>
        PROVE  AskedInv'
    <3> DEFINE sent == [to |-> Stun!PortOf(sock), from |-> stunServer, answer |-> a]
    <3>1. sent.answer = a
      OBVIOUS
    <3>2. net' = net \cup {sent}
      BY <2>3
    <3> HIDE DEF sent
    <3>3. \A m \in net' : m.answer \in Stun!Answer
      BY <1>4, <3>1, <3>2
    <3>4. QED
      BY <2>1, <2>3, <3>3 DEF AskedInv
  <2>4. QED
    BY <1>7, <2>2, <2>3 DEF Stun!SendRequest
<1>8. CASE Stun!Receive
  <2>1. pc = "receive" /\ made' = made /\ localPort' = localPort /\ made = Len(results) + 1
    BY <1>8 DEF Stun!Receive, AskedInv
  <2>2. ASSUME NEW m \in net, net' = net \ {m},
               Stun!Returns(Stun!Parse(m.answer), m.from, m.answer)
        PROVE  AskedInv'
    <3>1. /\ Stun!Parse(m.answer).value \in Stun!Endpoints
          /\ IsFound(m.answer, Stun!Parse(m.answer).success, Stun!Parse(m.answer).value)
          /\ m.answer \in Stun!Answer
      BY <1>4, ParseIsRight
    <3>2. QED
      BY <2>1, <2>2, <3>1, ReturnsKeep
  <2>3. CASE net' = net /\ Stun!Returns(Stun!NoAddress, "nobody", <<>>)
    BY <2>1, <2>3, <1>5, ReturnsKeep
  <2>4. QED
    BY <1>8, <2>2, <2>3 DEF Stun!Receive
<1>9. QED
  BY <1>1, <1>2, <1>3, <1>6, <1>7, <1>8 DEF Stun!Next

\* What is kept of the answers is what the run checks of it.
LEMMA AskedSafe ==
  ASSUME SocketInv, AskedInv
  PROVE  Stun!TypeOK /\ Stun!FirstAddressIsFound /\ Stun!NoSocketIsLeft
<1>1. MaxRequests \in Nat
  BY PartsAssumption DEF Stun!DeviceAssumption
<1>2. pc \in {"send", "receive"} => made \in 1 .. MaxRequests
  <2>1. SUFFICES ASSUME pc \in {"send", "receive"}
                 PROVE  made \in 1 .. MaxRequests
    OBVIOUS
  <2>2. todo # <<>>
    BY <2>1 DEF AskedInv
  <2>3. Len(todo) \in Nat /\ Len(todo) > 0
    BY <2>2, AskedCounts
  <2>4. Len(results) \in Nat /\ Len(todo) + Len(results) <= MaxRequests
    BY AskedCounts
  <2>5. made = Len(results) + 1
    BY <2>1 DEF AskedInv
  <2>6. QED
    BY <1>1, <2>3, <2>4, <2>5
<1>3. sock \in {-1} \cup 1 .. MaxRequests /\ \A s \in open : s.fd \in 1 .. MaxRequests
  <2>1. CASE pc \in {"idle", "create"}
    BY <2>1 DEF SocketInv
  <2>2. CASE pc \in {"send", "receive"}
    BY <2>2, <1>2 DEF SocketInv
  <2>3. QED
    BY <2>1, <2>2 DEF AskedInv
<1>4. Stun!TypeOK
  BY <1>3 DEF AskedInv, IsRight, Stun!TypeOK
<1>5. Stun!FirstAddressIsFound
  <2>1. SUFFICES ASSUME NEW i \in DOMAIN results, results[i].answerer # "nobody"
                 PROVE  LET attributes == results[i].answer.attributes
                            addresses  == {j \in DOMAIN attributes :
                                             Stun!IsAddress(attributes[j])}
                        IN  /\ results[i].success <=> addresses # {}
                            /\ \A j \in addresses :
                                 (\A k \in addresses : j <= k) /\ attributes[j].type = "mapped"
                                   => results[i].value = Device
    BY Zenon DEF Stun!FirstAddressIsFound
  <2>2. /\ results[i].answer \in Stun!Answer
        /\ IsFound(results[i].answer, results[i].success, results[i].value)
    BY <2>1, Zenon DEF AskedInv, IsRight
  <2>3. \A j \in DOMAIN results[i].answer.attributes :
          results[i].answer.attributes[j].type = "mapped" =>
            results[i].answer.attributes[j].value = Device
    BY <2>2, MappedIsDevice
  <2>4. QED
    BY <2>2, <2>3, Zenon DEF IsFound
<1>6. Stun!NoSocketIsLeft
  BY DEF SocketInv, Stun!NoSocketIsLeft
<1>7. QED
  BY <1>4, <1>5, <1>6

LEMMA AskedAlways ==
  /\ Init => (part = "stun" => AskedInv)
  /\ (part = "stun" => AskedInv) /\ [Next]_vars => (part = "stun" => AskedInv)'
<1>1. Init => (part = "stun" => AskedInv)
  BY AskedInit DEF Init
<1>2. ASSUME part = "stun" => AskedInv, [Next]_vars, (part = "stun")'
      PROVE  AskedInv'
  <2>1. part = "stun" /\ (Stun!Next \/ UNCHANGED stunVars)
    BY <1>2, OnePart
  <2>2. QED
    BY <1>2, <2>1, AskedStep
<1>3. QED
  BY <1>1, <1>2

\* Whatever is lost on the way, comes late or fails, and whatever ports the kernel
\* chooses: a request leaves no socket open, and it succeeds if and only if the
\* answer it takes has an IPv4 address, whatever the lengths of the attributes
\* before it; where that address is a MAPPED one, what it reports is the device's
\* endpoint.
THEOREM StunFinds == Spec => []StunFindsTheAddress
<1>1. StunInv /\ (part = "stun" => AskedInv) => StunFindsTheAddress
  BY AskedSafe DEF StunInv, StunFindsTheAddress
<1>2. QED
  BY StunInit, StunStep, AskedAlways, <1>1, PTL DEF Spec

-----------------------------------------------------------------------------
\* Any log directory.
LogDirectory(d) ==
  /\ DOMAIN d \subseteq Files
  /\ \A file \in DOMAIN d : d[file].text \in Seq(LogBytes) /\ d[file].time \in Nat \cup {-1}

\* The newest of the names that were returned.
NewestInv ==
  /\ LogDirectory(dir) /\ logAt \in {"readdir", "read", "lines", "failed", "returned"}
  /\ unread \subseteq DOMAIN dir /\ (logAt # "readdir" => unread = {})
  /\ best \in (DOMAIN dir \ {Self}) \cup {Log!NoFile} /\ bestTime \in Nat
  /\ logAt \in {"read", "lines"} => best # Log!NoFile
  /\ bestTime = IF best = Log!NoFile THEN 0 ELSE dir[best].time
  /\ \A file \in DOMAIN dir \ (unread \cup {Self}) :
       dir[file].time # Log!NoTime => best # Log!NoFile /\ dir[file].time <= bestTime

\* What is scanned is the text from cut on, where a line begins, and no line that
\* begins in the tail is before it.
CutAt(s, rest, cut) ==
  /\ cut \in 0 .. Len(s) /\ rest = SubSeq(s, cut + 1, Len(s))
  /\ cut = 0 \/ s[cut] = LF
  /\ \A l \in Log!LinesOf(s) :
       Log!TailStart(s) = 0 \/ l.from > Log!TailStart(s) => cut <= l.from

\* The lines that begin in the n bytes after cut have been kept: there are m of
\* them, and the last KeepLines are in the ring, the i-th where i - 1 falls.
KeptAre(s, cut, n, ring, m, lines) ==
  /\ \A i \in 1 .. m : cut <= lines[i].from /\ lines[i].from < cut + n
  /\ \A i, j \in 1 .. m : i < j => lines[i].from < lines[j].from
  /\ \A l \in Log!LinesOf(s) :
       cut <= l.from /\ l.from < cut + n => \E i \in 1 .. m : lines[i] = l
  /\ \A i \in 1 .. m :
       m < i + KeepLines =>
         ring[(i - 1) % KeepLines] = SubSeq(s, lines[i].from + 1, lines[i].to)

\* The lines of s after some cut have been kept as far as logPos.
Kept(s) ==
  \E cut \in 0 .. Len(s) : \E lines \in [1 .. kept -> Log!LinesOf(s)] :
    CutAt(s, all, cut) /\ KeptAre(s, cut, logPos, keep, kept, lines)

ScanInv ==
  /\ all \in Seq(LogBytes) /\ logPos \in 0 .. Len(all) + 1 /\ kept \in Nat
  /\ keep \in [0 .. KeepLines - 1 -> Seq(LogBytes \ {LF})]
  /\ emitted \in Seq(Seq(LogBytes \ {LF}))
  /\ logAt \in {"readdir", "read"} => logPos = 0 /\ kept = 0
  /\ logAt # "returned" => emitted = <<>>
  /\ logAt = "lines" =>
       /\ logPos = 0 \/ logPos = Len(all) + 1 \/ all[logPos] = LF
       /\ Kept(dir[best].text)


LEMMA TailTyped ==
  /\ LF \in LogBytes /\ TailBytes \in Nat /\ TailBytes > 0
  /\ KeepLines \in Nat /\ KeepLines > 0 /\ Log!NoFile \notin Files /\ Log!NoFile # Self
BY PartsAssumption DEF Log!TailAssumption

LEMMA DirsTyped ==
  ASSUME NEW d \in Dirs
  PROVE  LogDirectory(d)
<1>1. ASSUME NEW n, NEW s \in LogsUpTo(n)
      PROVE  s \in Seq(LogBytes)
  <2>1. PICK k \in 0 .. n : s \in [1 .. k -> LogBytes]
    BY <1>1 DEF LogsUpTo
  <2>2. k \in Nat
    BY <2>1
  <2>3. QED
    BY <2>1, <2>2
<1>2. CASE \E file \in Files \ {Self} : d \in [{file} -> [text : LogsUpTo(MaxLog), time : {1}]]
  <2>1. PICK file \in Files : d \in [{file} -> [text : LogsUpTo(MaxLog), time : {1}]]
    BY <1>2
  <2>2. DOMAIN d = {file} /\ d[file] \in [text : LogsUpTo(MaxLog), time : {1}]
    BY <2>1
  <2>3. d[file].text \in LogsUpTo(MaxLog) /\ d[file].time \in Nat \cup {-1}
    BY <2>2
  <2>4. d[file].text \in Seq(LogBytes)
    BY <1>1, <2>3
  <2>5. QED
    BY <2>2, <2>3, <2>4 DEF LogDirectory
<1>3. CASE \E files \in SUBSET Files : d \in [files -> [text : LogsUpTo(1), time : {-1} \cup 1 .. 2]]
  <2>1. PICK files \in SUBSET Files : d \in [files -> [text : LogsUpTo(1), time : {-1} \cup 1 .. 2]]
    BY <1>3
  <2>2. DOMAIN d = files
    BY <2>1
  <2>3. ASSUME NEW file \in files
        PROVE  d[file].text \in Seq(LogBytes) /\ d[file].time \in Nat \cup {-1}
    <3>1. d[file] \in [text : LogsUpTo(1), time : {-1} \cup 1 .. 2]
      BY <2>1
    <3>2. d[file].text \in LogsUpTo(1) /\ d[file].time \in Nat \cup {-1}
      BY <3>1
    <3>3. QED
      BY <1>1, <3>2
  <2>4. QED
    BY <2>2, <2>3 DEF LogDirectory
<1>4. \/ \E file \in Files \ {Self} : d \in [{file} -> [text : LogsUpTo(MaxLog), time : {1}]]
      \/ \E files \in SUBSET Files : d \in [files -> [text : LogsUpTo(1), time : {-1} \cup 1 .. 2]]
  <2>1. d \in OneLog => \E file \in Files \ {Self} :
                           d \in [{file} -> [text : LogsUpTo(MaxLog), time : {1}]]
    BY DEF OneLog
  <2>2. d \in SomeLogs => \E files \in SUBSET Files :
                             d \in [files -> [text : LogsUpTo(1), time : {-1} \cup 1 .. 2]]
    BY DEF SomeLogs
  <2>3. d \in OneLog \/ d \in SomeLogs
    BY DEF Dirs
  <2>4. QED
    BY <2>1, <2>2, <2>3, Zenon
<1>5. QED
  BY <1>2, <1>3, <1>4

-----------------------------------------------------------------------------
\* The first line feed of a text.
LEMMA FirstLFIs ==
  ASSUME NEW s \in Seq(LogBytes)
  PROVE  /\ Log!FirstLF(s) \in 0 .. Len(s)
         /\ \A j \in 1 .. Len(s) :
              (Log!FirstLF(s) = 0 \/ j < Log!FirstLF(s)) => s[j] # LF
         /\ Log!FirstLF(s) # 0 => s[Log!FirstLF(s)] = LF
<1> DEFINE X == {i \in DOMAIN s : s[i] = LF}
<1>1. DOMAIN s = 1 .. Len(s) /\ Len(s) \in Nat
  OBVIOUS
<1>2. CASE X = {}
  <2>1. ~ \E i \in DOMAIN s : s[i] = LF
    BY <1>2
  <2>2. Log!FirstLF(s) = 0
    BY <2>1 DEF Log!FirstLF
  <2>3. QED
    BY <1>1, <2>1, <2>2
<1>3. CASE X # {}
  <2>1. X \in SUBSET Nat
    BY <1>1
  <2>2. PICK i \in X : \A j \in X : i <= j
    <3> HIDE DEF X
    <3>1. QED
      BY <1>3, <2>1, LeastNatural
  <2>3. i \in DOMAIN s /\ s[i] = LF /\ \A j \in 1 .. i - 1 : s[j] # LF
    BY <1>1, <2>2
  <2>4. /\ Log!FirstLF(s) \in DOMAIN s /\ s[Log!FirstLF(s)] = LF
        /\ \A j \in 1 .. Log!FirstLF(s) - 1 : s[j] # LF
    BY <2>3, Zenon DEF Log!FirstLF
  <2>5. QED
    BY <1>1, <2>4
<1>4. QED
  BY <1>2, <1>3

\* Where the line that begins at logPos ends.
LEMMA LineEndIs ==
  ASSUME all \in Seq(LogBytes), logPos \in Nat, logPos <= Len(all)
  PROVE  /\ Log!LineEnd \in logPos .. Len(all)
         /\ \A j \in logPos .. Log!LineEnd - 1 : all[j + 1] # LF
         /\ Log!LineEnd = Len(all) \/ all[Log!LineEnd + 1] = LF
<1> DEFINE X == {i \in logPos .. Len(all) - 1 : all[i + 1] = LF}
<1>1. Len(all) \in Nat
  OBVIOUS
<1>2. CASE X = {}
  <2>1. ~ \E i \in logPos .. Len(all) - 1 : all[i + 1] = LF
    BY <1>2
  <2>2. Log!LineEnd = Len(all)
    BY <2>1 DEF Log!LineEnd
  <2>3. QED
    BY <1>1, <2>1, <2>2
<1>3. CASE X # {}
  <2>1. X \in SUBSET Nat
    BY <1>1
  <2>2. PICK i \in X : \A j \in X : i <= j
    <3> HIDE DEF X
    <3>1. QED
      BY <1>3, <2>1, LeastNatural
  <2>3. /\ i \in logPos .. Len(all) - 1 /\ all[i + 1] = LF
        /\ \A j \in logPos .. i - 1 : all[j + 1] # LF
    BY <1>1, <2>2
  <2>4. /\ Log!LineEnd \in logPos .. Len(all) - 1 /\ all[Log!LineEnd + 1] = LF
        /\ \A j \in logPos .. Log!LineEnd - 1 : all[j + 1] # LF
    BY <2>3, Zenon DEF Log!LineEnd
  <2>5. QED
    BY <1>1, <2>4
<1>4. QED
  BY <1>2, <1>3

\* What is kept of the file, entered at start.
Rested(s, start) == Log!WholeLines(start, SubSeq(s, start + 1, Len(s)))

LEMMA RestIs ==
  ASSUME NEW s \in Seq(LogBytes), NEW start, start = Log!TailStart(s) \/ start = 0
  PROVE  /\ Rested(s, start) \in Seq(LogBytes)
         /\ \/ \E cut \in 0 .. Len(s) : CutAt(s, Rested(s, start), cut)
            \/ /\ Rested(s, start) = <<>>
               /\ \A l \in Log!LinesOf(s) :
                    Log!TailStart(s) # 0 /\ l.from <= Log!TailStart(s)
<1> DEFINE tail == SubSeq(s, start + 1, Len(s))
<1>1. start \in 0 .. Len(s) /\ Len(s) \in Nat
  BY TailTyped DEF Log!TailStart
<1>2. \A l \in Log!LinesOf(s) : /\ l.from \in 0 .. Len(s)
                                /\ l.from = 0 \/ s[l.from] = LF
  BY DEF Log!LinesOf
<1>3. /\ tail \in Seq(LogBytes) /\ Len(tail) = Len(s) - start
      /\ \A i \in 1 .. Len(tail) : tail[i] = s[start + i]
  <2> DEFINE c == Len(s) - start
  <2>1. start \in Nat /\ Len(s) \in Nat /\ c \in Nat /\ Len(s) = start + c
    BY <1>1
  <2> HIDE DEF c
  <2>2. /\ tail \in Seq(LogBytes) /\ Len(tail) = c
        /\ \A i \in 1 .. c : tail[i] = s[start + i]
    BY <2>1, Slice
  <2>3. QED
    BY <2>2 DEF c
<1>4. CASE start = 0
  <2>1. Rested(s, start) = tail
    BY <1>4 DEF Rested, Log!WholeLines
  <2>2. 0 \in 0 .. Len(s) /\ tail = SubSeq(s, 0 + 1, Len(s))
    BY <1>1, <1>4
  <2>3. \A l \in Log!LinesOf(s) : 0 <= l.from
    BY <1>2
  <2>4. CutAt(s, tail, 0)
    BY <2>2, <2>3, Zenon DEF CutAt
  <2>5. QED
    BY <1>3, <2>1, <2>2, <2>4
<1>5. CASE start # 0 /\ Log!FirstLF(tail) = 0
  <2>1. Rested(s, start) = <<>>
    BY <1>5 DEF Rested, Log!WholeLines
  <2>2. ASSUME NEW l \in Log!LinesOf(s), l.from > start
        PROVE  FALSE
    <3> HIDE DEF tail
    <3>1. l.from - start \in 1 .. Len(tail) /\ start + (l.from - start) = l.from
      BY <1>1, <1>2, <1>3, <2>2
    <3>2. tail[l.from - start] = s[l.from]
      BY <1>3, <3>1, Zenon
    <3>3. tail[l.from - start] # LF
      BY <1>3, <1>5, <3>1, FirstLFIs
    <3>4. s[l.from] = LF
      BY <1>1, <1>2, <2>2
    <3>5. QED
      BY <3>2, <3>3, <3>4
  <2>3. \A l \in Log!LinesOf(s) : start # 0 /\ l.from <= start
    BY <1>1, <1>2, <1>5, <2>2
  <2>4. <<>> \in Seq(LogBytes)
    OBVIOUS
  <2>5. QED
    BY <1>5, <2>1, <2>3, <2>4
<1>6. CASE start # 0 /\ Log!FirstLF(tail) # 0
  <2> DEFINE first == Log!FirstLF(tail)
             cut == start + first
  <2>1. Rested(s, start) = SubSeq(tail, first + 1, Len(tail))
    BY <1>6 DEF Rested, Log!WholeLines
  <2>2. first \in 1 .. Len(tail) /\ tail[first] = LF /\ \A j \in 1 .. first - 1 : tail[j] # LF
    <3> HIDE DEF tail
    <3>1. first \in 0 .. Len(tail) /\ first # 0 /\ tail[first] = LF
      BY <1>3, <1>6, FirstLFIs
    <3>2. \A j \in 1 .. Len(tail) : j < first => tail[j] # LF
      BY <1>3, FirstLFIs
    <3> HIDE DEF first
    <3>3. QED
      BY <1>1, <1>3, <3>1, <3>2
  <2> HIDE DEF first, tail
  <2>3. cut \in 0 .. Len(s) /\ s[cut] = LF /\ cut - start = first
    BY <1>1, <1>3, <2>2
  <2> DEFINE rest == SubSeq(tail, first + 1, Len(tail))
  <2>4. /\ rest \in Seq(LogBytes) /\ Len(rest) = Len(s) - cut
        /\ \A j \in 1 .. Len(rest) : rest[j] = s[cut + j]
    <3>1. /\ rest \in Seq(LogBytes) /\ Len(rest) = Len(tail) - first
          /\ \A j \in 1 .. Len(rest) : rest[j] = tail[first + j]
      <4>1. /\ Len(tail) - first \in Nat /\ first \in Nat /\ Len(tail) \in Nat
            /\ Len(tail) = first + (Len(tail) - first) /\ Len(tail) <= Len(tail)
        BY <1>1, <1>3, <2>2
      <4>2. /\ rest \in Seq(LogBytes) /\ Len(rest) = Len(tail) - first
            /\ \A j \in 1 .. Len(tail) - first : rest[j] = tail[first + j]
        BY <1>3, <4>1, Slice
      <4>3. QED
        BY <4>2
    <3> HIDE DEF rest
    <3>2. Len(rest) = Len(s) - cut
      BY <1>1, <1>3, <2>2, <3>1
    <3>3. ASSUME NEW j \in 1 .. Len(rest)
          PROVE  rest[j] = s[cut + j]
      <4>1. first + j \in 1 .. Len(tail) /\ start + (first + j) = cut + j
        BY <1>1, <1>3, <2>2, <3>1
      <4>2. QED
        BY <1>3, <3>1, <4>1
    <3>4. QED
      BY <3>1, <3>2, <3>3
  <2>5. rest = SubSeq(s, cut + 1, Len(s))
    <3> HIDE DEF rest, cut
    <3>1. Len(s) - cut \in Nat /\ cut \in Nat /\ Len(s) = cut + (Len(s) - cut)
      BY <1>1, <2>3
    <3>2. QED
      BY <1>1, <2>4, <3>1, SliceIs
  <2>6. ASSUME NEW l \in Log!LinesOf(s), l.from > start
        PROVE  cut <= l.from
    <3>1. l.from - start \in 1 .. Len(tail) /\ start + (l.from - start) = l.from
      BY <1>1, <1>2, <1>3, <2>6
    <3>2. tail[l.from - start] = LF
      <4>1. s[l.from] = LF
        BY <1>1, <1>2, <2>6
      <4>2. QED
        BY <1>3, <3>1, <4>1
    <3>3. ~(l.from - start \in 1 .. first - 1)
      BY <2>2, <3>2
    <3>4. QED
      BY <1>1, <1>2, <2>2, <3>1, <3>3
  <2>7. CutAt(s, rest, cut)
    <3> HIDE DEF rest, cut
    <3>1. QED
      BY <1>6, <2>3, <2>5, <2>6 DEF CutAt
  <2>8. QED
    BY <2>1, <2>3, <2>4, <2>7
<1>7. QED
  BY <1>4, <1>5, <1>6

-----------------------------------------------------------------------------
LEMMA NewestInit == ASSUME Log!Init PROVE NewestInv
<1>1. /\ LogDirectory(dir) /\ unread = DOMAIN dir /\ best = Log!NoFile /\ bestTime = 0
      /\ logAt = "readdir"
  BY DirsTyped DEF Log!Init
<1>2. QED
  BY <1>1 DEF NewestInv

LEMMA NewestStep ==
  ASSUME NewestInv, Log!Next \/ UNCHANGED logVars
  PROVE  NewestInv'
<1>1. ASSUME NEW file \in Files, Log!ReadDir(file)
      PROVE  NewestInv'
  <2>1. /\ logAt = "readdir" /\ file \in unread /\ unread' = unread \ {file}
        /\ dir' = dir /\ logAt' = logAt /\ file \in DOMAIN dir
    BY <1>1 DEF Log!ReadDir, NewestInv
  <2>2. CASE file # Self /\ dir[file].time # Log!NoTime /\ dir[file].time >= bestTime
    <3>1. best' = file /\ bestTime' = dir[file].time
      BY <1>1, <2>2 DEF Log!ReadDir
    <3>2. file # Log!NoFile /\ dir[file].time \in Nat /\ bestTime \in Nat
      BY <2>1, <2>2, TailTyped DEF NewestInv, LogDirectory, Log!NoTime
    <3>3. ASSUME NEW other \in DOMAIN dir \ (unread' \cup {Self}), dir[other].time # Log!NoTime
          PROVE  best' # Log!NoFile /\ dir[other].time <= bestTime'
      <4>1. CASE other = file
        BY <3>1, <3>2, <4>1
      <4>2. CASE other # file
        <5>1. other \in DOMAIN dir \ (unread \cup {Self}) /\ dir[other].time \in Nat
          BY <2>1, <3>3, <4>2 DEF NewestInv, LogDirectory, Log!NoTime
        <5>2. dir[other].time <= bestTime
          BY <3>3, <5>1 DEF NewestInv
        <5>3. QED
          BY <2>2, <3>1, <3>2, <5>1, <5>2
      <4>3. QED
        BY <4>1, <4>2
    <3>4. QED
      BY <2>1, <2>2, <3>1, <3>2, <3>3 DEF NewestInv
  <2>3. CASE ~(file # Self /\ dir[file].time # Log!NoTime /\ dir[file].time >= bestTime)
    <3>1. best' = best /\ bestTime' = bestTime
      BY <1>1, <2>3 DEF Log!ReadDir
    <3>2. bestTime \in Nat /\ dir[file].time \in Nat \cup {-1}
      BY <2>1 DEF NewestInv, LogDirectory
    <3>3. ASSUME NEW other \in DOMAIN dir \ (unread' \cup {Self}), dir[other].time # Log!NoTime
          PROVE  best # Log!NoFile /\ dir[other].time <= bestTime
      <4>1. CASE other = file
        <5>1. dir[file].time < bestTime
          BY <2>3, <3>2, <3>3, <4>1 DEF Log!NoTime
        <5>2. bestTime # 0
          BY <3>2, <3>3, <4>1, <5>1 DEF Log!NoTime
        <5>3. best # Log!NoFile
          BY <5>2 DEF NewestInv
        <5>4. QED
          BY <3>2, <4>1, <5>1, <5>3
      <4>2. CASE other # file
        BY <2>1, <3>3, <4>2 DEF NewestInv
      <4>3. QED
        BY <4>1, <4>2
    <3>4. QED
      BY <2>1, <3>1, <3>3 DEF NewestInv
  <2>4. QED
    BY <2>2, <2>3
<1>2. CASE Log!DirRead
  BY <1>2 DEF Log!DirRead, NewestInv
<1>3. CASE Log!ReadTail
  BY <1>3 DEF Log!ReadTail, NewestInv
<1>4. CASE Log!KeepLine
  BY <1>4 DEF Log!KeepLine, NewestInv
<1>5. CASE Log!Emit
  BY <1>5 DEF Log!Emit, NewestInv
<1>6. CASE Log!OpenFails
  BY <1>6 DEF Log!OpenFails, NewestInv
<1>7. CASE UNCHANGED logVars
  BY <1>7 DEF logVars, NewestInv
<1>8. QED
  BY <1>1, <1>2, <1>3, <1>4, <1>5, <1>6, <1>7 DEF Log!Next

-----------------------------------------------------------------------------
\* Numbers less than K apart are at different places of a ring of K.
LEMMA ApartInRing ==
  ASSUME NEW K \in Nat \ {0}, NEW a \in Nat, NEW b \in Nat, a < b, b < a + K
  PROVE  a % K # b % K
<1> a \in Int /\ b \in Int
  OBVIOUS
<1>1. PICK i \in Int, m \in Int : a = K * i + m /\ m = a % K
  BY Split, Zenon
<1>2. PICK j \in Int, n \in Int : b = K * j + n /\ n = b % K
  BY Split, Zenon
<1>3. SUFFICES ASSUME m = n
               PROVE  FALSE
  BY <1>1, <1>2
<1>4. b - a = K * (j - i) /\ 0 < b - a /\ b - a < K
  BY <1>1, <1>2, <1>3
<1>5. CASE j - i <= 0
  BY <1>4, <1>5
<1>6. CASE j - i >= 1
  <2>1. K * (j - i) >= K
    BY <1>6
  <2>2. QED
    BY <2>1, <1>4
<1>7. QED
  BY <1>5, <1>6

\* A slice of a text.
LEMMA TextSlice ==
  ASSUME NEW w \in Seq(LogBytes), NEW a \in Nat, NEW b \in Nat, NEW c \in Nat,
         b = a + c, b <= Len(w)
  PROVE  /\ SubSeq(w, a + 1, b) \in Seq(LogBytes) /\ Len(SubSeq(w, a + 1, b)) = c
         /\ \A j \in 1 .. c : SubSeq(w, a + 1, b)[j] = w[a + j]
OBVIOUS

\* What is scanned, by its place in the text.
LEMMA ScannedIs ==
  ASSUME NEW s \in Seq(LogBytes), NEW rest, NEW cut, CutAt(s, rest, cut)
  PROVE  /\ cut \in 0 .. Len(s) /\ Len(s) \in Nat
         /\ rest \in Seq(LogBytes) /\ Len(rest) = Len(s) - cut
         /\ \A i \in 1 .. Len(rest) : rest[i] = s[cut + i]
<1> DEFINE n == Len(s)
<1>1. n \in Nat /\ cut \in 0 .. n /\ rest = SubSeq(s, cut + 1, n)
  BY DEF CutAt
<1>2. n <= Len(s)
  BY <1>1
<1> HIDE DEF n
<1>3. n - cut \in Nat /\ cut \in Nat /\ n = cut + (n - cut)
  BY <1>1
<1>4. /\ SubSeq(s, cut + 1, n) \in Seq(LogBytes) /\ Len(SubSeq(s, cut + 1, n)) = n - cut
      /\ \A i \in 1 .. n - cut : SubSeq(s, cut + 1, n)[i] = s[cut + i]
  BY <1>1, <1>2, <1>3, TextSlice
<1>5. QED
  BY <1>1, <1>4 DEF n

\* The line that begins at logPos.
TheLine == SubSeq(all, logPos + 1, Log!LineEnd)

LEMMA TheLineIs ==
  ASSUME NEW s \in Seq(LogBytes), NEW cut, CutAt(s, all, cut),
         logPos \in Nat, logPos < Len(all)
  PROVE  /\ Log!LineEnd \in logPos .. Len(all)
         /\ TheLine \in Seq(LogBytes \ {LF}) /\ Len(TheLine) = Log!LineEnd - logPos
         /\ TheLine = SubSeq(s, cut + logPos + 1, cut + Log!LineEnd)
         /\ \A i \in cut + logPos + 1 .. cut + Log!LineEnd : s[i] # LF
         /\ \/ Log!LineEnd = Len(all) /\ cut + Log!LineEnd = Len(s)
            \/ Log!LineEnd < Len(all) /\ s[cut + Log!LineEnd + 1] = LF
<1> DEFINE e == Log!LineEnd
           n == Len(all)
<1>1. /\ cut \in 0 .. Len(s) /\ Len(s) \in Nat /\ all \in Seq(LogBytes) /\ n = Len(s) - cut
      /\ \A i \in 1 .. n : all[i] = s[cut + i]
  BY ScannedIs
<1>2. n \in Nat /\ logPos <= n
  BY <1>1
<1>3. /\ e \in logPos .. n
      /\ \A j \in logPos .. e - 1 : all[j + 1] # LF
      /\ e = n \/ all[e + 1] = LF
  BY <1>1, <1>2, LineEndIs
<1> HIDE DEF e, n
<1>4. /\ e - logPos \in Nat /\ e \in Nat /\ e = logPos + (e - logPos) /\ e <= n
  BY <1>2, <1>3
<1>5. /\ TheLine \in Seq(LogBytes) /\ Len(TheLine) = e - logPos
      /\ \A j \in 1 .. e - logPos : TheLine[j] = all[logPos + j]
  BY <1>1, <1>4, TextSlice DEF TheLine, e, n
<1>6. \A j \in 1 .. e - logPos : TheLine[j] = s[(cut + logPos) + j]
  <2>1. TAKE j \in 1 .. e - logPos
  <2>2. logPos + j \in 1 .. n /\ cut + (logPos + j) = (cut + logPos) + j
    BY <1>1, <1>2, <1>3
  <2>3. QED
    BY <1>1, <1>5, <2>2
<1>7. TheLine = SubSeq(s, cut + logPos + 1, cut + e)
  <2>1. /\ cut + logPos \in Nat /\ cut + e \in Nat /\ cut + e <= Len(s)
        /\ cut + e = (cut + logPos) + (e - logPos)
    BY <1>1, <1>2, <1>3
  <2>2. QED
    BY <1>4, <1>5, <1>6, <2>1, SliceIs, ZenonT(40)
<1>8. \A j \in 1 .. e - logPos : all[logPos + j] # LF
  <2>1. TAKE j \in 1 .. e - logPos
  <2>2. logPos + j - 1 \in logPos .. e - 1 /\ (logPos + j - 1) + 1 = logPos + j
    BY <1>2, <1>3
  <2>3. QED
    BY <1>3, <2>2
<1>9. TheLine \in Seq(LogBytes \ {LF})
  <2>1. \A j \in 1 .. Len(TheLine) : TheLine[j] \in LogBytes /\ TheLine[j] # LF
    BY <1>5, <1>8, ElementOfSeq
  <2>2. TheLine \in [1 .. Len(TheLine) -> LogBytes]
    BY <1>5, LenProperties
  <2>3. TheLine \in [1 .. Len(TheLine) -> LogBytes \ {LF}]
    BY <2>1, <2>2
  <2>4. QED
    BY <1>4, <1>5, <2>3
<1>10. ASSUME NEW i \in cut + logPos + 1 .. cut + e
       PROVE  s[i] # LF
  <2>1. i - cut - logPos \in 1 .. e - logPos /\ logPos + (i - cut - logPos) \in 1 .. n
        /\ cut + (logPos + (i - cut - logPos)) = i
    BY <1>1, <1>2, <1>3
  <2>2. all[logPos + (i - cut - logPos)] = s[i]
    BY <1>1, <2>1
  <2>3. QED
    BY <1>8, <2>1, <2>2
<1>11. \/ e = n /\ cut + e = Len(s)
       \/ e < n /\ s[cut + e + 1] = LF
  <2>1. CASE e = n
    BY <1>1, <2>1
  <2>2. CASE e # n
    <3>1. e < n /\ e + 1 \in 1 .. n /\ cut + (e + 1) = cut + e + 1
      BY <1>1, <1>2, <1>3, <2>2
    <3>2. all[e + 1] = LF /\ all[e + 1] = s[cut + (e + 1)]
      BY <1>1, <1>3, <2>2, <3>1
    <3>3. QED
      BY <3>1, <3>2
  <2>3. QED
    BY <2>1, <2>2
<1>12. QED
  BY <1>3, <1>5, <1>7, <1>9, <1>10, <1>11 DEF e, n

LEMMA LineOf ==
  ASSUME NEW s, NEW l
  PROVE  l \in Log!LinesOf(s) <=>
           /\ l \in [from : 0 .. Len(s), to : 0 .. Len(s)] /\ l.from < l.to
           /\ \A i \in l.from + 1 .. l.to : s[i] # LF
           /\ l.from = 0 \/ s[l.from] = LF
           /\ l.to = Len(s) \/ s[l.to + 1] = LF
BY Zenon DEF Log!LinesOf

\* There is one line that begins at logPos, or none if a line feed is there.
LEMMA LineAt ==
  ASSUME NEW s \in Seq(LogBytes), NEW cut, CutAt(s, all, cut),
         logPos \in Nat, logPos < Len(all), logPos = 0 \/ all[logPos] = LF
  PROVE  /\ logPos < Log!LineEnd =>
              [from |-> cut + logPos, to |-> cut + Log!LineEnd] \in Log!LinesOf(s)
         /\ \A l \in Log!LinesOf(s) :
              cut + logPos <= l.from /\ l.from < cut + Log!LineEnd + 1 =>
                /\ logPos < Log!LineEnd
                /\ l = [from |-> cut + logPos, to |-> cut + Log!LineEnd]
<1> DEFINE e == Log!LineEnd
           b == cut + logPos
           z == cut + e
           new == [from |-> b, to |-> z]
<1>1. /\ e \in logPos .. Len(all)
      /\ \A i \in b + 1 .. z : s[i] # LF
      /\ \/ e = Len(all) /\ z = Len(s)
         \/ e < Len(all) /\ s[z + 1] = LF
  BY TheLineIs
<1>2. /\ cut \in 0 .. Len(s) /\ Len(s) \in Nat /\ Len(all) = Len(s) - cut
      /\ \A i \in 1 .. Len(all) : all[i] = s[cut + i]
  BY ScannedIs
<1> HIDE DEF e
<1>3. b = 0 \/ s[b] = LF
  <2>1. CASE logPos = 0
    <3>1. cut = 0 \/ s[cut] = LF
      BY DEF CutAt
    <3>2. b = cut
      BY <1>2, <2>1
    <3>3. QED
      BY <3>1, <3>2
  <2>2. CASE logPos # 0
    <3>1. logPos \in 1 .. Len(all) /\ all[logPos] = LF
      BY <1>2, <2>2
    <3>2. QED
      BY <1>2, <3>1
  <2>3. QED
    BY <2>1, <2>2
<1>4. b \in 0 .. Len(s) /\ z \in 0 .. Len(s) /\ b <= z /\ b < Len(s)
      /\ (b < z <=> logPos < e)
  BY <1>1, <1>2
<1> HIDE DEF b, z
<1>5. ASSUME logPos < e
      PROVE  new \in Log!LinesOf(s)
  <2>1. new \in [from : 0 .. Len(s), to : 0 .. Len(s)] /\ new.from = b /\ new.to = z
    BY <1>4
  <2>2. z = Len(s) \/ s[z + 1] = LF
    BY <1>1
  <2> HIDE DEF new
  <2>3. QED
    BY <1>1, <1>3, <1>4, <1>5, <2>1, <2>2, LineOf
<1>6. ASSUME NEW l \in Log!LinesOf(s), b <= l.from, l.from < z + 1
      PROVE  logPos < e /\ l = new
  <2>1. /\ l \in [from : 0 .. Len(s), to : 0 .. Len(s)] /\ l.from < l.to
        /\ \A i \in l.from + 1 .. l.to : s[i] # LF
        /\ l.from = 0 \/ s[l.from] = LF
        /\ l.to = Len(s) \/ s[l.to + 1] = LF
    BY LineOf
  <2>2. l.from \in 0 .. Len(s) /\ l.to \in 0 .. Len(s) /\ l = [from |-> l.from, to |-> l.to]
    BY <2>1
  <2>3. l.from = b
    <3>1. SUFFICES ASSUME l.from # b
                   PROVE  FALSE
      OBVIOUS
    <3>2. l.from \in b + 1 .. z /\ l.from # 0
      BY <1>4, <1>6, <2>2, <3>1
    <3>3. QED
      BY <1>1, <2>1, <3>2
  <2>4. ~(l.to < z)
    <3>1. SUFFICES ASSUME l.to < z
                   PROVE  FALSE
      OBVIOUS
    <3>2. l.to # Len(s) /\ l.to + 1 \in b + 1 .. z
      BY <1>4, <2>1, <2>2, <2>3, <3>1
    <3>3. QED
      BY <1>1, <2>1, <3>2
  <2>5. ~(l.to > z)
    <3>1. SUFFICES ASSUME l.to > z
                   PROVE  FALSE
      OBVIOUS
    <3>2. z # Len(s) /\ z + 1 \in l.from + 1 .. l.to
      BY <1>4, <2>2, <2>3, <3>1
    <3>3. QED
      BY <1>1, <2>1, <3>2
  <2>6. l.to = z
    BY <1>4, <2>2, <2>4, <2>5
  <2>7. l = new
    BY <2>2, <2>3, <2>6
  <2>8. b < z
    BY <2>1, <2>3, <2>6
  <2>9. QED
    BY <1>4, <2>7, <2>8
<1>7. QED
  BY <1>5, <1>6 DEF b, z, e

-----------------------------------------------------------------------------
LEMMA LineTyped ==
  ASSUME NEW s \in Seq(LogBytes), NEW l \in Log!LinesOf(s)
  PROVE  l.from \in Nat /\ l.to \in Nat /\ l.from < Len(s)
<1>1. /\ l \in [from : 0 .. Len(s), to : 0 .. Len(s)] /\ l.from < l.to
  BY LineOf
<1>2. QED
  BY <1>1

\* No line begins where the scan goes on.
LEMMA SkipsLine ==
  ASSUME NEW s \in Seq(LogBytes), NEW cut \in Nat, NEW n \in Nat, NEW ring, NEW m \in Nat,
         NEW lines \in [1 .. m -> Log!LinesOf(s)], KeptAre(s, cut, n, ring, m, lines),
         \A l \in Log!LinesOf(s) : ~(cut + n <= l.from /\ l.from < cut + (n + 1))
  PROVE  KeptAre(s, cut, n + 1, ring, m, lines)
<1>1. \A i \in 1 .. m : cut <= lines[i].from /\ lines[i].from < cut + n
  BY DEF KeptAre
<1>2. \A i \in 1 .. m : lines[i].from \in Nat
  BY LineTyped
<1>3. \A i \in 1 .. m : cut <= lines[i].from /\ lines[i].from < cut + (n + 1)
  BY <1>1, <1>2
<1>4. ASSUME NEW l \in Log!LinesOf(s), cut <= l.from, l.from < cut + (n + 1)
      PROVE  \E i \in 1 .. m : lines[i] = l
  <2>1. l.from < cut + n
    BY <1>4, LineTyped
  <2>2. QED
    BY <1>4, <2>1 DEF KeptAre
<1>5. QED
  BY <1>3, <1>4, Zenon DEF KeptAre

\* One line begins there, and is kept.
LEMMA KeepsLine ==
  ASSUME NEW s \in Seq(LogBytes), NEW cut \in Nat, NEW n \in Nat, NEW next \in Nat, n < next,
         NEW m \in Nat, NEW ring \in [0 .. KeepLines - 1 -> Seq(LogBytes \ {LF})],
         NEW lines \in [1 .. m -> Log!LinesOf(s)], KeptAre(s, cut, n, ring, m, lines),
         NEW new \in Log!LinesOf(s), new.from = cut + n,
         \A l \in Log!LinesOf(s) : cut + n <= l.from /\ l.from < cut + next => l = new,
         NEW ringNext, NEW shown,
         ringNext = [ring EXCEPT ![m % KeepLines] = shown],
         shown = SubSeq(s, new.from + 1, new.to)
  PROVE  \E more \in [1 .. m + 1 -> Log!LinesOf(s)] :
           KeptAre(s, cut, next, ringNext, m + 1, more)
<1> DEFINE more == [i \in 1 .. m + 1 |-> IF i = m + 1 THEN new ELSE lines[i]]
<1>1. /\ more \in [1 .. m + 1 -> Log!LinesOf(s)] /\ more[m + 1] = new
      /\ \A i \in 1 .. m : more[i] = lines[i] /\ i \in 1 .. m + 1
  OBVIOUS
<1>2. \A i \in 1 .. m + 1 : i \in 1 .. m \/ i = m + 1
  OBVIOUS
<1>3. m + 1 \in 1 .. m + 1
  OBVIOUS
<1> HIDE DEF more
<1>4. \A i \in 1 .. m : lines[i].from \in Nat
  BY LineTyped
<1>5. /\ \A i \in 1 .. m : cut <= lines[i].from /\ lines[i].from < cut + n
      /\ \A i, j \in 1 .. m : i < j => lines[i].from < lines[j].from
      /\ \A l \in Log!LinesOf(s) :
           cut <= l.from /\ l.from < cut + n => \E i \in 1 .. m : lines[i] = l
      /\ \A i \in 1 .. m :
           m < i + KeepLines =>
             ring[(i - 1) % KeepLines] = SubSeq(s, lines[i].from + 1, lines[i].to)
  BY Zenon DEF KeptAre
<1>6. \A i \in 1 .. m + 1 : cut <= more[i].from /\ more[i].from < cut + next
  <2>1. TAKE i \in 1 .. m + 1
  <2>2. CASE i = m + 1
    BY <1>1, <2>2
  <2>3. CASE i \in 1 .. m
    BY <1>1, <1>4, <1>5, <2>3
  <2>4. QED
    BY <1>2, <2>2, <2>3
<1>7. \A i, j \in 1 .. m + 1 : i < j => more[i].from < more[j].from
  <2>1. TAKE i, j \in 1 .. m + 1
  <2>2. HAVE i < j
  <2>3. i \in 1 .. m
    BY <2>2
  <2>4. CASE j = m + 1
    BY <1>1, <1>5, <2>3, <2>4
  <2>5. CASE j \in 1 .. m
    BY <1>1, <1>5, <2>2, <2>3, <2>5
  <2>6. QED
    BY <1>2, <2>4, <2>5
<1>8. \A l \in Log!LinesOf(s) :
        cut <= l.from /\ l.from < cut + next => \E i \in 1 .. m + 1 : more[i] = l
  <2>1. TAKE l \in Log!LinesOf(s)
  <2>2. HAVE cut <= l.from /\ l.from < cut + next
  <2>3. CASE cut + n <= l.from
    <3>1. l = new
      BY <2>2, <2>3
    <3>2. QED
      BY <1>1, <1>3, <3>1
  <2>4. CASE ~(cut + n <= l.from)
    <3>1. l.from < cut + n
      BY <2>4, LineTyped
    <3>2. PICK i \in 1 .. m : lines[i] = l
      BY <1>5, <2>2, <3>1
    <3>3. QED
      BY <1>1, <3>2
  <2>5. QED
    BY <2>3, <2>4
<1>9. KeepLines \in Nat \ {0} /\ m \in Int
  BY TailTyped
<1>10. m % KeepLines \in 0 .. KeepLines - 1
  BY <1>9, DivMod, Zenon
<1>11. \A i \in 1 .. m + 1 :
         m + 1 < i + KeepLines =>
           ringNext[(i - 1) % KeepLines] = SubSeq(s, more[i].from + 1, more[i].to)
  <2>1. TAKE i \in 1 .. m + 1
  <2>2. HAVE m + 1 < i + KeepLines
  <2>3. CASE i = m + 1
    <3>1. i - 1 = m
      BY <2>3
    <3>2. ringNext[m % KeepLines] = shown
      BY <1>10
    <3>3. QED
      BY <1>1, <2>3, <3>1, <3>2
  <2>4. CASE i \in 1 .. m
    <3>1. /\ i - 1 \in Nat /\ i - 1 \in Int /\ i - 1 < m /\ m < (i - 1) + KeepLines
          /\ m < i + KeepLines
      BY <1>9, <2>2, <2>4
    <3>2. (i - 1) % KeepLines # m % KeepLines
      BY <1>9, <3>1, ApartInRing, Zenon
    <3>3. (i - 1) % KeepLines \in 0 .. KeepLines - 1
      BY <1>9, <3>1, DivMod, Zenon
    <3>4. ringNext[(i - 1) % KeepLines] = ring[(i - 1) % KeepLines]
      BY <3>2, <3>3
    <3>5. ring[(i - 1) % KeepLines] = SubSeq(s, lines[i].from + 1, lines[i].to)
      BY <1>5, <2>4, <3>1
    <3>6. QED
      BY <1>1, <2>4, <3>4, <3>5
  <2>5. QED
    BY <1>2, <2>3, <2>4
<1>12. KeptAre(s, cut, next, ringNext, m + 1, more)
  BY <1>6, <1>7, <1>8, <1>11, Zenon DEF KeptAre
<1>13. QED
  BY <1>1, <1>12

-----------------------------------------------------------------------------
\* The text that is replayed.
LogText == dir[best].text

LEMMA LogTextTyped ==
  ASSUME NewestInv, best # Log!NoFile
  PROVE  LogText \in Seq(LogBytes)
BY DEF NewestInv, LogDirectory, LogText

\* The next line is kept, if it is not empty.
LEMMA ScanKeep ==
  ASSUME NewestInv, ScanInv, Log!KeepLine
  PROVE  ScanInv'
<1> DEFINE s == LogText
           e == Log!LineEnd
<1>1. /\ logAt = "lines" /\ logPos < Len(all) /\ logPos' = e + 1
      /\ UNCHANGED <<dir, best, all, emitted, logAt>>
  BY DEF Log!KeepLine
<1>2. /\ TheLine = <<>> => UNCHANGED <<keep, kept>>
      /\ TheLine # <<>> => /\ keep' = [keep EXCEPT ![kept % KeepLines] = TheLine]
                           /\ kept' = kept + 1
  BY DEF Log!KeepLine, TheLine
<1>3. s \in Seq(LogBytes) /\ s' = s
  BY <1>1, LogTextTyped DEF NewestInv, LogText
<1>4. /\ all \in Seq(LogBytes) /\ logPos \in 0 .. Len(all) + 1 /\ kept \in Nat
      /\ keep \in [0 .. KeepLines - 1 -> Seq(LogBytes \ {LF})]
      /\ emitted \in Seq(Seq(LogBytes \ {LF}))
      /\ logPos = 0 \/ logPos = Len(all) + 1 \/ all[logPos] = LF
  BY <1>1 DEF ScanInv
<1>5. PICK cut \in 0 .. Len(s), lines \in [1 .. kept -> Log!LinesOf(s)] :
        CutAt(s, all, cut) /\ KeptAre(s, cut, logPos, keep, kept, lines)
  <2>1. Kept(s)
    BY <1>1 DEF ScanInv, LogText
  <2>2. QED
    BY <2>1, Zenon DEF Kept
<1>6. /\ cut \in 0 .. Len(s) /\ Len(s) \in Nat /\ Len(all) = Len(s) - cut
      /\ \A i \in 1 .. Len(all) : all[i] = s[cut + i]
  BY <1>3, <1>5, ScannedIs
<1>7. logPos \in Nat /\ (logPos = 0 \/ all[logPos] = LF)
  BY <1>1, <1>4, <1>6
<1>8. /\ e \in logPos .. Len(all)
      /\ TheLine \in Seq(LogBytes \ {LF}) /\ Len(TheLine) = e - logPos
      /\ TheLine = SubSeq(s, cut + logPos + 1, cut + e)
      /\ \/ e = Len(all) /\ cut + e = Len(s)
         \/ e < Len(all) /\ s[cut + e + 1] = LF
  BY <1>1, <1>3, <1>5, <1>7, TheLineIs
<1> DEFINE new == [from |-> cut + logPos, to |-> cut + e]
<1>9. /\ logPos < e => new \in Log!LinesOf(s)
      /\ \A l \in Log!LinesOf(s) :
           cut + logPos <= l.from /\ l.from < cut + e + 1 => logPos < e /\ l = new
  BY <1>1, <1>3, <1>5, <1>7, LineAt
<1> HIDE DEF s, e
<1>10. cut \in Nat /\ e \in Nat /\ Len(all) \in Nat /\ cut + e + 1 = cut + (e + 1)
  BY <1>6, <1>7, <1>8, SMTT(30)
<1>11. logPos <= e /\ e <= Len(all)
  <2>1. e \in logPos .. Len(all)
    BY <1>8
  <2>2. QED
    BY <1>7, <1>10, <2>1
<1>12. TheLine = <<>> <=> logPos = e
  <2>1. TheLine = <<>> <=> Len(TheLine) = 0
    BY <1>8, EmptySeq
  <2>2. e - logPos = 0 <=> logPos = e
    BY <1>7, <1>10
  <2>3. QED
    BY <1>8, <2>1, <2>2
<1>13. logPos' \in 0 .. Len(all) + 1 /\ (logPos' = Len(all) + 1 \/ all[logPos'] = LF)
  <2>1. logPos' \in 0 .. Len(all) + 1
    BY <1>1, <1>7, <1>8, <1>10
  <2>2. CASE e = Len(all)
    BY <1>1, <2>1, <2>2
  <2>3. CASE e # Len(all)
    <3>1. e + 1 \in 1 .. Len(all)
      BY <1>10, <1>11, <2>3
    <3>2. all[e + 1] = s[cut + (e + 1)]
      BY <1>6, <3>1
    <3>3. s[cut + (e + 1)] = LF
      BY <1>8, <1>10, <2>3
    <3>4. QED
      BY <1>1, <2>1, <3>2, <3>3
  <2>4. QED
    BY <2>2, <2>3
<1>14. CASE TheLine = <<>>
  <2>1. keep' = keep /\ kept' = kept /\ logPos = e /\ logPos' = logPos + 1
    BY <1>1, <1>2, <1>12, <1>14
  <2>2. \A l \in Log!LinesOf(s) : ~(cut + logPos <= l.from /\ l.from < cut + (logPos + 1))
    BY <1>7, <1>9, <1>10, <2>1
  <2>3. KeptAre(s, cut, logPos + 1, keep, kept, lines)
    BY <1>3, <1>4, <1>5, <1>7, <1>10, <2>2, SkipsLine
  <2>4. Kept(s)'
    BY <1>1, <1>3, <1>5, <2>1, <2>3, Zenon DEF Kept
  <2>5. QED
    BY <1>1, <1>3, <1>4, <1>13, <2>1, <2>4 DEF ScanInv, s, LogText
<1>15. CASE TheLine # <<>>
  <2>1. /\ keep' = [keep EXCEPT ![kept % KeepLines] = TheLine] /\ kept' = kept + 1
        /\ logPos < e /\ logPos < e + 1
    <3>1. logPos < e /\ logPos < e + 1
      BY <1>7, <1>10, <1>12, <1>15, <1>11
    <3>2. QED
      BY <1>2, <1>15, <3>1
  <2>2. new \in Log!LinesOf(s) /\ new.from = cut + logPos /\ new.to = cut + e
    BY <1>9, <2>1
  <2>3. \A l \in Log!LinesOf(s) :
          cut + logPos <= l.from /\ l.from < cut + (e + 1) => l = new
    BY <1>9, <1>10
  <2> HIDE DEF new
  <2>4. TheLine = SubSeq(s, new.from + 1, new.to) /\ e + 1 \in Nat
    BY <1>8, <1>10, <2>2
  <2>5. \E more \in [1 .. kept + 1 -> Log!LinesOf(s)] :
          KeptAre(s, cut, e + 1, keep', kept + 1, more)
    BY <1>3, <1>4, <1>5, <1>7, <1>10, <2>1, <2>2, <2>3, <2>4, KeepsLine
  <2>6. \E more \in [1 .. kept' -> Log!LinesOf(s)] :
          KeptAre(s, cut, logPos', keep', kept', more)
    BY <1>1, <2>1, <2>5
  <2>7. Kept(s)'
    BY <1>1, <1>3, <1>5, <2>6, Zenon DEF Kept
  <2>8. keep' \in [0 .. KeepLines - 1 -> Seq(LogBytes \ {LF})] /\ kept' \in Nat
    <3>1. TheLine \in Seq(LogBytes \ {LF})
      BY <1>8
    <3>2. kept' \in Nat
      BY <1>4, <2>1
    <3>3. QED
      BY <1>4, <2>1, <3>1, <3>2, Zenon
  <2>9. QED
    BY <1>1, <1>3, <1>4, <1>13, <2>1, <2>7, <2>8 DEF ScanInv, s, LogText
<1>16. QED
  BY <1>14, <1>15

-----------------------------------------------------------------------------
\* Something is read, and the scan begins; or the file holds no whole line.
LEMMA ScanRead ==
  ASSUME NewestInv, ScanInv, Log!ReadTail
  PROVE  ScanInv'
<1> DEFINE s == LogText
<1>0. PICK start \in {Log!TailStart(s), 0} :
        /\ all' = Rested(s, start)
        /\ logAt' = IF Rested(s, start) = <<>> THEN "returned" ELSE "lines"
  BY DEF Log!ReadTail, Rested, LogText
<1>1. /\ logAt = "read" /\ best # Log!NoFile /\ all' = Rested(s, start)
      /\ logAt' = IF Rested(s, start) = <<>> THEN "returned" ELSE "lines"
      /\ UNCHANGED <<dir, best, logPos, keep, kept, emitted>>
  BY <1>0 DEF Log!ReadTail, NewestInv
<1>2. s \in Seq(LogBytes) /\ s' = s
  BY <1>1, LogTextTyped DEF LogText
<1>3. /\ logPos = 0 /\ kept = 0 /\ emitted \in Seq(Seq(LogBytes \ {LF}))
      /\ keep \in [0 .. KeepLines - 1 -> Seq(LogBytes \ {LF})]
  BY <1>1 DEF ScanInv
<1> HIDE DEF s
<1>4. Rested(s, start) \in Seq(LogBytes) /\ Len(Rested(s, start)) \in Nat
  BY <1>2, RestIs
<1>5. ASSUME Rested(s, start) # <<>>
      PROVE  Kept(s)'
  <2>1. PICK cut \in 0 .. Len(s) : CutAt(s, Rested(s, start), cut)
    BY <1>2, <1>5, RestIs
  <2>2. [i \in 1 .. 0 |-> 0] \in [1 .. 0 -> Log!LinesOf(s)] /\ cut \in Nat
    BY <1>2, <2>1
  <2>3. \A l \in Log!LinesOf(s) : ~(cut <= l.from /\ l.from < cut + 0)
    BY <1>2, <2>2, LineTyped
  <2>4. KeptAre(s, cut, 0, keep, 0, [i \in 1 .. 0 |-> 0])
    BY <2>3 DEF KeptAre
  <2>5. QED
    BY <1>1, <1>2, <1>3, <2>1, <2>2, <2>4, Zenon DEF Kept
<1>6. logAt' \in {"lines", "returned"} /\ (logAt' = "lines" => Kept(s)')
  BY <1>1, <1>5
<1>7. QED
  BY <1>1, <1>2, <1>3, <1>4, <1>6 DEF ScanInv, s, LogText

\* A line that begins before the cut begins before the tail.
LEMMA CutOff ==
  ASSUME NEW s \in Seq(LogBytes), NEW rest, NEW cut \in 0 .. Len(s), CutAt(s, rest, cut),
         NEW l \in Log!LinesOf(s), l.from < cut
  PROVE  Log!TailStart(s) # 0 /\ l.from <= Log!TailStart(s)
<1>1. Log!TailStart(s) = 0 \/ l.from > Log!TailStart(s) => cut <= l.from
  BY DEF CutAt
<1>2. l.from \in Nat /\ cut \in Nat
  BY LineTyped
<1>3. Log!TailStart(s) \in Nat
  BY TailTyped DEF Log!TailStart
<1>4. QED
  BY <1>1, <1>2, <1>3

\* When nothing is read, there is nothing to be replayed.
LEMMA ReplayNothing ==
  ASSUME NewestInv, ScanInv, Log!ReadTail
  PROVE  Log!TailIsReplayed'
<1> DEFINE s == LogText
<1>0. PICK start \in {Log!TailStart(s), 0} :
        logAt' = IF Rested(s, start) = <<>> THEN "returned" ELSE "lines"
  BY DEF Log!ReadTail, Rested, LogText
<1>1. /\ logAt = "read" /\ best # Log!NoFile
      /\ logAt' = IF Rested(s, start) = <<>> THEN "returned" ELSE "lines"
      /\ UNCHANGED <<dir, best, emitted>>
  BY <1>0 DEF Log!ReadTail, NewestInv
<1>2. s \in Seq(LogBytes) /\ dir'[best'].text = s
  BY <1>1, LogTextTyped DEF LogText
<1>3. emitted' = <<>> /\ DOMAIN emitted' = {} /\ Len(emitted') = 0
  BY <1>1 DEF ScanInv
<1> HIDE DEF s
<1>4. CASE Rested(s, start) # <<>>
  <2>1. logAt' # "returned"
    BY <1>1, <1>4
  <2>2. QED
    BY <2>1 DEF Log!TailIsReplayed
<1>5. CASE Rested(s, start) = <<>>
  <2>1. ASSUME NEW l \in Log!LinesOf(s)
        PROVE  Log!TailStart(s) # 0 /\ l.from <= Log!TailStart(s)
    <3>1. CASE \E cut \in 0 .. Len(s) : CutAt(s, Rested(s, start), cut)
      <4>1. PICK cut \in 0 .. Len(s) : CutAt(s, Rested(s, start), cut)
        BY <3>1
      <4>2. Len(Rested(s, start)) = Len(s) - cut /\ Len(s) \in Nat
        BY <1>2, <4>1, ScannedIs
      <4>3. cut = Len(s)
        BY <1>5, <4>1, <4>2
      <4>4. l.from < cut
        BY <1>2, <4>3, LineTyped
      <4>5. QED
        BY <1>2, <4>1, <4>4, CutOff
    <3>2. QED
      BY <1>2, <3>1, RestIs
  <2>2. [k \in {} |-> 0] \in [DOMAIN emitted' -> Log!LinesOf(s)]
    BY <1>3
  <2>3. QED
    BY <1>2, <1>3, <2>1, <2>2, Zenon DEF Log!TailIsReplayed
<1>6. QED
  BY <1>4, <1>5

\* The ring is replayed.
LEMMA ReplayRing ==
  ASSUME NewestInv, ScanInv, Log!Emit
  PROVE  ScanInv' /\ Log!TailIsReplayed'
<1> DEFINE s == LogText
           emit == IF kept < KeepLines THEN kept ELSE KeepLines
<1>1. /\ logAt = "lines" /\ logPos >= Len(all) /\ logAt' = "returned"
      /\ emitted' = [i \in 1 .. emit |-> keep[(kept - emit + (i - 1)) % KeepLines]]
      /\ UNCHANGED <<dir, best, all, logPos, keep, kept>>
  BY DEF Log!Emit
<1>2. s \in Seq(LogBytes) /\ dir'[best'].text = s
  BY <1>1, LogTextTyped DEF NewestInv, LogText
<1>3. /\ all \in Seq(LogBytes) /\ logPos \in 0 .. Len(all) + 1 /\ kept \in Nat
      /\ keep \in [0 .. KeepLines - 1 -> Seq(LogBytes \ {LF})]
  BY DEF ScanInv
<1>4. PICK cut \in 0 .. Len(s), lines \in [1 .. kept -> Log!LinesOf(s)] :
        CutAt(s, all, cut) /\ KeptAre(s, cut, logPos, keep, kept, lines)
  <2>1. Kept(s)
    BY <1>1 DEF ScanInv, LogText
  <2>2. QED
    BY <2>1, Zenon DEF Kept
<1> HIDE DEF s
<1>5. /\ \A i \in 1 .. kept : cut <= lines[i].from /\ lines[i].from < cut + logPos
      /\ \A i, j \in 1 .. kept : i < j => lines[i].from < lines[j].from
      /\ \A l \in Log!LinesOf(s) :
           cut <= l.from /\ l.from < cut + logPos => \E i \in 1 .. kept : lines[i] = l
      /\ \A i \in 1 .. kept :
           kept < i + KeepLines =>
             keep[(i - 1) % KeepLines] = SubSeq(s, lines[i].from + 1, lines[i].to)
  BY <1>4 DEF KeptAre
<1>6. /\ cut \in Nat /\ Len(s) \in Nat /\ Len(all) = Len(s) - cut /\ logPos \in Nat
      /\ Len(s) <= cut + logPos
  <2>1. cut \in 0 .. Len(s) /\ Len(s) \in Nat /\ Len(all) = Len(s) - cut
    BY <1>2, <1>4, ScannedIs
  <2>2. Len(all) \in Nat /\ logPos \in Nat
    BY <1>3, LenProperties
  <2>3. QED
    BY <1>1, <2>1, <2>2
<1>7. /\ emit \in Nat /\ emit <= KeepLines /\ emit <= kept /\ KeepLines \in Nat \ {0}
      /\ (emit < kept => emit = KeepLines)
  BY <1>3, TailTyped
<1> HIDE DEF emit
<1> DEFINE gone == kept - emit
<1>8. gone \in Nat /\ kept = gone + emit
  BY <1>3, <1>7
<1>9. emitted' = [i \in 1 .. emit |-> keep[(gone + (i - 1)) % KeepLines]]
  BY <1>1
<1> HIDE DEF gone
<1>10. DOMAIN emitted' = 1 .. emit
  BY <1>9
<1>11. \A k \in 1 .. emit : /\ gone + k \in 1 .. kept /\ kept < (gone + k) + KeepLines
                            /\ gone + (k - 1) = (gone + k) - 1 /\ gone + (k - 1) \in Int
  BY <1>7, <1>8
<1>12. emitted' \in Seq(Seq(LogBytes \ {LF})) /\ Len(emitted') = emit
  <2>1. ASSUME NEW k \in 1 .. emit
        PROVE  keep[(gone + (k - 1)) % KeepLines] \in Seq(LogBytes \ {LF})
    <3>1. (gone + (k - 1)) % KeepLines \in 0 .. KeepLines - 1
      BY <1>7, <1>11, DivMod, Zenon
    <3>2. QED
      BY <1>3, <3>1
  <2>2. emitted' \in [1 .. emit -> Seq(LogBytes \ {LF})]
    BY <1>9, <2>1
  <2>3. QED
    BY <1>7, <2>2
<1>13. ScanInv'
  BY <1>1, <1>3, <1>12 DEF ScanInv
<1> DEFINE replayed == [k \in 1 .. emit |-> lines[gone + k]]
<1>14. /\ replayed \in [DOMAIN emitted' -> Log!LinesOf(s)]
       /\ \A k \in 1 .. emit : replayed[k] = lines[gone + k]
  BY <1>4, <1>10, <1>11
<1> HIDE DEF replayed
<1>15. \A k \in DOMAIN emitted' :
         emitted'[k] = SubSeq(s, replayed[k].from + 1, replayed[k].to)
  <2>1. TAKE k \in DOMAIN emitted'
  <2>2. k \in 1 .. emit
    BY <1>10
  <2>3. emitted'[k] = keep[(gone + (k - 1)) % KeepLines]
    BY <1>9, <2>2
  <2>4. keep[((gone + k) - 1) % KeepLines]
          = SubSeq(s, lines[gone + k].from + 1, lines[gone + k].to)
    BY <1>5, <1>11, <2>2
  <2>5. QED
    BY <1>11, <1>14, <2>2, <2>3, <2>4
<1>16. \A k, l \in DOMAIN emitted' : k < l => replayed[k].from < replayed[l].from
  <2>1. TAKE k, l \in DOMAIN emitted'
  <2>2. HAVE k < l
  <2>3. k \in 1 .. emit /\ l \in 1 .. emit
    BY <1>10
  <2>4. gone + k < gone + l
    BY <1>8, <2>2, <2>3
  <2>5. QED
    BY <1>5, <1>11, <1>14, <2>3, <2>4
<1>17. ASSUME NEW l \in Log!LinesOf(s)
       PROVE  \/ \E k \in DOMAIN emitted' : replayed[k] = l
              \/ /\ \A k \in DOMAIN emitted' : l.from < replayed[k].from
                 /\ \/ Len(emitted') = KeepLines
                    \/ Log!TailStart(s) # 0 /\ l.from <= Log!TailStart(s)
  <2>1. l.from \in Nat /\ l.from < Len(s)
    BY <1>2, LineTyped
  <2>2. CASE l.from < cut
    <3>1. Log!TailStart(s) # 0 /\ l.from <= Log!TailStart(s)
      BY <1>2, <1>4, <2>2, CutOff
    <3>2. \A k \in 1 .. emit : l.from < replayed[k].from
      <4>1. TAKE k \in 1 .. emit
      <4>2. lines[gone + k] \in Log!LinesOf(s) /\ cut <= lines[gone + k].from
        BY <1>4, <1>5, <1>11
      <4>3. lines[gone + k].from \in Nat
        BY <1>2, <4>2, LineTyped
      <4>4. QED
        BY <1>6, <1>14, <2>1, <2>2, <4>2, <4>3
    <3>3. QED
      BY <1>10, <3>1, <3>2
  <2>3. CASE ~(l.from < cut)
    <3>1. cut <= l.from /\ l.from < cut + logPos
      BY <1>6, <2>1, <2>3
    <3>2. PICK i \in 1 .. kept : lines[i] = l
      BY <1>5, <3>1
    <3>3. CASE i > gone
      <4>1. i - gone \in 1 .. emit /\ gone + (i - gone) = i
        BY <1>3, <1>7, <1>8, <3>3
      <4>2. QED
        BY <1>10, <1>14, <3>2, <4>1
    <3>4. CASE ~(i > gone)
      <4>1. emit = KeepLines
        BY <1>3, <1>7, <1>8, <3>4
      <4>2. \A k \in 1 .. emit : i < gone + k
        BY <1>3, <1>8, <3>4
      <4>3. \A k \in 1 .. emit : l.from < replayed[k].from
        BY <1>5, <1>11, <1>14, <3>2, <4>2
      <4>4. QED
        BY <1>10, <1>12, <4>1, <4>3
    <3>5. QED
      BY <3>3, <3>4
  <2>4. QED
    BY <2>2, <2>3
<1>18. Log!TailIsReplayed'
  BY <1>2, <1>14, <1>15, <1>16, <1>17, Zenon DEF Log!TailIsReplayed
<1>19. QED
  BY <1>13, <1>18

-----------------------------------------------------------------------------
LogInv == part = "log" => NewestInv /\ ScanInv /\ Log!TailIsReplayed

LEMMA LogInit == Init => LogInv
<1> SUFFICES ASSUME Init, part = "log"
             PROVE  NewestInv /\ ScanInv /\ Log!TailIsReplayed
  BY DEF LogInv
<1>1. Log!Init
  BY DEF Init
<1>2. /\ all = <<>> /\ logPos = 0 /\ keep = [i \in 0 .. KeepLines - 1 |-> <<>>]
      /\ kept = 0 /\ emitted = <<>> /\ logAt = "readdir"
  BY <1>1 DEF Log!Init
<1>3. ScanInv
  <2>1. <<>> \in Seq(LogBytes) /\ <<>> \in Seq(LogBytes \ {LF})
        /\ <<>> \in Seq(Seq(LogBytes \ {LF})) /\ 0 \in 0 .. Len(<<>>) + 1
    OBVIOUS
  <2>2. keep \in [0 .. KeepLines - 1 -> Seq(LogBytes \ {LF})]
    BY <1>2, <2>1
  <2>3. QED
    BY <1>2, <2>1, <2>2 DEF ScanInv
<1>4. QED
  BY <1>1, <1>2, <1>3, NewestInit DEF Log!TailIsReplayed

LEMMA LogStep == LogInv /\ [Next]_vars => LogInv'
<1> SUFFICES ASSUME NewestInv, ScanInv, Log!TailIsReplayed, Log!Next \/ UNCHANGED logVars
             PROVE  ScanInv' /\ Log!TailIsReplayed'
  BY OnePart, NewestStep, Zenon DEF LogInv
<1>1. ASSUME NEW file \in Files, Log!ReadDir(file)
      PROVE  ScanInv' /\ Log!TailIsReplayed'
  <2>1. logAt = "readdir" /\ UNCHANGED <<all, logPos, keep, kept, emitted, logAt>>
    BY <1>1 DEF Log!ReadDir
  <2>2. QED
    BY <2>1 DEF ScanInv, Log!TailIsReplayed
<1>2. CASE Log!DirRead
  <2>1. /\ logAt = "readdir" /\ UNCHANGED <<best, all, logPos, keep, kept, emitted>>
        /\ logAt' = IF best = Log!NoFile THEN "returned" ELSE "read"
    BY <1>2 DEF Log!DirRead
  <2>2. ScanInv'
    BY <2>1 DEF ScanInv
  <2>3. ~(logAt' = "returned" /\ best' # Log!NoFile)
    BY <2>1
  <2>4. QED
    BY <2>2, <2>3 DEF Log!TailIsReplayed
<1>3. CASE Log!ReadTail
  BY <1>3, ScanRead, ReplayNothing
<1>4. CASE Log!KeepLine
  <2>1. logAt' = "lines"
    BY <1>4 DEF Log!KeepLine
  <2>2. QED
    BY <1>4, <2>1, ScanKeep DEF Log!TailIsReplayed
<1>5. CASE Log!Emit
  BY <1>5, ReplayRing
<1>6. CASE Log!OpenFails
  <2>1. /\ logAt = "read" /\ logAt' = "failed"
        /\ UNCHANGED <<best, all, logPos, keep, kept, emitted>>
    BY <1>6 DEF Log!OpenFails
  <2>2. QED
    BY <2>1 DEF ScanInv, Log!TailIsReplayed
<1>7. CASE UNCHANGED logVars
  <2>1. UNCHANGED <<dir, best, all, logPos, keep, kept, emitted, logAt>>
    BY <1>7 DEF logVars
  <2>2. ScanInv'
    BY <2>1, Zenon DEF ScanInv, Kept
  <2>3. Log!TailIsReplayed'
    <3>1. dir' = dir /\ best' = best /\ emitted' = emitted /\ logAt' = logAt
      BY <2>1
    <3>2. QED
      BY <3>1 DEF Log!TailIsReplayed
  <2>4. QED
    BY <2>2, <2>3
<1>8. QED
  BY <1>1, <1>2, <1>3, <1>4, <1>5, <1>6, <1>7 DEF Log!Next

LEMMA LogSafely == LogInv => LogIsReplayed
<1> SUFFICES ASSUME NewestInv, ScanInv, Log!TailIsReplayed
             PROVE  Log!TypeOK /\ Log!NewestIsReplayed
  BY DEF LogInv, LogIsReplayed
<1>1. Log!TypeOK
  BY DEF NewestInv, LogDirectory, ScanInv, Log!TypeOK
<1>2. Log!NewestIsReplayed
  <2>1. SUFFICES ASSUME logAt # "readdir"
                 PROVE  /\ best # Self
                        /\ \A file \in DOMAIN dir \ {Self} :
                             dir[file].time # Log!NoTime =>
                               best # Log!NoFile /\ dir[file].time <= dir[best].time
    BY DEF Log!NewestIsReplayed
  <2>2. best # Self
    BY TailTyped DEF NewestInv
  <2>3. QED
    BY <2>1, <2>2 DEF NewestInv
<1>3. QED
  BY <1>1, <1>2

\* What is replayed of a log are whole lines of it, in order and with none left
\* out after the first of them; only as many as the ring holds are dropped, and
\* lines that begin before the tail.  The log is the newest of another process.
THEOREM LogSafe == Spec => []LogIsReplayed
BY LogInit, LogStep, LogSafely, PTL DEF Spec

=============================================================================

