-------------------------------- MODULE Aead --------------------------------
(***************************************************************************)
(* chacha20poly1305_encrypt and _decrypt of portable_crypto.cpp with the   *)
(* Poly1305 they use: a message is sealed, travels, and is opened.         *)
(*                                                                         *)
(* Widths are parameters.  A limb has 26 bits in the code and 4 for TLC    *)
(* (2^20 - 5 is a prime too), a block two bits less than five limbs; it has*)
(* 16 bytes in the code and BlockBytes here, a keystream block 4 blocks in *)
(* the code and ChunkBytes here.  ChaCha20 itself is a function Stream of  *)
(* the counter, the key and the nonce being fixed.  The 32-bit words in    *)
(* which the code adds a block and writes the tag are not modelled; where  *)
(* it joins limbs by an OR, so does the model.                             *)
(*                                                                         *)
(* An operator introduced as a mutant is no part of the specification: it  *)
(* is the next definition with a plausible bug, and breaks a property.     *)
(***************************************************************************)
EXTENDS LimbArithmetic

CONSTANTS LimbWidth,  \* the bits of a limb
          BlockBytes, ByteBits, ChunkBytes,
          Bytes,   \* the bytes messages are made of
          MaxAad,  \* the longest additional data ...
          MaxLen,  \* ... and the longest text
          Rs, Pads \* one-time keys: clamped r, and what is added at the end

BlockSpan == Power2[BlockBytes * ByteBits]

\* What is assumed of the constants; of the lengths, that a field of the block of
\* lengths holds them.
AeadAssumption ==
  /\ LimbWidth \in Nat /\ BlockBytes \in Nat \ {0, 1} /\ ByteBits \in Nat \ {0}
  /\ Radix = Power2[LimbWidth] /\ BlockBytes * ByteBits + 2 = 5 * LimbWidth
  /\ ChunkBytes \in Nat \ {0}
  /\ MaxAad \in 0 .. Power2[ByteBits] - 1 /\ MaxLen \in 0 .. Power2[ByteBits] - 1
  /\ Bytes \subseteq 0 .. Power2[ByteBits] - 1
  /\ Rs \subseteq 0 .. BlockSpan - 1 /\ Pads \subseteq 0 .. BlockSpan - 1

VARIABLES
  aad, text, \* what is sealed
  r, pad,    \* of the one-time key
  at,        \* where the seal, or then the opening, is
  blocks,    \* what poly1305_authenticate has still to process
  mac,       \* the accumulator: h of Poly1305
  counter,   \* s[12] of the state that encrypts
  cipher, tag,
  altered,   \* the tag was changed on its way
  plain      \* what the opening has decrypted

vars == <<aad, text, r, pad, at, blocks, mac, counter, cipher, tag, altered, plain>>

Aads      == SeqOf(Bytes, MaxAad)
Texts     == SeqOf(Bytes, MaxLen)

Stream(c, i) == (29 * c + 11 * i + 5) % Power2[ByteBits]

\* The number a block of bytes stands for, the first byte the lowest.
BlockOf(bytes) ==
  LET upper[k \in 0 .. Len(bytes)] ==
        IF k = 0 THEN 0
        ELSE bytes[Len(bytes) - k + 1] + Power2[ByteBits] * upper[k - 1]
  IN  upper[Len(bytes)]

\* poly1305_authenticate: the data in blocks, the last filled up with zeros.
BlocksOf(bytes) ==
  [k \in 1 .. (Len(bytes) + BlockBytes - 1) \div BlockBytes |->
     BlockOf(SubSeq(bytes, (k - 1) * BlockBytes + 1,
                    IF k * BlockBytes < Len(bytes) THEN k * BlockBytes ELSE Len(bytes)))]

\* Mutant: the length of the additional data is left out.
LengthBlockShort(a, c) == BlockOf(<<0, Len(c)>>)

LengthBlock(a, c) == BlockOf(<<Len(a), Len(c)>>)

ProcessBlock(h, n, last) ==
  LET d == Digits(n)
      s == [i \in Limbs |-> h[i] + d[i] + IF last /\ i = 4 THEN Radix \div 4 ELSE 0]
  IN  Carried(Product(s, Digits(r)))

\* The limbs joined by OR.
Joined(l) ==
  LET Or(n, limb, place) == BitOr(n, limb * place, BlockBytes * ByteBits)
      square == Radix * Radix
  IN  Or(Or(Or(Or(Or(0, l[0], 1), l[1], Radix), l[2], square), l[3], square * Radix),
         l[4], square * square)

\* final: carries from limb 1 once around.
CarriedOn(h) ==
  LET t2 == h[2] + h[1] \div Radix
      t3 == h[3] + t2 \div Radix
      t4 == h[4] + t3 \div Radix
      t0 == h[0] + (t4 \div Radix) * Fold
  IN  [i \in Limbs |-> <<t0 % Radix, (h[1] % Radix) + t0 \div Radix,
                        t2 % Radix, t3 % Radix, t4 % Radix>>[i + 1]]

\* h - P by way of h + Fold, unless it is negative.
Reduced(h) ==
  LET t0 == h[0] + Fold
      t1 == h[1] + t0 \div Radix
      t2 == h[2] + t1 \div Radix
      t3 == h[3] + t2 \div Radix
      t4 == h[4] + t3 \div Radix - Radix
  IN  IF t4 < 0 THEN h
      ELSE [i \in Limbs |-> <<t0 % Radix, t1 % Radix, t2 % Radix, t3 % Radix, t4>>[i + 1]]

TagOf(h) == (Joined(Reduced(CarriedOn(h))) + pad) % BlockSpan

Init ==
  /\ aad \in Aads /\ text \in Texts
  /\ r \in Rs /\ pad \in Pads
  /\ at = "seal aad" /\ blocks = BlocksOf(aad) /\ mac = Digits(0)
  /\ counter = 1
  /\ cipher = <<>> /\ tag = 0 /\ altered = FALSE /\ plain = <<>>

Given == UNCHANGED <<aad, text, r, pad>>

\* One block into the accumulator, from whichever of the sources is due; no
\* call asks for the high bit.
Authenticate ==
  /\ blocks # <<>>
  /\ mac' = ProcessBlock(mac, Head(blocks), FALSE)
  /\ blocks' = Tail(blocks)
  /\ Given /\ UNCHANGED <<at, counter, cipher, tag, altered, plain>>

SealAadEnds ==
  /\ at = "seal aad" /\ blocks = <<>>
  /\ at' = "encrypt" /\ counter' = 1
  /\ Given /\ UNCHANGED <<blocks, mac, cipher, tag, altered, plain>>

\* The next chunk of from: its bytes xor the keystream of this counter.
Chunk(from, done) ==
  LET last == IF done + ChunkBytes < Len(from) THEN done + ChunkBytes ELSE Len(from)
  IN  [i \in 1 .. last - done |-> BitXor(from[done + i], Stream(counter, i), ByteBits)]

EncryptChunk ==
  /\ at = "encrypt" /\ Len(cipher) < Len(text)
  /\ cipher' = cipher \o Chunk(text, Len(cipher))
  /\ counter' = counter + 1
  /\ Given /\ UNCHANGED <<at, blocks, mac, tag, altered, plain>>

EncryptEnds ==
  /\ at = "encrypt" /\ Len(cipher) = Len(text)
  /\ at' = "seal" /\ blocks' = Append(BlocksOf(cipher), LengthBlock(aad, cipher))
  /\ Given /\ UNCHANGED <<mac, counter, cipher, tag, altered, plain>>

\* The tag is made; it travels with the ciphertext and may change on the way.
\* The other side starts to open.
Seal ==
  /\ at = "seal" /\ blocks = <<>>
  /\ altered' \in BOOLEAN
  /\ tag' = (TagOf(mac) + IF altered' THEN 1 ELSE 0) % BlockSpan
  /\ at' = "open"
  /\ blocks' = Append(BlocksOf(aad) \o BlocksOf(cipher), LengthBlock(aad, cipher))
  /\ mac' = Digits(0)
  /\ Given /\ UNCHANGED <<counter, cipher, plain>>

Open ==
  /\ at = "open" /\ blocks = <<>>
  /\ at' = IF TagOf(mac) = tag THEN "decrypt" ELSE "rejected"
  /\ counter' = 1
  /\ Given /\ UNCHANGED <<blocks, mac, cipher, tag, altered, plain>>

DecryptChunk ==
  /\ at = "decrypt" /\ Len(plain) < Len(cipher)
  /\ plain' = plain \o Chunk(cipher, Len(plain))
  /\ counter' = counter + 1
  /\ Given /\ UNCHANGED <<at, blocks, mac, cipher, tag, altered>>

DecryptEnds ==
  /\ at = "decrypt" /\ Len(plain) = Len(cipher)
  /\ at' = "opened"
  /\ Given /\ UNCHANGED <<blocks, mac, counter, cipher, tag, altered, plain>>

Next ==
  \/ Authenticate \/ SealAadEnds \/ EncryptChunk \/ EncryptEnds \/ Seal
  \/ Open \/ DecryptChunk \/ DecryptEnds

Spec == Init /\ [][Next]_vars

-----------------------------------------------------------------------------
All(a, c) == Append(BlocksOf(a) \o BlocksOf(c), LengthBlock(a, c))

\* a * b modulo P, in pieces that TLC's integers hold.
MulP(a, b) ==
  LET k == 1024
  IN  (((((a * (b \div k)) % P) * k) % P) + ((a * (b % k)) % P)) % P

\* The polynomial in r of a sequence of blocks.
Polynomial(bs) ==
  LET sum[n \in 0 .. Len(bs)] == IF n = 0 THEN 0 ELSE MulP((sum[n - 1] + bs[n]) % P, r)
  IN  sum[Len(bs)]

Sealed == at = "open" /\ ~altered

\* The limbs, whatever they carried, give the polynomial of the blocks, as the code
\* takes them, reduced below P.  RFC 8439 has one more bit in every block.
TagIsThePolynomial ==
  Sealed => tag = (Polynomial(All(aad, cipher)) + pad) % BlockSpan

\* The tag of RFC 8439, which portable_crypto.h names: every block, filled up with
\* zeros, has a 1 put on top of its bytes.
TagIsRfc8439 ==
  LET padded == All(aad, cipher)
      topped == [k \in DOMAIN padded |-> padded[k] + BlockSpan]
  IN  Sealed => tag = (Polynomial(topped) + pad) % BlockSpan

\* Two messages are never authenticated as the same blocks, zeros at the end of
\* the additional data or of the text included.
BlocksTellMessagesApart ==
  at = "seal" /\ Len(blocks) > Len(cipher) \div BlockBytes =>
    \A a \in Aads, c \in Texts : All(a, c) = All(aad, cipher) => a = aad /\ c = cipher

\* An unaltered message opens to the text that was sealed, an altered one is
\* rejected, and nothing of it is decrypted.
OpensWhatWasSealed ==
  /\ at = "opened" => ~altered /\ plain = text
  /\ at = "rejected" => altered /\ plain = <<>>

=============================================================================
