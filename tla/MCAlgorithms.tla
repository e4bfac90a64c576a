---------------------------- MODULE MCAlgorithms ----------------------------
(***************************************************************************)
(* The sequential parts of the native module (cpp/), checked side by side: *)
(* the replay of the last log, the hash, the authenticated encryption, the *)
(* field arithmetic, ladder and inversion of the key agreement, the reading*)
(* of the node list and the STUN client.  They share no state in the       *)
(* models, so a behaviour runs one of them and the others are off.         *)
(***************************************************************************)
EXTENDS Integers, Sequences

CONSTANTS
  LF, LogBytes, MaxLog, Files, Self, TailBytes, KeepLines,    \* of LogTail
  HashBlockBytes, WordBytes, LengthBytes, MaxHashed,          \* of Sha256
  MacRadix, MacFold, LimbWidth, BlockBytes, ByteBits, ChunkBytes,      \* of Aead
  MaxAad, MaxLen,
  Radix, Fold, LimbBits, WordBits, CarryBits,                 \* of FieldElements
  ScalarBits, LowBits, BasePoint,                             \* of X25519
  MaxNodes, Absent,                                           \* of NodeList
  Servers, LocalPorts, Ports, Device, Lengths, MaxAttributes, MaxRequests, \* of StunClient
  Off                                                         \* of a part that does not run

\* One log of at most MaxLog bytes; or several of at most one, with times that may
\* not be known.
LogsUpTo(n) == UNION {[1 .. k -> LogBytes] : k \in 0 .. n}
OneLog   == UNION {[{file} -> [text : LogsUpTo(MaxLog), time : {1}]] : file \in Files \ {Self}}
SomeLogs == UNION {[files -> [text : LogsUpTo(1), time : {-1} \cup 1 .. 2]] : files \in SUBSET Files}
Dirs     == OneLog \cup SomeLogs

\* A one-time key r with every limb small, one that makes limbs carry; a pad that wraps.
Rs    == {273, 943, 262143}
Pads  == {262143}
Bytes == {0, 63}

\* Limbs of the operands: negative, zero and wider than the radix.
LimbValues == {-7, 0, 12}

\* Keys with every bit between the clamped ones, and with clamped bits set.
Privates == {0, 8, 19, 40, 77, 120, 255}

\* An IPv4 endpoint and an IPv6 one, whose address is in brackets.
Keys      == {<<"key 1">>, <<"key 2">>}
IPs       == {<<"100.64.0.1">>}
Endpoints == {<<"1.2.3.4:41641">>, <<"[", "fd7a::1", "]", ":41641">>}
Times     == {"7"}

VARIABLE part \* the part that runs

VARIABLES dir, unread, best, bestTime, all, logPos, keep, kept, emitted, logAt
VARIABLES calls, shaAt, shaLeft, totalBytes, buffer, bitLen, shaBlocks, words
VARIABLES aad, text, r, pad, sealAt, blocks, mac, counter, cipher, tag, altered, plain
VARIABLES f, g, op, h
VARIABLES private, call, pos, swap, x2, z2, x3, z3, result
VARIABLES reg, line, left
VARIABLES listed, nodesArray, nodePos, nodes, listAt
VARIABLES localPort, stunServer, sock, open, made, net, pc, todo, results

logVars == <<dir, unread, best, bestTime, all, logPos, keep, kept, emitted, logAt>>
shaVars == <<calls, shaAt, shaLeft, totalBytes, buffer, bitLen, shaBlocks, words>>
sealVars == <<aad, text, r, pad, sealAt, blocks, mac, counter, cipher, tag, altered, plain>>
fieldVars == <<f, g, op, h>>
ladderVars == <<private, call, pos, swap, x2, z2, x3, z3, result>>
chainVars == <<reg, line, left>>
listVars == <<listed, nodesArray, nodePos, nodes, listAt>>
stunVars == <<localPort, stunServer, sock, open, made, net, pc, todo, results>>
vars == <<part, logVars, shaVars, sealVars, fieldVars, ladderVars, chainVars,
             listVars, stunVars>>

Log == INSTANCE LogTail WITH Bytes <- LogBytes, pos <- logPos, at <- logAt
Sha == INSTANCE Sha256 WITH BlockBytes <- HashBlockBytes, MaxLen <- MaxHashed,
                            at <- shaAt, left <- shaLeft, blocks <- shaBlocks
Seal == INSTANCE Aead WITH Radix <- MacRadix, Fold <- MacFold, at <- sealAt
Field == INSTANCE FieldOperations
Ladder == INSTANCE X25519
Chain == INSTANCE Inversion
List == INSTANCE NodeList WITH at <- listAt, text <- nodesArray
Stun == INSTANCE StunClient

ASSUME PartsAssumption ==
  /\ MaxLog \in Nat /\ Log!TailAssumption
  /\ Sha!ShaAssumption /\ Seal!LimbAssumption /\ Seal!AeadAssumption
  /\ Field!LimbAssumption /\ Field!WidthAssumption /\ Ladder!ScalarAssumption
  /\ Stun!DeviceAssumption

LogOff ==
  /\ dir = Off /\ unread = Off /\ best = Off /\ bestTime = Off /\ all = Off
  /\ logPos = Off /\ keep = Off /\ kept = Off /\ emitted = Off /\ logAt = Off

ShaOff ==
  /\ calls = Off /\ shaAt = Off /\ shaLeft = Off /\ totalBytes = Off /\ buffer = Off
  /\ bitLen = Off /\ shaBlocks = Off /\ words = Off

SealOff ==
  /\ aad = Off /\ text = Off /\ r = Off /\ pad = Off /\ sealAt = Off /\ blocks = Off
  /\ mac = Off /\ counter = Off /\ cipher = Off /\ tag = Off /\ altered = Off
  /\ plain = Off

FieldOff ==
  /\ f = Off /\ g = Off /\ op = Off /\ h = Off

LadderOff ==
  /\ private = Off /\ call = Off /\ pos = Off /\ swap = Off /\ x2 = Off /\ z2 = Off
  /\ x3 = Off /\ z3 = Off /\ result = Off

ChainOff ==
  /\ reg = Off /\ line = Off /\ left = Off

ListOff ==
  /\ listed = Off /\ nodesArray = Off /\ nodePos = Off /\ nodes = Off
  /\ listAt = Off

StunOff ==
  /\ localPort = Off /\ stunServer = Off /\ sock = Off /\ open = Off /\ made = Off
  /\ net = Off /\ pc = Off /\ todo = Off /\ results = Off

Init ==
  /\ part \in {"log", "sha", "seal", "field", "ladder", "chain", "list", "stun"}
  /\ IF part = "log" THEN Log!Init ELSE LogOff
  /\ IF part = "sha" THEN Sha!Init ELSE ShaOff
  /\ IF part = "seal" THEN Seal!Init ELSE SealOff
  /\ IF part = "field" THEN Field!Init ELSE FieldOff
  /\ IF part = "ladder" THEN Ladder!Init ELSE LadderOff
  /\ IF part = "chain" THEN Chain!Init ELSE ChainOff
  /\ IF part = "list" THEN List!Init ELSE ListOff
  /\ IF part = "stun" THEN Stun!Init ELSE StunOff

Next ==
  \/ /\ part = "log" /\ Log!Next
     /\ UNCHANGED <<part, shaVars, sealVars, fieldVars, ladderVars, chainVars, listVars, stunVars>>
  \/ /\ part = "sha" /\ Sha!Next
     /\ UNCHANGED <<part, logVars, sealVars, fieldVars, ladderVars, chainVars, listVars, stunVars>>
  \/ /\ part = "seal" /\ Seal!Next
     /\ UNCHANGED <<part, logVars, shaVars, fieldVars, ladderVars, chainVars, listVars, stunVars>>
  \/ /\ part = "field" /\ Field!Next
     /\ UNCHANGED <<part, logVars, shaVars, sealVars, ladderVars, chainVars, listVars, stunVars>>
  \/ /\ part = "ladder" /\ Ladder!Next
     /\ UNCHANGED <<part, logVars, shaVars, sealVars, fieldVars, chainVars, listVars, stunVars>>
  \/ /\ part = "chain" /\ Chain!Next
     /\ UNCHANGED <<part, logVars, shaVars, sealVars, fieldVars, ladderVars, listVars, stunVars>>
  \/ /\ part = "list" /\ List!Next
     /\ UNCHANGED <<part, logVars, shaVars, sealVars, fieldVars, ladderVars, chainVars, stunVars>>
  \/ /\ part = "stun" /\ Stun!Next
     /\ UNCHANGED <<part, logVars, shaVars, sealVars, fieldVars, ladderVars, chainVars, listVars>>

Spec == Init /\ [][Next]_vars

-----------------------------------------------------------------------------
\* What is replayed of a log is the end of its whole lines, in order, and the log
\* is the newest one of another process.
LogIsReplayed ==
  part = "log" => Log!TypeOK /\ Log!TailIsReplayed /\ Log!NewestIsReplayed

\* However a message is cut into calls, it is compressed padded, and the buffer
\* of the hash never overflows.
HashIsFramed == part = "sha" => Sha!CompressesThePaddedMessage /\ Sha!BufferHasRoom

\* Different messages are authenticated as different blocks, and opening yields
\* what was sealed, and nothing for another tag.
SealIsSound ==
  part = "seal" => Seal!BlocksTellMessagesApart /\ Seal!OpensWhatWasSealed

\* The limbs of a result stand for the result modulo P, and those of a product
\* are within their width again.
FieldIsModP == part = "field" => Field!ArithmeticIsModP /\ Field!ProductsAreReduced

\* The two points of the ladder stay neighbouring multiples of the point that is
\* given, and one of them is returned.
LadderMultiplies == part = "ladder" => Ladder!LadderMultiplies

\* The inversion chain computes the power P - 2, without a product that carries.
ChainInverts == part = "chain" => Chain!NoCarry /\ Chain!PowerIsInverse

\* No node of a list is kept twice, none in the expected format is lost, and each is
\* online as it says itself.
ListIsRead == part = "list" => List!NoNodeTwice /\ List!NoNodeIsLost

\* The walk finds the first IPv4 address of an answer, if there is one, and no
\* socket stays open.
StunFindsTheAddress ==
  part = "stun" => Stun!TypeOK /\ Stun!FirstAddressIsFound /\ Stun!NoSocketIsLeft
=============================================================================
