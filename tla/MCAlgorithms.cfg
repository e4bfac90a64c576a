\* Widths are scaled: five limbs of 3 bits and words of 4 for the field, five
\* limbs of 4 bits and blocks of 3 bytes for the tag, blocks of 8 bytes for the hash.
SPECIFICATION Spec
CONSTANTS
  LF = LF
  LogBytes = {"a", "b", LF}
  MaxLog = 6
  Files = {"f1", "f2", "self"}
  Self = "self"
  TailBytes = 5
  KeepLines = 2
  HashBlockBytes = 8
  WordBytes = 2
  LengthBytes = 2
  MaxHashed = 18
  MacRadix = 16
  MacFold = 5
  LimbWidth = 4
  BlockBytes = 3
  ByteBits = 6
  ChunkBytes = 2
  MaxAad = 3
  MaxLen = 4
  Radix = 8
  LimbBits = 3
  Fold = 19
  WordBits = 4
  CarryBits = 2
  ScalarBits = 7
  LowBits = 3
  BasePoint = 9
  MaxNodes = 2
  Absent = Absent
  Servers = {"server 1", "server 2"}
  LocalPorts = {0, 3}
  Ports = {1, 2}
  Device = 1
  Lengths = {0, 3, 6}
  MaxAttributes = 2
  MaxRequests = 2
  Off = Off
INVARIANTS
  LogIsReplayed
  HashIsFramed
  SealIsSound
  FieldIsModP
  LadderMultiplies
  ChainInverts
  ListIsRead
  StunFindsTheAddress
CHECK_DEADLOCK FALSE
