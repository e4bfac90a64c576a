\* The widths of the run algorithms, and one key of each kind.
SPECIFICATION Spec
CONSTANTS
  MacRadix = 16
  MacFold = 5
  LimbWidth = 4
  BlockBytes = 3
  ByteBits = 6
  ChunkBytes = 2
  MaxAad = 1
  MaxLen = 1
  Radix = 8
  LimbBits = 3
  Fold = 19
  WordBits = 4
  CarryBits = 2
  ScalarBits = 7
  LowBits = 3
  BasePoint = 9
INVARIANTS
  OneFollowsItsRfc
CHECK_DEADLOCK FALSE
