CONSTANTS
  g = g  a1 = a1  a2 = a2  a3 = a3  b1 = b1  b2 = b2  b3 = b3  b4 = b4
  Null = Null
  Blocks <- HeavyBlocks
  Genesis = g
  Prev <- HeavyPrev
  Trust <- HeavyTrust
  Hash <- HeavyHash
  Unacceptable = {b2}
  Invalid = {b3}
  CanIBD = TRUE
  CanLosePower = FALSE
  CanFillDisk = FALSE
  MaxFile = 0
  MaxStops = 2
SPECIFICATION FairSpec
CHECK_DEADLOCK FALSE
INVARIANT NeverCorrupt
PROPERTY Converges
