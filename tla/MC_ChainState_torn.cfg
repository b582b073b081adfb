CONSTANTS
  g = g  a1 = a1  a2 = a2  a3 = a3  b1 = b1  b2 = b2  b3 = b3  b4 = b4
  Null = Null
  Blocks <- SmallBlocks
  Genesis = g
  Prev <- SmallPrev
  Trust <- SmallTrust
  Hash <- SmallHash
  Unacceptable = {a2}
  Invalid = {b1}
  CanIBD = TRUE
  CanLosePower = TRUE
  CanFillDisk = TRUE
  MaxFile = 0
  MaxStops = 2
SPECIFICATION Spec
CHECK_DEADLOCK FALSE
INVARIANT TypeOK
PROPERTY MovesAsBestChain
