CONSTANTS
  g = g  a1 = a1  a2 = a2  a3 = a3  b1 = b1  b2 = b2  b3 = b3  b4 = b4
  Null = Null
  Blocks <- ForkBlocks
  Genesis = g
  Prev <- ForkPrev
  Trust <- ForkTrust
  Hash <- ForkHash
  Unacceptable = {}
  Invalid = {b3}
  CanIBD = FALSE
  CanLosePower = TRUE
  CanFillDisk = FALSE
  MaxFile = 1
  MaxStops = 1
SPECIFICATION Spec
CHECK_DEADLOCK FALSE
INVARIANTS BestIsMostWork NoOrphanLeftBehind PnextIsMainChain ValidSetNotFailed
  FailedDeserved CoinsAreBacked NeverCorrupt
PROPERTY ImplementsBestChain
