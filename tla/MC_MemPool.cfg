CONSTANTS
  k1 = k1  k2 = k2  k3 = k3  k4 = k4  k5 = k5  k6 = k6  k7 = k7  k8 = k8
  t = t  c = c  d = d  x = x  y = y  w = w
  g = g  p1 = p1  p2 = p2  p3 = p3  a4 = a4  a5 = a5  b4 = b4  b5 = b5  b6 = b6  b7 = b7
  Null = Null
  Txs <- McTxs
  Coinbases <- McCoinbases
  Vin <- McVin
  Vout <- McVout
  Blocks <- McBlocks
  Genesis = g
  Prev <- McPrev
  Vtx <- RivalVtx
  Subsidy = 5
  MinFee = 1
  COINBASE_MATURITY = 3
  CanIBD = TRUE
  MaxStops = 1
  NonStandard = {w}
  LowFee = {y}
  Large = {d}
  Wallet = {x}
  MaxReorg = 2
  MAX_ORPHAN_TRANSACTIONS = 1
SPECIFICATION PoolSpec
CHECK_DEADLOCK FALSE
INVARIANTS PoolTypeOK NextTxExact  PoolSpendable
