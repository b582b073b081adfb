CONSTANTS
  k1 = k1  k2 = k2  k3 = k3  k4 = k4  k5 = k5  k6 = k6  kx = kx
  t = t  u = u  w = w  v = v
  g = g  p1 = p1  p2 = p2  a3 = a3  a4 = a4  a5 = a5  b3 = b3  b4 = b4  b5 = b5  b6 = b6
  x3 = x3  y4 = y4  z4 = z4
  Null = Null
  Txs <- McTxs
  Coinbases <- McCoinbases
  Vin <- McVin
  Vout <- McVout
  Blocks <- McBlocks
  Genesis = g
  Prev <- McPrev
  Vtx <- McVtx
  Subsidy = 5
  MinFee = 1
  COINBASE_MATURITY = 2
  CanIBD = TRUE
  MaxStops = 1
SPECIFICATION Spec
CHECK_DEADLOCK FALSE
INVARIANTS TypeOK CoinsAreUnspent VerifyDBPasses NoInflation
