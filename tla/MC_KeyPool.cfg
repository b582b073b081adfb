CONSTANTS
  payment = payment  miner = miner  getwork = getwork
  Holders = {payment, miner, getwork}
  TargetSize = 1
  MaxKeys = 7
SPECIFICATION Spec
CHECK_DEADLOCK FALSE
INVARIANTS KeyPoolTypeOK PoolExact KeyUsedOnce
SYMMETRY Sym
