CONSTANTS
  w = w  x = x  y = y  z = z  x2 = x2  near = near  far = far
  Addrs <- McAddrs
  Ips <- McIps
  Ip <- McIp
  Sources = {near, far}
  NewBucket <- McNewBucket
  TriedBucket <- McTriedBucket
  ADDRMAN_NEW_BUCKET_COUNT = 2
  ADDRMAN_NEW_BUCKET_SIZE = 1
  ADDRMAN_TRIED_BUCKET_COUNT = 1
  ADDRMAN_TRIED_BUCKET_SIZE = 2
  ADDRMAN_NEW_BUCKETS_PER_ADDRESS = 2
  ADDRMAN_TRIED_ENTRIES_INSPECT_ON_EVICT = 2
  ADDRMAN_GETADDR_MAX_PCT = 50
  ADDRMAN_GETADDR_MAX = 1
  Times = {1}
  MaxIds = 4
SPECIFICATION Spec
CHECK_DEADLOCK FALSE
INVARIANTS AddrTypeOK CheckPasses BucketsBounded SelectFindsOne
  ReloadKeepsTables
PROPERTIES TriedNeverDeleted
SYMMETRY Sym
