CONSTANTS
  old = old  new = new  None = None
  Nodes = {old, new}
  Blocks = {0, 1, 2, 3, 4, 5, 6, 8, 9}
  Genesis = 0
  Prev <- ForkPrev
  Stored <- Behind
  Limit = 2
  KnownSize = 4
  MaxFound = 1
  MaxDrops = 2
SPECIFICATION FairSpec
CHECK_DEADLOCK FALSE
INVARIANTS SyncTypeOK NoStall
PROPERTY Synced
