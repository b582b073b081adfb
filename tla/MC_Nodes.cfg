CONSTANTS
  opencon = opencon  addcon = addcon
  Null = Null
  Objects = {1, 2}
  Addresses = {"p"}
  Dialers = {opencon, addcon}
  DialKinds <- McDialKinds
  MaxOutbound = 1
  MaxInbound = 1
SPECIFICATION FairSpec
INVARIANTS NodesTypeOK HeldNodesAlive 
PROPERTIES ClosedIsDeleted
