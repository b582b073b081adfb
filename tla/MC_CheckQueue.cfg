CONSTANTS
  w1 = w1  w2 = w2  c1 = c1  c2 = c2  c3 = c3
  Master = Master
  NoThread = NoThread
  Workers <- WorkersDef
  Checks <- ChecksDef
  Bad <- BadDef
  nBatchSize = 2
SPECIFICATION FairSpec
INVARIANTS IInv WaitIsVerdict MasterHasWaker
PROPERTY WaitTerminates
