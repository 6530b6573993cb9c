CONSTANTS
  t1 = t1
  t2 = t2
  t3 = t3
  NoThread = NoThread
  Threads <- TwoThreads
  MaxReaders = 2
  MaxDepth = 1
  Discipline <- RetryForever
SPECIFICATION FairSpec
PROPERTY UpgraderProgress
CHECK_DEADLOCK FALSE
