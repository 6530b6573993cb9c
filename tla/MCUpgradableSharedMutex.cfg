CONSTANTS
  t1 = t1
  t2 = t2
  t3 = t3
  NoThread = NoThread
  Threads <- ThreeThreads
  MaxReaders = 2
  MaxDepth = 1
  Discipline <- RetryThenBackOff
SPECIFICATION FairSpec
INVARIANTS TypeOK Inv Exclusion
PROPERTIES ImplementsRWLock WriterProgress ReadsUnblocked
