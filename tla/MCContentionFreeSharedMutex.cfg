CONSTANTS
  t1 = t1
  t2 = t2
  t3 = t3
  NoThread = NoThread
  Threads <- ThreeThreads
  Slots = 2
  MaxDepth = 2
  Nesting <- SafeNesting
SPECIFICATION FairSpec
INVARIANTS TypeOK Inv Exclusion NeverWaitsForItself
PROPERTIES ImplementsRWLock WriterProgress WantComesDown
