CONSTANTS
  t1 = t1
  t2 = t2
  t3 = t3
  NoThread = NoThread
  Threads <- ThreeThreads
  MaxMessages = 2
SPECIFICATION FairSpec
INVARIANTS TypeOK Exclusion CounterInv ListInv
PROPERTIES ImplementsFifo NoLostWakeUp
CHECK_DEADLOCK FALSE
