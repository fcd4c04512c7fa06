SPECIFICATION FairSpec
CONSTANTS
  Workers = {w1, w2, w3}
  Clients = {c1}
  MaxJobs = 3
INVARIANTS
  EachJobOnce
  NoLostWakeup
  FreePromise
  NoUseAfterFree
PROPERTIES
  WaitPromise
  WaitEnds
  ImplementsJobQueue
