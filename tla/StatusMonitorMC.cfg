SPECIFICATION MonitorSpec
CONSTANTS
  t1 = t1
  t2 = t2
  t3 = t3
  Threads <- MCThreads
  Calls <- MCCalls
SYMMETRY Symmetry
INVARIANTS
  MutexExclusion
  TestStillTrue
  WaitReturnsChange
PROPERTY IsAtomicCell
CHECK_DEADLOCK FALSE
