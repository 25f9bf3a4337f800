SPECIFICATION SsSpec
CONSTANTS
  main = main
  ss = ss
  Threads <- MCThreads
  Calls <- MCCalls
INVARIANTS
  SsTypeOK
  StatusAssertsHold
  NoLostWakeup
  WordTellsTruth
PROPERTIES
  IsSsService
  StopTerminates
