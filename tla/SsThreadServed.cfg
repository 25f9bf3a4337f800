SPECIFICATION SsSpec
CONSTANTS
  main = main
  ss = ss
  Threads <- MCThreads
  Calls <- MCCalls
INVARIANT ServedThreadNotLeftAsleep
