SPECIFICATION Spec
CONSTANTS
  g1 = g1
  g2 = g2
  Gateways <- MCGateways
  MaxRuns = 2
  MaxFaults = 2
INVARIANTS
  TypeOK
  DnsConserved
  DnsWithTunnel
  UserStepsUnprivileged
  QuietRunCompletes
  CleanExitRestores
  SessionTunnelled
  NoLoopBeforeKill
  RecordNamesRoute
PROPERTIES
  RunEnds
  ResolvedFollows
