SPECIFICATION Spec
CONSTANTS
  p1 = p1
  p2 = p2
  p3 = p3
  topic1 = topic1
  m1 = m1
  m2 = m2
  m3 = m3
  v1 = v1
  v2 = v2
  Procs = {p1, p2, p3}
  Deployments <- MCDeployments
  Migrations <- MCMigrations
  TopicOrder <- MCTopicOrder
  PartitionCounts = {1, 2}
  MessageIds = {m1, m2, m3}
  TimeOf <- MCTimeOf
  MaxTime = 2
  NoProc = NoProc
  MaxFaults = 1
  MaxMessages = 2
INVARIANTS RunRecordTruthful RefusedOnlyForCause OpenedAlone
PROPERTIES ShutdownCompletes
CHECK_DEADLOCK FALSE
