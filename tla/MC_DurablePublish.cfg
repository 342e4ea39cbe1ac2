SPECIFICATION Spec
CONSTANTS
  Groups = {g1}
  Consumers = {c1}
  Topics = {t}
  NumPartitions = 2
  MaxAttempts = 1
  Backoff = 0
  MaxTimestamp = 1
  MessageIds = {m1, m2}
  PartitionKeys = {k1}
  KeyHash <- MCKeyHash
  IdempotencyKeys = {i1}
  Payloads = {b1, b2}
  NoKey = NoKey
  Times = {0}
  Leases = {1}
  MaxBatch = 0
  MaxLogLen = 2
  MaxEvents = 2
  AppendErrors = TRUE
  Crashes = TRUE
  PowerFailures = FALSE
INVARIANTS PublishedOnce PublishStateRecovered
