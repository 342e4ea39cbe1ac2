SPECIFICATION Spec
CONSTANTS
  Groups = {g1}
  Consumers = {c1}
  Topics = {t}
  NumPartitions = 1
  MaxAttempts = 2
  Backoff = 1
  MaxTimestamp = 2
  MessageIds = {m1}
  PartitionKeys = {}
  KeyHash <- MCKeyHash
  IdempotencyKeys = {}
  Payloads = {b1}
  NoKey = NoKey
  Times <- MCTimes
  Leases = {1}
  MaxBatch = 0
  MaxLogLen = 1
  MaxEvents = 6
  AppendErrors = TRUE
  Crashes = TRUE
  PowerFailures = FALSE
INVARIANTS ReopenSucceeds
