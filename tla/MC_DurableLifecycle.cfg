SPECIFICATION Spec
CONSTANTS
  Groups = {g1}
  Consumers = {c1}
  Topics = {t}
  NumPartitions = 1
  MaxAttempts = 2
  Backoff = 0
  MaxTimestamp = 2
  MessageIds = {m1}
  PartitionKeys = {}
  KeyHash <- MCKeyHash
  IdempotencyKeys = {}
  Payloads = {b1}
  NoKey = NoKey
  Times = {0, 2}
  Leases = {1}
  MaxBatch = 1
  MaxLogLen = 1
  MaxEvents = 8
  AppendErrors = FALSE
  Crashes = TRUE
  PowerFailures = TRUE
INVARIANTS DeliveryStateConsistent MaintenanceAccepted SettledSurvives AttemptsExceededOnce TrackedMessagesExist
PROPERTIES DeliveryIdsNeverReused
