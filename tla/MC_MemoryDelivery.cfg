SPECIFICATION Spec
CONSTANTS
  Groups = {g1, g2}
  Consumers = {c1, c2}
  Topics = {t}
  NumPartitions = 1
  MaxAttempts = 2
  Backoff = 1
  MaxTimestamp = 3
  MessageIds = {m1}
  PartitionKeys = {}
  KeyHash <- MCKeyHash
  IdempotencyKeys = {i1}
  Payloads = {b1}
  NoKey = NoKey
  Times <- MCTimes
  Leases <- MCLeases
  MaxBatch = 2
  MaxLogLen = 2
SYMMETRY Symmetry
INVARIANTS TypeOK OnePlacePerMessage PendingIndexAgrees AttemptCountsTracked AttemptsBounded DeadLetteredOnce CursorOnAcked OnlyPublishedDelivered KeyPublishedOnce
PROPERTIES DeliveryIdsNeverReused SettledForever
