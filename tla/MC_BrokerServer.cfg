SPECIFICATION Spec
CONSTANTS
  p1 = p1
  c1 = c1
  c2 = c2
  g1 = g1
  Groups = {g1}
  Consumers = {c1, c2}
  Producers = {p1}
  MemberOf <- MCMemberOf
  LeasesOf <- MCLeasesOf
  LeadOf <- MCLeadOf
  Diligent = {c1}
  Topics = {t}
  NumPartitions = 1
  MaxAttempts = 2
  Backoff = 1
  MaxTimestamp = 20
  MessageIds = {m1}
  PartitionKeys = {}
  KeyHash <- MCKeyHash
  IdempotencyKeys = {i1}
  Payloads = {b1}
  NoKey = NoKey
  MaxBatch = 1
  MaxLag = 0
  MaxLate = 1
  FreeTime = 0
  MaxLogLen = 0
  MaxRestarts = 1
INVARIANTS AnswersHold LeaseHonoured
PROPERTIES EventuallySettled
