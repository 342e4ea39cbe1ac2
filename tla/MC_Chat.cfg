SPECIFICATION Spec
CONSTANTS
  a = a
  b = b
  c = c
  Topic <- MCTopic
  Malformed = Malformed
  MaxSize = 2
  BatchSize = 2
  MaxAttempts = 2
  MaxExpiries = 2
  Backlog = 3
INVARIANTS ResourcesAccounted
PROPERTIES QuietAfterStop ShownAgainOnlyIfForgotten KeepsPolling
CHECK_DEADLOCK FALSE
