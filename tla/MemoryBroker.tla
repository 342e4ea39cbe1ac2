---------------------------- MODULE MemoryBroker -----------------------------
(***************************************************************************)
(* The in-memory broker: BrokerService (msg-broker/src/broker.rs) over     *)
(* InMemoryBrokerState (memory.rs). Every command runs to completion on    *)
(* &mut self, so a command is one action. A command that returns an error  *)
(* and leaves the state alone is a stuttering step and has no disjunct; an *)
(* error that leaves a changed state behind has one.                       *)
(*                                                                         *)
(* The clock is not the broker's: each command carries a timestamp, and    *)
(* nothing makes the timestamps of successive commands increase.           *)
(***************************************************************************)
EXTENDS DeliveryState, PublishState

CONSTANTS
  Times,      \* timestamps the commands carry
  Leases,     \* lease lengths: the configured one and per-command overrides
  MaxBatch,   \* largest ConsumeCommand::max_messages
  MaxLogLen   \* bound: messages per partition

ASSUME CommandAssumption ==
  /\ Times \subseteq Timestamps
  /\ Leases \subseteq Nat \ {0}
  /\ MaxBatch \in Nat

VARIABLES
  topics,     \* names of the created topics
  logs,       \* topic -> partition -> messages in offset order
  nextRR,     \* topic -> next_round_robin_partition
  index,      \* idempotency_index
  ds,         \* delivery state (groups, pending, dead_letters)
  issued      \* history: every delivery id a consume returned

vars == <<topics, logs, nextRR, index, ds, issued>>

Init ==
  /\ topics = {}
  /\ logs = EmptyLogs
  /\ nextRR = [t \in Topics |-> 0]
  /\ index = EmptyMap
  /\ ds = EmptyState
  /\ issued = {}

-----------------------------------------------------------------------------
CreateTopic(t) ==
  /\ t \notin topics
  /\ topics' = topics \cup {t}
  /\ UNCHANGED <<logs, nextRR, index, ds, issued>>

\* A replay returns the stored identity and a conflict an error: only an
\* untracked or a new message changes anything.
Publish(t, m) ==
  LET p == SelectPartition(m, nextRR[t])
  IN  /\ t \in topics
      /\ CheckIdempotency(t, m, index) \in {"untracked", "new"}
      /\ Len(logs[t][p]) < MaxLogLen
      /\ logs' = AppendMessage(logs, t, p, m)
      /\ nextRR' = [nextRR EXCEPT ![t] = AdvanceRoundRobin(m, @)]
      /\ index' = RecordPublish(index, t, m, p, Len(logs[t][p]))
      /\ UNCHANGED <<topics, ds, issued>>

\* Mutant: reads up to next_offset inclusive.
LogLengthsInclusive(t) == [p \in Partitions |-> Len(logs[t][p]) + 1]

LogLengths(t) == [p \in Partitions |-> Len(logs[t][p])]

\* The lease is added per delivery, with the same operands each time: an
\* overflow fails the command before its first mutation.
Consume(g, c, t, max, now, lease) ==
  LET slots    == Selected(ds, g, t, LogLengths(t), max)
      attempts == [x \in slots |-> NextAttemptNumber(ds, x)]
  IN  /\ t \in topics
      /\ slots # {}
      /\ ~Overflows(now, lease)
      /\ ds' = ApplyConsumed(ds, attempts, c, now + lease)
      /\ issued' = issued \cup { DeliveryId(x, attempts[x]) : x \in slots }
      /\ UNCHANGED <<topics, logs, nextRR, index>>

Ack(id, c) ==
  /\ PendingForCommand(ds, id, c)
  /\ ds' = ApplyAck(ds, id)
  /\ UNCHANGED <<topics, logs, nextRR, index, issued>>

\* Mutant: the failed command leaves the by-offset entry behind.
DropPendingById(s, id) == [s EXCEPT !.pending = Remove(@, {id})]

\* schedule_pending_retry_or_dlq has taken the delivery out of both pending
\* maps when add_millis fails: the command returns an error, the delivery is
\* gone and its offset is available again.
DropPending(s, id) ==
  [s EXCEPT !.pending         = Remove(@, {id}),
            !.pendingByOffset = Remove(@, {s.pending[id].slot})]

Nack(id, c, now) ==
  /\ PendingForCommand(ds, id, c)
  /\ ds' = IF ~IsRetryable(ds, id) THEN ApplyOutcomes(ds, {}, now, {id}, "manual")
           ELSE IF Overflows(now, Backoff) THEN DropPending(ds, id)
           ELSE ApplyOutcomes(ds, {id}, now + Backoff, {}, "manual")
  /\ UNCHANGED <<topics, logs, nextRR, index, issued>>

\* Expired leases first, then every retry entry that is ready, the ones just
\* scheduled included. Deliveries expire in the order of their hashed ids: when
\* add_millis fails on one of them, any of the others may have come before it,
\* and of those the ones that did not fail were dead-lettered.
RetryReady(now) ==
  LET expired == ExpiredPending(ds, now)
      retry   == { id \in expired : IsRetryable(ds, id) }
      dead    == expired \ retry
      swept   == ApplyOutcomes(ds, retry, now + Backoff, dead, "expired")
  IN  /\ \/ /\ retry = {} \/ ~Overflows(now, Backoff)
            /\ ds' = MarkRetryAvailable(swept, ReadyRetryEntries(swept, now))
         \/ /\ Overflows(now, Backoff)
            /\ \E failed \in retry, done \in SUBSET dead :
                 ds' = DropPending(ApplyOutcomes(ds, {}, now, done, "expired"), failed)
      /\ UNCHANGED <<topics, logs, nextRR, index, issued>>

Next ==
  \/ \E t \in Topics : CreateTopic(t)
  \/ \E t \in Topics, m \in Messages : Publish(t, m)
  \/ \E g \in Groups, c \in Consumers, t \in Topics, max \in 0 .. MaxBatch,
        now \in Times, lease \in Leases : Consume(g, c, t, max, now, lease)
  \/ \E id \in DOMAIN ds.pending, c \in Consumers : Ack(id, c)
  \/ \E id \in DOMAIN ds.pending, c \in Consumers, now \in Times : Nack(id, c, now)
  \/ \E now \in Times : RetryReady(now)

Spec == Init /\ [][Next]_vars

-----------------------------------------------------------------------------
(* Properties.                                                             *)

\* The types of the fields of BrokerState: in particular every partition the
\* publish path selects exists, and every scheduled time fits in a u64.
TypeOK ==
  /\ topics \subseteq Topics
  /\ logs \in [Topics -> [Partitions -> Seq(Messages)]]
  /\ nextRR \in [Topics -> Partitions]
  /\ DOMAIN index \subseteq Topics \X IdempotencyKeys
  /\ DeliveryTypeOK(ds)
  /\ issued \subseteq DeliveryIds

\* A message a group holds back is held back for one reason (state.rs,
\* is_available and the mark_* methods).
OnePlacePerMessage == OnePlace(ds)

\* pending and pending_by_offset never disagree (memory.rs updates them in
\* separate statements, on four paths).
PendingIndexAgrees == PendingMapsAgree(ds)

\* Attempt counts survive exactly as long as the message is unsettled, and no
\* delivery of it was issued with a later attempt number.
AttemptCountsTracked == AttemptsTracked(ds) /\ IssuedTracked(ds, issued)

\* No message is delivered more often than the retry policy allows, whatever
\* mix of NACKs, lease expiries and failed commands it goes through, and none is
\* left waiting with no attempt left instead of being dead-lettered.
AttemptsBounded ==
  /\ AttemptsLeft(ds)
  /\ \A id \in issued : id.attempt <= MaxAttempts

\* A poisoned message reaches the DLQ once, after its last allowed attempt.
DeadLetteredOnce == DeadLettersOnce(ds)

\* The cursor of a group partition only passes acknowledged offsets, in
\* whatever order the acknowledgements came.
CursorOnAcked == CursorContiguous(ds)

\* Nothing is delivered that was not published.
OnlyPublishedDelivered ==
  \A id \in issued : id.slot.offset < Len(logs[id.slot.topic][id.slot.partition])

\* deterministic_delivery_id never produces an id twice: a late ACK or NACK
\* for an earlier attempt cannot settle a later one.
DeliveryIdsNeverReused ==
  [][(DOMAIN ds'.pending \ DOMAIN ds.pending) \cap issued = {}]_vars

\* A message a group has acknowledged, or that was dead-lettered for it, is
\* settled for good: it is never in flight or waiting again.
SettledForever ==
  [][/\ ds.acked \subseteq ds'.acked
     /\ ds.deadLettered \subseteq ds'.deadLettered
     /\ ds.deadLetters \subseteq ds'.deadLetters]_vars

\* An idempotency key enters the log of its topic once, and the index holds
\* the identity of that record.
KeyPublishedOnce ==
  \A t \in Topics, p, q \in Partitions :
    \A i \in DOMAIN logs[t][p], j \in DOMAIN logs[t][q] :
      LET m == logs[t][p][i]
          n == logs[t][q][j]
      IN  m.idempotencyKey # NoKey =>
            /\ <<t, m.idempotencyKey>> \in DOMAIN index
            /\ index[<<t, m.idempotencyKey>>] = IdempotencyRecord(t, m, p, i - 1)
            /\ m.idempotencyKey = n.idempotencyKey => <<p, i>> = <<q, j>>

=============================================================================
