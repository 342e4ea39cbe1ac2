---------------------------- MODULE DeliveryState ----------------------------
(***************************************************************************)
(* The delivery state both brokers keep: per (consumer group, topic,       *)
(* partition) the struct GroupPartitionState of msg-broker/src/state.rs,   *)
(* and beside it the map of pending deliveries and the dead letters        *)
(* (BrokerState in state.rs, DurableDeliveryState in durable.rs).          *)
(*                                                                         *)
(* The module is stateless: it defines the shape of a delivery state and   *)
(* the transitions on it as functions from states to states, so that the   *)
(* in-memory broker, the durable broker and the replay of the durable      *)
(* broker's state log share one definition, as they share one in the code. *)
(***************************************************************************)
EXTENDS BrokerTypes

CONSTANTS
  Groups,         \* consumer group ids
  Consumers,      \* consumer ids
  MaxAttempts,    \* RetryPolicy::max_attempts
  Backoff,        \* RetryPolicy::backoff_millis, 0 standing for None
  MaxTimestamp    \* u64::MAX milliseconds: the last representable timestamp

ASSUME PolicyAssumption ==
  /\ MaxAttempts \in Nat \ {0}
  /\ Backoff \in Nat
  /\ MaxTimestamp \in Nat

Timestamps == 0 .. MaxTimestamp

\* A message as one consumer group sees it: a group id and a MessageRef.
Slots == [group: Groups, topic: Topics, partition: Partitions, offset: Nat]

GroupPartitions == [group: Groups, topic: Topics, partition: Partitions]
GroupPartitionOf(x) == [group |-> x.group, topic |-> x.topic, partition |-> x.partition]

\* deterministic_delivery_id: a function of group, topic, partition, offset and
\* attempt number. The names cannot contain its separator, so that it is
\* injective up to a collision of its 64-bit hash, which is left out.
DeliveryId(x, n) == [slot |-> x, attempt |-> n]
DeliveryIds == [slot: Slots, attempt: Nat \ {0}]

PendingDeliveries ==
  [slot: Slots, attempt: Nat \ {0}, consumer: Consumers, leaseExpiresAt: Timestamps]

\* DeadLetterReason::Manual of a NACK, DeadLetterReason::Expired of a lease.
Reasons == {"manual", "expired"}
DeadLetterEntries == [slot: Slots, reason: Reasons, attempts: Nat \ {0}]

-----------------------------------------------------------------------------
EmptyState ==
  [ acked           |-> {},
    pendingByOffset |-> EmptyMap,   \* slot -> delivery id
    retryByOffset   |-> EmptyMap,   \* slot -> ready_at
    deadLettered    |-> {},
    attemptCounts   |-> EmptyMap,   \* slot -> attempts made so far
    cursor          |-> [gp \in GroupPartitions |-> 0],
    pending         |-> EmptyMap,   \* delivery id -> PendingDelivery
    deadLetters     |-> {} ]

\* Mutant: a scheduled retry does not withhold the message.
IsAvailableDuringRetry(s, x) ==
  /\ x \notin s.acked
  /\ x \notin DOMAIN s.pendingByOffset
  /\ x \notin s.deadLettered

IsAvailable(s, x) ==
  /\ x \notin s.acked
  /\ x \notin DOMAIN s.pendingByOffset
  /\ x \notin DOMAIN s.retryByOffset
  /\ x \notin s.deadLettered

\* Mutant: the last attempt number again.
NextAttemptNumberStale(s, x) ==
  IF x \in DOMAIN s.attemptCounts THEN s.attemptCounts[x] ELSE 1

NextAttemptNumber(s, x) ==
  IF x \in DOMAIN s.attemptCounts THEN s.attemptCounts[x] + 1 ELSE 1

\* Mutant: off by one at the last timestamp.
OverflowsLate(t, millis) == t + millis > MaxTimestamp + 1

\* add_millis: checked addition on u64 timestamps.
Overflows(t, millis) == t + millis > MaxTimestamp

-----------------------------------------------------------------------------
(* Consuming.                                                              *)

\* Partitions ascending, then offsets ascending.
Before(x, y) ==
  \/ x.partition < y.partition
  \/ x.partition = y.partition /\ x.offset < y.offset

\* The first max available slots of group g in topic t, whose partition p
\* holds the offsets below len[p].
Selected(s, g, t, len, max) ==
  LET all == UNION { { [group |-> g, topic |-> t, partition |-> p, offset |-> o]
                         : o \in 0 .. len[p] - 1 } : p \in Partitions }
      available == { x \in all : IsAvailable(s, x) }
  IN  { x \in available : Cardinality({ y \in available : Before(y, x) }) < max }

\* Insert one pending delivery per slot x of the map attempts.
ApplyConsumed(s, attempts, consumer, leaseExpiresAt) ==
  LET ids == { DeliveryId(x, attempts[x]) : x \in DOMAIN attempts }
  IN  [s EXCEPT
        !.attemptCounts   = Insert(@, attempts),
        !.pendingByOffset = Insert(@, [x \in DOMAIN attempts |-> DeliveryId(x, attempts[x])]),
        !.pending         = Insert(@, [id \in ids |->
                                        [slot |-> id.slot, attempt |-> id.attempt,
                                         consumer |-> consumer,
                                         leaseExpiresAt |-> leaseExpiresAt]])]

-----------------------------------------------------------------------------
(* Settling a pending delivery.                                            *)

\* Mutant: one step instead of the loop.
AdvanceCursorOnce(c, A) == IF c \in A THEN c + 1 ELSE c

\* The loop of advance_cursor: the first offset from c on that is not in A.
AdvanceCursor(c, A) ==
  CHOOSE n \in c .. c + Cardinality(A) : n \notin A /\ \A m \in c .. n - 1 : m \in A

\* pending_for_command: the delivery is pending and belongs to the consumer.
PendingForCommand(s, id, consumer) ==
  id \in DOMAIN s.pending /\ s.pending[id].consumer = consumer

\* Mutant: the attempt count of an acknowledged message stays.
ApplyAckKeepsCount(s, id) ==
  LET x  == s.pending[id].slot
      gp == GroupPartitionOf(x)
      A  == { y.offset : y \in { z \in s.acked \cup {x} : GroupPartitionOf(z) = gp } }
  IN  [s EXCEPT
        !.pending         = Remove(@, {id}),
        !.pendingByOffset = Remove(@, {x}),
        !.acked           = @ \cup {x},
        !.cursor[gp]      = AdvanceCursor(@, A)]

\* Mutant: the acknowledged offsets are replaced, not extended.
ApplyAckForgetsOthers(s, id) ==
  LET x  == s.pending[id].slot
      gp == GroupPartitionOf(x)
  IN  [s EXCEPT
        !.pending         = Remove(@, {id}),
        !.pendingByOffset = Remove(@, {x}),
        !.acked           = {x},
        !.attemptCounts   = Remove(@, {x}),
        !.cursor[gp]      = AdvanceCursor(@, {x.offset})]

ApplyAck(s, id) ==
  LET x     == s.pending[id].slot
      gp    == GroupPartitionOf(x)
      acked == s.acked \cup {x}
      A     == { y.offset : y \in { z \in acked : GroupPartitionOf(z) = gp } }
  IN  [s EXCEPT
        !.pending         = Remove(@, {id}),
        !.pendingByOffset = Remove(@, {x}),
        !.acked           = acked,
        !.attemptCounts   = Remove(@, {x}),
        !.cursor[gp]      = AdvanceCursor(@, A)]

\* Mutants: one attempt too many, one too few.
IsRetryableOnceMore(s, id) == s.pending[id].attempt <= MaxAttempts
IsRetryableOnceLess(s, id) == s.pending[id].attempt + 1 < MaxAttempts

\* Does the retry policy allow another attempt?
IsRetryable(s, id) == s.pending[id].attempt + 1 <= MaxAttempts

\* Take the deliveries in retry and dead out of pending: the first are
\* scheduled for readyAt, the others become dead letters.
ApplyOutcomes(s, retry, readyAt, dead, reason) ==
  LET SlotsOf(I) == { s.pending[id].slot : id \in I }
  IN  [s EXCEPT
        !.pending         = Remove(@, retry \cup dead),
        !.pendingByOffset = Remove(@, SlotsOf(retry \cup dead)),
        !.retryByOffset   = Insert(Remove(@, SlotsOf(dead)),
                                   [x \in SlotsOf(retry) |-> readyAt]),
        !.attemptCounts   = Remove(@, SlotsOf(dead)),
        !.deadLettered    = @ \cup SlotsOf(dead),
        !.deadLetters     = @ \cup { [slot     |-> s.pending[id].slot,
                                      reason   |-> reason,
                                      attempts |-> s.pending[id].attempt] : id \in dead }]

-----------------------------------------------------------------------------
(* Retry maintenance.                                                      *)

ExpiredPending(s, now) ==
  { id \in DOMAIN s.pending : s.pending[id].leaseExpiresAt <= now }

ReadyRetryEntries(s, now) ==
  { x \in DOMAIN s.retryByOffset : s.retryByOffset[x] <= now }

MarkRetryAvailable(s, X) == [s EXCEPT !.retryByOffset = Remove(@, X)]

\* Mutant: the by-offset map keeps what the other map released.
ReleasePendingById(s) == [s EXCEPT !.pending = EmptyMap]

\* Mutant: a released delivery does not count as an attempt.
ReleasePendingForgetsAttempts(s) ==
  LET released == { s.pending[id].slot : id \in DOMAIN s.pending }
  IN  [s EXCEPT !.pending         = EmptyMap,
                !.pendingByOffset = Remove(@, released),
                !.attemptCounts   = Remove(@, released)]

\* release_recovered_pending: a reopened broker forgets who held what, and
\* keeps the attempt counts.
ReleasePending(s) ==
  [s EXCEPT !.pending         = EmptyMap,
            !.pendingByOffset =
              Remove(@, { s.pending[id].slot : id \in DOMAIN s.pending })]

-----------------------------------------------------------------------------
(* Invariants of a delivery state.                                         *)

IsMap(m, K, V) ==
  /\ m = [k \in DOMAIN m |-> m[k]]
  /\ DOMAIN m \subseteq K
  /\ \A k \in DOMAIN m : m[k] \in V

StateFields == {"acked", "pendingByOffset", "retryByOffset", "deadLettered",
                "attemptCounts", "cursor", "pending", "deadLetters"}

Shape(s) == s = [f \in StateFields |-> s[f]]

\* The types of the fields.
DeliveryTypeOK(s) ==
  /\ Shape(s)
  /\ s.acked \subseteq Slots /\ IsFiniteSet(s.acked)
  /\ s.deadLettered \subseteq Slots
  /\ s.deadLetters \subseteq DeadLetterEntries
  /\ IsMap(s.pendingByOffset, Slots, DeliveryIds)
  /\ IsMap(s.retryByOffset, Slots, Timestamps)
  /\ IsMap(s.attemptCounts, Slots, Nat \ {0})
  /\ IsMap(s.pending, DeliveryIds, PendingDeliveries)
  /\ s.cursor \in [GroupPartitions -> Nat]

\* A message is in at most one of the four places that withhold it from a
\* group: acknowledged, in flight, waiting for its retry, dead-lettered.
OnePlace(s) ==
  LET inFlight == DOMAIN s.pendingByOffset
      waiting  == DOMAIN s.retryByOffset
  IN  /\ s.acked \cap inFlight = {} /\ s.acked \cap waiting = {}
      /\ s.acked \cap s.deadLettered = {} /\ inFlight \cap waiting = {}
      /\ inFlight \cap s.deadLettered = {} /\ waiting \cap s.deadLettered = {}

\* The two maps of pending deliveries, by id and by offset, are inverse to
\* each other, and an id names the slot and the attempt of its delivery.
PendingMapsAgree(s) ==
  /\ \A id \in DOMAIN s.pending :
       /\ s.pending[id].slot = id.slot /\ s.pending[id].attempt = id.attempt
       /\ id.slot \in DOMAIN s.pendingByOffset /\ s.pendingByOffset[id.slot] = id
  /\ \A x \in DOMAIN s.pendingByOffset :
       s.pendingByOffset[x] \in DOMAIN s.pending /\ s.pendingByOffset[x].slot = x

\* The attempt count of an unsettled message is the attempt in flight or the
\* last one made, and a settled message has none.
AttemptsTracked(s) ==
  /\ \A x \in DOMAIN s.pendingByOffset :
       x \in DOMAIN s.attemptCounts /\ s.attemptCounts[x] = s.pendingByOffset[x].attempt
  /\ DOMAIN s.retryByOffset \subseteq DOMAIN s.attemptCounts
  /\ (s.acked \cup s.deadLettered) \cap DOMAIN s.attemptCounts = {}

\* The messages a delivery state says anything about.
Tracked(s) ==
  s.acked \cup s.deadLettered \cup DOMAIN s.pendingByOffset \cup DOMAIN s.retryByOffset
    \cup DOMAIN s.attemptCounts

\* No delivery id in I is past the attempts counted for its message, unless the
\* message is settled.
IssuedTracked(s, I) ==
  \A id \in I :
    \/ id.slot \in s.acked \cup s.deadLettered
    \/ id.slot \in DOMAIN s.attemptCounts /\ id.attempt <= s.attemptCounts[id.slot]

\* An unsettled message that is not in flight has an attempt left.
AttemptsLeft(s) ==
  \A x \in DOMAIN s.attemptCounts :
    /\ s.attemptCounts[x] <= MaxAttempts
    /\ x \notin DOMAIN s.pendingByOffset => s.attemptCounts[x] < MaxAttempts

\* The dead-letter list and the dead-lettered offsets name the same messages,
\* each of them once, and only after the last attempt the policy allows.
DeadLettersOnce(s) ==
  /\ { e.slot : e \in s.deadLetters } = s.deadLettered
  /\ \A e, f \in s.deadLetters : e.slot = f.slot => e = f
  /\ \A e \in s.deadLetters : e.attempts >= MaxAttempts

\* Every offset below the cursor of a group partition has been acknowledged,
\* and the one at the cursor has not.
CursorContiguous(s) ==
  \A gp \in GroupPartitions :
    LET At(o) == [group |-> gp.group, topic |-> gp.topic,
                  partition |-> gp.partition, offset |-> o]
    IN  /\ \A o \in 0 .. s.cursor[gp] - 1 : At(o) \in s.acked
        /\ At(s.cursor[gp]) \notin s.acked

=============================================================================
