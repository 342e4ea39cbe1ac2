------------------------- MODULE MemoryBrokerProofs --------------------------
(***************************************************************************)
(* The invariants of the in-memory broker, for every value of the          *)
(* constants. DeliveryProofs has what each transition of the delivery      *)
(* state preserves; here the commands are shown to use the transitions     *)
(* within their preconditions.                                             *)
(***************************************************************************)
EXTENDS MemoryBroker, DeliveryProofs

\* The inductive invariant: the delivery state is consistent, and the ids handed
\* out so far are within the attempts it has counted.
IInv ==
  /\ TypeOK
  /\ DeliveryInv(ds)
  /\ AttemptCountsTracked
  /\ AttemptsBounded

-----------------------------------------------------------------------------
(* Attempt numbers and lost deliveries.                                    *)

\* The attempt number of an available message is within the policy and past
\* every attempt counted before.
LEMMA NextAttemptFacts ==
  ASSUME NEW s, DeliveryInv(s), AttemptsLeft(s), NEW x \in Slots, IsAvailable(s, x)
  PROVE  /\ NextAttemptNumber(s, x) \in Nat \ {0}
         /\ NextAttemptNumber(s, x) <= MaxAttempts
         /\ x \in DOMAIN s.attemptCounts => NextAttemptNumber(s, x) > s.attemptCounts[x]
  BY PolicyAssumption
  DEF DeliveryInv, DeliveryTypeOK, IsMap, AttemptsLeft, IsAvailable, NextAttemptNumber

\* A delivery lost to a failed add_millis leaves a consistent state, with its
\* attempt counted.
LEMMA DropFacts ==
  ASSUME NEW s, DeliveryInv(s), NEW id \in DOMAIN s.pending, NEW I
  PROVE  /\ DeliveryInv(DropPending(s, id))
         /\ IssuedTracked(s, I) => IssuedTracked(DropPending(s, id), I)
         /\ AttemptsLeft(s) /\ s.pending[id].attempt < MaxAttempts
              => AttemptsLeft(DropPending(s, id))
  <1> DEFINE t == DropPending(s, id)
             x == s.pending[id].slot
  <1>1. Shape(s) /\ DeliveryTypeOK(s)
    BY DEF DeliveryInv, DeliveryTypeOK
  <1>2. /\ t.acked = s.acked /\ t.deadLettered = s.deadLettered
        /\ t.deadLetters = s.deadLetters /\ t.cursor = s.cursor
        /\ t.retryByOffset = s.retryByOffset /\ t.attemptCounts = s.attemptCounts
        /\ t.pendingByOffset = Remove(s.pendingByOffset, {x})
        /\ t.pending = Remove(s.pending, {id}) /\ Shape(t)
    BY <1>1 DEF Shape, StateFields, DropPending
  <1>3. /\ x = id.slot /\ s.pending[id].attempt = id.attempt
        /\ x \in DOMAIN s.pendingByOffset /\ s.pendingByOffset[x] = id
    BY DEF DeliveryInv, PendingMapsAgree
  <1> HIDE DEF t, x
  <1>4. DeliveryTypeOK(t)
    <2>1. /\ IsMap(t.pendingByOffset, Slots, DeliveryIds)
          /\ IsMap(t.pending, DeliveryIds, PendingDeliveries)
      BY <1>1, <1>2, RemoveMap DEF DeliveryTypeOK
    <2> QED BY <1>1, <1>2, <2>1 DEF DeliveryTypeOK
  <1>5. OnePlace(t) /\ PendingMapsAgree(t)
    BY <1>2, <1>3 DEF DeliveryInv, OnePlace, PendingMapsAgree, Remove
  <1>6. AttemptsTracked(t) /\ DeadLettersOnce(t) /\ CursorContiguous(t)
    BY <1>2 DEF DeliveryInv, AttemptsTracked, DeadLettersOnce, CursorContiguous, Remove
  <1>7. IssuedTracked(s, I) => IssuedTracked(t, I)
    BY <1>2 DEF IssuedTracked
  <1>8. s.attemptCounts[x] = s.pending[id].attempt
    BY <1>3 DEF DeliveryInv, AttemptsTracked
  <1>9. AttemptsLeft(s) /\ s.pending[id].attempt < MaxAttempts => AttemptsLeft(t)
    BY <1>2, <1>8 DEF AttemptsLeft, Remove
  <1> QED BY <1>4, <1>5, <1>6, <1>7, <1>9 DEF DeliveryInv, t

-----------------------------------------------------------------------------
(* Every command preserves the invariant.                                  *)

\* create_topic preserves the invariant.
LEMMA CreateTopicStep ==
  ASSUME IInv, NEW t \in Topics, CreateTopic(t)
  PROVE  IInv'
  BY DEF IInv, TypeOK, AttemptCountsTracked, AttemptsBounded, CreateTopic

\* publish preserves the invariant.
LEMMA PublishStep ==
  ASSUME IInv, NEW t \in Topics, NEW m \in Messages, Publish(t, m)
  PROVE  IInv'
  <1> DEFINE p == SelectPartition(m, nextRR[t])
  <1>1. p \in Partitions /\ AdvanceRoundRobin(m, nextRR[t]) \in Partitions
    BY SelectPartitionFacts DEF IInv, TypeOK
  <1>2. logs' \in [Topics -> [Partitions -> Seq(Messages)]]
    BY <1>1 DEF IInv, TypeOK, Publish, AppendMessage
  <1>3. nextRR' \in [Topics -> Partitions]
    BY <1>1 DEF IInv, TypeOK, Publish
  <1>4. DOMAIN index' \subseteq Topics \X IdempotencyKeys
    BY DEF IInv, TypeOK, Publish, RecordPublish, Insert, Messages
  <1>5. UNCHANGED <<topics, ds, issued>>
    BY DEF Publish
  <1> QED BY <1>2, <1>3, <1>4, <1>5 DEF IInv, TypeOK, AttemptCountsTracked, AttemptsBounded

\* consume preserves the invariant.
LEMMA ConsumeStep ==
  ASSUME IInv,
         NEW g \in Groups, NEW c \in Consumers, NEW t \in Topics, NEW max \in 0 .. MaxBatch,
         NEW now \in Times, NEW lease \in Leases, Consume(g, c, t, max, now, lease)
  PROVE  IInv'
  <1> DEFINE slots    == Selected(ds, g, t, LogLengths(t), max)
             attempts == [x \in slots |-> NextAttemptNumber(ds, x)]
             ids      == { DeliveryId(x, attempts[x]) : x \in DOMAIN attempts }
  <1>1. /\ ds' = ApplyConsumed(ds, attempts, c, now + lease)
        /\ issued' = issued \cup ids
        /\ UNCHANGED <<topics, logs, nextRR, index>>
        /\ ~Overflows(now, lease)
    BY DEF Consume
  <1>2. DeliveryInv(ds) /\ AttemptsLeft(ds) /\ IssuedTracked(ds, issued) /\ issued \subseteq DeliveryIds
    BY DEF IInv, TypeOK, AttemptCountsTracked, AttemptsBounded
  <1>3. LogLengths(t) \in [Partitions -> Nat]
    BY DEF IInv, TypeOK, LogLengths
  <1>4. \A x \in slots : x \in Slots /\ IsAvailable(ds, x)
    BY <1>3, SelectedFacts
  <1>5. \A x \in slots : /\ NextAttemptNumber(ds, x) \in Nat \ {0}
                         /\ NextAttemptNumber(ds, x) <= MaxAttempts
                         /\ x \in DOMAIN ds.attemptCounts =>
                              NextAttemptNumber(ds, x) > ds.attemptCounts[x]
    BY <1>2, <1>4, NextAttemptFacts
  <1>6. now + lease \in Timestamps
    BY <1>1, CommandAssumption, PolicyAssumption DEF Overflows, Timestamps
  <1>7. /\ IsMap(attempts, Slots, Nat \ {0})
        /\ \A x \in DOMAIN attempts : /\ IsAvailable(ds, x) /\ attempts[x] <= MaxAttempts
                                      /\ x \in DOMAIN ds.attemptCounts =>
                                           attempts[x] > ds.attemptCounts[x]
    BY <1>4, <1>5 DEF IsMap
  <1>8. \A id \in ids : id.attempt <= MaxAttempts
    BY <1>4, <1>5, RecordFacts
  <1> HIDE DEF attempts, ids
  <1>9. DeliveryInv(ds')
    BY <1>1, <1>2, <1>6, <1>7, ConsumedInv
  <1>10. ids \subseteq DeliveryIds /\ IssuedTracked(ds', issued') /\ AttemptsLeft(ds')
    BY <1>1, <1>2, <1>7, ConsumedCounts DEF ids
  <1> QED BY <1>1, <1>2, <1>8, <1>9, <1>10
          DEF IInv, TypeOK, DeliveryInv, AttemptCountsTracked, AttemptsBounded

\* What is left to show of a command that only changes the delivery state.
LEMMA DeliveryStep ==
  ASSUME IInv, UNCHANGED <<topics, logs, nextRR, index, issued>>,
         DeliveryInv(ds'), IssuedTracked(ds', issued), AttemptsLeft(ds')
  PROVE  IInv'
  BY DEF IInv, TypeOK, DeliveryInv, AttemptCountsTracked, AttemptsBounded

\* ack preserves the invariant.
LEMMA AckStep ==
  ASSUME IInv, NEW id \in DOMAIN ds.pending, NEW c \in Consumers, Ack(id, c)
  PROVE  IInv'
  <1>1. DeliveryInv(ds) /\ AttemptsLeft(ds) /\ IssuedTracked(ds, issued)
    BY DEF IInv, AttemptCountsTracked, AttemptsBounded
  <1>2. ds' = ApplyAck(ds, id) /\ UNCHANGED <<topics, logs, nextRR, index, issued>>
    BY DEF Ack
  <1> QED BY <1>1, <1>2, AckInv, AckCounts, DeliveryStep

\* The attempt number of a pending delivery, and what IsRetryable says of it.
LEMMA RetryableFacts ==
  ASSUME DeliveryInv(ds), NEW id \in DOMAIN ds.pending
  PROVE  /\ IsRetryable(ds, id) => ds.pending[id].attempt < MaxAttempts
         /\ ~IsRetryable(ds, id) => ds.pending[id].attempt >= MaxAttempts
  <1>1. ds.pending[id].attempt \in Nat
    BY RecordFacts DEF DeliveryInv, DeliveryTypeOK, IsMap
  <1> QED BY <1>1, PolicyAssumption DEF IsRetryable

\* nack preserves the invariant, its failure after the removal included.
LEMMA NackStep ==
  ASSUME IInv, NEW id \in DOMAIN ds.pending, NEW c \in Consumers, NEW now \in Times,
         Nack(id, c, now)
  PROVE  IInv'
  <1>1. DeliveryInv(ds) /\ AttemptsLeft(ds) /\ IssuedTracked(ds, issued)
    BY DEF IInv, AttemptCountsTracked, AttemptsBounded
  <1>2. UNCHANGED <<topics, logs, nextRR, index, issued>>
    BY DEF Nack
  <1>3. "manual" \in Reasons
    BY DEF Reasons
  <1>4. CASE ~IsRetryable(ds, id)
    <2>1. ds' = ApplyOutcomes(ds, {}, now, {id}, "manual")
      BY <1>4 DEF Nack
    <2>2. DeliveryInv(ds')
      BY <1>1, <1>3, <1>4, <2>1, RetryableFacts, OutcomesInv
    <2>3. IssuedTracked(ds', issued) /\ AttemptsLeft(ds')
      BY <1>1, <2>1, OutcomesCounts
    <2> QED BY <1>2, <2>2, <2>3, DeliveryStep
  <1>5. CASE IsRetryable(ds, id) /\ Overflows(now, Backoff)
    <2>1. ds' = DropPending(ds, id)
      BY <1>5 DEF Nack
    <2> QED BY <1>1, <1>2, <1>5, <2>1, RetryableFacts, DropFacts, DeliveryStep
  <1>6. CASE IsRetryable(ds, id) /\ ~Overflows(now, Backoff)
    <2>1. ds' = ApplyOutcomes(ds, {id}, now + Backoff, {}, "manual")
      BY <1>6 DEF Nack
    <2>2. now + Backoff \in Timestamps
      BY <1>6, CommandAssumption, PolicyAssumption DEF Overflows, Timestamps
    <2>3. DeliveryInv(ds')
      BY <1>1, <1>3, <2>1, <2>2, OutcomesInv
    <2>4. IssuedTracked(ds', issued) /\ AttemptsLeft(ds')
      BY <1>1, <1>6, <2>1, RetryableFacts, OutcomesCounts
    <2> QED BY <1>2, <2>3, <2>4, DeliveryStep
  <1> QED BY <1>4, <1>5, <1>6

\* retry_ready preserves the invariant, its failure half-way included.
LEMMA RetryReadyStep ==
  ASSUME IInv, NEW now \in Times, RetryReady(now)
  PROVE  IInv'
  <1> DEFINE expired == ExpiredPending(ds, now)
             retry   == { id \in expired : IsRetryable(ds, id) }
             dead    == expired \ retry
             swept   == ApplyOutcomes(ds, retry, now + Backoff, dead, "expired")
  <1>1. DeliveryInv(ds) /\ AttemptsLeft(ds) /\ IssuedTracked(ds, issued)
    BY DEF IInv, AttemptCountsTracked, AttemptsBounded
  <1>2. UNCHANGED <<topics, logs, nextRR, index, issued>>
    BY DEF RetryReady
  <1>3. "expired" \in Reasons
    BY DEF Reasons
  <1>4. /\ retry \subseteq DOMAIN ds.pending /\ dead \subseteq DOMAIN ds.pending
        /\ retry \cap dead = {}
    BY DEF ExpiredPending
  <1>5. /\ \A id \in retry : ds.pending[id].attempt < MaxAttempts
        /\ \A id \in dead : ds.pending[id].attempt >= MaxAttempts
    BY <1>1, <1>4, RetryableFacts
  <1>6. ASSUME retry = {} \/ ~Overflows(now, Backoff),
               ds' = MarkRetryAvailable(swept, ReadyRetryEntries(swept, now))
        PROVE  IInv'
    <2>1. retry # {} => now + Backoff \in Timestamps
      BY <1>6, CommandAssumption, PolicyAssumption DEF Overflows, Timestamps
    <2> HIDE DEF retry, dead
    <2>2. DeliveryInv(swept)
      BY <1>1, <1>3, <1>4, <1>5, <2>1, OutcomesInv
    <2>3. IssuedTracked(swept, issued) /\ AttemptsLeft(swept)
      BY <1>1, <1>4, <1>5, OutcomesCounts
    <2> HIDE DEF swept
    <2> QED BY <1>2, <1>6, <2>2, <2>3, AvailableInv, AvailableCounts, DeliveryStep
  <1>7. ASSUME NEW failed \in retry, NEW done \in SUBSET dead,
               ds' = DropPending(ApplyOutcomes(ds, {}, now, done, "expired"), failed)
        PROVE  IInv'
    <2> DEFINE mid == ApplyOutcomes(ds, {}, now, done, "expired")
    <2> HIDE DEF retry, dead
    <2>1. DeliveryInv(mid)
      BY <1>1, <1>3, <1>4, <1>5, OutcomesInv
    <2>2. IssuedTracked(mid, issued) /\ AttemptsLeft(mid)
      BY <1>1, <1>4, OutcomesCounts
    <2>3. mid.pending = Remove(ds.pending, done)
      <3>1. Shape(ds)
        BY <1>1 DEF DeliveryInv, DeliveryTypeOK
      <3> QED BY <3>1 DEF Shape, StateFields, ApplyOutcomes
    <2>4. failed \in DOMAIN mid.pending /\ mid.pending[failed] = ds.pending[failed]
      BY <1>4, <2>3 DEF Remove
    <2> HIDE DEF mid
    <2> QED BY <1>2, <1>5, <1>7, <2>1, <2>2, <2>4, DropFacts, DeliveryStep DEF mid
  <1> QED BY <1>6, <1>7 DEF RetryReady

-----------------------------------------------------------------------------
(* The theorems.                                                           *)

\* A new broker satisfies the invariant.
LEMMA InitInv == Init => IInv
  <1> SUFFICES ASSUME Init PROVE IInv
    OBVIOUS
  <1>1. DeliveryInv(ds)
    BY EmptyInv DEF Init
  <1>2. logs \in [Topics -> [Partitions -> Seq(Messages)]]
    BY DEF Init, EmptyLogs
  <1>3. nextRR \in [Topics -> Partitions]
    BY PartitionFacts DEF Init
  <1>4. AttemptsLeft(ds)
    BY EmptyFields, EmptyMapFacts DEF Init, AttemptsLeft
  <1> QED BY <1>1, <1>2, <1>3, <1>4
          DEF Init, IInv, TypeOK, DeliveryInv, AttemptCountsTracked, AttemptsBounded,
              IssuedTracked, EmptyMap

\* Every step preserves the invariant.
LEMMA NextInv == IInv /\ [Next]_vars => IInv'
  <1> SUFFICES ASSUME IInv, [Next]_vars PROVE IInv'
    OBVIOUS
  <1>1. CASE \E t \in Topics : CreateTopic(t)
    BY <1>1, CreateTopicStep
  <1>2. CASE \E t \in Topics, m \in Messages : Publish(t, m)
    BY <1>2, PublishStep
  <1>3. CASE \E g \in Groups, c \in Consumers, t \in Topics, max \in 0 .. MaxBatch,
                now \in Times, lease \in Leases : Consume(g, c, t, max, now, lease)
    BY <1>3, ConsumeStep
  <1>4. CASE \E id \in DOMAIN ds.pending, c \in Consumers : Ack(id, c)
    BY <1>4, AckStep
  <1>5. CASE \E id \in DOMAIN ds.pending, c \in Consumers, now \in Times : Nack(id, c, now)
    BY <1>5, NackStep
  <1>6. CASE \E now \in Times : RetryReady(now)
    BY <1>6, RetryReadyStep
  <1>7. CASE UNCHANGED vars
    BY <1>7 DEF vars, IInv, TypeOK, AttemptCountsTracked, AttemptsBounded
  <1> QED BY <1>1, <1>2, <1>3, <1>4, <1>5, <1>6, <1>7 DEF Next

\* The inductive invariant holds in every reachable state.
THEOREM Invariance == Spec => []IInv
  BY InitInv, NextInv, PTL DEF Spec

\* Every reachable state of the in-memory broker is well-typed.
THEOREM TypeCorrectness == Spec => []TypeOK
  <1>1. IInv => TypeOK
    BY DEF IInv
  <1> QED BY <1>1, Invariance, PTL

\* A group holds a message back for one reason at a time (is_available, mark_*).
THEOREM OnePlaceTheorem == Spec => []OnePlacePerMessage
  <1>1. IInv => OnePlacePerMessage
    BY DEF IInv, DeliveryInv, OnePlacePerMessage
  <1> QED BY <1>1, Invariance, PTL

\* The maps pending and pending_by_offset are inverse to each other.
THEOREM PendingIndexTheorem == Spec => []PendingIndexAgrees
  <1>1. IInv => PendingIndexAgrees
    BY DEF IInv, DeliveryInv, PendingIndexAgrees
  <1> QED BY <1>1, Invariance, PTL

\* attempt_counts covers exactly what is unsettled, and every id handed out.
THEOREM AttemptCountsTheorem == Spec => []AttemptCountsTracked
  <1>1. IInv => AttemptCountsTracked
    BY DEF IInv
  <1> QED BY <1>1, Invariance, PTL

\* No message is delivered more than max_attempts times to a group.
THEOREM AttemptsBoundedTheorem == Spec => []AttemptsBounded
  <1>1. IInv => AttemptsBounded
    BY DEF IInv
  <1> QED BY <1>1, Invariance, PTL

\* A message enters the DLQ of a group once, after its last allowed attempt.
THEOREM DeadLetteredOnceTheorem == Spec => []DeadLetteredOnce
  <1>1. IInv => DeadLetteredOnce
    BY DEF IInv, DeliveryInv, DeadLetteredOnce
  <1> QED BY <1>1, Invariance, PTL

\* The cursor is the first offset the group has not acknowledged.
THEOREM CursorTheorem == Spec => []CursorOnAcked
  <1>1. IInv => CursorOnAcked
    BY DEF IInv, DeliveryInv, CursorOnAcked
  <1> QED BY <1>1, Invariance, PTL

-----------------------------------------------------------------------------
(* What a step may never do.                                               *)

\* A step that is not a consume adds no pending delivery, and none unsettles a
\* message.
LEMMA OutcomesKeep ==
  ASSUME NEW s, Shape(s), NEW retry, NEW readyAt, NEW dead, NEW reason
  PROVE  LET t == ApplyOutcomes(s, retry, readyAt, dead, reason)
         IN  /\ Shape(t) /\ DOMAIN t.pending \subseteq DOMAIN s.pending
             /\ s.acked \subseteq t.acked /\ s.deadLettered \subseteq t.deadLettered
             /\ s.deadLetters \subseteq t.deadLetters
  BY DEF Shape, StateFields, ApplyOutcomes, Remove

\* The same of the other transitions.
LEMMA OthersKeep ==
  ASSUME NEW s, Shape(s), NEW id, NEW X
  PROVE  \A t \in {ApplyAck(s, id), DropPending(s, id), MarkRetryAvailable(s, X)} :
           /\ DOMAIN t.pending \subseteq DOMAIN s.pending
           /\ s.acked \subseteq t.acked /\ s.deadLettered \subseteq t.deadLettered
           /\ s.deadLetters \subseteq t.deadLetters
  <1>1. LET t == ApplyAck(s, id)
        IN  /\ DOMAIN t.pending \subseteq DOMAIN s.pending
            /\ s.acked \subseteq t.acked /\ s.deadLettered \subseteq t.deadLettered
            /\ s.deadLetters \subseteq t.deadLetters
    BY DEF Shape, StateFields, ApplyAck, Remove
  <1>2. LET t == DropPending(s, id)
        IN  /\ DOMAIN t.pending \subseteq DOMAIN s.pending
            /\ s.acked \subseteq t.acked /\ s.deadLettered \subseteq t.deadLettered
            /\ s.deadLetters \subseteq t.deadLetters
    BY DEF Shape, StateFields, DropPending, Remove
  <1>3. LET t == MarkRetryAvailable(s, X)
        IN  /\ DOMAIN t.pending \subseteq DOMAIN s.pending
            /\ s.acked \subseteq t.acked /\ s.deadLettered \subseteq t.deadLettered
            /\ s.deadLetters \subseteq t.deadLetters
    BY DEF Shape, StateFields, MarkRetryAvailable, Remove
  <1> QED BY <1>1, <1>2, <1>3

\* Nothing settled becomes unsettled.
Monotone ==
  /\ ds.acked \subseteq ds'.acked
  /\ ds.deadLettered \subseteq ds'.deadLettered
  /\ ds.deadLetters \subseteq ds'.deadLetters

\* No id that becomes pending has been handed out before.
NoReuse == (DOMAIN ds'.pending \ DOMAIN ds.pending) \cap issued = {}

\* A consume hands out ids that were never handed out before, and settles
\* nothing.
LEMMA ConsumeFresh ==
  ASSUME IInv,
         NEW g \in Groups, NEW c \in Consumers, NEW t \in Topics, NEW max \in 0 .. MaxBatch,
         NEW now \in Times, NEW lease \in Leases, Consume(g, c, t, max, now, lease)
  PROVE  Monotone /\ NoReuse
  <1> DEFINE slots    == Selected(ds, g, t, LogLengths(t), max)
             attempts == [x \in slots |-> NextAttemptNumber(ds, x)]
             ids      == { DeliveryId(x, attempts[x]) : x \in DOMAIN attempts }
  <1>1. ds' = ApplyConsumed(ds, attempts, c, now + lease)
    BY DEF Consume
  <1>2. DeliveryInv(ds) /\ AttemptsLeft(ds) /\ IssuedTracked(ds, issued) /\ Shape(ds)
    BY DEF IInv, AttemptCountsTracked, AttemptsBounded, DeliveryInv, DeliveryTypeOK
  <1>3. LogLengths(t) \in [Partitions -> Nat]
    BY DEF IInv, TypeOK, LogLengths
  <1>4. \A x \in slots : x \in Slots /\ IsAvailable(ds, x)
    BY <1>3, SelectedFacts
  <1>5. \A x \in slots : /\ NextAttemptNumber(ds, x) \in Nat \ {0}
                         /\ x \in DOMAIN ds.attemptCounts =>
                              NextAttemptNumber(ds, x) > ds.attemptCounts[x]
    BY <1>2, <1>4, NextAttemptFacts
  <1>6. \A id \in ids : id.slot \in slots /\ id.attempt = NextAttemptNumber(ds, id.slot)
    BY <1>4, <1>5, RecordFacts
  <1>7. \A x \in DOMAIN ds.attemptCounts : ds.attemptCounts[x] \in Nat
    BY <1>2 DEF DeliveryInv, DeliveryTypeOK, IsMap
  <1>8. ids \cap issued = {}
    <2> SUFFICES ASSUME NEW id \in ids, id \in issued PROVE FALSE
      OBVIOUS
    <2>1. id.slot \notin ds.acked \cup ds.deadLettered
      BY <1>4, <1>6 DEF IsAvailable
    <2>2. id.slot \in DOMAIN ds.attemptCounts /\ id.attempt <= ds.attemptCounts[id.slot]
      BY <1>2, <2>1 DEF IssuedTracked
    <2> QED BY <1>5, <1>6, <1>7, <2>2
  <1> HIDE DEF attempts
  <1>9. /\ DOMAIN ds'.pending \subseteq DOMAIN ds.pending \cup ids
        /\ ds'.acked = ds.acked /\ ds'.deadLettered = ds.deadLettered
        /\ ds'.deadLetters = ds.deadLetters
    BY <1>1, <1>2 DEF Shape, StateFields, ApplyConsumed, Insert
  <1> QED BY <1>8, <1>9 DEF Monotone, NoReuse

\* Every step is monotone and reuses no id.
LEMMA StepFacts == IInv /\ [Next]_vars => Monotone /\ NoReuse
  <1> SUFFICES ASSUME IInv, [Next]_vars PROVE Monotone /\ NoReuse
    OBVIOUS
  <1>0. Shape(ds)
    BY DEF IInv, TypeOK, DeliveryTypeOK
  <1>1. CASE UNCHANGED ds
    BY <1>1 DEF Monotone, NoReuse
  <1>2. ASSUME NEW g \in Groups, NEW c \in Consumers, NEW t \in Topics,
               NEW max \in 0 .. MaxBatch, NEW now \in Times, NEW lease \in Leases,
               Consume(g, c, t, max, now, lease)
        PROVE  Monotone /\ NoReuse
    BY <1>2, ConsumeFresh
  <1>3. ASSUME NEW id \in DOMAIN ds.pending, NEW c \in Consumers, Ack(id, c)
        PROVE  Monotone /\ NoReuse
    <2>1. ds' = ApplyAck(ds, id)
      BY <1>3 DEF Ack
    <2> QED BY <1>0, <2>1, OthersKeep DEF Monotone, NoReuse
  <1>4. ASSUME NEW id \in DOMAIN ds.pending, NEW c \in Consumers, NEW now \in Times,
               Nack(id, c, now)
        PROVE  Monotone /\ NoReuse
    <2>1. CASE ds' = DropPending(ds, id)
      BY <1>0, <2>1, OthersKeep DEF Monotone, NoReuse
    <2>2. CASE \E R, D, r : ds' = ApplyOutcomes(ds, R, r, D, "manual")
      BY <1>0, <2>2, OutcomesKeep DEF Monotone, NoReuse
    <2> QED BY <1>4, <2>1, <2>2 DEF Nack
  <1>5. ASSUME NEW now \in Times, RetryReady(now)
        PROVE  Monotone /\ NoReuse
    <2>1. \E R, D, r : LET mid == ApplyOutcomes(ds, R, r, D, "expired")
                       IN  \/ \E X : ds' = MarkRetryAvailable(mid, X)
                           \/ \E id : ds' = DropPending(mid, id)
      BY <1>5 DEF RetryReady
    <2>2. PICK R, D, r : LET mid == ApplyOutcomes(ds, R, r, D, "expired")
                         IN  \/ \E X : ds' = MarkRetryAvailable(mid, X)
                             \/ \E id : ds' = DropPending(mid, id)
      BY <2>1
    <2> DEFINE mid == ApplyOutcomes(ds, R, r, D, "expired")
    <2>3. /\ Shape(mid) /\ DOMAIN mid.pending \subseteq DOMAIN ds.pending
          /\ ds.acked \subseteq mid.acked /\ ds.deadLettered \subseteq mid.deadLettered
          /\ ds.deadLetters \subseteq mid.deadLetters
      BY <1>0, OutcomesKeep
    <2>4. \/ \E X : ds' = MarkRetryAvailable(mid, X)
          \/ \E id : ds' = DropPending(mid, id)
      BY <2>2
    <2> HIDE DEF mid
    <2>5. /\ DOMAIN ds'.pending \subseteq DOMAIN mid.pending
          /\ mid.acked \subseteq ds'.acked /\ mid.deadLettered \subseteq ds'.deadLettered
          /\ mid.deadLetters \subseteq ds'.deadLetters
      BY <2>3, <2>4, OthersKeep
    <2> QED BY <2>3, <2>5 DEF Monotone, NoReuse
  <1>6. CASE \E t \in Topics : CreateTopic(t)
    BY <1>1, <1>6 DEF CreateTopic
  <1>7. CASE \E t \in Topics, m \in Messages : Publish(t, m)
    BY <1>1, <1>7 DEF Publish
  <1>8. CASE UNCHANGED vars
    BY <1>1, <1>8 DEF vars
  <1> QED BY <1>2, <1>3, <1>4, <1>5, <1>6, <1>7, <1>8 DEF Next

\* No delivery id is handed out twice: a late ACK or NACK never hits a later
\* attempt.
THEOREM NoReuseTheorem == Spec => DeliveryIdsNeverReused
  <1>1. IInv /\ [Next]_vars => [NoReuse]_vars
    BY StepFacts
  <1> QED BY <1>1, Invariance, PTL DEF Spec, DeliveryIdsNeverReused, NoReuse

\* What a group has acknowledged or dead-lettered stays so.
THEOREM SettledForeverTheorem == Spec => SettledForever
  <1>1. IInv /\ [Next]_vars => [Monotone]_vars
    BY StepFacts
  <1> QED BY <1>1, Invariance, PTL DEF Spec, SettledForever, Monotone

-----------------------------------------------------------------------------
(* Publishing.                                                             *)

\* A publish appends one message to one partition and changes no other.
LEMMA PublishLogs ==
  ASSUME TypeOK, NEW t \in Topics, NEW m \in Messages, Publish(t, m)
  PROVE  LET p == SelectPartition(m, nextRR[t])
         IN  /\ p \in Partitions
             /\ logs'[t][p] = Append(logs[t][p], m)
             /\ \A u \in Topics, q \in Partitions : <<u, q>> # <<t, p>> => logs'[u][q] = logs[u][q]
             /\ \A u \in Topics, q \in Partitions : logs[u][q] \in Seq(Messages)
  <1> DEFINE p == SelectPartition(m, nextRR[t])
  <1>1. p \in Partitions
    BY SelectPartitionFacts DEF TypeOK
  <1> HIDE DEF p
  <1>2. logs' = [logs EXCEPT ![t][p] = Append(logs[t][p], m)]
    BY DEF Publish, AppendMessage, p
  <1>3. logs'[t][p] = Append(logs[t][p], m)
    BY <1>1, <1>2 DEF TypeOK
  <1>4. \A u \in Topics, q \in Partitions : <<u, q>> # <<t, p>> => logs'[u][q] = logs[u][q]
    BY <1>1, <1>2 DEF TypeOK
  <1>5. \A u \in Topics, q \in Partitions : logs[u][q] \in Seq(Messages)
    BY DEF TypeOK
  <1> QED BY <1>1, <1>3, <1>4, <1>5 DEF p

\* Every delivery ever handed out is of a message in the log.
THEOREM OnlyPublishedTheorem == Spec => []OnlyPublishedDelivered
  <1>1. Init => OnlyPublishedDelivered
    BY DEF Init, OnlyPublishedDelivered
  <1>2. IInv /\ OnlyPublishedDelivered /\ [Next]_vars => OnlyPublishedDelivered'
    <2> SUFFICES ASSUME IInv, OnlyPublishedDelivered, [Next]_vars
                 PROVE  OnlyPublishedDelivered'
      OBVIOUS
    <2>1. TypeOK
      BY DEF IInv
    <2>2. ASSUME UNCHANGED <<logs, issued>> PROVE OnlyPublishedDelivered'
      BY <2>2 DEF OnlyPublishedDelivered
    <2>3. ASSUME NEW t \in Topics, NEW m \in Messages, Publish(t, m)
          PROVE  OnlyPublishedDelivered'
      <3>1. UNCHANGED issued
        BY <2>3 DEF Publish
      <3>2. \A u \in Topics, q \in Partitions : Len(logs'[u][q]) >= Len(logs[u][q])
        BY <2>1, <2>3, PublishLogs
      <3>3. \A id \in issued : /\ id.slot.topic \in Topics /\ id.slot.partition \in Partitions
                               /\ id.slot.offset \in Nat
        BY <2>1, RecordFacts DEF TypeOK
      <3>4. \A u \in Topics, q \in Partitions : Len(logs'[u][q]) \in Nat /\ Len(logs[u][q]) \in Nat
        <4>1. TypeOK'
          BY <2>3, PublishStep DEF IInv
        <4>2. /\ logs \in [Topics -> [Partitions -> Seq(Messages)]]
              /\ logs' \in [Topics -> [Partitions -> Seq(Messages)]]
          BY <2>1, <4>1 DEF TypeOK
        <4>3. ASSUME NEW u \in Topics, NEW q \in Partitions
              PROVE  Len(logs'[u][q]) \in Nat /\ Len(logs[u][q]) \in Nat
          <5>1. logs'[u][q] \in Seq(Messages) /\ logs[u][q] \in Seq(Messages)
            BY <4>2
          <5> QED BY <5>1
        <4> QED BY <4>3
      <3>5. ASSUME NEW id \in issued
            PROVE  id.slot.offset < Len(logs'[id.slot.topic][id.slot.partition])
        <4>1. id.slot.offset < Len(logs[id.slot.topic][id.slot.partition])
          BY DEF OnlyPublishedDelivered
        <4> DEFINE before == Len(logs[id.slot.topic][id.slot.partition])
                   after == Len(logs'[id.slot.topic][id.slot.partition])
        <4>2. id.slot.topic \in Topics /\ id.slot.partition \in Partitions /\ id.slot.offset \in Nat
          BY <3>3
        <4>3. before \in Nat /\ after \in Nat /\ after >= before /\ id.slot.offset < before
          BY <3>2, <3>4, <4>1, <4>2
        <4> HIDE DEF before, after
        <4>4. id.slot.offset < after
          BY <4>2, <4>3
        <4> QED BY <4>4 DEF after
      <3> QED BY <3>1, <3>5 DEF OnlyPublishedDelivered
    <2>4. ASSUME NEW g \in Groups, NEW c \in Consumers, NEW t \in Topics,
                 NEW max \in 0 .. MaxBatch, NEW now \in Times, NEW lease \in Leases,
                 Consume(g, c, t, max, now, lease)
          PROVE  OnlyPublishedDelivered'
      <3> DEFINE slots == Selected(ds, g, t, LogLengths(t), max)
      <3>1. UNCHANGED logs /\ issued' = issued \cup { DeliveryId(x, NextAttemptNumber(ds, x)) : x \in slots }
        BY <2>4 DEF Consume
      <3>2. LogLengths(t) \in [Partitions -> Nat]
        BY <2>1 DEF TypeOK, LogLengths
      <3>3. \A x \in slots : x \in Slots /\ x.topic = t /\ x.offset < LogLengths(t)[x.partition]
        BY <3>2, SelectedFacts
      <3>4. \A x \in slots : x.offset < Len(logs[x.topic][x.partition])
        BY <3>3, RecordFacts DEF LogLengths
      <3>5. \A x, n : DeliveryId(x, n).slot = x
        BY DEF DeliveryId
      <3> QED BY <3>1, <3>4, <3>5 DEF OnlyPublishedDelivered
    <2> QED BY <2>2, <2>3, <2>4 DEF Next, CreateTopic, Ack, Nack, RetryReady, vars
  <1> QED BY <1>1, <1>2, Invariance, PTL DEF Spec

\* An idempotency key is in the log of its topic at most once, and the index
\* answers retries with that record.
THEOREM KeyPublishedOnceTheorem == Spec => []KeyPublishedOnce
  <1>1. Init => KeyPublishedOnce
    BY DEF Init, EmptyLogs, KeyPublishedOnce
  <1>2. IInv /\ KeyPublishedOnce /\ [Next]_vars => KeyPublishedOnce'
    <2> SUFFICES ASSUME IInv, KeyPublishedOnce, [Next]_vars
                 PROVE  KeyPublishedOnce'
      OBVIOUS
    <2>1. TypeOK
      BY DEF IInv
    <2>2. ASSUME UNCHANGED <<logs, index>> PROVE KeyPublishedOnce'
      BY <2>2 DEF KeyPublishedOnce
    <2>3. ASSUME NEW t \in Topics, NEW m \in Messages, Publish(t, m)
          PROVE  KeyPublishedOnce'
      <3> DEFINE p == SelectPartition(m, nextRR[t])
                 n == Len(logs[t][p])
                 k == m.idempotencyKey
      <3>1. /\ p \in Partitions /\ logs'[t][p] = Append(logs[t][p], m)
            /\ \A u \in Topics, q \in Partitions : <<u, q>> # <<t, p>> => logs'[u][q] = logs[u][q]
            /\ \A u \in Topics, q \in Partitions : logs[u][q] \in Seq(Messages)
        BY <2>1, <2>3, PublishLogs
      <3>2. /\ index' = RecordPublish(index, t, m, p, n)
            /\ k = NoKey \/ <<t, k>> \notin DOMAIN index
        BY <2>3 DEF Publish, CheckIdempotency
      <3> HIDE DEF p
      <3>3. /\ n \in Nat /\ DOMAIN logs'[t][p] = 1 .. n + 1 /\ logs'[t][p][n + 1] = m
            /\ DOMAIN logs[t][p] = 1 .. n
            /\ \A i \in 1 .. n : logs'[t][p][i] = logs[t][p][i]
        BY <3>1
      <3> HIDE DEF n
      \* A place that holds a message after the publish holds the new message
      \* or held the same one before.
      <3>4. ASSUME NEW u \in Topics, NEW q \in Partitions, NEW i \in DOMAIN logs'[u][q]
            PROVE  \/ u = t /\ q = p /\ i = n + 1 /\ logs'[u][q][i] = m
                   \/ i \in DOMAIN logs[u][q] /\ logs'[u][q][i] = logs[u][q][i]
        <4>1. CASE u = t /\ q = p
          <5>1. i = n + 1 \/ i \in 1 .. n
            BY <3>3, <4>1
          <5> QED BY <3>3, <4>1, <5>1
        <4>2. CASE ~(u = t /\ q = p)
          <5>1. logs'[u][q] = logs[u][q]
            BY <3>1, <4>2
          <5> QED BY <5>1
        <4> QED BY <4>1, <4>2
      <3>5. ASSUME NEW u \in Topics, NEW q \in Partitions, NEW i \in DOMAIN logs[u][q],
                   LET e == logs[u][q][i] IN e.idempotencyKey # NoKey
            PROVE  LET e == logs[u][q][i]
                   IN  /\ <<u, e.idempotencyKey>> \in DOMAIN index
                       /\ index[<<u, e.idempotencyKey>>] = IdempotencyRecord(u, e, q, i - 1)
                       /\ k # NoKey => <<u, e.idempotencyKey>> # <<t, k>>
                       /\ <<u, e.idempotencyKey>> \in DOMAIN index'
                       /\ index'[<<u, e.idempotencyKey>>] = IdempotencyRecord(u, e, q, i - 1)
        <4> DEFINE e == logs[u][q][i]
        <4>1. /\ <<u, e.idempotencyKey>> \in DOMAIN index
              /\ index[<<u, e.idempotencyKey>>] = IdempotencyRecord(u, e, q, i - 1)
          BY <3>5 DEF KeyPublishedOnce
        <4> HIDE DEF e
        <4>2. k # NoKey => <<u, e.idempotencyKey>> # <<t, k>>
          BY <3>2, <4>1
        <4>3. /\ <<u, e.idempotencyKey>> \in DOMAIN index'
              /\ index'[<<u, e.idempotencyKey>>] = index[<<u, e.idempotencyKey>>]
          BY <3>2, <4>1, <4>2 DEF RecordPublish, Insert
        <4> QED BY <4>1, <4>2, <4>3 DEF e
      <3>6. k # NoKey => /\ <<t, k>> \in DOMAIN index'
                         /\ index'[<<t, k>>] = IdempotencyRecord(t, m, p, n)
        BY <3>2 DEF RecordPublish, Insert
      <3>7. ASSUME NEW u \in Topics, NEW q \in Partitions, NEW r \in Partitions,
                   NEW i \in DOMAIN logs'[u][q], NEW j \in DOMAIN logs'[u][r],
                   LET e == logs'[u][q][i] IN e.idempotencyKey # NoKey
            PROVE  LET e == logs'[u][q][i]
                       f == logs'[u][r][j]
                   IN  /\ <<u, e.idempotencyKey>> \in DOMAIN index'
                       /\ index'[<<u, e.idempotencyKey>>] = IdempotencyRecord(u, e, q, i - 1)
                       /\ e.idempotencyKey = f.idempotencyKey => <<q, i>> = <<r, j>>
        <4>1. CASE /\ i \in DOMAIN logs[u][q] /\ logs'[u][q][i] = logs[u][q][i]
                   /\ j \in DOMAIN logs[u][r] /\ logs'[u][r][j] = logs[u][r][j]
          BY <3>5, <3>7, <4>1 DEF KeyPublishedOnce
        <4>2. CASE /\ i \in DOMAIN logs[u][q] /\ logs'[u][q][i] = logs[u][q][i]
                   /\ u = t /\ r = p /\ j = n + 1 /\ logs'[u][r][j] = m
          BY <3>5, <3>7, <4>2
        <4>3. CASE /\ u = t /\ q = p /\ i = n + 1 /\ logs'[u][q][i] = m
                   /\ j \in DOMAIN logs[u][r] /\ logs'[u][r][j] = logs[u][r][j]
          <5> DEFINE f == logs[u][r][j]
          <5>1. k # NoKey /\ i - 1 = n
            BY <3>3, <3>7, <4>3
          <5>2. <<t, k>> \in DOMAIN index' /\ index'[<<t, k>>] = IdempotencyRecord(t, m, p, n)
            BY <3>6, <5>1
          <5>3. f.idempotencyKey # k
            <6> SUFFICES ASSUME f.idempotencyKey = k PROVE FALSE
              OBVIOUS
            <6>1. f.idempotencyKey # NoKey
              BY <5>1
            <6>2. <<u, f.idempotencyKey>> # <<t, k>>
              BY <3>5, <4>3, <5>1, <6>1
            <6> QED BY <4>3, <6>2
          <5> QED BY <4>3, <5>1, <5>2, <5>3
        <4>4. CASE /\ u = t /\ q = p /\ i = n + 1 /\ logs'[u][q][i] = m
                   /\ r = p /\ j = n + 1
          BY <3>3, <3>6, <3>7, <4>4
        <4> QED BY <3>4, <4>1, <4>2, <4>3, <4>4
      <3> QED BY <3>7 DEF KeyPublishedOnce
    <2>4. CASE UNCHANGED vars
      BY <2>2, <2>4 DEF vars
    <2>5. CASE \E t \in Topics : CreateTopic(t)
      BY <2>2, <2>5 DEF CreateTopic
    <2>6. CASE \E g \in Groups, c \in Consumers, t \in Topics, max \in 0 .. MaxBatch,
                  now \in Times, lease \in Leases : Consume(g, c, t, max, now, lease)
      BY <2>2, <2>6 DEF Consume
    <2>7. CASE \E id \in DOMAIN ds.pending, c \in Consumers : Ack(id, c)
      BY <2>2, <2>7 DEF Ack
    <2>8. CASE \E id \in DOMAIN ds.pending, c \in Consumers, now \in Times : Nack(id, c, now)
      BY <2>2, <2>8 DEF Nack
    <2>9. CASE \E now \in Times : RetryReady(now)
      BY <2>2, <2>9 DEF RetryReady
    <2> QED BY <2>3, <2>4, <2>5, <2>6, <2>7, <2>8, <2>9 DEF Next
  <1> QED BY <1>1, <1>2, Invariance, PTL DEF Spec

=============================================================================
