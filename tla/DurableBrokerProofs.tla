------------------------- MODULE DurableBrokerProofs -------------------------
(***************************************************************************)
(* The invariants of the durable broker, for every value of the constants: *)
(* any number of crashes, power failures and failed appends, any state     *)
(* log. DeliveryProofs has what each transition of a delivery state        *)
(* preserves and ReplayProofs what the replay of a state log yields; here  *)
(* the live state and the replay are kept in step.                         *)
(***************************************************************************)
EXTENDS DurableBroker, ReplayProofs

-----------------------------------------------------------------------------
(* The inductive invariant.                                                *)

\* The live state s and the replayed state q agree on everything but the
\* deliveries in flight; q still has the ones a reopen released.
Agrees(s, q) ==
  /\ s.acked = q.acked /\ s.deadLettered = q.deadLettered
  /\ s.deadLetters = q.deadLetters /\ s.cursor = q.cursor
  /\ s.retryByOffset = q.retryByOffset /\ s.attemptCounts = q.attemptCounts
  /\ \A id \in DOMAIN s.pending : id \in DOMAIN q.pending /\ q.pending[id] = s.pending[id]

\* A message in flight may be one attempt past the policy, the others are not.
CountsBounded(s) ==
  \A x \in DOMAIN s.attemptCounts :
    /\ s.attemptCounts[x] <= MaxAttempts + 1
    /\ x \notin DOMAIN s.pendingByOffset => s.attemptCounts[x] <= MaxAttempts

\* Every line is one the code writes, continuing the counts of those before it.
FilesOK ==
  /\ WellFormed(logs, stateLog)
  /\ status = "up" => Covered(logs, stateLog)

\* Memory, as long as the process is up, by itself ...
MemoryOK ==
  /\ DeliveryInv(ds)
  /\ status = "up" =>
       /\ IssuedTracked(ds, issued)
       /\ CountsBounded(ds)
       /\ \A x \in Tracked(ds) : MessageExists(logs, topics, x)
       /\ settled = Settled(ds)

\* ... and as the state log tells it.
InStep ==
  LET r == Replay(logs, stateLog)
  IN  r # Corrupt =>
        /\ status = "up" => topics = r.topics /\ Agrees(ds, r.ds)
        /\ issued \subseteq IssuedUpTo(stateLog, Len(stateLog))
        /\ settled = Settled(r.ds)

IInv ==
  /\ TypeOK
  /\ AttemptsExceededOnce
  /\ FilesOK
  /\ MemoryOK
  /\ InStep

-----------------------------------------------------------------------------
(* Two states that agree, and the bound on the attempts, after every       *)
(* transition.                                                             *)

\* Agreeing states agree after the same transition on what is in flight in both.
LEMMA AgreesAfter ==
  ASSUME NEW s, Shape(s), NEW q, Shape(q), Agrees(s, q)
  PROVE  /\ \A attempts, c, lease :
              Agrees(ApplyConsumed(s, attempts, c, lease), ApplyConsumed(q, attempts, c, lease))
         /\ \A id \in DOMAIN s.pending : Agrees(ApplyAck(s, id), ApplyAck(q, id))
         /\ \A retry, dead \in SUBSET DOMAIN s.pending : \A readyAt, reason :
              Agrees(ApplyOutcomes(s, retry, readyAt, dead, reason),
                     ApplyOutcomes(q, retry, readyAt, dead, reason))
         /\ \A X : Agrees(MarkRetryAvailable(s, X), MarkRetryAvailable(q, X))
  <1>1. ASSUME NEW attempts, NEW c, NEW lease
        PROVE  Agrees(ApplyConsumed(s, attempts, c, lease), ApplyConsumed(q, attempts, c, lease))
    <2> DEFINE t   == ApplyConsumed(s, attempts, c, lease)
               u   == ApplyConsumed(q, attempts, c, lease)
               ids == { DeliveryId(x, attempts[x]) : x \in DOMAIN attempts }
               new == [id \in ids |-> [slot |-> id.slot, attempt |-> id.attempt,
                                       consumer |-> c, leaseExpiresAt |-> lease]]
    <2>1. /\ t.acked = s.acked /\ t.deadLettered = s.deadLettered
          /\ t.deadLetters = s.deadLetters /\ t.cursor = s.cursor
          /\ t.retryByOffset = s.retryByOffset
          /\ t.attemptCounts = Insert(s.attemptCounts, attempts)
          /\ t.pending = Insert(s.pending, new)
      BY DEF Shape, StateFields, ApplyConsumed
    <2>2. /\ u.acked = q.acked /\ u.deadLettered = q.deadLettered
          /\ u.deadLetters = q.deadLetters /\ u.cursor = q.cursor
          /\ u.retryByOffset = q.retryByOffset
          /\ u.attemptCounts = Insert(q.attemptCounts, attempts)
          /\ u.pending = Insert(q.pending, new)
      BY DEF Shape, StateFields, ApplyConsumed
    <2> HIDE DEF t, u, new
    <2>3. \A id \in DOMAIN Insert(s.pending, new) :
            /\ id \in DOMAIN Insert(q.pending, new)
            /\ Insert(q.pending, new)[id] = Insert(s.pending, new)[id]
      BY DEF Agrees, Insert
    <2> QED BY <2>1, <2>2, <2>3 DEF Agrees, t, u
  <1>2. ASSUME NEW id \in DOMAIN s.pending PROVE Agrees(ApplyAck(s, id), ApplyAck(q, id))
    <2> DEFINE t == ApplyAck(s, id)
               u == ApplyAck(q, id)
    <2>1. s.pending[id].slot = q.pending[id].slot /\ s.acked = q.acked /\ s.cursor = q.cursor
      BY DEF Agrees
    <2> DEFINE x  == s.pending[id].slot
               gp == GroupPartitionOf(x)
               A  == { y.offset : y \in { z \in s.acked \cup {x} : GroupPartitionOf(z) = gp } }
    <2>2. /\ t.acked = s.acked \cup {x} /\ t.cursor = [s.cursor EXCEPT ![gp] = AdvanceCursor(@, A)]
          /\ t.deadLettered = s.deadLettered /\ t.deadLetters = s.deadLetters
          /\ t.retryByOffset = s.retryByOffset /\ t.attemptCounts = Remove(s.attemptCounts, {x})
          /\ t.pending = Remove(s.pending, {id})
      BY DEF Shape, StateFields, ApplyAck
    <2>3. /\ u.acked = q.acked \cup {x} /\ u.cursor = [q.cursor EXCEPT ![gp] = AdvanceCursor(@, A)]
          /\ u.deadLettered = q.deadLettered /\ u.deadLetters = q.deadLetters
          /\ u.retryByOffset = q.retryByOffset /\ u.attemptCounts = Remove(q.attemptCounts, {x})
          /\ u.pending = Remove(q.pending, {id})
      BY <2>1 DEF Shape, StateFields, ApplyAck
    <2> HIDE DEF t, u, x, gp, A
    <2>4. \A d \in DOMAIN t.pending : d \in DOMAIN u.pending /\ u.pending[d] = t.pending[d]
      BY <2>2, <2>3 DEF Agrees, Remove
    <2> QED BY <2>2, <2>3, <2>4 DEF Agrees, t, u
  <1>3. ASSUME NEW retry \in SUBSET DOMAIN s.pending, NEW dead \in SUBSET DOMAIN s.pending,
               NEW readyAt, NEW reason
        PROVE  Agrees(ApplyOutcomes(s, retry, readyAt, dead, reason),
                      ApplyOutcomes(q, retry, readyAt, dead, reason))
    <2> DEFINE t == ApplyOutcomes(s, retry, readyAt, dead, reason)
               u == ApplyOutcomes(q, retry, readyAt, dead, reason)
               E(z) == { [slot |-> z.pending[id].slot, reason |-> reason,
                          attempts |-> z.pending[id].attempt] : id \in dead }
    <2>1. SlotsOf(s, retry) = SlotsOf(q, retry) /\ SlotsOf(s, dead) = SlotsOf(q, dead) /\ E(s) = E(q)
      BY DEF Agrees, SlotsOf
    <2>2. /\ t.acked = s.acked /\ t.deadLettered = s.deadLettered \cup SlotsOf(s, dead)
          /\ t.deadLetters = s.deadLetters \cup E(s) /\ t.cursor = s.cursor
          /\ t.retryByOffset = Insert(Remove(s.retryByOffset, SlotsOf(s, dead)),
                                      [x \in SlotsOf(s, retry) |-> readyAt])
          /\ t.attemptCounts = Remove(s.attemptCounts, SlotsOf(s, dead))
          /\ t.pending = Remove(s.pending, retry \cup dead)
      BY DEF Shape, StateFields, ApplyOutcomes, SlotsOf
    <2>3. /\ u.acked = q.acked /\ u.deadLettered = q.deadLettered \cup SlotsOf(q, dead)
          /\ u.deadLetters = q.deadLetters \cup E(q) /\ u.cursor = q.cursor
          /\ u.retryByOffset = Insert(Remove(q.retryByOffset, SlotsOf(q, dead)),
                                      [x \in SlotsOf(q, retry) |-> readyAt])
          /\ u.attemptCounts = Remove(q.attemptCounts, SlotsOf(q, dead))
          /\ u.pending = Remove(q.pending, retry \cup dead)
      BY DEF Shape, StateFields, ApplyOutcomes, SlotsOf
    <2> HIDE DEF t, u, E
    <2>4. \A d \in DOMAIN t.pending : d \in DOMAIN u.pending /\ u.pending[d] = t.pending[d]
      BY <2>2, <2>3 DEF Agrees, Remove
    <2> QED BY <2>1, <2>2, <2>3, <2>4 DEF Agrees, t, u
  <1>4. ASSUME NEW X PROVE Agrees(MarkRetryAvailable(s, X), MarkRetryAvailable(q, X))
    <2> DEFINE t == MarkRetryAvailable(s, X)
               u == MarkRetryAvailable(q, X)
    <2>1. /\ t.acked = s.acked /\ t.deadLettered = s.deadLettered
          /\ t.deadLetters = s.deadLetters /\ t.cursor = s.cursor
          /\ t.retryByOffset = Remove(s.retryByOffset, X)
          /\ t.attemptCounts = s.attemptCounts /\ t.pending = s.pending
      BY AvailableFields
    <2>2. /\ u.acked = q.acked /\ u.deadLettered = q.deadLettered
          /\ u.deadLetters = q.deadLetters /\ u.cursor = q.cursor
          /\ u.retryByOffset = Remove(q.retryByOffset, X)
          /\ u.attemptCounts = q.attemptCounts /\ u.pending = q.pending
      BY AvailableFields
    <2> HIDE DEF t, u
    <2> QED BY <2>1, <2>2 DEF Agrees, t, u
  <1> QED BY <1>1, <1>2, <1>3, <1>4

\* Releasing forgets all that agreeing states may differ in.
LEMMA AgreesReleased ==
  ASSUME NEW s, DeliveryInv(s), NEW q, DeliveryInv(q)
  PROVE  /\ Agrees(s, q) => ReleasePending(s) = ReleasePending(q) /\ Settled(s) = Settled(q)
         /\ Agrees(ReleasePending(q), q)
  <1> DEFINE t == ReleasePending(s)
             u == ReleasePending(q)
  <1>1. /\ Shape(t) /\ t.acked = s.acked /\ t.deadLettered = s.deadLettered
        /\ t.deadLetters = s.deadLetters /\ t.cursor = s.cursor
        /\ t.retryByOffset = s.retryByOffset /\ t.attemptCounts = s.attemptCounts
        /\ t.pending = EmptyMap /\ t.pendingByOffset = EmptyMap
    BY ReleaseFields
  <1>2. /\ Shape(u) /\ u.acked = q.acked /\ u.deadLettered = q.deadLettered
        /\ u.deadLetters = q.deadLetters /\ u.cursor = q.cursor
        /\ u.retryByOffset = q.retryByOffset /\ u.attemptCounts = q.attemptCounts
        /\ u.pending = EmptyMap /\ u.pendingByOffset = EmptyMap
    BY ReleaseFields
  <1> HIDE DEF t, u
  <1>3. ASSUME Agrees(s, q) PROVE t = u /\ Settled(s) = Settled(q)
    <2>1. \A f \in StateFields : t[f] = u[f]
      BY <1>1, <1>2, <1>3 DEF Agrees, StateFields
    <2>2. t = u
      BY <1>1, <1>2, <2>1 DEF Shape
    <2> QED BY <1>3, <2>2 DEF Agrees, Settled
  <1>4. Agrees(u, q)
    BY <1>2, EmptyMapFacts DEF Agrees
  <1> QED BY <1>3, <1>4 DEF t, u

\* The bound on the attempts after every transition.
LEMMA CountsAfter ==
  ASSUME NEW s, DeliveryInv(s), CountsBounded(s)
  PROVE  /\ \A attempts, c, lease :
              (\A x \in DOMAIN attempts : attempts[x] <= MaxAttempts + 1) =>
                CountsBounded(ApplyConsumed(s, attempts, c, lease))
         /\ \A id \in DOMAIN s.pending : CountsBounded(ApplyAck(s, id))
         /\ \A retry, dead \in SUBSET DOMAIN s.pending : \A readyAt, reason :
              (\A id \in retry : s.pending[id].attempt < MaxAttempts) =>
                CountsBounded(ApplyOutcomes(s, retry, readyAt, dead, reason))
         /\ \A X : CountsBounded(MarkRetryAvailable(s, X))
  <1>1. Shape(s)
    BY DEF DeliveryInv, DeliveryTypeOK
  <1>2. ASSUME NEW attempts, NEW c, NEW lease,
               \A x \in DOMAIN attempts : attempts[x] <= MaxAttempts + 1
        PROVE  CountsBounded(ApplyConsumed(s, attempts, c, lease))
    <2> DEFINE t == ApplyConsumed(s, attempts, c, lease)
    <2>1. /\ t.attemptCounts = Insert(s.attemptCounts, attempts)
          /\ DOMAIN t.pendingByOffset = DOMAIN s.pendingByOffset \cup DOMAIN attempts
      BY <1>1 DEF Shape, StateFields, ApplyConsumed, Insert
    <2> HIDE DEF t
    <2> QED BY <1>2, <2>1 DEF CountsBounded, Insert, t
  <1>3. ASSUME NEW id \in DOMAIN s.pending PROVE CountsBounded(ApplyAck(s, id))
    <2> DEFINE t == ApplyAck(s, id)
               x == s.pending[id].slot
    <2>1. /\ t.attemptCounts = Remove(s.attemptCounts, {x})
          /\ t.pendingByOffset = Remove(s.pendingByOffset, {x})
      BY <1>1 DEF Shape, StateFields, ApplyAck
    <2> HIDE DEF t, x
    <2> QED BY <2>1 DEF CountsBounded, Remove, t
  <1>4. ASSUME NEW retry \in SUBSET DOMAIN s.pending, NEW dead \in SUBSET DOMAIN s.pending,
               NEW readyAt, NEW reason, \A id \in retry : s.pending[id].attempt < MaxAttempts
        PROVE  CountsBounded(ApplyOutcomes(s, retry, readyAt, dead, reason))
    <2> DEFINE t == ApplyOutcomes(s, retry, readyAt, dead, reason)
    <2>1. /\ t.attemptCounts = Remove(s.attemptCounts, SlotsOf(s, dead))
          /\ t.pendingByOffset = Remove(s.pendingByOffset, SlotsOf(s, retry \cup dead))
      BY <1>1 DEF Shape, StateFields, ApplyOutcomes, SlotsOf
    <2>2. \A x \in SlotsOf(s, retry) : s.attemptCounts[x] < MaxAttempts
      <3>1. \A id \in DOMAIN s.pending : s.attemptCounts[s.pending[id].slot] = s.pending[id].attempt
        BY DEF DeliveryInv, PendingMapsAgree, AttemptsTracked
      <3> QED BY <1>4, <3>1 DEF SlotsOf
    <2>3. \A x \in DOMAIN s.attemptCounts : s.attemptCounts[x] \in Nat
      BY DEF DeliveryInv, DeliveryTypeOK, IsMap
    <2>4. SlotsOf(s, retry \cup dead) = SlotsOf(s, retry) \cup SlotsOf(s, dead)
      BY DEF SlotsOf
    <2> HIDE DEF t
    <2>5. ASSUME NEW x \in DOMAIN t.attemptCounts
          PROVE  /\ t.attemptCounts[x] <= MaxAttempts + 1
                 /\ x \notin DOMAIN t.pendingByOffset => t.attemptCounts[x] <= MaxAttempts
      <3>1. x \in DOMAIN s.attemptCounts /\ t.attemptCounts[x] = s.attemptCounts[x]
        BY <2>1 DEF Remove
      <3>2. x \notin DOMAIN t.pendingByOffset => x \notin DOMAIN s.pendingByOffset \/ x \in SlotsOf(s, retry)
        BY <2>1, <2>4 DEF Remove
      <3> QED BY <2>2, <2>3, <3>1, <3>2, PolicyAssumption DEF CountsBounded
    <2> QED BY <2>5 DEF CountsBounded, t
  <1>5. ASSUME NEW X PROVE CountsBounded(MarkRetryAvailable(s, X))
    BY <1>1, AvailableFields DEF CountsBounded
  <1> QED BY <1>2, <1>3, <1>4, <1>5

-----------------------------------------------------------------------------
(* The events the commands write.                                          *)

\* The ids an event hands out are delivery ids, at most one attempt past the
\* policy.
LEMMA EventIssued ==
  ASSUME NEW e, EventOK(e)
  PROVE  IssuedBy(e) \subseteq DeliveryIds /\ \A id \in IssuedBy(e) : id.attempt <= MaxAttempts + 1
  <1>1. CASE e.type = "messages_consumed"
    <2>1. \A x \in DOMAIN e.attempts : x \in Slots /\ e.attempts[x] \in 1 .. MaxAttempts + 1
      BY <1>1, EventSlots
    <2>2. \A x \in DOMAIN e.attempts : e.attempts[x] \in Nat \ {0} /\ e.attempts[x] <= MaxAttempts + 1
      BY <2>1, PolicyAssumption
    <2> QED BY <1>1, <2>1, <2>2, RecordFacts DEF IssuedBy
  <1>2. CASE e.type # "messages_consumed"
    BY <1>2 DEF IssuedBy
  <1> QED BY <1>1, <1>2

\* What IsRetryable says of the attempt number of a pending delivery.
LEMMA RetryableFacts ==
  ASSUME NEW s, DeliveryInv(s), NEW id \in DOMAIN s.pending
  PROVE  /\ IsRetryable(s, id) => s.pending[id].attempt < MaxAttempts
         /\ ~IsRetryable(s, id) => s.pending[id].attempt >= MaxAttempts
  <1>1. s.pending[id].attempt \in Nat
    BY RecordFacts DEF DeliveryInv, DeliveryTypeOK, IsMap
  <1> QED BY <1>1, PolicyAssumption DEF IsRetryable

\* Outcomes of the pending deliveries ids that follow the retry policy.
FollowsPolicy(s, ids, o) ==
  /\ o.retry \subseteq DOMAIN s.pending /\ o.dead \subseteq DOMAIN s.pending
  /\ o.retry \cap o.dead = {} /\ o.retry \cup o.dead = ids
  /\ o.reason \in Reasons
  /\ o.retry # {} => o.readyAt \in Timestamps
  /\ \A id \in o.retry : s.pending[id].attempt < MaxAttempts
  /\ \A id \in o.dead : s.pending[id].attempt >= MaxAttempts

\* The outcomes a command computes do.
LEMMA OutcomesFacts ==
  ASSUME NEW s, DeliveryInv(s), NEW ids, ids \subseteq DOMAIN s.pending, NEW now \in Times,
         NEW reason \in Reasons, NEW o, o = Outcomes(s, ids, now, reason),
         o.retry # {} => ~Overflows(now, Backoff)
  PROVE  FollowsPolicy(s, ids, o)
  <1> DEFINE retry == { id \in ids : IsRetryable(s, id) }
  <1>1. /\ o.retry = retry /\ o.dead = ids \ retry /\ o.reason = reason /\ o.readyAt = now + Backoff
    BY DEF Outcomes
  <1>2. o.retry # {} => o.readyAt \in Timestamps
    BY <1>1, CommandAssumption, PolicyAssumption DEF Overflows, Timestamps
  <1>3. /\ \A id \in retry : s.pending[id].attempt < MaxAttempts
        /\ \A id \in ids \ retry : s.pending[id].attempt >= MaxAttempts
    BY RetryableFacts
  <1> QED BY <1>1, <1>2, <1>3 DEF FollowsPolicy

\* An event with such outcomes and with the claims of the deliveries is one the
\* code may write.
LEMMA OutcomesEvent ==
  ASSUME NEW s, DeliveryInv(s), NEW ids, ids \subseteq DOMAIN s.pending, NEW now \in Times,
         NEW reason \in Reasons, NEW o, o = Outcomes(s, ids, now, reason),
         o.retry # {} => ~Overflows(now, Backoff),
         NEW e, e.claims = Claims(s, ids), e.outcomes = o
  PROVE  OutcomesOK(e)
  <1>1. /\ DOMAIN e.claims = ids
        /\ \A id \in ids : e.claims[id].attempt = s.pending[id].attempt
    BY DEF Claims
  <1>2. FollowsPolicy(s, ids, o)
    BY OutcomesFacts
  <1> QED BY <1>1, <1>2 DEF OutcomesOK, FollowsPolicy

-----------------------------------------------------------------------------
(* A command that logs an event.                                           *)

\* The files after an event, and what the event adds to their replay.
LEMMA AppendStep ==
  ASSUME IInv, status = "up", status' = status, logs' = logs,
         NEW e, EventOK(e), EventCovered(logs, e), AppendEvent(e),
         Replay(logs, stateLog) # Corrupt => AttemptsFollow(Replay(logs, stateLog), e)
  PROVE  LET r == Replay(logs, stateLog)
             q == Replay(logs', stateLog')
         IN  /\ FilesOK' /\ Len(stateLog') <= MaxEvents /\ torn' \in BOOLEAN
             /\ q # Corrupt =>
                  /\ ~torn /\ r # Corrupt /\ RecoveredOK(logs, r)
                  /\ q = ApplyRecoveredEvent(logs, r, e)
                  /\ issued \cup IssuedBy(e) \subseteq IssuedUpTo(stateLog', Len(stateLog'))
  <1> DEFINE r == Replay(logs, stateLog)
             q == Replay(logs', stateLog')
             E == { stateLog[i] : i \in DOMAIN stateLog }
             line == IF torn THEN Garbled ELSE e
             N == Len(stateLog)
  <1>1. WellFormed(logs, stateLog) /\ Covered(logs, stateLog) /\ stateLog \in Seq(E)
    BY DEF IInv, FilesOK, WellFormed
  <1> HIDE DEF E
  <1>2. stateLog' = Append(stateLog, line) /\ torn' = FALSE /\ N < MaxEvents
    BY DEF AppendEvent
  <1>3. /\ N \in Nat /\ Len(stateLog') = N + 1 /\ DOMAIN stateLog' = 1 .. N + 1 /\ DOMAIN stateLog = 1 .. N
        /\ stateLog'[N + 1] = line /\ \A i \in 1 .. N : stateLog'[i] = stateLog[i]
    <2> HIDE DEF line
    <2> QED BY <1>1, <1>2
  <1>4. EventOK(line) /\ EventCovered(logs, line) /\ (r # Corrupt => AttemptsFollow(r, line))
    BY DEF EventOK, EventCovered, AttemptsFollow, Garbled
  <1> HIDE DEF line
  <1>5. q = ApplyRecoveredEvent(logs, r, line)
    BY <1>1, <1>2, ReplayAppend
  <1>6. WellFormed(logs', stateLog')
    BY <1>1, <1>2, <1>4, WellFormedAppend
  <1>7. Covered(logs', stateLog')
    <2>1. \A i \in 1 .. N + 1 : i \in 1 .. N \/ i = N + 1
      BY <1>3
    <2> QED BY <1>1, <1>3, <1>4, <2>1 DEF Covered
  <1>8. Len(stateLog') <= MaxEvents
    BY <1>2, <1>3, CommandAssumption
  <1>9. ASSUME q # Corrupt
        PROVE  /\ ~torn /\ r # Corrupt /\ RecoveredOK(logs, r)
               /\ q = ApplyRecoveredEvent(logs, r, e)
               /\ issued \cup IssuedBy(e) \subseteq IssuedUpTo(stateLog', Len(stateLog'))
    <2>1. r # Corrupt
      BY <1>5, <1>9, ApplyToCorrupt
    <2>2. RecoveredOK(logs, r)
      BY <1>1, <2>1, ReplayFacts
    <2>3. ~torn
      <3>1. line # Garbled
        BY <1>5, <1>9, <2>2, ApplyToRecovered DEF RecoveredOK
      <3> QED BY <3>1 DEF line
    <2>4. line = e
      BY <2>3 DEF line
    <2>5. issued \subseteq IssuedUpTo(stateLog, N)
      BY <2>1 DEF IInv, InStep
    <2>6. IssuedUpTo(stateLog', N + 1) = IssuedUpTo(stateLog, N) \cup IssuedBy(e)
      <3>1. 1 .. N + 1 = (1 .. N) \cup {N + 1}
        BY <1>3
      <3> QED BY <1>3, <2>4, <3>1 DEF IssuedUpTo
    <2> QED BY <1>3, <1>5, <2>1, <2>2, <2>3, <2>4, <2>5, <2>6
  <1> QED BY <1>2, <1>6, <1>7, <1>8, <1>9 DEF FilesOK

\* What is left to show of a command that logs an event and changes the delivery
\* state: the new state is sound, and a replay that accepts the event agrees.
LEMMA DeliveryStep ==
  ASSUME IInv, status = "up", UNCHANGED <<status, topics, nextRR, index, logs, replies>>,
         NEW e, EventOK(e), EventCovered(logs, e), AppendEvent(e),
         Replay(logs, stateLog) # Corrupt => AttemptsFollow(Replay(logs, stateLog), e),
         issued' = issued \cup IssuedBy(e),
         settled' = settled \cup Settled(ds'), Settled(ds) \subseteq Settled(ds'),
         DeliveryInv(ds'), IssuedTracked(ds', issued'), CountsBounded(ds'),
         \A x \in Tracked(ds') : MessageExists(logs, topics, x),
         \A r : LET q == ApplyRecoveredEvent(logs, r, e)
                IN  RecoveredOK(logs, r) /\ Agrees(ds, r.ds) /\ q # Corrupt =>
                      q.topics = r.topics /\ Agrees(ds', q.ds)
  PROVE  IInv'
  <1> DEFINE r == Replay(logs, stateLog)
             q == Replay(logs', stateLog')
  <1>1. /\ FilesOK' /\ Len(stateLog') <= MaxEvents /\ torn' \in BOOLEAN
        /\ q # Corrupt =>
             /\ ~torn /\ r # Corrupt /\ RecoveredOK(logs, r)
             /\ q = ApplyRecoveredEvent(logs, r, e)
             /\ issued \cup IssuedBy(e) \subseteq IssuedUpTo(stateLog', Len(stateLog'))
    BY AppendStep
  <1>2. /\ issued' \subseteq DeliveryIds
        /\ \A id \in issued' : id.attempt <= MaxAttempts + 1
    BY EventIssued DEF IInv, TypeOK, AttemptsExceededOnce
  <1>3. TypeOK' /\ AttemptsExceededOnce'
    BY <1>1, <1>2 DEF IInv, TypeOK, AttemptsExceededOnce, DeliveryInv
  <1>4. settled' = Settled(ds')
    BY DEF IInv, MemoryOK
  <1>5. MemoryOK'
    BY <1>4 DEF MemoryOK
  <1>6. ASSUME q # Corrupt
        PROVE  /\ topics' = q.topics /\ Agrees(ds', q.ds) /\ settled' = Settled(q.ds)
               /\ issued' \subseteq IssuedUpTo(stateLog', Len(stateLog'))
    <2>1. topics = r.topics /\ Agrees(ds, r.ds)
      BY <1>1, <1>6 DEF IInv, InStep
    <2>2. q.topics = r.topics /\ Agrees(ds', q.ds)
      <3> HIDE DEF r, q
      <3> QED BY <1>1, <1>6, <2>1
    <2>3. WellFormed(logs', stateLog')
      BY <1>1 DEF FilesOK
    <2>4. RecoveredOK(logs', q)
      BY <1>6, <2>3, ReplayFacts
    <2>5. Settled(ds') = Settled(q.ds)
      BY <2>2, <2>4, AgreesReleased DEF RecoveredOK
    <2> QED BY <1>1, <1>4, <1>6, <2>1, <2>2, <2>5
  <1>7. InStep'
    <2> HIDE DEF q
    <2> QED BY <1>6 DEF InStep, q
  <1> QED BY <1>1, <1>3, <1>5, <1>7 DEF IInv

-----------------------------------------------------------------------------
(* Every command preserves the invariant.                                  *)

\* What the invariant says of a running broker.
LEMMA UpFacts ==
  ASSUME IInv, status = "up"
  PROVE  /\ DeliveryInv(ds) /\ Shape(ds) /\ IssuedTracked(ds, issued) /\ CountsBounded(ds)
         /\ \A x \in Tracked(ds) : MessageExists(logs, topics, x)
         /\ settled = Settled(ds)
         /\ issued \subseteq DeliveryIds /\ topics \subseteq Topics
         /\ logs \in MessageLogs
         /\ WellFormed(logs, stateLog) /\ Covered(logs, stateLog)
  BY DEF IInv, MemoryOK, FilesOK, TypeOK, DeliveryInv, DeliveryTypeOK, MessageLogs

\* create_topic preserves the invariant.
LEMMA CreateTopicStep ==
  ASSUME IInv, NEW t \in Topics, CreateTopic(t)
  PROVE  IInv'
  <1> DEFINE e == TopicCreated(t)
             r == Replay(logs, stateLog)
             q == Replay(logs', stateLog')
  <1>1. /\ status = "up" /\ AppendEvent(e) /\ topics' = topics \cup {t}
        /\ UNCHANGED <<status, nextRR, index, ds, logs, issued, settled, replies>>
    BY DEF CreateTopic
  <1>2. e.type = "topic_created" /\ e.topic = t
    BY DEF TopicCreated
  <1>3. EventOK(e) /\ EventCovered(logs, e) /\ AttemptsFollow(r, e) /\ IssuedBy(e) = {}
    BY <1>2 DEF EventOK, EventCovered, AttemptsFollow, IssuedBy
  <1> HIDE DEF e
  <1>4. /\ FilesOK' /\ Len(stateLog') <= MaxEvents /\ torn' \in BOOLEAN
        /\ q # Corrupt =>
             /\ ~torn /\ r # Corrupt /\ RecoveredOK(logs, r)
             /\ q = ApplyRecoveredEvent(logs, r, e)
             /\ issued \cup IssuedBy(e) \subseteq IssuedUpTo(stateLog', Len(stateLog'))
    BY <1>1, <1>3, AppendStep
  <1>5. TypeOK' /\ AttemptsExceededOnce'
    BY <1>1, <1>4 DEF IInv, TypeOK, AttemptsExceededOnce
  <1>6. MemoryOK'
    BY <1>1 DEF IInv, MemoryOK, MessageExists
  <1>7. ASSUME q # Corrupt
        PROVE  q.topics = topics' /\ q.ds = r.ds
    <2>1. topics = r.topics /\ IsRecovered(r)
      BY <1>1, <1>4, <1>7 DEF IInv, InStep, RecoveredOK
    <2>2. q = [type |-> "recovered", topics |-> r.topics \cup {t}, ds |-> r.ds]
      BY <1>2, <1>4, <1>7, <2>1, ApplyToRecovered
    <2> QED BY <1>1, <2>1, <2>2
  <1>8. InStep'
    <2> HIDE DEF q, r
    <2> QED BY <1>1, <1>3, <1>4, <1>7 DEF IInv, InStep, q, r
  <1> QED BY <1>4, <1>5, <1>6, <1>8 DEF IInv

\* A new message leaves the others where they are.
LEMMA PublishLogs ==
  ASSUME NEW L \in [Topics -> [Partitions -> Seq(Messages)]],
         NEW t \in Topics, NEW p \in Partitions, NEW m \in Messages
  PROVE  LET M == AppendMessage(L, t, p, m)
         IN  /\ M \in [Topics -> [Partitions -> Seq(Messages)]]
             /\ \A u \in Topics : \A k \in Partitions :
                  M[u][k] = IF u = t /\ k = p THEN Append(L[t][p], m) ELSE L[u][k]
             /\ LogsWithin(L, M)
  <1> DEFINE M == AppendMessage(L, t, p, m)
  <1>1. \A u \in Topics : \A k \in Partitions :
          M[u][k] = IF u = t /\ k = p THEN Append(L[t][p], m) ELSE L[u][k]
    BY DEF AppendMessage
  <1>2. M \in [Topics -> [Partitions -> Seq(Messages)]]
    BY DEF AppendMessage
  <1> HIDE DEF M
  <1>3. \A u \in Topics : \A k \in Partitions : Len(L[u][k]) \in Nat /\ Len(L[u][k]) <= Len(M[u][k])
    <2> SUFFICES ASSUME NEW u \in Topics, NEW k \in Partitions
                 PROVE  Len(L[u][k]) \in Nat /\ Len(L[u][k]) <= Len(M[u][k])
      OBVIOUS
    <2>1. L[u][k] \in Seq(Messages) /\ L[t][p] \in Seq(Messages)
      OBVIOUS
    <2>2. Len(Append(L[t][p], m)) = Len(L[t][p]) + 1 /\ Len(L[u][k]) \in Nat
      BY <2>1
    <2>3. M[u][k] = IF u = t /\ k = p THEN Append(L[t][p], m) ELSE L[u][k]
      BY <1>1
    <2>4. Len(M[u][k]) = IF u = t /\ k = p THEN Len(L[u][k]) + 1 ELSE Len(L[u][k])
      BY <2>2, <2>3
    <2> QED BY <2>2, <2>4
  <1>4. LogsWithin(L, M)
    <2> SUFFICES ASSUME NEW x \in Slots, x.offset < Len(L[x.topic][x.partition])
                 PROVE  x.offset < Len(M[x.topic][x.partition])
      BY DEF LogsWithin
    <2>1. x.topic \in Topics /\ x.partition \in Partitions /\ x.offset \in Nat
      BY RecordFacts
    <2>2. M[x.topic][x.partition] \in Seq(Messages)
      BY <1>2, <2>1
    <2>3. Len(M[x.topic][x.partition]) \in Nat
      BY <2>2
    <2> QED BY <1>3, <2>1, <2>3
  <1> QED BY <1>1, <1>2, <1>4 DEF M

\* publish preserves the invariant: no line of the state log is about the new
\* message.
LEMMA PublishNewStep ==
  ASSUME IInv, NEW t \in Topics, NEW m \in Messages, PublishNew(t, m)
  PROVE  IInv'
  <1> DEFINE p == SelectPartition(m, nextRR[t])
  <1>1. /\ status = "up" /\ logs' = AppendMessage(logs, t, p, m)
        /\ nextRR' = [nextRR EXCEPT ![t] = AdvanceRoundRobin(m, @)]
        /\ index' = RecordPublish(index, t, m, p, Len(logs[t][p]))
        /\ UNCHANGED <<status, topics, ds, stateLog, torn, issued, settled>>
    BY DEF PublishNew
  <1>2. p \in Partitions /\ AdvanceRoundRobin(m, nextRR[t]) \in Partitions
    BY SelectPartitionFacts DEF IInv, TypeOK
  <1>3. nextRR' \in [Topics -> Partitions]
    BY <1>1, <1>2 DEF IInv, TypeOK
  <1>4. DOMAIN index' \subseteq Topics \X IdempotencyKeys
    BY <1>1 DEF IInv, TypeOK, RecordPublish, Insert, Messages
  <1> HIDE DEF p
  <1>5. logs' \in [Topics -> [Partitions -> Seq(Messages)]] /\ LogsWithin(logs, logs')
    BY <1>1, <1>2, PublishLogs DEF IInv, TypeOK
  <1>6. /\ Replay(logs', stateLog) = Replay(logs, stateLog)
        /\ WellFormed(logs', stateLog) /\ Covered(logs', stateLog)
    BY <1>1, <1>5, UpFacts, ReplayGrown
  <1>7. \A x \in Tracked(ds) : MessageExists(logs', topics, x)
    <2>1. Tracked(ds) \subseteq Slots
      BY <1>1, UpFacts DEF Tracked, DeliveryInv, DeliveryTypeOK, IsMap
    <2> QED BY <1>1, <1>5, <2>1, UpFacts DEF MessageExists, LogsWithin
  <1>8. TypeOK' /\ AttemptsExceededOnce'
    BY <1>1, <1>3, <1>4, <1>5 DEF IInv, TypeOK, AttemptsExceededOnce
  <1>9. FilesOK'
    BY <1>1, <1>6 DEF FilesOK
  <1>10. MemoryOK'
    BY <1>1, <1>7 DEF IInv, MemoryOK
  <1>11. InStep'
    BY <1>1, <1>6 DEF IInv, InStep
  <1> QED BY <1>8, <1>9, <1>10, <1>11 DEF IInv

\* Steps that leave memory and the complete lines alone.
LEMMA IdleStep ==
  ASSUME IInv, UNCHANGED <<memory, logs, stateLog, issued, settled>>, torn' \in BOOLEAN
  PROVE  IInv'
  <1>1. UNCHANGED <<status, topics, nextRR, index, ds, logs, stateLog, issued, settled>>
    BY DEF memory
  <1> QED BY <1>1 DEF IInv, TypeOK, AttemptsExceededOnce, FilesOK, MemoryOK, InStep

\* consume preserves the invariant: a message that is delivered again after a
\* reopen may be one attempt past the policy.
LEMMA ConsumeStep ==
  ASSUME IInv,
         NEW g \in Groups, NEW c \in Consumers, NEW t \in Topics, NEW max \in 0 .. MaxBatch,
         NEW now \in Times, NEW lease \in Leases, Consume(g, c, t, max, now, lease)
  PROVE  IInv'
  <1> DEFINE len      == [p \in Partitions |-> Len(logs[t][p])]
             slots    == Selected(ds, g, t, len, max)
             attempts == [x \in slots |-> NextAttemptNumber(ds, x)]
             ids      == { DeliveryId(x, attempts[x]) : x \in DOMAIN attempts }
             e        == MessagesConsumed(attempts, c, now + lease)
  <1>1. /\ status = "up" /\ t \in topics /\ AppendEvent(e) /\ ~Overflows(now, lease)
        /\ ds' = ApplyConsumed(ds, attempts, c, now + lease)
        /\ issued' = issued \cup ids
        /\ UNCHANGED <<status, topics, nextRR, index, logs, settled, replies>>
    BY DEF Consume
  <1>2. /\ DeliveryInv(ds) /\ Shape(ds) /\ IssuedTracked(ds, issued) /\ CountsBounded(ds)
        /\ settled = Settled(ds) /\ issued \subseteq DeliveryIds
        /\ logs \in MessageLogs
        /\ \A x \in Tracked(ds) : MessageExists(logs, topics, x)
    BY <1>1, UpFacts
  <1>3. len \in [Partitions -> Nat]
    BY <1>2
  <1> HIDE DEF len
  <1>4. \A x \in slots : /\ x \in Slots /\ IsAvailable(ds, x)
                         /\ x.topic = t /\ x.offset < len[x.partition]
    BY <1>3, SelectedFacts
  <1>5. \A x \in slots : MessageExists(logs, topics, x)
    BY <1>1, <1>4, RecordFacts DEF MessageExists, len
  <1>6. \A x \in slots : /\ NextAttemptNumber(ds, x) \in 1 .. MaxAttempts + 1
                         /\ x \in DOMAIN ds.attemptCounts =>
                              NextAttemptNumber(ds, x) > ds.attemptCounts[x]
    <2> SUFFICES ASSUME NEW x \in slots
                 PROVE  /\ NextAttemptNumber(ds, x) \in 1 .. MaxAttempts + 1
                        /\ x \in DOMAIN ds.attemptCounts =>
                             NextAttemptNumber(ds, x) > ds.attemptCounts[x]
      OBVIOUS
    <2>1. x \in DOMAIN ds.attemptCounts => ds.attemptCounts[x] <= MaxAttempts
      BY <1>2, <1>4 DEF CountsBounded, IsAvailable
    <2>2. MaxAttempts \in Nat
      BY PolicyAssumption
    <2> QED BY <1>2, <2>1, <2>2, NextAttemptType
  <1>7. now + lease \in Timestamps
    BY <1>1, CommandAssumption, PolicyAssumption DEF Overflows, Timestamps
  <1>8. /\ DOMAIN attempts = slots
        /\ IsMap(attempts, Slots, 1 .. MaxAttempts + 1) /\ IsMap(attempts, Slots, Nat \ {0})
        /\ \A x \in DOMAIN attempts : /\ IsAvailable(ds, x) /\ attempts[x] <= MaxAttempts + 1
                                      /\ attempts[x] = NextAttemptNumber(ds, x)
                                      /\ x \in DOMAIN ds.attemptCounts =>
                                           attempts[x] > ds.attemptCounts[x]
    BY <1>4, <1>6, PolicyAssumption DEF IsMap
  <1> HIDE DEF attempts, slots
  <1>9. /\ e.type = "messages_consumed" /\ e.attempts = attempts /\ e.consumer = c
        /\ e.leaseExpiresAt = now + lease
    BY DEF MessagesConsumed
  <1> HIDE DEF e
  <1>10. EventOK(e) /\ EventCovered(logs, e) /\ IssuedBy(e) = ids
    BY <1>5, <1>7, <1>8, <1>9 DEF EventOK, EventCovered, IssuedBy, MessageExists
  <1>11. DeliveryInv(ds')
    BY <1>1, <1>2, <1>7, <1>8, ConsumedInv
  <1>12. IssuedTracked(ds', issued') /\ CountsBounded(ds')
    BY <1>1, <1>2, <1>8, ConsumedCounts, CountsAfter DEF ids
  <1>13. \A x \in Tracked(ds') : MessageExists(logs, topics, x)
    <2>1. Tracked(ds') \subseteq Tracked(ds) \cup slots
      BY <1>1, <1>2, <1>8, TrackedFacts
    <2> QED BY <1>2, <1>5, <2>1
  <1>14. Settled(ds') = Settled(ds)
    <2>1. ds'.acked = ds.acked /\ ds'.deadLettered = ds.deadLettered
      BY <1>1, <1>2 DEF Shape, StateFields, ApplyConsumed
    <2> QED BY <2>1 DEF Settled
  <1>15. ASSUME Replay(logs, stateLog) # Corrupt
         PROVE  AttemptsFollow(Replay(logs, stateLog), e)
    <2>1. Replay(logs, stateLog).ds.attemptCounts = ds.attemptCounts
      BY <1>1, <1>15 DEF IInv, InStep, Agrees
    <2> QED BY <1>8, <1>9, <2>1 DEF AttemptsFollow, NextAttemptNumber
  <1>16. ASSUME NEW r, RecoveredOK(logs, r), Agrees(ds, r.ds),
                ApplyRecoveredEvent(logs, r, e) # Corrupt
         PROVE  /\ ApplyRecoveredEvent(logs, r, e).topics = r.topics
                /\ Agrees(ds', ApplyRecoveredEvent(logs, r, e).ds)
    <2>1. IsRecovered(r) /\ Shape(r.ds)
      BY <1>16 DEF RecoveredOK, DeliveryInv, DeliveryTypeOK
    <2>2. ApplyRecoveredEvent(logs, r, e) = WithState(r, ApplyConsumed(r.ds, attempts, c, now + lease))
      BY <1>9, <1>16, <2>1, ApplyToRecovered
    <2>3. Agrees(ds', ApplyConsumed(r.ds, attempts, c, now + lease))
      BY <1>1, <1>2, <1>16, <2>1, AgreesAfter
    <2> QED BY <2>2, <2>3 DEF WithState
  <1>17. settled' = settled \cup Settled(ds') /\ issued' = issued \cup IssuedBy(e)
    BY <1>1, <1>2, <1>10, <1>14
  <1> HIDE DEF ids
  <1> QED BY <1>1, <1>10, <1>11, <1>12, <1>13, <1>14, <1>15, <1>16, <1>17, DeliveryStep

\* ack preserves the invariant.
LEMMA AckStep ==
  ASSUME IInv, NEW id \in DOMAIN ds.pending, NEW c \in Consumers, Ack(id, c)
  PROVE  IInv'
  <1> DEFINE e == MessageAcked(ds, id)
  <1>1. /\ status = "up" /\ AppendEvent(e) /\ ds' = ApplyAck(ds, id)
        /\ settled' = settled \cup Settled(ds')
        /\ UNCHANGED <<status, topics, nextRR, index, logs, issued, replies>>
    BY DEF Ack
  <1>2. /\ DeliveryInv(ds) /\ Shape(ds) /\ IssuedTracked(ds, issued) /\ CountsBounded(ds)
        /\ \A x \in Tracked(ds) : MessageExists(logs, topics, x)
    BY <1>1, UpFacts
  <1>3. e.type = "message_acked" /\ DOMAIN e.claims = {id}
    BY DEF MessageAcked, Claims
  <1> HIDE DEF e
  <1>4. /\ EventOK(e) /\ EventCovered(logs, e) /\ IssuedBy(e) = {}
        /\ AttemptsFollow(Replay(logs, stateLog), e)
    BY <1>3 DEF EventOK, EventCovered, IssuedBy, AttemptsFollow
  <1>5. DeliveryInv(ds') /\ IssuedTracked(ds', issued') /\ CountsBounded(ds')
    BY <1>1, <1>2, AckInv, AckCounts, CountsAfter
  <1>6. \A x \in Tracked(ds') : MessageExists(logs, topics, x)
    BY <1>1, <1>2, TrackedFacts
  <1>7. Settled(ds) \subseteq Settled(ds')
    <2>1. ds.acked \subseteq ds'.acked /\ ds'.deadLettered = ds.deadLettered
      BY <1>1, <1>2 DEF Shape, StateFields, ApplyAck
    <2> QED BY <2>1 DEF Settled
  <1>8. ASSUME NEW r, RecoveredOK(logs, r), Agrees(ds, r.ds),
               ApplyRecoveredEvent(logs, r, e) # Corrupt
        PROVE  /\ ApplyRecoveredEvent(logs, r, e).topics = r.topics
               /\ Agrees(ds', ApplyRecoveredEvent(logs, r, e).ds)
    <2>1. IsRecovered(r) /\ Shape(r.ds)
      BY <1>8 DEF RecoveredOK, DeliveryInv, DeliveryTypeOK
    <2>2. (CHOOSE i \in DOMAIN e.claims : TRUE) = id
      BY <1>3
    <2>3. ApplyRecoveredEvent(logs, r, e) = WithState(r, ApplyAck(r.ds, id))
      BY <1>3, <1>8, <2>1, <2>2, ApplyToRecovered
    <2>4. Agrees(ds', ApplyAck(r.ds, id))
      BY <1>1, <1>2, <1>8, <2>1, AgreesAfter
    <2> QED BY <2>3, <2>4 DEF WithState
  <1>9. issued' = issued \cup IssuedBy(e)
    BY <1>1, <1>4
  <1> QED BY <1>1, <1>4, <1>5, <1>6, <1>7, <1>8, <1>9, DeliveryStep

\* Outcomes computed for a running broker keep it sound.
LEMMA OutcomesStep ==
  ASSUME IInv, status = "up", NEW ids, ids \subseteq DOMAIN ds.pending, NEW now \in Times,
         NEW reason \in Reasons,
         Outcomes(ds, ids, now, reason).retry # {} => ~Overflows(now, Backoff)
  PROVE  LET o == Outcomes(ds, ids, now, reason)
             s == ApplyOutcomeSet(ds, o)
         IN  /\ DeliveryInv(s) /\ IssuedTracked(s, issued) /\ CountsBounded(s)
             /\ \A x \in Tracked(s) : MessageExists(logs, topics, x)
             /\ Settled(ds) \subseteq Settled(s)
             /\ \A q : Shape(q) /\ Agrees(ds, q) => Agrees(s, ApplyOutcomeSet(q, o))
  <1> DEFINE o == Outcomes(ds, ids, now, reason)
             s == ApplyOutcomes(ds, o.retry, o.readyAt, o.dead, o.reason)
  <1>1. /\ DeliveryInv(ds) /\ Shape(ds) /\ IssuedTracked(ds, issued) /\ CountsBounded(ds)
        /\ \A x \in Tracked(ds) : MessageExists(logs, topics, x)
    BY UpFacts
  <1>2. /\ o.retry \subseteq DOMAIN ds.pending /\ o.dead \subseteq DOMAIN ds.pending
        /\ o.retry \cap o.dead = {} /\ o.reason \in Reasons
        /\ o.retry # {} => o.readyAt \in Timestamps
        /\ \A id \in o.retry : ds.pending[id].attempt < MaxAttempts
        /\ \A id \in o.dead : ds.pending[id].attempt >= MaxAttempts
    <2>1. FollowsPolicy(ds, ids, o)
      BY <1>1, OutcomesFacts
    <2> QED BY <2>1 DEF FollowsPolicy
  <1> HIDE DEF o
  <1>3. DeliveryInv(s)
    BY <1>1, <1>2, OutcomesInv
  <1>4. IssuedTracked(s, issued)
    BY <1>1, <1>2, OutcomesCounts
  <1>5. CountsBounded(s)
    BY <1>1, <1>2, CountsAfter
  <1>6. \A x \in Tracked(s) : MessageExists(logs, topics, x)
    BY <1>1, <1>2, TrackedFacts
  <1>7. Settled(ds) \subseteq Settled(s)
    <2>1. s.acked = ds.acked /\ ds.deadLettered \subseteq s.deadLettered
      BY <1>1 DEF Shape, StateFields, ApplyOutcomes
    <2> HIDE DEF s
    <2> QED BY <2>1 DEF Settled
  <1>8. ASSUME NEW q, Shape(q), Agrees(ds, q)
        PROVE  Agrees(s, ApplyOutcomes(q, o.retry, o.readyAt, o.dead, o.reason))
    BY <1>1, <1>2, <1>8, AgreesAfter
  <1> HIDE DEF s
  <1> QED BY <1>3, <1>4, <1>5, <1>6, <1>7, <1>8 DEF ApplyOutcomeSet, o, s

\* nack preserves the invariant.
LEMMA NackStep ==
  ASSUME IInv, NEW id \in DOMAIN ds.pending, NEW c \in Consumers, NEW now \in Times,
         Nack(id, c, now)
  PROVE  IInv'
  <1> DEFINE e == MessageNacked(ds, id, now)
             o == Outcomes(ds, {id}, now, "manual")
  <1>1. /\ status = "up" /\ AppendEvent(e) /\ ds' = ApplyOutcomeSet(ds, o)
        /\ IsRetryable(ds, id) => ~Overflows(now, Backoff)
        /\ settled' = settled \cup Settled(ds')
        /\ UNCHANGED <<status, topics, nextRR, index, logs, issued, replies>>
    BY DEF Nack
  <1>2. e.type = "message_nacked" /\ e.claims = Claims(ds, {id}) /\ e.outcomes = o
    BY DEF MessageNacked
  <1>3. o.retry # {} => ~Overflows(now, Backoff)
    BY <1>1 DEF Outcomes
  <1>4. "manual" \in Reasons /\ {id} \subseteq DOMAIN ds.pending /\ DeliveryInv(ds)
    BY <1>1, UpFacts DEF Reasons
  <1>5. OutcomesOK(e)
    BY <1>2, <1>3, <1>4, OutcomesEvent
  <1> HIDE DEF e
  <1>6. /\ EventOK(e) /\ EventCovered(logs, e) /\ IssuedBy(e) = {}
        /\ AttemptsFollow(Replay(logs, stateLog), e)
    BY <1>2, <1>5 DEF EventOK, EventCovered, IssuedBy, AttemptsFollow
  <1>7. /\ DeliveryInv(ds') /\ IssuedTracked(ds', issued) /\ CountsBounded(ds')
        /\ \A x \in Tracked(ds') : MessageExists(logs, topics, x)
        /\ Settled(ds) \subseteq Settled(ds')
        /\ \A q : Shape(q) /\ Agrees(ds, q) => Agrees(ds', ApplyOutcomeSet(q, o))
    BY <1>1, <1>3, <1>4, OutcomesStep
  <1> HIDE DEF o
  <1>8. ASSUME NEW r, RecoveredOK(logs, r), Agrees(ds, r.ds),
               ApplyRecoveredEvent(logs, r, e) # Corrupt
        PROVE  /\ ApplyRecoveredEvent(logs, r, e).topics = r.topics
               /\ Agrees(ds', ApplyRecoveredEvent(logs, r, e).ds)
    <2>1. IsRecovered(r) /\ Shape(r.ds)
      BY <1>8 DEF RecoveredOK, DeliveryInv, DeliveryTypeOK
    <2>2. ApplyRecoveredEvent(logs, r, e) = WithState(r, ApplyOutcomeSet(r.ds, o))
      BY <1>2, <1>8, <2>1, ApplyToRecovered
    <2> QED BY <1>7, <1>8, <2>1, <2>2 DEF WithState
  <1>9. issued' = issued \cup IssuedBy(e) /\ IssuedTracked(ds', issued')
    BY <1>1, <1>6, <1>7
  <1> QED BY <1>1, <1>6, <1>7, <1>8, <1>9, DeliveryStep

\* The event of a maintenance run.
LEMMA MaintenanceFields ==
  ASSUME NEW s, NEW now
  PROVE  LET e == RetryMaintenanceApplied(s, now)
             o == Outcomes(s, ExpiredPending(s, now), now, "expired")
         IN  /\ e.type = "retry_maintenance_applied" /\ e.timestamp = now
             /\ e.claims = Claims(s, ExpiredPending(s, now)) /\ e.outcomes = o
             /\ e.ready = ReadyRetryEntries(s, now)
             /\ e.expiredReady = IF o.readyAt <= now THEN { s.pending[id].slot : id \in o.retry }
                                 ELSE {}
  BY DEF RetryMaintenanceApplied

\* retry_ready preserves the invariant.
LEMMA RetryReadyStep ==
  ASSUME IInv, NEW now \in Times, RetryReady(now)
  PROVE  IInv'
  <1> DEFINE e == RetryMaintenanceApplied(ds, now)
             expired == ExpiredPending(ds, now)
             o == Outcomes(ds, expired, now, "expired")
             X == e.ready \cup e.expiredReady
  <1>1. /\ e.type = "retry_maintenance_applied" /\ e.claims = Claims(ds, expired) /\ e.outcomes = o
    BY DEF RetryMaintenanceApplied
  <1>2. /\ status = "up" /\ AppendEvent(e) /\ ds' = ApplyMaintenance(ds, e)
        /\ e.outcomes.retry # {} => ~Overflows(now, Backoff)
        /\ settled' = settled \cup Settled(ds')
        /\ UNCHANGED <<status, topics, nextRR, index, logs, issued, replies>>
    BY DEF RetryReady
  <1>3. o.retry # {} => ~Overflows(now, Backoff)
    BY <1>1, <1>2
  <1>4. "expired" \in Reasons /\ expired \subseteq DOMAIN ds.pending /\ DeliveryInv(ds)
    BY <1>2, UpFacts DEF Reasons, ExpiredPending
  <1>5. OutcomesOK(e)
    BY <1>1, <1>3, <1>4, OutcomesEvent
  <1> HIDE DEF e, expired
  <1>6. /\ EventOK(e) /\ EventCovered(logs, e) /\ IssuedBy(e) = {}
        /\ AttemptsFollow(Replay(logs, stateLog), e)
    BY <1>1, <1>5 DEF EventOK, EventCovered, IssuedBy, AttemptsFollow
  <1> DEFINE s == ApplyOutcomeSet(ds, o)
  <1>7. /\ DeliveryInv(s) /\ IssuedTracked(s, issued) /\ CountsBounded(s)
        /\ \A x \in Tracked(s) : MessageExists(logs, topics, x)
        /\ Settled(ds) \subseteq Settled(s)
        /\ \A q : Shape(q) /\ Agrees(ds, q) => Agrees(s, ApplyOutcomeSet(q, o))
    BY <1>2, <1>3, <1>4, OutcomesStep
  <1>8. ds' = MarkRetryAvailable(s, X)
    BY <1>1, <1>2 DEF ApplyMaintenance
  <1> HIDE DEF s, o, X
  <1>9. /\ DeliveryInv(ds') /\ IssuedTracked(ds', issued) /\ CountsBounded(ds')
    BY <1>7, <1>8, AvailableInv, AvailableCounts, CountsAfter
  <1>10. \A x \in Tracked(ds') : MessageExists(logs, topics, x)
    BY <1>7, <1>8, TrackedFacts
  <1>11. Shape(s)
    BY <1>7 DEF DeliveryInv, DeliveryTypeOK
  <1>12. Settled(ds) \subseteq Settled(ds')
    <2>1. ds'.acked = s.acked /\ ds'.deadLettered = s.deadLettered
      BY <1>8, <1>11, AvailableFields
    <2> QED BY <1>7, <2>1 DEF Settled
  <1>13. ASSUME NEW r, RecoveredOK(logs, r), Agrees(ds, r.ds),
                ApplyRecoveredEvent(logs, r, e) # Corrupt
         PROVE  /\ ApplyRecoveredEvent(logs, r, e).topics = r.topics
                /\ Agrees(ds', ApplyRecoveredEvent(logs, r, e).ds)
    <2> DEFINE q == ApplyOutcomeSet(r.ds, o)
    <2>1. IsRecovered(r) /\ Shape(r.ds)
      BY <1>13 DEF RecoveredOK, DeliveryInv, DeliveryTypeOK
    <2>2. ApplyRecoveredEvent(logs, r, e) = WithState(r, ApplyMaintenance(r.ds, e))
      BY <1>1, <1>13, <2>1, ApplyToRecovered
    <2>3. ApplyMaintenance(r.ds, e) = MarkRetryAvailable(q, X)
      BY <1>1 DEF ApplyMaintenance, X
    <2>4. Agrees(s, q)
      BY <1>7, <1>13, <2>1
    <2>5. Shape(q)
      BY <2>1 DEF ApplyOutcomeSet, ApplyOutcomes, Shape, StateFields
    <2> HIDE DEF q
    <2>6. Agrees(ds', MarkRetryAvailable(q, X))
      BY <1>8, <1>11, <2>4, <2>5, AgreesAfter
    <2> QED BY <2>2, <2>3, <2>6 DEF WithState
  <1>14. issued' = issued \cup IssuedBy(e) /\ IssuedTracked(ds', issued')
    BY <1>2, <1>6, <1>9
  <1> QED BY <1>2, <1>6, <1>9, <1>10, <1>12, <1>13, <1>14, DeliveryStep

-----------------------------------------------------------------------------
(* Failures and recovery preserve the invariant.                           *)

\* A crash loses memory; the files still tell what was settled and handed out.
LEMMA CrashStep ==
  ASSUME IInv, Crash
  PROVE  IInv'
  <1>1. /\ status' = "down" /\ ds' = EmptyState /\ topics' = {} /\ index' = EmptyMap
        /\ nextRR' = [t \in Topics |-> 0] /\ torn' \in {torn, TRUE}
        /\ UNCHANGED <<logs, stateLog, issued, settled>>
    BY DEF Crash
  <1>2. DeliveryInv(ds')
    BY <1>1, EmptyInv
  <1>3. nextRR' \in [Topics -> Partitions]
    BY <1>1, PartitionFacts
  <1>4. DOMAIN index' \subseteq Topics \X IdempotencyKeys
    BY <1>1, EmptyMapFacts
  <1>5. TypeOK' /\ AttemptsExceededOnce'
    BY <1>1, <1>2, <1>3, <1>4 DEF IInv, TypeOK, AttemptsExceededOnce, DeliveryInv
  <1>6. FilesOK' /\ MemoryOK'
    BY <1>1, <1>2 DEF IInv, FilesOK, MemoryOK
  <1>7. InStep'
    BY <1>1 DEF IInv, InStep
  <1> QED BY <1>5, <1>6, <1>7 DEF IInv

\* A power failure leaves files that are as well-formed as they were.
LEMMA PowerLossStep ==
  ASSUME IInv, PowerLoss
  PROVE  IInv'
  <1>1. PICK n \in 0 .. Len(stateLog) : stateLog' = SubSeq(stateLog, 1, n)
    BY DEF PowerLoss
  <1>2. PICK kept \in [Topics -> [Partitions -> 0 .. MaxLogLen]] :
          /\ \A t \in Topics, p \in Partitions : kept[t][p] <= Len(logs[t][p])
          /\ logs' = [t \in Topics |-> [p \in Partitions |-> SubSeq(logs[t][p], 1, kept[t][p])]]
    BY DEF PowerLoss
  <1>3. /\ status' = "down" /\ ds' = EmptyState /\ topics' = {} /\ index' = EmptyMap
        /\ nextRR' = [t \in Topics |-> 0] /\ torn' \in BOOLEAN
        /\ issued' = UNION { IssuedBy(stateLog'[i]) : i \in DOMAIN stateLog' }
        /\ Replay(logs', stateLog') # Corrupt => settled' = Settled(Replay(logs', stateLog').ds)
    BY DEF PowerLoss, Replayable
  <1>4. logs \in MessageLogs /\ WellFormed(logs, stateLog) /\ Len(stateLog) <= MaxEvents
    BY DEF IInv, TypeOK, FilesOK, MessageLogs
  <1>5. ASSUME NEW t \in Topics, NEW p \in Partitions
        PROVE  logs'[t][p] \in Seq(Messages) /\ Len(logs'[t][p]) \in Nat
               /\ Len(logs[t][p]) \in Nat /\ Len(logs'[t][p]) <= Len(logs[t][p])
    <2>1. logs[t][p] \in Seq(Messages) /\ kept[t][p] \in 0 .. MaxLogLen /\ kept[t][p] <= Len(logs[t][p])
      BY <1>2, <1>4 DEF MessageLogs
    <2>2. logs'[t][p] = SubSeq(logs[t][p], 1, kept[t][p]) /\ kept[t][p] \in Nat /\ Len(logs[t][p]) \in Nat
      BY <1>2, <2>1
    <2> QED BY <2>1, <2>2
  <1>6. logs' \in MessageLogs
    BY <1>2, <1>5 DEF MessageLogs
  <1>7. LogsWithin(logs', logs)
    <2> SUFFICES ASSUME NEW x \in Slots, x.offset < Len(logs'[x.topic][x.partition])
                 PROVE  x.offset < Len(logs[x.topic][x.partition])
      BY DEF LogsWithin
    <2>1. x.topic \in Topics /\ x.partition \in Partitions /\ x.offset \in Nat
      BY RecordFacts
    <2> DEFINE after == Len(logs'[x.topic][x.partition])
               before == Len(logs[x.topic][x.partition])
    <2>2. after \in Nat /\ before \in Nat /\ after <= before
      BY <1>5, <2>1
    <2>3. x.offset < after
      OBVIOUS
    <2> HIDE DEF after, before
    <2>4. x.offset < before
      BY <2>1, <2>2, <2>3
    <2> QED BY <2>4 DEF before
  <1>8. WellFormed(logs', stateLog')
    BY <1>1, <1>4, <1>7, WellFormedShrunk
  <1>9. Len(stateLog') <= MaxEvents /\ DOMAIN stateLog' = 1 .. Len(stateLog')
    <2>1. stateLog \in Seq({ stateLog[i] : i \in DOMAIN stateLog })
      BY <1>4 DEF WellFormed
    <2>2. Len(stateLog) \in Nat /\ Len(stateLog') = n /\ DOMAIN stateLog' = 1 .. n
      BY <1>1, <2>1
    <2> QED BY <1>4, <2>2, CommandAssumption
  <1>10. issued' = IssuedUpTo(stateLog', Len(stateLog'))
    BY <1>3, <1>9 DEF IssuedUpTo
  <1>11. issued' \subseteq DeliveryIds /\ \A id \in issued' : id.attempt <= MaxAttempts + 1
    BY <1>3, <1>8, EventIssued DEF WellFormed
  <1>12. DeliveryInv(ds')
    BY <1>3, EmptyInv
  <1>13. nextRR' \in [Topics -> Partitions] /\ DOMAIN index' \subseteq Topics \X IdempotencyKeys
    BY <1>3, PartitionFacts, EmptyMapFacts
  <1>14. TypeOK' /\ AttemptsExceededOnce'
    BY <1>3, <1>6, <1>9, <1>11, <1>12, <1>13
    DEF TypeOK, AttemptsExceededOnce, DeliveryInv, MessageLogs
  <1>15. FilesOK' /\ MemoryOK' /\ InStep'
    BY <1>3, <1>8, <1>10, <1>12 DEF FilesOK, MemoryOK, InStep
  <1> QED BY <1>14, <1>15 DEF IInv

\* A successful open recovers the state the log tells, in-flight deliveries
\* released; a failed one changes nothing.
LEMMA OpenStep ==
  ASSUME IInv, Open
  PROVE  IInv'
  <1> DEFINE r == Replay(logs, stateLog)
  <1>1. torn' = FALSE /\ UNCHANGED <<logs, stateLog, issued, settled>> /\ status # "up"
    BY DEF Open
  <1>2. logs \in MessageLogs /\ WellFormed(logs, stateLog)
    BY DEF IInv, TypeOK, FilesOK, MessageLogs
  <1>3. CASE status' = "failed" /\ UNCHANGED <<topics, nextRR, index, ds>>
    BY <1>1, <1>3 DEF IInv, TypeOK, AttemptsExceededOnce, FilesOK, MemoryOK, InStep
  <1>4. CASE /\ r # Corrupt /\ status' = "up"
             /\ topics' = r.topics /\ ds' = ReleasePending(r.ds)
             /\ nextRR' = RecoveredRR(logs, r.topics)
             /\ index' = RecoveredIndex(logs, r.topics)
    <2> DEFINE I == IssuedUpTo(stateLog, Len(stateLog))
    <2>1. RecoveredOK(logs, r) /\ Covered(logs, stateLog) /\ IssuedTracked(r.ds, I)
      BY <1>2, <1>4, ReplayFacts
    <2>2. issued \subseteq I /\ settled = Settled(r.ds)
      BY <1>4 DEF IInv, InStep
    <2> HIDE DEF r, I
    <2>3. /\ DeliveryInv(r.ds) /\ AttemptsLeft(r.ds) /\ r.topics \subseteq Topics
          /\ \A x \in Tracked(r.ds) : MessageExists(logs, r.topics, x)
      BY <2>1 DEF RecoveredOK
    <2>4. DeliveryInv(ds') /\ Tracked(ds') \subseteq Tracked(r.ds) /\ IssuedTracked(ds', I)
      BY <1>4, <2>1, <2>3, ReleaseInv
    <2>5. ds'.attemptCounts = r.ds.attemptCounts
      BY <1>4, <2>3, ReleaseFields
    <2>6. CountsBounded(ds')
      <3>1. \A x \in DOMAIN r.ds.attemptCounts : r.ds.attemptCounts[x] \in Nat /\ r.ds.attemptCounts[x] <= MaxAttempts
        BY <2>3 DEF AttemptsLeft, DeliveryInv, DeliveryTypeOK, IsMap
      <3> QED BY <2>5, <3>1, PolicyAssumption DEF CountsBounded
    <2>7. IssuedTracked(ds', issued)
      BY <2>2, <2>4 DEF IssuedTracked
    <2>8. Agrees(ds', r.ds)
      BY <1>4, <2>3, AgreesReleased
    <2>9. settled = Settled(ds')
      BY <2>2, <2>3, <2>4, <2>8, AgreesReleased
    <2>10. nextRR' \in [Topics -> Partitions]
      BY <1>2, <1>4, RecoveredRRType
    <2>11. DOMAIN index' \subseteq Topics \X IdempotencyKeys
      BY <1>4, <2>3 DEF RecoveredIndex, RecoveredKeys
    <2>12. TypeOK' /\ AttemptsExceededOnce'
      BY <1>1, <1>4, <2>3, <2>4, <2>10, <2>11 DEF IInv, TypeOK, AttemptsExceededOnce, DeliveryInv
    <2>13. FilesOK'
      BY <1>1, <1>2, <2>1 DEF FilesOK
    <2>14. MemoryOK'
      BY <1>1, <1>4, <2>3, <2>4, <2>6, <2>7, <2>9 DEF MemoryOK
    <2>15. InStep'
      BY <1>1, <1>4, <2>2, <2>8 DEF InStep, r, I
    <2> QED BY <2>12, <2>13, <2>14, <2>15 DEF IInv
  <1> QED BY <1>3, <1>4 DEF Open

-----------------------------------------------------------------------------
(* The theorems.                                                           *)

\* A new broker satisfies the invariant.
LEMMA InitInv == Init => IInv
  <1> SUFFICES ASSUME Init PROVE IInv
    OBVIOUS
  <1>1. DeliveryInv(ds) /\ Tracked(ds) = {} /\ ds.attemptCounts = EmptyMap /\ Settled(ds) = {}
    BY EmptyInv, EmptyFields, EmptyMapFacts DEF Init, Tracked, Settled
  <1>2. logs \in MessageLogs /\ nextRR \in [Topics -> Partitions]
        /\ DOMAIN index \subseteq Topics \X IdempotencyKeys
    BY PartitionFacts, EmptyMapFacts DEF Init, EmptyLogs, MessageLogs
  <1>3. stateLog = << >> /\ DOMAIN stateLog = {} /\ Len(stateLog) = 0
    BY DEF Init
  <1>4. TypeOK /\ AttemptsExceededOnce
    <2>1. Len(stateLog) <= MaxEvents
      BY <1>3, CommandAssumption
    <2>2. DeliveryTypeOK(ds)
      BY <1>1 DEF DeliveryInv
    <2> QED BY <1>2, <2>1, <2>2 DEF Init, TypeOK, AttemptsExceededOnce, MessageLogs
  <1>5. FilesOK
    BY <1>3 DEF FilesOK, WellFormed, Covered
  <1>6. MemoryOK
    BY <1>1, EmptyMapFacts DEF Init, MemoryOK, IssuedTracked, CountsBounded
  <1>7. Replay(logs, stateLog) = Fresh
    <2>1. << >> \in Seq({})
      OBVIOUS
    <2> QED BY <1>3, <2>1, ReplayNothing
  <1>8. Agrees(ds, Fresh.ds) /\ topics = Fresh.topics /\ settled = Settled(Fresh.ds)
    BY <1>1, EmptyFields, EmptyMapFacts DEF Init, Fresh, Agrees
  <1>9. InStep
    BY <1>7, <1>8 DEF Init, InStep
  <1> QED BY <1>4, <1>5, <1>6, <1>9 DEF IInv

\* Every step of the durable broker preserves it.
LEMMA NextInv == IInv /\ [Next]_vars => IInv'
  <1> SUFFICES ASSUME IInv, [Next]_vars PROVE IInv'
    OBVIOUS
  <1>1. ASSUME NEW t \in Topics, CreateTopic(t) PROVE IInv'
    BY <1>1, CreateTopicStep
  <1>2. ASSUME NEW t \in Topics, NEW m \in Messages, PublishNew(t, m) PROVE IInv'
    BY <1>2, PublishNewStep
  <1>3. ASSUME NEW t \in Topics, NEW m \in Messages, PublishReplay(t, m) PROVE IInv'
    BY <1>3, IdleStep DEF PublishReplay, disk, IInv, TypeOK
  <1>4. ASSUME NEW g \in Groups, NEW c \in Consumers, NEW t \in Topics, NEW max \in 0 .. MaxBatch,
               NEW now \in Times, NEW lease \in Leases, Consume(g, c, t, max, now, lease)
        PROVE  IInv'
    BY <1>4, ConsumeStep
  <1>5. ASSUME NEW id \in DOMAIN ds.pending, NEW c \in Consumers, Ack(id, c) PROVE IInv'
    BY <1>5, AckStep
  <1>6. ASSUME NEW id \in DOMAIN ds.pending, NEW c \in Consumers, NEW now \in Times, Nack(id, c, now)
        PROVE  IInv'
    BY <1>6, NackStep
  <1>7. ASSUME NEW now \in Times, RetryReady(now) PROVE IInv'
    BY <1>7, RetryReadyStep
  <1>8. CASE StateAppendFails
    BY <1>8, IdleStep DEF StateAppendFails
  <1>9. CASE Crash
    BY <1>9, CrashStep
  <1>10. CASE PowerLoss
    BY <1>10, PowerLossStep
  <1>11. CASE Open
    BY <1>11, OpenStep
  <1>12. CASE UNCHANGED vars
    BY <1>12, IdleStep DEF vars, memory, disk, IInv, TypeOK
  <1> QED BY <1>1, <1>2, <1>3, <1>4, <1>5, <1>6, <1>7, <1>8, <1>9, <1>10, <1>11, <1>12 DEF Next

\* The inductive invariant holds in every reachable state of the durable broker.
THEOREM Invariance == Spec => []IInv
  BY InitInv, NextInv, PTL DEF Spec

\* The fields of the durable broker keep their types: in particular no scheduled
\* time overflows, neither live nor when it is recovered.
THEOREM TypeCorrectness == Spec => []TypeOK
  <1>1. IInv => TypeOK
    BY DEF IInv
  <1> QED BY <1>1, Invariance, PTL

\* The delivery state of the durable broker is consistent, across crashes.
THEOREM ConsistencyTheorem == Spec => []DeliveryStateConsistent
  <1>1. IInv => DeliveryStateConsistent
    BY DEF IInv, MemoryOK, DeliveryInv, DeliveryStateConsistent
  <1> QED BY <1>1, Invariance, PTL

\* The state log tells the story of the running broker.
THEOREM RecoveryTheorem == Spec => []RecoveryAgrees
  <1>1. ASSUME IInv PROVE RecoveryAgrees
    <2> DEFINE r == Replay(logs, stateLog)
    <2> SUFFICES ASSUME status = "up", r # Corrupt
                 PROVE  r.topics = topics /\ ReleasePending(r.ds) = ReleasePending(ds)
      BY DEF RecoveryAgrees
    <2>1. topics = r.topics /\ Agrees(ds, r.ds)
      BY <1>1 DEF IInv, InStep
    <2>2. DeliveryInv(ds) /\ WellFormed(logs, stateLog)
      BY <1>1, UpFacts
    <2>3. DeliveryInv(r.ds)
      BY <2>2, ReplayFacts DEF RecoveredOK
    <2> HIDE DEF r
    <2> QED BY <2>1, <2>2, <2>3, AgreesReleased
  <1> QED BY <1>1, Invariance, PTL

\* What the broker reported settled is what it has settled, in every life.
THEOREM SettledTheorem == Spec => []SettledSurvives
  <1>1. IInv => SettledSurvives
    BY DEF IInv, MemoryOK, SettledSurvives
  <1> QED BY <1>1, Invariance, PTL

\* A message is delivered at most once more than the policy allows.
THEOREM AttemptsTheorem == Spec => []AttemptsExceededOnce
  <1>1. IInv => AttemptsExceededOnce
    BY DEF IInv
  <1> QED BY <1>1, Invariance, PTL

\* An open broker tracks only messages that exist, whatever a power failure left.
THEOREM TrackedTheorem == Spec => []TrackedMessagesExist
  <1>1. IInv => TrackedMessagesExist
    BY DEF IInv, MemoryOK, TrackedMessagesExist, MessageExists
  <1> QED BY <1>1, Invariance, PTL

-----------------------------------------------------------------------------
(* Retry maintenance accepts its own event.                                *)

\* After the outcomes of the event are applied, the due entries are the ones the
\* event lists: those that were due, and the expired ones if there is no backoff.
LEMMA MaintenanceDue ==
  ASSUME NEW s, DeliveryInv(s), NEW now \in Times
  PROVE  LET e == RetryMaintenanceApplied(s, now)
         IN  /\ ReadyRetryEntries(ApplyOutcomeSet(s, e.outcomes), now) = e.ready \cup e.expiredReady
             /\ e.ready \cap e.expiredReady = {}
             /\ e.timestamp = now
  <1> DEFINE e == RetryMaintenanceApplied(s, now)
             expired == ExpiredPending(s, now)
             o == Outcomes(s, expired, now, "expired")
             R == SlotsOf(s, o.retry)
             D == SlotsOf(s, o.dead)
             t == ApplyOutcomeSet(s, o)
  <1>1. /\ e.timestamp = now /\ e.outcomes = o /\ e.ready = ReadyRetryEntries(s, now)
        /\ e.expiredReady = IF o.readyAt <= now THEN R ELSE {}
    BY MaintenanceFields DEF SlotsOf
  <1>2. expired \subseteq DOMAIN s.pending
    BY DEF ExpiredPending
  <1>3. o.retry \subseteq DOMAIN s.pending /\ o.dead \subseteq DOMAIN s.pending
    BY <1>2 DEF Outcomes
  <1> HIDE DEF o, expired, e
  <1>4. R \subseteq DOMAIN s.pendingByOffset /\ D \subseteq DOMAIN s.pendingByOffset
    BY <1>3, PendingSlots
  <1>5. DOMAIN s.pendingByOffset \cap DOMAIN s.retryByOffset = {}
    BY DEF DeliveryInv, OnePlace
  <1>6. t.retryByOffset = Insert(Remove(s.retryByOffset, D), [x \in R |-> o.readyAt])
    <2>1. Shape(s)
      BY DEF DeliveryInv, DeliveryTypeOK
    <2> QED BY <2>1 DEF Shape, StateFields, ApplyOutcomeSet, ApplyOutcomes, SlotsOf
  <1> HIDE DEF R, D, t
  <1>7. /\ DOMAIN t.retryByOffset = DOMAIN s.retryByOffset \cup R
        /\ \A x \in DOMAIN s.retryByOffset : x \notin R /\ t.retryByOffset[x] = s.retryByOffset[x]
        /\ \A x \in R : t.retryByOffset[x] = o.readyAt
    BY <1>4, <1>5, <1>6 DEF Insert, Remove
  <1>8. ReadyRetryEntries(t, now) = e.ready \cup e.expiredReady
    BY <1>1, <1>7 DEF ReadyRetryEntries
  <1>9. e.ready \cap e.expiredReady = {}
    BY <1>1, <1>7 DEF ReadyRetryEntries
  <1> QED BY <1>1, <1>8, <1>9 DEF e, t

\* The event retry_ready logs is one that its own apply step accepts.
THEOREM MaintenanceTheorem == Spec => []MaintenanceAccepted
  <1>1. ASSUME IInv PROVE MaintenanceAccepted
    <2> SUFFICES ASSUME NEW now \in Times
                 PROVE  LET e == RetryMaintenanceApplied(ds, now)
                        IN  AvailabilityAccepted(ApplyOutcomeSet(ds, e.outcomes), e)
      BY DEF MaintenanceAccepted
    <2>1. DeliveryInv(ds)
      BY <1>1 DEF IInv, MemoryOK
    <2> QED BY <2>1, MaintenanceDue DEF AvailabilityAccepted
  <1> QED BY <1>1, Invariance, PTL

-----------------------------------------------------------------------------
(* Delivery ids.                                                           *)

\* No delivery gets an id that was handed out before, in whatever life.
LEMMA ConsumeFresh ==
  ASSUME IInv, NEW g \in Groups, NEW c \in Consumers, NEW t \in Topics, NEW max, NEW now, NEW lease,
         Consume(g, c, t, max, now, lease)
  PROVE  (DOMAIN ds'.pending \ DOMAIN ds.pending) \cap issued = {}
  <1> DEFINE len      == [p \in Partitions |-> Len(logs[t][p])]
             slots    == Selected(ds, g, t, len, max)
             attempts == [x \in slots |-> NextAttemptNumber(ds, x)]
             ids      == { DeliveryId(x, attempts[x]) : x \in slots }
  <1>1. /\ status = "up" /\ ds' = ApplyConsumed(ds, attempts, c, now + lease)
    BY DEF Consume
  <1>2. DeliveryInv(ds) /\ Shape(ds) /\ IssuedTracked(ds, issued) /\ logs \in MessageLogs
    BY <1>1, UpFacts
  <1>3. len \in [Partitions -> Nat]
    BY <1>2 DEF MessageLogs
  <1> HIDE DEF len
  <1>4. \A x \in slots : x \in Slots /\ IsAvailable(ds, x)
    BY <1>3, SelectedFacts
  <1> HIDE DEF slots
  <1>5. DOMAIN ds'.pending = DOMAIN ds.pending \cup ids
    BY <1>1, <1>2 DEF Shape, StateFields, ApplyConsumed, Insert
  <1>6. ASSUME NEW x \in slots PROVE DeliveryId(x, attempts[x]) \notin issued
    <2>1. /\ x \notin ds.acked /\ x \notin ds.deadLettered /\ x \in Slots
      BY <1>4 DEF IsAvailable
    <2>2. ds.attemptCounts = [k \in DOMAIN ds.attemptCounts |-> ds.attemptCounts[k]]
          /\ \A k \in DOMAIN ds.attemptCounts : ds.attemptCounts[k] \in Nat \ {0}
      BY <1>2 DEF DeliveryInv, DeliveryTypeOK, IsMap
    <2>3. /\ attempts[x] \in Nat \ {0}
          /\ x \in DOMAIN ds.attemptCounts => ~(attempts[x] <= ds.attemptCounts[x])
      BY <2>2 DEF NextAttemptNumber
    <2>4. DeliveryId(x, attempts[x]).slot = x /\ DeliveryId(x, attempts[x]).attempt = attempts[x]
      BY <2>1, <2>3, RecordFacts
    <2> HIDE DEF attempts
    <2> QED BY <1>2, <2>1, <2>3, <2>4 DEF IssuedTracked
  <1> HIDE DEF attempts
  <1>7. ids \cap issued = {}
    BY <1>6
  <1> HIDE DEF ids
  <1> QED BY <1>5, <1>7

\* The commands other than consume put nothing in flight.
LEMMA SettleShrinks ==
  ASSUME NEW s, Shape(s)
  PROVE  /\ \A id : DOMAIN ApplyAck(s, id).pending \subseteq DOMAIN s.pending
         /\ \A o : /\ Shape(ApplyOutcomeSet(s, o))
                   /\ DOMAIN ApplyOutcomeSet(s, o).pending \subseteq DOMAIN s.pending
         /\ \A e : DOMAIN ApplyMaintenance(s, e).pending \subseteq DOMAIN s.pending
  <1>1. ASSUME NEW id PROVE DOMAIN ApplyAck(s, id).pending \subseteq DOMAIN s.pending
    <2>1. ApplyAck(s, id).pending = Remove(s.pending, {id})
      BY DEF Shape, StateFields, ApplyAck
    <2> QED BY <2>1 DEF Remove
  <1>2. ASSUME NEW o
        PROVE  /\ Shape(ApplyOutcomeSet(s, o))
               /\ DOMAIN ApplyOutcomeSet(s, o).pending \subseteq DOMAIN s.pending
    <2> DEFINE u == ApplyOutcomeSet(s, o)
    <2>1. Shape(u) /\ u.pending = Remove(s.pending, o.retry \cup o.dead)
      BY DEF Shape, StateFields, ApplyOutcomeSet, ApplyOutcomes
    <2> HIDE DEF u
    <2>2. DOMAIN u.pending \subseteq DOMAIN s.pending
      BY <2>1 DEF Remove
    <2> QED BY <2>1, <2>2 DEF u
  <1>3. ASSUME NEW e PROVE DOMAIN ApplyMaintenance(s, e).pending \subseteq DOMAIN s.pending
    BY <1>2, AvailableFields DEF ApplyMaintenance
  <1> QED BY <1>1, <1>2, <1>3

\* No delivery id is handed out twice, not even by a broker that crashed with
\* the delivery in flight.
THEOREM NoReuseTheorem == Spec => DeliveryIdsNeverReused
  <1> DEFINE NoReuse == (DOMAIN ds'.pending \ DOMAIN ds.pending) \cap issued = {}
  <1>1. ASSUME IInv, [Next]_vars PROVE NoReuse \/ UNCHANGED vars
    <2>1. DeliveryInv(ds) /\ Shape(ds)
      BY <1>1 DEF IInv, MemoryOK, DeliveryInv, DeliveryTypeOK
    <2>2. ASSUME ds' = ds \/ DOMAIN ds'.pending \subseteq DOMAIN ds.pending PROVE NoReuse
      BY <2>2
    <2>3. DOMAIN EmptyState.pending = {}
      BY EmptyFields, EmptyMapFacts
    <2> HIDE DEF NoReuse
    <2>4. ASSUME NEW t \in Topics, CreateTopic(t) PROVE NoReuse
      BY <2>2, <2>4 DEF CreateTopic
    <2>5. ASSUME NEW t \in Topics, NEW m \in Messages, PublishNew(t, m) \/ PublishReplay(t, m)
          PROVE  NoReuse
      BY <2>2, <2>5 DEF PublishNew, PublishReplay, memory
    <2>6. ASSUME NEW g \in Groups, NEW c \in Consumers, NEW t \in Topics, NEW max \in 0 .. MaxBatch,
                 NEW now \in Times, NEW lease \in Leases, Consume(g, c, t, max, now, lease)
          PROVE  NoReuse
      BY <1>1, <2>6, ConsumeFresh DEF NoReuse
    <2>7. ASSUME NEW id \in DOMAIN ds.pending, NEW c \in Consumers, Ack(id, c) PROVE NoReuse
      BY <2>1, <2>2, <2>7, SettleShrinks DEF Ack
    <2>8. ASSUME NEW id \in DOMAIN ds.pending, NEW c \in Consumers, NEW now \in Times, Nack(id, c, now)
          PROVE  NoReuse
      BY <2>1, <2>2, <2>8, SettleShrinks DEF Nack
    <2>9. ASSUME NEW now \in Times, RetryReady(now) PROVE NoReuse
      BY <2>1, <2>2, <2>9, SettleShrinks DEF RetryReady
    <2>10. CASE StateAppendFails
      BY <2>2, <2>10 DEF StateAppendFails, memory
    <2>11. CASE Crash
      BY <2>2, <2>3, <2>11 DEF Crash
    <2>12. CASE PowerLoss
      BY <2>2, <2>3, <2>12 DEF PowerLoss
    <2>13. CASE Open
      <3> DEFINE r == Replay(logs, stateLog)
      <3>1. CASE ds' = ds
        BY <2>2, <3>1
      <3>2. CASE r # Corrupt /\ ds' = ReleasePending(r.ds)
        <4>1. DOMAIN ReleasePending(r.ds).pending = {}
          <5>1. WellFormed(logs, stateLog)
            BY <1>1 DEF IInv, FilesOK
          <5>2. DeliveryInv(r.ds)
            BY <3>2, <5>1, ReplayFacts DEF RecoveredOK
          <5> QED BY <5>2, ReleaseFields, EmptyMapFacts
        <4> QED BY <2>2, <3>2, <4>1
      <3> QED BY <2>13, <3>1, <3>2 DEF Open
    <2> QED BY <1>1, <2>4, <2>5, <2>6, <2>7, <2>8, <2>9, <2>10, <2>11, <2>12, <2>13 DEF Next
  <1> QED BY <1>1, Invariance, PTL DEF Spec, DeliveryIdsNeverReused

-----------------------------------------------------------------------------
(* How the state log stops being replayable.                               *)

\* What is in flight in the live state, a replay that agrees has in flight too.
LEMMA ClaimsStay ==
  ASSUME NEW s, NEW q, Agrees(s, q), NEW ids, ids \subseteq DOMAIN s.pending,
         NEW e, e.claims = Claims(s, ids)
  PROVE  ClaimsAccepted(q, e)
  <1>1. DOMAIN e.claims = ids
    BY DEF Claims
  <1>2. ASSUME NEW id \in ids PROVE id \in DOMAIN q.pending /\ e.claims[id] = Claims(q, {id})[id]
    <2>1. id \in DOMAIN q.pending /\ q.pending[id] = s.pending[id]
      BY DEF Agrees
    <2> QED BY <2>1 DEF Claims
  <1> QED BY <1>1, <1>2 DEF ClaimsAccepted

\* The replay of a log that was replayable, after an undisturbed append.
LEMMA AppendReplay ==
  ASSUME IInv, status = "up", logs' = logs, ~torn, NEW e, AppendEvent(e),
         Replay(logs, stateLog) # Corrupt
  PROVE  LET r == Replay(logs, stateLog)
         IN  /\ Replay(logs', stateLog') = ApplyRecoveredEvent(logs, r, e)
             /\ RecoveredOK(logs, r) /\ IsRecovered(r)
             /\ topics = r.topics /\ Agrees(ds, r.ds)
  <1> DEFINE r == Replay(logs, stateLog)
             E == { stateLog[i] : i \in DOMAIN stateLog }
  <1>1. WellFormed(logs, stateLog) /\ stateLog \in Seq(E)
    BY DEF IInv, FilesOK, WellFormed
  <1> HIDE DEF E
  <1>2. stateLog' = Append(stateLog, e)
    BY DEF AppendEvent
  <1>3. Replay(logs', stateLog') = ApplyRecoveredEvent(logs, r, e)
    BY <1>1, <1>2, ReplayAppend
  <1>4. RecoveredOK(logs, r)
    BY <1>1, ReplayFacts
  <1>5. topics = r.topics /\ Agrees(ds, r.ds)
    BY DEF IInv, InStep
  <1> QED BY <1>3, <1>4, <1>5 DEF RecoveredOK

\* A replay result that is not corrupt.
LEMMA WithStateOK == ASSUME NEW r, NEW s PROVE WithState(r, s) # Corrupt
  <1>1. WithState(r, s).type = "recovered"
    BY DEF WithState
  <1>2. Corrupt.type = "corrupt"
    BY DEF Corrupt
  <1> QED BY <1>1, <1>2

\* The outcomes of two agreeing states schedule the same retries.
LEMMA AvailabilityAgrees ==
  ASSUME NEW s, NEW q, Agrees(s, q), NEW e, AvailabilityAccepted(s, e)
  PROVE  AvailabilityAccepted(q, e)
  BY DEF AvailabilityAccepted, Agrees, ReadyRetryEntries

\* An undisturbed append of anything but a consume leaves the log replayable.
LEMMA OthersAccepted ==
  ASSUME IInv, ~torn, Replay(logs, stateLog) # Corrupt,
         \/ \E t \in Topics : CreateTopic(t)
         \/ \E id \in DOMAIN ds.pending, c \in Consumers : Ack(id, c)
         \/ \E id \in DOMAIN ds.pending, c \in Consumers, now \in Times : Nack(id, c, now)
         \/ \E now \in Times : RetryReady(now)
  PROVE  Replay(logs', stateLog') # Corrupt
  <1> DEFINE r == Replay(logs, stateLog)
             q == Replay(logs', stateLog')
  <1>1. ASSUME NEW t \in Topics, CreateTopic(t) PROVE q # Corrupt
    <2> DEFINE e == TopicCreated(t)
    <2>1. status = "up" /\ logs' = logs /\ t \notin topics /\ AppendEvent(e)
      BY <1>1 DEF CreateTopic
    <2>2. e.type = "topic_created" /\ e.topic = t
      BY DEF TopicCreated
    <2> HIDE DEF e
    <2>3. q = ApplyRecoveredEvent(logs, r, e) /\ IsRecovered(r) /\ topics = r.topics
      BY <2>1, AppendReplay
    <2>4. q = [type |-> "recovered", topics |-> r.topics \cup {t}, ds |-> r.ds]
      BY <2>1, <2>2, <2>3, ApplyToRecovered
    <2>5. q.type = "recovered"
      BY <2>4
    <2> QED BY <2>5 DEF Corrupt
  <1>2. ASSUME NEW id \in DOMAIN ds.pending, NEW c \in Consumers, Ack(id, c) PROVE q # Corrupt
    <2> DEFINE e == MessageAcked(ds, id)
    <2>1. status = "up" /\ logs' = logs /\ AppendEvent(e)
      BY <1>2 DEF Ack
    <2>2. e.type = "message_acked" /\ e.claims = Claims(ds, {id})
      BY DEF MessageAcked
    <2> HIDE DEF e
    <2>3. q = ApplyRecoveredEvent(logs, r, e) /\ IsRecovered(r) /\ Agrees(ds, r.ds)
      BY <2>1, AppendReplay
    <2>4. {id} \subseteq DOMAIN ds.pending
      OBVIOUS
    <2>5. ClaimsAccepted(r.ds, e)
      BY <2>2, <2>3, <2>4, ClaimsStay
    <2>6. q = WithState(r, ApplyAck(r.ds, CHOOSE i \in DOMAIN e.claims : TRUE))
      BY <2>2, <2>3, <2>5, ApplyToRecovered
    <2> QED BY <2>6, WithStateOK
  <1>3. ASSUME NEW id \in DOMAIN ds.pending, NEW c \in Consumers, NEW now \in Times, Nack(id, c, now)
        PROVE  q # Corrupt
    <2> DEFINE e == MessageNacked(ds, id, now)
    <2>1. status = "up" /\ logs' = logs /\ AppendEvent(e)
      BY <1>3 DEF Nack
    <2>2. e.type = "message_nacked" /\ e.claims = Claims(ds, {id})
      BY DEF MessageNacked
    <2> HIDE DEF e
    <2>3. q = ApplyRecoveredEvent(logs, r, e) /\ IsRecovered(r) /\ Agrees(ds, r.ds)
      BY <2>1, AppendReplay
    <2>4. {id} \subseteq DOMAIN ds.pending
      OBVIOUS
    <2>5. ClaimsAccepted(r.ds, e)
      BY <2>2, <2>3, <2>4, ClaimsStay
    <2>6. q = WithState(r, ApplyOutcomeSet(r.ds, e.outcomes))
      BY <2>2, <2>3, <2>5, ApplyToRecovered
    <2> QED BY <2>6, WithStateOK
  <1>4. ASSUME NEW now \in Times, RetryReady(now) PROVE q # Corrupt
    <2> DEFINE e == RetryMaintenanceApplied(ds, now)
               expired == ExpiredPending(ds, now)
               o == Outcomes(ds, expired, now, "expired")
               s == ApplyOutcomeSet(ds, o)
               u == ApplyOutcomeSet(r.ds, o)
    <2>1. /\ status = "up" /\ logs' = logs /\ AppendEvent(e)
          /\ e.outcomes.retry # {} => ~Overflows(now, Backoff)
      BY <1>4 DEF RetryReady
    <2>2. DeliveryInv(ds)
      BY <2>1, UpFacts
    <2>3. /\ e.type = "retry_maintenance_applied" /\ e.claims = Claims(ds, expired)
          /\ e.outcomes = o /\ e.timestamp = now
      BY DEF RetryMaintenanceApplied
    <2>4. AvailabilityAccepted(s, e)
      <3>1. /\ ReadyRetryEntries(s, now) = e.ready \cup e.expiredReady
            /\ e.ready \cap e.expiredReady = {}
        BY <2>2, <2>3, MaintenanceDue
      <3> QED BY <2>3, <3>1 DEF AvailabilityAccepted
    <2>5. expired \subseteq DOMAIN ds.pending /\ "expired" \in Reasons
      BY DEF ExpiredPending, Reasons
    <2> HIDE DEF e, expired
    <2>6. /\ q = ApplyRecoveredEvent(logs, r, e) /\ RecoveredOK(logs, r) /\ IsRecovered(r)
          /\ Agrees(ds, r.ds)
      BY <2>1, AppendReplay
    <2>7. ClaimsAccepted(r.ds, e)
      BY <2>3, <2>5, <2>6, ClaimsStay
    <2>8. Agrees(s, u)
      <3>1. Shape(r.ds)
        BY <2>6 DEF RecoveredOK, DeliveryInv, DeliveryTypeOK
      <3>2. o.retry # {} => ~Overflows(now, Backoff)
        BY <2>1, <2>3
      <3>3. \A z : Shape(z) /\ Agrees(ds, z) => Agrees(s, ApplyOutcomeSet(z, o))
        BY <2>1, <2>5, <3>2, OutcomesStep
      <3> HIDE DEF s, o
      <3> QED BY <2>6, <3>1, <3>3
    <2> HIDE DEF s, o
    <2>9. AvailabilityAccepted(u, e)
      BY <2>4, <2>8, AvailabilityAgrees
    <2>10. q = WithState(r, ApplyMaintenance(r.ds, e))
      BY <2>3, <2>6, <2>7, <2>9, ApplyToRecovered
    <2> QED BY <2>10, WithStateOK
  <1> QED BY <1>1, <1>2, <1>3, <1>4

\* A consume that poisons the log delivers a message that its replay still has
\* in flight.
LEMMA ConsumePoisons ==
  ASSUME IInv, ~torn, Replay(logs, stateLog) # Corrupt,
         NEW g \in Groups, NEW c \in Consumers, NEW t \in Topics, NEW max \in 0 .. MaxBatch,
         NEW now \in Times, NEW lease \in Leases, Consume(g, c, t, max, now, lease),
         Replay(logs', stateLog') = Corrupt
  PROVE  LET r == Replay(logs, stateLog)
         IN  DOMAIN ds'.pendingByOffset
               \cap (DOMAIN r.ds.pendingByOffset \ DOMAIN ds.pendingByOffset) # {}
  <1> DEFINE r        == Replay(logs, stateLog)
             len      == [p \in Partitions |-> Len(logs[t][p])]
             slots    == Selected(ds, g, t, len, max)
             attempts == [x \in slots |-> NextAttemptNumber(ds, x)]
             e        == MessagesConsumed(attempts, c, now + lease)
  <1>1. /\ status = "up" /\ t \in topics /\ logs' = logs /\ AppendEvent(e)
        /\ ds' = ApplyConsumed(ds, attempts, c, now + lease)
    BY DEF Consume
  <1>2. DeliveryInv(ds) /\ Shape(ds) /\ logs \in MessageLogs
    BY <1>1, UpFacts
  <1>3. len \in [Partitions -> Nat]
    BY <1>2 DEF MessageLogs
  <1> HIDE DEF len
  <1>4. \A x \in slots : /\ x \in Slots /\ IsAvailable(ds, x)
                         /\ x.topic = t /\ x.offset < len[x.partition]
    BY <1>3, SelectedFacts
  <1>5. \A x \in slots : MessageExists(logs, topics, x)
    BY <1>1, <1>4, RecordFacts DEF MessageExists, len
  <1> HIDE DEF slots
  <1>6. e.type = "messages_consumed" /\ e.attempts = attempts /\ DOMAIN attempts = slots
    BY DEF MessagesConsumed
  <1> HIDE DEF e
  <1>7. /\ Replay(logs', stateLog') = ApplyRecoveredEvent(logs, r, e) /\ RecoveredOK(logs, r)
        /\ IsRecovered(r) /\ topics = r.topics /\ Agrees(ds, r.ds)
    BY <1>1, AppendReplay
  <1>8. ~ConsumeAccepted(logs, r, e)
    <2>1. ConsumeAccepted(logs, r, e) =>
            ApplyRecoveredEvent(logs, r, e)
              = WithState(r, ApplyConsumed(r.ds, e.attempts, e.consumer, e.leaseExpiresAt))
      BY <1>6, <1>7, ApplyToRecovered
    <2> QED BY <1>7, <2>1, WithStateOK
  <1>9. DOMAIN ds'.pendingByOffset = DOMAIN ds.pendingByOffset \cup slots
    BY <1>1, <1>2, <1>6 DEF Shape, StateFields, ApplyConsumed, Insert
  <1> HIDE DEF attempts
  <1>10. PICK x \in slots : \/ ~MessageExists(logs, r.topics, x)
                            \/ DeliveryId(x, attempts[x]) \in DOMAIN r.ds.pending
                            \/ ~IsAvailable(r.ds, x)
    BY <1>6, <1>8 DEF ConsumeAccepted
  <1>11. x \notin DOMAIN ds.pendingByOffset
    BY <1>4 DEF IsAvailable
  <1>12. x \in DOMAIN r.ds.pendingByOffset
    <2>1. CASE DeliveryId(x, attempts[x]) \in DOMAIN r.ds.pending
      <3>1. DeliveryId(x, attempts[x]).slot = x
        BY DEF DeliveryId
      <3> QED BY <1>7, <2>1, <3>1 DEF RecoveredOK, DeliveryInv, PendingMapsAgree
    <2>2. CASE ~IsAvailable(r.ds, x)
      BY <1>4, <1>7, <2>2 DEF IsAvailable, Agrees
    <2> QED BY <1>5, <1>7, <1>10, <2>1, <2>2
  <1> QED BY <1>9, <1>11, <1>12

\* Without power failures, only a failed append and the redelivery of a released
\* message poison the state log.
THEOREM PoisonTheorem ==
  ASSUME ~PowerFailures
  PROVE  Spec => LogPoisonedOnlyByKnownCauses
  <1> DEFINE r        == Replay(logs, stateLog)
             released == DOMAIN r.ds.pendingByOffset \ DOMAIN ds.pendingByOffset
             Known == stateLog' # stateLog /\ ~Replayable' /\ r # Corrupt =>
                        \/ torn /\ ~torn'
                        \/ DOMAIN ds'.pendingByOffset \cap released # {}
  <1>1. ASSUME IInv, [Next]_vars PROVE Known
    <2> SUFFICES ASSUME stateLog' # stateLog, Replay(logs', stateLog') = Corrupt, r # Corrupt,
                        ~(torn /\ ~torn')
                 PROVE  DOMAIN ds'.pendingByOffset \cap released # {}
      BY DEF Replayable
    <2>1. ASSUME NEW e, AppendEvent(e) PROVE ~torn
      BY <2>1, <1>1 DEF AppendEvent, IInv, TypeOK
    <2>2. ASSUME \/ \E t \in Topics : CreateTopic(t)
                 \/ \E id \in DOMAIN ds.pending, c \in Consumers : Ack(id, c)
                 \/ \E id \in DOMAIN ds.pending, c \in Consumers, now \in Times : Nack(id, c, now)
                 \/ \E now \in Times : RetryReady(now)
          PROVE  FALSE
      <3>1. ~torn
        BY <2>1, <2>2 DEF CreateTopic, Ack, Nack, RetryReady
      <3> QED BY <1>1, <2>2, <3>1, OthersAccepted
    <2>3. ASSUME NEW g \in Groups, NEW c \in Consumers, NEW t \in Topics, NEW max \in 0 .. MaxBatch,
                 NEW now \in Times, NEW lease \in Leases, Consume(g, c, t, max, now, lease)
          PROVE  DOMAIN ds'.pendingByOffset \cap released # {}
      <3>1. ~torn
        BY <2>1, <2>3 DEF Consume
      <3> QED BY <1>1, <2>3, <3>1, ConsumePoisons
    <2>4. ASSUME \/ \E t \in Topics, m \in Messages : PublishNew(t, m) \/ PublishReplay(t, m)
                 \/ StateAppendFails \/ Crash \/ Open \/ UNCHANGED vars
          PROVE  FALSE
      BY <2>4 DEF PublishNew, PublishReplay, StateAppendFails, Crash, Open, vars, disk
    <2>5. ~PowerLoss
      BY DEF PowerLoss
    <2> HIDE DEF released
    <2> QED BY <1>1, <2>2, <2>3, <2>4, <2>5 DEF Next
  <1> HIDE DEF Known
  <1>2. Spec => [][Known]_vars
    BY <1>1, Invariance, PTL DEF Spec
  <1> QED BY <1>2 DEF LogPoisonedOnlyByKnownCauses, Known

-----------------------------------------------------------------------------
(***************************************************************************)
(* As long as the machine does not lose what was written, the durable      *)
(* broker keeps what it answered to its producers, and is RecoverableBroker*)
(* to all its callers, through any number of crashes and failed appends.   *)
(* A power failure may keep the messages of a topic and lose the line that *)
(* created it, so none of this is claimed then.                            *)
(***************************************************************************)

-----------------------------------------------------------------------------
(* The publish state.                                                      *)

\* An answer names the one record of its key.
AnswerHolds(L, r) ==
  LET pos == <<r.partition, r.offset + 1>>
  IN  /\ r.topic \in Topics /\ r.key \in IdempotencyKeys
      /\ r.partition \in Partitions /\ r.offset \in Nat
      /\ KeyPositions(L, r.topic, r.key) = {pos}
      /\ RecordAt(L, r.topic, pos).id = r.id
      /\ Fingerprint(r.topic, RecordAt(L, r.topic, pos)) = r.fingerprint

\* Only the topics T have messages.
NoStray(L, T) == \A t \in Topics \ T : Positions(L, t) = {}

\* Memory has what a scan of the message logs recovers, while the process is up
\* and, as far as the topics go, while it is down.
PInv ==
  /\ KeysUnique(logs)
  /\ \A r \in replies : AnswerHolds(logs, r)
  /\ status = "up" =>
       /\ nextRR = RecoveredRR(logs, topics)
       /\ index = RecoveredIndex(logs, topics)
       /\ NoStray(logs, topics)
  /\ LET r == Replay(logs, stateLog)
     IN  status # "up" /\ r # Corrupt => NoStray(logs, r.topics)

\* A publish of a message with a free key leaves the earlier answers true.
LEMMA AnswerStays ==
  ASSUME NEW L \in MessageLogs, NEW t \in Topics, NEW p \in Partitions, NEW m \in Messages,
         NEW M, M = AppendMessage(L, t, p, m), KeyFree(L, t, m), NEW r, AnswerHolds(L, r)
  PROVE  AnswerHolds(M, r)
  <1> DEFINE pos == <<r.partition, r.offset + 1>>
             new == <<p, Len(L[t][p]) + 1>>
  <1>1. /\ r.topic \in Topics /\ r.key \in IdempotencyKeys
        /\ r.partition \in Partitions /\ r.offset \in Nat
        /\ KeyPositions(L, r.topic, r.key) = {pos}
        /\ RecordAt(L, r.topic, pos).id = r.id
        /\ Fingerprint(r.topic, RecordAt(L, r.topic, pos)) = r.fingerprint
    BY DEF AnswerHolds
  <1>2. StoresAlso(L, M, t, m, new)
    BY AppendedKeys
  <1>3. /\ RecordAt(M, t, new) = m
        /\ \A q \in Positions(L, t) : RecordAt(M, t, q) = RecordAt(L, t, q)
        /\ \A u \in Topics \ {t} : M[u] = L[u]
    BY AppendedPositions
  <1> HIDE DEF pos, new
  <1>4. ~(r.topic = t /\ r.key = m.idempotencyKey)
    BY <1>1, PublishAssumption DEF KeyFree
  <1>5. KeyPositions(M, r.topic, r.key) = {pos}
    BY <1>1, <1>2, <1>4 DEF StoresAlso
  <1>6. RecordAt(M, r.topic, pos) = RecordAt(L, r.topic, pos)
    <2>1. CASE r.topic = t
      BY <1>1, <1>3, <2>1 DEF KeyPositions
    <2>2. CASE r.topic # t
      BY <1>1, <1>3, <2>2 DEF RecordAt
    <2> QED BY <2>1, <2>2
  <1> QED BY <1>1, <1>5, <1>6 DEF AnswerHolds, pos

\* A message whose key the index does not have is in no log.
LEMMA NewKeyFree ==
  ASSUME NEW L, NEW T, NEW t \in T, NEW m \in Messages,
         CheckIdempotency(t, m, RecoveredIndex(L, T)) \in {"untracked", "new"}
  PROVE  KeyFree(L, t, m)
  <1> SUFFICES ASSUME m.idempotencyKey # NoKey
               PROVE  KeyPositions(L, t, m.idempotencyKey) = {}
    BY DEF KeyFree
  <1>1. m.idempotencyKey \in IdempotencyKeys
    BY DEF Messages
  <1>2. <<t, m.idempotencyKey>> \notin DOMAIN RecoveredIndex(L, T)
    BY DEF CheckIdempotency
  <1> QED BY <1>1, <1>2 DEF RecoveredIndex, RecoveredKeys

\* The answers a step adds.
LEMMA ReplyFields ==
  ASSUME NEW t, NEW m, NEW p, NEW o, NEW id, NEW r \in Reply(t, m, p, o, id)
  PROVE  /\ m.idempotencyKey # NoKey
         /\ r.topic = t /\ r.key = m.idempotencyKey /\ r.fingerprint = Fingerprint(t, m)
         /\ r.partition = p /\ r.offset = o /\ r.id = id
  BY DEF Reply

\* publish keeps the publish state, and its answer holds.
LEMMA PublishNewAnswers ==
  ASSUME IInv, PInv, NEW t \in Topics, NEW m \in Messages, PublishNew(t, m)
  PROVE  PInv'
  <1> DEFINE p   == SelectPartition(m, nextRR[t])
             o   == Len(logs[t][p])
             new == <<p, o + 1>>
  <1>1. /\ status = "up" /\ t \in topics /\ logs' = AppendMessage(logs, t, p, m)
        /\ nextRR' = [nextRR EXCEPT ![t] = AdvanceRoundRobin(m, @)]
        /\ index' = RecordPublish(index, t, m, p, o)
        /\ CheckIdempotency(t, m, index) \in {"untracked", "new"}
        /\ replies' = replies \cup Reply(t, m, p, o, m.id)
        /\ UNCHANGED <<status, topics>>
    BY DEF PublishNew
  <1>2. p \in Partitions
    BY SelectPartitionFacts DEF IInv, TypeOK
  <1>3. /\ logs \in MessageLogs /\ topics \subseteq Topics /\ KeysUnique(logs)
        /\ nextRR = RecoveredRR(logs, topics) /\ index = RecoveredIndex(logs, topics)
        /\ NoStray(logs, topics)
    BY <1>1 DEF IInv, TypeOK, MessageLogs, PInv
  <1>4. KeyFree(logs, t, m)
    BY <1>1, <1>3, NewKeyFree
  <1> HIDE DEF p
  <1>5. /\ logs' \in MessageLogs
        /\ RecordAt(logs', t, new) = m
        /\ \A u \in Topics \ {t} : logs'[u] = logs[u]
    BY <1>1, <1>2, <1>3, AppendedPositions
  <1>6. KeysUnique(logs')
    BY <1>1, <1>2, <1>3, <1>4, AppendedUnique
  <1>7. nextRR' = RecoveredRR(logs', topics)
    BY <1>1, <1>2, <1>3, AppendedRR
  <1>8. index' = RecoveredIndex(logs', topics)
    BY <1>1, <1>2, <1>3, <1>4, AppendedIndex
  <1>9. NoStray(logs', topics)
    BY <1>1, <1>3, <1>5 DEF NoStray, Positions
  <1>10. ASSUME NEW r \in replies PROVE AnswerHolds(logs', r)
    BY <1>1, <1>2, <1>3, <1>4, AnswerStays DEF PInv
  <1>11. ASSUME NEW r \in Reply(t, m, p, o, m.id) PROVE AnswerHolds(logs', r)
    <2>1. /\ m.idempotencyKey # NoKey /\ r.topic = t /\ r.key = m.idempotencyKey
          /\ r.fingerprint = Fingerprint(t, m) /\ r.partition = p /\ r.offset = o /\ r.id = m.id
      BY ReplyFields
    <2>2. m.idempotencyKey \in IdempotencyKeys /\ o \in Nat
      BY <1>2, <1>3, <2>1, PositionFacts DEF Messages
    <2>3. StoresAlso(logs, logs', t, m, new)
      BY <1>1, <1>2, <1>3, AppendedKeys
    <2>4. KeyPositions(logs', t, m.idempotencyKey) = {new}
      BY <1>4, <2>1, <2>3 DEF StoresAlso, KeyFree
    <2> HIDE DEF o
    <2> QED BY <1>2, <1>5, <2>1, <2>2, <2>4 DEF AnswerHolds
  <1> HIDE DEF o
  <1> QED BY <1>1, <1>6, <1>7, <1>8, <1>9, <1>10, <1>11 DEF PInv

\* A replayed publish answers with the record that its key has.
LEMMA PublishReplayAnswers ==
  ASSUME IInv, PInv, NEW t \in Topics, NEW m \in Messages, PublishReplay(t, m)
  PROVE  PInv'
  <1> DEFINE k == <<t, m.idempotencyKey>>
             i == index[k]
  <1>1. /\ status = "up" /\ t \in topics /\ CheckIdempotency(t, m, index) = "replay"
        /\ replies' = replies \cup Reply(t, m, i.partition, i.offset, i.id)
        /\ UNCHANGED <<status, topics, nextRR, index, logs, stateLog>>
    BY DEF PublishReplay, memory, disk
  <1>2. /\ logs \in MessageLogs /\ topics \subseteq Topics /\ KeysUnique(logs)
        /\ index = RecoveredIndex(logs, topics)
    BY <1>1 DEF IInv, TypeOK, MessageLogs, PInv
  <1>3. /\ m.idempotencyKey \in IdempotencyKeys /\ k \in DOMAIN index
        /\ i.fingerprint = Fingerprint(t, m)
    BY <1>1 DEF CheckIdempotency, Messages
  <1>4. PICK pos \in KeyPositions(logs, t, m.idempotencyKey) : TRUE
    BY <1>2, <1>3 DEF RecoveredIndex, RecoveredKeys
  <1>5. /\ i = IdempotencyRecord(t, RecordAt(logs, t, pos), pos[1], pos[2] - 1)
        /\ KeyPositions(logs, t, m.idempotencyKey) = {pos}
    BY <1>1, <1>2, <1>3, <1>4, RecoveredRecord
  <1> HIDE DEF i
  <1>6. PICK q \in Partitions : \E j \in 1 .. Len(logs[t][q]) : pos = <<q, j>>
    BY <1>2, <1>4, PositionFacts DEF KeyPositions
  <1>7. PICK j \in 1 .. Len(logs[t][q]) : pos = <<q, j>>
    BY <1>6
  <1>8. j \in Nat \ {0} /\ pos = <<q, (j - 1) + 1>> /\ j - 1 \in Nat
    BY <1>2, <1>7, PositionFacts
  <1>9. /\ i.partition = q /\ i.offset = j - 1 /\ i.id = RecordAt(logs, t, pos).id
        /\ i.fingerprint = Fingerprint(t, RecordAt(logs, t, pos))
    BY <1>5, <1>7 DEF IdempotencyRecord
  <1>10. ASSUME NEW r \in Reply(t, m, i.partition, i.offset, i.id) PROVE AnswerHolds(logs, r)
    <2>1. /\ r.topic = t /\ r.key = m.idempotencyKey /\ r.fingerprint = Fingerprint(t, m)
          /\ r.partition = i.partition /\ r.offset = i.offset /\ r.id = i.id
      BY ReplyFields
    <2>2. <<r.partition, r.offset + 1>> = pos
      BY <1>8, <1>9, <2>1
    <2> QED BY <1>3, <1>5, <1>8, <1>9, <2>1, <2>2 DEF AnswerHolds
  <1> QED BY <1>1, <1>10 DEF PInv

\* A new topic has no messages yet.
LEMMA CreateTopicAnswers ==
  ASSUME IInv, PInv, NEW t \in Topics, CreateTopic(t)
  PROVE  PInv'
  <1>1. /\ status = "up" /\ t \notin topics /\ topics' = topics \cup {t}
        /\ UNCHANGED <<status, nextRR, index, logs, replies>>
    BY DEF CreateTopic
  <1>2. logs \in MessageLogs /\ Positions(logs, t) = {}
    BY <1>1 DEF IInv, TypeOK, MessageLogs, PInv, NoStray
  <1>3. /\ RecoveredRR(logs, topics') = RecoveredRR(logs, topics)
        /\ RecoveredIndex(logs, topics') = RecoveredIndex(logs, topics)
    BY <1>1, <1>2, EmptyTopicScan
  <1>4. NoStray(logs, topics')
    BY <1>1 DEF PInv, NoStray
  <1> QED BY <1>1, <1>3, <1>4 DEF PInv

\* A crash leaves the topics of the running broker in the state log.
LEMMA CrashAnswers ==
  ASSUME IInv, PInv, Crash
  PROVE  PInv'
  <1>1. status = "up" /\ status' = "down" /\ UNCHANGED <<logs, stateLog, replies>>
    BY DEF Crash
  <1>2. Replay(logs, stateLog) # Corrupt => Replay(logs, stateLog).topics = topics
    BY <1>1 DEF IInv, InStep
  <1> QED BY <1>1, <1>2 DEF PInv

\* An open recovers the publish state by scanning the message logs.
LEMMA OpenAnswers ==
  ASSUME IInv, PInv, Open
  PROVE  PInv'
  <1> DEFINE r == Replay(logs, stateLog)
  <1>1. status # "up" /\ UNCHANGED <<logs, stateLog, replies>>
    BY DEF Open
  <1>2. CASE status' = "failed"
    BY <1>1, <1>2 DEF PInv
  <1>3. CASE /\ r # Corrupt /\ status' = "up" /\ topics' = r.topics
             /\ nextRR' = RecoveredRR(logs, r.topics)
             /\ index' = RecoveredIndex(logs, r.topics)
    BY <1>1, <1>3 DEF PInv
  <1> QED BY <1>2, <1>3 DEF Open

\* Every step of the broker but a power failure keeps the publish state.
LEMMA PublishStateStep ==
  ASSUME ~PowerFailures, IInv, PInv, [Next]_vars
  PROVE  PInv'
  <1>1. ASSUME UNCHANGED <<status, topics, nextRR, index, logs, replies>>, status = "up" PROVE PInv'
    BY <1>1 DEF PInv
  <1>2. ASSUME NEW t \in Topics, CreateTopic(t) PROVE PInv'
    BY <1>2, CreateTopicAnswers
  <1>3. ASSUME NEW t \in Topics, NEW m \in Messages, PublishNew(t, m) PROVE PInv'
    BY <1>3, PublishNewAnswers
  <1>4. ASSUME NEW t \in Topics, NEW m \in Messages, PublishReplay(t, m) PROVE PInv'
    BY <1>4, PublishReplayAnswers
  <1>5. ASSUME NEW g \in Groups, NEW c \in Consumers, NEW t \in Topics, NEW max \in 0 .. MaxBatch,
               NEW now \in Times, NEW lease \in Leases, Consume(g, c, t, max, now, lease)
        PROVE  PInv'
    BY <1>1, <1>5 DEF Consume
  <1>6. ASSUME NEW id \in DOMAIN ds.pending, NEW c \in Consumers,
               Ack(id, c) \/ \E now \in Times : Nack(id, c, now)
        PROVE  PInv'
    BY <1>1, <1>6 DEF Ack, Nack
  <1>7. ASSUME NEW now \in Times, RetryReady(now) PROVE PInv'
    BY <1>1, <1>7 DEF RetryReady
  <1>8. CASE StateAppendFails
    BY <1>1, <1>8 DEF StateAppendFails, memory
  <1>9. CASE Crash
    BY <1>9, CrashAnswers
  <1>10. CASE Open
    BY <1>10, OpenAnswers
  <1>11. CASE UNCHANGED vars
    BY <1>11 DEF PInv, vars, memory, disk
  <1>12. ~PowerLoss
    BY DEF PowerLoss
  <1> QED BY <1>2, <1>3, <1>4, <1>5, <1>6, <1>7, <1>8, <1>9, <1>10, <1>11, <1>12 DEF Next

\* A new broker has published nothing.
LEMMA PublishStateInit == Init => PInv
  <1> SUFFICES ASSUME Init PROVE PInv
    OBVIOUS
  <1>1. \A t \in Topics : Positions(logs, t) = {}
    BY DEF Init, EmptyLogs, Positions
  <1>2. logs \in MessageLogs
    BY DEF Init, EmptyLogs, MessageLogs
  <1>3. RecoveredRR(logs, {}) = [t \in Topics |-> 0]
    BY DEF RecoveredRR
  <1>4. RecoveredKeys(logs, {}) = {}
    BY DEF RecoveredKeys
  <1>5. RecoveredIndex(logs, {}) = EmptyMap
    BY <1>4 DEF RecoveredIndex, EmptyMap
  <1>6. KeysUnique(logs)
    BY <1>1 DEF KeysUnique, KeyPositions
  <1> QED BY <1>1, <1>3, <1>5, <1>6 DEF Init, PInv, NoStray

\* Both invariants hold in every reachable state, if the power never fails.
THEOREM PublishInvariance ==
  ASSUME ~PowerFailures
  PROVE  Spec => [](IInv /\ PInv)
  <1>1. IInv /\ PInv /\ [Next]_vars => PInv'
    BY PublishStateStep
  <1> QED BY <1>1, PublishStateInit, InitInv, NextInv, PTL DEF Spec

\* The answers to the retries of a publish all name one record, and it is there.
THEOREM PublishedOnceTheorem ==
  ASSUME ~PowerFailures
  PROVE  Spec => []PublishedOnce
  <1>1. ASSUME IInv, PInv PROVE PublishedOnce
    <2> SUFFICES ASSUME NEW r \in replies
                 PROVE  /\ r.offset < Len(logs[r.topic][r.partition])
                        /\ LET m == logs[r.topic][r.partition][r.offset + 1]
                           IN  m.idempotencyKey = r.key /\ m.id = r.id
                               /\ Fingerprint(r.topic, m) = r.fingerprint
                        /\ KeyPositions(logs, r.topic, r.key) = {<<r.partition, r.offset + 1>>}
      BY DEF PublishedOnce
    <2> DEFINE pos == <<r.partition, r.offset + 1>>
               m   == logs[r.topic][r.partition][r.offset + 1]
    <2>1. /\ r.topic \in Topics /\ r.key \in IdempotencyKeys
          /\ r.partition \in Partitions /\ r.offset \in Nat
          /\ KeyPositions(logs, r.topic, r.key) = {pos}
          /\ RecordAt(logs, r.topic, pos).id = r.id
          /\ Fingerprint(r.topic, RecordAt(logs, r.topic, pos)) = r.fingerprint
      BY <1>1 DEF PInv, AnswerHolds
    <2>2. logs \in MessageLogs
      BY <1>1 DEF IInv, TypeOK, MessageLogs
    <2>3. RecordAt(logs, r.topic, pos) = m
      BY DEF RecordAt
    <2>4. pos \in Positions(logs, r.topic) /\ m.idempotencyKey = r.key
      BY <2>1, <2>3 DEF KeyPositions
    <2>5. r.offset + 1 \in 1 .. Len(logs[r.topic][r.partition])
      BY <2>1, <2>2, <2>4, PositionFacts
    <2>6. r.offset < Len(logs[r.topic][r.partition])
      BY <2>1, <2>2, <2>5, PositionFacts
    <2> QED BY <2>1, <2>3, <2>4, <2>6
  <1> QED BY <1>1, PublishInvariance, PTL

\* What an open recovers is the publish state of the running broker.
THEOREM PublishStateTheorem ==
  ASSUME ~PowerFailures
  PROVE  Spec => []PublishStateRecovered
  <1>1. ASSUME IInv, PInv PROVE PublishStateRecovered
    <2> SUFFICES ASSUME status = "up" PROVE PublishStateRecovered
      BY DEF PublishStateRecovered
    <2>1. topics \subseteq Topics
      BY <1>1 DEF IInv, TypeOK
    <2>2. ~ConflictingKeys(logs, topics)
      BY <1>1, <2>1 DEF PInv, KeysUnique, ConflictingKeys, RecoveredKeys
    <2> QED BY <1>1, <2>2 DEF PInv, PublishStateRecovered
  <1> QED BY <1>1, PublishInvariance, PTL

-----------------------------------------------------------------------------
(* The refinement.                                                         *)

\* What the callers see of a broker that is up, before and after a step.
LEMMA UpView ==
  ASSUME status = "up", status' = "up"
  PROVE  /\ Recovered.topics = topics /\ Recovered.nextRR = nextRR
         /\ Recovered.index = index /\ Recovered.ds = ds /\ Recovered.alive = TRUE
         /\ (Recovered.topics)' = topics' /\ (Recovered.nextRR)' = nextRR'
         /\ (Recovered.index)' = index' /\ (Recovered.ds)' = ds' /\ (Recovered.alive)' = TRUE
  BY DEF Recovered

\* create_topic is that of the in-memory broker.
LEMMA CreateTopicRefines ==
  ASSUME NEW t \in Topics, CreateTopic(t)
  PROVE  Recoverable!Command
  <1>1. Recoverable!CreateTopic(t)
    BY UpView DEF CreateTopic, Recoverable!CreateTopic
  <1> QED BY <1>1, UpView DEF Recoverable!Command, Recoverable!Next, CreateTopic

\* The instance of RecoverableBroker computes with the operators of this module,
\* under other names.
LEMMA SameMaps ==
  /\ Recoverable!Partitions = Partitions
  /\ Recoverable!EmptyMap = EmptyMap
  /\ \A m, K : Recoverable!Remove(m, K) = Remove(m, K)
  /\ \A m, n : Recoverable!Insert(m, n) = Insert(m, n)
  BY DEF Recoverable!Partitions, Recoverable!EmptyMap, Recoverable!Remove, Recoverable!Insert,
         Partitions, EmptyMap, Remove, Insert

\* The same for the size of a set.
LEMMA SameCardinality ==
  ASSUME NEW S PROVE Recoverable!Cardinality(S) = Cardinality(S)
  BY DEF Recoverable!Cardinality, Cardinality

\* The same for the publish path.
LEMMA SamePublish ==
  /\ Recoverable!Messages = Messages
  /\ Recoverable!EmptyLogs = EmptyLogs
  /\ \A L, t, p, m : Recoverable!AppendMessage(L, t, p, m) = AppendMessage(L, t, p, m)
  /\ \A m, n : Recoverable!SelectPartition(m, n) = SelectPartition(m, n)
  /\ \A m, n : Recoverable!AdvanceRoundRobin(m, n) = AdvanceRoundRobin(m, n)
  /\ \A t, m, i : Recoverable!CheckIdempotency(t, m, i) = CheckIdempotency(t, m, i)
  /\ \A i, t, m, p, o : Recoverable!RecordPublish(i, t, m, p, o) = RecordPublish(i, t, m, p, o)
  BY SameMaps
  DEF Recoverable!Messages, Recoverable!EmptyLogs, Recoverable!AppendMessage,
      Recoverable!SelectPartition, Recoverable!AdvanceRoundRobin, Recoverable!CheckIdempotency,
      Recoverable!RecordPublish, Recoverable!Fingerprint, Recoverable!IdempotencyRecord,
      Messages, EmptyLogs, AppendMessage, SelectPartition, AdvanceRoundRobin, CheckIdempotency,
      RecordPublish, Fingerprint, IdempotencyRecord

\* The same for selecting and consuming.
LEMMA SameConsume ==
  /\ Recoverable!EmptyState = EmptyState
  /\ \A t, n : Recoverable!Overflows(t, n) = Overflows(t, n)
  /\ \A s, x : Recoverable!NextAttemptNumber(s, x) = NextAttemptNumber(s, x)
  /\ \A x, n : Recoverable!DeliveryId(x, n) = DeliveryId(x, n)
  /\ \A s, g, t, len, max :
       Recoverable!Selected(s, g, t, len, max) = Selected(s, g, t, len, max)
  /\ \A s, a, c, l : Recoverable!ApplyConsumed(s, a, c, l) = ApplyConsumed(s, a, c, l)
  <1>1. Recoverable!EmptyState = EmptyState
    BY SameMaps DEF Recoverable!EmptyState, EmptyState, Recoverable!GroupPartitions, GroupPartitions
  <1>2. \A t, n : Recoverable!Overflows(t, n) = Overflows(t, n)
    BY DEF Recoverable!Overflows, Overflows
  <1>3. \A s, x : Recoverable!NextAttemptNumber(s, x) = NextAttemptNumber(s, x)
    BY DEF Recoverable!NextAttemptNumber, NextAttemptNumber
  <1>4. \A x, n : Recoverable!DeliveryId(x, n) = DeliveryId(x, n)
    BY DEF Recoverable!DeliveryId, DeliveryId
  <1>5. ASSUME NEW s, NEW g, NEW t, NEW len, NEW max
        PROVE  Recoverable!Selected(s, g, t, len, max) = Selected(s, g, t, len, max)
    <2> DEFINE all == UNION { { [group |-> g, topic |-> t, partition |-> p, offset |-> o]
                                  : o \in 0 .. len[p] - 1 } : p \in Partitions }
               available == { x \in all : IsAvailable(s, x) }
               Earlier(x) == { y \in available : Before(y, x) }
    <2>1. Selected(s, g, t, len, max) = { x \in available : Cardinality(Earlier(x)) < max }
      BY DEF Selected
    <2>2. Recoverable!Selected(s, g, t, len, max)
            = { x \in available : Recoverable!Cardinality(Earlier(x)) < max }
      BY DEF Recoverable!Selected, Recoverable!Partitions, Partitions,
             Recoverable!IsAvailable, IsAvailable, Recoverable!Before, Before
    <2> HIDE DEF available, Earlier
    <2>3. \A x \in available : Recoverable!Cardinality(Earlier(x)) = Cardinality(Earlier(x))
      BY SameCardinality
    <2> QED BY <2>1, <2>2, <2>3
  <1>6. ASSUME NEW s, NEW a, NEW c, NEW l
        PROVE  Recoverable!ApplyConsumed(s, a, c, l) = ApplyConsumed(s, a, c, l)
    BY DEF Recoverable!ApplyConsumed, ApplyConsumed, Recoverable!DeliveryId, DeliveryId,
           Recoverable!Insert, Insert
  <1> QED BY <1>1, <1>2, <1>3, <1>4, <1>5, <1>6

\* The same for settling, retry maintenance and release.
LEMMA SameSettle ==
  /\ \A s, id, c : Recoverable!PendingForCommand(s, id, c) = PendingForCommand(s, id, c)
  /\ \A s, id : Recoverable!ApplyAck(s, id) = ApplyAck(s, id)
  /\ \A s, id : Recoverable!IsRetryable(s, id) = IsRetryable(s, id)
  /\ \A s, r, n, d, why :
       Recoverable!ApplyOutcomes(s, r, n, d, why) = ApplyOutcomes(s, r, n, d, why)
  /\ \A s, n : Recoverable!ExpiredPending(s, n) = ExpiredPending(s, n)
  /\ \A s, n : Recoverable!ReadyRetryEntries(s, n) = ReadyRetryEntries(s, n)
  /\ \A s, X : Recoverable!MarkRetryAvailable(s, X) = MarkRetryAvailable(s, X)
  /\ \A s : Recoverable!ReleasePending(s) = ReleasePending(s)
  <1>1. \A s, id, c : Recoverable!PendingForCommand(s, id, c) = PendingForCommand(s, id, c)
    BY DEF Recoverable!PendingForCommand, PendingForCommand
  <1>2. ASSUME NEW s, NEW id PROVE Recoverable!ApplyAck(s, id) = ApplyAck(s, id)
    <2>1. ASSUME NEW n, NEW A PROVE Recoverable!AdvanceCursor(n, A) = AdvanceCursor(n, A)
      BY SameCardinality DEF Recoverable!AdvanceCursor, AdvanceCursor
    <2>2. \A x : Recoverable!GroupPartitionOf(x) = GroupPartitionOf(x)
      BY DEF Recoverable!GroupPartitionOf, GroupPartitionOf
    <2> QED BY <2>1, <2>2, SameMaps DEF Recoverable!ApplyAck, ApplyAck
  <1>3. \A s, id : Recoverable!IsRetryable(s, id) = IsRetryable(s, id)
    BY DEF Recoverable!IsRetryable, IsRetryable
  <1>4. ASSUME NEW s, NEW r, NEW n, NEW d, NEW why
        PROVE  Recoverable!ApplyOutcomes(s, r, n, d, why) = ApplyOutcomes(s, r, n, d, why)
    BY DEF Recoverable!ApplyOutcomes, ApplyOutcomes, Recoverable!Remove, Remove,
           Recoverable!Insert, Insert
  <1>5. \A s, n : Recoverable!ExpiredPending(s, n) = ExpiredPending(s, n)
    BY DEF Recoverable!ExpiredPending, ExpiredPending
  <1>6. \A s, n : Recoverable!ReadyRetryEntries(s, n) = ReadyRetryEntries(s, n)
    BY DEF Recoverable!ReadyRetryEntries, ReadyRetryEntries
  <1>7. \A s, X : Recoverable!MarkRetryAvailable(s, X) = MarkRetryAvailable(s, X)
    BY DEF Recoverable!MarkRetryAvailable, MarkRetryAvailable, Recoverable!Remove, Remove
  <1>8. \A s : Recoverable!ReleasePending(s) = ReleasePending(s)
    BY DEF Recoverable!ReleasePending, ReleasePending, Recoverable!Remove, Remove,
           Recoverable!EmptyMap, EmptyMap
  <1> QED BY <1>1, <1>2, <1>3, <1>4, <1>5, <1>6, <1>7, <1>8

\* ack is that of the in-memory broker.
LEMMA AckRefines ==
  ASSUME NEW id \in DOMAIN ds.pending, NEW c \in Consumers, Ack(id, c)
  PROVE  Recoverable!Command
  <1>1. Recoverable!Ack(id, c)
    BY UpView, SameSettle DEF Ack, Recoverable!Ack
  <1> QED BY <1>1, UpView DEF Recoverable!Command, Recoverable!Next, Ack

\* publish is that of the in-memory broker.
LEMMA PublishRefines ==
  ASSUME NEW t \in Topics, NEW m \in Messages, PublishNew(t, m)
  PROVE  Recoverable!Command
  <1>1. Recoverable!Publish(t, m)
    BY UpView, SamePublish DEF PublishNew, Recoverable!Publish
  <1>2. m \in Recoverable!Messages
    BY SamePublish
  <1> QED BY <1>1, <1>2, UpView DEF Recoverable!Command, Recoverable!Next, PublishNew

\* consume is that of the in-memory broker.
LEMMA ConsumeRefines ==
  ASSUME NEW g \in Groups, NEW c \in Consumers, NEW t \in Topics, NEW max \in 0 .. MaxBatch,
         NEW now \in Times, NEW lease \in Leases, Consume(g, c, t, max, now, lease)
  PROVE  Recoverable!Command
  <1> DEFINE len      == [p \in Partitions |-> Len(logs[t][p])]
             slots    == Selected(ds, g, t, len, max)
             attempts == [x \in slots |-> NextAttemptNumber(ds, x)]
  <1>1. /\ status = "up" /\ status' = "up" /\ t \in topics /\ slots # {} /\ ~Overflows(now, lease)
        /\ ds' = ApplyConsumed(ds, attempts, c, now + lease)
        /\ issued' = issued \cup { DeliveryId(x, attempts[x]) : x \in slots }
        /\ UNCHANGED <<topics, nextRR, index, logs>>
    BY DEF Consume
  <1>2. /\ Recovered.topics = topics /\ Recovered.nextRR = nextRR
        /\ Recovered.index = index /\ Recovered.ds = ds /\ Recovered.alive = TRUE
        /\ (Recovered.topics)' = topics' /\ (Recovered.nextRR)' = nextRR'
        /\ (Recovered.index)' = index' /\ (Recovered.ds)' = ds' /\ (Recovered.alive)' = TRUE
    BY <1>1, UpView
  <1>3. Recoverable!LogLengths(t) = len
    BY SameMaps DEF Recoverable!LogLengths
  <1> HIDE DEF len
  <1>4. Recoverable!Selected(ds, g, t, len, max) = slots
    BY SameConsume
  <1> HIDE DEF slots
  <1>5. [x \in slots |-> Recoverable!NextAttemptNumber(ds, x)] = attempts
    BY SameConsume
  <1> HIDE DEF attempts
  <1>6. { Recoverable!DeliveryId(x, attempts[x]) : x \in slots }
          = { DeliveryId(x, attempts[x]) : x \in slots }
    BY SameConsume
  <1>7. /\ ~Recoverable!Overflows(now, lease)
        /\ ds' = Recoverable!ApplyConsumed(ds, attempts, c, now + lease)
    BY <1>1, SameConsume
  <1>8. Recoverable!Consume(g, c, t, max, now, lease)
    BY <1>1, <1>2, <1>3, <1>4, <1>5, <1>6, <1>7 DEF Recoverable!Consume
  <1> QED BY <1>2, <1>8 DEF Recoverable!Command, Recoverable!Next

\* The time of a retry does not matter where nothing is retried.
LEMMA NothingRetried ==
  ASSUME NEW s, NEW dead, NEW reason, NEW a, NEW b
  PROVE  ApplyOutcomes(s, {}, a, dead, reason) = ApplyOutcomes(s, {}, b, dead, reason)
  <1>1. [x \in { s.pending[id].slot : id \in {} } |-> a] = [x \in { s.pending[id].slot : id \in {} } |-> b]
    OBVIOUS
  <1> QED BY <1>1 DEF ApplyOutcomes

\* nack is that of the in-memory broker; it refuses what would overflow there.
LEMMA NackRefines ==
  ASSUME NEW id \in DOMAIN ds.pending, NEW c \in Consumers, NEW now \in Times, Nack(id, c, now)
  PROVE  Recoverable!Command
  <1> DEFINE o == Outcomes(ds, {id}, now, "manual")
  <1>1. /\ status = "up" /\ status' = "up" /\ PendingForCommand(ds, id, c)
        /\ IsRetryable(ds, id) => ~Overflows(now, Backoff)
        /\ ds' = ApplyOutcomeSet(ds, o)
        /\ UNCHANGED <<topics, nextRR, index, logs, issued>>
    BY DEF Nack
  <1>2. /\ o.retry = (IF IsRetryable(ds, id) THEN {id} ELSE {})
        /\ o.dead = (IF IsRetryable(ds, id) THEN {} ELSE {id})
        /\ o.readyAt = now + Backoff /\ o.reason = "manual"
    BY DEF Outcomes
  <1> HIDE DEF o
  <1>3. ds' = IF ~IsRetryable(ds, id) THEN ApplyOutcomes(ds, {}, now, {id}, "manual")
              ELSE ApplyOutcomes(ds, {id}, now + Backoff, {}, "manual")
    BY <1>1, <1>2, NothingRetried DEF ApplyOutcomeSet
  <1>4. Recoverable!Nack(id, c, now)
    BY <1>1, <1>3, UpView, SameSettle, SameConsume DEF Recoverable!Nack
  <1> QED BY <1>1, <1>4, UpView DEF Recoverable!Command, Recoverable!Next

\* retry_ready is that of the in-memory broker, though it computes what becomes
\* available before it schedules what has expired.
LEMMA RetryReadyRefines ==
  ASSUME IInv, NEW now \in Times, RetryReady(now)
  PROVE  Recoverable!Command
  <1> DEFINE e       == RetryMaintenanceApplied(ds, now)
             expired == ExpiredPending(ds, now)
             retry   == { id \in expired : IsRetryable(ds, id) }
             dead    == expired \ retry
             swept   == ApplyOutcomes(ds, retry, now + Backoff, dead, "expired")
  <1>1. /\ status = "up" /\ status' = "up"
        /\ e.outcomes.retry # {} => ~Overflows(now, Backoff)
        /\ ds' = ApplyMaintenance(ds, e)
        /\ UNCHANGED <<topics, nextRR, index, logs, issued>>
    BY DEF RetryReady
  <1>2. e.outcomes = Outcomes(ds, expired, now, "expired")
    BY DEF RetryMaintenanceApplied
  <1>3. e.outcomes.retry = retry /\ ApplyOutcomeSet(ds, e.outcomes) = swept
    BY <1>2 DEF Outcomes, ApplyOutcomeSet
  <1>4. ReadyRetryEntries(swept, now) = e.ready \cup e.expiredReady
    <2>1. DeliveryInv(ds)
      BY <1>1, UpFacts
    <2> QED BY <1>3, <2>1, MaintenanceDue
  <1>5. ds' = MarkRetryAvailable(swept, ReadyRetryEntries(swept, now))
    BY <1>1, <1>3, <1>4 DEF ApplyMaintenance
  <1>6. Recoverable!ExpiredPending(ds, now) = expired
        /\ \A id : Recoverable!IsRetryable(ds, id) = IsRetryable(ds, id)
    BY SameSettle
  <1> HIDE DEF e, expired
  <1>7. { id \in expired : Recoverable!IsRetryable(ds, id) } = retry
    BY <1>6
  <1> HIDE DEF retry
  <1>8. Recoverable!ApplyOutcomes(ds, retry, now + Backoff, dead, "expired") = swept
    BY SameSettle
  <1> HIDE DEF dead, swept
  <1>9. /\ ds' = Recoverable!MarkRetryAvailable(swept, Recoverable!ReadyRetryEntries(swept, now))
        /\ retry = {} \/ ~Recoverable!Overflows(now, Backoff)
    BY <1>1, <1>3, <1>5, SameSettle, SameConsume
  <1>10. Recoverable!RetryReady(now)
    BY <1>1, <1>6, <1>7, <1>8, <1>9, UpView DEF Recoverable!RetryReady, dead
  <1> QED BY <1>1, <1>10, UpView DEF Recoverable!Command, Recoverable!Next

\* A crash either loses who held what, or everything.
LEMMA CrashRefines ==
  ASSUME IInv, PInv, Crash
  PROVE  Recoverable!Release \/ Recoverable!Perish
  <1> DEFINE r == Replay(logs, stateLog)
  <1>1. /\ status = "up" /\ status' = "down" /\ UNCHANGED <<logs, stateLog, issued>>
    BY DEF Crash
  <1>2. /\ Recovered.topics = topics /\ Recovered.nextRR = nextRR
        /\ Recovered.index = index /\ Recovered.ds = ds /\ Recovered.alive = TRUE
    BY <1>1 DEF Recovered
  <1>3. CASE r = Corrupt
    <2>1. /\ (Recovered.topics)' = {} /\ (Recovered.nextRR)' = [t \in Topics |-> 0]
          /\ (Recovered.index)' = EmptyMap /\ (Recovered.ds)' = EmptyState
          /\ (Recovered.alive)' = FALSE
      BY <1>1, <1>3 DEF Recovered
    <2> QED BY <1>1, <2>1, SameMaps, SameConsume DEF Recoverable!Perish
  <1>4. CASE r # Corrupt
    <2>1. topics = r.topics /\ Agrees(ds, r.ds) /\ DeliveryInv(ds) /\ WellFormed(logs, stateLog)
      BY <1>1, <1>4, UpFacts DEF IInv, InStep
    <2>2. DeliveryInv(r.ds)
      BY <1>4, <2>1, ReplayFacts DEF RecoveredOK
    <2>3. nextRR = RecoveredRR(logs, r.topics) /\ index = RecoveredIndex(logs, r.topics)
      BY <1>1, <2>1 DEF PInv
    <2>4. /\ (Recovered.topics)' = r.topics /\ (Recovered.nextRR)' = RecoveredRR(logs, r.topics)
          /\ (Recovered.index)' = RecoveredIndex(logs, r.topics)
          /\ (Recovered.ds)' = ReleasePending(r.ds) /\ (Recovered.alive)' = TRUE
      BY <1>1, <1>4 DEF Recovered
    <2> HIDE DEF r
    <2>5. ReleasePending(r.ds) = ReleasePending(ds)
      BY <2>1, <2>2, AgreesReleased
    <2> QED BY <1>1, <1>2, <2>1, <2>3, <2>4, <2>5, SameSettle DEF Recoverable!Release
  <1> QED BY <1>3, <1>4

\* An open, whether it succeeds or fails, changes nothing that callers can see.
LEMMA OpenRefines ==
  ASSUME Open
  PROVE  UNCHANGED Recoverable!recoverableVars
  <1> DEFINE r == Replay(logs, stateLog)
  <1>1. status # "up" /\ UNCHANGED <<logs, stateLog, issued>>
    BY DEF Open
  <1>2. CASE status' = "failed"
    <2>1. Recovered' = Recovered
      BY <1>1, <1>2 DEF Recovered
    <2> QED BY <1>1, <2>1 DEF Recoverable!recoverableVars, Recoverable!vars
  <1>3. CASE /\ r # Corrupt /\ status' = "up" /\ topics' = r.topics /\ ds' = ReleasePending(r.ds)
             /\ nextRR' = RecoveredRR(logs, r.topics)
             /\ index' = RecoveredIndex(logs, r.topics)
    <2>1. Recovered' = Recovered
      BY <1>1, <1>3 DEF Recovered
    <2> QED BY <1>1, <2>1 DEF Recoverable!recoverableVars, Recoverable!vars
  <1> QED BY <1>2, <1>3 DEF Open

\* Every step of the durable broker is a step of RecoverableBroker or none.
LEMMA StepRefines ==
  ASSUME ~PowerFailures, IInv, PInv, [Next]_vars
  PROVE  [Recoverable!RecoverableNext]_Recoverable!recoverableVars
  <1> DEFINE Refined == [Recoverable!RecoverableNext]_Recoverable!recoverableVars
  <1>1. ASSUME Recoverable!Command PROVE Refined
    BY <1>1 DEF Recoverable!RecoverableNext
  <1>2. ASSUME UNCHANGED <<memory, logs, stateLog, issued>> PROVE Refined
    <2>1. Recovered' = Recovered
      BY <1>2 DEF memory, Recovered
    <2> QED BY <1>2, <2>1 DEF Recoverable!recoverableVars, Recoverable!vars
  <1>3. ASSUME Crash PROVE Refined
    BY <1>3, CrashRefines DEF Recoverable!RecoverableNext
  <1>4. ASSUME Open PROVE Refined
    BY <1>4, OpenRefines
  <1>5. ASSUME \/ \E t \in Topics, m \in Messages : PublishReplay(t, m)
               \/ StateAppendFails \/ UNCHANGED vars
        PROVE  Refined
    BY <1>2, <1>5 DEF PublishReplay, StateAppendFails, vars, disk
  <1>6. ~PowerLoss
    BY DEF PowerLoss
  <1> HIDE DEF Refined
  <1>7. ASSUME Next PROVE Refined
    BY <1>1, <1>3, <1>4, <1>5, <1>6, <1>7, CreateTopicRefines, PublishRefines, ConsumeRefines,
       AckRefines, NackRefines, RetryReadyRefines DEF Next
  <1> QED BY <1>5, <1>7 DEF Refined

\* A new durable broker is a new RecoverableBroker.
LEMMA InitRefines == Init => Recoverable!RecoverableInit
  <1> SUFFICES ASSUME Init PROVE Recoverable!RecoverableInit
    OBVIOUS
  <1>1. /\ Recovered.topics = {} /\ Recovered.nextRR = [t \in Topics |-> 0]
        /\ Recovered.index = EmptyMap /\ Recovered.ds = EmptyState /\ Recovered.alive = TRUE
    BY DEF Init, Recovered
  <1> QED BY <1>1, SameMaps, SameConsume, SamePublish
      DEF Init, Recoverable!RecoverableInit, Recoverable!Init

\* The durable broker implements RecoverableBroker: the in-memory broker whose
\* restarts lose nothing but who held what, or the whole broker.
THEOREM RefinementTheorem ==
  ASSUME ~PowerFailures
  PROVE  Spec => ImplementsRecoverableBroker
  <1>1. IInv /\ PInv /\ [Next]_vars => [Recoverable!RecoverableNext]_Recoverable!recoverableVars
    BY StepRefines
  <1>2. Spec => Recoverable!RecoverableSpec
    BY <1>1, InitRefines, PublishInvariance, PTL DEF Spec, Recoverable!RecoverableSpec
  <1> QED BY <1>2 DEF ImplementsRecoverableBroker

=============================================================================
