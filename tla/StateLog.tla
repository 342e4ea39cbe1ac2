------------------------------ MODULE StateLog -------------------------------
(***************************************************************************)
(* The events of broker-state/events.jsonl (BrokerStateEvent in            *)
(* msg-broker/src/durable.rs), what each does to a delivery state, live    *)
(* and in replay, and the replay of a whole state log. Stateless, like     *)
(* DeliveryState: the message logs beside which a state log is replayed    *)
(* are the parameter L.                                                    *)
(***************************************************************************)
EXTENDS DeliveryState, Sequences

-----------------------------------------------------------------------------
(* Events.                                                                 *)

\* A line that serde_json rejects: bytes of a failed append and, after them,
\* those of the next event.
Garbled == [type |-> "garbled"]

\* What the acknowledged, NACKed or expired deliveries ids look like in an event.
Claims(s, ids) == [id \in ids |-> [slot     |-> s.pending[id].slot,
                                   consumer |-> s.pending[id].consumer,
                                   attempt  |-> s.pending[id].attempt]]

TopicCreated(t) == [type |-> "topic_created", topic |-> t]

MessagesConsumed(attempts, c, leaseExpiresAt) ==
  [type |-> "messages_consumed", attempts |-> attempts, consumer |-> c,
   leaseExpiresAt |-> leaseExpiresAt]

\* The delivery ids the consumer of an event was given.
IssuedBy(e) ==
  IF e.type = "messages_consumed"
  THEN { DeliveryId(x, e.attempts[x]) : x \in DOMAIN e.attempts } ELSE {}

MessageAcked(s, id) == [type |-> "message_acked", claims |-> Claims(s, {id})]

\* compute_pending_outcome for all of ids at time now: the ones with an attempt
\* left are scheduled for now + Backoff, the others dead-lettered.
Outcomes(s, ids, now, reason) ==
  LET retry == { id \in ids : IsRetryable(s, id) }
  IN  [retry |-> retry, readyAt |-> now + Backoff, dead |-> ids \ retry, reason |-> reason]

\* Mutant: the event leaves out the backoff.
MessageNackedNoBackoff(s, id, now) ==
  [type |-> "message_nacked", claims |-> Claims(s, {id}),
   outcomes |-> [Outcomes(s, {id}, now, "manual") EXCEPT !.readyAt = now]]

MessageNacked(s, id, now) ==
  [type |-> "message_nacked", claims |-> Claims(s, {id}),
   outcomes |-> Outcomes(s, {id}, now, "manual")]

\* Mutant: expired deliveries are made available before their backoff is over.
RetryMaintenanceEarly(s, now) ==
  LET expired  == ExpiredPending(s, now)
      outcomes == Outcomes(s, expired, now, "expired")
  IN  [type |-> "retry_maintenance_applied", timestamp |-> now,
       claims |-> Claims(s, expired), outcomes |-> outcomes,
       ready |-> ReadyRetryEntries(s, now),
       expiredReady |-> { s.pending[id].slot : id \in outcomes.retry }]

\* Mutant: the ready entries are read after the expired ones were scheduled, and
\* list those a second time.
RetryMaintenanceSwept(s, now) ==
  LET expired  == ExpiredPending(s, now)
      outcomes == Outcomes(s, expired, now, "expired")
      swept    == ApplyOutcomes(s, outcomes.retry, outcomes.readyAt, outcomes.dead, "expired")
  IN  [type |-> "retry_maintenance_applied", timestamp |-> now,
       claims |-> Claims(s, expired), outcomes |-> outcomes,
       ready |-> ReadyRetryEntries(swept, now),
       expiredReady |-> IF outcomes.readyAt <= now
                        THEN { s.pending[id].slot : id \in outcomes.retry } ELSE {}]

\* made_available is the list ready followed by the list expiredReady.
RetryMaintenanceApplied(s, now) ==
  LET expired  == ExpiredPending(s, now)
      outcomes == Outcomes(s, expired, now, "expired")
  IN  [type |-> "retry_maintenance_applied", timestamp |-> now,
       claims |-> Claims(s, expired), outcomes |-> outcomes,
       ready |-> ReadyRetryEntries(s, now),
       expiredReady |-> IF outcomes.readyAt <= now
                        THEN { s.pending[id].slot : id \in outcomes.retry } ELSE {}]

-----------------------------------------------------------------------------
(* Applying events to a delivery state, live and in replay.                *)

ApplyOutcomeSet(s, o) == ApplyOutcomes(s, o.retry, o.readyAt, o.dead, o.reason)

\* apply_retry_available accepts every element of made_available: each is
\* scheduled when its turn comes, and is due.
AvailabilityAccepted(s, e) ==
  /\ e.ready \cup e.expiredReady \subseteq ReadyRetryEntries(s, e.timestamp)
  /\ e.ready \cap e.expiredReady = {}

ApplyMaintenance(s, e) ==
  MarkRetryAvailable(ApplyOutcomeSet(s, e.outcomes), e.ready \cup e.expiredReady)

\* pending_for_replay: the delivery is pending, with the same consumer, slot
\* and attempt.
ClaimsAccepted(s, e) ==
  \A id \in DOMAIN e.claims :
    id \in DOMAIN s.pending /\ e.claims[id] = Claims(s, {id})[id]

\* Mutant: the topic is looked up and the offset is not.
MessageExistsInTopic(L, T, x) == x.topic \in T

\* ensure_message_exists
MessageExists(L, T, x) == x.topic \in T /\ x.offset < Len(L[x.topic][x.partition])

\* replay_consumed_delivery, for every delivery of the event
ConsumeAccepted(L, r, e) ==
  \A x \in DOMAIN e.attempts :
    /\ MessageExists(L, r.topics, x)
    /\ DeliveryId(x, e.attempts[x]) \notin DOMAIN r.ds.pending
    /\ IsAvailable(r.ds, x)

Corrupt == [type |-> "corrupt"]

\* apply_recovered_event, on a broker r under recovery.
ApplyRecoveredEvent(L, r, e) ==
  LET If(ok, s) == IF ok THEN [r EXCEPT !.ds = s] ELSE Corrupt
  IN  IF r = Corrupt \/ e = Garbled THEN Corrupt
      ELSE CASE e.type = "topic_created" ->
                  IF e.topic \in r.topics THEN Corrupt
                  ELSE [r EXCEPT !.topics = @ \cup {e.topic}]
             [] e.type = "messages_consumed" ->
                  If(ConsumeAccepted(L, r, e),
                     ApplyConsumed(r.ds, e.attempts, e.consumer, e.leaseExpiresAt))
             [] e.type = "message_acked" ->
                  If(ClaimsAccepted(r.ds, e), ApplyAck(r.ds, CHOOSE id \in DOMAIN e.claims : TRUE))
             [] e.type = "message_nacked" ->
                  If(ClaimsAccepted(r.ds, e), ApplyOutcomeSet(r.ds, e.outcomes))
             [] e.type = "retry_maintenance_applied" ->
                  If(/\ ClaimsAccepted(r.ds, e)
                     /\ AvailabilityAccepted(ApplyOutcomeSet(r.ds, e.outcomes), e),
                     ApplyMaintenance(r.ds, e))

\* What the complete lines of the state log amount to, beside the message logs
\* L. (Ranging over singletons makes TLC evaluate each prefix once.)
Replay(L, lines) ==
  LET after[n \in 0 .. Len(lines)] ==
        IF n = 0 THEN [type |-> "recovered", topics |-> {}, ds |-> EmptyState]
        ELSE CHOOSE r \in { ApplyRecoveredEvent(L, q, lines[n]) : q \in {after[n - 1]} } : TRUE
  IN  after[Len(lines)]

=============================================================================
