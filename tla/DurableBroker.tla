---------------------------- MODULE DurableBroker ----------------------------
(***************************************************************************)
(* The durable broker of msg-broker/src/durable.rs: the in-memory state,   *)
(* the append-only state log broker-state/events.jsonl it is rebuilt from, *)
(* and the message logs (abstracted here to the sequence of records that   *)
(* msg-storage promises; PartitionLog models that promise).                *)
(*                                                                         *)
(* A command computes its event from memory, appends the event, then       *)
(* applies it to memory. The callers hold a mutex around it, so commands   *)
(* do not interleave; the process may crash between and inside them. A     *)
(* crash between the append and the end of the command is the command      *)
(* followed by Crash: memory is lost either way. A command that returns an *)
(* error and changes nothing is a stuttering step.                         *)
(***************************************************************************)
EXTENDS StateLog, PublishState

CONSTANTS
  Times,         \* timestamps the commands carry, in any order
  Leases,        \* lease lengths: the configured one and per-command overrides
  MaxBatch,      \* largest ConsumeCommand::max_messages
  MaxLogLen,     \* bound: messages per partition
  MaxEvents,     \* bound: lines of the state log
  AppendErrors,  \* may an append to the state log fail with the process alive?
  Crashes,       \* may the process crash?
  PowerFailures  \* may the machine lose what was written and not synced?

ASSUME CommandAssumption ==
  /\ Times \subseteq Timestamps
  /\ Leases \subseteq Nat \ {0}
  /\ MaxBatch \in Nat
  /\ MaxLogLen \in Nat /\ MaxEvents \in Nat
  /\ {AppendErrors, Crashes, PowerFailures} \subseteq BOOLEAN

VARIABLES
  status,    \* "up", "down", or "failed" when DurableBroker::open returned an error
  topics,    \* memory: the topics
  nextRR,    \* memory: topic -> next_round_robin_partition
  index,     \* memory: idempotency_index
  ds,        \* memory: DurableDeliveryState
  logs,      \* disk: topic -> partition -> message records
  stateLog,  \* disk: the complete lines of events.jsonl
  torn,      \* disk: bytes after the last newline of events.jsonl?
  issued,    \* history: every delivery id a consume returned
  settled,   \* history: every message reported settled, and how
  replies    \* history: the identities publish returned for an idempotency key

memory == <<status, topics, nextRR, index, ds>>
disk == <<logs, stateLog, torn>>
vars == <<memory, disk, issued, settled, replies>>

-----------------------------------------------------------------------------
(* The state log.                                                          *)

\* StateLog::append succeeds: the event and its newline are at the end of the
\* file, behind whatever an earlier failed append left there.
AppendEvent(e) ==
  /\ Len(stateLog) < MaxEvents
  /\ stateLog' = Append(stateLog, IF torn THEN Garbled ELSE e)
  /\ torn' = FALSE

\* Would a reopen accept the state log?
Replayable == Replay(logs, stateLog) # Corrupt

-----------------------------------------------------------------------------
(* Commands.                                                               *)

Init ==
  /\ status = "up"
  /\ topics = {}
  /\ nextRR = [t \in Topics |-> 0]
  /\ index = EmptyMap
  /\ ds = EmptyState
  /\ logs = EmptyLogs
  /\ stateLog = << >>
  /\ torn = FALSE
  /\ issued = {}
  /\ settled = {}
  /\ replies = {}

CreateTopic(t) ==
  /\ status = "up"
  /\ t \notin topics
  /\ AppendEvent(TopicCreated(t))
  /\ topics' = topics \cup {t}
  /\ UNCHANGED <<status, nextRR, index, ds, logs, issued, settled, replies>>

\* The answer to a publish with an idempotency key.
Reply(t, m, p, o, id) ==
  IF m.idempotencyKey = NoKey THEN {}
  ELSE {[topic |-> t, key |-> m.idempotencyKey, fingerprint |-> Fingerprint(t, m),
         partition |-> p, offset |-> o, id |-> id]}

\* A failed append to the message log is rolled back there and leaves nothing.
PublishNew(t, m) ==
  LET p == SelectPartition(m, nextRR[t])
      o == Len(logs[t][p])
  IN  /\ status = "up"
      /\ t \in topics
      /\ CheckIdempotency(t, m, index) \in {"untracked", "new"}
      /\ o < MaxLogLen
      /\ logs' = AppendMessage(logs, t, p, m)
      /\ nextRR' = [nextRR EXCEPT ![t] = AdvanceRoundRobin(m, @)]
      /\ index' = RecordPublish(index, t, m, p, o)
      /\ replies' = replies \cup Reply(t, m, p, o, m.id)
      /\ UNCHANGED <<status, topics, ds, stateLog, torn, issued, settled>>

PublishReplay(t, m) ==
  LET r == index[<<t, m.idempotencyKey>>]
  IN  /\ status = "up"
      /\ t \in topics
      /\ CheckIdempotency(t, m, index) = "replay"
      /\ replies' = replies \cup Reply(t, m, r.partition, r.offset, r.id)
      /\ UNCHANGED <<memory, disk, issued, settled>>

Consume(g, c, t, max, now, lease) ==
  LET slots    == Selected(ds, g, t, [p \in Partitions |-> Len(logs[t][p])], max)
      attempts == [x \in slots |-> NextAttemptNumber(ds, x)]
  IN  /\ status = "up"
      /\ t \in topics
      /\ slots # {}
      /\ ~Overflows(now, lease)
      /\ AppendEvent(MessagesConsumed(attempts, c, now + lease))
      /\ ds' = ApplyConsumed(ds, attempts, c, now + lease)
      /\ issued' = issued \cup { DeliveryId(x, attempts[x]) : x \in slots }
      /\ UNCHANGED <<status, topics, nextRR, index, logs, settled, replies>>

\* The messages a delivery state has settled.
Settled(s) == { <<x, "acked">> : x \in s.acked } \cup { <<x, "dead">> : x \in s.deadLettered }

\* Mutant: the acknowledgement is applied to memory and never logged.
AckUnlogged(id, c) ==
  /\ status = "up"
  /\ PendingForCommand(ds, id, c)
  /\ ds' = ApplyAck(ds, id)
  /\ settled' = settled \cup Settled(ds')
  /\ UNCHANGED <<status, topics, nextRR, index, logs, stateLog, torn, issued, replies>>

Ack(id, c) ==
  /\ status = "up"
  /\ PendingForCommand(ds, id, c)
  /\ AppendEvent(MessageAcked(ds, id))
  /\ ds' = ApplyAck(ds, id)
  /\ settled' = settled \cup Settled(ds')
  /\ UNCHANGED <<status, topics, nextRR, index, logs, issued, replies>>

\* The outcome is computed, and may overflow, before anything changes.
Nack(id, c, now) ==
  /\ status = "up"
  /\ PendingForCommand(ds, id, c)
  /\ IsRetryable(ds, id) => ~Overflows(now, Backoff)
  /\ AppendEvent(MessageNacked(ds, id, now))
  /\ ds' = ApplyOutcomeSet(ds, Outcomes(ds, {id}, now, "manual"))
  /\ settled' = settled \cup Settled(ds')
  /\ UNCHANGED <<status, topics, nextRR, index, logs, issued, replies>>

\* An event is appended even when there is nothing to do.
RetryReady(now) ==
  LET e == RetryMaintenanceApplied(ds, now)
  IN  /\ status = "up"
      /\ e.outcomes.retry # {} => ~Overflows(now, Backoff)
      /\ AppendEvent(e)
      /\ ds' = ApplyMaintenance(ds, e)
      /\ settled' = settled \cup Settled(ds')
      /\ UNCHANGED <<status, topics, nextRR, index, logs, issued, replies>>

-----------------------------------------------------------------------------
(* Failures and recovery.                                                  *)

\* write_all fails part-way through an event. The command returns the error
\* before it touches memory; what was written stays in the file.
StateAppendFails ==
  /\ AppendErrors
  /\ status = "up"
  /\ torn' = TRUE
  /\ UNCHANGED <<memory, logs, stateLog, issued, settled, replies>>

\* The process dies, possibly inside an append to the state log.
Crash ==
  /\ Crashes
  /\ status = "up"
  /\ status' = "down"
  /\ topics' = {}
  /\ nextRR' = [t \in Topics |-> 0]
  /\ index' = EmptyMap
  /\ ds' = EmptyState
  /\ torn' \in {torn, TRUE}
  /\ UNCHANGED <<logs, stateLog, issued, settled, replies>>

\* The power fails. write_all and flush hand the bytes of both logs to the
\* operating system and nothing syncs them: each file keeps a prefix of its own.
\* (A failure while the process is down is one just before it went down.)
\* The history keeps what the surviving files say.
PowerLoss ==
  /\ PowerFailures
  /\ status = "up"
  /\ \E n \in 0 .. Len(stateLog) : stateLog' = SubSeq(stateLog, 1, n)
  /\ \E kept \in [Topics -> [Partitions -> 0 .. MaxLogLen]] :
       /\ \A t \in Topics, p \in Partitions : kept[t][p] <= Len(logs[t][p])
       /\ logs' = [t \in Topics |-> [p \in Partitions |-> SubSeq(logs[t][p], 1, kept[t][p])]]
  /\ torn' \in BOOLEAN
  /\ status' = "down"
  /\ topics' = {}
  /\ nextRR' = [t \in Topics |-> 0]
  /\ index' = EmptyMap
  /\ ds' = EmptyState
  /\ issued' = UNION { IssuedBy(stateLog'[i]) : i \in DOMAIN stateLog' }
  /\ settled' = IF Replayable' THEN Settled(Replay(logs, stateLog).ds)' ELSE {}
  /\ replies' = { r \in replies : r.offset < Len(logs'[r.topic][r.partition]) }

\* DurableBroker::open. The incomplete last line is truncated first; then the
\* log is replayed and the message logs are scanned.
Open ==
  LET r == Replay(logs, stateLog)
  IN  /\ status # "up"
      /\ torn' = FALSE
      /\ \/ /\ r = Corrupt \/ (r # Corrupt /\ ConflictingKeys(logs, r.topics))
            /\ status' = "failed"
            /\ UNCHANGED <<topics, nextRR, index, ds>>
         \/ /\ r # Corrupt
            /\ ~ConflictingKeys(logs, r.topics)
            /\ status' = "up"
            /\ topics' = r.topics
            /\ ds' = ReleasePending(r.ds)
            /\ nextRR' = RecoveredRR(logs, r.topics)
            /\ index' = RecoveredIndex(logs, r.topics)
      /\ UNCHANGED <<logs, stateLog, issued, settled, replies>>

Next ==
  \/ \E t \in Topics : CreateTopic(t)
  \/ \E t \in Topics, m \in Messages : PublishNew(t, m)
  \/ \E t \in Topics, m \in Messages : PublishReplay(t, m)
  \/ \E g \in Groups, c \in Consumers, t \in Topics, max \in 0 .. MaxBatch,
        now \in Times, lease \in Leases : Consume(g, c, t, max, now, lease)
  \/ \E id \in DOMAIN ds.pending, c \in Consumers : Ack(id, c)
  \/ \E id \in DOMAIN ds.pending, c \in Consumers, now \in Times : Nack(id, c, now)
  \/ \E now \in Times : RetryReady(now)
  \/ StateAppendFails
  \/ Crash
  \/ PowerLoss
  \/ Open

Spec == Init /\ [][Next]_vars

-----------------------------------------------------------------------------
(* Properties.                                                             *)

\* The types of the fields of DurableBroker and of its files: in particular no
\* scheduled time overflows, neither live nor when it is replayed.
TypeOK ==
  /\ status \in {"up", "down", "failed"}
  /\ topics \subseteq Topics
  /\ nextRR \in [Topics -> Partitions]
  /\ DOMAIN index \subseteq Topics \X IdempotencyKeys
  /\ DeliveryTypeOK(ds)
  /\ logs \in [Topics -> [Partitions -> Seq(Messages)]]
  /\ Len(stateLog) <= MaxEvents
  /\ torn \in BOOLEAN
  /\ issued \subseteq DeliveryIds

\* The delivery state is consistent at every moment, across crashes: a message
\* is held back for one reason, the two pending maps and the attempt counts
\* agree, and the DLQ lists each dead-lettered offset once (state.rs, the
\* apply_* methods of durable.rs).
DeliveryStateConsistent ==
  /\ OnePlace(ds)
  /\ PendingMapsAgree(ds)
  /\ AttemptsTracked(ds)
  /\ DeadLettersOnce(ds)
  /\ CursorContiguous(ds)

\* The event retry_ready computes is one its own apply step, and every later
\* replay, accepts: otherwise the event would be in the log for good when
\* apply_retry_available rejects it.
MaintenanceAccepted ==
  \A now \in Times :
    LET e == RetryMaintenanceApplied(ds, now)
    IN  AvailabilityAccepted(ApplyOutcomeSet(ds, e.outcomes), e)

\* The log and memory tell the same story: as long as the log can be replayed,
\* a crash at this very moment followed by a reopen yields the topics, the
\* acknowledged and dead-lettered messages, the scheduled retries, the attempt
\* counts and the cursors of the running broker, in-flight deliveries released.
RecoveryAgrees ==
  LET r == Replay(logs, stateLog)
  IN  status = "up" /\ r # Corrupt =>
        r.topics = topics /\ ReleasePending(r.ds) = ReleasePending(ds)

\* Recovery finds the round-robin counter and the idempotency index that the
\* running broker had.
PublishStateRecovered ==
  status = "up" =>
    /\ nextRR = RecoveredRR(logs, topics)
    /\ index = RecoveredIndex(logs, topics)
    /\ ~ConflictingKeys(logs, topics)

\* A message reported acknowledged or dead-lettered is that in every later life
\* of the broker, and nothing else is.
SettledSurvives == status = "up" => settled = Settled(ds)

\* No delivery id is handed out twice, not even by a broker that crashed with
\* the delivery in flight: a late ACK never settles a later attempt.
DeliveryIdsNeverReused ==
  [][(DOMAIN ds'.pending \ DOMAIN ds.pending) \cap issued = {}]_vars

\* A publish with an idempotency key is applied once, whatever crashes come
\* between its retries: all its answers name the same record, and it is there.
PublishedOnce ==
  \A r \in replies :
    /\ r.offset < Len(logs[r.topic][r.partition])
    /\ LET m == logs[r.topic][r.partition][r.offset + 1]
       IN  m.idempotencyKey = r.key /\ m.id = r.id /\ Fingerprint(r.topic, m) = r.fingerprint
    /\ KeyPositions(logs, r.topic, r.key) = {<<r.partition, r.offset + 1>>}

\* The state log stops being replayable in two ways only: an append completes
\* the line that a failed append began, or a consume delivers a message again
\* whose earlier delivery a reopen released without logging the release.
LogPoisonedOnlyByKnownCauses ==
  [][LET r        == Replay(logs, stateLog)
         released == DOMAIN r.ds.pendingByOffset \ DOMAIN ds.pendingByOffset
     IN  stateLog' # stateLog /\ ~Replayable' /\ r # Corrupt =>
           \/ torn /\ ~torn'
           \/ DOMAIN ds'.pendingByOffset \cap released # {}]_vars

\* A delivery that a restart released counts as an attempt, though no retry was
\* scheduled for it: a message may be delivered once more than the policy allows,
\* and never twice more (release_recovered_pending and compute_pending_outcome).
AttemptsExceededOnce == \A id \in issued : id.attempt <= MaxAttempts + 1

\* Whatever prefixes of the two logs a power failure leaves, an open broker
\* tracks only messages that exist: a message published to an offset that was
\* used before the failure does not start out acknowledged, dead-lettered,
\* waiting or in flight.
TrackedMessagesExist ==
  status = "up" =>
    \A x \in Tracked(ds) : x.topic \in topics /\ x.offset < Len(logs[x.topic][x.partition])

\* What the callers of the durable broker see: its memory while it is up, and
\* what the next open will recover while it is not.
Recovered ==
  IF status = "up"
  THEN [topics |-> topics, nextRR |-> nextRR, index |-> index, ds |-> ds, alive |-> TRUE]
  ELSE LET r == Replay(logs, stateLog)
       IN  IF r = Corrupt
           THEN [topics |-> {}, nextRR |-> [t \in Topics |-> 0], index |-> EmptyMap,
                 ds |-> EmptyState, alive |-> FALSE]
           ELSE [topics |-> r.topics, nextRR |-> RecoveredRR(logs, r.topics),
                 index |-> RecoveredIndex(logs, r.topics), ds |-> ReleasePending(r.ds),
                 alive |-> TRUE]

\* Commands and crashes of the durable broker are those of RecoverableBroker: a
\* crash at any moment either loses nothing but who held what, or makes every
\* later open fail.
Recoverable ==
  INSTANCE RecoverableBroker WITH topics <- Recovered.topics, nextRR <- Recovered.nextRR,
    index <- Recovered.index, ds <- Recovered.ds, alive <- Recovered.alive
ImplementsRecoverableBroker == Recoverable!RecoverableSpec

\* DurableBroker::open never refuses the files the broker itself wrote.
ReopenSucceeds == status # "failed"

=============================================================================
