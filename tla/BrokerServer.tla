----------------------------- MODULE BrokerServer ----------------------------
(***************************************************************************)
(* brokerd as its clients see it: the gRPC data plane (msg-data-plane) and *)
(* the HTTP control API (msg-control-api) over one DurableBroker behind    *)
(* one mutex, and clients that call it over a network, with deadlines.     *)
(*                                                                         *)
(* A handler locks the broker, runs to completion without awaiting, and    *)
(* answers. The durable broker is taken for what it implements,            *)
(* RecoverableBroker: commands on a delivery state, and a restart that     *)
(* releases what was in flight. A restart whose open is refused is left    *)
(* out: it ends the service, and DurableBroker shows when it happens.      *)
(*                                                                         *)
(* A call that is answered before its deadline is one step: until then the *)
(* client does nothing else, and the only thing that grows old is the      *)
(* clock value a consume carries, which MaxLag covers together with client *)
(* clocks that run behind. Client clocks may run ahead as well (LeadOf):   *)
(* consume_inner takes now_unix_ms from the request as it is. After its    *)
(* deadline a client goes on without an answer, and the request is lost or *)
(* still on its way: the server executes it at any later time (late).      *)
(***************************************************************************)
EXTENDS DeliveryState, PublishState

CONSTANTS
  Producers,    \* clients that create topics, publish, and read the DLQ
  MemberOf,     \* consumer -> its consumer group
  LeasesOf,     \* consumer -> the lease lengths it asks for
  LeadOf,       \* consumer -> how far its clock is ahead of the server's
  Diligent,     \* the consumers that keep polling, one per group at least
  MaxBatch,     \* max_messages of every consume
  MaxLag,       \* how old the clock value of a consume may be
  MaxLate,      \* bound: abandoned requests on their way
  FreeTime,     \* bound: time that passes with nothing to wait for
  MaxLogLen,    \* bound: unkeyed messages are published while the log is shorter
  MaxRestarts   \* bound: restarts of brokerd

ASSUME ServerAssumption ==
  /\ MemberOf \in [Consumers -> Groups]
  /\ LeasesOf \in [Consumers -> SUBSET Nat]
  /\ LeadOf \in [Consumers -> Nat]
  /\ Diligent \subseteq Consumers
  /\ {MaxBatch, MaxLag, MaxLate, FreeTime, MaxLogLen, MaxRestarts} \subseteq Nat

VARIABLES
  clock,     \* the server's clock
  latest,    \* history: the latest clock value of a consume executed since the start
  broker,    \* the shared broker: topics, logs, nextRR, index and ds
  up,        \* is brokerd serving?
  restarts,  \* how often it was restarted
  late,      \* <<client, request>> given up by the client, still on their way
  held,      \* consumer -> the deliveries of its last consume that it holds
  told       \* history: what clients were told is so

vars == <<clock, latest, broker, up, restarts, late, held, told>>

Clients == Producers \cup Consumers

Init ==
  /\ clock = 0
  /\ latest = 0
  /\ broker = [topics |-> {}, logs |-> EmptyLogs, nextRR |-> [t \in Topics |-> 0],
               index |-> EmptyMap, ds |-> EmptyState]
  /\ up = TRUE
  /\ restarts = 0
  /\ late = {}
  /\ held = [c \in Consumers |-> {}]
  /\ told = {}

-----------------------------------------------------------------------------
(* Handlers: from the broker and a request to the broker after it, a       *)
(* status code, and what an Ok answer tells the client.                    *)

Answer(b, body) == [broker |-> b, code |-> "ok", body |-> body]

\* status_from_broker and ApiError::from_durable: the code of an error, and the
\* broker as the failed handler leaves it.
Refuse(b, code) == [broker |-> b, code |-> code, body |-> {}]

CreateTopic(b, r) ==
  IF r.topic \in b.topics THEN Refuse(b, "already_exists")
  ELSE Answer([b EXCEPT !.topics = @ \cup {r.topic}], {[what |-> "topic", topic |-> r.topic]})

\* list_dlq_inner with a topic filter
ListDlq(b, r) ==
  IF r.topic \notin b.topics THEN Refuse(b, "not_found")
  ELSE Answer(b, { [what |-> "dead", entry |-> e] :
                     e \in { e \in b.ds.deadLetters : e.slot.topic = r.topic } })

\* The identity publish answers with.
Identity(t, m, p, o, id) ==
  [what |-> "record", topic |-> t, partition |-> p, offset |-> o, id |-> id,
   key |-> m.idempotencyKey, fingerprint |-> Fingerprint(t, m)]

\* Mutant: a repeated key is answered with the identity of the repetition.
PublishInnerEchoes(b, r) ==
  LET t == r.topic
      m == r.msg
      p == SelectPartition(m, b.nextRR[t])
      o == Len(b.logs[t][p])
  IN  CASE t \notin b.topics -> Refuse(b, "not_found")
        [] CheckIdempotency(t, m, b.index) = "conflict" -> Refuse(b, "already_exists")
        [] CheckIdempotency(t, m, b.index) = "replay" ->
             Answer(b, {Identity(t, m, p, o, m.id)})
        [] OTHER ->
             Answer([b EXCEPT !.logs = AppendMessage(@, t, p, m),
                              !.nextRR[t] = AdvanceRoundRobin(m, @),
                              !.index = RecordPublish(@, t, m, p, o)],
                    {Identity(t, m, p, o, m.id)})

PublishInner(b, r) ==
  LET t        == r.topic
      m        == r.msg
      p        == SelectPartition(m, b.nextRR[t])
      o        == Len(b.logs[t][p])
      outcome  == CheckIdempotency(t, m, b.index)
      original == b.index[<<t, m.idempotencyKey>>]
  IN  CASE t \notin b.topics -> Refuse(b, "not_found")
        [] t \in b.topics /\ outcome = "conflict" -> Refuse(b, "already_exists")
        [] t \in b.topics /\ outcome = "replay" ->
             Answer(b, {Identity(t, m, original.partition, original.offset, original.id)})
        [] t \in b.topics /\ outcome \in {"new", "untracked"} ->
             Answer([b EXCEPT !.logs = AppendMessage(@, t, p, m),
                              !.nextRR[t] = AdvanceRoundRobin(m, @),
                              !.index = RecordPublish(@, t, m, p, o)],
                    {Identity(t, m, p, o, m.id)})

\* DurableBroker::retry_ready at time now, which refuses when it would schedule
\* a retry past the last timestamp.
CanMaintain(s, now) ==
  ~Overflows(now, Backoff) \/ \A id \in ExpiredPending(s, now) : ~IsRetryable(s, id)

\* Mutant: the lease ends one unit early.
MaintainEarly(s, now) ==
  LET expired == ExpiredPending(s, now + 1)
      retry   == { id \in expired : IsRetryable(s, id) }
      swept   == ApplyOutcomes(s, retry, now + Backoff, expired \ retry, "expired")
  IN  MarkRetryAvailable(swept, ReadyRetryEntries(swept, now))

\* Mutant: a sweep that leaves expired leases alone.
MaintainBackoffsOnly(s, now) == MarkRetryAvailable(s, ReadyRetryEntries(s, now))

Maintain(s, now) ==
  LET expired == ExpiredPending(s, now)
      retry   == { id \in expired : IsRetryable(s, id) }
      swept   == ApplyOutcomes(s, retry, now + Backoff, expired \ retry, "expired")
  IN  MarkRetryAvailable(swept, ReadyRetryEntries(swept, now))

\* What a consumer holds of a delivery: the message, and whether it has tried to
\* settle it and in which life of brokerd it got it.
ConsumedMessage(x, attempt, leaseExpiresAt) ==
  [id |-> DeliveryId(x, attempt), leaseExpiresAt |-> leaseExpiresAt,
   life |-> restarts, settling |-> FALSE]

\* DurableBroker::consume of the selected slots, on the maintained state s.
Deliver(b, c, r, s, attempts) ==
  IF DOMAIN attempts # {} /\ Overflows(r.now, r.lease)
  THEN Refuse([b EXCEPT !.ds = s], "invalid_argument")
  ELSE Answer([b EXCEPT !.ds = ApplyConsumed(s, attempts, c, r.now + r.lease)],
              { ConsumedMessage(x, attempts[x], r.now + r.lease) : x \in DOMAIN attempts })

\* get_topic, retry_ready and consume under one lock. The maintenance stays
\* done when the consume after it fails. (The set has one element: the bound
\* variables make TLC evaluate the maintained state once.)
ConsumeInner(b, c, r) ==
  IF r.topic \notin b.topics THEN {Refuse(b, "not_found")}
  ELSE IF MaxBatch = 0 \/ r.lease = 0 \/ ~CanMaintain(b.ds, r.now)
  THEN {Refuse(b, "invalid_argument")}
  ELSE LET lens == [p \in Partitions |-> Len(b.logs[r.topic][p])]
       IN  UNION { { Deliver(b, c, r, s, [x \in slots |-> NextAttemptNumber(s, x)])
                       : slots \in {Selected(s, MemberOf[c], r.topic, lens, MaxBatch)} }
                   : s \in {Maintain(b.ds, r.now)} }

\* The delivery of an ACK or NACK is pending and the caller's.
Ownership(b, c, id) ==
  IF id \notin DOMAIN b.ds.pending THEN "not_found"
  ELSE IF b.ds.pending[id].consumer # c THEN "failed_precondition"
  ELSE "ok"

AckInner(b, c, r) ==
  IF Ownership(b, c, r.id) # "ok" THEN Refuse(b, Ownership(b, c, r.id))
  ELSE Answer([b EXCEPT !.ds = ApplyAck(@, r.id)], {[what |-> "acked", slot |-> r.id.slot]})

NackInner(b, c, r) ==
  IF Ownership(b, c, r.id) # "ok" THEN Refuse(b, Ownership(b, c, r.id))
  ELSE IF ~IsRetryable(b.ds, r.id)
  THEN Answer([b EXCEPT !.ds = ApplyOutcomes(@, {}, clock, {r.id}, "manual")], {})
  ELSE IF Overflows(clock, Backoff) THEN Refuse(b, "invalid_argument")
  ELSE Answer([b EXCEPT !.ds = ApplyOutcomes(@, {r.id}, clock + Backoff, {}, "manual")], {})

Handle(c, r) ==
  CASE r.op = "create_topic" -> {CreateTopic(broker, r)}
    [] r.op = "list_dlq"     -> {ListDlq(broker, r)}
    [] r.op = "publish"      -> {PublishInner(broker, r)}
    [] r.op = "consume"      -> ConsumeInner(broker, c, r)
    [] r.op = "ack"          -> {AckInner(broker, c, r)}
    [] r.op = "nack"         -> {NackInner(broker, c, r)}

-----------------------------------------------------------------------------
(* Calls.                                                                  *)

AdminRequests == [op: {"create_topic", "list_dlq"}, topic: Topics]

\* Unkeyed messages are published while the log has room: a repetition of one is
\* a second message.
PublishRequests ==
  [op: {"publish"}, topic: Topics,
   msg: { m \in Messages :
            \/ m.idempotencyKey # NoKey
            \/ \A t \in Topics, p \in Partitions :
                 Len(broker.logs[t][p]) + Cardinality(late) < MaxLogLen }]

\* now_unix_ms is the caller's: any timestamp, behind the server's clock or ahead.
ConsumeRequests(c) ==
  [op: {"consume"}, topic: Topics,
   now: { n \in Timestamps : n <= clock + LeadOf[c] /\ clock + LeadOf[c] <= n + MaxLag },
   lease: LeasesOf[c]]

SettleRequests(c) == [op: {"ack", "nack"}, id: { h.id : h \in held[c] }]

Requests(c) ==
  IF c \in Producers THEN AdminRequests \cup PublishRequests
  ELSE ConsumeRequests(c) \cup SettleRequests(c)

\* What a client holds once it has made its call: a new batch replaces the old
\* one, and an ACK or NACK is repeated only while it is not answered.
HeldAfter(c, r, body) ==
  IF r.op = "consume" THEN [held EXCEPT ![c] = body]
  ELSE IF r.op \in {"ack", "nack"} THEN [held EXCEPT ![c] = { h \in @ : h.id # r.id }]
  ELSE held

\* The latest clock value consumes have carried, once request r is executed.
LatestAfter(r) == IF r.op = "consume" /\ r.now > latest THEN r.now ELSE latest

\* with_broker: the request is executed under the lock and the client hears.
Call(c, r) ==
  /\ up
  /\ UNCHANGED <<clock, up, restarts, late>>
  /\ \E a \in Handle(c, r) :
       /\ broker' = a.broker
       /\ latest' = LatestAfter(r)
       /\ held' = HeldAfter(c, r, a.body)
       /\ told' = IF r.op = "consume" THEN told ELSE told \cup a.body

\* The deadline passes without an answer. The request is on its way, or lost,
\* or the answer is: all that the client knows is that it may have settled.
Abandon(c, r) ==
  /\ Cardinality(late) < MaxLate
  /\ late' = late \cup {<<c, r>>}
  /\ held' = IF r.op \in {"ack", "nack"}
             THEN [held EXCEPT ![c] = { IF h.id = r.id THEN [h EXCEPT !.settling = TRUE] ELSE h
                                          : h \in @ }]
             ELSE held
  /\ UNCHANGED <<clock, latest, broker, up, restarts, told>>

\* A request whose client has given up is executed all the same.
ServeLate(c, r) ==
  /\ up
  /\ <<c, r>> \in late
  /\ late' = late \ {<<c, r>>}
  /\ UNCHANGED <<clock, up, restarts, held, told>>
  /\ latest' = LatestAfter(r)
  /\ \E a \in Handle(c, r) : broker' = a.broker

Lose(c, r) ==
  /\ <<c, r>> \in late
  /\ late' = late \ {<<c, r>>}
  /\ UNCHANGED <<clock, latest, broker, up, restarts, held, told>>

-----------------------------------------------------------------------------
(* Restarts and time.                                                      *)

\* brokerd dies, perhaps between the two commands of a consume.
Crash ==
  /\ up
  /\ restarts < MaxRestarts
  /\ up' = FALSE
  /\ restarts' = restarts + 1
  /\ \/ broker' = [broker EXCEPT !.ds = ReleasePending(@)]
     \/ \E c \in Consumers : \E r \in ConsumeRequests(c) :
          /\ r.topic \in broker.topics
          /\ CanMaintain(broker.ds, r.now)
          /\ broker' = [broker EXCEPT !.ds = ReleasePending(Maintain(@, r.now))]
  /\ late' = {}
  /\ latest' = 0
  /\ UNCHANGED <<clock, held, told>>

Open ==
  /\ ~up
  /\ up' = TRUE
  /\ UNCHANGED <<clock, latest, broker, restarts, late, held, told>>

\* The moments somebody waits for: ends of leases and of backoffs.
Deadlines ==
  { broker.ds.pending[id].leaseExpiresAt : id \in DOMAIN broker.ds.pending }
    \cup { broker.ds.retryByOffset[x] : x \in DOMAIN broker.ds.retryByOffset }

Tick ==
  /\ clock < FreeTime \/ \E d \in Deadlines : d > clock - MaxLag
  /\ clock' = clock + 1
  /\ UNCHANGED <<latest, broker, up, restarts, late, held, told>>

Next ==
  \/ \E c \in Clients : \E r \in Requests(c) : Call(c, r)
  \/ \E c \in Clients : \E r \in Requests(c) : Abandon(c, r)
  \/ \E q \in late : ServeLate(q[1], q[2])
  \/ \E q \in late : Lose(q[1], q[2])
  \/ Crash
  \/ Open
  \/ Tick

\* A poll of consumer c is executed, and answered in time or not.
Poll(c, t) ==
  \/ \E r \in ConsumeRequests(c) : r.topic = t /\ Call(c, r)
  \/ \E q \in late : q[1] = c /\ q[2].op = "consume" /\ q[2].topic = t /\ ServeLate(c, q[2])

\* The polls of a diligent consumer keep being executed while brokerd is up,
\* brokerd is started again after a crash, and time passes. Nobody has to
\* acknowledge, to publish, or to get an answer.
Fairness ==
  /\ WF_vars(Tick)
  /\ WF_vars(Open)
  /\ \A c \in Diligent, t \in Topics : WF_vars(Poll(c, t))

Spec == Init /\ [][Next]_vars /\ Fairness

-----------------------------------------------------------------------------
(* Properties.                                                             *)

\* What a client was told stays true, across late and repeated requests and
\* restarts: a topic answered as created exists; a publish is in the log where
\* its answer said, and under its idempotency key nothing else is; an ACK that
\* was answered with ok settled the message; a listed dead letter stays listed.
AnswersHold ==
  \A f \in told :
    CASE f.what = "topic" -> f.topic \in broker.topics
      [] f.what = "record" ->
           /\ f.offset < Len(broker.logs[f.topic][f.partition])
           /\ LET m == broker.logs[f.topic][f.partition][f.offset + 1]
              IN  m.id = f.id /\ m.idempotencyKey = f.key /\ Fingerprint(f.topic, m) = f.fingerprint
           /\ f.key # NoKey =>
                \A p \in Partitions : \A i \in DOMAIN broker.logs[f.topic][p] :
                  broker.logs[f.topic][p][i].idempotencyKey = f.key
                    => p = f.partition /\ i = f.offset + 1
      [] f.what = "acked" -> f.slot \in broker.ds.acked
      [] f.what = "dead" -> f.entry \in broker.ds.deadLetters

\* A consumer that holds a delivery, and has not answered it, is the one that
\* can settle it until its lease has ended by the clock of some consume, unless
\* brokerd restarts. consume_inner sweeps all leases with the clock value of its
\* caller, so one client whose clock is ahead does end the leases of others; no
\* other request, late, repeated or with a lagging clock, gives a message away.
LeaseHonoured ==
  \A c \in Consumers : \A h \in held[c] :
    ~h.settling /\ latest < h.leaseExpiresAt /\ h.life = restarts
      => PendingForCommand(broker.ds, h.id, c)

\* Every message of a group with a diligent consumer is acknowledged or
\* dead-lettered in the end, even when every answer is lost and the consumers
\* that received it never come back: leases run out, retries become ready and
\* attempts are used up.
EventuallySettled ==
  \A x \in [group: {MemberOf[c] : c \in Diligent}, topic: Topics, partition: Partitions,
            offset: 0 .. MaxLogLen + Cardinality(IdempotencyKeys) - 1] :
    (x.offset < Len(broker.logs[x.topic][x.partition]))
      ~> (x \in broker.ds.acked \cup broker.ds.deadLettered)

=============================================================================
