------------------------- MODULE BrokerServerProofs --------------------------
(***************************************************************************)
(* What brokerd's clients may rely on, for every number of clients,        *)
(* requests, restarts and lease lengths: what they were told stays true,   *)
(* and a lease is theirs until it ends, with requests that are executed    *)
(* late, in any order, or not at all.                                      *)
(***************************************************************************)
EXTENDS BrokerServer, DeliveryProofs

BrokerFields == {"topics", "logs", "nextRR", "index", "ds"}

\* The shared broker is consistent: its delivery state, and a publish index that
\* holds what the logs hold, no key twice.
BrokerInv(b) ==
  /\ b = [f \in BrokerFields |-> b[f]]
  /\ b.topics \subseteq Topics
  /\ b.logs \in MessageLogs
  /\ b.nextRR \in [Topics -> Partitions]
  /\ KeysUnique(b.logs)
  /\ b.index = RecoveredIndex(b.logs, b.topics)
  /\ \A t \in Topics \ b.topics : Positions(b.logs, t) = {}
  /\ DeliveryInv(b.ds)

\* The requests a client makes. The clock value of a consume is the caller's, and
\* may be anything.
ValidRequest(c, r) ==
  \/ r \in AdminRequests
  \/ r \in [op: {"publish"}, topic: Topics, msg: Messages]
  \/ c \in Consumers /\ r \in [op: {"consume"}, topic: Topics, now: Nat, lease: Nat]
  \/ c \in Consumers /\ r \in [op: {"ack", "nack"}, id: DeliveryIds]

Settling(r) == r.op \in {"ack", "nack"}

\* The deliveries clients know of: held, or named by a request on its way.
HeldIds == UNION { { h.id : h \in held[c] } : c \in Consumers }
LateIds == { q[2].id : q \in { l \in late : Settling(l[2]) } }
KnownIds == HeldIds \cup LateIds

HeldMessages ==
  [id: DeliveryIds, leaseExpiresAt: Timestamps, life: Nat, settling: BOOLEAN]

ClientsOK ==
  /\ clock \in Nat /\ latest \in Nat /\ restarts \in Nat
  /\ held \in [Consumers -> SUBSET HeldMessages]
  /\ \A c \in Consumers : \A h \in held[c] : h.life <= restarts
  /\ \A q \in late : ValidRequest(q[1], q[2])

\* A consumer whose ACK or NACK is on its way knows that it is.
LateKnown ==
  \A q \in late : Settling(q[2]) =>
    \A h \in held[q[1]] : h.id = q[2].id => h.settling

\* The lease of a delivery that runs: the broker has it as the consumer has it.
LeaseStands(s, c, h) ==
  /\ h.id \in DOMAIN s.pending
  /\ s.pending[h.id].consumer = c
  /\ s.pending[h.id].leaseExpiresAt = h.leaseExpiresAt

LeasesStand ==
  \A c \in Consumers : \A h \in held[c] :
    ~h.settling /\ latest < h.leaseExpiresAt /\ h.life = restarts
      => LeaseStands(broker.ds, c, h)

\* The message an answer to a publish names is in the log where the answer said.
RecordStored(L, f) ==
  /\ f.topic \in Topics /\ f.partition \in Partitions
  /\ f.offset + 1 \in DOMAIN L[f.topic][f.partition]
  /\ LET m == L[f.topic][f.partition][f.offset + 1]
     IN  m.id = f.id /\ m.idempotencyKey = f.key /\ Fingerprint(f.topic, m) = f.fingerprint

\* What a client was told is so.
Fact(b, f) ==
  \/ f.what = "topic" /\ f.topic \in b.topics
  \/ f.what = "record" /\ f.offset \in Nat /\ RecordStored(b.logs, f)
  \/ f.what = "acked" /\ f.slot \in b.ds.acked
  \/ f.what = "dead" /\ f.entry \in b.ds.deadLetters

\* The inductive invariant.
SInv ==
  /\ BrokerInv(broker)
  /\ ClientsOK
  /\ IssuedTracked(broker.ds, KnownIds)
  /\ LateKnown
  /\ LeasesStand
  /\ \A f \in told : Fact(broker, f)

-----------------------------------------------------------------------------
(* What the commands do to the leases and to what is settled.              *)

\* From s to t no delivery but those in X is taken from its consumer, unless its
\* lease had ended at time now.
KeepsLeases(s, t, now, X) ==
  \A id \in DOMAIN s.pending \ X :
    s.pending[id].leaseExpiresAt > now
      => id \in DOMAIN t.pending /\ t.pending[id] = s.pending[id]

KeepsSettled(s, t) == s.acked \subseteq t.acked /\ s.deadLetters \subseteq t.deadLetters

\* The delivery state t may follow s, with the deliveries I known to clients.
Follows(s, t, now, X, I) ==
  /\ DeliveryInv(t)
  /\ IssuedTracked(t, I)
  /\ KeepsSettled(s, t)
  /\ KeepsLeases(s, t, now, X)

\* Steps that keep the leases keep them one after the other.
LEMMA FollowsOn ==
  ASSUME NEW s, NEW t, NEW u, NEW now, NEW X, NEW I,
         Follows(s, t, now, X, I), Follows(t, u, now, {}, I)
  PROVE  Follows(s, u, now, X, I)
  BY DEF Follows, KeepsSettled, KeepsLeases

\* So does doing nothing.
LEMMA FollowsItself ==
  ASSUME NEW s, DeliveryInv(s), NEW I, IssuedTracked(s, I), NEW now, NEW X
  PROVE  Follows(s, s, now, X, I)
  BY DEF Follows, KeepsSettled, KeepsLeases

\* Retries and dead letters take away the deliveries they are of.
LEMMA OutcomesFollow ==
  ASSUME NEW s, DeliveryInv(s),
         NEW retry, retry \subseteq DOMAIN s.pending,
         NEW dead, dead \subseteq DOMAIN s.pending, retry \cap dead = {},
         NEW readyAt, retry # {} => readyAt \in Timestamps,
         NEW reason \in Reasons,
         \A id \in dead : s.pending[id].attempt >= MaxAttempts,
         NEW I, IssuedTracked(s, I), NEW now
  PROVE  Follows(s, ApplyOutcomes(s, retry, readyAt, dead, reason), now, retry \cup dead, I)
  <1> DEFINE t == ApplyOutcomes(s, retry, readyAt, dead, reason)
  <1>1. Shape(s)
    BY DEF DeliveryInv, DeliveryTypeOK
  <1>2. DeliveryInv(t)
    BY OutcomesInv
  <1>3. IssuedTracked(t, I)
    BY OutcomesCounts
  <1>4. /\ s.acked = t.acked /\ s.deadLetters \subseteq t.deadLetters
        /\ t.pending = Remove(s.pending, retry \cup dead)
    BY <1>1 DEF Shape, StateFields, ApplyOutcomes
  <1> HIDE DEF t
  <1>5. KeepsSettled(s, t) /\ KeepsLeases(s, t, now, retry \cup dead)
    BY <1>4 DEF KeepsSettled, KeepsLeases, Remove
  <1> QED BY <1>2, <1>3, <1>5 DEF Follows, t

\* What IsRetryable says of the attempt of a pending delivery.
LEMMA PendingAttempt ==
  ASSUME NEW s, DeliveryInv(s), NEW id \in DOMAIN s.pending, ~IsRetryable(s, id)
  PROVE  s.pending[id].attempt >= MaxAttempts
  <1>1. s.pending[id].attempt \in Nat
    BY RecordFacts DEF DeliveryInv, DeliveryTypeOK, IsMap
  <1> QED BY <1>1, PolicyAssumption DEF IsRetryable

\* retry_ready ends no lease that runs at its time.
LEMMA MaintainFollows ==
  ASSUME NEW s, DeliveryInv(s), NEW now \in Nat, CanMaintain(s, now),
         NEW I, IssuedTracked(s, I)
  PROVE  Follows(s, Maintain(s, now), now, {}, I)
  <1> DEFINE expired == ExpiredPending(s, now)
             retry   == { id \in expired : IsRetryable(s, id) }
             dead    == expired \ retry
             swept   == ApplyOutcomes(s, retry, now + Backoff, dead, "expired")
             ready   == ReadyRetryEntries(swept, now)
             t       == MarkRetryAvailable(swept, ready)
  <1>1. /\ expired \subseteq DOMAIN s.pending
        /\ \A id \in expired : s.pending[id].leaseExpiresAt <= now
    BY DEF ExpiredPending
  <1>2. retry # {} => now + Backoff \in Timestamps
    BY PolicyAssumption DEF CanMaintain, Overflows, Timestamps
  <1>3. \A id \in dead : s.pending[id].attempt >= MaxAttempts
    BY <1>1, PendingAttempt
  <1>4. retry \cup dead = expired
    OBVIOUS
  <1>5. Follows(s, swept, now, expired, I)
    <2>1. retry \subseteq DOMAIN s.pending /\ dead \subseteq DOMAIN s.pending /\ retry \cap dead = {}
      BY <1>1
    <2> HIDE DEF retry, dead, expired
    <2>2. Follows(s, swept, now, retry \cup dead, I)
      BY <2>1, <1>2, <1>3, OutcomesFollow DEF Reasons
    <2> QED BY <2>2, <1>4
  <1> HIDE DEF swept, ready
  <1>6. Follows(swept, t, now, {}, I)
    <2>1. DeliveryInv(swept) /\ IssuedTracked(swept, I) /\ Shape(swept)
      BY <1>5 DEF Follows, DeliveryInv, DeliveryTypeOK
    <2>2. DeliveryInv(t)
      BY <2>1, AvailableInv
    <2>3. IssuedTracked(t, I)
      BY <2>1, AvailableCounts
    <2>4. t.acked = swept.acked /\ t.deadLetters = swept.deadLetters /\ t.pending = swept.pending
      BY <2>1, AvailableFields
    <2> HIDE DEF t
    <2> QED BY <2>2, <2>3, <2>4 DEF Follows, KeepsSettled, KeepsLeases
  <1> HIDE DEF t
  <1>7. Follows(s, t, now, expired, I)
    BY <1>5, <1>6, FollowsOn
  <1>8. KeepsLeases(s, t, now, {})
    <2> SUFFICES ASSUME NEW id \in DOMAIN s.pending, s.pending[id].leaseExpiresAt > now
                 PROVE  id \in DOMAIN t.pending /\ t.pending[id] = s.pending[id]
      BY DEF KeepsLeases
    <2>1. s.pending[id].leaseExpiresAt \in Int
      BY PolicyAssumption DEF DeliveryInv, DeliveryTypeOK, IsMap, PendingDeliveries, Timestamps
    <2>2. id \notin expired
      BY <1>1, <2>1
    <2> QED BY <1>7, <2>2 DEF Follows, KeepsLeases
  <1>9. t = Maintain(s, now)
    BY DEF Maintain, t, swept, ready
  <1> QED BY <1>7, <1>8, <1>9 DEF Follows

\* An ACK takes away the delivery it is of, and settles its message.
LEMMA AckFollows ==
  ASSUME NEW s, DeliveryInv(s), NEW id \in DOMAIN s.pending, NEW I, IssuedTracked(s, I), NEW now
  PROVE  /\ Follows(s, ApplyAck(s, id), now, {id}, I)
         /\ id.slot \in ApplyAck(s, id).acked
  <1> DEFINE t == ApplyAck(s, id)
  <1>1. Shape(s) /\ s.pending[id].slot = id.slot
    BY DEF DeliveryInv, DeliveryTypeOK, PendingMapsAgree
  <1>2. DeliveryInv(t)
    BY AckInv
  <1>3. IssuedTracked(t, I)
    BY AckCounts
  <1>4. /\ t.acked = s.acked \cup {s.pending[id].slot} /\ t.deadLetters = s.deadLetters
        /\ t.pending = Remove(s.pending, {id})
    BY <1>1 DEF Shape, StateFields, ApplyAck
  <1> HIDE DEF t
  <1>5. KeepsSettled(s, t) /\ KeepsLeases(s, t, now, {id}) /\ id.slot \in t.acked
    BY <1>1, <1>4 DEF KeepsSettled, KeepsLeases, Remove
  <1> QED BY <1>2, <1>3, <1>5 DEF Follows, t

\* A restart keeps what is settled, and every attempt counted.
LEMMA ReleaseFollows ==
  ASSUME NEW s, DeliveryInv(s), NEW I, IssuedTracked(s, I), NEW now
  PROVE  Follows(s, ReleasePending(s), now, DOMAIN s.pending, I)
  <1> DEFINE t == ReleasePending(s)
  <1>1. DeliveryInv(t) /\ IssuedTracked(t, I)
    BY ReleaseInv
  <1>2. t.acked = s.acked /\ t.deadLetters = s.deadLetters
    BY ReleaseFields
  <1> HIDE DEF t
  <1> QED BY <1>1, <1>2 DEF Follows, KeepsSettled, KeepsLeases, t

\* The ids of the deliveries a consume makes.
IdsOf(attempts) == { DeliveryId(x, attempts[x]) : x \in DOMAIN attempts }

\* The deliveries ids of state t are new and the consumer's until the lease ends.
Leased(t, ids, c, lease) ==
  \A id \in ids : /\ id \in DeliveryIds /\ id \in DOMAIN t.pending
                  /\ t.pending[id].consumer = c /\ t.pending[id].leaseExpiresAt = lease

\* A consume takes nothing away, and hands out deliveries no client knows.
LEMMA ConsumedFollows ==
  ASSUME NEW s, DeliveryInv(s),
         NEW slots, \A x \in slots : x \in Slots /\ IsAvailable(s, x),
         NEW attempts, attempts = [x \in slots |-> NextAttemptNumber(s, x)],
         NEW c \in Consumers, NEW lease \in Timestamps,
         NEW I, I \subseteq DeliveryIds, IssuedTracked(s, I), NEW now,
         NEW t, t = ApplyConsumed(s, attempts, c, lease)
  PROVE  /\ Follows(s, t, now, {}, I \cup IdsOf(attempts))
         /\ IdsOf(attempts) \cap I = {}
         /\ Leased(t, IdsOf(attempts), c, lease)
  <1> DEFINE ids == IdsOf(attempts)
             byId == [id \in ids |-> [slot |-> id.slot, attempt |-> id.attempt,
                                      consumer |-> c, leaseExpiresAt |-> lease]]
  <1>1. Shape(s) /\ \A x \in DOMAIN s.attemptCounts : s.attemptCounts[x] \in Nat
    BY DEF DeliveryInv, DeliveryTypeOK, IsMap
  <1>2. DOMAIN attempts = slots
    OBVIOUS
  <1>3. \A x \in slots : /\ attempts[x] \in Nat \ {0}
                         /\ x \in DOMAIN s.attemptCounts => attempts[x] > s.attemptCounts[x]
    BY <1>1 DEF NextAttemptNumber
  <1>4. IsMap(attempts, Slots, Nat \ {0})
    BY <1>2, <1>3 DEF IsMap
  <1>5. \A x \in DOMAIN attempts : IsAvailable(s, x)
    BY <1>2
  <1>6. \A id \in ids : id.slot \in slots /\ id.attempt = attempts[id.slot]
    BY <1>2, <1>3, RecordFacts DEF IdsOf
  <1>7. ids \subseteq DeliveryIds /\ IssuedTracked(t, I \cup ids)
    BY <1>2, <1>3, <1>4, ConsumedCounts DEF IdsOf
  <1>8. DeliveryInv(t)
    BY <1>4, <1>5, ConsumedInv
  <1>9. /\ t.acked = s.acked /\ t.deadLetters = s.deadLetters
        /\ t.pending = Insert(s.pending, byId)
    BY <1>1 DEF Shape, StateFields, ApplyConsumed, IdsOf
  <1>10. ids \cap I = {}
    <2> SUFFICES ASSUME NEW id \in ids, id \in I PROVE FALSE
      OBVIOUS
    <2>1. id.slot \notin s.acked \cup s.deadLettered
      BY <1>6 DEF IsAvailable
    <2>2. id.slot \in DOMAIN s.attemptCounts /\ id.attempt <= s.attemptCounts[id.slot]
      BY <2>1 DEF IssuedTracked
    <2> QED BY <1>1, <1>3, <1>6, <2>2
  <1>11. ids \cap DOMAIN s.pending = {}
    <2> SUFFICES ASSUME NEW id \in ids, id \in DOMAIN s.pending PROVE FALSE
      OBVIOUS
    <2>1. id.slot \in DOMAIN s.pendingByOffset
      BY DEF DeliveryInv, PendingMapsAgree
    <2> QED BY <1>6, <2>1 DEF IsAvailable
  <1> HIDE DEF ids
  <1>12. /\ \A id \in ids : /\ id \in DOMAIN t.pending /\ t.pending[id].consumer = c
                            /\ t.pending[id].leaseExpiresAt = lease
         /\ \A id \in DOMAIN s.pending : id \in DOMAIN t.pending /\ t.pending[id] = s.pending[id]
    BY <1>9, <1>11 DEF Insert
  <1>13. KeepsSettled(s, t) /\ KeepsLeases(s, t, now, {})
    BY <1>9, <1>12 DEF KeepsSettled, KeepsLeases
  <1> QED BY <1>7, <1>8, <1>10, <1>12, <1>13 DEF Follows, Leased, ids

-----------------------------------------------------------------------------
(* What the handlers do to the broker.                                     *)

\* The logs only grow at their ends.
LogsGrow(L, M) ==
  \A t \in Topics, p \in Partitions :
    \A i \in DOMAIN L[t][p] : i \in DOMAIN M[t][p] /\ M[t][p][i] = L[t][p][i]

\* The broker d may follow the broker b.
Succeeds(b, d, now, X, I) ==
  /\ BrokerInv(d)
  /\ b.topics \subseteq d.topics
  /\ LogsGrow(b.logs, d.logs)
  /\ Follows(b.ds, d.ds, now, X, I)

\* What was told stays true.
LEMMA FactStays ==
  ASSUME NEW b, NEW d, NEW now, NEW X, NEW I, Succeeds(b, d, now, X, I), NEW f, Fact(b, f)
  PROVE  Fact(d, f)
  <1>1. CASE f.what = "record" /\ f.offset \in Nat /\ RecordStored(b.logs, f)
    <2>1. RecordStored(d.logs, f)
      BY <1>1 DEF Succeeds, LogsGrow, RecordStored
    <2> QED BY <1>1, <2>1 DEF Fact
  <1>2. CASE ~(f.what = "record" /\ f.offset \in Nat /\ RecordStored(b.logs, f))
    BY <1>2 DEF Fact, Succeeds, Follows, KeepsSettled
  <1> QED BY <1>1, <1>2

\* A handler that changes the delivery state only.
LEMMA DeliverySucceeds ==
  ASSUME NEW b, BrokerInv(b), NEW s, NEW now, NEW X, NEW I, Follows(b.ds, s, now, X, I)
  PROVE  Succeeds(b, [b EXCEPT !.ds = s], now, X, I)
  <1> DEFINE d == [b EXCEPT !.ds = s]
  <1>1. /\ d = [f \in BrokerFields |-> d[f]] /\ d.ds = s /\ d.topics = b.topics
        /\ d.logs = b.logs /\ d.nextRR = b.nextRR /\ d.index = b.index
    BY DEF BrokerInv, BrokerFields
  <1> HIDE DEF d
  <1>2. BrokerInv(d)
    BY <1>1 DEF BrokerInv, Follows
  <1> QED BY <1>1, <1>2 DEF Succeeds, LogsGrow, d

\* A handler that changes nothing.
LEMMA BrokerStays ==
  ASSUME NEW b, BrokerInv(b), NEW I, IssuedTracked(b.ds, I), NEW now, NEW X
  PROVE  Succeeds(b, b, now, X, I)
  BY FollowsItself DEF BrokerInv, Succeeds, LogsGrow

\* An answer that tells the truth, from a broker that may follow b.
Truthful(b, a, now, X, I) ==
  /\ Succeeds(b, a.broker, now, X, I)
  /\ \A f \in a.body : Fact(a.broker, f)

\* An error that changes nothing tells nothing.
LEMMA RefuseTruthful ==
  ASSUME NEW b, BrokerInv(b), NEW I, IssuedTracked(b.ds, I), NEW now, NEW X, NEW code
  PROVE  Truthful(b, Refuse(b, code), now, X, I)
  BY BrokerStays DEF Truthful, Refuse

\* create_topic
LEMMA CreateTopicTruthful ==
  ASSUME NEW b, BrokerInv(b), NEW I, IssuedTracked(b.ds, I), NEW now, NEW X,
         NEW r \in AdminRequests
  PROVE  Truthful(b, CreateTopic(b, r), now, X, I)
  <1>1. CASE r.topic \in b.topics
    BY <1>1, RefuseTruthful DEF CreateTopic
  <1>2. CASE r.topic \notin b.topics
    <2> DEFINE d == [b EXCEPT !.topics = @ \cup {r.topic}]
    <2>1. r.topic \in Topics
      BY DEF AdminRequests
    <2>2. /\ d = [f \in BrokerFields |-> d[f]] /\ d.ds = b.ds
          /\ d.topics = b.topics \cup {r.topic}
          /\ d.logs = b.logs /\ d.nextRR = b.nextRR /\ d.index = b.index
      BY DEF BrokerInv, BrokerFields
    <2> HIDE DEF d
    <2>3. RecoveredIndex(b.logs, b.topics \cup {r.topic}) = RecoveredIndex(b.logs, b.topics)
      <3>1. b.logs \in MessageLogs /\ Positions(b.logs, r.topic) = {}
        BY <1>2, <2>1 DEF BrokerInv
      <3> QED BY <2>1, <3>1, EmptyTopicScan
    <2>4. BrokerInv(d)
      BY <2>1, <2>2, <2>3 DEF BrokerInv
    <2>5. Follows(b.ds, b.ds, now, X, I)
      BY FollowsItself DEF BrokerInv
    <2>6. Succeeds(b, d, now, X, I)
      BY <2>2, <2>4, <2>5 DEF Succeeds, LogsGrow
    <2>7. Fact(d, [what |-> "topic", topic |-> r.topic])
      BY <2>2 DEF Fact
    <2> QED BY <1>2, <2>6, <2>7 DEF Truthful, CreateTopic, Answer, d
  <1> QED BY <1>1, <1>2

\* list_dlq
LEMMA ListDlqTruthful ==
  ASSUME NEW b, BrokerInv(b), NEW I, IssuedTracked(b.ds, I), NEW now, NEW X,
         NEW r \in AdminRequests
  PROVE  Truthful(b, ListDlq(b, r), now, X, I)
  <1>1. CASE r.topic \notin b.topics
    BY <1>1, RefuseTruthful DEF ListDlq
  <1>2. CASE r.topic \in b.topics
    <2>1. Succeeds(b, b, now, X, I)
      BY BrokerStays
    <2>2. \A e \in b.ds.deadLetters : Fact(b, [what |-> "dead", entry |-> e])
      BY DEF Fact
    <2> QED BY <1>2, <2>1, <2>2 DEF Truthful, ListDlq, Answer
  <1> QED BY <1>1, <1>2

\* The logs after an append, and what is stored at the new place.
LEMMA AppendGrows ==
  ASSUME NEW L \in MessageLogs, NEW t \in Topics, NEW p \in Partitions, NEW m \in Messages,
         NEW M, M = AppendMessage(L, t, p, m), NEW n, n = Len(L[t][p])
  PROVE  /\ n \in Nat /\ n + 1 \in DOMAIN M[t][p] /\ M[t][p][n + 1] = m
         /\ LogsGrow(L, M)
  <1> DEFINE log == L[t][p]
  <1>1. log \in Seq(Messages) /\ Len(log) \in Nat /\ DOMAIN log = 1 .. Len(log)
    BY DEF MessageLogs
  <1>2. /\ DOMAIN Append(log, m) = 1 .. Len(log) + 1
        /\ Append(log, m)[Len(log) + 1] = m
        /\ \A i \in 1 .. Len(log) : Append(log, m)[i] = log[i]
    BY <1>1
  <1>3. /\ M[t][p] = Append(log, m)
        /\ \A q \in Partitions \ {p} : M[t][q] = L[t][q]
        /\ \A u \in Topics \ {t} : M[u] = L[u]
    BY DEF MessageLogs, AppendMessage
  <1>4. ASSUME NEW u \in Topics, NEW q \in Partitions, NEW i \in DOMAIN L[u][q]
        PROVE  i \in DOMAIN M[u][q] /\ M[u][q][i] = L[u][q][i]
    <2>1. CASE u = t /\ q = p
      BY <2>1, <1>1, <1>2, <1>3
    <2>2. CASE ~(u = t /\ q = p)
      BY <2>2, <1>3
    <2> QED BY <2>1, <2>2
  <1>5. LogsGrow(L, M)
    BY <1>4 DEF LogsGrow
  <1> QED BY <1>1, <1>2, <1>3, <1>5

\* The identity of a stored message is a fact.
LEMMA IdentityFact ==
  ASSUME NEW b, NEW t \in Topics, NEW m, NEW p \in Partitions, NEW o \in Nat, NEW id,
         o + 1 \in DOMAIN b.logs[t][p],
         NEW e, e = b.logs[t][p][o + 1],
         e.id = id, e.idempotencyKey = m.idempotencyKey, Fingerprint(t, e) = Fingerprint(t, m)
  PROVE  Fact(b, Identity(t, m, p, o, id))
  <1> DEFINE f == Identity(t, m, p, o, id)
  <1>1. /\ f.what = "record" /\ f.topic = t /\ f.partition = p /\ f.offset = o /\ f.id = id
        /\ f.key = m.idempotencyKey /\ f.fingerprint = Fingerprint(t, m)
    BY DEF Identity
  <1> HIDE DEF f
  <1>2. RecordStored(b.logs, f)
    BY <1>1 DEF RecordStored
  <1> QED BY <1>1, <1>2 DEF Fact, f

\* publish: a new message is where the answer says, and the answer to a repeated
\* key names the message that was stored first.
LEMMA PublishTruthful ==
  ASSUME NEW b, BrokerInv(b), NEW I, IssuedTracked(b.ds, I), NEW now, NEW X,
         NEW r \in [op: {"publish"}, topic: Topics, msg: Messages]
  PROVE  Truthful(b, PublishInner(b, r), now, X, I)
  <1> DEFINE t        == r.topic
             m        == r.msg
             k        == m.idempotencyKey
             p        == SelectPartition(m, b.nextRR[t])
             o        == Len(b.logs[t][p])
             outcome  == CheckIdempotency(t, m, b.index)
             original == b.index[<<t, k>>]
  <1>1. /\ t \in Topics /\ m \in Messages /\ b.logs \in MessageLogs
        /\ b.topics \subseteq Topics /\ KeysUnique(b.logs)
    BY DEF BrokerInv
  <1>2. p \in Partitions /\ AdvanceRoundRobin(m, b.nextRR[t]) \in Partitions
    BY <1>1, SelectPartitionFacts DEF BrokerInv
  <1>3. outcome \in {"untracked", "new", "replay", "conflict"}
    BY DEF CheckIdempotency
  <1>4. CASE t \notin b.topics \/ outcome = "conflict"
    <2>1. \E code : PublishInner(b, r) = Refuse(b, code)
      BY <1>4 DEF PublishInner
    <2> QED BY <2>1, RefuseTruthful
  <1>5. CASE t \in b.topics /\ outcome = "replay"
    <2>1. k \in IdempotencyKeys /\ <<t, k>> \in DOMAIN b.index
      BY <1>1, <1>5 DEF CheckIdempotency, Messages
    <2>2. original.fingerprint = Fingerprint(t, m)
      BY <1>5 DEF CheckIdempotency
    <2>3. b.index = RecoveredIndex(b.logs, b.topics)
      BY DEF BrokerInv
    <2>4. KeyPositions(b.logs, t, k) # {}
      BY <2>1, <2>3 DEF RecoveredIndex, RecoveredKeys
    <2>5. PICK pos \in KeyPositions(b.logs, t, k) : TRUE
      BY <2>4
    <2> DEFINE e == RecordAt(b.logs, t, pos)
    <2>6. original = IdempotencyRecord(t, e, pos[1], pos[2] - 1)
      BY <1>1, <1>5, <2>1, <2>3, <2>5, RecoveredRecord
    <2>7. pos \in Positions(b.logs, t) /\ e.idempotencyKey = k
      BY <2>5 DEF KeyPositions
    <2>8. PICK q \in Partitions : \E i \in 1 .. Len(b.logs[t][q]) : pos = <<q, i>>
      BY <1>1, <2>7, PositionFacts
    <2>9. PICK i \in 1 .. Len(b.logs[t][q]) : pos = <<q, i>>
      BY <2>8
    <2>10. /\ i - 1 \in Nat /\ (i - 1) + 1 = i /\ i \in DOMAIN b.logs[t][q]
           /\ e = b.logs[t][q][i]
      BY <1>1, <2>9, PositionFacts DEF RecordAt
    <2>11. /\ original.partition = q /\ original.offset = i - 1 /\ original.id = e.id
           /\ original.fingerprint = Fingerprint(t, e)
      BY <2>6, <2>9 DEF IdempotencyRecord
    <2> HIDE DEF t, m, original, e, k
    <2>12. Fact(b, Identity(t, m, original.partition, original.offset, original.id))
      BY <1>1, <2>2, <2>7, <2>10, <2>11, IdentityFact DEF k
    <2>13. PublishInner(b, r)
             = Answer(b, {Identity(t, m, original.partition, original.offset, original.id)})
      BY <1>5 DEF PublishInner, t, m, original, k
    <2> QED BY <2>12, <2>13, BrokerStays DEF Truthful, Answer
  <1>6. CASE t \in b.topics /\ outcome \in {"new", "untracked"}
    <2> DEFINE M == AppendMessage(b.logs, t, p, m)
               d == [b EXCEPT !.logs = AppendMessage(@, t, p, m),
                              !.nextRR[t] = AdvanceRoundRobin(m, @),
                              !.index = RecordPublish(@, t, m, p, o)]
    <2>1. PublishInner(b, r) = Answer(d, {Identity(t, m, p, o, m.id)})
      BY <1>6 DEF PublishInner
    <2>2. /\ d = [f \in BrokerFields |-> d[f]] /\ d.ds = b.ds /\ d.topics = b.topics
          /\ d.logs = M /\ d.nextRR = [b.nextRR EXCEPT ![t] = AdvanceRoundRobin(m, @)]
          /\ d.index = RecordPublish(b.index, t, m, p, o)
      BY DEF BrokerInv, BrokerFields
    <2>3. KeyFree(b.logs, t, m)
      <3>1. k = NoKey \/ <<t, k>> \notin DOMAIN b.index
        BY <1>6 DEF CheckIdempotency
      <3>2. b.index = RecoveredIndex(b.logs, b.topics)
        BY DEF BrokerInv
      <3> QED BY <1>1, <1>6, <3>1, <3>2 DEF KeyFree, RecoveredIndex, RecoveredKeys, Messages
    <2> HIDE DEF d, M, p, m, t, o
    <2>4. KeysUnique(M)
      BY <1>1, <1>2, <2>3, AppendedUnique DEF M
    <2>5. RecoveredIndex(M, b.topics) = RecordPublish(RecoveredIndex(b.logs, b.topics), t, m, p, o)
      BY <1>1, <1>2, <1>6, <2>3, AppendedIndex DEF M, o
    <2>6. M \in MessageLogs /\ \A u \in Topics \ {t} : M[u] = b.logs[u]
      <3> DEFINE new == <<p, Len(b.logs[t][p]) + 1>>
      <3>1. M = AppendMessage(b.logs, t, p, m) /\ new = <<p, Len(b.logs[t][p]) + 1>>
        BY DEF M
      <3> HIDE DEF new
      <3> QED BY <1>1, <1>2, <3>1, AppendedPositions
    <2>7. \A u \in Topics \ b.topics : Positions(M, u) = {}
      <3>1. ASSUME NEW u \in Topics \ b.topics PROVE Positions(M, u) = {}
        <4>1. M[u] = b.logs[u] /\ Positions(b.logs, u) = {}
          BY <1>6, <2>6 DEF BrokerInv
        <4> QED BY <4>1, ScanBeside
      <3> QED BY <3>1
    <2>8. d.nextRR \in [Topics -> Partitions]
      BY <1>2, <2>2 DEF BrokerInv
    <2>9. BrokerInv(d)
      BY <2>2, <2>4, <2>5, <2>6, <2>7, <2>8 DEF BrokerInv
    <2>10. o \in Nat /\ o + 1 \in DOMAIN M[t][p] /\ M[t][p][o + 1] = m /\ LogsGrow(b.logs, M)
      <3>1. M = AppendMessage(b.logs, t, p, m) /\ o = Len(b.logs[t][p])
        BY DEF M, o
      <3> QED BY <1>1, <1>2, <3>1, AppendGrows
    <2>11. Follows(b.ds, b.ds, now, X, I)
      BY FollowsItself DEF BrokerInv
    <2>12. Succeeds(b, d, now, X, I)
      BY <2>2, <2>9, <2>10, <2>11 DEF Succeeds
    <2>13. Fact(d, Identity(t, m, p, o, m.id))
      BY <1>1, <1>2, <2>2, <2>10, IdentityFact
    <2> QED BY <2>1, <2>12, <2>13 DEF Truthful, Answer
  <1> QED BY <1>3, <1>4, <1>5, <1>6

\* The delivery a request of consumer c may take away: its own, if it settles.
Mine(s, c, r) ==
  { id \in DOMAIN s.pending : Settling(r) /\ id = r.id /\ s.pending[id].consumer = c }

\* ack: an ok answer means that the message is settled.
LEMMA AckTruthful ==
  ASSUME NEW b, BrokerInv(b), NEW I, IssuedTracked(b.ds, I), NEW now, NEW c,
         NEW r \in [op: {"ack", "nack"}, id: DeliveryIds]
  PROVE  Truthful(b, AckInner(b, c, r), now, Mine(b.ds, c, r), I)
  <1>1. CASE Ownership(b, c, r.id) # "ok"
    BY <1>1, RefuseTruthful DEF AckInner
  <1>2. CASE Ownership(b, c, r.id) = "ok"
    <2> DEFINE s == ApplyAck(b.ds, r.id)
               d == [b EXCEPT !.ds = s]
    <2>1. DeliveryInv(b.ds)
      BY DEF BrokerInv
    <2>2. r.id \in DOMAIN b.ds.pending /\ Mine(b.ds, c, r) = {r.id}
      BY <1>2 DEF Ownership, Mine, Settling
    <2>3. Follows(b.ds, s, now, {r.id}, I) /\ r.id.slot \in s.acked
      BY <2>1, <2>2, AckFollows
    <2>4. AckInner(b, c, r) = Answer(d, {[what |-> "acked", slot |-> r.id.slot]})
      BY <1>2 DEF AckInner
    <2>5. d.ds = s
      BY DEF BrokerInv, BrokerFields
    <2> HIDE DEF s
    <2>6. Succeeds(b, d, now, {r.id}, I)
      BY <2>3, DeliverySucceeds
    <2> HIDE DEF d
    <2>7. Fact(d, [what |-> "acked", slot |-> r.id.slot])
      BY <2>3, <2>5 DEF Fact
    <2> QED BY <2>2, <2>4, <2>6, <2>7 DEF Truthful, Answer
  <1> QED BY <1>1, <1>2

\* nack
LEMMA NackTruthful ==
  ASSUME NEW b, BrokerInv(b), NEW I, IssuedTracked(b.ds, I), NEW now, NEW c, clock \in Nat,
         NEW r \in [op: {"ack", "nack"}, id: DeliveryIds]
  PROVE  Truthful(b, NackInner(b, c, r), now, Mine(b.ds, c, r), I)
  <1>0. DeliveryInv(b.ds)
    BY DEF BrokerInv
  <1>1. CASE Ownership(b, c, r.id) # "ok"
    BY <1>1, RefuseTruthful DEF NackInner
  <1>2. CASE Ownership(b, c, r.id) = "ok" /\ IsRetryable(b.ds, r.id) /\ Overflows(clock, Backoff)
    BY <1>2, RefuseTruthful DEF NackInner
  <1>3. ASSUME NEW s, Ownership(b, c, r.id) = "ok", Follows(b.ds, s, now, {r.id}, I),
               NackInner(b, c, r) = Answer([b EXCEPT !.ds = s], {})
        PROVE  Truthful(b, NackInner(b, c, r), now, Mine(b.ds, c, r), I)
    <2>1. Mine(b.ds, c, r) = {r.id}
      BY <1>3 DEF Ownership, Mine, Settling
    <2>2. Succeeds(b, [b EXCEPT !.ds = s], now, {r.id}, I)
      BY <1>3, DeliverySucceeds
    <2> QED BY <1>3, <2>1, <2>2 DEF Truthful, Answer
  <1>4. CASE Ownership(b, c, r.id) = "ok" /\ ~IsRetryable(b.ds, r.id)
    <2> DEFINE s == ApplyOutcomes(b.ds, {}, clock, {r.id}, "manual")
    <2>1. {r.id} \subseteq DOMAIN b.ds.pending
      BY <1>4 DEF Ownership
    <2>2. b.ds.pending[r.id].attempt >= MaxAttempts
      BY <1>0, <1>4, <2>1, PendingAttempt
    <2>3. Follows(b.ds, s, now, {} \cup {r.id}, I)
      BY <1>0, <2>1, <2>2, OutcomesFollow DEF Reasons
    <2>4. NackInner(b, c, r) = Answer([b EXCEPT !.ds = s], {})
      BY <1>4 DEF NackInner
    <2>5. {} \cup {r.id} = {r.id}
      OBVIOUS
    <2> HIDE DEF s
    <2> QED BY <1>3, <1>4, <2>3, <2>4, <2>5
  <1>5. CASE Ownership(b, c, r.id) = "ok" /\ IsRetryable(b.ds, r.id) /\ ~Overflows(clock, Backoff)
    <2> DEFINE s == ApplyOutcomes(b.ds, {r.id}, clock + Backoff, {}, "manual")
    <2>1. {r.id} \subseteq DOMAIN b.ds.pending
      BY <1>5 DEF Ownership
    <2>2. clock + Backoff \in Timestamps
      BY <1>5, PolicyAssumption DEF Overflows, Timestamps
    <2>3. Follows(b.ds, s, now, {r.id} \cup {}, I)
      BY <1>0, <2>1, <2>2, OutcomesFollow DEF Reasons
    <2>4. NackInner(b, c, r) = Answer([b EXCEPT !.ds = s], {})
      BY <1>5 DEF NackInner
    <2>5. {r.id} \cup {} = {r.id}
      OBVIOUS
    <2> HIDE DEF s
    <2> QED BY <1>3, <1>5, <2>3, <2>4, <2>5
  <1> QED BY <1>1, <1>2, <1>4, <1>5

\* A client that did not know the deliveries of the batch H holds them now.
BatchOK(s, c, H, I) ==
  /\ H \subseteq HeldMessages
  /\ IssuedTracked(s, I \cup { h.id : h \in H })
  /\ \A h \in H : /\ h.life = restarts /\ ~h.settling /\ h.id \notin I
                  /\ LeaseStands(s, c, h)

\* A step that keeps the leases that run at an earlier time keeps those that run
\* later.
LEMMA FollowsLater ==
  ASSUME NEW s, DeliveryInv(s), NEW t, NEW then \in Nat, NEW now \in Nat, then <= now,
         NEW X, NEW I, NEW J, J \subseteq I, Follows(s, t, then, X, I)
  PROVE  Follows(s, t, now, X, J)
  <1>1. \A id \in DOMAIN s.pending : s.pending[id].leaseExpiresAt \in Int
    BY PolicyAssumption DEF DeliveryInv, DeliveryTypeOK, IsMap, PendingDeliveries, Timestamps
  <1>2. KeepsLeases(s, t, now, X)
    BY <1>1 DEF Follows, KeepsLeases
  <1>3. IssuedTracked(t, J)
    BY DEF Follows, IssuedTracked
  <1> QED BY <1>2, <1>3 DEF Follows

\* An empty batch.
LEMMA EmptyBatch ==
  ASSUME NEW s, NEW c, NEW I, IssuedTracked(s, I)
  PROVE  BatchOK(s, c, {}, I)
  <1>1. I \cup { h.id : h \in {} } = I
    OBVIOUS
  <1> QED BY <1>1 DEF BatchOK

\* The second half of consume, on the state s the maintenance left: an error, with
\* the maintenance done, or a batch that is the caller's until the lease ends.
LEMMA DeliverFacts ==
  ASSUME NEW b, BrokerInv(b), NEW I, I \subseteq DeliveryIds,
         restarts \in Nat, NEW c \in Consumers,
         NEW r \in [op: {"consume"}, topic: Topics, now: Nat, lease: Nat],
         NEW s, Follows(b.ds, s, r.now, {}, I),
         NEW slots, \A x \in slots : x \in Slots /\ IsAvailable(s, x),
         NEW attempts, attempts = [x \in slots |-> NextAttemptNumber(s, x)],
         NEW a, a = Deliver(b, c, r, s, attempts)
  PROVE  Succeeds(b, a.broker, r.now, {}, I) /\ BatchOK(a.broker.ds, c, a.body, I)
  <1>1. r.now \in Nat /\ r.lease \in Nat
    OBVIOUS
  <1>2. DeliveryInv(b.ds) /\ DeliveryInv(s) /\ IssuedTracked(s, I)
    BY DEF BrokerInv, Follows
  <1>3. ASSUME NEW t, NEW J, I \subseteq J, Follows(b.ds, t, r.now, {}, J),
               a.broker = [b EXCEPT !.ds = t]
        PROVE  Succeeds(b, a.broker, r.now, {}, I) /\ a.broker.ds = t
    <2>1. Follows(b.ds, t, r.now, {}, I)
      BY <1>1, <1>2, <1>3, FollowsLater
    <2>2. Succeeds(b, a.broker, r.now, {}, I)
      BY <1>3, <2>1, DeliverySucceeds
    <2>3. a.broker.ds = t
      BY <1>3 DEF BrokerInv, BrokerFields
    <2> QED BY <2>2, <2>3
  <1>4. CASE DOMAIN attempts # {} /\ Overflows(r.now, r.lease)
    <2>1. a.broker = [b EXCEPT !.ds = s] /\ a.body = {}
      BY <1>4 DEF Deliver, Refuse
    <2>2. Succeeds(b, a.broker, r.now, {}, I) /\ a.broker.ds = s
      BY <2>1, <1>3
    <2>3. BatchOK(s, c, {}, I)
      BY <1>2, EmptyBatch
    <2> QED BY <2>1, <2>2, <2>3
  <1>5. CASE ~(DOMAIN attempts # {} /\ Overflows(r.now, r.lease))
    <2> DEFINE lease == r.now + r.lease
               t     == ApplyConsumed(s, attempts, c, lease)
               H     == { ConsumedMessage(x, attempts[x], lease) : x \in DOMAIN attempts }
               ids   == IdsOf(attempts)
    <2>1. a.broker = [b EXCEPT !.ds = t] /\ a.body = H
      BY <1>5 DEF Deliver, Answer
    <2>2. CASE DOMAIN attempts = {}
      <3>1. t = s
        <4>1. /\ Shape(s) /\ IsMap(s.attemptCounts, Slots, Nat \ {0})
              /\ IsMap(s.pendingByOffset, Slots, DeliveryIds)
              /\ IsMap(s.pending, DeliveryIds, PendingDeliveries)
          BY <1>2 DEF DeliveryInv, DeliveryTypeOK
        <4>2. ASSUME NEW m, NEW D, NEW V, IsMap(m, D, V), NEW new, DOMAIN new = {}
              PROVE  Insert(m, new) = m
          BY <4>2 DEF IsMap, Insert
        <4>3. /\ DOMAIN [x \in DOMAIN attempts |-> DeliveryId(x, attempts[x])] = {}
              /\ DOMAIN [id \in IdsOf(attempts) |->
                           [slot |-> id.slot, attempt |-> id.attempt,
                            consumer |-> c, leaseExpiresAt |-> lease]] = {}
          BY <2>2 DEF IdsOf
        <4> DEFINE byOffset == [x \in DOMAIN attempts |-> DeliveryId(x, attempts[x])]
                   byId     == [id \in IdsOf(attempts) |->
                                  [slot |-> id.slot, attempt |-> id.attempt,
                                   consumer |-> c, leaseExpiresAt |-> lease]]
        <4>4. t = [s EXCEPT !.attemptCounts = Insert(@, attempts),
                            !.pendingByOffset = Insert(@, byOffset),
                            !.pending = Insert(@, byId)]
          BY DEF ApplyConsumed, IdsOf
        <4> HIDE DEF byOffset, byId
        <4>5. /\ Insert(s.attemptCounts, attempts) = s.attemptCounts
              /\ Insert(s.pendingByOffset, byOffset) = s.pendingByOffset
              /\ Insert(s.pending, byId) = s.pending
          BY <2>2, <4>1, <4>2, <4>3 DEF byOffset, byId
        <4>6. Shape(t) /\ \A f \in StateFields : t[f] = s[f]
          <5> HIDE DEF t
          <5>1. /\ t.attemptCounts = Insert(s.attemptCounts, attempts)
                /\ t.pendingByOffset = Insert(s.pendingByOffset, byOffset)
                /\ t.pending = Insert(s.pending, byId)
                /\ t.acked = s.acked /\ t.deadLettered = s.deadLettered
                /\ t.deadLetters = s.deadLetters /\ t.cursor = s.cursor
                /\ t.retryByOffset = s.retryByOffset /\ Shape(t)
            BY <4>1, <4>4 DEF Shape, StateFields
          <5> QED BY <4>5, <5>1 DEF StateFields
        <4> HIDE DEF t
        <4>7. [f \in StateFields |-> t[f]] = [f \in StateFields |-> s[f]]
          BY <4>6
        <4> QED BY <4>1, <4>6, <4>7 DEF Shape
      <3>2. H = {}
        BY <2>2
      <3> HIDE DEF t, H
      <3>3. Succeeds(b, a.broker, r.now, {}, I) /\ a.broker.ds = s
        BY <2>1, <3>1, <1>3
      <3>4. BatchOK(s, c, {}, I)
        BY <1>2, EmptyBatch
      <3> QED BY <2>1, <3>2, <3>3, <3>4
    <2>3. CASE DOMAIN attempts # {}
      <3>1. lease \in Timestamps
        BY <1>1, <1>5, <2>3, PolicyAssumption DEF Overflows, Timestamps
      <3>2. H \subseteq HeldMessages /\ { h.id : h \in H } = ids
            /\ \A h \in H : /\ h.id \in ids /\ h.leaseExpiresAt = lease
                            /\ h.life = restarts /\ h.settling = FALSE
        <4>1. \A x \in DOMAIN attempts : attempts[x] \in Nat \ {0} /\ x \in Slots
          BY <1>2 DEF DeliveryInv, DeliveryTypeOK, IsMap, NextAttemptNumber
        <4>2. \A x \in DOMAIN attempts : DeliveryId(x, attempts[x]) \in DeliveryIds
          BY <4>1, RecordFacts
        <4>3. \A x \in DOMAIN attempts :
                LET h == ConsumedMessage(x, attempts[x], lease)
                IN  /\ h \in HeldMessages /\ h.id = DeliveryId(x, attempts[x])
                    /\ h.leaseExpiresAt = lease /\ h.life = restarts /\ h.settling = FALSE
          BY <3>1, <4>2 DEF ConsumedMessage, HeldMessages
        <4> QED BY <4>3 DEF IdsOf
      <3> HIDE DEF lease, H, ids
      <3>3. /\ Follows(s, t, r.now, {}, I \cup ids) /\ ids \cap I = {}
            /\ Leased(t, ids, c, lease)
        BY <1>2, <3>1, ConsumedFollows DEF ids
      <3> HIDE DEF t
      <3>4. Follows(b.ds, t, r.now, {}, I)
        <4>1. Follows(s, t, r.now, {}, I)
          BY <1>1, <1>2, <3>3, FollowsLater
        <4> QED BY <4>1, FollowsOn
      <3>5. Succeeds(b, a.broker, r.now, {}, I) /\ a.broker.ds = t
        BY <1>3, <2>1, <3>4
      <3>6. BatchOK(t, c, H, I)
        BY <3>2, <3>3 DEF BatchOK, LeaseStands, Leased, Follows
      <3> QED BY <2>1, <3>5, <3>6
    <2> QED BY <2>2, <2>3
  <1> QED BY <1>4, <1>5

\* consume, with the maintenance before it: no lease is ended that runs at the
\* clock value of the request.
LEMMA ConsumeFacts ==
  ASSUME NEW b, BrokerInv(b), NEW I, I \subseteq DeliveryIds, IssuedTracked(b.ds, I),
         restarts \in Nat, NEW c \in Consumers,
         NEW r \in [op: {"consume"}, topic: Topics, now: Nat, lease: Nat],
         NEW a \in ConsumeInner(b, c, r)
  PROVE  Succeeds(b, a.broker, r.now, {}, I) /\ BatchOK(a.broker.ds, c, a.body, I)
  <1>1. ASSUME NEW code, a = Refuse(b, code)
        PROVE  Succeeds(b, a.broker, r.now, {}, I) /\ BatchOK(a.broker.ds, c, a.body, I)
    <2>1. a.broker = b /\ a.body = {}
      BY <1>1 DEF Refuse
    <2>2. Succeeds(b, b, r.now, {}, I)
      BY BrokerStays
    <2>3. BatchOK(b.ds, c, {}, I)
      BY EmptyBatch
    <2> QED BY <2>1, <2>2, <2>3
  <1>2. CASE \/ r.topic \notin b.topics
             \/ MaxBatch = 0 \/ r.lease = 0 \/ ~CanMaintain(b.ds, r.now)
    <2>1. \E code : a = Refuse(b, code)
      BY <1>2 DEF ConsumeInner
    <2> QED BY <1>1, <2>1
  <1>3. CASE /\ r.topic \in b.topics
             /\ MaxBatch # 0 /\ r.lease # 0 /\ CanMaintain(b.ds, r.now)
    <2> DEFINE lens     == [p \in Partitions |-> Len(b.logs[r.topic][p])]
               s        == Maintain(b.ds, r.now)
               slots    == Selected(s, MemberOf[c], r.topic, lens, MaxBatch)
               attempts == [x \in slots |-> NextAttemptNumber(s, x)]
    <2>1. a = Deliver(b, c, r, s, attempts)
      BY <1>3 DEF ConsumeInner
    <2>2. r.topic \in Topics /\ r.now \in Nat /\ MemberOf[c] \in Groups
      BY ServerAssumption
    <2>3. lens \in [Partitions -> Nat]
      BY <2>2 DEF BrokerInv, MessageLogs
    <2> HIDE DEF lens
    <2>4. \A x \in slots : x \in Slots /\ IsAvailable(s, x)
      BY <2>2, <2>3, SelectedFacts
    <2>5. Follows(b.ds, s, r.now, {}, I)
      BY <1>3, <2>2, MaintainFollows DEF BrokerInv
    <2>6. attempts = [x \in slots |-> NextAttemptNumber(s, x)]
      OBVIOUS
    <2> HIDE DEF s, slots, attempts
    <2> QED BY <2>1, <2>4, <2>5, <2>6, DeliverFacts
  <1> QED BY <1>2, <1>3

\* Whatever a request finds, it takes from other consumers nothing whose lease no
\* consume has seen end, and its answer is true.
Handled(c, r, a) ==
  /\ Succeeds(broker, a.broker, LatestAfter(r), Mine(broker.ds, c, r), KnownIds)
  /\ r.op # "consume" => \A f \in a.body : Fact(a.broker, f)
  /\ r.op = "consume" => c \in Consumers /\ BatchOK(a.broker.ds, c, a.body, KnownIds)

\* An ACK or NACK on its way is a consumer's, and of a delivery.
LEMMA LateConsumer ==
  ASSUME ClientsOK, NEW q \in late, Settling(q[2])
  PROVE  q[1] \in Consumers /\ q[2].id \in DeliveryIds
  <1>1. ValidRequest(q[1], q[2])
    BY DEF ClientsOK
  <1> QED BY <1>1 DEF ValidRequest, Settling, AdminRequests

\* The deliveries clients know of have ids.
LEMMA KnownType == ClientsOK => KnownIds \subseteq DeliveryIds
  <1> SUFFICES ASSUME ClientsOK PROVE KnownIds \subseteq DeliveryIds
    OBVIOUS
  <1>1. \A c \in Consumers : \A h \in held[c] : h.id \in DeliveryIds
    BY DEF ClientsOK, HeldMessages
  <1>2. \A q \in late : Settling(q[2]) => q[2].id \in DeliveryIds
    BY LateConsumer
  <1> QED BY <1>1, <1>2 DEF KnownIds, HeldIds, LateIds

\* Every handler does so.
LEMMA HandleFacts ==
  ASSUME SInv, NEW c, NEW r, ValidRequest(c, r), NEW a \in Handle(c, r)
  PROVE  Handled(c, r, a)
  <1> DEFINE X == Mine(broker.ds, c, r)
  <1>1. /\ BrokerInv(broker) /\ IssuedTracked(broker.ds, KnownIds)
        /\ clock \in Nat /\ latest \in Nat /\ restarts \in Nat /\ KnownIds \subseteq DeliveryIds
    BY KnownType DEF SInv, ClientsOK
  <1>2. ASSUME r.op # "consume", Truthful(broker, a, LatestAfter(r), X, KnownIds)
        PROVE  Handled(c, r, a)
    BY <1>2 DEF Handled, Truthful
  <1> HIDE DEF X
  <1>3. CASE r \in AdminRequests
    <2>1. CASE r.op = "create_topic"
      <3>1. a = CreateTopic(broker, r)
        BY <2>1 DEF Handle
      <3> QED BY <1>1, <1>2, <1>3, <2>1, <3>1, CreateTopicTruthful
    <2>2. CASE r.op = "list_dlq"
      <3>1. a = ListDlq(broker, r)
        BY <2>2 DEF Handle
      <3> QED BY <1>1, <1>2, <1>3, <2>2, <3>1, ListDlqTruthful
    <2> QED BY <1>3, <2>1, <2>2 DEF AdminRequests
  <1>4. CASE r \in [op: {"publish"}, topic: Topics, msg: Messages]
    <2>1. a = PublishInner(broker, r) /\ r.op # "consume"
      BY <1>4 DEF Handle
    <2> QED BY <1>1, <1>2, <1>4, <2>1, PublishTruthful
  <1>5. CASE c \in Consumers /\ r \in [op: {"consume"}, topic: Topics, now: Nat, lease: Nat]
    <2>1. a \in ConsumeInner(broker, c, r) /\ r.op = "consume" /\ Mine(broker.ds, c, r) = {}
      BY <1>5 DEF Handle, Mine, Settling
    <2>2. /\ Succeeds(broker, a.broker, r.now, {}, KnownIds)
          /\ BatchOK(a.broker.ds, c, a.body, KnownIds)
      BY <1>1, <1>5, <2>1, ConsumeFacts
    <2>3. /\ r.now \in Nat /\ LatestAfter(r) \in Nat /\ r.now <= LatestAfter(r)
          /\ DeliveryInv(broker.ds)
      BY <1>1, <1>5, <2>1 DEF LatestAfter, BrokerInv
    <2>4. Follows(broker.ds, a.broker.ds, LatestAfter(r), {}, KnownIds)
      BY <2>2, <2>3, FollowsLater DEF Succeeds
    <2>5. Succeeds(broker, a.broker, LatestAfter(r), {}, KnownIds)
      BY <2>2, <2>4 DEF Succeeds
    <2> QED BY <1>5, <2>1, <2>2, <2>5 DEF Handled
  <1>6. CASE c \in Consumers /\ r \in [op: {"ack", "nack"}, id: DeliveryIds]
    <2>1. CASE r.op = "ack"
      <3>1. a = AckInner(broker, c, r)
        BY <2>1 DEF Handle
      <3> QED BY <1>1, <1>2, <1>6, <2>1, <3>1, AckTruthful DEF X
    <2>2. CASE r.op = "nack"
      <3>1. a = NackInner(broker, c, r)
        BY <2>2 DEF Handle
      <3> QED BY <1>1, <1>2, <1>6, <2>2, <3>1, NackTruthful DEF X
    <2> QED BY <1>6, <2>1, <2>2
  <1> QED BY <1>3, <1>4, <1>5, <1>6 DEF ValidRequest

-----------------------------------------------------------------------------
(* Every step preserves the invariant.                                     *)

\* The latest clock value of the consumes does not go back.
LEMMA LatestGrows ==
  ASSUME SInv, NEW c, NEW r, ValidRequest(c, r)
  PROVE  /\ LatestAfter(r) \in Nat /\ latest <= LatestAfter(r)
         /\ \A e \in Consumers : \A h \in held[e] :
              LatestAfter(r) < h.leaseExpiresAt => latest < h.leaseExpiresAt
  <1>1. latest \in Nat /\ (r.op = "consume" => r.now \in Nat)
    BY DEF SInv, ClientsOK, ValidRequest, AdminRequests
  <1>2. LatestAfter(r) \in Nat /\ latest <= LatestAfter(r)
    BY <1>1 DEF LatestAfter
  <1>3. \A e \in Consumers : \A h \in held[e] : h.leaseExpiresAt \in Int
    BY PolicyAssumption DEF SInv, ClientsOK, HeldMessages, Timestamps
  <1> QED BY <1>1, <1>2, <1>3

\* Tracking is about each id by itself.
LEMMA TrackedSubset ==
  ASSUME NEW s, NEW I, NEW J, IssuedTracked(s, I), J \subseteq I
  PROVE  IssuedTracked(s, J)
  BY DEF IssuedTracked

\* Clients make valid requests, and settle what they hold.
LEMMA RequestsValid ==
  ASSUME ClientsOK, NEW c \in Clients, NEW r \in Requests(c)
  PROVE  /\ ValidRequest(c, r)
         /\ Settling(r) => c \in Consumers /\ \E h \in held[c] : h.id = r.id
  <1>1. CASE c \in Producers
    <2>1. r \in AdminRequests \/ r \in PublishRequests
      BY <1>1 DEF Requests
    <2>2. r \in AdminRequests \/ r \in [op: {"publish"}, topic: Topics, msg: Messages]
      BY <2>1 DEF PublishRequests
    <2>3. r.op \notin {"ack", "nack"}
      BY <2>2 DEF AdminRequests
    <2> QED BY <2>2, <2>3 DEF ValidRequest, Settling
  <1>2. CASE c \notin Producers
    <2>1. c \in Consumers /\ (r \in ConsumeRequests(c) \/ r \in SettleRequests(c))
      BY <1>2 DEF Requests, Clients
    <2>2. CASE r \in ConsumeRequests(c)
      <3>1. LeasesOf[c] \subseteq Nat
        BY <2>1, ServerAssumption
      <3>2. r \in [op: {"consume"}, topic: Topics, now: Nat, lease: Nat]
        BY <2>2, <3>1, PolicyAssumption DEF ConsumeRequests, Timestamps
      <3>3. r.op = "consume"
        BY <3>2
      <3> QED BY <2>1, <3>2, <3>3 DEF ValidRequest, Settling
    <2>3. CASE r \in SettleRequests(c)
      <3>1. \A h \in held[c] : h.id \in DeliveryIds
        BY <2>1 DEF ClientsOK, HeldMessages
      <3>2. /\ r \in [op: {"ack", "nack"}, id: DeliveryIds]
            /\ \E h \in held[c] : h.id = r.id
        BY <2>3, <3>1 DEF SettleRequests
      <3> QED BY <2>1, <3>2 DEF ValidRequest
    <2> QED BY <2>1, <2>2, <2>3
  <1> QED BY <1>1, <1>2

\* A lease that runs is kept, unless the request is the holder's own.
LEMMA LeaseKept ==
  ASSUME NEW b, NEW d, NEW now, NEW X, NEW I, Succeeds(b, d, now, X, I),
         NEW c, NEW h, LeaseStands(b.ds, c, h), now < h.leaseExpiresAt, h.id \notin X
  PROVE  LeaseStands(d.ds, c, h)
  BY DEF LeaseStands, Succeeds, Follows, KeepsLeases

\* A call that is answered.
LEMMA CallStep ==
  ASSUME SInv, NEW c \in Clients, NEW r \in Requests(c), Call(c, r)
  PROVE  SInv'
  <1>1. PICK a \in Handle(c, r) : /\ broker' = a.broker
                                  /\ latest' = LatestAfter(r)
                                  /\ held' = HeldAfter(c, r, a.body)
                                  /\ told' = IF r.op = "consume" THEN told ELSE told \cup a.body
    BY DEF Call
  <1>2. UNCHANGED <<clock, up, restarts, late>>
    BY DEF Call
  <1>3. ClientsOK
    BY DEF SInv
  <1>4. ValidRequest(c, r) /\ (Settling(r) => c \in Consumers)
    BY <1>3, RequestsValid
  <1>5. Handled(c, r, a)
    BY <1>4, HandleFacts
  <1>6. Succeeds(broker, broker', latest', Mine(broker.ds, c, r), KnownIds)
    BY <1>1, <1>5 DEF Handled
  <1>7. BrokerInv(broker') /\ IssuedTracked(broker'.ds, KnownIds)
    BY <1>6 DEF Succeeds, Follows
  <1>8. \A f \in told' : Fact(broker', f)
    <2>1. \A f \in told : Fact(broker', f)
      BY <1>6, FactStays DEF SInv
    <2>2. r.op # "consume" => \A f \in a.body : Fact(broker', f)
      BY <1>1, <1>5 DEF Handled
    <2> QED BY <1>1, <2>1, <2>2
  <1>9. /\ latest' \in Nat
         /\ \A e \in Consumers : \A h \in held[e] :
              latest' < h.leaseExpiresAt => latest < h.leaseExpiresAt
    BY <1>1, <1>4, LatestGrows
  <1>10. CASE r.op = "consume"
    <2>1. c \in Consumers /\ BatchOK(broker'.ds, c, a.body, KnownIds)
      BY <1>1, <1>5, <1>10 DEF Handled
    <2>2. held' = [held EXCEPT ![c] = a.body]
      BY <1>1, <1>10 DEF HeldAfter
    <2>3. /\ held'[c] = a.body
          /\ \A e \in Consumers \ {c} : held'[e] = held[e]
          /\ held' \in [Consumers -> SUBSET HeldMessages]
      BY <1>3, <2>1, <2>2 DEF ClientsOK, BatchOK
    <2>4. ClientsOK'
      <3>1. \A e \in Consumers : \A h \in held'[e] : h.life <= restarts
        BY <1>3, <2>1, <2>3 DEF ClientsOK, BatchOK
      <3> QED BY <1>2, <1>3, <1>9, <2>3, <3>1 DEF ClientsOK
    <2>5. IssuedTracked(broker'.ds, KnownIds')
      <3> DEFINE J == KnownIds \cup { h.id : h \in a.body }
      <3>1. KnownIds' \subseteq J
        BY <1>2, <2>3 DEF KnownIds, HeldIds, LateIds
      <3>2. IssuedTracked(broker'.ds, J)
        BY <2>1 DEF BatchOK
      <3> HIDE DEF J
      <3> QED BY <3>1, <3>2, TrackedSubset
    <2>6. LateKnown'
      <3> SUFFICES ASSUME NEW q \in late, Settling(q[2]),
                          NEW h \in held'[q[1]], h.id = q[2].id
                   PROVE  h.settling
        BY <1>2 DEF LateKnown
      <3>1. q[2].id \in KnownIds
        BY DEF KnownIds, LateIds
      <3>2. q[1] \in Consumers
        BY <1>3, LateConsumer
      <3>3. CASE q[1] = c
        BY <2>1, <2>3, <3>1, <3>3 DEF BatchOK
      <3>4. CASE q[1] # c
        BY <2>3, <3>2, <3>4 DEF SInv, LateKnown
      <3> QED BY <3>3, <3>4
    <2>7. LeasesStand'
      <3> SUFFICES ASSUME NEW e \in Consumers, NEW h \in held'[e],
                          ~h.settling, latest' < h.leaseExpiresAt, h.life = restarts
                   PROVE  LeaseStands(broker'.ds, e, h)
        BY <1>2 DEF LeasesStand
      <3>1. CASE e = c
        BY <2>1, <2>3, <3>1 DEF BatchOK
      <3>2. CASE e # c
        <4>1. LeaseStands(broker.ds, e, h)
          BY <1>9, <2>3, <3>2 DEF SInv, LeasesStand
        <4>2. Mine(broker.ds, c, r) = {}
          BY <1>10 DEF Mine, Settling
        <4> QED BY <1>6, <4>1, <4>2, LeaseKept
      <3> QED BY <3>1, <3>2
    <2> QED BY <1>7, <1>8, <2>4, <2>5, <2>6, <2>7 DEF SInv
  <1>11. CASE r.op # "consume"
    <2>1. /\ DOMAIN held' = Consumers
          /\ held' \in [Consumers -> SUBSET HeldMessages]
          /\ \A e \in Consumers : held'[e] \subseteq held[e]
          /\ Settling(r) => \A h \in held'[c] : h.id # r.id
      BY <1>1, <1>3, <1>4, <1>11 DEF HeldAfter, Settling, ClientsOK
    <2>2. ClientsOK'
      BY <1>2, <1>3, <1>9, <2>1 DEF ClientsOK
    <2>3. IssuedTracked(broker'.ds, KnownIds')
      <3>1. KnownIds' \subseteq KnownIds
        BY <1>2, <2>1 DEF KnownIds, HeldIds, LateIds
      <3> QED BY <1>7, <3>1, TrackedSubset
    <2>4. LateKnown'
      <3> SUFFICES ASSUME NEW q \in late, Settling(q[2]),
                          NEW h \in held'[q[1]], h.id = q[2].id
                   PROVE  h.settling
        BY <1>2 DEF LateKnown
      <3>1. q[1] \in Consumers
        BY <1>3, LateConsumer
      <3> QED BY <2>1, <3>1 DEF SInv, LateKnown
    <2>5. LeasesStand'
      <3> SUFFICES ASSUME NEW e \in Consumers, NEW h \in held'[e],
                          ~h.settling, latest' < h.leaseExpiresAt, h.life = restarts
                   PROVE  LeaseStands(broker'.ds, e, h)
        BY <1>2 DEF LeasesStand
      <3>1. LeaseStands(broker.ds, e, h)
        BY <1>9, <2>1 DEF SInv, LeasesStand
      <3>2. h.id \notin Mine(broker.ds, c, r)
        BY <2>1, <3>1 DEF Mine, LeaseStands
      <3> QED BY <1>6, <3>1, <3>2, LeaseKept
    <2> QED BY <1>7, <1>8, <2>2, <2>3, <2>4, <2>5 DEF SInv
  <1> QED BY <1>10, <1>11

\* A call that is given up: the consumer of an ACK or NACK knows that it may be
\* executed.
LEMMA AbandonStep ==
  ASSUME SInv, NEW c \in Clients, NEW r \in Requests(c), Abandon(c, r)
  PROVE  SInv'
  <1> DEFINE Mark(h) == IF h.id = r.id THEN [h EXCEPT !.settling = TRUE] ELSE h
  <1>1. /\ late' = late \cup {<<c, r>>}
        /\ held' = IF Settling(r) THEN [held EXCEPT ![c] = { Mark(h) : h \in @ }] ELSE held
        /\ UNCHANGED <<clock, latest, broker, up, restarts, told>>
    BY DEF Abandon, Settling
  <1>2. ClientsOK
    BY DEF SInv
  <1>3. /\ ValidRequest(c, r)
        /\ Settling(r) => c \in Consumers /\ \E h \in held[c] : h.id = r.id
    BY <1>2, RequestsValid
  <1>4. ASSUME NEW e \in Consumers, NEW h \in held[e]
        PROVE  /\ Mark(h) \in HeldMessages /\ Mark(h).id = h.id
               /\ Mark(h).leaseExpiresAt = h.leaseExpiresAt /\ Mark(h).life = h.life
               /\ h.settling => Mark(h).settling
               /\ h.id = r.id => Mark(h).settling
    <2>1. h \in HeldMessages
      BY <1>2 DEF ClientsOK
    <2> QED BY <2>1 DEF HeldMessages
  <1> HIDE DEF Mark
  <1>5. ASSUME NEW e \in Consumers, NEW g \in held'[e]
        PROVE  \E h \in held[e] : /\ g \in HeldMessages /\ g.id = h.id /\ g.life = h.life
                                  /\ g.leaseExpiresAt = h.leaseExpiresAt
                                  /\ h.settling => g.settling
                                  /\ Settling(r) /\ e = c /\ g.id = r.id => g.settling
    <2>1. CASE Settling(r) /\ e = c
      <3>1. held'[e] = { Mark(h) : h \in held[e] }
        BY <1>1, <1>2, <2>1 DEF ClientsOK
      <3>2. PICK h \in held[e] : g = Mark(h)
        BY <3>1
      <3>3. /\ g \in HeldMessages /\ g.id = h.id /\ g.life = h.life
            /\ g.leaseExpiresAt = h.leaseExpiresAt
            /\ h.settling => g.settling
            /\ h.id = r.id => g.settling
        BY <1>4, <3>2
      <3> QED BY <3>3
    <2>2. CASE ~(Settling(r) /\ e = c)
      <3>1. held'[e] = held[e]
        BY <1>1, <1>2, <1>3, <2>2 DEF ClientsOK
      <3>2. held[e] \subseteq HeldMessages
        BY <1>2 DEF ClientsOK
      <3> QED BY <2>2, <3>1, <3>2
    <2> QED BY <2>1, <2>2
  <1>6. DOMAIN held' = Consumers /\ held' = [e \in Consumers |-> held'[e]]
    BY <1>1, <1>2 DEF ClientsOK
  <1>7. ClientsOK'
    <2>1. held' \in [Consumers -> SUBSET HeldMessages]
      BY <1>5, <1>6
    <2>2. \A e \in Consumers : \A g \in held'[e] : g.life <= restarts
      BY <1>2, <1>5 DEF ClientsOK
    <2>3. \A q \in late' : ValidRequest(q[1], q[2])
      BY <1>1, <1>2, <1>3 DEF ClientsOK
    <2> QED BY <1>1, <1>2, <2>1, <2>2, <2>3 DEF ClientsOK
  <1>8. KnownIds' \subseteq KnownIds
    <2>1. HeldIds' \subseteq HeldIds
      BY <1>5 DEF HeldIds
    <2>2. LateIds' \subseteq LateIds \cup HeldIds
      <3> SUFFICES ASSUME NEW q \in late', Settling(q[2]) PROVE q[2].id \in LateIds \cup HeldIds
        BY DEF LateIds
      <3>1. CASE q \in late
        BY <3>1 DEF LateIds
      <3>2. CASE q = <<c, r>>
        BY <1>3, <3>2 DEF HeldIds
      <3> QED BY <1>1, <3>1, <3>2
    <2> QED BY <2>1, <2>2 DEF KnownIds
  <1>9. IssuedTracked(broker'.ds, KnownIds')
    BY <1>1, <1>8, TrackedSubset DEF SInv
  <1>10. LateKnown'
    <2> SUFFICES ASSUME NEW q \in late', Settling(q[2]), NEW g \in held'[q[1]], g.id = q[2].id
                 PROVE  g.settling
      BY DEF LateKnown
    <2>1. CASE q \in late
      <3>1. q[1] \in Consumers
        BY <1>2, <2>1, LateConsumer
      <3>2. PICK h \in held[q[1]] : g.id = h.id /\ (h.settling => g.settling)
        BY <1>5, <3>1
      <3> QED BY <2>1, <3>2 DEF SInv, LateKnown
    <2>2. CASE q = <<c, r>>
      BY <1>3, <1>5, <2>2
    <2> QED BY <1>1, <2>1, <2>2
  <1>11. LeasesStand'
    <2> SUFFICES ASSUME NEW e \in Consumers, NEW g \in held'[e],
                        ~g.settling, latest < g.leaseExpiresAt, g.life = restarts
                 PROVE  LeaseStands(broker.ds, e, g)
      BY <1>1 DEF LeasesStand
    <2>1. PICK h \in held[e] : /\ g.id = h.id /\ g.life = h.life
                               /\ g.leaseExpiresAt = h.leaseExpiresAt
                               /\ h.settling => g.settling
      BY <1>5
    <2>2. LeaseStands(broker.ds, e, h)
      BY <2>1 DEF SInv, LeasesStand
    <2> QED BY <2>1, <2>2 DEF LeaseStands
  <1> QED BY <1>1, <1>7, <1>9, <1>10, <1>11 DEF SInv

\* The clients know and hold what they did, and requests on their way may be
\* gone: what remains to show is about the broker.
LEMMA FewerLate ==
  ASSUME SInv, UNCHANGED <<restarts, held, told>>, late' \subseteq late,
         clock' \in Nat, latest' \in Nat,
         \A c \in Consumers : \A h \in held[c] :
           latest' < h.leaseExpiresAt => latest < h.leaseExpiresAt,
         NEW X, Succeeds(broker, broker', latest', X, KnownIds),
         \A c \in Consumers : \A h \in held[c] : ~h.settling => h.id \notin X \/ ~LeaseStands(broker.ds, c, h)
  PROVE  SInv'
  <1>1. ClientsOK'
    BY DEF SInv, ClientsOK
  <1>2. KnownIds' \subseteq KnownIds
    BY DEF KnownIds, HeldIds, LateIds
  <1>3. BrokerInv(broker') /\ IssuedTracked(broker'.ds, KnownIds)
    BY DEF Succeeds, Follows
  <1>4. IssuedTracked(broker'.ds, KnownIds')
    BY <1>2, <1>3, TrackedSubset
  <1>5. LateKnown'
    BY DEF SInv, LateKnown
  <1>6. LeasesStand'
    <2> SUFFICES ASSUME NEW e \in Consumers, NEW h \in held[e],
                        ~h.settling, latest' < h.leaseExpiresAt, h.life = restarts
                 PROVE  LeaseStands(broker'.ds, e, h)
      BY DEF LeasesStand
    <2>1. LeaseStands(broker.ds, e, h)
      BY DEF SInv, LeasesStand
    <2> QED BY <2>1, LeaseKept
  <1>7. \A f \in told' : Fact(broker', f)
    BY FactStays DEF SInv
  <1> QED BY <1>1, <1>3, <1>4, <1>5, <1>6, <1>7 DEF SInv

\* A request whose client has given up is executed.
LEMMA ServeLateStep ==
  ASSUME SInv, NEW q \in late, ServeLate(q[1], q[2])
  PROVE  SInv'
  <1> DEFINE c == q[1]
             r == q[2]
  <1>1. PICK a \in Handle(c, r) : broker' = a.broker
    BY DEF ServeLate
  <1>2. /\ UNCHANGED <<clock, restarts, held, told>> /\ late' \subseteq late
        /\ latest' = LatestAfter(r) /\ clock \in Nat
    BY DEF ServeLate, SInv, ClientsOK
  <1>3. ValidRequest(c, r)
    BY DEF SInv, ClientsOK
  <1>4. Handled(c, r, a)
    BY <1>3, HandleFacts
  <1>5. Succeeds(broker, broker', latest', Mine(broker.ds, c, r), KnownIds)
    BY <1>1, <1>2, <1>4 DEF Handled
  <1>6. ASSUME NEW e \in Consumers, NEW h \in held[e], ~h.settling,
               h.id \in Mine(broker.ds, c, r), LeaseStands(broker.ds, e, h)
        PROVE  FALSE
    <2>1. Settling(r) /\ h.id = r.id /\ e = c
      BY <1>6 DEF Mine, LeaseStands
    <2> QED BY <1>6, <2>1 DEF SInv, LateKnown
  <1>7. /\ latest' \in Nat
        /\ \A e \in Consumers : \A h \in held[e] :
             latest' < h.leaseExpiresAt => latest < h.leaseExpiresAt
    BY <1>2, <1>3, LatestGrows
  <1> QED BY <1>2, <1>5, <1>6, <1>7, FewerLate

\* A request is lost, brokerd serves again, or time passes.
LEMMA LoseStep ==
  ASSUME SInv, UNCHANGED <<latest, broker, restarts, held, told>>, clock' \in Nat,
         late' \subseteq late
  PROVE  SInv'
  <1>1. latest \in Nat
    BY DEF SInv, ClientsOK
  <1>2. Succeeds(broker, broker', latest', {}, KnownIds)
    BY BrokerStays DEF SInv
  <1> QED BY <1>1, <1>2, FewerLate

\* brokerd dies, before or after the maintenance of a consume: no lease is of the
\* next life.
LEMMA CrashStep ==
  ASSUME SInv, Crash
  PROVE  SInv'
  <1> DEFINE X == DOMAIN broker.ds.pending
  <1>1. /\ restarts' = restarts + 1 /\ late' = {} /\ latest' = 0
        /\ UNCHANGED <<clock, held, told>>
    BY DEF Crash
  <1>2. BrokerInv(broker) /\ DeliveryInv(broker.ds) /\ IssuedTracked(broker.ds, KnownIds)
    BY DEF SInv, BrokerInv
  <1>3. Succeeds(broker, broker', clock, X, KnownIds)
    <2>1. CASE broker' = [broker EXCEPT !.ds = ReleasePending(@)]
      <3>1. Follows(broker.ds, ReleasePending(broker.ds), clock, X, KnownIds)
        BY <1>2, ReleaseFollows
      <3> QED BY <1>2, <2>1, <3>1, DeliverySucceeds
    <2>2. ASSUME NEW c \in Consumers, NEW r \in ConsumeRequests(c), CanMaintain(broker.ds, r.now),
                 broker' = [broker EXCEPT !.ds = ReleasePending(Maintain(@, r.now))]
          PROVE  Succeeds(broker, broker', clock, X, KnownIds)
      <3> DEFINE s == Maintain(broker.ds, r.now)
                 t == ReleasePending(s)
      <3>1. r.now \in Nat
        BY PolicyAssumption DEF ConsumeRequests, Timestamps
      <3>2. Follows(broker.ds, s, r.now, {}, KnownIds)
        BY <1>2, <2>2, <3>1, MaintainFollows
      <3>3. broker' = [broker EXCEPT !.ds = t]
        BY <2>2
      <3> HIDE DEF s
      <3>4. Follows(s, t, r.now, DOMAIN s.pending, KnownIds)
        BY <3>2, ReleaseFollows DEF Follows
      <3> HIDE DEF t
      <3>5. Follows(broker.ds, t, clock, X, KnownIds)
        BY <3>2, <3>4 DEF Follows, KeepsSettled, KeepsLeases
      <3> QED BY <1>2, <3>3, <3>5, DeliverySucceeds
    <2> QED BY <2>1, <2>2 DEF Crash
  <1>4. BrokerInv(broker') /\ IssuedTracked(broker'.ds, KnownIds)
    BY <1>3 DEF Succeeds, Follows
  <1>5. /\ restarts \in Nat
        /\ \A c \in Consumers : \A h \in held[c] : h.life \in Nat /\ h.life <= restarts
    BY DEF SInv, ClientsOK, HeldMessages
  <1>6. \A c \in Consumers : \A h \in held[c] : h.life <= restarts' /\ h.life # restarts'
    BY <1>1, <1>5
  <1>7. ClientsOK'
    BY <1>1, <1>5, <1>6 DEF SInv, ClientsOK
  <1>8. KnownIds' \subseteq KnownIds
    BY <1>1 DEF KnownIds, HeldIds, LateIds
  <1>9. IssuedTracked(broker'.ds, KnownIds')
    BY <1>4, <1>8, TrackedSubset
  <1>10. LateKnown' /\ LeasesStand'
    BY <1>1, <1>6 DEF LateKnown, LeasesStand
  <1>11. \A f \in told' : Fact(broker', f)
    BY <1>1, <1>3, FactStays DEF SInv
  <1> QED BY <1>4, <1>7, <1>9, <1>10, <1>11 DEF SInv

\* A new brokerd knows nothing and has told nothing.
LEMMA InitFacts == Init => SInv
  <1> SUFFICES ASSUME Init PROVE SInv
    OBVIOUS
  <1>1. /\ broker.topics = {} /\ broker.logs = EmptyLogs
        /\ broker.nextRR = [t \in Topics |-> 0] /\ broker.index = EmptyMap
        /\ broker.ds = EmptyState /\ broker = [f \in BrokerFields |-> broker[f]]
    BY DEF Init, BrokerFields
  <1>2. /\ EmptyLogs \in MessageLogs
        /\ \A t \in Topics : Positions(EmptyLogs, t) = {}
    BY DEF EmptyLogs, MessageLogs, Positions
  <1>3. \A t \in Topics : \A k : KeyPositions(EmptyLogs, t, k) = {}
    BY <1>2 DEF KeyPositions
  <1>4. KeysUnique(EmptyLogs)
    BY <1>3 DEF KeysUnique
  <1>5. RecoveredIndex(EmptyLogs, {}) = EmptyMap
    BY DEF RecoveredIndex, RecoveredKeys, EmptyMap
  <1>6. BrokerInv(broker)
    BY <1>1, <1>2, <1>4, <1>5, EmptyInv, PartitionFacts DEF BrokerInv
  <1>7. ClientsOK
    BY DEF Init, ClientsOK
  <1>8. KnownIds = {}
    BY DEF Init, KnownIds, HeldIds, LateIds
  <1>9. IssuedTracked(broker.ds, KnownIds)
    BY <1>8 DEF IssuedTracked
  <1> QED BY <1>6, <1>7, <1>9 DEF Init, SInv, LateKnown, LeasesStand

-----------------------------------------------------------------------------
(* The theorems.                                                           *)

\* The invariant holds of every behaviour of brokerd and its clients, fair or not.
THEOREM Invariance == Spec => []SInv
  <1>1. SInv /\ [Next]_vars => SInv'
    <2> SUFFICES ASSUME SInv, [Next]_vars PROVE SInv'
      OBVIOUS
    <2>0. clock \in Nat
      BY DEF SInv, ClientsOK
    <2>1. ASSUME NEW c \in Clients, NEW r \in Requests(c), Call(c, r) PROVE SInv'
      BY <2>1, CallStep
    <2>2. ASSUME NEW c \in Clients, NEW r \in Requests(c), Abandon(c, r) PROVE SInv'
      BY <2>2, AbandonStep
    <2>3. ASSUME NEW q \in late, ServeLate(q[1], q[2]) PROVE SInv'
      BY <2>3, ServeLateStep
    <2>4. ASSUME NEW q \in late, Lose(q[1], q[2]) PROVE SInv'
      BY <2>0, <2>4, LoseStep DEF Lose
    <2>5. CASE Crash
      BY <2>5, CrashStep
    <2>6. CASE Open
      BY <2>0, <2>6, LoseStep DEF Open
    <2>7. CASE Tick
      BY <2>0, <2>7, LoseStep DEF Tick
    <2>8. CASE UNCHANGED vars
      BY <2>0, <2>8, LoseStep DEF vars
    <2> QED BY <2>1, <2>2, <2>3, <2>4, <2>5, <2>6, <2>7, <2>8 DEF Next
  <1> QED BY <1>1, InitFacts, PTL DEF Spec

\* What a client was told stays true, whatever other requests, late ones and
\* restarts do: topics, publishes under their key, acknowledgements, dead letters.
THEOREM AnswersTheorem == Spec => []AnswersHold
  <1>1. SInv => AnswersHold
    <2> SUFFICES ASSUME SInv, NEW f \in told, Fact(broker, f)
                 PROVE  CASE f.what = "topic" -> f.topic \in broker.topics
                          [] f.what = "record" ->
                               /\ f.offset < Len(broker.logs[f.topic][f.partition])
                               /\ LET m == broker.logs[f.topic][f.partition][f.offset + 1]
                                  IN  /\ m.id = f.id /\ m.idempotencyKey = f.key
                                      /\ Fingerprint(f.topic, m) = f.fingerprint
                               /\ f.key # NoKey =>
                                    \A p \in Partitions : \A i \in DOMAIN broker.logs[f.topic][p] :
                                      broker.logs[f.topic][p][i].idempotencyKey = f.key
                                        => p = f.partition /\ i = f.offset + 1
                          [] f.what = "acked" -> f.slot \in broker.ds.acked
                          [] f.what = "dead" -> f.entry \in broker.ds.deadLetters
      BY DEF SInv, AnswersHold
    <2>1. CASE f.what = "topic"
      BY <2>1 DEF Fact
    <2>2. CASE f.what = "acked"
      BY <2>2 DEF Fact
    <2>3. CASE f.what = "dead"
      BY <2>3 DEF Fact
    <2>4. CASE f.what = "record"
      <3> DEFINE L == broker.logs
                 t == f.topic
      <3>1. f.offset \in Nat /\ RecordStored(L, f)
        BY <2>4 DEF Fact
      <3>2. L \in MessageLogs /\ KeysUnique(L) /\ t \in Topics /\ f.partition \in Partitions
        BY <3>1 DEF SInv, BrokerInv, RecordStored
      <3>3. \A p \in Partitions : Len(L[t][p]) \in Nat /\ DOMAIN L[t][p] = 1 .. Len(L[t][p])
        BY <3>2, PositionFacts
      <3>4. f.offset < Len(L[t][f.partition])
        <4>1. f.offset + 1 \in 1 .. Len(L[t][f.partition])
          BY <3>1, <3>2, <3>3 DEF RecordStored
        <4> QED BY <3>1, <3>2, <3>3, <4>1
      <3>5. ASSUME f.key # NoKey, NEW p \in Partitions, NEW i \in DOMAIN L[t][p],
                   L[t][p][i].idempotencyKey = f.key
            PROVE  p = f.partition /\ i = f.offset + 1
        <4>1. i \in Nat /\ <<p, i>> \in Positions(L, t)
          BY <3>2, <3>3, PositionFacts
        <4>2. RecordAt(L, t, <<p, i>>) = L[t][p][i] /\ L[t][p][i] \in Messages
          BY <3>2, <4>1, PositionFacts DEF RecordAt
        <4>3. f.key \in IdempotencyKeys
          BY <3>5, <4>2 DEF Messages
        <4>4. <<p, i>> \in KeyPositions(L, t, f.key)
          BY <3>5, <4>1, <4>2 DEF KeyPositions
        <4>5. <<f.partition, f.offset + 1>> \in KeyPositions(L, t, f.key)
          <5>1. f.offset + 1 \in Nat /\ <<f.partition, f.offset + 1>> \in Positions(L, t)
            <6>1. f.offset + 1 \in DOMAIN L[t][f.partition]
              BY <3>1 DEF RecordStored
            <6>2. f.offset + 1 \in Nat
              BY <3>1
            <6> HIDE DEF L, t
            <6>3. f.offset + 1 \in 1 .. Len(L[t][f.partition])
              BY <3>2, <3>3, <6>1
            <6> QED BY <3>2, <6>2, <6>3, PositionFacts
          <5>2. L[t][f.partition][f.offset + 1].idempotencyKey = f.key
            BY <3>1 DEF RecordStored
          <5> QED BY <5>1, <5>2 DEF KeyPositions, RecordAt
        <4> QED BY <3>2, <4>3, <4>4, <4>5 DEF KeysUnique
      <3> QED BY <2>4, <3>1, <3>4, <3>5 DEF RecordStored
    <2> QED BY <2>1, <2>2, <2>3, <2>4 DEF Fact
  <1> QED BY <1>1, Invariance, PTL

\* A consumer that holds a delivery can settle it until its lease has ended by the
\* clock value of some consume, whatever the clients' clocks show, unless it has
\* tried to settle it or brokerd was restarted.
THEOREM LeaseTheorem == Spec => []LeaseHonoured
  <1>1. SInv => LeaseHonoured
    BY DEF SInv, LeasesStand, LeaseStands, LeaseHonoured, PendingForCommand
  <1> QED BY <1>1, Invariance, PTL

=============================================================================
