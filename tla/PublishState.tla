---------------------------- MODULE PublishState -----------------------------
(***************************************************************************)
(* The publish path both brokers share: partition selection                *)
(* (msg-broker/src/helpers.rs), the per-topic round-robin counter          *)
(* (state.rs, durable.rs) and publish idempotency (idempotency.rs).        *)
(* Stateless, like DeliveryState: definitions on values.                   *)
(***************************************************************************)
EXTENDS BrokerTypes, Sequences

CONSTANTS
  MessageIds,       \* MessageEnvelope::id
  PartitionKeys,    \* partition keys a producer may set
  KeyHash,          \* the FNV-1a hash of a partition key
  IdempotencyKeys,  \* idempotency keys a producer may set
  Payloads,         \* everything else the publish fingerprint covers
  NoKey             \* Option::None for either key

ASSUME PublishAssumption ==
  /\ KeyHash \in [PartitionKeys -> Nat]
  /\ NoKey \notin PartitionKeys \cup IdempotencyKeys

Messages == [id: MessageIds,
             partitionKey: PartitionKeys \cup {NoKey},
             idempotencyKey: IdempotencyKeys \cup {NoKey},
             payload: Payloads]

\* The messages of every partition, in offset order: offset o is element o + 1.
EmptyLogs == [t \in Topics |-> [p \in Partitions |-> << >>]]

AppendMessage(logs, t, p, m) == [logs EXCEPT ![t][p] = Append(@, m)]

-----------------------------------------------------------------------------
(* Partition selection.                                                    *)

SelectPartition(m, next) ==
  IF m.partitionKey = NoKey THEN next ELSE KeyHash[m.partitionKey] % NumPartitions

\* Mutant: keyed messages advance the counter too.
AdvanceRoundRobinAlways(m, next) == (next + 1) % NumPartitions

AdvanceRoundRobin(m, next) ==
  IF m.partitionKey = NoKey THEN (next + 1) % NumPartitions ELSE next

-----------------------------------------------------------------------------
(* Publish idempotency. The index maps <<topic, key>> to the identity of   *)
(* the first publish with that key.                                        *)

\* The SHA-256 digest of the semantic intent: not the message id, not the key.
Fingerprint(t, m) == <<t, m.partitionKey, m.payload>>

IdempotencyRecord(t, m, p, o) ==
  [fingerprint |-> Fingerprint(t, m), partition |-> p, offset |-> o, id |-> m.id]

\* Mutant: a reused key with another fingerprint counts as a new publish.
CheckIdempotencyNoConflict(t, m, index) ==
  LET k == <<t, m.idempotencyKey>>
  IN  IF m.idempotencyKey = NoKey THEN "untracked"
      ELSE IF k \in DOMAIN index /\ index[k].fingerprint = Fingerprint(t, m) THEN "replay"
      ELSE "new"

\* check_idempotency
CheckIdempotency(t, m, index) ==
  LET k == <<t, m.idempotencyKey>>
  IN  IF m.idempotencyKey = NoKey THEN "untracked"
      ELSE IF k \notin DOMAIN index THEN "new"
      ELSE IF index[k].fingerprint = Fingerprint(t, m) THEN "replay"
      ELSE "conflict"

\* Mutant: the publish is not entered in the index.
RecordPublishForgets(index, t, m, p, o) == index

\* The index after the message got offset o of partition p.
RecordPublish(index, t, m, p, o) ==
  IF m.idempotencyKey = NoKey THEN index
  ELSE Insert(index, [k \in {<<t, m.idempotencyKey>>} |-> IdempotencyRecord(t, m, p, o)])

-----------------------------------------------------------------------------
(* recover_publish_state: the scan of the message logs L of the topics T.  *)

\* The places <<partition, offset + 1>> of the records of topic t.
Positions(L, t) == UNION { {p} \X DOMAIN L[t][p] : p \in Partitions }

RecordAt(L, t, pos) == L[t][pos[1]][pos[2]]

\* The places in topic t of records with idempotency key k.
KeyPositions(L, t, k) == { pos \in Positions(L, t) : RecordAt(L, t, pos).idempotencyKey = k }

RecoveredKeys(L, T) ==
  { tk \in T \X IdempotencyKeys : KeyPositions(L, tk[1], tk[2]) # {} }

\* A key reused with another intent fails the open.
ConflictingKeys(L, T) ==
  \E tk \in RecoveredKeys(L, T) : \E a, b \in KeyPositions(L, tk[1], tk[2]) :
    Fingerprint(tk[1], RecordAt(L, tk[1], a)) # Fingerprint(tk[1], RecordAt(L, tk[1], b))

\* The first record of a key, by partition and then offset, is its identity.
RecoveredIndex(L, T) ==
  [tk \in RecoveredKeys(L, T) |->
     LET places == KeyPositions(L, tk[1], tk[2])
         first  == CHOOSE a \in places : \A b \in places :
                     a[1] < b[1] \/ (a[1] = b[1] /\ a[2] <= b[2])
     IN  IdempotencyRecord(tk[1], RecordAt(L, tk[1], first), first[1], first[2] - 1)]

UnkeyedPositions(L, t) == { pos \in Positions(L, t) : RecordAt(L, t, pos).partitionKey = NoKey }

RecoveredRR(L, T) ==
  [t \in Topics |->
     IF t \notin T THEN 0 ELSE Cardinality(UnkeyedPositions(L, t)) % NumPartitions]

=============================================================================
