# FerrumQ in TLA+

Models, model checks and proofs for FerrumQ: a message broker in Rust (in-memory
and durable), its storage engine, and the services and clients around it. The
models are translated from the code under `src/crates` and `src/packages`; line
numbers are those of the modelled commit.

## The system

| Component | State | Operations | Interacts with |
| --- | --- | --- | --- |
| Storage engine, `msg-storage` | segment files per partition; metadata of the open log (`SegmentMetadata`, `next_offset`) | `open` (scan, repair), `append` (roll, write, rollback), `read_from` | called by the durable broker, under its mutex |
| In-memory broker, `msg-broker` `BrokerService` | topics, logs, groups (`GroupPartitionState`), pending deliveries, dead letters, idempotency index | `create_topic`, `publish`, `consume`, `ack`, `nack`, `retry_ready`, `list_dlq` | a library; used in tests and as the reference for the durable one |
| Durable broker, `msg-broker` `DurableBroker` | the same in memory; `broker-state/events.jsonl` on disk; one storage log per partition | the same, each an event appended to the state log and then applied; `open` replays | storage engine; called by both servers through one `Arc<Mutex<_>>` |
| Data plane, `msg-data-plane` | the shared broker | gRPC `Publish`, `Consume` (`retry_ready` and `consume` under one lock, with the client's clock), `Ack`, `Nack` (with the server's) | durable broker; clients, with deadlines |
| Control API, `msg-control-api` | the shared broker, optional search | HTTP topics, DLQ, status, health, metrics, search | durable broker, Postgres |
| Runtime, `msg-runtime` | listeners, shutdown channel | `serve-all`, `serve`, `serve-grpc`, `postgres migrate/rebuild/search` | data plane, control API, Postgres |
| Postgres projection, `msg-postgres` | projection tables, migration and run records | migrate, rebuild from the data directory, search | reads the files of the durable broker |
| SDK, `packages/sdk` | calls in progress | HTTP and gRPC requests with deadlines, `close` | control API, data plane |
| Chat, `packages/chat` | lifecycle, poll loop, deduplication cache | start, send, poll, stop | SDK |
| CLI, TUI, protocol packages | none that outlives a request | parse, request, format | control API |

What is hard in it: the durable broker keeps two append-only logs and derives all
its memory from them at a restart, so that every command has to agree with its own
replay; writes fail with the process alive or are cut off by a crash; a delivery
ends in an ACK, a NACK, an expired lease or a restart, and the late answer of its
first consumer may arrive after it was given to another; timestamps come with the
commands and need not increase; acknowledgements arrive in any order; producers
repeat publishes whose answer was lost, and requests are executed after their
clients gave up; expired leases move only when some client consumes; several
`brokerd` processes meet at one database, one pair of addresses and one data
directory; the chat application is stopped between any two awaits. `PROJECT.json` lists these hazards at the
lines where they bite and the properties aimed at each.

What makes each component correct:

* storage: an acknowledged record is found at its offset for ever; a log the
  engine wrote can be opened again; a reader sees a log that only grows;
* delivery: a group holds a message back for one reason at a time, delivers it at
  most `max_attempts` times, dead-letters it once, never hands out a delivery id
  twice and never unsettles a message; its cursor passes only what is acknowledged;
* publish: an idempotency key enters a topic's log once and all its answers name
  that record;
* durable broker: the state log and memory agree at every moment, so that a
  restart loses nothing that was reported done;
* servers: what a client was told stays true, a lease is honoured until it has ended
  by the clock of some client, and every message of a group that keeps polling is settled in the end;
* runtime and projection: processes that start side by side do not disturb each
  other, a run record claims what the rows show, a shutdown completes;
* chat: it shows a message once as far as its cache reaches, keeps polling while it
  is connected, and is quiet and holds nothing after a stop.

## Modules

| Module | Models | Composed of |
| --- | --- | --- |
| `BrokerTypes` | topics, partitions, maps | |
| `DeliveryState` | `state.rs` and the `apply_*` methods of `durable.rs`: the delivery state and its transitions, as operators | `BrokerTypes` |
| `PublishState` | `helpers.rs`, `idempotency.rs`: partition selection, idempotency, and the scan that recovers both | `BrokerTypes` |
| `StateLog` | the events of `durable.rs`, what each does to a delivery state, and the replay of a state log | `DeliveryState` |
| `MemoryBroker` | `memory.rs`, `broker.rs` | `DeliveryState`, `PublishState` |
| `RecoverableBroker` | what the durable broker promises: the in-memory broker with restarts | `MemoryBroker` |
| `DurableBroker` | `durable.rs` | `StateLog`, `PublishState`; `RecoverableBroker`, as the specification it implements |
| `AppendLog` | what storage promises of a partition | |
| `PartitionLog` | `msg-storage/src/lib.rs` | `AppendLog`, as the specification it implements |
| `BrokerServer` | `msg-data-plane`, `msg-control-api`, their clients and the network | `DeliveryState`, `PublishState`: the broker as `RecoverableBroker` has it |
| `Postgres` | `msg-postgres` | |
| `Runtime` | `msg-runtime`, around the data directory and the database | `Postgres` |
| `Chat` | `packages/chat` `ChatApp`, the calls of `packages/sdk` it makes, a broker reduced to its topic | |
| `DeliveryProofs` | lemmas on the transitions, and on publishing and its recovery scan | `DeliveryState`, `PublishState` |
| `MemoryBrokerProofs` | theorems on the in-memory broker | `MemoryBroker`, the lemmas above |
| `ReplayProofs` | lemmas on the replay of a state log | `StateLog`, the lemmas above |
| `DurableBrokerProofs` | theorems on the durable broker; its refinement of `RecoverableBroker` | `DurableBroker`, the lemmas above |
| `PartitionLogProofs` | theorems on the storage engine; its refinement of `AppendLog` | `PartitionLog` |
| `BrokerServerProofs` | theorems on what clients of `brokerd` may rely on | `BrokerServer`, `DeliveryProofs` |
| `RuntimeProofs` | theorems on processes side by side, on migrations and on the projection | `Runtime` |
| `ChatProofs` | theorems on the chat application and its cache | `Chat` |
| `MC_*` | values for the constants | |

The transitions of the delivery state are operators from states to states because
the code shares them the same way: the in-memory broker, the live durable broker
and the replay of the state log must all do the same to a `GroupPartitionState`.

How state and actions correspond to the code:

* `ds` in both brokers is the record of `DeliveryState`. The code keeps a
  `GroupPartitionState` per group, topic and partition with offsets as keys; the
  model keeps one map per field, keyed by *slots* (group, topic, partition,
  offset). A delivery id is the pair of slot and attempt: the code hashes them to
  64 bits, and a collision of the hash is left out.
* Every command is one action: commands take `&mut self`, and the servers hold a
  mutex around them. A command that returns an error and changes nothing is a
  stuttering step. One that returns an error *and* changes the state has a
  disjunct: in `memory.rs`, `nack` and `retry_ready` fail in `add_millis` after
  they removed the delivery (`DropPending`).
* In `DurableBroker`, `stateLog` holds the complete lines of the state log and
  `torn` says whether bytes of an incomplete one follow. `Replay` folds
  `ApplyRecoveredEvent` over the lines and yields `Corrupt` where the code
  returns `StateCorruption`. A crash between the append of an event and the end of
  its command is the command followed by `Crash`. `logs` are the message logs as
  sequences; `PartitionLog` is where that is justified.
* In `PartitionLog`, a file is a base offset and a sequence of frames, each a
  whole record or debris with the number of bytes that reached the file and the
  size its length field claims. `SetLen`, the sizes in the metadata, the segment
  limit and the decision between repair and refusal work on bytes. A length field
  that was itself cut is completed by the bytes that follow, so `scan_segment` may
  read any size there (`ClaimedSizes`), unless too few follow: then the tail is
  repaired unread (`lib.rs:582`).
* A crash of the process loses no written byte. A power failure (`PowerLoss`) may:
  neither log is synced, so each file keeps a prefix of its own, and whatever was
  acknowledged may be gone. What remains to be checked is that an open broker is
  consistent with what is left. The history variables are cut to it as well.
* `RecoverableBroker` has two kinds of restart, `Release` (everything is found again
  but who held what) and `Perish` (no later open succeeds). In the refinement the
  broker between a crash and its reopen stands for what the reopen will recover
  (`Recovered`).
* In `BrokerServer`, a handler is a function from the broker and a request to the
  broker after it, a status code and what the answer says. A call answered in time
  is one step, because handlers take the lock and do not await; one whose deadline
  passes goes to `late`, and the server may execute it at any later time. `consume`
  is maintenance and delivery in one step, and a crash may come between the two. Its
  clock value is the client's: `consume_inner` (`lib.rs:217`) takes `now_unix_ms` as it
  is, so a client's clock may be behind the server's (`MaxLag`) or ahead of it
  (`LeadOf`), and a poll of the latter ends leases that others still count on. A
  restart whose open is refused is left out: it ends the service.
* In `Postgres` and `Runtime`, a statement is one step, fails before or after it was
  executed, and a process may die between any two. The addresses, the database and
  the data directory are shared. A member of `Deployments` says which commands the
  processes run and which topics and messages they find. A rebuild is an offline
  command by the operator's discipline, which the code does not enforce: no broker
  serves from the data directory while it reads (`Offline`), and one process at a time
  writes it. Rebuilds may run side by side, and their statements interleave. Opening
  the broker and reading the log is one step: no broker writes meanwhile, and what one
  rebuild repairs as it opens another would repair in the same way. `damaged` says that the broker no longer opens; `Damage` sets it at
  any time while a broker serves, because `DurableBroker` and `PartitionLog` show that,
  and when, requests bring it about. A serving process then ends, a rebuild records a
  failed run. `MaxTime` is the last timestamp that fits in a row; a publish takes any.
* In `Chat`, what runs between two awaits is one step, and a call is settled once: by
  its answer, its deadline or `close`. The client's constructor and the display callback may throw
  (`Start`, `DisplayFails`). Timers may fire at any time; the lengths of
  delays and backoffs are left out.
* `issued`, `settled`, `replies` and `acked` (of `PartitionLog`) are history
  variables: what callers were told. So are `told`, `held` and `latest` of `BrokerServer`,
  `since` of `Chat` and `interrupted` of `Runtime`.

## Runs

Deadlock is checked except in `Runtime` and `Chat`, which really may stop: all
processes have ended, the application was stopped. Symmetry is over consumers and
groups, which no action tells apart, and used in runs without liveness only.
`tlc -workers 2` needs up to two and a half minutes for the largest runs.

| Run | Bounds | Shows |
| --- | --- | --- |
| `MemoryDelivery` | 2 groups, 2 consumers, 2 messages, an idempotency key, 2 attempts, timestamps 0 to 3, leases 1 and 2, backoff 1 | the delivery invariants, that ids are never reused and settled messages stay so; `KeyPublishedOnce` |
| `DurableDelivery` | 2 consumers, 2 messages, 5 state-log lines, failed appends, crashes, backoff 1 | `RecoveryAgrees`; the log becomes unreplayable in two known ways only; `DurableBroker` implements `RecoverableBroker` |
| `DurableLifecycle` | 1 message, 8 lines, no backoff (one event expires, schedules and releases), crashes, power failures | consistency, acceptance of maintenance events, `SettledSurvives`, ids never reused across restarts, `AttemptsExceededOnce`, `TrackedMessagesExist` |
| `DurablePublish` | 2 partitions of 2 messages, 2 intents, 2 message ids, keyed and unkeyed messages, retries around crashes | `PublishedOnce`, `PublishStateRecovered` |
| `PartitionLog` | 5 records, frames of 4 and 9 bytes with length fields of 3, in segments of 8, a write cut at every byte | acknowledged records survive, metadata matches the files, every reopen succeeds; `PartitionLog` implements `AppendLog` |
| `PartitionDebris` | 2 records, rollbacks may fail | `open` refuses a log only for debris that lies before something written later |
| `BrokerServer` | a producer, 2 consumers of one group, the clock of one of them ahead by 1, 1 message with a key, 2 attempts, lease and backoff 1, 1 late request, 1 restart | `AnswersHold`, `LeaseHonoured`, `EventuallySettled` |
| `Runtime` | 3 processes in 4 deployments (two `serve-all`; a `serve-all` and a rebuild on an empty directory; a `serve-all` and two rebuilds where a topic is found; `serve`, `serve-grpc` and a migrate), 2 migrations, a topic of 1 or 2 partitions, 2 messages of 3 ids, one of them with a time out of range, 1 fault | `RunRecordTruthful`, `RefusedOnlyForCause`, `OpenedAlone`, `ShutdownCompletes` |
| `Chat` | 5 messages (one malformed, one with a reused id), batches of 2, a cache of 2, 2 attempts, 2 expired leases | `ResourcesAccounted`, `QuietAfterStop`, `ShownAgainOnlyIfForgotten`, `KeepsPolling` |

The bounds let the cases happen that the properties are about. Two attempts give a
first and a last one. Two messages give an acknowledgement out of order and a gap
for the cursor. The last timestamp is within reach of every lease and backoff, so
that additions overflow. Eight state-log lines are enough for the
three deliveries a message can get over a restart, with their outcomes. A segment takes two small frames and
less than one large frame, so that rolls happen after full, partly filled and
oversized segments. `BrokerServer` has one message because its questions are about
one message and several clients; what several messages do to each other is in
`MemoryDelivery`. A clock that is ahead by as much as a lease lasts is enough to end
any lease at once, and a late consume carries a clock value that is behind. The
`serve-all` with two rebuilds adds to a topic before, between or after them. A cache of two entries and three ids make the order of eviction
matter. One fault leaves a half-made topic, a half-done migration or a run without
a record, and the processes after it meet what it left.

Three runs expect a violation; each is a disagreement between the code and what its
comments or documents say.

* `ReopenAfterRedelivery`: consume, crash, reopen, consume, crash; the second reopen
  fails. `release_recovered_pending` (`durable.rs:1618`) releases in-flight deliveries
  in memory and logs nothing, and the replay then finds a consume of an offset that
  is still pending. The documents say that released deliveries can be redelivered.
* `ReopenAfterAppendError`: a failed append to the state log (`durable.rs:1704`)
  leaves its bytes, the next one completes them to a malformed line, and the next
  open fails.
* `RollbackFailure`: when the rollback of a failed append fails (`msg-storage`
  `lib.rs:549`), the next record is acknowledged behind the debris, and the rollback
  of a later failed append, to the length in the metadata, cuts that record.

Because of the first two, the passing runs of the durable broker do not claim that
every reopen succeeds. They claim that the log becomes unreplayable in these two
ways only (`LogPoisonedOnlyByKnownCauses`), and that as long as it is replayable it
agrees with memory (`RecoveryAgrees`).

What three properties say beside the good news: a message may be delivered once more
than the retry policy allows, because a restart releases a delivery that was the
last allowed attempt (`AttemptsExceededOnce`); a rebuild is refused
when a `create_topic` stopped between its directories and its event, when a topic has
one message id twice, when the time of a message does not fit in a row, or when the
broker's logs do not open (`RefusedOnlyForCause` names the causes). And one client
whose clock is ahead ends the leases of all others: `LeaseHonoured` says that nothing
else does.

Fairness, and why the code justifies it:

* `BrokerServer`: time passes, `brokerd` is started again after a crash, and the
  polls of one consumer of each group keep being executed. Nobody has to acknowledge,
  publish or receive an answer. The broker has no thread of its own, so without a
  consumer that polls nothing would expire.
* `Runtime`: a server task is polled when it is woken, and requests in progress are
  answered: the broker's handlers wait for nothing but its lock. The search handler
  waits for PostgreSQL (`msg-control-api` `lib.rs:358`), which is assumed to answer or
  to fail; with a database that does neither, a drain may last for ever. No process
  has to start, and no shutdown has to come.
* `Chat`: the event loop runs, timers fire, resolved promises resume their functions,
  and every call is settled by its deadline at the latest. The default deadline is
  positive; with `timeoutMs` 0 a call may wait for ever.

The brokers, the storage engine and their refinements are checked for safety only:
they act when they are called.

## Proofs

The theorems hold for all values of the constants: any number of groups, consumers,
topics, partitions, messages, log lines, records and timestamps, any frame and
segment sizes. The assumptions are those stated with the constants: partition
counts, attempt limits, leases, frame and segment sizes are positive (`NonZeroU32`
in the code, or checked by it), timestamps are bounded by `MaxTimestamp`, a key hash
is a natural number, the cache of the chat holds an entry, there is a largest
partition count. Some theorems assume in addition that one class of faults does
not happen, because without that the property is false of the code; this is said at
each.

### The in-memory broker

`MemoryBrokerProofs` proves every property that the run `MemoryDelivery` checks. The
invariant is

    IInv == TypeOK /\ DeliveryInv(ds) /\ AttemptCountsTracked /\ AttemptsBounded

None of its parts is inductive alone. That a message is in one place needs the two
pending maps to agree: an expired delivery is found by id and removed by offset.
That ids are not reused needs `attempt_counts` to cover all ids handed out for an
unsettled message, and that a settled message is not available. The bound on
attempts needs that a message not in flight has an attempt left: this is where
`add_millis` failing after the removal matters, because the message becomes
available again with its attempt counted.

`DeliveryProofs` has one lemma per transition of the delivery state
(`ConsumedInv`, `AckInv`, `OutcomesInv`, `AvailableInv`) and one per transition for
the counts. `AdvanceCursorFacts` shows that the loop of `advance_cursor` stops at
the first offset that is not acknowledged, for any finite set of acknowledged
offsets. `MemoryBrokerProofs` has one lemma per command, which shows that the
command uses the transitions within their preconditions, then the invariance
theorem, then the theorems on the properties. The two action properties follow from
`StepFacts`: no step unsettles a message and no step makes an id pending that was
handed out before. `OnlyPublishedTheorem` and `KeyPublishedOnceTheorem` carry their
own invariants on the logs and the index.

### The durable broker

`DurableBrokerProofs` proves every invariant of the runs `DurableDelivery` and
`DurableLifecycle`, and their action properties. The invariant is

    IInv == TypeOK /\ AttemptsExceededOnce /\ FilesOK /\ MemoryOK /\ InStep

* `FilesOK` is about the state log alone: every line is an event the code writes, and
  the attempts it names follow the counts of the lines before it (`WellFormed`); as
  long as the broker is up, every message a line names is in the message logs
  (`Covered`). It is needed because a broker that was down or that lost the end of a
  log to a power failure has nothing else to be judged by.
* `MemoryOK` is the invariant of the in-memory broker, with the attempt limit
  exceeded by a delivery in flight at most (`CountsBounded`), with the messages of all
  tracked slots in the logs, and with the settled messages equal to the history.
* `InStep` relates the two: if the log can be replayed, memory `Agrees` with the
  replay, which may have more deliveries pending (the ones a reopen released), and the
  history variables are what the log tells.

Memory and replay go through the same transitions, so `AgreesAfter` says that two
agreeing states agree after each of them. `ReplayProofs` has the other half: replay of
one line more is one `ApplyRecoveredEvent` more (`ReplayAppend`), replay of a prefix
does not depend on messages beyond those it names, and a well-formed log replays to a
consistent state or to `Corrupt` (`ReplaySound`). `RecoveryTheorem`,
`SettledTheorem`, `ConsistencyTheorem` and the others are then read off the
invariant; `NoReuseTheorem` and `PoisonTheorem` take one more argument on steps.

The second half of the module adds `PInv`: a key is in a topic's log once, every answer
given names the record that holds it, the counter and the index of a running broker
are what the recovery scan computes (the lemmas at the end of `DeliveryProofs`), and no topic that the broker does not
know has messages (`NoStray`). From it follow both properties of the run
`DurablePublish` and the refinement: every command is the same command of
`RecoverableBroker`, a crash is its `Release` or `Perish`, and open is a stutter,
because a broker that is down stands for what it will recover.

`PoisonTheorem` and the theorems that rest on `PInv` assume that power does not fail.
A power failure may keep the messages of a topic and lose the line that creates it,
or keep a line and lose its messages; then answers given are no longer true and the
state log is refused for a third reason. The theorems of `IInv` do not assume it.

### The storage engine

`PartitionLogProofs` proves the properties of the runs `PartitionLog` and
`PartitionDebris`. For the first, the invariant
`SInv` says that the files are chained without gaps, all but the last whole and not
empty; that the last is whole or ends in the debris of *one* write that is shorter
than its length field claims (`TailOK`); that every acknowledged message is at its
offset; and that the metadata of an open log is what recovery would compute. `TailOK`
is why a reopen succeeds: debris too short for a length field is repaired unread,
any longer debris claims more bytes than there are, and nothing lies behind it
(`DebrisRepaired`). That the metadata has the size of the file is why a rollback
cuts exactly what was written (`SetLenWhole`), and that a roll needs a segment with
bytes in it is why no empty file ends up in the middle.

The theorems of `SInv` assume that a rollback does not fail: when it does, acknowledged
messages are lost, as the run `RollbackFailure` shows. The proof attempt found an
error in an earlier form of the model, which read a size where fewer bytes than a
length field are left; the code repairs that tail at once.

Without that assumption there is a weaker invariant, `DInv`, from which `TypeOK` and
`RefusedOnlyForBuriedDebris` follow:

* `ScarOK`, of every file: a scan stops at the end or at debris, never at a record,
  and no debris has the bytes it claims;
* `ChainedUntilScar`: a file begins where the one before it ends, and those before it
  are not empty, as long as none of them is damaged;
* `Tracks`: the size in the metadata of the last segment lies between the bytes a scan
  accepts and the end of the file, and if it is exactly those bytes, `next_offset` is
  the offset that belongs there.

`Tracks` is what a failed rollback leaves of the agreement between metadata and file.
It is enough because a later rollback then cuts nothing a scan accepts (`ScarCut`): it
either removes all of the debris, after which the offsets are right again, or leaves
some of it in front of what follows. A log in which nothing lies behind debris is
then chained and intact but for one short debris at its end, and `DebrisRepaired`
applies as before.

### brokerd and its clients

`BrokerServerProofs` proves the two invariants of the run `BrokerServer`, for any
number of clients, of requests on their way and of restarts, any lease lengths and
client clocks that lag or lead by any amount. The invariant `SInv` has these parts:

* `BrokerInv`: the delivery state is consistent (`DeliveryInv`), and the idempotency
  index is what a scan of the logs would find, no key twice. The answer to a repeated
  publish is read from the index, so that is why it names the stored record.
* `LeasesStand`: a delivery that its consumer holds unanswered in this life of
  `brokerd`, with a lease that outlasts every clock value a consume has carried
  (`latest`), is pending for that consumer with the lease it was told. It is preserved
  because a sweep ends what has ended by its own clock value, which `latest` has then
  reached, wherever that clock stands, and because nobody settles what belongs to
  another consumer.
* `LateKnown`: whoever has an ACK or NACK on its way knows it. This would break if an
  id came back: a late ACK would then settle a later delivery. So the deliveries
  clients hold or have requests about are all within the attempts counted
  (`IssuedTracked`), and a consume hands out none of them (`ConsumedFollows`).
* `Fact`: what clients were told is so.

`Follows` and `Succeeds` say what one handler may do to the delivery state and to the
broker; there is one lemma per handler and one per step. Fairness is not used.

### Processes, migrations and the projection

`RuntimeProofs` proves the three invariants of the run `Runtime`, for any number of
processes in any deployment, any list of migrations, any topics, partition counts and
messages, and any number of faults. The invariant is

    RInv == ProcsOK /\ AddressInv /\ MigrationInv /\ ProjectionInv /\ CauseInv

* `AddressInv`: a `serve-all` on its way to its state has both addresses, and keeps an
  address as long as it accepts there; of two that have ever had both, one holds
  neither any more. The last part is needed because a draining server has given back
  its address while its state is still open. `OpenedAloneTheorem` follows: of two with
  the state open, one holds no address, so neither of its servers accepts, and since
  both were started they drain or are done. It needs the order of `serve_all`, sockets
  before state: had a `serve-all` opened its state first, it could share the directory
  with one that accepts.
* `MigrationInv`: the database has applied a beginning of `MIGRATIONS`, and so has the
  transaction of the process that holds the advisory lock, at least as long a one. So
  the next migration of that transaction is never a version another process applied,
  nor is a recorded version ever unknown: half of `RefusedTheorem`.
* `ProjectionInv`: rows are rows of the log; a plan consists of genuine upserts; what a
  rebuild has executed is in the tables; a rebuild that scans has the whole log in its
  plan, because no broker serves meanwhile (`Offline`), so that rebuilds side by side
  have the same plan; the timestamps of a
  topic are those of the plan as long as the plan is that of the log. `RunOK` ties the
  run record to how far its process got. `RunRecordTheorem` then needs what the plan
  of a whole log contains: every message, and every topic with the span of its
  timestamps (`UpsertsFacts` and its neighbours).
* `CauseInv`: every process that was refused had a cause (`Justified`): an id twice in
  a topic, a time out of range, a topic half made, logs that do not open, a fault. It
  is kept because causes stay: logs only grow, and the histories do too
  (`CausesGrown`). A conflict has a cause because an upsert conflicts with a row that
  is itself in the log.

The proof of `ProjectionInv` is where the order of steps matters: rows from a rebuild
that failed half-way, or that still runs, meet a second one, whose inserts must find
either nothing or the same row.

### The chat application

`ChatProofs` proves the safety properties of the run `Chat`, for every topic, batch
size and cache size and any number of leases that run out.

* `HInv` says what the application holds in each phase of its life (`IdleOK`,
  `StartingOK`, `ConnectedOK`, `EndedOK`): which of client, abort signal, poll timer
  and pending calls. `ResourcesAccounted` speaks of the phases connected, failed and
  stopped only and is not inductive: that a failed start leaves nothing needs to be
  known of the start before it fails, and that a connected application polls once
  needs that a start in progress has no poll. `QuietTheorem` needs no invariant: every
  continuation looks at the lifecycle first.
* `CacheInv` relates the cache to the history `since`, the ids received after each id
  last was: entries are in the order in which they were received last, none is twice
  in the cache, and whoever is no longer in it has seen at least `MaxSize` others
  come. The last part is the induction behind `ShownAgainTheorem`: the entry that is
  evicted is the oldest, and all others were received after it.

### Inductions over logs

`Replay`, `SizeOf`, `MessagesIn` and the library's `FlattenSeq`, which lines up the
upserts of a rebuild, are recursive functions over sequences. What they compute is proved by taking a least counterexample among the naturals
(`NatClosure`, from the well-foundedness of `<`): first that there is exactly one
function that satisfies the recursion, then the equation for one element more.

### Only model-checked

Liveness (`EventuallySettled`, `ShutdownCompletes`, `KeepsPolling`), which is out of
the prover's reach. Every other property of a passing run is stated by a theorem.

## Not modelled

* Observability, the protocol crate and packages, the CLI and the TUI: counters,
  generated code, parsing, requests without state, rendering.
* Validation and formatting of strings, in all components; HTTP and gRPC error texts.
* Operations that only read: `status`, topic lists, health, readiness, metrics, and
  the full-text search with its ranking.
* A poisoned lock: it takes a panic inside a handler, and no modelled path panics.
* Bit rot: files lose suffixes and hold torn writes, and are not otherwise damaged.
* Two processes that write one data directory at the same time. `docs/LOCAL_DEMO.md`
  excludes it; `OpenedAlone` shows how far the sockets of `serve-all` prevent it: a
  `serve-all` that drains may still answer requests when the next one has opened the
  directory.
* Numbers beyond 32 or 63 bits in the projection other than timestamps: partition
  counts, offsets and payload lengths out of range fail a rebuild as a time does.
* A power failure under the projection: a row of a lost message stays when its offset
  is used again.
* In the chat: the terminal interface, the generations of its renderings, the delays.

## Status

All components with state of their own are modelled, composed where they interact, and
checked for safety and, where fairness is justified, for liveness. All their safety
properties are proved, with the refinements of the durable broker and of the storage
engine; what some theorems assume of the faults is said above.

What could follow: the refresh loop of the terminal dashboard; a projection under
power failures; two processes that write one data directory, once the code has a lock
to check.
