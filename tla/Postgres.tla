------------------------------- MODULE Postgres -------------------------------
(***************************************************************************)
(* The PostgreSQL projection (msg-postgres): one database, the migrations  *)
(* every brokerd command with a database URL runs first, and               *)
(* `brokerd postgres rebuild`, which copies the durable log into rows.     *)
(*                                                                         *)
(* A statement is one step; PostgreSQL executes it whole or not at all. A  *)
(* statement may fail (the connection, the server), before or after it has *)
(* been executed, and a process may die between any two statements.        *)
(*                                                                         *)
(* A rebuild is an offline command: by the operator's discipline no broker *)
(* serves from the data directory while it reads it, which is all that     *)
(* Offline says. Nothing in the code enforces it, and nothing keeps        *)
(* rebuilds from running side by side.                                     *)
(***************************************************************************)
EXTENDS Naturals, Sequences, SequencesExt, FiniteSets

CONSTANTS
  Procs,          \* brokerd processes
  Deployments,    \* the commands of the processes, and the data directory they find
  Migrations,     \* MIGRATIONS: the names, in order
  TopicOrder,     \* the topics, in the order of list_topics
  PartitionCounts, \* the partition counts topics are created with
  MessageIds,     \* message ids
  TimeOf,         \* message id -> the timestamp its envelope carries
  MaxTime,        \* the last timestamp that a row can hold
  NoProc,         \* no process
  MaxFaults       \* bound: database errors and deaths

ASSUME PostgresAssumption ==
  /\ NoProc \notin Procs
  /\ \A d \in Deployments :
       /\ d.command \in [Procs -> {"rebuild", "migrate", "serve_all", "serve", "serve_grpc", "none"}]
       /\ d.meta \in [Range(TopicOrder) -> PartitionCounts \cup {0}]
       /\ d.log \in [Range(TopicOrder) -> [0 .. Max(PartitionCounts) - 1 -> Seq(MessageIds)]]
       /\ \A t \in Range(TopicOrder) : \A k \in 0 .. Max(PartitionCounts) - 1 :
            k >= d.meta[t] => d.log[t][k] = <<>>
  /\ Migrations \in Seq(Range(Migrations))
  /\ TopicOrder \in Seq(Range(TopicOrder))
  /\ PartitionCounts \subseteq Nat \ {0}
  /\ Max(PartitionCounts) \in PartitionCounts
  /\ \A n \in PartitionCounts : n <= Max(PartitionCounts)
  /\ TimeOf \in [MessageIds -> Nat]
  /\ MaxTime \in Nat
  /\ MaxFaults \in Nat

VARIABLES
  command,    \* process -> its command
  pc,         \* process -> where it is
  reason,     \* process -> why it ended
  applied,    \* _ferrumq_migrations: the names, by version
  lock,       \* holder of the advisory transaction lock
  tx,         \* process -> migrations applied in its open transaction
  rows,       \* ferrumq_messages: location -> message id
  topicRows,  \* ferrumq_topics: name -> first_seen_at, last_seen_at
  runs,       \* ferrumq_projection_runs: process -> the status of its run
  plan,       \* rebuild -> the upserts for what it has read
  done,       \* rebuild -> how many of them it has done
  meta,       \* broker state: topic -> its partition count, 0 if not created
  dirs,       \* data directory: topic -> how many partition directories it has
  log,        \* data directory: topic -> partition -> message ids
  damaged,    \* data directory: can DurableBroker::open no longer read it?
  faults      \* how many faults there were

database == <<applied, lock, tx>>
projection == <<rows, topicRows, runs, plan, done>>
dataDir == <<meta, dirs, log, damaged>>

Topics == Range(TopicOrder)

\* INSERT ... ON CONFLICT DO UPDATE, and DO NOTHING. (A run is inserted under a new
\* id, where neither clause matters.)
InsertOrUpdate(table, key, row) ==
  [x \in DOMAIN table \cup {key} |-> IF x = key THEN row ELSE table[x]]
InsertOrIgnore(table, key, row) ==
  [x \in DOMAIN table \cup {key} |-> IF x \in DOMAIN table THEN table[x] ELSE row]

PostgresInit ==
  /\ \E d \in Deployments :
       /\ command = d.command
       /\ meta = d.meta /\ dirs = d.meta
       /\ log = d.log
  /\ pc = [p \in Procs |-> "idle"]
  /\ reason = [p \in Procs |-> "none"]
  /\ applied \in { SubSeq(Migrations, 1, n) : n \in 0 .. Len(Migrations) }
  /\ lock = NoProc
  /\ tx = [p \in Procs |-> <<>>]
  /\ rows = <<>>
  /\ topicRows = <<>>
  /\ runs = <<>>
  /\ plan = [p \in Procs |-> <<>>]
  /\ done = [p \in Procs |-> 0]
  /\ damaged = FALSE
  /\ faults = 0

\* Process p ends; what it had open in the database is rolled back.
End(p, why) ==
  /\ pc' = [pc EXCEPT ![p] = "ended"]
  /\ reason' = [reason EXCEPT ![p] = why]
  /\ lock' = IF lock = p THEN NoProc ELSE lock
  /\ tx' = [tx EXCEPT ![p] = <<>>]

-----------------------------------------------------------------------------
(* run_migrations, from "migrate" to "ready".                              *)

\* Mutant: the advisory lock is not waited for.
LockMigrationsUnserialised(p) ==
  /\ pc[p] = "migrate"
  /\ lock' = p
  /\ tx' = [tx EXCEPT ![p] = applied]
  /\ pc' = [pc EXCEPT ![p] = "applying"]
  /\ UNCHANGED <<reason, applied, projection, dataDir, faults>>

\* The transaction starts, waits for the lock, reads what is applied and checks
\* that it is a beginning of MIGRATIONS (validate_applied_migrations).
LockMigrations(p) ==
  /\ pc[p] = "migrate"
  /\ lock = NoProc
  /\ IF IsPrefix(applied, Migrations)
     THEN /\ lock' = p
          /\ tx' = [tx EXCEPT ![p] = applied]
          /\ pc' = [pc EXCEPT ![p] = "applying"]
          /\ UNCHANGED reason
     ELSE End(p, "inconsistent")
  /\ UNCHANGED <<applied, projection, dataDir, faults>>

\* The SQL of the next migration and its tracking row, in the transaction. The
\* row's version is a primary key: it must not be committed by now.
ApplyMigration(p) ==
  /\ pc[p] = "applying"
  /\ Len(tx[p]) < Len(Migrations)
  /\ IF Len(tx[p]) + 1 \in DOMAIN applied
     THEN End(p, "duplicate")
     ELSE /\ tx' = [tx EXCEPT ![p] = Append(@, Migrations[Len(@) + 1])]
          /\ UNCHANGED <<pc, reason, lock>>
  /\ UNCHANGED <<applied, projection, dataDir, faults>>

CommitMigrations(p) ==
  /\ pc[p] = "applying"
  /\ Len(tx[p]) = Len(Migrations)
  /\ applied' = tx[p]
  /\ IF command[p] = "migrate" THEN End(p, "ok")
     ELSE /\ pc' = [pc EXCEPT ![p] = "ready"]
          /\ lock' = IF lock = p THEN NoProc ELSE lock
          /\ tx' = [tx EXCEPT ![p] = <<>>]
          /\ UNCHANGED reason
  /\ UNCHANGED <<projection, dataDir, faults>>

\* A statement of the migrations fails, the COMMIT perhaps after it was done.
MigrationError(p) ==
  /\ pc[p] \in {"migrate", "applying"}
  /\ faults < MaxFaults
  /\ faults' = faults + 1
  /\ End(p, "fault")
  /\ \/ UNCHANGED applied
     \/ pc[p] = "applying" /\ Len(tx[p]) = Len(Migrations) /\ applied' = tx[p]
  /\ UNCHANGED <<projection, dataDir>>

-----------------------------------------------------------------------------
(* brokerd postgres rebuild                                                *)

\* No broker serves from the data directory.
Offline == \A q \in Procs : pc[q] \notin {"opened", "open"}

\* `postgres rebuild` or `postgres migrate`. (`postgres search` is a migrate
\* followed by a query that changes nothing.)
StartCommand(p) ==
  /\ pc[p] = "idle"
  /\ command[p] \in {"rebuild", "migrate"}
  /\ pc' = [pc EXCEPT ![p] = "migrate"]
  /\ UNCHANGED <<reason, database, projection, dataDir, faults>>

StartProjectionRun(p) ==
  /\ command[p] = "rebuild"
  /\ pc[p] = "ready"
  /\ runs' = InsertOrIgnore(runs, p, "in_progress")
  /\ pc' = [pc EXCEPT ![p] = "started"]
  /\ UNCHANGED <<reason, database, rows, topicRows, plan, done, dataDir, faults>>

\* The partition directories are those of the topics of the broker state
\* (validate_message_layout, validate_partition_layout).
LayoutValid(made) == \A t \in Topics : made[t] \in {0, meta[t]}

\* record_to_message_row
MessageRow(t, k, o, id) == [kind |-> "message", location |-> <<t, k, o>>, id |-> id]

\* read_partition_records
PartitionRows(t, k) ==
  [i \in 1 .. Len(log[t][k]) |-> MessageRow(t, k, i - 1, log[t][k][i])]

TimesOf(t) == { TimeOf[id] : id \in UNION { Range(log[t][k]) : k \in DOMAIN log[t] } }

TopicUpsert(t) ==
  IF TimesOf(t) = {} THEN [kind |-> "empty_topic", topic |-> t]
  ELSE [kind |-> "topic", topic |-> t, first |-> Min(TimesOf(t)), last |-> Max(TimesOf(t))]

\* The upserts of rebuild_inner: for each topic the messages of its partitions,
\* then the topic.
Upserts ==
  FlattenSeq([n \in DOMAIN TopicOrder |->
    LET t == TopicOrder[n]
    IN  IF meta[t] = 0 THEN <<>>
        ELSE FlattenSeq([k \in 1 .. meta[t] |-> PartitionRows(t, k - 1)]) \o <<TopicUpsert(t)>>])

\* Rebuild p gives up and is about to record that its run failed.
Fail(p, why) ==
  /\ pc' = [pc EXCEPT ![p] = "failing"]
  /\ reason' = [reason EXCEPT ![p] = why]

\* DurableBroker::open, which fails if it cannot read its logs and makes the
\* directories of all its topics if it can.
Reopen ==
  dirs' = IF damaged THEN dirs ELSE [t \in Topics |-> Max({dirs[t], meta[t]})]

\* DurableBroker::open, the layout check, and the records of the log.
ReadLog(p) ==
  /\ pc[p] = "started"
  /\ Offline
  /\ Reopen
  /\ \/ /\ damaged
        /\ Fail(p, "damaged")
        /\ UNCHANGED plan
     \/ /\ ~damaged
        /\ ~LayoutValid(dirs')
        /\ Fail(p, "layout")
        /\ UNCHANGED plan
     \/ /\ ~damaged
        /\ LayoutValid(dirs')
        /\ plan' = [plan EXCEPT ![p] = Upserts]
        /\ pc' = [pc EXCEPT ![p] = "scanning"]
        /\ UNCHANGED reason
  /\ UNCHANGED <<database, rows, topicRows, runs, done, meta, log, damaged, faults>>

\* record_to_message_row and from_timestamp_millis: the time of the message does
\* not fit in a row.
OutOfRange(u) == u.kind = "message" /\ TimeOf[u.id] > MaxTime

\* The location is taken: nothing is done. The message id is taken: an error.
Conflicts(u) ==
  /\ u.kind = "message"
  /\ u.location \notin DOMAIN rows
  /\ \E x \in DOMAIN rows : x[1] = u.location[1] /\ rows[x] = u.id

\* upsert_message, upsert_topic and upsert_empty_topic, which keeps the times of
\* a topic that has some.
Execute(u) ==
  /\ rows' = IF u.kind = "message" THEN InsertOrIgnore(rows, u.location, u.id) ELSE rows
  /\ topicRows' =
       IF u.kind = "topic" THEN InsertOrUpdate(topicRows, u.topic, [first |-> u.first, last |-> u.last])
       ELSE IF u.kind = "empty_topic" THEN InsertOrIgnore(topicRows, u.topic, [first |-> "now", last |-> "now"])
       ELSE topicRows

\* The next upsert of rebuild p.
Current(p) == plan[p][done[p] + 1]

\* Mutant: a conflict is passed over.
UpsertSkipsConflicts(p) ==
  /\ pc[p] = "scanning"
  /\ done[p] < Len(plan[p])
  /\ done' = [done EXCEPT ![p] = @ + 1]
  /\ IF Conflicts(Current(p)) THEN UNCHANGED <<rows, topicRows>> ELSE Execute(Current(p))
  /\ UNCHANGED <<pc, reason, database, runs, plan, dataDir, faults>>

Upsert(p) ==
  /\ pc[p] = "scanning"
  /\ done[p] < Len(plan[p])
  /\ \/ /\ OutOfRange(Current(p))
        /\ Fail(p, "range")
        /\ UNCHANGED <<done, rows, topicRows>>
     \/ /\ ~OutOfRange(Current(p))
        /\ Conflicts(Current(p))
        /\ Fail(p, "conflict")
        /\ UNCHANGED <<done, rows, topicRows>>
     \/ /\ ~OutOfRange(Current(p))
        /\ ~Conflicts(Current(p))
        /\ Execute(Current(p))
        /\ done' = [done EXCEPT ![p] = @ + 1]
        /\ UNCHANGED <<pc, reason>>
  /\ UNCHANGED <<database, runs, plan, dataDir, faults>>

CompleteProjectionRun(p) ==
  /\ pc[p] = "scanning"
  /\ done[p] = Len(plan[p])
  /\ runs' = [runs EXCEPT ![p] = "success"]
  /\ End(p, "ok")
  /\ UNCHANGED <<applied, rows, topicRows, plan, done, dataDir, faults>>

FailProjectionRun(p) ==
  /\ pc[p] = "failing"
  /\ runs' = [runs EXCEPT ![p] = "error"]
  /\ pc' = [pc EXCEPT ![p] = "ended"]
  /\ UNCHANGED <<reason, database, rows, topicRows, plan, done, dataDir, faults>>

\* The database fails a statement of the rebuild, before it is executed or after.
\* A failed upsert is recorded as a failed run, and so is an I/O error while the
\* log is opened; a run whose start, completion or failure could not be recorded
\* is left as it is.
StatementError(p) ==
  /\ command[p] = "rebuild"
  /\ faults < MaxFaults
  /\ faults' = faults + 1
  /\ \/ /\ pc[p] = "started"
        /\ Fail(p, "fault")
        /\ UNCHANGED <<database, projection, dataDir>>
     \/ /\ pc[p] = "scanning"
        /\ done[p] < Len(plan[p])
        /\ ~OutOfRange(Current(p))
        /\ Fail(p, "fault")
        /\ \/ UNCHANGED <<rows, topicRows>>
           \/ ~Conflicts(Current(p)) /\ Execute(Current(p))
        /\ UNCHANGED <<database, runs, plan, done, dataDir>>
     \/ /\ pc[p] = "scanning"
        /\ done[p] = Len(plan[p])
        /\ End(p, "fault")
        /\ \/ UNCHANGED runs
           \/ runs' = [runs EXCEPT ![p] = "success"]
        /\ UNCHANGED <<applied, rows, topicRows, plan, done, dataDir>>
     \/ /\ pc[p] = "failing"
        /\ pc' = [pc EXCEPT ![p] = "ended"]
        /\ UNCHANGED <<reason, database, projection, dataDir>>
     \/ /\ pc[p] = "ready"
        /\ End(p, "fault")
        /\ \/ UNCHANGED runs
           \/ runs' = InsertOrIgnore(runs, p, "in_progress")
        /\ UNCHANGED <<applied, rows, topicRows, plan, done, dataDir>>

=============================================================================
