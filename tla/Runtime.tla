------------------------------- MODULE Runtime --------------------------------
(***************************************************************************)
(* brokerd processes (msg-runtime) around one data directory, one pair of  *)
(* addresses and one database: serve-all with its start-up, its two        *)
(* servers, its shutdown channel and its joint failure; serve and          *)
(* serve-grpc; and the postgres commands of module Postgres.               *)
(*                                                                         *)
(* serve_all never asks for a shutdown; serve_all_with_listeners, which    *)
(* harnesses call, does. The model has both: Signal may never come.        *)
(***************************************************************************)
EXTENDS Postgres

CONSTANT MaxMessages   \* bound: messages published

ASSUME RuntimeAssumption == MaxMessages \in Nat

VARIABLES
  ports,       \* "http" or "grpc" -> the process whose listener is bound to it
  side,        \* process -> "http" or "grpc" -> what that server is doing
  chan,        \* process -> the watch channel: value, version, closed
  seen,        \* process -> "http" or "grpc" -> the version its receiver has seen
  interrupted  \* history: topics whose creation stopped half-way

runtimeVars == <<ports, side, chan, seen, interrupted>>
vars == <<command, pc, reason, database, projection, dataDir, faults, runtimeVars>>

Sides == {"http", "grpc"}
Accepting == {"checking", "waiting"}

\* The servers a command runs.
SidesOf(p) ==
  CASE command[p] = "serve_all"  -> Sides
    [] command[p] = "serve"      -> {"http"}
    [] command[p] = "serve_grpc" -> {"grpc"}
    [] OTHER                     -> {}

Off == [s \in Sides |-> "off"]
Unseen == [s \in Sides |-> 0]
NewChannel == [value |-> FALSE, version |-> 0, closed |-> FALSE]

Init ==
  /\ PostgresInit
  /\ ports = [s \in Sides |-> NoProc]
  /\ side = [p \in Procs |-> Off]
  /\ chan = [p \in Procs |-> NewChannel]
  /\ seen = [p \in Procs |-> Unseen]
  /\ interrupted = {}

\* The listeners of ended processes, and of draining servers, are closed.
PortsReleased ==
  ports' = [s \in Sides |->
              IF ports[s] # NoProc
                 /\ (pc'[ports[s]] = "ended" \/ side'[ports[s]][s] \in {"draining", "done"})
              THEN NoProc ELSE ports[s]]

-----------------------------------------------------------------------------
(* Start-up.                                                               *)

\* TcpListener::bind of server s, after which the process goes to `next`.
Bind(p, s, next) ==
  IF ports[s] = NoProc
  THEN /\ ports' = [ports EXCEPT ![s] = p]
       /\ pc' = [pc EXCEPT ![p] = next]
       /\ UNCHANGED <<reason, database>>
  ELSE /\ End(p, "bind")
       /\ ports' = [x \in Sides |-> IF ports[x] = p THEN NoProc ELSE ports[x]]
       /\ UNCHANGED applied

BindHttp(p) ==
  /\ command[p] = "serve_all"
  /\ pc[p] = "idle"
  /\ Bind(p, "http", "http_bound")
  /\ UNCHANGED <<projection, dataDir, faults, side, chan, seen, interrupted>>

BindGrpc(p) ==
  /\ pc[p] = "http_bound"
  /\ Bind(p, "grpc", "bound")
  /\ UNCHANGED <<projection, dataDir, faults, side, chan, seen, interrupted>>

\* Without a database URL the search stays off; with one the migrations run.
BuildSearch(p) ==
  /\ pc[p] = "bound"
  /\ \E next \in {"ready", "migrate"} : pc' = [pc EXCEPT ![p] = next]
  /\ UNCHANGED <<reason, database, projection, dataDir, faults, runtimeVars>>

\* open_state: with the broker open the process goes to `next`; a process whose
\* broker does not open ends, and its listeners are closed. (An I/O error while
\* it opens is one of the faults of Killed.)
OpenBroker(p, next) ==
  /\ \A q \in Procs : pc[q] # "scanning"
  /\ Reopen
  /\ IF damaged THEN End(p, "damaged") /\ UNCHANGED applied
     ELSE pc' = [pc EXCEPT ![p] = next] /\ UNCHANGED <<reason, database>>
  /\ UNCHANGED <<projection, meta, log, damaged, faults>>

\* Mutant: the state is opened before the sockets are bound.
OpenStateFirst(p) ==
  /\ command[p] = "serve_all"
  /\ pc[p] = "idle"
  /\ OpenBroker(p, "opened")
  /\ UNCHANGED <<side, chan, seen, interrupted>>
  /\ PortsReleased

\* open_state_with_search; both servers start to wait for the shutdown.
OpenState(p) ==
  /\ command[p] = "serve_all"
  /\ pc[p] = "ready"
  /\ OpenBroker(p, "open")
  /\ side' = IF damaged THEN side ELSE [side EXCEPT ![p] = [s \in Sides |-> "checking"]]
  /\ PortsReleased
  /\ UNCHANGED <<chan, seen, interrupted>>

\* brokerd serve and serve-grpc open the state first and bind afterwards.
OpenFirst(p) ==
  /\ command[p] \in {"serve", "serve_grpc"}
  /\ pc[p] = "idle"
  /\ OpenBroker(p, "opened")
  /\ UNCHANGED <<side, chan, seen, interrupted>>
  /\ PortsReleased

BindLast(p) ==
  /\ pc[p] = "opened"
  /\ \E s \in SidesOf(p) :
       /\ Bind(p, s, "open")
       /\ side' = IF ports[s] = NoProc THEN [side EXCEPT ![p][s] = "waiting"] ELSE side
  /\ UNCHANGED <<projection, dataDir, faults, chan, seen, interrupted>>

-----------------------------------------------------------------------------
(* Requests that change the data directory, one broker at a time: two      *)
(* processes that write one directory are out of the broker's contract.    *)

Serves(p, s) ==
  /\ pc[p] = "open"
  /\ side[p][s] \in Accepting \cup {"draining"}
  /\ \A q \in Procs \ {p} : pc[q] \notin {"opened", "open", "scanning"}

CreateTopic(p, t, n) ==
  /\ Serves(p, "http")
  /\ meta[t] = 0
  /\ meta' = [meta EXCEPT ![t] = n]
  /\ dirs' = [dirs EXCEPT ![t] = Max({@, n})]
  /\ UNCHANGED <<pc, reason, database, projection, log, damaged, faults, runtimeVars>>

\* The directories are made before the event is appended: an error between them,
\* or in the append, leaves directories of a topic that does not exist.
CreateTopicFails(p, t, n) ==
  /\ Serves(p, "http")
  /\ meta[t] = 0
  /\ faults < MaxFaults
  /\ faults' = faults + 1
  /\ \E j \in 1 .. n : dirs' = [dirs EXCEPT ![t] = Max({@, j})]
  /\ interrupted' = interrupted \cup {t}
  /\ UNCHANGED <<pc, reason, database, projection, meta, log, damaged, ports, side, chan, seen>>

MessageCount == Cardinality({ x \in Topics \X (0 .. Max(PartitionCounts) - 1) \X (1 .. MaxMessages) :
                                x[3] <= Len(log[x[1]][x[2]]) })

\* A publish appends to one partition. Message ids are the producer's: the
\* broker takes one twice unless an idempotency key forbids it.
Publish(p, t, k, id) ==
  /\ Serves(p, "grpc")
  /\ k < meta[t]
  /\ MessageCount < MaxMessages
  /\ log' = [log EXCEPT ![t][k] = Append(@, id)]
  /\ UNCHANGED <<pc, reason, database, projection, meta, dirs, damaged, faults, runtimeVars>>

\* What a request writes makes the next open fail: an append that failed half-way
\* and was completed by the next one, or a delivery past the limit of attempts.
\* (DurableBroker and PartitionLog show how; here it is enough that it happens.)
Damage(p) ==
  /\ \E s \in Sides : Serves(p, s)
  /\ damaged' = TRUE
  /\ UNCHANGED <<pc, reason, database, projection, meta, dirs, log, faults, runtimeVars>>

-----------------------------------------------------------------------------
(* Shutdown of serve_all_with_listeners.                                   *)

\* The shutdown future ends: the task sends TRUE and drops the sender, or it
\* panics and the sender is dropped.
Signal(p) ==
  /\ command[p] = "serve_all"
  /\ pc[p] = "open"
  /\ ~chan[p].closed
  /\ \/ chan' = [chan EXCEPT ![p] = [value |-> TRUE, version |-> @.version + 1, closed |-> TRUE]]
     \/ chan' = [chan EXCEPT ![p].closed = TRUE]
  /\ UNCHANGED <<pc, reason, database, projection, dataDir, faults, ports, side, seen, interrupted>>

\* wait_for_shutdown: the value is looked at and marked as seen in one step.
BorrowAndUpdate(p, s) ==
  /\ pc[p] = "open"
  /\ side[p][s] = "checking"
  /\ seen' = [seen EXCEPT ![p][s] = chan[p].version]
  /\ side' = [side EXCEPT ![p][s] = IF chan[p].value THEN "draining" ELSE "waiting"]
  /\ pc' = pc
  /\ PortsReleased
  /\ UNCHANGED <<reason, database, projection, dataDir, faults, chan, interrupted>>

\* Mutant: the sender's end is not taken for a shutdown.
ChangedByValueOnly(p, s) ==
  /\ pc[p] = "open"
  /\ side[p][s] = "waiting"
  /\ chan[p].version # seen[p][s]
  /\ side' = [side EXCEPT ![p][s] = "checking"]
  /\ UNCHANGED <<pc, reason, database, projection, dataDir, faults, ports, chan, seen, interrupted>>

\* changed() returns when there is a version not seen, and fails when the sender
\* is gone.
Changed(p, s) ==
  /\ pc[p] = "open"
  /\ side[p][s] = "waiting"
  /\ \/ /\ chan[p].version # seen[p][s]
        /\ side' = [side EXCEPT ![p][s] = "checking"]
     \/ /\ chan[p].version = seen[p][s]
        /\ chan[p].closed
        /\ side' = [side EXCEPT ![p][s] = "draining"]
  /\ pc' = pc
  /\ PortsReleased
  /\ UNCHANGED <<reason, database, projection, dataDir, faults, chan, seen, interrupted>>

\* The requests in progress are answered and the server's future is done.
Drained(p, s) ==
  /\ pc[p] = "open"
  /\ side[p][s] = "draining"
  /\ side' = [side EXCEPT ![p][s] = "done"]
  /\ UNCHANGED <<pc, reason, database, projection, dataDir, faults, ports, chan, seen, interrupted>>

\* The process returns from serving: its servers and its channel are dropped,
\* the servers where they are.
Stop(p, why) ==
  /\ End(p, why)
  /\ side' = [side EXCEPT ![p] = Off]
  /\ chan' = [chan EXCEPT ![p] = NewChannel]
  /\ seen' = [seen EXCEPT ![p] = Unseen]
  /\ PortsReleased
  /\ UNCHANGED <<applied, projection, dataDir, interrupted>>

\* try_join: both servers are done.
Joined(p) ==
  /\ pc[p] = "open"
  /\ \A s \in SidesOf(p) : side[p][s] = "done"
  /\ Stop(p, "ok")
  /\ UNCHANGED faults

\* try_join: a server fails and takes the other with it. Or the process, whatever
\* its command, is killed.
Killed(p) ==
  /\ pc[p] \notin {"idle", "ended"}
  /\ faults < MaxFaults
  /\ faults' = faults + 1
  /\ Stop(p, "fault")

-----------------------------------------------------------------------------

PostgresStep(p) ==
  /\ \/ LockMigrations(p) \/ ApplyMigration(p) \/ CommitMigrations(p) \/ MigrationError(p)
     \/ StartCommand(p) \/ StartProjectionRun(p) \/ ReadLog(p) \/ Upsert(p)
     \/ CompleteProjectionRun(p) \/ FailProjectionRun(p) \/ StatementError(p)
  /\ UNCHANGED <<side, chan, seen, interrupted>>
  /\ PortsReleased

ServerStep(p) ==
  \/ BindHttp(p) \/ BindGrpc(p) \/ BuildSearch(p) \/ OpenState(p)
  \/ OpenFirst(p) \/ BindLast(p)
  \/ Damage(p) \/ Signal(p) \/ Joined(p) \/ Killed(p)
  \/ \E s \in Sides : BorrowAndUpdate(p, s) \/ Changed(p, s) \/ Drained(p, s)
  \/ \E t \in Topics, n \in PartitionCounts : CreateTopic(p, t, n) \/ CreateTopicFails(p, t, n)
  \/ \E t \in Topics, k \in 0 .. Max(PartitionCounts) - 1, id \in MessageIds : Publish(p, t, k, id)

Next == (\E p \in Procs : PostgresStep(p) \/ ServerStep(p)) /\ UNCHANGED command

\* The servers' tasks are polled when they are woken, and requests in progress
\* are answered: the broker's handlers wait for nothing but its lock, and the
\* search handler for PostgreSQL, which is assumed to answer or to fail.
Fairness ==
  \A p \in Procs :
    /\ WF_vars(Joined(p) /\ UNCHANGED command)
    /\ \A s \in Sides :
         WF_vars((BorrowAndUpdate(p, s) \/ Changed(p, s) \/ Drained(p, s)) /\ UNCHANGED command)

Spec == Init /\ [][Next]_vars /\ Fairness

-----------------------------------------------------------------------------
(* Properties.                                                             *)

\* The messages of the log as rows.
MessageRows ==
  [x \in UNION { { <<t, k, o>> : o \in 0 .. Len(log[t][k]) - 1 } :
                   t \in Topics, k \in 0 .. Max(PartitionCounts) - 1 }
     |-> log[x[1]][x[2]][x[3] + 1]]

\* The record of a run and the rows agree, with rebuilds that run side by side,
\* fail at any statement, die, and are repeated as the log grows. No row differs
\* from the log. A run recorded as a success has projected all it read, and all
\* of the log and the span of its timestamps if the log has not grown since. A
\* run recorded as an error has not. A run stays in progress when its process is
\* gone only after a fault.
RunRecordTruthful ==
  /\ DOMAIN rows \subseteq DOMAIN MessageRows
  /\ \A x \in DOMAIN rows : rows[x] = MessageRows[x]
  /\ \A p \in DOMAIN runs :
       /\ runs[p] = "success" =>
            /\ \A i \in DOMAIN plan[p] :
                 plan[p][i].kind = "message" => plan[p][i].location \in DOMAIN rows
            /\ plan[p] = Upserts =>
                 /\ rows = MessageRows
                 /\ DOMAIN topicRows = { t \in Topics : meta[t] > 0 }
                 /\ \A t \in Topics : TimesOf(t) # {} =>
                      topicRows[t] = [first |-> Min(TimesOf(t)), last |-> Max(TimesOf(t))]
       /\ runs[p] = "error" => done[p] < Len(plan[p]) \/ plan[p] = <<>>
       /\ runs[p] = "in_progress" /\ pc[p] = "ended" => faults > 0

\* Processes that start, migrate and rebuild at the same time do not get in each
\* other's way: no migration meets a version another process has applied, no
\* rebuild meets the rows of another one. Faults of the database and the disk
\* aside, a rebuild is refused only for what is in the data directory: a message
\* id that a topic has twice, a time that does not fit in a row, a create_topic
\* that stopped half-way, or logs that the broker itself cannot open.
RefusedOnlyForCause ==
  \A p \in Procs :
    /\ reason[p] \in {"none", "ok", "fault", "bind", "conflict", "range", "layout", "damaged"}
    /\ reason[p] = "conflict" =>
         \E x, y \in DOMAIN MessageRows :
           x # y /\ x[1] = y[1] /\ MessageRows[x] = MessageRows[y]
    /\ reason[p] = "range" => \E x \in DOMAIN MessageRows : TimeOf[MessageRows[x]] > MaxTime
    /\ reason[p] = "layout" => interrupted # {}
    /\ reason[p] = "damaged" => damaged
    /\ reason[p] = "fault" => faults > 0

\* Of two serve-alls that have the data directory open, one has stopped to accept
\* requests at both addresses and only answers the last of them: the sockets, bound
\* before the state is opened, keep a second serve-all from opening, and repairing,
\* the log of one that starts or accepts requests.
OpenedAlone ==
  \A p, q \in Procs :
    /\ p # q
    /\ command[p] = "serve_all" /\ command[q] = "serve_all"
    /\ pc[p] \in {"opened", "open"} /\ pc[q] \in {"opened", "open"}
    => \E r \in {p, q} : \A s \in Sides : side[r][s] \in {"draining", "done"}

\* When the shutdown future ends, both servers stop and serve_all_with_listeners
\* returns, whenever in its life the signal comes and however the sender goes.
ShutdownCompletes ==
  \A p \in Procs : (pc[p] = "open" /\ chan[p].closed) ~> (pc[p] = "ended")

=============================================================================
