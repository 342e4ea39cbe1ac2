-------------------------- MODULE RecoverableBroker --------------------------
(***************************************************************************)
(* What the durable broker promises its callers: it is the in-memory       *)
(* broker, and a restart takes one of two forms. Either everything is      *)
(* found again except who held what, so that in-flight messages are        *)
(* available once more and keep their attempt counts; or the broker        *)
(* refuses to open, for good. There is nothing in between: no restart      *)
(* forgets one acknowledgement, one retry, one count or one topic.         *)
(***************************************************************************)
EXTENDS MemoryBroker

VARIABLE alive   \* has the broker not been lost?

recoverableVars == <<vars, alive>>

RecoverableInit == Init /\ alive = TRUE

Command == alive /\ Next /\ UNCHANGED alive

\* A crash whose restart will succeed.
Release ==
  /\ alive
  /\ ds' = ReleasePending(ds)
  /\ UNCHANGED <<topics, logs, nextRR, index, issued, alive>>

\* A crash whose restart will be refused.
Perish ==
  /\ alive' = FALSE
  /\ topics' = {}
  /\ nextRR' = [t \in Topics |-> 0]
  /\ index' = EmptyMap
  /\ ds' = EmptyState
  /\ UNCHANGED <<logs, issued>>

RecoverableNext == Release \/ Perish \/ Command

RecoverableSpec == RecoverableInit /\ [][RecoverableNext]_recoverableVars

=============================================================================
