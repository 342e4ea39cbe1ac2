------------------------------ MODULE AppendLog ------------------------------
(***************************************************************************)
(* What msg-storage promises of one partition, and what the durable broker *)
(* builds on: a sequence of messages that only grows, by one message at a  *)
(* time, whatever errors and crashes happen. The offset of a message is    *)
(* its position, counted from 0.                                           *)
(***************************************************************************)
EXTENDS Sequences

CONSTANT Msgs   \* the messages

VARIABLE log    \* the messages a reader sees

LogInit == log = << >>

LogNext == \E m \in Msgs : log' = Append(log, m)

LogSpec == LogInit /\ [][LogNext]_log

=============================================================================
