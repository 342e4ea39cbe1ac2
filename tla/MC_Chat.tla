------------------------------ MODULE MC_Chat ---------------------------------
(* Model-checking instance of the chat application.                        *)
EXTENDS Chat
CONSTANTS a, b, c

Msg(id, fingerprint) == [id |-> id, fingerprint |-> fingerprint]
\* Three ids for a cache of two, one of them used twice, with another content.
MCTopic == <<Msg(a, 1), Msg(b, 1), Msg(a, 2), Msg(c, 1), Malformed>>
=============================================================================
