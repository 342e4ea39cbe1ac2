----------------------------- MODULE MC_Runtime -------------------------------
(* Model-checking instance of brokerd processes around one database.       *)
EXTENDS Runtime
CONSTANTS p1, p2, p3, topic1, m1, m2, m3, v1, v2

MCDeployment(c1, c2, c3, partitions, messages) ==
  [command |-> (p1 :> c1) @@ (p2 :> c2) @@ (p3 :> c3),
   meta |-> (topic1 :> partitions),
   log |-> (topic1 :> (0 :> messages @@ 1 :> <<>>))]
\* Two serve-alls; a serve-all that creates the topic, and a rebuild; a serve-all
\* that adds to a topic between, before or after two rebuilds; the commands that
\* open before they bind.
MCDeployments ==
  { MCDeployment("serve_all", "serve_all", "none", 1, <<m1>>),
    MCDeployment("serve_all", "rebuild", "none", 0, <<>>),
    MCDeployment("serve_all", "rebuild", "rebuild", 2, <<m1>>),
    MCDeployment("serve", "serve_grpc", "migrate", 0, <<>>) }
\* The time of the third message does not fit in a row.
MCTimeOf == (m1 :> 2) @@ (m2 :> 1) @@ (m3 :> 3)
MCTopicOrder == <<topic1>>
MCMigrations == <<v1, v2>>
=============================================================================
