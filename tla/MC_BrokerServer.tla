--------------------------- MODULE MC_BrokerServer ---------------------------
(* Model-checking instance of brokerd and its clients.                     *)
EXTENDS BrokerServer, TLC
CONSTANTS p1, c1, c2, g1

MCKeyHash == [k \in PartitionKeys |-> 1]
MCMemberOf == (c1 :> g1) @@ (c2 :> g1)
MCLeasesOf == [c \in Consumers |-> {1}]
\* The clock of the second consumer is fast: its polls end leases of the first.
MCLeadOf == (c1 :> 0) @@ (c2 :> 1)
=============================================================================
