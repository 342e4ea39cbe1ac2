--------------------------- MODULE MC_MemoryBroker ---------------------------
(* Model-checking instances of the in-memory broker.                       *)
EXTENDS MemoryBroker, TLC

\* A keyed message goes to partition 1, a round-robin one starts at 0.
MCKeyHash == [k \in PartitionKeys |-> 1]
MCTimes == 0 .. MaxTimestamp
MCLeases == {1, 2}
Symmetry == Permutations(Groups) \cup Permutations(Consumers)
=============================================================================
