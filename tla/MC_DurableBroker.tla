-------------------------- MODULE MC_DurableBroker --------------------------
(* Model-checking instances of the durable broker.                         *)
EXTENDS DurableBroker, TLC

MCKeyHash == [k \in PartitionKeys |-> 1]
MCTimes == 0 .. MaxTimestamp
Symmetry == Permutations(Consumers)
=============================================================================
