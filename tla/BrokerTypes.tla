----------------------------- MODULE BrokerTypes -----------------------------
(***************************************************************************)
(* What every module of the broker shares: topics and their partitions,    *)
(* and maps that start empty and change by insertion and removal, as the   *)
(* BTreeMaps of msg-broker do.                                             *)
(***************************************************************************)
EXTENDS Integers, FiniteSets

CONSTANTS
  Topics,         \* topic names
  NumPartitions   \* partitions of every topic (TopicConfig::partition_count)

ASSUME TopicAssumption == NumPartitions \in Nat \ {0}

Partitions == 0 .. NumPartitions - 1

EmptyMap == [k \in {} |-> k]

\* BTreeMap::remove of every key in K.
Remove(m, K) == [k \in DOMAIN m \ K |-> m[k]]

\* BTreeMap::insert of every entry of new, replacing what was there.
Insert(m, new) ==
  [k \in DOMAIN m \cup DOMAIN new |-> IF k \in DOMAIN new THEN new[k] ELSE m[k]]

=============================================================================
