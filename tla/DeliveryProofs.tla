--------------------------- MODULE DeliveryProofs ----------------------------
(***************************************************************************)
(* What the transitions of DeliveryState preserve, proved for every set of *)
(* groups, consumers and topics and every retry policy, and what the       *)
(* helpers of publish and consume return. The broker modules apply these,  *)
(* live and in replay, so that their invariants follow from the lemmas     *)
(* here.                                                                   *)
(***************************************************************************)
EXTENDS DeliveryState, PublishState, FiniteSetTheorems, TLAPS

-----------------------------------------------------------------------------
(* Maps.                                                                   *)

\* Removing keys leaves a map of the same type.
LEMMA RemoveMap ==
  ASSUME NEW m, NEW K, NEW D, NEW V, IsMap(m, D, V)
  PROVE  IsMap(Remove(m, K), D, V)
  BY DEF Remove, IsMap

\* So does inserting entries of that type.
LEMMA InsertMap ==
  ASSUME NEW m, NEW new, NEW D, NEW V, IsMap(m, D, V), IsMap(new, D, V)
  PROVE  IsMap(Insert(m, new), D, V)
  BY DEF Insert, IsMap

\* The empty map has no keys and is a map of every type.
LEMMA EmptyMapFacts ==
  ASSUME NEW D, NEW V
  PROVE  DOMAIN EmptyMap = {} /\ IsMap(EmptyMap, D, V)
  BY DEF EmptyMap, IsMap

-----------------------------------------------------------------------------
(* The fields of the state each transition yields.                         *)

\* The slots of the pending deliveries I.
SlotsOf(s, I) == { s.pending[id].slot : id \in I }

\* Making scheduled messages available changes the retry schedule only.
LEMMA AvailableFields ==
  ASSUME NEW s, Shape(s), NEW X
  PROVE  LET t == MarkRetryAvailable(s, X)
         IN  /\ Shape(t)
             /\ t.acked = s.acked /\ t.deadLettered = s.deadLettered
             /\ t.deadLetters = s.deadLetters /\ t.cursor = s.cursor
             /\ t.retryByOffset = Remove(s.retryByOffset, X)
             /\ t.attemptCounts = s.attemptCounts
             /\ t.pendingByOffset = s.pendingByOffset
             /\ t.pending = s.pending
  BY DEF Shape, StateFields, MarkRetryAvailable

\* The fields of the delivery state of a new broker.
LEMMA EmptyFields ==
  LET t == EmptyState
  IN  /\ Shape(t)
      /\ t.acked = {} /\ t.deadLettered = {} /\ t.deadLetters = {}
      /\ t.cursor = [gp \in GroupPartitions |-> 0]
      /\ t.retryByOffset = EmptyMap /\ t.attemptCounts = EmptyMap
      /\ t.pendingByOffset = EmptyMap /\ t.pending = EmptyMap
  BY DEF Shape, StateFields, EmptyState

-----------------------------------------------------------------------------
(* The invariant, and the transitions that preserve it.                    *)

\* What holds of the delivery state of either broker: the parts support each
\* other, so that only their conjunction is preserved.
DeliveryInv(s) ==
  /\ DeliveryTypeOK(s)
  /\ OnePlace(s)
  /\ PendingMapsAgree(s)
  /\ AttemptsTracked(s)
  /\ DeadLettersOnce(s)
  /\ CursorContiguous(s)

\* The fields of a record of each kind.
LEMMA RecordFacts ==
  /\ \A x \in Slots : /\ x.group \in Groups /\ x.topic \in Topics
                      /\ x.partition \in Partitions /\ x.offset \in Nat
                      /\ GroupPartitionOf(x) \in GroupPartitions
  /\ \A x \in Slots, n \in Nat \ {0} :
       DeliveryId(x, n) \in DeliveryIds /\ DeliveryId(x, n).slot = x /\ DeliveryId(x, n).attempt = n
  /\ \A id \in DeliveryIds : id.slot \in Slots /\ id.attempt \in Nat \ {0}
  /\ \A id \in DeliveryIds : DeliveryId(id.slot, id.attempt) = id
  /\ \A d \in PendingDeliveries : d.slot \in Slots /\ d.attempt \in Nat \ {0}
  BY DEF Slots, GroupPartitions, GroupPartitionOf, DeliveryId, DeliveryIds, PendingDeliveries

\* The delivery state of a new broker is consistent.
LEMMA EmptyInv == DeliveryInv(EmptyState)
  <1> DEFINE t == EmptyState
  <1>1. DeliveryTypeOK(t)
    BY EmptyFields, EmptyMapFacts, FS_EmptySet DEF DeliveryTypeOK
  <1>2. OnePlace(t) /\ PendingMapsAgree(t) /\ AttemptsTracked(t) /\ DeadLettersOnce(t)
    BY EmptyFields, EmptyMapFacts
    DEF OnePlace, PendingMapsAgree, AttemptsTracked, DeadLettersOnce
  <1>3. CursorContiguous(t)
    BY EmptyFields DEF CursorContiguous
  <1> QED BY <1>1, <1>2, <1>3 DEF DeliveryInv

\* Consuming available messages, each with some attempt number, keeps the
\* delivery state consistent.
LEMMA ConsumedInv ==
  ASSUME NEW s, DeliveryInv(s),
         NEW attempts, IsMap(attempts, Slots, Nat \ {0}),
         \A x \in DOMAIN attempts : IsAvailable(s, x),
         NEW c \in Consumers, NEW lease \in Timestamps
  PROVE  DeliveryInv(ApplyConsumed(s, attempts, c, lease))
  <1> DEFINE t   == ApplyConsumed(s, attempts, c, lease)
             ids == { DeliveryId(x, attempts[x]) : x \in DOMAIN attempts }
             byOffset == [x \in DOMAIN attempts |-> DeliveryId(x, attempts[x])]
             byId == [id \in ids |-> [slot |-> id.slot, attempt |-> id.attempt,
                                      consumer |-> c, leaseExpiresAt |-> lease]]
  <1>1. Shape(s) /\ DeliveryTypeOK(s)
    BY DEF DeliveryInv, DeliveryTypeOK
  <1>2. /\ t.acked = s.acked /\ t.deadLettered = s.deadLettered
        /\ t.deadLetters = s.deadLetters /\ t.cursor = s.cursor
        /\ t.retryByOffset = s.retryByOffset /\ Shape(t)
        /\ t.attemptCounts = Insert(s.attemptCounts, attempts)
        /\ t.pendingByOffset = Insert(s.pendingByOffset, byOffset)
        /\ t.pending = Insert(s.pending, byId)
    BY <1>1 DEF Shape, StateFields, ApplyConsumed
  <1> HIDE DEF t
  <1>3. \A x \in DOMAIN attempts : x \in Slots /\ attempts[x] \in Nat \ {0}
    BY DEF IsMap
  <1>4. ids \subseteq DeliveryIds /\ \A id \in ids : id.slot \in DOMAIN attempts /\ attempts[id.slot] = id.attempt
    BY <1>3, RecordFacts
  <1>5. IsMap(byOffset, Slots, DeliveryIds)
    BY <1>3, RecordFacts DEF IsMap
  <1>6. IsMap(byId, DeliveryIds, PendingDeliveries)
    BY <1>4, RecordFacts DEF IsMap, PendingDeliveries
  <1>7. /\ DOMAIN byOffset = DOMAIN attempts
        /\ \A x \in DOMAIN attempts : byOffset[x] = DeliveryId(x, attempts[x])
        /\ DOMAIN byId = ids
        /\ \A id \in ids : byId[id].slot = id.slot /\ byId[id].attempt = id.attempt
    OBVIOUS
  <1>8. \A x \in DOMAIN attempts : byOffset[x] \in ids
    BY <1>7
  <1> HIDE DEF byOffset, byId, ids
  <1>9. DeliveryTypeOK(t)
    <2>1. IsMap(t.pendingByOffset, Slots, DeliveryIds)
      BY <1>1, <1>2, <1>5, InsertMap DEF DeliveryTypeOK
    <2>2. IsMap(t.pending, DeliveryIds, PendingDeliveries)
      BY <1>1, <1>2, <1>6, InsertMap DEF DeliveryTypeOK
    <2>3. IsMap(t.attemptCounts, Slots, Nat \ {0})
      BY <1>1, <1>2, InsertMap DEF DeliveryTypeOK
    <2> QED BY <1>1, <1>2, <2>1, <2>2, <2>3 DEF DeliveryTypeOK
  <1>10. /\ DOMAIN t.pendingByOffset = DOMAIN s.pendingByOffset \cup DOMAIN attempts
         /\ \A x \in DOMAIN attempts : t.pendingByOffset[x] = byOffset[x]
         /\ \A x \in DOMAIN s.pendingByOffset \ DOMAIN attempts :
              t.pendingByOffset[x] = s.pendingByOffset[x]
    BY <1>2, <1>7 DEF Insert
  <1>11. /\ DOMAIN t.pending = DOMAIN s.pending \cup ids
         /\ \A id \in ids : t.pending[id] = byId[id]
         /\ \A id \in DOMAIN s.pending \ ids : t.pending[id] = s.pending[id]
    BY <1>2, <1>7 DEF Insert
  <1>12. /\ DOMAIN t.attemptCounts = DOMAIN s.attemptCounts \cup DOMAIN attempts
         /\ \A x \in DOMAIN attempts : t.attemptCounts[x] = attempts[x]
         /\ \A x \in DOMAIN s.attemptCounts \ DOMAIN attempts :
              t.attemptCounts[x] = s.attemptCounts[x]
    BY <1>2 DEF Insert
  <1>13. OnePlace(t)
    BY <1>2, <1>10 DEF DeliveryInv, OnePlace, IsAvailable
  <1>14. PendingMapsAgree(t)
    <2>1. ASSUME NEW id \in DOMAIN t.pending
          PROVE  /\ t.pending[id].slot = id.slot /\ t.pending[id].attempt = id.attempt
                 /\ id.slot \in DOMAIN t.pendingByOffset /\ t.pendingByOffset[id.slot] = id
      <3>1. CASE id \in ids
        <4>1. id.slot \in DOMAIN attempts /\ byOffset[id.slot] = id
          BY <1>4, <1>7, <3>1, RecordFacts
        <4> QED BY <1>7, <1>10, <1>11, <3>1, <4>1
      <3>2. CASE id \notin ids
        <4>1. id \in DOMAIN s.pending /\ t.pending[id] = s.pending[id]
          BY <1>11, <3>2
        <4>2. id.slot \in DOMAIN s.pendingByOffset /\ id.slot \notin DOMAIN attempts
          BY <4>1 DEF DeliveryInv, PendingMapsAgree, IsAvailable
        <4> QED BY <1>10, <4>1, <4>2 DEF DeliveryInv, PendingMapsAgree
      <3> QED BY <3>1, <3>2
    <2>2. ASSUME NEW x \in DOMAIN t.pendingByOffset
          PROVE  t.pendingByOffset[x] \in DOMAIN t.pending /\ t.pendingByOffset[x].slot = x
      <3>1. CASE x \in DOMAIN attempts
        BY <1>3, <1>7, <1>8, <1>10, <1>11, <3>1, RecordFacts
      <3>2. CASE x \notin DOMAIN attempts
        BY <1>10, <1>11, <3>2 DEF DeliveryInv, PendingMapsAgree
      <3> QED BY <3>1, <3>2
    <2> QED BY <2>1, <2>2 DEF PendingMapsAgree
  <1>15. AttemptsTracked(t)
    <2>1. ASSUME NEW x \in DOMAIN t.pendingByOffset
          PROVE  /\ x \in DOMAIN t.attemptCounts
                 /\ t.attemptCounts[x] = t.pendingByOffset[x].attempt
      <3>1. CASE x \in DOMAIN attempts
        BY <1>3, <1>7, <1>10, <1>12, <3>1, RecordFacts
      <3>2. CASE x \notin DOMAIN attempts
        BY <1>10, <1>12, <3>2 DEF DeliveryInv, AttemptsTracked
      <3> QED BY <3>1, <3>2
    <2>2. DOMAIN t.retryByOffset \subseteq DOMAIN t.attemptCounts
      BY <1>2, <1>12 DEF DeliveryInv, AttemptsTracked
    <2>3. (t.acked \cup t.deadLettered) \cap DOMAIN t.attemptCounts = {}
      BY <1>2, <1>12 DEF DeliveryInv, AttemptsTracked, IsAvailable
    <2> QED BY <2>1, <2>2, <2>3 DEF AttemptsTracked
  <1>16. DeadLettersOnce(t) /\ CursorContiguous(t)
    BY <1>2 DEF DeliveryInv, DeadLettersOnce, CursorContiguous
  <1> QED BY <1>9, <1>13, <1>14, <1>15, <1>16 DEF DeliveryInv, t

-----------------------------------------------------------------------------
(* The cursor.                                                             *)

\* A non-empty set of naturals has a least element.
LEMMA LeastElement ==
  ASSUME NEW T, T \subseteq Nat, T # {}
  PROVE  \E n \in T : \A m \in T : n <= m
  <1>1. \E n \in T : \A m \in T : ~(<<m, n>> \in OpToRel(<, Nat))
    BY NatLessThanWellFounded, WFMin
  <1>2. ASSUME NEW m \in Nat, NEW n \in Nat, m < n
        PROVE  <<m, n>> \in OpToRel(<, Nat)
    BY <1>2 DEF OpToRel
  <1>3. PICK n \in T : \A m \in T : ~(<<m, n>> \in OpToRel(<, Nat))
    BY <1>1
  <1>4. \A m \in T : ~(m < n)
    BY <1>2, <1>3
  <1> QED BY <1>4

\* advance_cursor stops at the first offset, from the old cursor on, that has
\* not been acknowledged.
LEMMA AdvanceCursorFacts ==
  ASSUME NEW c \in Nat, NEW A, A \subseteq Nat, IsFiniteSet(A)
  PROVE  /\ AdvanceCursor(c, A) \in Nat /\ AdvanceCursor(c, A) >= c
         /\ AdvanceCursor(c, A) \notin A
         /\ \A m \in c .. AdvanceCursor(c, A) - 1 : m \in A
  <1> DEFINE I == c .. c + Cardinality(A)
  <1>1. Cardinality(A) \in Nat
    BY FS_CardinalityType
  <1>2. IsFiniteSet(I) /\ Cardinality(I) = Cardinality(A) + 1
    <2> DEFINE d == c + Cardinality(A)
    <2>1. c \in Int /\ d \in Int /\ ~(c > d) /\ d - c + 1 = Cardinality(A) + 1
      BY <1>1
    <2> HIDE DEF d
    <2>2. IsFiniteSet(c .. d) /\ Cardinality(c .. d) = d - c + 1
      BY <2>1, FS_Interval
    <2> QED BY <2>1, <2>2 DEF d
  <1>3. ~(I \subseteq A)
    <2> HIDE DEF I
    <2> SUFFICES ASSUME I \subseteq A PROVE FALSE
      OBVIOUS
    <2>1. Cardinality(I) <= Cardinality(A)
      BY FS_Subset
    <2> QED BY <1>1, <1>2, <2>1
  <1>4. PICK n \in I \ A : \A m \in I \ A : n <= m
    <2> DEFINE T == I \ A
    <2>1. T \subseteq Nat /\ T # {}
      BY <1>1, <1>3
    <2> HIDE DEF T
    <2>2. \E n \in T : \A m \in T : n <= m
      BY <2>1, LeastElement
    <2> QED BY <2>2 DEF T
  <1>5. n \in Nat /\ \A m \in c .. n - 1 : m \in A
    BY <1>1, <1>4
  <1>6. \E k \in I : k \notin A /\ \A m \in c .. k - 1 : m \in A
    BY <1>4, <1>5
  <1>7. /\ AdvanceCursor(c, A) \in I /\ AdvanceCursor(c, A) \notin A
        /\ \A m \in c .. AdvanceCursor(c, A) - 1 : m \in A
    BY <1>6 DEF AdvanceCursor
  <1> QED BY <1>1, <1>7

\* The offsets in a finite set of slots are a finite set.
LEMMA OffsetsFinite ==
  ASSUME NEW Z, Z \subseteq Slots, IsFiniteSet(Z)
  PROVE  IsFiniteSet({ y.offset : y \in Z }) /\ { y.offset : y \in Z } \subseteq Nat
  <1> DEFINE A == { y.offset : y \in Z }
             f == [y \in Z |-> y.offset]
  <1>1. f \in Surjection(Z, A)
    BY DEF Surjection
  <1> HIDE DEF f
  <1>2. IsFiniteSet(A)
    BY <1>1, FS_Surjection
  <1> QED BY <1>2, RecordFacts

\* Acknowledging a pending delivery keeps the delivery state consistent, the
\* cursor included.
LEMMA AckInv ==
  ASSUME NEW s, DeliveryInv(s), NEW id \in DOMAIN s.pending
  PROVE  DeliveryInv(ApplyAck(s, id))
  <1> DEFINE t  == ApplyAck(s, id)
             x  == s.pending[id].slot
             gp == GroupPartitionOf(x)
             Z  == { z \in s.acked \cup {x} : GroupPartitionOf(z) = gp }
             A  == { y.offset : y \in Z }
  <1>1. Shape(s) /\ DeliveryTypeOK(s)
    BY DEF DeliveryInv, DeliveryTypeOK
  <1>2. /\ t.acked = s.acked \cup {x} /\ t.deadLettered = s.deadLettered
        /\ t.deadLetters = s.deadLetters /\ t.retryByOffset = s.retryByOffset /\ Shape(t)
        /\ t.cursor = [s.cursor EXCEPT ![gp] = AdvanceCursor(@, A)]
        /\ t.attemptCounts = Remove(s.attemptCounts, {x})
        /\ t.pendingByOffset = Remove(s.pendingByOffset, {x})
        /\ t.pending = Remove(s.pending, {id})
    BY <1>1 DEF Shape, StateFields, ApplyAck
  <1>3. id \in DeliveryIds /\ s.pending[id] \in PendingDeliveries
    BY <1>1 DEF DeliveryTypeOK, IsMap
  <1>4. x \in Slots /\ x = id.slot /\ x \in DOMAIN s.pendingByOffset /\ s.pendingByOffset[x] = id
    BY <1>3, RecordFacts DEF DeliveryInv, PendingMapsAgree
  <1>5. gp \in GroupPartitions
    BY <1>4, RecordFacts
  <1>6. Z \subseteq Slots /\ IsFiniteSet(Z)
    <2>1. s.acked \cup {x} \subseteq Slots /\ IsFiniteSet(s.acked \cup {x})
      BY <1>1, <1>4, FS_AddElement DEF DeliveryTypeOK
    <2> QED BY <2>1, FS_Subset
  <1>7. A \subseteq Nat /\ IsFiniteSet(A)
    BY <1>6, OffsetsFinite
  <1>8. s.cursor \in [GroupPartitions -> Nat]
    BY <1>1 DEF DeliveryTypeOK
  <1> DEFINE new == AdvanceCursor(s.cursor[gp], A)
  <1>9. /\ new \in Nat /\ new >= s.cursor[gp] /\ new \notin A
        /\ \A m \in s.cursor[gp] .. new - 1 : m \in A
    BY <1>5, <1>7, <1>8, AdvanceCursorFacts
  <1>10. /\ t.cursor \in [GroupPartitions -> Nat] /\ t.cursor[gp] = new
         /\ \A hp \in GroupPartitions \ {gp} : t.cursor[hp] = s.cursor[hp]
    BY <1>2, <1>5, <1>8, <1>9
  <1> HIDE DEF t, new
  <1>11. DeliveryTypeOK(t)
    <2>1. t.acked \subseteq Slots /\ IsFiniteSet(t.acked)
      BY <1>1, <1>2, <1>4, FS_AddElement DEF DeliveryTypeOK
    <2>2. IsMap(t.pendingByOffset, Slots, DeliveryIds)
      BY <1>1, <1>2, RemoveMap DEF DeliveryTypeOK
    <2>3. IsMap(t.pending, DeliveryIds, PendingDeliveries)
      BY <1>1, <1>2, RemoveMap DEF DeliveryTypeOK
    <2>4. IsMap(t.attemptCounts, Slots, Nat \ {0})
      BY <1>1, <1>2, RemoveMap DEF DeliveryTypeOK
    <2> QED BY <1>1, <1>2, <1>10, <2>1, <2>2, <2>3, <2>4 DEF DeliveryTypeOK
  <1>12. OnePlace(t)
    BY <1>2, <1>4 DEF DeliveryInv, OnePlace, Remove
  <1>13. PendingMapsAgree(t)
    BY <1>2, <1>4 DEF DeliveryInv, PendingMapsAgree, Remove
  <1>14. AttemptsTracked(t)
    BY <1>2, <1>4 DEF DeliveryInv, AttemptsTracked, OnePlace, Remove
  <1>15. DeadLettersOnce(t)
    BY <1>2 DEF DeliveryInv, DeadLettersOnce
  <1>16. CursorContiguous(t)
    <2> DEFINE At(hp, o) == [group |-> hp.group, topic |-> hp.topic,
                             partition |-> hp.partition, offset |-> o]
    <2>1. \A hp \in GroupPartitions, o \in Nat :
            At(hp, o).offset = o /\ GroupPartitionOf(At(hp, o)) = hp
      BY DEF GroupPartitionOf, GroupPartitions
    <2>2. \A z \in Slots : z = At(GroupPartitionOf(z), z.offset)
      BY DEF GroupPartitionOf, Slots
    <2>3. ASSUME NEW hp \in GroupPartitions
          PROVE  /\ \A o \in 0 .. t.cursor[hp] - 1 : At(hp, o) \in t.acked
                 /\ At(hp, t.cursor[hp]) \notin t.acked
      <3> HIDE DEF At
      <3>1. /\ \A o \in 0 .. s.cursor[hp] - 1 : At(hp, o) \in s.acked
            /\ At(hp, s.cursor[hp]) \notin s.acked
        BY DEF DeliveryInv, CursorContiguous, At
      <3>2. CASE hp = gp
        <4>1. \A o \in A : At(gp, o) \in t.acked
          BY <1>2, <1>6, <2>2
        <4>2. \A o \in 0 .. new - 1 : At(gp, o) \in t.acked
          <5> SUFFICES ASSUME NEW o \in 0 .. new - 1 PROVE At(gp, o) \in t.acked
            OBVIOUS
          <5>1. CASE o \in A
            BY <4>1, <5>1
          <5>2. CASE o \notin A
            <6>1. s.cursor[gp] \in Nat
              BY <1>5, <1>8
            <6>2. o \in 0 .. s.cursor[gp] - 1
              BY <1>9, <5>2, <6>1
            <6>3. At(gp, o) \in s.acked
              BY <3>1, <3>2, <6>2
            <6> QED BY <1>2, <6>3
          <5> QED BY <5>1, <5>2
        <4>3. At(gp, new) \notin t.acked
          BY <1>2, <1>5, <1>9, <2>1
        <4> QED BY <1>10, <3>2, <4>2, <4>3
      <3>3. CASE hp # gp
        <4>1. t.cursor[hp] = s.cursor[hp] /\ s.cursor[hp] \in Nat
          BY <1>8, <1>10, <3>3
        <4>2. At(hp, s.cursor[hp]) # x
          BY <2>1, <3>3, <4>1
        <4> QED BY <1>2, <3>1, <4>1, <4>2
      <3> QED BY <3>2, <3>3
    <2> QED BY <2>3 DEF CursorContiguous
  <1> QED BY <1>11, <1>12, <1>13, <1>14, <1>15, <1>16 DEF DeliveryInv, t

-----------------------------------------------------------------------------
(* Outcomes, retries and releases.                                         *)

\* Different pending deliveries are of different messages.
LEMMA PendingSlots ==
  ASSUME NEW s, DeliveryInv(s), NEW I, I \subseteq DOMAIN s.pending
  PROVE  /\ SlotsOf(s, I) = { id.slot : id \in I }
         /\ SlotsOf(s, I) \subseteq DOMAIN s.pendingByOffset
         /\ SlotsOf(s, I) \subseteq Slots
         /\ \A id \in DOMAIN s.pending : id.slot \in SlotsOf(s, I) => id \in I
         /\ \A x \in DOMAIN s.pendingByOffset : x \notin SlotsOf(s, I) => s.pendingByOffset[x] \notin I
  <1>1. SlotsOf(s, I) = { id.slot : id \in I }
    BY DEF SlotsOf, DeliveryInv, PendingMapsAgree
  <1>2. SlotsOf(s, I) \subseteq DOMAIN s.pendingByOffset
    BY <1>1 DEF DeliveryInv, PendingMapsAgree
  <1>3. SlotsOf(s, I) \subseteq Slots
    BY <1>2 DEF DeliveryInv, DeliveryTypeOK, IsMap
  <1>4. \A id \in DOMAIN s.pending : id.slot \in SlotsOf(s, I) => id \in I
    BY <1>1 DEF DeliveryInv, PendingMapsAgree
  <1>5. \A x \in DOMAIN s.pendingByOffset : x \notin SlotsOf(s, I) => s.pendingByOffset[x] \notin I
    BY <1>1 DEF DeliveryInv, PendingMapsAgree
  <1> QED BY <1>1, <1>2, <1>3, <1>4, <1>5

\* Scheduling some pending deliveries for a retry and dead-lettering others,
\* whose attempts are used up, keeps the delivery state consistent.
LEMMA OutcomesInv ==
  ASSUME NEW s, DeliveryInv(s),
         NEW retry, retry \subseteq DOMAIN s.pending,
         NEW dead, dead \subseteq DOMAIN s.pending, retry \cap dead = {},
         NEW readyAt, retry # {} => readyAt \in Timestamps,
         NEW reason \in Reasons,
         \A id \in dead : s.pending[id].attempt >= MaxAttempts
  PROVE  DeliveryInv(ApplyOutcomes(s, retry, readyAt, dead, reason))
  <1> DEFINE t       == ApplyOutcomes(s, retry, readyAt, dead, reason)
             R       == SlotsOf(s, retry)
             D       == SlotsOf(s, dead)
             entries == { [slot |-> s.pending[id].slot, reason |-> reason,
                           attempts |-> s.pending[id].attempt] : id \in dead }
             waiting == [x \in R |-> readyAt]
  <1>1. Shape(s) /\ DeliveryTypeOK(s)
    BY DEF DeliveryInv, DeliveryTypeOK
  <1>2. /\ t.acked = s.acked /\ t.cursor = s.cursor /\ Shape(t)
        /\ t.deadLettered = s.deadLettered \cup D
        /\ t.deadLetters = s.deadLetters \cup entries
        /\ t.retryByOffset = Insert(Remove(s.retryByOffset, D), waiting)
        /\ t.attemptCounts = Remove(s.attemptCounts, D)
        /\ t.pendingByOffset = Remove(s.pendingByOffset, SlotsOf(s, retry \cup dead))
        /\ t.pending = Remove(s.pending, retry \cup dead)
    BY <1>1 DEF Shape, StateFields, ApplyOutcomes, SlotsOf
  <1>3. SlotsOf(s, retry \cup dead) = R \cup D
    BY DEF SlotsOf
  <1>4. /\ R \subseteq Slots /\ R \subseteq DOMAIN s.pendingByOffset
        /\ D \subseteq Slots /\ D \subseteq DOMAIN s.pendingByOffset
    BY PendingSlots
  <1>5. R \cap D = {}
    BY PendingSlots
  <1>6. /\ \A id \in DOMAIN s.pending : id.slot \in R \cup D => id \in retry \cup dead
        /\ \A x \in DOMAIN s.pendingByOffset \ (R \cup D) : s.pendingByOffset[x] \notin retry \cup dead
    BY <1>3, PendingSlots
  <1>7. \A id \in dead : s.pending[id] \in PendingDeliveries
    BY <1>1 DEF DeliveryTypeOK, IsMap
  <1>8. entries \subseteq DeadLetterEntries
    BY <1>7, RecordFacts DEF DeadLetterEntries
  <1>9. /\ \A e \in entries : e.slot \in D /\ e.attempts >= MaxAttempts
        /\ \A x \in D : \E e \in entries : e.slot = x
    <2>1. ASSUME NEW e \in entries PROVE e.slot \in D /\ e.attempts >= MaxAttempts
      BY DEF SlotsOf
    <2>2. ASSUME NEW x \in D PROVE \E e \in entries : e.slot = x
      <3>1. PICK id \in dead : x = s.pending[id].slot
        BY DEF SlotsOf
      <3> WITNESS [slot |-> s.pending[id].slot, reason |-> reason,
                   attempts |-> s.pending[id].attempt] \in entries
      <3> QED BY <3>1
    <2> QED BY <2>1, <2>2
  <1>10. \A e, f \in entries : e.slot = f.slot => e = f
    <2>1. ASSUME NEW i \in dead, NEW j \in dead, s.pending[i].slot = s.pending[j].slot
          PROVE  i = j
      BY <2>1 DEF DeliveryInv, PendingMapsAgree
    <2> QED BY <2>1
  <1>11. IsMap(waiting, Slots, Timestamps)
    BY <1>4 DEF IsMap, SlotsOf
  <1>12. DOMAIN waiting = R
    OBVIOUS
  <1> HIDE DEF t, R, D, entries, waiting
  <1>13. DOMAIN t.retryByOffset = (DOMAIN s.retryByOffset \ D) \cup R
    BY <1>2, <1>12 DEF Insert, Remove
  <1>14. DeliveryTypeOK(t)
    <2>1. IsMap(t.pendingByOffset, Slots, DeliveryIds)
      BY <1>1, <1>2, RemoveMap DEF DeliveryTypeOK
    <2>2. IsMap(t.pending, DeliveryIds, PendingDeliveries)
      BY <1>1, <1>2, RemoveMap DEF DeliveryTypeOK
    <2>3. IsMap(t.attemptCounts, Slots, Nat \ {0})
      BY <1>1, <1>2, RemoveMap DEF DeliveryTypeOK
    <2>4. IsMap(Remove(s.retryByOffset, D), Slots, Timestamps)
      BY <1>1, RemoveMap DEF DeliveryTypeOK
    <2>5. IsMap(t.retryByOffset, Slots, Timestamps)
      BY <1>2, <1>11, <2>4, InsertMap
    <2>6. /\ t.deadLettered \subseteq Slots /\ t.deadLetters \subseteq DeadLetterEntries
          /\ t.acked \subseteq Slots /\ IsFiniteSet(t.acked)
      BY <1>1, <1>2, <1>4, <1>8 DEF DeliveryTypeOK
    <2> QED BY <1>1, <1>2, <2>1, <2>2, <2>3, <2>5, <2>6 DEF DeliveryTypeOK
  <1>15. OnePlace(t)
    BY <1>2, <1>3, <1>4, <1>5, <1>13 DEF DeliveryInv, OnePlace, Remove
  <1>16. PendingMapsAgree(t)
    <2>1. /\ DOMAIN t.pending = DOMAIN s.pending \ (retry \cup dead)
          /\ \A id \in DOMAIN t.pending : t.pending[id] = s.pending[id]
      BY <1>2 DEF Remove
    <2>2. /\ DOMAIN t.pendingByOffset = DOMAIN s.pendingByOffset \ (R \cup D)
          /\ \A x \in DOMAIN t.pendingByOffset : t.pendingByOffset[x] = s.pendingByOffset[x]
      BY <1>2, <1>3 DEF Remove
    <2> QED BY <1>6, <2>1, <2>2 DEF DeliveryInv, PendingMapsAgree
  <1>17. AttemptsTracked(t)
    BY <1>2, <1>3, <1>4, <1>5, <1>13 DEF DeliveryInv, AttemptsTracked, OnePlace, Remove
  <1>18. DeadLettersOnce(t)
    <2>1. { e.slot : e \in t.deadLetters } = t.deadLettered
      BY <1>2, <1>9 DEF DeliveryInv, DeadLettersOnce
    <2>2. \A e \in s.deadLetters : e.slot \notin D
      BY <1>4 DEF DeliveryInv, DeadLettersOnce, OnePlace
    <2>3. \A e, f \in t.deadLetters : e.slot = f.slot => e = f
      BY <1>2, <1>9, <1>10, <2>2 DEF DeliveryInv, DeadLettersOnce
    <2>4. \A e \in t.deadLetters : e.attempts >= MaxAttempts
      BY <1>2, <1>9 DEF DeliveryInv, DeadLettersOnce
    <2> QED BY <2>1, <2>3, <2>4 DEF DeadLettersOnce
  <1>19. CursorContiguous(t)
    BY <1>2 DEF DeliveryInv, CursorContiguous
  <1> QED BY <1>14, <1>15, <1>16, <1>17, <1>18, <1>19 DEF DeliveryInv, t

\* Making scheduled messages available keeps the delivery state consistent.
LEMMA AvailableInv ==
  ASSUME NEW s, DeliveryInv(s), NEW X
  PROVE  DeliveryInv(MarkRetryAvailable(s, X))
  <1> DEFINE t == MarkRetryAvailable(s, X)
  <1>1. Shape(s) /\ DeliveryTypeOK(s)
    BY DEF DeliveryInv, DeliveryTypeOK
  <1>2. /\ t.acked = s.acked /\ t.deadLettered = s.deadLettered
        /\ t.deadLetters = s.deadLetters /\ t.cursor = s.cursor
        /\ t.retryByOffset = Remove(s.retryByOffset, X)
        /\ t.attemptCounts = s.attemptCounts
        /\ t.pendingByOffset = s.pendingByOffset
        /\ t.pending = s.pending /\ Shape(t)
    BY <1>1, AvailableFields
  <1> HIDE DEF t
  <1>3. IsMap(t.retryByOffset, Slots, Timestamps)
    BY <1>1, <1>2, RemoveMap DEF DeliveryTypeOK
  <1>4. DeliveryTypeOK(t)
    BY <1>1, <1>2, <1>3 DEF DeliveryTypeOK
  <1>5. OnePlace(t) /\ PendingMapsAgree(t)
    BY <1>2 DEF DeliveryInv, OnePlace, PendingMapsAgree, Remove
  <1>6. AttemptsTracked(t) /\ DeadLettersOnce(t) /\ CursorContiguous(t)
    BY <1>2 DEF DeliveryInv, AttemptsTracked, DeadLettersOnce, CursorContiguous, Remove
  <1> QED BY <1>4, <1>5, <1>6 DEF DeliveryInv, t

-----------------------------------------------------------------------------
(* Attempt counts.                                                         *)

\* Every consumed message is counted, and the ids handed out are accounted for.
LEMMA ConsumedCounts ==
  ASSUME NEW s, DeliveryInv(s),
         NEW attempts, IsMap(attempts, Slots, Nat \ {0}),
         \A x \in DOMAIN attempts :
           x \in DOMAIN s.attemptCounts => attempts[x] > s.attemptCounts[x],
         NEW c, NEW lease,
         NEW I, I \subseteq DeliveryIds, IssuedTracked(s, I)
  PROVE  LET t   == ApplyConsumed(s, attempts, c, lease)
             ids == { DeliveryId(x, attempts[x]) : x \in DOMAIN attempts }
         IN  /\ ids \subseteq DeliveryIds
             /\ IssuedTracked(t, I \cup ids)
             /\ AttemptsLeft(s) /\ (\A x \in DOMAIN attempts : attempts[x] <= MaxAttempts)
                  => AttemptsLeft(t)
  <1> DEFINE t   == ApplyConsumed(s, attempts, c, lease)
             ids == { DeliveryId(x, attempts[x]) : x \in DOMAIN attempts }
  <1>1. Shape(s) /\ IsMap(s.attemptCounts, Slots, Nat \ {0})
    BY DEF DeliveryInv, DeliveryTypeOK
  <1>2. /\ t.acked = s.acked /\ t.deadLettered = s.deadLettered
        /\ t.attemptCounts = Insert(s.attemptCounts, attempts)
        /\ t.pendingByOffset =
             Insert(s.pendingByOffset, [x \in DOMAIN attempts |-> DeliveryId(x, attempts[x])])
    BY <1>1 DEF Shape, StateFields, ApplyConsumed
  <1> HIDE DEF t
  <1>3. /\ DOMAIN t.attemptCounts = DOMAIN s.attemptCounts \cup DOMAIN attempts
        /\ \A x \in DOMAIN attempts : t.attemptCounts[x] = attempts[x]
        /\ \A x \in DOMAIN s.attemptCounts \ DOMAIN attempts :
             t.attemptCounts[x] = s.attemptCounts[x]
        /\ DOMAIN t.pendingByOffset = DOMAIN s.pendingByOffset \cup DOMAIN attempts
    BY <1>2 DEF Insert
  <1>4. /\ \A x \in DOMAIN attempts : x \in Slots /\ attempts[x] \in Nat
        /\ \A x \in DOMAIN s.attemptCounts : s.attemptCounts[x] \in Nat
        /\ \A id \in I : id.attempt \in Nat
    BY <1>1, RecordFacts DEF IsMap
  <1>5. /\ ids \subseteq DeliveryIds
        /\ \A id \in ids : id.slot \in DOMAIN attempts /\ id.attempt = attempts[id.slot]
    BY RecordFacts DEF IsMap
  <1> HIDE DEF ids
  <1>6. IssuedTracked(t, I \cup ids)
    BY <1>2, <1>3, <1>4, <1>5 DEF IssuedTracked
  <1>7. AttemptsLeft(s) /\ (\A x \in DOMAIN attempts : attempts[x] <= MaxAttempts)
          => AttemptsLeft(t)
    BY <1>3 DEF AttemptsLeft
  <1> QED BY <1>5, <1>6, <1>7 DEF t, ids

\* An acknowledgement drops the count of a message that is settled by it.
LEMMA AckCounts ==
  ASSUME NEW s, DeliveryInv(s), NEW id \in DOMAIN s.pending, NEW I
  PROVE  /\ IssuedTracked(s, I) => IssuedTracked(ApplyAck(s, id), I)
         /\ AttemptsLeft(s) => AttemptsLeft(ApplyAck(s, id))
  <1> DEFINE t == ApplyAck(s, id)
             x == s.pending[id].slot
  <1>1. Shape(s)
    BY DEF DeliveryInv, DeliveryTypeOK
  <1>2. /\ t.acked = s.acked \cup {x} /\ t.deadLettered = s.deadLettered
        /\ t.attemptCounts = Remove(s.attemptCounts, {x})
        /\ t.pendingByOffset = Remove(s.pendingByOffset, {x})
    BY <1>1 DEF Shape, StateFields, ApplyAck
  <1> HIDE DEF t, x
  <1> QED BY <1>2 DEF IssuedTracked, AttemptsLeft, Remove, t

\* Outcomes drop the counts of the messages they dead-letter, and leave the
\* others below the limit.
LEMMA OutcomesCounts ==
  ASSUME NEW s, DeliveryInv(s),
         NEW retry, retry \subseteq DOMAIN s.pending,
         NEW dead, dead \subseteq DOMAIN s.pending,
         NEW readyAt, NEW reason, NEW I
  PROVE  LET t == ApplyOutcomes(s, retry, readyAt, dead, reason)
         IN  /\ IssuedTracked(s, I) => IssuedTracked(t, I)
             /\ AttemptsLeft(s) /\ (\A id \in retry : s.pending[id].attempt < MaxAttempts)
                  => AttemptsLeft(t)
  <1> DEFINE t == ApplyOutcomes(s, retry, readyAt, dead, reason)
             R == SlotsOf(s, retry)
             D == SlotsOf(s, dead)
  <1>1. Shape(s)
    BY DEF DeliveryInv, DeliveryTypeOK
  <1>2. /\ t.acked = s.acked /\ t.deadLettered = s.deadLettered \cup D
        /\ t.attemptCounts = Remove(s.attemptCounts, D)
        /\ t.pendingByOffset = Remove(s.pendingByOffset, R \cup D)
    <2>1. SlotsOf(s, retry \cup dead) = R \cup D
      BY DEF SlotsOf
    <2> QED BY <1>1, <2>1 DEF Shape, StateFields, ApplyOutcomes, SlotsOf
  <1>3. ASSUME \A id \in retry : s.pending[id].attempt < MaxAttempts, NEW x \in R
        PROVE  s.attemptCounts[x] < MaxAttempts
    <2>1. PICK id \in retry : x = s.pending[id].slot
      BY DEF SlotsOf
    <2>2. x \in DOMAIN s.pendingByOffset /\ s.pendingByOffset[x] = id /\ s.pending[id].attempt = id.attempt
      BY <2>1 DEF DeliveryInv, PendingMapsAgree
    <2> QED BY <1>3, <2>2 DEF DeliveryInv, AttemptsTracked
  <1> HIDE DEF t, R, D
  <1>4. IssuedTracked(s, I) => IssuedTracked(t, I)
    BY <1>2 DEF IssuedTracked, Remove
  <1>5. AttemptsLeft(s) /\ (\A id \in retry : s.pending[id].attempt < MaxAttempts)
          => AttemptsLeft(t)
    BY <1>2, <1>3 DEF AttemptsLeft, Remove
  <1> QED BY <1>4, <1>5 DEF t

\* Making scheduled messages available leaves every attempt counted.
LEMMA AvailableCounts ==
  ASSUME NEW s, DeliveryInv(s), NEW X, NEW I
  PROVE  /\ IssuedTracked(s, I) => IssuedTracked(MarkRetryAvailable(s, X), I)
         /\ AttemptsLeft(s) => AttemptsLeft(MarkRetryAvailable(s, X))
  <1>1. Shape(s)
    BY DEF DeliveryInv, DeliveryTypeOK
  <1> QED BY <1>1, AvailableFields DEF IssuedTracked, AttemptsLeft

-----------------------------------------------------------------------------
(* Releasing, and the messages a state tracks.                             *)

\* The fields of a state whose in-flight deliveries were released.
LEMMA ReleaseFields ==
  ASSUME NEW s, DeliveryInv(s)
  PROVE  LET t == ReleasePending(s)
         IN  /\ Shape(t)
             /\ t.acked = s.acked /\ t.deadLettered = s.deadLettered
             /\ t.deadLetters = s.deadLetters /\ t.cursor = s.cursor
             /\ t.retryByOffset = s.retryByOffset /\ t.attemptCounts = s.attemptCounts
             /\ t.pending = EmptyMap /\ t.pendingByOffset = EmptyMap
  <1> DEFINE t == ReleasePending(s)
  <1>1. Shape(s)
    BY DEF DeliveryInv, DeliveryTypeOK
  <1>2. /\ Shape(t)
        /\ t.acked = s.acked /\ t.deadLettered = s.deadLettered
        /\ t.deadLetters = s.deadLetters /\ t.cursor = s.cursor
        /\ t.retryByOffset = s.retryByOffset /\ t.attemptCounts = s.attemptCounts
        /\ t.pending = EmptyMap
        /\ t.pendingByOffset = Remove(s.pendingByOffset, SlotsOf(s, DOMAIN s.pending))
    BY <1>1 DEF Shape, StateFields, ReleasePending, SlotsOf
  <1>3. DOMAIN s.pendingByOffset \ SlotsOf(s, DOMAIN s.pending) = {}
    BY DEF DeliveryInv, PendingMapsAgree, SlotsOf
  <1>4. Remove(s.pendingByOffset, SlotsOf(s, DOMAIN s.pending)) = EmptyMap
    BY <1>3 DEF Remove, EmptyMap
  <1> QED BY <1>2, <1>4

\* A restart leaves a consistent state, and every attempt counted.
LEMMA ReleaseInv ==
  ASSUME NEW s, DeliveryInv(s)
  PROVE  /\ DeliveryInv(ReleasePending(s))
         /\ Tracked(ReleasePending(s)) \subseteq Tracked(s)
         /\ \A I : IssuedTracked(s, I) => IssuedTracked(ReleasePending(s), I)
  <1> DEFINE t == ReleasePending(s)
  <1>1. /\ t.acked = s.acked /\ t.deadLettered = s.deadLettered
        /\ t.deadLetters = s.deadLetters /\ t.cursor = s.cursor
        /\ t.retryByOffset = s.retryByOffset /\ t.attemptCounts = s.attemptCounts
        /\ t.pending = EmptyMap /\ t.pendingByOffset = EmptyMap /\ Shape(t)
    BY ReleaseFields
  <1> HIDE DEF t
  <1>2. DOMAIN t.pending = {} /\ DOMAIN t.pendingByOffset = {}
    BY <1>1, EmptyMapFacts
  <1>3. DeliveryTypeOK(t)
    BY <1>1, EmptyMapFacts DEF DeliveryInv, DeliveryTypeOK
  <1>4. OnePlace(t) /\ PendingMapsAgree(t) /\ AttemptsTracked(t)
    BY <1>1, <1>2 DEF DeliveryInv, OnePlace, PendingMapsAgree, AttemptsTracked
  <1>5. DeadLettersOnce(t) /\ CursorContiguous(t)
    BY <1>1 DEF DeliveryInv, DeadLettersOnce, CursorContiguous
  <1>6. Tracked(t) \subseteq Tracked(s) /\ \A I : IssuedTracked(s, I) => IssuedTracked(t, I)
    BY <1>1, <1>2 DEF Tracked, IssuedTracked
  <1> QED BY <1>3, <1>4, <1>5, <1>6 DEF DeliveryInv, t

\* A transition tracks no message that was not tracked or consumed.
LEMMA TrackedFacts ==
  ASSUME NEW s, DeliveryInv(s)
  PROVE  /\ \A attempts, c, lease :
              Tracked(ApplyConsumed(s, attempts, c, lease)) \subseteq Tracked(s) \cup DOMAIN attempts
         /\ \A id \in DOMAIN s.pending : Tracked(ApplyAck(s, id)) \subseteq Tracked(s)
         /\ \A retry, dead \in SUBSET DOMAIN s.pending : \A readyAt, reason :
              Tracked(ApplyOutcomes(s, retry, readyAt, dead, reason)) \subseteq Tracked(s)
         /\ \A X : Tracked(MarkRetryAvailable(s, X)) \subseteq Tracked(s)
  <1>1. Shape(s)
    BY DEF DeliveryInv, DeliveryTypeOK
  <1>2. ASSUME NEW attempts, NEW c, NEW lease
        PROVE  Tracked(ApplyConsumed(s, attempts, c, lease)) \subseteq Tracked(s) \cup DOMAIN attempts
    BY <1>1 DEF Shape, StateFields, ApplyConsumed, Tracked, Insert
  <1>3. ASSUME NEW id \in DOMAIN s.pending
        PROVE  Tracked(ApplyAck(s, id)) \subseteq Tracked(s)
    <2> DEFINE t == ApplyAck(s, id)
               x == s.pending[id].slot
    <2>1. /\ t.acked = s.acked \cup {x} /\ t.deadLettered = s.deadLettered
          /\ t.retryByOffset = s.retryByOffset
          /\ t.attemptCounts = Remove(s.attemptCounts, {x})
          /\ t.pendingByOffset = Remove(s.pendingByOffset, {x})
      BY <1>1 DEF Shape, StateFields, ApplyAck
    <2>2. x \in DOMAIN s.pendingByOffset
      BY DEF DeliveryInv, PendingMapsAgree
    <2> HIDE DEF t, x
    <2> QED BY <2>1, <2>2 DEF Tracked, Remove, t
  <1>4. ASSUME NEW retry \in SUBSET DOMAIN s.pending, NEW dead \in SUBSET DOMAIN s.pending,
               NEW readyAt, NEW reason
        PROVE  Tracked(ApplyOutcomes(s, retry, readyAt, dead, reason)) \subseteq Tracked(s)
    <2> DEFINE t == ApplyOutcomes(s, retry, readyAt, dead, reason)
               R == SlotsOf(s, retry)
               D == SlotsOf(s, dead)
    <2>1. /\ t.acked = s.acked /\ t.deadLettered = s.deadLettered \cup D
          /\ DOMAIN t.retryByOffset \subseteq DOMAIN s.retryByOffset \cup R
          /\ DOMAIN t.attemptCounts \subseteq DOMAIN s.attemptCounts
          /\ DOMAIN t.pendingByOffset \subseteq DOMAIN s.pendingByOffset
      BY <1>1 DEF Shape, StateFields, ApplyOutcomes, SlotsOf, Insert, Remove
    <2>2. R \cup D \subseteq DOMAIN s.pendingByOffset
      BY PendingSlots
    <2> HIDE DEF t, R, D
    <2> QED BY <2>1, <2>2 DEF Tracked, t
  <1>5. ASSUME NEW X PROVE Tracked(MarkRetryAvailable(s, X)) \subseteq Tracked(s)
    <2> DEFINE t == MarkRetryAvailable(s, X)
    <2>1. /\ t.acked = s.acked /\ t.deadLettered = s.deadLettered
          /\ t.retryByOffset = Remove(s.retryByOffset, X)
          /\ t.attemptCounts = s.attemptCounts /\ t.pendingByOffset = s.pendingByOffset
      BY <1>1, AvailableFields
    <2> HIDE DEF t
    <2> QED BY <2>1 DEF Tracked, Remove, t
  <1> QED BY <1>2, <1>3, <1>4, <1>5

\* The attempt number of a message is past every attempt counted before, by one.
LEMMA NextAttemptType ==
  ASSUME NEW s, DeliveryInv(s), NEW x, NEW bound \in Nat,
         x \in DOMAIN s.attemptCounts => s.attemptCounts[x] <= bound
  PROVE  /\ NextAttemptNumber(s, x) \in 1 .. bound + 1
         /\ x \in DOMAIN s.attemptCounts => NextAttemptNumber(s, x) > s.attemptCounts[x]
  BY DEF DeliveryInv, DeliveryTypeOK, IsMap, NextAttemptNumber

-----------------------------------------------------------------------------
(* The helpers of the publish and consume paths.                           *)

\* Partitions are natural numbers, and there is a partition 0.
LEMMA PartitionFacts ==
  /\ 0 \in Partitions
  /\ \A n \in Nat : n % NumPartitions \in Partitions
  /\ Partitions \subseteq Nat
  BY TopicAssumption DEF Partitions

\* Keyed or round-robin, the selected partition exists.
LEMMA SelectPartitionFacts ==
  ASSUME NEW m \in Messages, NEW next \in Partitions
  PROVE  SelectPartition(m, next) \in Partitions /\ AdvanceRoundRobin(m, next) \in Partitions
  BY PartitionFacts, PublishAssumption DEF SelectPartition, AdvanceRoundRobin, Messages

\* consume selects available messages that exist in the log.
LEMMA SelectedFacts ==
  ASSUME NEW s, NEW g \in Groups, NEW t \in Topics,
         NEW len \in [Partitions -> Nat], NEW max
  PROVE  \A x \in Selected(s, g, t, len, max) :
           /\ x \in Slots /\ IsAvailable(s, x)
           /\ x.group = g /\ x.topic = t /\ x.offset < len[x.partition]
  <1> DEFINE all == UNION { { [group |-> g, topic |-> t, partition |-> p, offset |-> o]
                                : o \in 0 .. len[p] - 1 } : p \in Partitions }
  <1>1. \A x \in all : /\ x \in Slots /\ x.group = g /\ x.topic = t
                       /\ x.offset < len[x.partition]
    BY PartitionFacts DEF Slots
  <1>2. Selected(s, g, t, len, max) \subseteq { x \in all : IsAvailable(s, x) }
    BY DEF Selected
  <1> QED BY <1>1, <1>2

-----------------------------------------------------------------------------
(***************************************************************************)
(* What recover_publish_state finds in the message logs, before and after  *)
(* a publish, for every number of partitions and every set of messages.    *)
(***************************************************************************)

MessageLogs == [Topics -> [Partitions -> Seq(Messages)]]

-----------------------------------------------------------------------------
(* The positions of a topic.                                               *)

\* A topic has finitely many records.
LEMMA PositionsFinite ==
  ASSUME NEW L \in MessageLogs, NEW t \in Topics
  PROVE  IsFiniteSet(Positions(L, t))
  <1> DEFINE At(p) == {p} \X DOMAIN L[t][p]
             F     == { At(p) : p \in Partitions }
             f     == [p \in Partitions |-> At(p)]
  <1>1. IsFiniteSet(Partitions)
    BY TopicAssumption, FS_Interval DEF Partitions
  <1>2. f \in Surjection(Partitions, F)
    BY DEF Surjection
  <1>3. ASSUME NEW p \in Partitions PROVE IsFiniteSet(At(p))
    <2>1. L[t][p] \in Seq(Messages)
      BY DEF MessageLogs
    <2>2. Len(L[t][p]) \in Nat /\ DOMAIN L[t][p] = 1 .. Len(L[t][p])
      BY <2>1
    <2>3. IsFiniteSet(1 .. Len(L[t][p]))
      BY <2>2, FS_Interval
    <2>4. IsFiniteSet({p})
      BY FS_Singleton
    <2> QED BY <2>2, <2>3, <2>4, FS_Product
  <1> HIDE DEF f, At
  <1>4. IsFiniteSet(F)
    BY <1>1, <1>2, FS_Surjection
  <1>5. IsFiniteSet(UNION F)
    BY <1>3, <1>4, FS_UNION
  <1> QED BY <1>5 DEF Positions, At

\* The recovered counters name partitions.
LEMMA RecoveredRRType ==
  ASSUME NEW L \in MessageLogs, NEW T
  PROVE  RecoveredRR(L, T) \in [Topics -> Partitions]
  <1>1. ASSUME NEW t \in Topics PROVE Cardinality(UnkeyedPositions(L, t)) \in Nat
    <2>1. UnkeyedPositions(L, t) \in SUBSET Positions(L, t)
      BY DEF UnkeyedPositions
    <2>2. IsFiniteSet(UnkeyedPositions(L, t))
      BY <2>1, PositionsFinite, FS_Subset
    <2> QED BY <2>2, FS_CardinalityType
  <1> QED BY <1>1, PartitionFacts DEF RecoveredRR

\* A position is a partition and a place in its log.
LEMMA PositionFacts ==
  ASSUME NEW L \in MessageLogs, NEW t \in Topics
  PROVE  /\ \A p \in Partitions : Len(L[t][p]) \in Nat /\ DOMAIN L[t][p] = 1 .. Len(L[t][p])
         /\ \A p \in Partitions, i \in Nat :
              <<p, i>> \in Positions(L, t) <=> i \in 1 .. Len(L[t][p])
         /\ \A pos \in Positions(L, t) :
              \E p \in Partitions : \E i \in 1 .. Len(L[t][p]) : pos = <<p, i>>
         /\ \A pos \in Positions(L, t) : RecordAt(L, t, pos) \in Messages
  <1>1. ASSUME NEW p \in Partitions
        PROVE  /\ L[t][p] \in Seq(Messages)
               /\ Len(L[t][p]) \in Nat /\ DOMAIN L[t][p] = 1 .. Len(L[t][p])
    BY DEF MessageLogs
  <1>2. ASSUME NEW pos \in Positions(L, t)
        PROVE  \E p \in Partitions : \E i \in 1 .. Len(L[t][p]) : pos = <<p, i>>
    <2>1. PICK p \in Partitions : pos \in {p} \X DOMAIN L[t][p]
      BY DEF Positions
    <2>2. PICK i \in DOMAIN L[t][p] : pos = <<p, i>>
      BY <2>1
    <2> QED BY <2>2, <1>1
  <1>3. ASSUME NEW p \in Partitions, NEW i \in Nat
        PROVE  <<p, i>> \in Positions(L, t) <=> i \in 1 .. Len(L[t][p])
    <2>1. CASE i \in 1 .. Len(L[t][p])
      <3>1. <<p, i>> \in {p} \X DOMAIN L[t][p]
        BY <2>1, <1>1
      <3> QED BY <2>1, <3>1 DEF Positions
    <2>2. CASE <<p, i>> \in Positions(L, t)
      BY <2>2, <1>2
    <2> QED BY <2>1, <2>2
  <1>4. ASSUME NEW pos \in Positions(L, t)
        PROVE  RecordAt(L, t, pos) \in Messages
    <2>1. PICK p \in Partitions : \E i \in 1 .. Len(L[t][p]) : pos = <<p, i>>
      BY <1>2
    <2>2. PICK i \in 1 .. Len(L[t][p]) : pos = <<p, i>>
      BY <2>1
    <2>3. L[t][p][i] \in Messages
      BY <1>1, <2>2
    <2> QED BY <2>2, <2>3 DEF RecordAt
  <1> QED BY <1>1, <1>2, <1>3, <1>4

\* An append adds one position to its topic, and no other record moves.
LEMMA AppendedPositions ==
  ASSUME NEW L \in MessageLogs, NEW t \in Topics, NEW p \in Partitions, NEW m \in Messages,
         NEW M, M = AppendMessage(L, t, p, m), NEW new, new = <<p, Len(L[t][p]) + 1>>
  PROVE  /\ M \in MessageLogs
         /\ new \notin Positions(L, t)
         /\ Positions(M, t) = Positions(L, t) \cup {new}
         /\ RecordAt(M, t, new) = m
         /\ \A pos \in Positions(L, t) : RecordAt(M, t, pos) = RecordAt(L, t, pos)
         /\ \A u \in Topics \ {t} : M[u] = L[u]
  <1> DEFINE log == L[t][p]
  <1>1. log \in Seq(Messages) /\ Len(log) \in Nat
    BY DEF MessageLogs
  <1>2. /\ Append(log, m) \in Seq(Messages)
        /\ Len(Append(log, m)) = Len(log) + 1
        /\ Append(log, m)[Len(log) + 1] = m
        /\ \A i \in 1 .. Len(log) : Append(log, m)[i] = log[i]
    BY <1>1
  <1>3. /\ M[t][p] = Append(log, m)
        /\ \A q \in Partitions \ {p} : M[t][q] = L[t][q]
        /\ \A u \in Topics \ {t} : M[u] = L[u]
    BY DEF MessageLogs, AppendMessage
  <1>4. M \in MessageLogs
    <2>1. M = [L EXCEPT ![t] = [L[t] EXCEPT ![p] = Append(log, m)]]
      BY DEF AppendMessage
    <2>2. L[t] \in [Partitions -> Seq(Messages)]
      BY DEF MessageLogs
    <2>3. [L[t] EXCEPT ![p] = Append(log, m)] \in [Partitions -> Seq(Messages)]
      BY <1>2, <2>2
    <2> HIDE DEF log
    <2> QED BY <2>1, <2>3 DEF MessageLogs
  <1> HIDE DEF log
  <1>5. new \in Positions(M, t) /\ new \notin Positions(L, t)
    <2>1. Len(log) + 1 \in Nat /\ Len(log) + 1 \in 1 .. Len(M[t][p])
      BY <1>1, <1>2, <1>3
    <2>2. Len(log) + 1 \notin 1 .. Len(L[t][p])
      BY <1>1 DEF log
    <2> QED BY <2>1, <2>2, <1>4, PositionFacts DEF log
  <1>6. ASSUME NEW q \in Partitions, NEW i \in Nat
        PROVE  i \in 1 .. Len(M[t][q]) <=> i \in 1 .. Len(L[t][q]) \/ <<q, i>> = new
    <2>1. CASE q = p
      BY <2>1, <1>1, <1>2, <1>3 DEF log
    <2>2. CASE q # p
      BY <2>2, <1>3 DEF log
    <2> QED BY <2>1, <2>2
  <1>7. Positions(M, t) = Positions(L, t) \cup {new}
    <2>1. ASSUME NEW pos \in Positions(M, t) PROVE pos \in Positions(L, t) \cup {new}
      <3>1. PICK q \in Partitions : \E i \in 1 .. Len(M[t][q]) : pos = <<q, i>>
        BY <1>4, PositionFacts
      <3>2. PICK i \in 1 .. Len(M[t][q]) : pos = <<q, i>>
        BY <3>1
      <3>3. i \in Nat
        BY <1>4, PositionFacts
      <3> QED BY <3>2, <3>3, <1>6, PositionFacts
    <2>2. ASSUME NEW pos \in Positions(L, t) PROVE pos \in Positions(M, t)
      <3>1. PICK q \in Partitions : \E i \in 1 .. Len(L[t][q]) : pos = <<q, i>>
        BY PositionFacts
      <3>2. PICK i \in 1 .. Len(L[t][q]) : pos = <<q, i>>
        BY <3>1
      <3>3. i \in Nat
        BY PositionFacts
      <3> QED BY <3>2, <3>3, <1>4, <1>6, PositionFacts
    <2> QED BY <2>1, <2>2, <1>5
  <1>8. ASSUME NEW pos \in Positions(L, t) PROVE RecordAt(M, t, pos) = RecordAt(L, t, pos)
    <2>1. PICK q \in Partitions : \E i \in 1 .. Len(L[t][q]) : pos = <<q, i>>
      BY PositionFacts
    <2>2. PICK i \in 1 .. Len(L[t][q]) : pos = <<q, i>>
      BY <2>1
    <2>3. M[t][q][i] = L[t][q][i]
      <3>1. CASE q = p
        BY <3>1, <2>2, <1>2, <1>3 DEF log
      <3>2. CASE q # p
        BY <3>2, <1>3
      <3> QED BY <3>1, <3>2
    <2> QED BY <2>2, <2>3 DEF RecordAt
  <1>9. RecordAt(M, t, new) = m
    BY <1>2, <1>3 DEF RecordAt, log
  <1> QED BY <1>3, <1>4, <1>5, <1>7, <1>8, <1>9

-----------------------------------------------------------------------------
(* The round-robin counter.                                                *)

\* Division with remainder.
LEMMA Division ==
  ASSUME NEW N \in Nat \ {0}, NEW a \in Nat
  PROVE  a = N * (a \div N) + (a % N) /\ a \div N \in Nat /\ a % N \in 0 .. N - 1
  OBVIOUS

\* The remainder is unique.
LEMMA Remainder ==
  ASSUME NEW N \in Nat \ {0}, NEW q \in Nat, NEW r \in 0 .. N - 1
  PROVE  (N * q + r) % N = r
  OBVIOUS

\* Counting modulo N one by one is counting, modulo N.
LEMMA CountModulo ==
  ASSUME NEW N \in Nat \ {0}, NEW a \in Nat
  PROVE  (a + 1) % N = ((a % N) + 1) % N
  <1> DEFINE q == a \div N
             r == a % N
  <1>1. a = N * q + r /\ q \in Nat /\ r \in 0 .. N - 1
    BY Division
  <1> HIDE DEF q, r
  <1>2. CASE r + 1 < N
    <2>1. a + 1 = N * q + (r + 1) /\ N * 0 + (r + 1) = r + 1
      BY <1>1
    <2>2. (N * q + (r + 1)) % N = r + 1
      BY <1>1, <1>2, Remainder
    <2>3. (N * 0 + (r + 1)) % N = r + 1
      BY <1>1, <1>2, Remainder
    <2> QED BY <2>1, <2>2, <2>3 DEF r
  <1>3. CASE r + 1 = N
    <2>1. N * (q + 1) = N * q + N
      BY <1>1
    <2>2. a + 1 = N * (q + 1) + 0 /\ N * 1 + 0 = r + 1
      BY <1>1, <1>3, <2>1
    <2>3. (N * (q + 1) + 0) % N = 0
      BY <1>1, <1>3, Remainder
    <2>4. (N * 1 + 0) % N = 0
      BY Remainder
    <2> QED BY <2>2, <2>3, <2>4 DEF r
  <1> QED BY <1>1, <1>2, <1>3

\* The scan of a topic depends on the logs of that topic only.
LEMMA ScanBeside ==
  ASSUME NEW L, NEW M, NEW u, M[u] = L[u]
  PROVE  /\ Positions(M, u) = Positions(L, u)
         /\ \A pos : RecordAt(M, u, pos) = RecordAt(L, u, pos)
         /\ \A k : KeyPositions(M, u, k) = KeyPositions(L, u, k)
         /\ UnkeyedPositions(M, u) = UnkeyedPositions(L, u)
  BY DEF Positions, RecordAt, KeyPositions, UnkeyedPositions

\* Recovery counts an appended message the way the running broker did.
LEMMA AppendedRR ==
  ASSUME NEW L \in MessageLogs, NEW t \in Topics, NEW p \in Partitions, NEW m \in Messages,
         NEW T, t \in T, NEW M, M = AppendMessage(L, t, p, m)
  PROVE  RecoveredRR(M, T) = [RecoveredRR(L, T) EXCEPT ![t] = AdvanceRoundRobin(m, @)]
  <1> DEFINE new == <<p, Len(L[t][p]) + 1>>
             U   == UnkeyedPositions(L, t)
             V   == UnkeyedPositions(M, t)
  <1>1. /\ M \in MessageLogs
        /\ new \notin Positions(L, t)
        /\ Positions(M, t) = Positions(L, t) \cup {new}
        /\ RecordAt(M, t, new) = m
        /\ \A pos \in Positions(L, t) : RecordAt(M, t, pos) = RecordAt(L, t, pos)
        /\ \A u \in Topics \ {t} : M[u] = L[u]
    BY AppendedPositions
  <1>2. IsFiniteSet(U) /\ Cardinality(U) \in Nat
    <2>1. U \in SUBSET Positions(L, t)
      BY DEF UnkeyedPositions
    <2>2. IsFiniteSet(U)
      BY <2>1, PositionsFinite, FS_Subset
    <2> QED BY <2>2, FS_CardinalityType
  <1> HIDE DEF new
  <1>3. Cardinality(V) % NumPartitions
          = AdvanceRoundRobin(m, Cardinality(U) % NumPartitions)
    <2>1. CASE m.partitionKey = NoKey
      <3>1. V = U \cup {new} /\ new \notin U
        BY <1>1, <2>1 DEF UnkeyedPositions
      <3> HIDE DEF U, V
      <3>2. Cardinality(V) = Cardinality(U) + 1
        BY <3>1, <1>2, FS_AddElement
      <3> QED BY <3>2, <2>1, <1>2, CountModulo, TopicAssumption DEF AdvanceRoundRobin
    <2>2. CASE m.partitionKey # NoKey
      <3>1. V = U
        BY <1>1, <2>2 DEF UnkeyedPositions
      <3> QED BY <3>1, <2>2 DEF AdvanceRoundRobin
    <2> QED BY <2>1, <2>2
  <1>4. \A u \in Topics \ {t} : UnkeyedPositions(M, u) = UnkeyedPositions(L, u)
    BY <1>1, ScanBeside
  <1> QED BY <1>3, <1>4 DEF RecoveredRR

-----------------------------------------------------------------------------
(* The idempotency index.                                                  *)

\* No idempotency key is stored twice in a topic.
KeysUnique(L) ==
  \A t \in Topics, k \in IdempotencyKeys :
    \A a, b \in KeyPositions(L, t, k) : a = b

\* A message may be appended to topic t without storing its key twice.
KeyFree(L, t, m) ==
  m.idempotencyKey # NoKey => KeyPositions(L, t, m.idempotencyKey) = {}

\* The logs M store in addition to L the key of message m, at position new.
StoresAlso(L, M, t, m, new) ==
  /\ \A k \in IdempotencyKeys \ {m.idempotencyKey} :
       KeyPositions(M, t, k) = KeyPositions(L, t, k)
  /\ KeyPositions(M, t, m.idempotencyKey) = KeyPositions(L, t, m.idempotencyKey) \cup {new}
  /\ \A u \in Topics \ {t}, k \in IdempotencyKeys :
       KeyPositions(M, u, k) = KeyPositions(L, u, k)

\* An append stores one key more, if the message has one.
LEMMA AppendedKeys ==
  ASSUME NEW L \in MessageLogs, NEW t \in Topics, NEW p \in Partitions, NEW m \in Messages,
         NEW M, M = AppendMessage(L, t, p, m), NEW new, new = <<p, Len(L[t][p]) + 1>>
  PROVE  StoresAlso(L, M, t, m, new)
  <1>1. /\ Positions(M, t) = Positions(L, t) \cup {new}
        /\ RecordAt(M, t, new) = m
        /\ \A pos \in Positions(L, t) : RecordAt(M, t, pos) = RecordAt(L, t, pos)
        /\ \A u \in Topics \ {t} : M[u] = L[u]
    BY AppendedPositions
  <1>2. ASSUME NEW u \in Topics \ {t}
        PROVE  \A k \in IdempotencyKeys : KeyPositions(M, u, k) = KeyPositions(L, u, k)
    <2>1. M[u] = L[u]
      BY <1>1
    <2> QED BY <2>1 DEF KeyPositions, Positions, RecordAt
  <1>3. \A k \in IdempotencyKeys \ {m.idempotencyKey} :
          KeyPositions(M, t, k) = KeyPositions(L, t, k)
    BY <1>1 DEF KeyPositions
  <1>4. KeyPositions(M, t, m.idempotencyKey)
          = KeyPositions(L, t, m.idempotencyKey) \cup {new}
    BY <1>1 DEF KeyPositions
  <1> QED BY <1>2, <1>3, <1>4 DEF StoresAlso

\* Appending a message with a free key keeps the keys unique.
LEMMA AppendedUnique ==
  ASSUME NEW L \in MessageLogs, NEW t \in Topics, NEW p \in Partitions, NEW m \in Messages,
         NEW M, M = AppendMessage(L, t, p, m), KeysUnique(L), KeyFree(L, t, m)
  PROVE  KeysUnique(M)
  <1> SUFFICES ASSUME NEW u \in Topics, NEW k \in IdempotencyKeys,
                      NEW a \in KeyPositions(M, u, k), NEW b \in KeyPositions(M, u, k)
               PROVE  a = b
    BY DEF KeysUnique
  <1> DEFINE new == <<p, Len(L[t][p]) + 1>>
  <1>1. StoresAlso(L, M, t, m, new)
    BY AppendedKeys
  <1> HIDE DEF new
  <1>2. CASE u = t /\ k = m.idempotencyKey
    <2>1. KeyPositions(L, u, k) = {}
      BY <1>2, PublishAssumption DEF KeyFree
    <2> QED BY <1>1, <1>2, <2>1 DEF StoresAlso
  <1>3. CASE ~(u = t /\ k = m.idempotencyKey)
    BY <1>1, <1>3 DEF KeysUnique, StoresAlso
  <1> QED BY <1>2, <1>3

\* A key that is stored once is recovered with the record that holds it.
LEMMA RecoveredRecord ==
  ASSUME NEW L \in MessageLogs, KeysUnique(L), NEW T, T \subseteq Topics,
         NEW t \in T, NEW k \in IdempotencyKeys, NEW pos \in KeyPositions(L, t, k)
  PROVE  /\ <<t, k>> \in DOMAIN RecoveredIndex(L, T)
         /\ RecoveredIndex(L, T)[<<t, k>>]
              = IdempotencyRecord(t, RecordAt(L, t, pos), pos[1], pos[2] - 1)
         /\ KeyPositions(L, t, k) = {pos}
  <1> DEFINE places == KeyPositions(L, t, k)
             First(a) == \A b \in places : a[1] < b[1] \/ (a[1] = b[1] /\ a[2] <= b[2])
             first  == CHOOSE a \in places : First(a)
  <1>1. places = {pos}
    BY DEF KeysUnique
  <1>2. <<t, k>> \in RecoveredKeys(L, T)
    BY <1>1 DEF RecoveredKeys
  <1>3. PICK p \in Partitions : \E i \in 1 .. Len(L[t][p]) : pos = <<p, i>>
    BY PositionFacts DEF KeyPositions
  <1>4. pos[1] = p /\ pos[2] \in Int
    BY <1>3, PositionFacts
  <1>5. First(pos)
    BY <1>1, <1>4
  <1>6. first = pos
    BY <1>1, <1>5
  <1>7. RecoveredIndex(L, T)[<<t, k>>]
          = IdempotencyRecord(t, RecordAt(L, t, first), first[1], first[2] - 1)
    BY <1>2 DEF RecoveredIndex
  <1> QED BY <1>1, <1>2, <1>6, <1>7 DEF RecoveredIndex

\* Recovery finds in the appended record what the publish entered in the index.
LEMMA AppendedIndex ==
  ASSUME NEW L \in MessageLogs, NEW t \in Topics, NEW p \in Partitions, NEW m \in Messages,
         NEW T, T \subseteq Topics, t \in T, NEW M, M = AppendMessage(L, t, p, m),
         KeysUnique(L), KeyFree(L, t, m)
  PROVE  RecoveredIndex(M, T) = RecordPublish(RecoveredIndex(L, T), t, m, p, Len(L[t][p]))
  <1> DEFINE new == <<p, Len(L[t][p]) + 1>>
             R   == RecoveredIndex(L, T)
             key == m.idempotencyKey
  <1>1. /\ M \in MessageLogs
        /\ new \notin Positions(L, t)
        /\ RecordAt(M, t, new) = m
        /\ \A pos \in Positions(L, t) : RecordAt(M, t, pos) = RecordAt(L, t, pos)
        /\ \A u \in Topics \ {t} : M[u] = L[u]
    BY AppendedPositions
  <1>2. StoresAlso(L, M, t, m, new)
    BY AppendedKeys
  <1>3. KeysUnique(M)
    BY AppendedUnique
  <1>4. new[1] = p /\ new[2] - 1 = Len(L[t][p])
    BY PositionFacts
  <1> HIDE DEF new
  <1>5. ASSUME NEW u \in T, NEW k \in IdempotencyKeys, ~(u = t /\ k = key),
               <<u, k>> \in RecoveredKeys(L, T)
        PROVE  RecoveredIndex(M, T)[<<u, k>>] = R[<<u, k>>]
    <2>1. KeyPositions(M, u, k) = KeyPositions(L, u, k)
      BY <1>2, <1>5 DEF StoresAlso
    <2>2. PICK pos \in KeyPositions(L, u, k) : TRUE
      BY <1>5 DEF RecoveredKeys
    <2>3. RecordAt(M, u, pos) = RecordAt(L, u, pos)
      <3>1. CASE u = t
        BY <3>1, <1>1, <2>2 DEF KeyPositions
      <3>2. CASE u # t
        BY <3>2, <1>1, ScanBeside
      <3> QED BY <3>1, <3>2
    <2>4. R[<<u, k>>] = IdempotencyRecord(u, RecordAt(L, u, pos), pos[1], pos[2] - 1)
      BY <2>2, RecoveredRecord
    <2>5. RecoveredIndex(M, T)[<<u, k>>]
            = IdempotencyRecord(u, RecordAt(M, u, pos), pos[1], pos[2] - 1)
      BY <2>1, <2>2, <1>1, <1>3, RecoveredRecord
    <2> QED BY <2>3, <2>4, <2>5
  <1>6. DOMAIN R = RecoveredKeys(L, T) /\ DOMAIN RecoveredIndex(M, T) = RecoveredKeys(M, T)
    BY DEF RecoveredIndex
  <1>7. CASE key = NoKey
    <2>1. RecoveredKeys(M, T) = RecoveredKeys(L, T)
      BY <1>2, <1>7, PublishAssumption DEF RecoveredKeys, StoresAlso
    <2>2. \A tk \in RecoveredKeys(L, T) : RecoveredIndex(M, T)[tk] = R[tk]
      <3> SUFFICES ASSUME NEW tk \in RecoveredKeys(L, T)
                   PROVE  RecoveredIndex(M, T)[tk] = R[tk]
        OBVIOUS
      <3>1. PICK u \in T, k \in IdempotencyKeys : tk = <<u, k>>
        BY DEF RecoveredKeys
      <3> QED BY <3>1, <1>5, <1>7, PublishAssumption
    <2>3. RecoveredIndex(M, T) = R
      BY <2>1, <2>2 DEF RecoveredIndex
    <2> QED BY <2>3, <1>7 DEF RecordPublish
  <1>8. CASE key # NoKey
    <2>1. key \in IdempotencyKeys
      BY <1>8 DEF Messages
    <2>2. RecoveredKeys(M, T) = RecoveredKeys(L, T) \cup {<<t, key>>}
      BY <1>2, <2>1 DEF RecoveredKeys, StoresAlso
    <2>3. <<t, key>> \notin RecoveredKeys(L, T)
      BY <1>8 DEF RecoveredKeys, KeyFree
    <2>4. RecoveredIndex(M, T)[<<t, key>>] = IdempotencyRecord(t, m, p, Len(L[t][p]))
      <3>1. new \in KeyPositions(M, t, key)
        BY <1>2 DEF StoresAlso
      <3> QED BY <3>1, <2>1, <1>1, <1>3, <1>4, RecoveredRecord
    <2>5. \A tk \in RecoveredKeys(L, T) : RecoveredIndex(M, T)[tk] = R[tk]
      <3> SUFFICES ASSUME NEW tk \in RecoveredKeys(L, T)
                   PROVE  RecoveredIndex(M, T)[tk] = R[tk]
        OBVIOUS
      <3>1. PICK u \in T, k \in IdempotencyKeys : tk = <<u, k>>
        BY DEF RecoveredKeys
      <3>2. ~(u = t /\ k = key)
        BY <3>1, <2>3
      <3> QED BY <3>1, <3>2, <1>5
    <2> DEFINE Q == RecordPublish(R, t, m, p, Len(L[t][p]))
    <2>6. /\ DOMAIN Q = DOMAIN R \cup {<<t, key>>}
          /\ Q[<<t, key>>] = IdempotencyRecord(t, m, p, Len(L[t][p]))
          /\ \A tk \in DOMAIN R \ {<<t, key>>} : Q[tk] = R[tk]
          /\ Q = [tk \in DOMAIN Q |-> Q[tk]]
      BY <1>8, Zenon DEF RecordPublish, Insert
    <2> HIDE DEF Q
    <2>7. RecoveredIndex(M, T) = [tk \in DOMAIN Q |-> Q[tk]]
      <3>1. RecoveredIndex(M, T) = [tk \in DOMAIN Q |-> RecoveredIndex(M, T)[tk]]
        BY <2>2, <2>6, <1>6 DEF RecoveredIndex
      <3> QED BY <3>1, <2>2, <2>3, <2>4, <2>5, <2>6, <1>6
    <2> QED BY <2>6, <2>7 DEF Q
  <1> QED BY <1>7, <1>8

\* A topic without messages contributes nothing to the recovered publish state.
LEMMA EmptyTopicScan ==
  ASSUME NEW L \in MessageLogs, NEW T, NEW t \in Topics, Positions(L, t) = {}
  PROVE  /\ RecoveredRR(L, T \cup {t}) = RecoveredRR(L, T)
         /\ RecoveredIndex(L, T \cup {t}) = RecoveredIndex(L, T)
  <1>1. UnkeyedPositions(L, t) = {} /\ \A k : KeyPositions(L, t, k) = {}
    BY DEF UnkeyedPositions, KeyPositions
  <1>2. Cardinality({}) = 0 /\ 0 % NumPartitions = 0
    BY FS_EmptySet, TopicAssumption
  <1>3. RecoveredRR(L, T \cup {t}) = RecoveredRR(L, T)
    BY <1>1, <1>2 DEF RecoveredRR
  <1>4. RecoveredKeys(L, T \cup {t}) = RecoveredKeys(L, T)
    BY <1>1 DEF RecoveredKeys
  <1> QED BY <1>3, <1>4 DEF RecoveredIndex

=============================================================================
