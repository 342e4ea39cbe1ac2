---------------------------- MODULE ReplayProofs -----------------------------
(***************************************************************************)
(* What the replay of a state log yields, for every state log and all      *)
(* message logs beside it. The provers have no induction over data: each   *)
(* induction is the argument that a set of counterexamples, if it is not   *)
(* empty, has a least element.                                             *)
(***************************************************************************)
EXTENDS StateLog, DeliveryProofs

-----------------------------------------------------------------------------
(* The recursive function inside Replay.                                   *)

Fresh == [type |-> "recovered", topics |-> {}, ds |-> EmptyState]

\* f is the replay of the first n lines, step by step.
IsTrace(f, L, lines, n) ==
  f = [i \in 0 .. n |-> IF i = 0 THEN Fresh ELSE ApplyRecoveredEvent(L, f[i - 1], lines[i])]

\* A set of naturals that contains 0 and the successor of each of its elements
\* contains them all.
LEMMA NatClosure ==
  ASSUME NEW S, 0 \in S, \A n \in Nat : n \in S => n + 1 \in S
  PROVE  \A n \in Nat : n \in S
  <1> DEFINE T == Nat \ S
  <1> SUFFICES ASSUME T # {} PROVE FALSE
    OBVIOUS
  <1>1. PICK n \in T : \A m \in T : n <= m
    BY LeastElement
  <1>2. n # 0 /\ n - 1 \in Nat /\ n - 1 \notin T
    BY <1>1
  <1>3. n - 1 \in S
    BY <1>2
  <1>4. (n - 1) + 1 \in S
    BY <1>2, <1>3
  <1> QED BY <1>1, <1>4

\* Two traces agree as far as both go.
LEMMA TraceUnique ==
  ASSUME NEW L, NEW lines, NEW m \in Nat, NEW n \in Nat, m <= n,
         NEW f, IsTrace(f, L, lines, m), NEW g, IsTrace(g, L, lines, n)
  PROVE  \A i \in 0 .. m : f[i] = g[i]
  <1> DEFINE S == { i \in Nat : i <= m => f[i] = g[i] }
  <1>1. 0 \in S
    BY DEF IsTrace
  <1>2. ASSUME NEW i \in Nat, i \in S PROVE i + 1 \in S
    <2>1. CASE i + 1 <= m
      <3>1. f[i + 1] = ApplyRecoveredEvent(L, f[(i + 1) - 1], lines[i + 1])
        BY <2>1 DEF IsTrace
      <3>2. g[i + 1] = ApplyRecoveredEvent(L, g[(i + 1) - 1], lines[i + 1])
        BY <2>1 DEF IsTrace
      <3>3. (i + 1) - 1 = i /\ f[i] = g[i]
        BY <1>2, <2>1
      <3> QED BY <3>1, <3>2, <3>3
    <2> QED BY <2>1
  <1> HIDE DEF S
  <1>3. \A i \in Nat : i \in S
    BY <1>1, <1>2, NatClosure
  <1> QED BY <1>3 DEF S

\* A trace depends on no line but the ones it replays.
LEMMA TraceLines ==
  ASSUME NEW L, NEW lines, NEW others, NEW n \in Nat, NEW f, IsTrace(f, L, others, n),
         \A i \in 1 .. n : others[i] = lines[i]
  PROVE  IsTrace(f, L, lines, n)
  <1>1. \A i \in 0 .. n : i # 0 => others[i] = lines[i]
    OBVIOUS
  <1> QED BY <1>1 DEF IsTrace

\* There is a trace of every length.
LEMMA TraceExists ==
  ASSUME NEW L, NEW lines
  PROVE  \A n \in Nat : \E f : IsTrace(f, L, lines, n)
  <1> DEFINE S == { n \in Nat : \E f : IsTrace(f, L, lines, n) }
  <1>1. 0 \in S
    <2> DEFINE f == [i \in 0 .. 0 |-> Fresh]
    <2>1. \A i \in 0 .. 0 : i = 0
      OBVIOUS
    <2>2. IsTrace(f, L, lines, 0)
      BY <2>1 DEF IsTrace
    <2> QED BY <2>2
  <1>2. ASSUME NEW n \in Nat, n \in S PROVE n + 1 \in S
    <2>1. PICK f : IsTrace(f, L, lines, n)
      BY <1>2
    <2> DEFINE g == [i \in 0 .. n + 1 |-> IF i = n + 1 THEN ApplyRecoveredEvent(L, f[n], lines[n + 1])
                                          ELSE f[i]]
    <2>2. \A i \in 0 .. n : g[i] = f[i]
      OBVIOUS
    <2>3. \A i \in 0 .. n : f[i] = IF i = 0 THEN Fresh ELSE ApplyRecoveredEvent(L, f[i - 1], lines[i])
      BY <2>1 DEF IsTrace
    <2>4. \A i \in 0 .. n + 1 :
            g[i] = IF i = 0 THEN Fresh ELSE ApplyRecoveredEvent(L, g[i - 1], lines[i])
      <3> SUFFICES ASSUME NEW i \in 0 .. n + 1
                   PROVE  g[i] = IF i = 0 THEN Fresh ELSE ApplyRecoveredEvent(L, g[i - 1], lines[i])
        OBVIOUS
      <3>1. CASE i = n + 1
        <4>1. i - 1 = n /\ g[n] = f[n] /\ i # 0
          BY <2>2, <3>1
        <4> QED BY <3>1, <4>1
      <3>2. CASE i # n + 1
        <4>1. i \in 0 .. n /\ (i # 0 => i - 1 \in 0 .. n)
          BY <3>2
        <4> HIDE DEF g
        <4> QED BY <2>2, <2>3, <4>1
      <3> QED BY <3>1, <3>2
    <2>5. IsTrace(g, L, lines, n + 1)
      BY <2>4 DEF IsTrace
    <2> HIDE DEF g
    <2> QED BY <2>5
  <1> HIDE DEF S
  <1>3. \A n \in Nat : n \in S
    BY <1>1, <1>2, NatClosure
  <1> QED BY <1>3 DEF S

\* Replay is the end of the trace.
LEMMA ReplayTrace ==
  ASSUME NEW L, NEW lines, Len(lines) \in Nat, NEW f, IsTrace(f, L, lines, Len(lines))
  PROVE  Replay(L, lines) = f[Len(lines)]
  <1> DEFINE N == Len(lines)
             Step(h) == [i \in 0 .. N |->
                IF i = 0 THEN [type |-> "recovered", topics |-> {}, ds |-> EmptyState]
                ELSE CHOOSE r \in { ApplyRecoveredEvent(L, q, lines[i]) : q \in {h[i - 1]} } : TRUE]
  <1>1. \A h : Step(h) = [i \in 0 .. N |-> IF i = 0 THEN Fresh
                                           ELSE ApplyRecoveredEvent(L, h[i - 1], lines[i])]
    <2>1. \A a : (CHOOSE r \in {a} : TRUE) = a
      OBVIOUS
    <2>2. \A q0, e : { ApplyRecoveredEvent(L, q, e) : q \in {q0} } = {ApplyRecoveredEvent(L, q0, e)}
      OBVIOUS
    <2> QED BY <2>1, <2>2 DEF Fresh
  <1>2. \A h : h = Step(h) <=> IsTrace(h, L, lines, N)
    BY <1>1 DEF IsTrace
  <1>3. Replay(L, lines) = (CHOOSE h : h = Step(h))[N]
    BY DEF Replay
  <1> HIDE DEF Step
  <1>4. (CHOOSE h : h = Step(h)) = Step(CHOOSE h : h = Step(h))
    BY <1>2
  <1>5. IsTrace((CHOOSE h : h = Step(h)), L, lines, N)
    BY <1>2, <1>4
  <1> DEFINE g == CHOOSE h : h = Step(h)
  <1>6. IsTrace(g, L, lines, N) /\ Replay(L, lines) = g[N]
    BY <1>3, <1>5
  <1> HIDE DEF g
  <1> QED BY <1>6, TraceUnique

-----------------------------------------------------------------------------
(* Replay, line by line.                                                   *)

\* Replaying one more line is applying its event.
LEMMA ReplayPrefix ==
  ASSUME NEW L, NEW S, NEW lines \in Seq(S), NEW n \in 0 .. Len(lines) - 1
  PROVE  Replay(L, SubSeq(lines, 1, n + 1))
           = ApplyRecoveredEvent(L, Replay(L, SubSeq(lines, 1, n)), lines[n + 1])
  <1> DEFINE now   == SubSeq(lines, 1, n + 1)
             early == SubSeq(lines, 1, n)
  <1>1. /\ n \in Nat /\ n + 1 \in Nat
        /\ Len(now) = n + 1 /\ \A i \in 1 .. n + 1 : now[i] = lines[i]
        /\ Len(early) = n /\ \A i \in 1 .. n : early[i] = lines[i]
    <2>1. n \in Nat /\ n + 1 \in Nat /\ Len(lines) \in Nat /\ n + 1 <= Len(lines)
      OBVIOUS
    <2>2. Len(now) = n + 1 /\ \A i \in 1 .. n + 1 : now[i] = lines[i]
      BY <2>1
    <2>3. Len(early) = n /\ \A i \in 1 .. n : early[i] = lines[i]
      BY <2>1
    <2> QED BY <2>1, <2>2, <2>3
  <1> HIDE DEF now, early
  <1>2. PICK f : IsTrace(f, L, now, n + 1)
    BY <1>1, TraceExists
  <1>3. PICK g : IsTrace(g, L, early, n)
    BY <1>1, TraceExists
  <1>4. Replay(L, now) = f[n + 1] /\ Replay(L, early) = g[n]
    <2>1. Len(now) \in Nat /\ IsTrace(f, L, now, Len(now))
      BY <1>1, <1>2
    <2>2. Len(early) \in Nat /\ IsTrace(g, L, early, Len(early))
      BY <1>1, <1>3
    <2> QED BY <1>1, <2>1, <2>2, ReplayTrace
  <1>5. \A i \in 0 .. n : g[i] = f[i]
    <2>1. IsTrace(f, L, lines, n + 1) /\ IsTrace(g, L, lines, n)
      BY <1>1, <1>2, <1>3, TraceLines
    <2>2. n <= n + 1
      BY <1>1
    <2> QED BY <1>1, <2>1, <2>2, TraceUnique
  <1>6. f[n + 1] = ApplyRecoveredEvent(L, f[(n + 1) - 1], now[n + 1])
    BY <1>1, <1>2 DEF IsTrace
  <1>7. (n + 1) - 1 = n /\ f[n] = g[n] /\ now[n + 1] = lines[n + 1]
    BY <1>1, <1>5
  <1> QED BY <1>4, <1>6, <1>7 DEF now, early

\* The replay of no lines at all.
LEMMA ReplayNothing ==
  ASSUME NEW L, NEW S, NEW lines \in Seq(S)
  PROVE  Replay(L, SubSeq(lines, 1, 0)) = Fresh /\ Replay(L, << >>) = Fresh
  <1>1. SubSeq(lines, 1, 0) = << >> /\ Len(<< >>) = 0
    OBVIOUS
  <1>2. PICK f : IsTrace(f, L, << >>, 0)
    BY TraceExists
  <1>3. f[0] = Fresh
    BY <1>2 DEF IsTrace
  <1> QED BY <1>1, <1>2, <1>3, ReplayTrace

\* What the appended event does to the replay of the log.
LEMMA ReplayAppend ==
  ASSUME NEW L, NEW S, NEW lines \in Seq(S), NEW e
  PROVE  Replay(L, Append(lines, e)) = ApplyRecoveredEvent(L, Replay(L, lines), e)
  <1> DEFINE more == Append(lines, e)
             n    == Len(lines)
  <1>1. /\ more \in Seq(S \cup {e}) /\ n \in 0 .. Len(more) - 1 /\ more[n + 1] = e
        /\ SubSeq(more, 1, n + 1) = more /\ SubSeq(more, 1, n) = lines
    OBVIOUS
  <1> HIDE DEF more, n
  <1>2. Replay(L, SubSeq(more, 1, n + 1))
          = ApplyRecoveredEvent(L, Replay(L, SubSeq(more, 1, n)), more[n + 1])
    BY <1>1, ReplayPrefix
  <1> QED BY <1>1, <1>2 DEF more

-----------------------------------------------------------------------------
(* One event.                                                              *)

IsRecovered(r) == r = [type |-> "recovered", topics |-> r.topics, ds |-> r.ds]

WithState(r, s) == [type |-> "recovered", topics |-> r.topics, ds |-> s]

\* What the code may have written as an event: in particular outcomes follow
\* the retry policy, and scheduled times fit in a u64.
OutcomesOK(e) ==
  LET o == e.outcomes
  IN  /\ o.retry \cup o.dead = DOMAIN e.claims /\ o.retry \cap o.dead = {}
      /\ o.retry # {} => o.readyAt \in Timestamps
      /\ o.reason \in Reasons
      /\ \A id \in o.retry : e.claims[id].attempt < MaxAttempts
      /\ \A id \in o.dead : e.claims[id].attempt >= MaxAttempts

EventOK(e) ==
  \/ e = Garbled
  \/ e.type = "topic_created" /\ e.topic \in Topics
  \/ /\ e.type = "messages_consumed"
     /\ IsMap(e.attempts, Slots, 1 .. MaxAttempts + 1)
     /\ e.consumer \in Consumers /\ e.leaseExpiresAt \in Timestamps
  \/ e.type = "message_acked" /\ \E id \in DOMAIN e.claims : DOMAIN e.claims = {id}
  \/ e.type = "message_nacked" /\ OutcomesOK(e)
  \/ e.type = "retry_maintenance_applied" /\ OutcomesOK(e)

\* A corrupt log stays corrupt.
LEMMA ApplyToCorrupt ==
  ASSUME NEW L, NEW e
  PROVE  ApplyRecoveredEvent(L, Corrupt, e) = Corrupt
  BY DEF ApplyRecoveredEvent

\* What each event does to a broker under recovery.
LEMMA ApplyToRecovered ==
  ASSUME NEW L, NEW r, IsRecovered(r), NEW e
  PROVE  LET after == ApplyRecoveredEvent(L, r, e)
         IN  /\ r # Corrupt
             /\ e = Garbled => after = Corrupt
             /\ e.type = "topic_created" =>
                  after = IF e.topic \in r.topics THEN Corrupt
                          ELSE [type |-> "recovered", topics |-> r.topics \cup {e.topic}, ds |-> r.ds]
             /\ e.type = "messages_consumed" =>
                  after = IF ConsumeAccepted(L, r, e)
                          THEN WithState(r, ApplyConsumed(r.ds, e.attempts, e.consumer, e.leaseExpiresAt))
                          ELSE Corrupt
             /\ e.type = "message_acked" =>
                  after = IF ClaimsAccepted(r.ds, e)
                          THEN WithState(r, ApplyAck(r.ds, CHOOSE id \in DOMAIN e.claims : TRUE))
                          ELSE Corrupt
             /\ e.type = "message_nacked" =>
                  after = IF ClaimsAccepted(r.ds, e)
                          THEN WithState(r, ApplyOutcomeSet(r.ds, e.outcomes))
                          ELSE Corrupt
             /\ e.type = "retry_maintenance_applied" =>
                  after = IF /\ ClaimsAccepted(r.ds, e)
                             /\ AvailabilityAccepted(ApplyOutcomeSet(r.ds, e.outcomes), e)
                          THEN WithState(r, ApplyMaintenance(r.ds, e))
                          ELSE Corrupt
  <1> DEFINE after == ApplyRecoveredEvent(L, r, e)
  <1>1. r.type = "recovered"
    BY DEF IsRecovered
  <1>2. r # Corrupt
    BY <1>1 DEF Corrupt
  <1>3. \A s : [r EXCEPT !.ds = s] = WithState(r, s)
    BY DEF IsRecovered, WithState
  <1>4. \A T : [r EXCEPT !.topics = T] = [type |-> "recovered", topics |-> T, ds |-> r.ds]
    BY DEF IsRecovered
  <1>5. e = Garbled => after = Corrupt
    BY DEF ApplyRecoveredEvent
  <1>6. e.type \in {"topic_created", "messages_consumed", "message_acked", "message_nacked",
                    "retry_maintenance_applied"} => e # Garbled
    BY DEF Garbled
  <1>7. CASE e.type = "topic_created"
    BY <1>2, <1>4, <1>6, <1>7 DEF ApplyRecoveredEvent, Garbled
  <1>8. CASE e.type = "messages_consumed"
    BY <1>2, <1>3, <1>6, <1>8 DEF ApplyRecoveredEvent, Garbled
  <1>9. CASE e.type = "message_acked"
    BY <1>2, <1>3, <1>6, <1>9 DEF ApplyRecoveredEvent, Garbled
  <1>10. CASE e.type = "message_nacked"
    BY <1>2, <1>3, <1>6, <1>10 DEF ApplyRecoveredEvent, Garbled
  <1>11. CASE e.type = "retry_maintenance_applied"
    BY <1>2, <1>3, <1>6, <1>11 DEF ApplyRecoveredEvent, Garbled
  <1> QED BY <1>2, <1>5, <1>7, <1>8, <1>9, <1>10, <1>11

-----------------------------------------------------------------------------
(* Every accepted event leaves a sound broker.                             *)

\* A broker under recovery: its delivery state is consistent, follows the retry
\* policy and tracks only messages that exist in the message logs L.
RecoveredOK(L, r) ==
  /\ IsRecovered(r)
  /\ r.topics \subseteq Topics
  /\ DeliveryInv(r.ds)
  /\ AttemptsLeft(r.ds)
  /\ \A x \in Tracked(r.ds) : MessageExists(L, r.topics, x)

\* A consume event continues the attempt counts of the broker it is applied to.
AttemptsFollow(r, e) ==
  e.type = "messages_consumed" =>
    \A x \in DOMAIN e.attempts : e.attempts[x] = NextAttemptNumber(r.ds, x)

\* The messages a consume event delivers are in the message logs.
EventCovered(L, e) ==
  e.type = "messages_consumed" =>
    \A x \in DOMAIN e.attempts : x.offset < Len(L[x.topic][x.partition])

\* The empty broker is sound.
LEMMA FreshOK ==
  ASSUME NEW L
  PROVE  RecoveredOK(L, Fresh) /\ IssuedTracked(Fresh.ds, {})
  <1>1. IsRecovered(Fresh) /\ Fresh.topics = {} /\ Fresh.ds = EmptyState
    BY DEF Fresh, IsRecovered
  <1>2. Tracked(EmptyState) = {} /\ AttemptsLeft(EmptyState)
    BY EmptyFields, EmptyMapFacts DEF Tracked, AttemptsLeft
  <1> QED BY <1>1, <1>2, EmptyInv DEF RecoveredOK, IssuedTracked

\* Claims the replay accepts are the pending deliveries of the broker.
LEMMA ClaimsFacts ==
  ASSUME NEW s, NEW e, ClaimsAccepted(s, e)
  PROVE  /\ DOMAIN e.claims \subseteq DOMAIN s.pending
         /\ \A id \in DOMAIN e.claims : e.claims[id].attempt = s.pending[id].attempt
  <1>1. \A id : Claims(s, {id})[id] = [slot     |-> s.pending[id].slot,
                                       consumer |-> s.pending[id].consumer,
                                       attempt  |-> s.pending[id].attempt]
    BY DEF Claims
  <1>2. ASSUME NEW id \in DOMAIN e.claims
        PROVE  id \in DOMAIN s.pending /\ e.claims[id].attempt = s.pending[id].attempt
    <2>1. id \in DOMAIN s.pending /\ e.claims[id] = Claims(s, {id})[id]
      BY DEF ClaimsAccepted
    <2>2. e.claims[id] = [slot     |-> s.pending[id].slot,
                          consumer |-> s.pending[id].consumer,
                          attempt  |-> s.pending[id].attempt]
      BY <1>1, <2>1, Zenon
    <2> QED BY <2>1, <2>2
  <1> QED BY <1>2

\* Accepted outcomes keep the delivery state sound.
LEMMA OutcomesSound ==
  ASSUME NEW s, DeliveryInv(s), AttemptsLeft(s), NEW e, OutcomesOK(e), ClaimsAccepted(s, e), NEW I
  PROVE  LET t == ApplyOutcomeSet(s, e.outcomes)
         IN  /\ DeliveryInv(t) /\ AttemptsLeft(t) /\ Tracked(t) \subseteq Tracked(s)
             /\ IssuedTracked(s, I) => IssuedTracked(t, I)
  <1> DEFINE o == e.outcomes
             t == ApplyOutcomes(s, o.retry, o.readyAt, o.dead, o.reason)
  <1>1. /\ o.retry \subseteq DOMAIN s.pending /\ o.dead \subseteq DOMAIN s.pending
        /\ o.retry \cap o.dead = {} /\ o.reason \in Reasons
        /\ o.retry # {} => o.readyAt \in Timestamps
        /\ \A id \in o.retry : s.pending[id].attempt < MaxAttempts
        /\ \A id \in o.dead : s.pending[id].attempt >= MaxAttempts
    BY ClaimsFacts DEF OutcomesOK
  <1> HIDE DEF o
  <1>2. DeliveryInv(t)
    BY <1>1, OutcomesInv
  <1>3. AttemptsLeft(t) /\ (IssuedTracked(s, I) => IssuedTracked(t, I))
    BY <1>1, OutcomesCounts
  <1>4. Tracked(t) \subseteq Tracked(s)
    BY <1>1, TrackedFacts
  <1> QED BY <1>2, <1>3, <1>4 DEF ApplyOutcomeSet, o

\* An event that is applied without an error leaves a sound broker, in which the
\* ids it handed out are accounted for.
LEMMA EventSound ==
  ASSUME NEW L, NEW r, RecoveredOK(L, r), NEW e, EventOK(e), AttemptsFollow(r, e),
         NEW I, I \subseteq DeliveryIds, IssuedTracked(r.ds, I),
         ApplyRecoveredEvent(L, r, e) # Corrupt
  PROVE  LET q == ApplyRecoveredEvent(L, r, e)
         IN  /\ RecoveredOK(L, q)
             /\ IssuedBy(e) \subseteq DeliveryIds
             /\ IssuedTracked(q.ds, I \cup IssuedBy(e))
             /\ EventCovered(L, e)
  <1> DEFINE q == ApplyRecoveredEvent(L, r, e)
             Goal == /\ RecoveredOK(L, q)
                     /\ IssuedBy(e) \subseteq DeliveryIds
                     /\ IssuedTracked(q.ds, I \cup IssuedBy(e))
                     /\ EventCovered(L, e)
  <1> SUFFICES Goal
    OBVIOUS
  <1>1. IsRecovered(r) /\ r.topics \subseteq Topics /\ DeliveryInv(r.ds) /\ AttemptsLeft(r.ds)
    BY DEF RecoveredOK
  <1>2. e # Garbled
    BY <1>1, ApplyToRecovered
  <1>3. ASSUME NEW s, q = WithState(r, s), DeliveryInv(s), AttemptsLeft(s),
               Tracked(s) \subseteq Tracked(r.ds), IssuedTracked(s, I),
               e.type # "messages_consumed"
        PROVE  Goal
    <2>1. IsRecovered(q) /\ q.topics = r.topics /\ q.ds = s
      BY <1>3 DEF IsRecovered, WithState
    <2>2. IssuedBy(e) = {} /\ EventCovered(L, e)
      BY <1>3 DEF IssuedBy, EventCovered
    <2> HIDE DEF q
    <2>3. \A x \in Tracked(s) : MessageExists(L, r.topics, x)
      BY <1>3 DEF RecoveredOK
    <2>4. I \cup IssuedBy(e) = I
      BY <2>2
    <2> QED BY <1>1, <1>3, <2>1, <2>2, <2>3, <2>4 DEF RecoveredOK
  <1>4. CASE e.type = "topic_created" /\ e.topic \in Topics
    <2>1. q = [type |-> "recovered", topics |-> r.topics \cup {e.topic}, ds |-> r.ds]
      BY <1>1, <1>4, ApplyToRecovered
    <2>2. IsRecovered(q) /\ q.topics = r.topics \cup {e.topic} /\ q.ds = r.ds
      BY <2>1 DEF IsRecovered
    <2>3. IssuedBy(e) = {} /\ EventCovered(L, e)
      BY <1>4 DEF IssuedBy, EventCovered
    <2> HIDE DEF q
    <2>4. \A x \in Tracked(r.ds) : MessageExists(L, q.topics, x)
      BY <2>2 DEF RecoveredOK, MessageExists
    <2> QED BY <1>1, <1>4, <2>2, <2>3, <2>4 DEF RecoveredOK
  <1>5. CASE /\ e.type = "messages_consumed"
             /\ IsMap(e.attempts, Slots, 1 .. MaxAttempts + 1)
             /\ e.consumer \in Consumers /\ e.leaseExpiresAt \in Timestamps
    <2> DEFINE s == ApplyConsumed(r.ds, e.attempts, e.consumer, e.leaseExpiresAt)
    <2>1. ConsumeAccepted(L, r, e) /\ q = WithState(r, s)
      BY <1>1, <1>5, ApplyToRecovered
    <2>2. \A x \in DOMAIN e.attempts : IsAvailable(r.ds, x) /\ MessageExists(L, r.topics, x)
      BY <2>1 DEF ConsumeAccepted
    <2>3. IsMap(e.attempts, Slots, Nat \ {0})
      BY <1>5, PolicyAssumption DEF IsMap
    <2>4. DeliveryInv(s)
      BY <1>1, <1>5, <2>2, <2>3, ConsumedInv
    <2>5. ASSUME NEW x \in DOMAIN e.attempts
          PROVE  /\ e.attempts[x] <= MaxAttempts
                 /\ x \in DOMAIN r.ds.attemptCounts => e.attempts[x] > r.ds.attemptCounts[x]
      <3>1. e.attempts[x] = NextAttemptNumber(r.ds, x)
        BY <1>5 DEF AttemptsFollow
      <3>2. MaxAttempts - 1 \in Nat
        BY PolicyAssumption
      <3>3. x \in DOMAIN r.ds.attemptCounts => r.ds.attemptCounts[x] <= MaxAttempts - 1
        BY <1>1, <2>2, PolicyAssumption
        DEF AttemptsLeft, IsAvailable, DeliveryInv, DeliveryTypeOK, IsMap
      <3>4. /\ NextAttemptNumber(r.ds, x) \in 1 .. (MaxAttempts - 1) + 1
            /\ x \in DOMAIN r.ds.attemptCounts => NextAttemptNumber(r.ds, x) > r.ds.attemptCounts[x]
        BY <1>1, <3>2, <3>3, NextAttemptType
      <3> QED BY <3>1, <3>2, <3>4, PolicyAssumption
    <2>6. IssuedBy(e) = { DeliveryId(x, e.attempts[x]) : x \in DOMAIN e.attempts }
      BY <1>5 DEF IssuedBy
    <2>7. /\ IssuedBy(e) \subseteq DeliveryIds
          /\ IssuedTracked(s, I \cup IssuedBy(e))
          /\ AttemptsLeft(s)
      <3> DEFINE ids == { DeliveryId(x, e.attempts[x]) : x \in DOMAIN e.attempts }
      <3>1. \A x \in DOMAIN e.attempts : /\ e.attempts[x] <= MaxAttempts
                                         /\ x \in DOMAIN r.ds.attemptCounts
                                              => e.attempts[x] > r.ds.attemptCounts[x]
        BY <2>5
      <3>2. DeliveryInv(r.ds) /\ AttemptsLeft(r.ds) /\ I \subseteq DeliveryIds /\ IssuedTracked(r.ds, I)
        BY <1>1
      <3>3. /\ ids \subseteq DeliveryIds /\ IssuedTracked(s, I \cup ids)
            /\ AttemptsLeft(r.ds) /\ (\A x \in DOMAIN e.attempts : e.attempts[x] <= MaxAttempts)
                 => AttemptsLeft(s)
        <4> HIDE DEF q
        <4>1. \A x \in DOMAIN e.attempts :
                x \in DOMAIN r.ds.attemptCounts => e.attempts[x] > r.ds.attemptCounts[x]
          BY <3>1
        <4> QED BY <2>3, <3>2, <4>1, ConsumedCounts
      <3> HIDE DEF s, ids
      <3>4. IssuedBy(e) = ids
        BY <2>6 DEF ids
      <3> QED BY <3>1, <3>2, <3>3, <3>4
    <2>8. Tracked(s) \subseteq Tracked(r.ds) \cup DOMAIN e.attempts
      BY <1>1, TrackedFacts
    <2>9. EventCovered(L, e)
      BY <2>2 DEF EventCovered, MessageExists
    <2>10. IsRecovered(q) /\ q.topics = r.topics /\ q.ds = s
      BY <2>1 DEF IsRecovered, WithState
    <2> HIDE DEF q, s
    <2>11. \A x \in Tracked(s) : MessageExists(L, r.topics, x)
      BY <2>2, <2>8 DEF RecoveredOK
    <2> QED BY <1>1, <2>4, <2>7, <2>9, <2>10, <2>11 DEF RecoveredOK
  <1>6. CASE e.type = "message_acked" /\ \E id \in DOMAIN e.claims : DOMAIN e.claims = {id}
    <2> DEFINE id == CHOOSE i \in DOMAIN e.claims : TRUE
    <2>1. ClaimsAccepted(r.ds, e) /\ q = WithState(r, ApplyAck(r.ds, id))
      BY <1>1, <1>6, ApplyToRecovered
    <2>2. id \in DOMAIN r.ds.pending
      BY <1>6, <2>1, ClaimsFacts
    <2> HIDE DEF id
    <2>3. /\ DeliveryInv(ApplyAck(r.ds, id)) /\ AttemptsLeft(ApplyAck(r.ds, id))
          /\ IssuedTracked(ApplyAck(r.ds, id), I)
          /\ Tracked(ApplyAck(r.ds, id)) \subseteq Tracked(r.ds)
      BY <1>1, <2>2, AckInv, AckCounts, TrackedFacts
    <2>4. e.type # "messages_consumed"
      BY <1>6
    <2> HIDE DEF q, Goal
    <2> QED BY <1>3, <2>1, <2>3, <2>4
  <1>7. CASE e.type = "message_nacked" /\ OutcomesOK(e)
    <2> DEFINE s == ApplyOutcomeSet(r.ds, e.outcomes)
    <2>1. ClaimsAccepted(r.ds, e) /\ q = WithState(r, s)
      BY <1>1, <1>7, ApplyToRecovered
    <2>2. /\ DeliveryInv(s) /\ AttemptsLeft(s) /\ Tracked(s) \subseteq Tracked(r.ds)
          /\ IssuedTracked(s, I)
      BY <1>1, <1>7, <2>1, OutcomesSound
    <2>3. e.type # "messages_consumed"
      BY <1>7
    <2> HIDE DEF q, s, Goal
    <2> QED BY <1>3, <2>1, <2>2, <2>3
  <1>8. CASE e.type = "retry_maintenance_applied" /\ OutcomesOK(e)
    <2> DEFINE s == ApplyOutcomeSet(r.ds, e.outcomes)
               X == e.ready \cup e.expiredReady
               u == MarkRetryAvailable(s, X)
    <2>1. ClaimsAccepted(r.ds, e) /\ q = WithState(r, u)
      BY <1>1, <1>8, ApplyToRecovered DEF ApplyMaintenance
    <2>2. /\ DeliveryInv(s) /\ AttemptsLeft(s) /\ Tracked(s) \subseteq Tracked(r.ds)
          /\ IssuedTracked(s, I)
      BY <1>1, <1>8, <2>1, OutcomesSound
    <2> HIDE DEF s, X
    <2>3. /\ DeliveryInv(u) /\ AttemptsLeft(u) /\ Tracked(u) \subseteq Tracked(s)
          /\ IssuedTracked(u, I)
      BY <2>2, AvailableInv, AvailableCounts, TrackedFacts
    <2>4. e.type # "messages_consumed" /\ Tracked(u) \subseteq Tracked(r.ds)
      BY <1>8, <2>2, <2>3
    <2> HIDE DEF q, u, Goal
    <2> QED BY <1>3, <2>1, <2>3, <2>4
  <1> HIDE DEF Goal
  <1> QED BY <1>2, <1>4, <1>5, <1>6, <1>7, <1>8 DEF EventOK

-----------------------------------------------------------------------------
(* Whole logs.                                                             *)

\* Every line is an event the code writes, and every consume event continues
\* the attempt counts of the lines before it.
WellFormed(L, lines) ==
  /\ lines \in Seq({ lines[i] : i \in DOMAIN lines })
  /\ \A i \in DOMAIN lines : EventOK(lines[i])
  /\ \A n \in 0 .. Len(lines) - 1 :
       LET r == Replay(L, SubSeq(lines, 1, n))
       IN  r # Corrupt => AttemptsFollow(r, lines[n + 1])

\* The delivery ids the first n lines hand out.
IssuedUpTo(lines, n) == UNION { IssuedBy(lines[i]) : i \in 1 .. n }

Covered(L, lines) == \A i \in DOMAIN lines : EventCovered(L, lines[i])

\* A log that can be replayed yields a sound broker: by induction on the lines.
LEMMA ReplaySound ==
  ASSUME NEW L, NEW lines, WellFormed(L, lines)
  PROVE  \A n \in 0 .. Len(lines) :
           LET r == Replay(L, SubSeq(lines, 1, n))
           IN  r # Corrupt =>
                 /\ RecoveredOK(L, r)
                 /\ IssuedUpTo(lines, n) \subseteq DeliveryIds
                 /\ IssuedTracked(r.ds, IssuedUpTo(lines, n))
                 /\ \A i \in 1 .. n : EventCovered(L, lines[i])
  <1> DEFINE E    == { lines[i] : i \in DOMAIN lines }
             R(n) == Replay(L, SubSeq(lines, 1, n))
             I(n) == IssuedUpTo(lines, n)
             P(n) == R(n) # Corrupt =>
                       /\ RecoveredOK(L, R(n)) /\ I(n) \subseteq DeliveryIds
                       /\ IssuedTracked(R(n).ds, I(n))
                       /\ \A i \in 1 .. n : EventCovered(L, lines[i])
             S    == { n \in Nat : n <= Len(lines) => P(n) }
  <1>1. lines \in Seq(E) /\ Len(lines) \in Nat /\ DOMAIN lines = 1 .. Len(lines)
    BY DEF WellFormed
  <1> HIDE DEF E
  <1>2. 0 \in S
    <2>1. R(0) = Fresh
      BY <1>1, ReplayNothing
    <2>2. I(0) = {} /\ \A i \in 1 .. 0 : EventCovered(L, lines[i])
      BY DEF IssuedUpTo
    <2> HIDE DEF R, I
    <2>3. P(0)
      BY <2>1, <2>2, FreshOK
    <2> QED BY <2>3
  <1>3. ASSUME NEW n \in Nat, n \in S PROVE n + 1 \in S
    <2> SUFFICES ASSUME n + 1 <= Len(lines), R(n + 1) # Corrupt
                 PROVE  /\ RecoveredOK(L, R(n + 1)) /\ I(n + 1) \subseteq DeliveryIds
                        /\ IssuedTracked(R(n + 1).ds, I(n + 1))
                        /\ \A i \in 1 .. n + 1 : EventCovered(L, lines[i])
      OBVIOUS
    <2> DEFINE e == lines[n + 1]
    <2>1. n \in 0 .. Len(lines) - 1 /\ n + 1 \in DOMAIN lines
      BY <1>1
    <2>2. R(n + 1) = ApplyRecoveredEvent(L, R(n), e)
      BY <1>1, <2>1, ReplayPrefix
    <2>3. R(n) # Corrupt
      BY <2>2, ApplyToCorrupt
    <2>4. /\ RecoveredOK(L, R(n)) /\ I(n) \subseteq DeliveryIds
          /\ IssuedTracked(R(n).ds, I(n))
          /\ \A i \in 1 .. n : EventCovered(L, lines[i])
      <3>1. n <= Len(lines)
        BY <1>1
      <3> HIDE DEF R, I
      <3> QED BY <1>3, <2>3, <3>1
    <2>5. EventOK(e) /\ AttemptsFollow(R(n), e)
      BY <2>1, <2>3 DEF WellFormed
    <2>6. I(n + 1) = I(n) \cup IssuedBy(e)
      <3>1. 1 .. n + 1 = (1 .. n) \cup {n + 1}
        OBVIOUS
      <3> QED BY <3>1 DEF IssuedUpTo
    <2> HIDE DEF R, I, e
    <2>7. /\ RecoveredOK(L, R(n + 1)) /\ IssuedBy(e) \subseteq DeliveryIds
          /\ IssuedTracked(R(n + 1).ds, I(n) \cup IssuedBy(e)) /\ EventCovered(L, e)
      BY <2>2, <2>4, <2>5, EventSound
    <2>8. \A i \in 1 .. n + 1 : i \in 1 .. n \/ i = n + 1
      OBVIOUS
    <2> QED BY <2>4, <2>6, <2>7, <2>8 DEF e
  <1> HIDE DEF S
  <1>4. \A n \in Nat : n \in S
    BY <1>2, <1>3, NatClosure
  <1>5. ASSUME NEW n \in 0 .. Len(lines) PROVE P(n)
    <2>1. n \in Nat /\ n <= Len(lines)
      BY <1>1
    <2> HIDE DEF P
    <2> QED BY <1>4, <2>1 DEF S
  <1> QED BY <1>5

\* What a state log that can be replayed yields.
LEMMA ReplayFacts ==
  ASSUME NEW L, NEW lines, WellFormed(L, lines), Replay(L, lines) # Corrupt
  PROVE  LET r == Replay(L, lines)
             I == IssuedUpTo(lines, Len(lines))
         IN  /\ RecoveredOK(L, r) /\ Covered(L, lines)
             /\ I \subseteq DeliveryIds /\ IssuedTracked(r.ds, I)
  <1> DEFINE N == Len(lines)
             E == { lines[i] : i \in DOMAIN lines }
  <1>1. lines \in Seq(E)
    BY DEF WellFormed
  <1> HIDE DEF E
  <1>2. N \in 0 .. Len(lines) /\ SubSeq(lines, 1, N) = lines /\ DOMAIN lines = 1 .. N
    BY <1>1
  <1> HIDE DEF N
  <1>3. LET r == Replay(L, SubSeq(lines, 1, N))
        IN  r # Corrupt =>
              /\ RecoveredOK(L, r)
              /\ IssuedUpTo(lines, N) \subseteq DeliveryIds
              /\ IssuedTracked(r.ds, IssuedUpTo(lines, N))
              /\ \A i \in 1 .. N : EventCovered(L, lines[i])
    BY <1>2, ReplaySound
  <1> QED BY <1>2, <1>3 DEF Covered, N

\* What the lines deliver and M holds, L holds too.
DeliveredWithin(M, L, lines) ==
  \A i \in DOMAIN lines : lines[i].type = "messages_consumed" =>
    \A x \in DOMAIN lines[i].attempts :
      x.offset < Len(M[x.topic][x.partition]) => x.offset < Len(L[x.topic][x.partition])

\* Message logs M that hold less than L are enough or they are not: if the state
\* log can be replayed beside M, its replay beside L is the same.
LEMMA ReplayBeside ==
  ASSUME NEW L, NEW M, NEW E, NEW lines \in Seq(E), DeliveredWithin(M, L, lines)
  PROVE  \A n \in 0 .. Len(lines) :
           Replay(M, SubSeq(lines, 1, n)) # Corrupt =>
             Replay(L, SubSeq(lines, 1, n)) = Replay(M, SubSeq(lines, 1, n))
  <1> DEFINE Q(n) == Replay(M, SubSeq(lines, 1, n))
             R(n) == Replay(L, SubSeq(lines, 1, n))
             S    == { n \in Nat : n <= Len(lines) => (Q(n) # Corrupt => R(n) = Q(n)) }
  <1>1. Len(lines) \in Nat /\ DOMAIN lines = 1 .. Len(lines)
    OBVIOUS
  <1>2. 0 \in S
    BY ReplayNothing
  <1>3. ASSUME NEW n \in Nat, n \in S PROVE n + 1 \in S
    <2> SUFFICES ASSUME n + 1 <= Len(lines), Q(n + 1) # Corrupt PROVE R(n + 1) = Q(n + 1)
      OBVIOUS
    <2> DEFINE e == lines[n + 1]
    <2>1. n \in 0 .. Len(lines) - 1 /\ n + 1 \in DOMAIN lines /\ n <= Len(lines)
      BY <1>1
    <2>2. /\ Q(n + 1) = ApplyRecoveredEvent(M, Q(n), e)
          /\ R(n + 1) = ApplyRecoveredEvent(L, R(n), e)
      BY <2>1, ReplayPrefix
    <2>3. Q(n) # Corrupt
      BY <2>2, ApplyToCorrupt
    <2>4. R(n) = Q(n)
      BY <1>3, <2>1, <2>3
    <2> HIDE DEF Q, R
    <2>5. CASE e.type # "messages_consumed"
      <3>1. ApplyRecoveredEvent(M, Q(n), e) = ApplyRecoveredEvent(L, Q(n), e)
        BY <2>5 DEF ApplyRecoveredEvent
      <3> QED BY <2>2, <2>4, <3>1
    <2>6. CASE e.type = "messages_consumed"
      <3>1. ConsumeAccepted(M, Q(n), e) => ConsumeAccepted(L, Q(n), e)
        BY <2>1, <2>6 DEF ConsumeAccepted, MessageExists, DeliveredWithin
      <3>2. ApplyRecoveredEvent(M, Q(n), e) # Corrupt =>
              ApplyRecoveredEvent(M, Q(n), e) = ApplyRecoveredEvent(L, Q(n), e)
        <4> HIDE DEF e
        <4> QED BY <2>6, <3>1 DEF ApplyRecoveredEvent
      <3> QED BY <2>2, <2>4, <3>2
    <2> QED BY <2>5, <2>6
  <1> HIDE DEF S
  <1>4. \A n \in Nat : n \in S
    BY <1>2, <1>3, NatClosure
  <1>5. ASSUME NEW n \in 0 .. Len(lines), Q(n) # Corrupt PROVE R(n) = Q(n)
    <2>1. n \in Nat /\ n <= Len(lines)
      BY <1>1
    <2> HIDE DEF Q, R
    <2> QED BY <1>4, <1>5, <2>1 DEF S
  <1> QED BY <1>5

-----------------------------------------------------------------------------
(* Logs that grow and shrink.                                              *)

\* Every message in M is in L.
LogsWithin(M, L) ==
  \A x \in Slots : x.offset < Len(M[x.topic][x.partition]) => x.offset < Len(L[x.topic][x.partition])

\* The messages an event of the code delivers are slots.
LEMMA EventSlots ==
  ASSUME NEW e, EventOK(e), e.type = "messages_consumed"
  PROVE  DOMAIN e.attempts \subseteq Slots /\ \A x \in DOMAIN e.attempts : e.attempts[x] \in 1 .. MaxAttempts + 1
  BY DEF EventOK, IsMap, Garbled

\* A line more.
LEMMA WellFormedAppend ==
  ASSUME NEW L, NEW lines, WellFormed(L, lines), NEW e, EventOK(e),
         Replay(L, lines) # Corrupt => AttemptsFollow(Replay(L, lines), e)
  PROVE  WellFormed(L, Append(lines, e))
  <1> DEFINE E    == { lines[i] : i \in DOMAIN lines }
             more == Append(lines, e)
             N    == Len(lines)
             F    == { more[i] : i \in DOMAIN more }
  <1>1. lines \in Seq(E)
    BY DEF WellFormed
  <1> HIDE DEF E
  <1>2. /\ N \in Nat /\ Len(more) = N + 1 /\ DOMAIN more = 1 .. N + 1 /\ DOMAIN lines = 1 .. N
        /\ more[N + 1] = e /\ \A i \in 1 .. N : more[i] = lines[i]
        /\ more \in Seq(E \cup {e})
    BY <1>1
  <1>3. \A n \in 0 .. N : SubSeq(more, 1, n) = SubSeq(lines, 1, n)
    BY <1>1
  <1>4. SubSeq(lines, 1, N) = lines
    BY <1>1
  <1> HIDE DEF more, N
  <1>5. more \in Seq(F)
    BY <1>2
  <1>6. ASSUME NEW i \in DOMAIN more PROVE EventOK(more[i])
    <2>1. i \in 1 .. N \/ i = N + 1
      BY <1>2
    <2> QED BY <1>2, <2>1 DEF WellFormed
  <1>7. ASSUME NEW n \in 0 .. Len(more) - 1, Replay(L, SubSeq(more, 1, n)) # Corrupt
        PROVE  AttemptsFollow(Replay(L, SubSeq(more, 1, n)), more[n + 1])
    <2>1. n \in 0 .. N /\ SubSeq(more, 1, n) = SubSeq(lines, 1, n)
      BY <1>2, <1>3
    <2>2. CASE n = N
      BY <1>2, <1>4, <1>7, <2>1, <2>2
    <2>3. CASE n # N
      <3>1. n \in 0 .. N - 1 /\ n + 1 \in 1 .. N
        BY <1>2, <2>1, <2>3
      <3>2. n \in 0 .. Len(lines) - 1 /\ more[n + 1] = lines[n + 1]
        BY <1>2, <3>1 DEF N
      <3> QED BY <1>7, <2>1, <3>2 DEF WellFormed
    <2> QED BY <2>2, <2>3
  <1> QED BY <1>5, <1>6, <1>7 DEF WellFormed, more

\* What a power failure leaves: a prefix of the lines, beside less messages.
LEMMA WellFormedShrunk ==
  ASSUME NEW L, NEW M, LogsWithin(M, L), NEW lines, WellFormed(L, lines), NEW k \in 0 .. Len(lines)
  PROVE  WellFormed(M, SubSeq(lines, 1, k))
  <1> DEFINE E    == { lines[i] : i \in DOMAIN lines }
             less == SubSeq(lines, 1, k)
             F    == { less[i] : i \in DOMAIN less }
  <1>1. lines \in Seq(E)
    BY DEF WellFormed
  <1> HIDE DEF E
  <1>2. /\ k \in Nat /\ Len(less) = k /\ DOMAIN less = 1 .. k /\ DOMAIN lines = 1 .. Len(lines)
        /\ Len(lines) \in Nat /\ k <= Len(lines)
        /\ \A i \in 1 .. k : less[i] = lines[i]
        /\ less \in Seq(E)
    BY <1>1
  <1>3. \A n \in 0 .. k : SubSeq(less, 1, n) = SubSeq(lines, 1, n)
    BY <1>1
  <1> HIDE DEF less
  <1>4. less \in Seq(F)
    BY <1>2
  <1>5. \A i \in DOMAIN lines : EventOK(lines[i])
    BY DEF WellFormed
  <1>6. DeliveredWithin(M, L, lines)
    BY <1>5, EventSlots DEF LogsWithin, DeliveredWithin
  <1>7. ASSUME NEW n \in 0 .. Len(less) - 1, Replay(M, SubSeq(less, 1, n)) # Corrupt
        PROVE  AttemptsFollow(Replay(M, SubSeq(less, 1, n)), less[n + 1])
    <2>1. /\ n \in 0 .. k /\ n \in 0 .. Len(lines) /\ n \in 0 .. Len(lines) - 1
          /\ less[n + 1] = lines[n + 1] /\ SubSeq(less, 1, n) = SubSeq(lines, 1, n)
      BY <1>2, <1>3
    <2>2. Replay(M, SubSeq(lines, 1, n)) # Corrupt =>
            Replay(L, SubSeq(lines, 1, n)) = Replay(M, SubSeq(lines, 1, n))
      BY <1>1, <1>6, <2>1, ReplayBeside
    <2> QED BY <1>7, <2>1, <2>2 DEF WellFormed
  <1>8. ASSUME NEW i \in DOMAIN less PROVE EventOK(less[i])
    BY <1>2, <1>5
  <1> QED BY <1>4, <1>7, <1>8 DEF WellFormed, less

\* What a publish leaves: more messages, which no line of a covered log is about.
LEMMA ReplayGrown ==
  ASSUME NEW L, NEW M, LogsWithin(L, M), NEW lines, WellFormed(L, lines), Covered(L, lines)
  PROVE  /\ Replay(M, lines) = Replay(L, lines)
         /\ WellFormed(M, lines)
         /\ Covered(M, lines)
  <1> DEFINE E    == { lines[i] : i \in DOMAIN lines }
             N    == Len(lines)
             P(n) == SubSeq(lines, 1, n)
  <1>1. lines \in Seq(E) /\ \A i \in DOMAIN lines : EventOK(lines[i])
    BY DEF WellFormed
  <1> HIDE DEF E
  <1>2. N \in 0 .. Len(lines) /\ P(N) = lines
    BY <1>1
  <1>3. DeliveredWithin(L, M, lines)
    BY <1>1, EventSlots DEF LogsWithin, DeliveredWithin
  <1>4. DeliveredWithin(M, L, lines)
    BY DEF Covered, EventCovered, DeliveredWithin
  <1> HIDE DEF P
  <1>5. ASSUME NEW n \in 0 .. Len(lines) PROVE Replay(M, P(n)) = Replay(L, P(n))
    <2>1. Replay(L, P(n)) # Corrupt => Replay(M, P(n)) = Replay(L, P(n))
      BY <1>1, <1>3, ReplayBeside DEF P
    <2>2. Replay(M, P(n)) # Corrupt => Replay(L, P(n)) = Replay(M, P(n))
      BY <1>1, <1>4, ReplayBeside DEF P
    <2> QED BY <2>1, <2>2
  <1>6. Replay(M, lines) = Replay(L, lines)
    BY <1>2, <1>5
  <1>7. \A n \in 0 .. Len(lines) - 1 : n \in 0 .. Len(lines)
    BY <1>1
  <1>8. WellFormed(M, lines)
    BY <1>1, <1>5, <1>7 DEF WellFormed, P
  <1>9. Covered(M, lines)
    BY <1>3 DEF Covered, EventCovered, DeliveredWithin
  <1> QED BY <1>6, <1>8, <1>9

=============================================================================
