------------------------------ MODULE ChatProofs ------------------------------
(***************************************************************************)
(* Safety of the chat application, for every topic, every capacity of the  *)
(* cache, every batch size and any number of leases that run out.          *)
(***************************************************************************)
EXTENDS Chat, SequenceTheorems, FiniteSetTheorems, TLAPS

-----------------------------------------------------------------------------
(* What the application holds in each phase of its life.                   *)

Kinds == {"start", "poll", "send"}
Ops == {"none", "health", "readiness", "createTopic", "consume", "loop", "ack", "publish"}
Outcomes == {"none", "ok", "error", "timeout", "transient", "permanent", "closed"}
Calls(A) == [Kinds -> [op : Ops, outcome : Outcomes, answer : A]]

CallsOK(C) ==
  /\ \E A : C \in Calls(A)
  /\ C["start"].op \in {"none", "health", "readiness", "createTopic"}
  /\ C["poll"].op \in {"none", "consume", "loop", "ack"}
  /\ C["send"].op \in {"none", "publish"}
  /\ \A k \in Kinds : C[k].op = "none" => C[k].outcome = "none"

NoCall(k) == call[k].op = "none"

\* Before the start there is nothing.
IdleOK ==
  lifecycle = "idle" =>
    client = "none" /\ controller = "none" /\ ~pollTimer /\ \A k \in Kinds : NoCall(k)

\* While it starts, the start waits for something and there is no poll loop.
StartingOK ==
  lifecycle = "starting" =>
    client = "open" /\ controller = "none" /\ ~pollTimer /\ ~NoCall("start") /\ NoCall("poll")

\* Connected, the start is over and there is one poll or one timer for it.
ConnectedOK ==
  lifecycle = "connected" =>
    /\ client = "open" /\ controller = "live" /\ NoCall("start")
    /\ pollTimer => NoCall("poll")
    /\ NoCall("poll") => pollTimer

\* After the end nothing is pending.
EndedOK ==
  lifecycle \in {"failed", "stopped"} =>
    /\ client # "open" /\ controller # "live" /\ ~pollTimer
    /\ \A k \in Kinds : call[k].op \notin {"none", "loop"} => call[k].outcome # "none"

TypeOK ==
  /\ lifecycle \in {"idle", "starting", "connected", "failed", "stopped"}
  /\ client \in {"none", "open", "closed"}
  /\ controller \in {"none", "live", "aborted"}
  /\ pollTimer \in BOOLEAN

HInv == TypeOK /\ CallsOK(call) /\ IdleOK /\ StartingOK /\ ConnectedOK /\ EndedOK

\* The start of every behaviour.
LEMMA HoldsInit == Init => HInv
  <1> SUFFICES ASSUME Init PROVE HInv
    OBVIOUS
  <1>1. \E A : call \in Calls(A)
    <2> DEFINE e == << >>
    <2>1. Idle = [op |-> "none", outcome |-> "none", answer |-> e]
      BY DEF Idle
    <2> HIDE DEF e
    <2>2. Idle \in [op : Ops, outcome : Outcomes, answer : {e}]
      BY <2>1 DEF Ops, Outcomes
    <2>3. call \in Calls({e})
      BY <2>2 DEF Init, Calls, Kinds
    <2> QED BY <2>3
  <1>2. \A k \in Kinds : call[k].op = "none" /\ call[k].outcome = "none"
    BY DEF Init, Idle, Kinds
  <1>3. CallsOK(call)
    BY <1>1, <1>2 DEF CallsOK, Kinds
  <1> QED BY <1>2, <1>3 DEF Init, HInv, TypeOK, IdleOK, StartingOK, ConnectedOK, EndedOK, NoCall, Kinds

\* One call is changed: the others stay, and it is a call again.
Changes(C, D, k, op, outcome) ==
  /\ \E A : D \in Calls(A)
  /\ D[k].op = op
  /\ D[k].outcome = outcome
  /\ \A j \in Kinds \ {k} : D[j].op = C[j].op /\ D[j].outcome = C[j].outcome

LEMMA CallSet ==
  ASSUME NEW C, CallsOK(C), NEW k \in Kinds, NEW op \in Ops, NEW outcome \in Outcomes, NEW x,
         NEW D, D = [C EXCEPT ![k] = [op |-> op, outcome |-> outcome, answer |-> x]]
  PROVE  Changes(C, D, k, op, outcome)
  <1>1. PICK A : C \in Calls(A)
    BY DEF CallsOK
  <1>2. C \in Calls(A \cup {x})
    BY <1>1 DEF Calls
  <1>3. D \in Calls(A \cup {x})
    BY <1>2 DEF Calls
  <1>4. D[k] = [op |-> op, outcome |-> outcome, answer |-> x] /\ \A j \in Kinds \ {k} : D[j] = C[j]
    BY <1>2 DEF Calls
  <1> QED BY <1>3, <1>4 DEF Changes

\* What Settle does to a call.
LEMMA CallSettled ==
  ASSUME NEW C, CallsOK(C), NEW k \in Kinds, NEW outcome \in Outcomes, NEW x,
         NEW D, D = [C EXCEPT ![k].outcome = outcome, ![k].answer = x]
  PROVE  Changes(C, D, k, C[k].op, outcome)
  <1>1. PICK A : C \in Calls(A)
    BY DEF CallsOK
  <1> DEFINE r == [op |-> C[k].op, outcome |-> outcome, answer |-> x]
  <1>2. C[k] \in [op : Ops, outcome : Outcomes, answer : A]
    BY <1>1 DEF Calls
  <1>3. [C[k] EXCEPT !.outcome = outcome]
          = [op |-> C[k].op, outcome |-> outcome, answer |-> C[k].answer]
    BY <1>2
  <1>4. [[op |-> C[k].op, outcome |-> outcome, answer |-> C[k].answer] EXCEPT !.answer = x] = r
    OBVIOUS
  <1>5. D = [C EXCEPT ![k] = r]
    <2> DEFINE E == [C EXCEPT ![k].outcome = outcome]
    <2>1. DOMAIN C = Kinds
      BY <1>1 DEF Calls
    <2>2. E[k] = [C[k] EXCEPT !.outcome = outcome] /\ DOMAIN E = Kinds
      BY <2>1
    <2>3. D = [E EXCEPT ![k].answer = x]
      OBVIOUS
    <2>4. \A j \in Kinds \ {k} : E[j] = C[j]
      BY <2>1
    <2> HIDE DEF E, r
    <2>5. D[k] = r /\ DOMAIN D = Kinds /\ \A j \in Kinds \ {k} : D[j] = C[j]
      BY <2>2, <2>3, <2>4, <1>3, <1>4
    <2>6. D = [j \in Kinds |-> D[j]]
      BY <2>2, <2>3
    <2> QED BY <2>1, <2>5, <2>6
  <1>6. C[k].op \in Ops
    BY <1>2
  <1> QED BY <1>5, <1>6, CallSet

\* What close() does to the calls.
LEMMA CallsClosedFacts ==
  ASSUME NEW C, CallsOK(C), NEW D, D = CallsClosed(C)
  PROVE  /\ CallsOK(D)
         /\ \A k \in Kinds : D[k].op = C[k].op /\ (C[k].op # "none" => D[k].outcome # "none")
  <1>1. PICK A : C \in Calls(A)
    BY DEF CallsOK
  <1>2. ASSUME NEW k \in Kinds
        PROVE  /\ D[k] \in [op : Ops, outcome : Outcomes, answer : A]
               /\ D[k].op = C[k].op
               /\ C[k].op # "none" => D[k].outcome # "none"
               /\ C[k].op = "none" => D[k].outcome = C[k].outcome
    <2>1. C[k] \in [op : Ops, outcome : Outcomes, answer : A] /\ DOMAIN C = Kinds
      BY <1>1 DEF Calls
    <2>2. D[k] = IF C[k].op # "none" /\ C[k].outcome = "none"
                 THEN [C[k] EXCEPT !.outcome = "closed"] ELSE C[k]
      BY <2>1 DEF CallsClosed
    <2>3. "closed" \in Outcomes
      BY DEF Outcomes
    <2> QED BY <2>1, <2>2, <2>3
  <1>3. D = [k \in Kinds |-> D[k]]
    BY <1>1 DEF CallsClosed, Calls
  <1>4. D \in Calls(A)
    BY <1>2, <1>3 DEF Calls
  <1>5. CallsOK(D)
    BY <1>2, <1>4 DEF CallsOK, Kinds
  <1> QED BY <1>2, <1>5


\* A call is answered, or fails.
LEMMA SettleHolds ==
  ASSUME HInv, NEW k \in Kinds, NEW outcome \in Outcomes \ {"none"}, NEW x,
         Settle(k, outcome, x), UNCHANGED app
  PROVE  HInv'
  <1>1. Changes(call, call', k, call[k].op, outcome) /\ call[k].op # "none"
    BY CallSettled DEF Settle, HInv
  <1>2. CallsOK(call')
    BY <1>1 DEF HInv, CallsOK, Changes, Kinds
  <1>3. \A j \in Kinds : call'[j].op = call[j].op /\ (call[j].outcome # "none" => call'[j].outcome # "none")
    BY <1>1 DEF Changes
  <1> QED BY <1>2, <1>3 DEF HInv, TypeOK, IdleOK, StartingOK, ConnectedOK, EndedOK, NoCall, app, Kinds

\* What a finished call leaves.
LEMMA IdleCall ==
  /\ Idle = [op |-> "none", outcome |-> "none", answer |-> << >>]
  /\ [Idle EXCEPT !.op = "loop"] = [op |-> "loop", outcome |-> "none", answer |-> << >>]
  BY DEF Idle

\* A call becomes another one, as the phase allows, and the application stays as it is.
LEMMA CallReplaced ==
  ASSUME HInv, NEW k \in Kinds, NEW op \in Ops, NEW x,
         call' = [call EXCEPT ![k] = [op |-> op, outcome |-> "none", answer |-> x]],
         UNCHANGED app,
         lifecycle \in {"failed", "stopped"} => op \in {"none", "loop"},
         k = "start" => IF lifecycle = "starting" THEN op \in {"readiness", "createTopic"}
                        ELSE op = "none",
         k = "poll" => op \in {"consume", "loop", "ack"} /\ call["poll"].op # "none",
         k = "send" => op = "none" \/ (op = "publish" /\ lifecycle = "connected")
  PROVE  HInv'
  <1>1. Changes(call, call', k, op, "none")
    BY CallSet DEF HInv, Outcomes
  <1>2. CallsOK(call')
    BY <1>1 DEF HInv, CallsOK, Changes, Kinds
  <1>3. /\ call'[k].op = op
        /\ \A j \in Kinds \ {k} : call'[j].op = call[j].op /\ call'[j].outcome = call[j].outcome
    BY <1>1 DEF Changes
  <1> QED BY <1>2, <1>3 DEF HInv, TypeOK, IdleOK, StartingOK, ConnectedOK, EndedOK, NoCall, app, Kinds


\* cleanupResources, after which the application has failed or is stopped.
LEMMA CleanupHolds ==
  ASSUME HInv, NEW C, CallsOK(C), Cleanup(C), lifecycle' \in {"failed", "stopped"}
  PROVE  HInv'
  <1>1. CallsOK(call') /\ \A k \in Kinds : call'[k].op # "none" => call'[k].outcome # "none"
    <2>1. call' = CallsClosed(C)
      BY DEF Cleanup
    <2> QED BY <2>1, CallsClosedFacts
  <1> QED BY <1>1 DEF HInv, TypeOK, IdleOK, StartingOK, ConnectedOK, EndedOK, NoCall, Cleanup, Kinds

\* The calls after one of them has ended.
LEMMA CallEnded ==
  ASSUME NEW C, CallsOK(C), NEW k \in Kinds
  PROVE  /\ CallsOK([C EXCEPT ![k] = Idle])
         /\ Changes(C, [C EXCEPT ![k] = Idle], k, "none", "none")
  <1> DEFINE D == [C EXCEPT ![k] = Idle]
  <1>1. "none" \in Ops /\ "none" \in Outcomes
    BY DEF Ops, Outcomes
  <1>2. Changes(C, D, k, "none", "none")
    BY <1>1, IdleCall, CallSet
  <1> HIDE DEF D
  <1>3. CallsOK(D)
    BY <1>2 DEF CallsOK, Changes, Kinds
  <1> QED BY <1>2, <1>3 DEF D

\* poll() returns.
LEMMA EndPollHolds ==
  ASSUME HInv, EndPoll
  PROVE  HInv'
  <1>1. CallsOK(call') /\ Changes(call, call', "poll", "none", "none")
    BY CallEnded DEF HInv, EndPoll, Kinds
  <1>2. /\ call'["poll"].op = "none"
        /\ \A j \in Kinds \ {"poll"} : call'[j].op = call[j].op /\ call'[j].outcome = call[j].outcome
    BY <1>1 DEF Changes
  <1>3. pollTimer' \in BOOLEAN /\ (Live => pollTimer') /\ (~Live => (pollTimer' => pollTimer))
    <2>1. CASE Live
      BY <2>1 DEF EndPoll
    <2>2. CASE ~Live
      BY <2>2 DEF EndPoll, HInv, TypeOK
    <2> QED BY <2>1, <2>2
  <1>4. lifecycle = "connected" => Live
    BY DEF HInv, ConnectedOK, Live
  <1>5. UNCHANGED <<lifecycle, client, controller>>
    BY DEF EndPoll
  <1>6. Live => lifecycle = "connected"
    BY DEF Live
  <1>7. TypeOK' /\ IdleOK' /\ StartingOK' /\ EndedOK'
    BY <1>2, <1>3, <1>5, <1>6 DEF HInv, TypeOK, IdleOK, StartingOK, EndedOK, NoCall, Kinds
  <1>8. ConnectedOK'
    BY <1>2, <1>3, <1>4, <1>5 DEF HInv, ConnectedOK, NoCall, Kinds
  <1> QED BY <1>1, <1>7, <1>8 DEF HInv


\* No step takes the application out of these phases.
LEMMA HoldsStep ==
  ASSUME HInv, [Next]_vars
  PROVE  HInv'
  <1> USE DEF Kinds
  <1>1. CASE UNCHANGED vars
    BY <1>1 DEF vars, app, HInv, TypeOK, CallsOK, IdleOK, StartingOK, ConnectedOK, EndedOK, NoCall
  <1>2. CASE HttpAnswer
    BY <1>2, SettleHolds DEF HttpAnswer, Outcomes
  <1>3. CASE ConsumeAnswer
    BY <1>3, SettleHolds DEF ConsumeAnswer, Outcomes
  <1>4. CASE AckAnswer
    BY <1>4, SettleHolds DEF AckAnswer, Outcomes
  <1>5. CASE PublishAnswer
    BY <1>5, SettleHolds DEF PublishAnswer, Outcomes
  <1>6. CASE EnvironmentStep
    BY <1>6 DEF EnvironmentStep, app, HInv, TypeOK, CallsOK, IdleOK, StartingOK, ConnectedOK, EndedOK, NoCall
  <1>7. CASE Start
    <2>1. CASE lifecycle' = "starting"
      <3>1. call' = [call EXCEPT !["start"] = [op |-> "health", outcome |-> "none", answer |-> << >>]]
        BY <1>7, <2>1 DEF Start, Waiting
      <3>2. Changes(call, call', "start", "health", "none")
        BY <3>1, CallSet DEF HInv, Ops, Outcomes
      <3>3. CallsOK(call')
        BY <3>2 DEF HInv, CallsOK, Changes
      <3> QED BY <1>7, <2>1, <3>2, <3>3 DEF Start, Changes, HInv, TypeOK, IdleOK, StartingOK, ConnectedOK, EndedOK, NoCall
    <2>2. CASE lifecycle' = "failed"
      BY <1>7, <2>2 DEF Start, HInv, TypeOK, CallsOK, IdleOK, StartingOK, ConnectedOK, EndedOK, NoCall
    <2> QED BY <1>7, <2>1, <2>2 DEF Start
  <1>8. CASE Stop
    BY <1>8, CleanupHolds DEF Stop, HInv
  <1>9. CASE SendMessage
    <2>1. call' = [call EXCEPT !["send"] = [op |-> "publish", outcome |-> "none", answer |-> << >>]]
      BY <1>9 DEF SendMessage, Waiting
    <2> QED BY <1>9, <2>1, CallReplaced DEF SendMessage, Ops
  <1>10. CASE Poll
    <2>1. lifecycle = "connected" /\ client = "open" /\ controller = "live" /\ NoCall("poll")
      BY <1>10 DEF Poll, HInv, TypeOK, IdleOK, StartingOK, ConnectedOK, EndedOK
    <2>2. call' = [call EXCEPT !["poll"] = [op |-> "consume", outcome |-> "none", answer |-> << >>]]
      BY <1>10, <2>1 DEF Poll, Waiting
    <2>3. Changes(call, call', "poll", "consume", "none")
      BY <2>2, CallSet DEF HInv, Ops, Outcomes
    <2>4. CallsOK(call')
      BY <2>3 DEF HInv, CallsOK, Changes
    <2> QED BY <1>10, <2>1, <2>3, <2>4 DEF Poll, Changes, HInv, TypeOK, IdleOK, StartingOK, ConnectedOK, EndedOK, NoCall
  <1>11. CASE ResumeStart
    <2>1. CASE lifecycle # "starting"
      <3>1. call' = [call EXCEPT !["start"] = Idle] /\ UNCHANGED app
        BY <1>11, <2>1 DEF ResumeStart
      <3> QED BY <2>1, <3>1, IdleCall, CallReplaced DEF Ops
    <2>2. CASE lifecycle = "starting" /\ call["start"].op \in {"health", "readiness"}
      <3> DEFINE op == IF call["start"].op = "health" THEN "readiness" ELSE "createTopic"
      <3>1. call' = [call EXCEPT !["start"] = [op |-> op, outcome |-> "none", answer |-> << >>]] /\ UNCHANGED app
        BY <1>11, <2>2 DEF ResumeStart, Waiting, HInv, CallsOK, Calls
      <3>2. op \in {"readiness", "createTopic"} /\ op \in Ops
        BY DEF Ops
      <3> HIDE DEF op
      <3> QED BY <2>2, <3>1, <3>2, CallReplaced
    <2>3. CASE lifecycle = "starting" /\ call["start"].op = "createTopic"
      <3>1. /\ call' = [call EXCEPT !["start"] = Idle]
            /\ lifecycle' = "connected" /\ controller' = "live" /\ pollTimer' = TRUE /\ UNCHANGED client
        BY <1>11, <2>3 DEF ResumeStart
      <3>2. CallsOK(call') /\ Changes(call, call', "start", "none", "none")
        BY <3>1, CallEnded DEF HInv
      <3> QED BY <2>3, <3>1, <3>2 DEF Changes, HInv, TypeOK, IdleOK, StartingOK, ConnectedOK, EndedOK, NoCall
    <2> QED BY <1>11, <2>1, <2>2, <2>3 DEF ResumeStart
  <1>12. CASE StartFails
    <2>1. CASE lifecycle = "stopped"
      <3>1. call' = [call EXCEPT !["start"] = Idle] /\ UNCHANGED app
        BY <1>12, <2>1 DEF StartFails
      <3> QED BY <2>1, <3>1, IdleCall, CallReplaced DEF Ops
    <2>2. CASE lifecycle # "stopped"
      <3>1. CallsOK([call EXCEPT !["start"] = Idle])
        BY CallEnded DEF HInv
      <3> QED BY <1>12, <2>2, <3>1, CleanupHolds DEF StartFails
    <2> QED BY <2>1, <2>2
  <1>13. CASE ResumeSend
    BY <1>13, IdleCall, CallReplaced DEF ResumeSend, Ops
  <1>14. CASE ResumeConsume
    <2>1. CASE Live
      <3>1. /\ call' = [call EXCEPT !["poll"] = [op |-> "loop", outcome |-> "none", answer |-> << >>]]
            /\ UNCHANGED app /\ call["poll"].op = "consume"
        BY <1>14, <2>1, IdleCall DEF ResumeConsume
      <3> QED BY <2>1, <3>1, CallReplaced DEF Live, Ops
    <2>2. CASE ~Live
      BY <1>14, <2>2, EndPollHolds DEF ResumeConsume
    <2> QED BY <2>1, <2>2
  <1>15. CASE ConsumeFails
    <2>1. CASE Live /\ call["poll"].outcome = "permanent"
      <3>1. CallsOK([call EXCEPT !["poll"] = Idle])
        BY CallEnded DEF HInv
      <3> QED BY <1>15, <2>1, <3>1, CleanupHolds DEF ConsumeFails, FailPolling
    <2>2. CASE ~(Live /\ call["poll"].outcome = "permanent")
      BY <1>15, <2>2, EndPollHolds DEF ConsumeFails
    <2> QED BY <2>1, <2>2
  <1>16. CASE HandleDelivery
    <2>1. CASE Live
      <3>1. /\ call' = [call EXCEPT !["poll"] = [op |-> "ack", outcome |-> "none", answer |-> Head(batch)]]
            /\ UNCHANGED app /\ call["poll"].op = "loop"
        BY <1>16, <2>1 DEF HandleDelivery, Waiting
      <3> QED BY <2>1, <3>1, CallReplaced DEF Live, Ops
    <2>2. CASE ~Live
      BY <1>16, <2>2, EndPollHolds DEF HandleDelivery
    <2> QED BY <2>1, <2>2
  <1>17. CASE ResumeAck
    <2>1. /\ call' = [call EXCEPT !["poll"] = [op |-> "loop", outcome |-> "none", answer |-> << >>]]
          /\ UNCHANGED app /\ call["poll"].op = "ack"
      BY <1>17, IdleCall DEF ResumeAck
    <2> QED BY <2>1, CallReplaced DEF Ops
  <1>18. CASE EndLoop
    BY <1>18, EndPollHolds DEF EndLoop
  <1>19. CASE DisplayFails
    <2>1. CallsOK([call EXCEPT !["poll"] = Idle])
      BY CallEnded DEF HInv
    <2> QED BY <1>19, <2>1, CleanupHolds DEF DisplayFails, FailPolling
  <1> QED BY <1>1, <1>2, <1>3, <1>4, <1>5, <1>6, <1>7, <1>8, <1>9, <1>10, <1>11, <1>12, <1>13,
             <1>14, <1>15, <1>16, <1>17, <1>18, <1>19 DEF Next, Continuation


\* In every reachable state ChatApp holds what its phase of life needs and nothing
\* else, whatever was answered, timed out or failed, and wherever stop() came.
THEOREM Phases == Spec => []HInv
  <1>1. Init => HInv
    BY HoldsInit
  <1>2. HInv /\ [Next]_vars => HInv'
    BY HoldsStep
  <1> QED BY <1>1, <1>2, PTL DEF Spec

\* cleanupResources misses nothing: an application that failed or was stopped has no
\* timer, no open client, no live signal and no call that is not settled; and a
\* connected one has one poll or one timer, never both and never neither.
THEOREM ResourcesTheorem == Spec => []ResourcesAccounted
  <1>1. HInv => ResourcesAccounted
    <2> SUFFICES ASSUME HInv PROVE ResourcesAccounted
      OBVIOUS
    <2>1. DOMAIN call = Kinds
      BY DEF HInv, CallsOK, Calls
    <2>2. pollTimer \in BOOLEAN
      BY DEF HInv, TypeOK
    <2>3. lifecycle \in {"failed", "stopped"} =>
            /\ ~pollTimer /\ client # "open" /\ controller # "live"
            /\ \A k \in DOMAIN call : call[k].op \notin {"none", "loop"} => call[k].outcome # "none"
      BY <2>1 DEF HInv, EndedOK
    <2>4. lifecycle = "connected" =>
            /\ client = "open" /\ controller = "live"
            /\ pollTimer <=> call["poll"].op = "none"
      BY <2>2 DEF HInv, ConnectedOK, NoCall
    <2> QED BY <2>3, <2>4 DEF ResourcesAccounted
  <1> QED BY <1>1, Phases, PTL

\* The guard of every continuation of start() and poll() against a stop() that came
\* while it waited: nothing is shown after stop() and the state stays "disconnected".
THEOREM QuietTheorem == Spec => QuietAfterStop
  <1> DEFINE Quiet == lifecycle = "stopped" => lifecycle' = "stopped" /\ UNCHANGED <<ui, since>>
  <1>1. [Next]_vars => Quiet
    <2> SUFFICES ASSUME [Next]_vars, lifecycle = "stopped"
                 PROVE  lifecycle' = "stopped" /\ UNCHANGED <<ui, since>>
      OBVIOUS
    <2>1. CASE UNCHANGED vars
      BY <2>1 DEF vars, app
    <2>2. CASE HttpAnswer \/ ConsumeAnswer \/ AckAnswer \/ PublishAnswer \/ EnvironmentStep
      BY <2>2 DEF HttpAnswer, ConsumeAnswer, AckAnswer, PublishAnswer, EnvironmentStep, app
    <2>3. CASE Start \/ Stop \/ SendMessage \/ Poll
      BY <2>3 DEF Start, Stop, SendMessage, Poll, app
    <2>4. CASE ResumeStart \/ StartFails \/ ResumeSend
      BY <2>4 DEF ResumeStart, StartFails, ResumeSend, app
    <2>5. CASE ResumeConsume \/ ConsumeFails \/ HandleDelivery \/ DisplayFails \/ ResumeAck \/ EndLoop
      BY <2>5 DEF ResumeConsume, ConsumeFails, HandleDelivery, DisplayFails, ResumeAck, EndLoop,
                  EndPoll, Live, app
    <2> QED BY <2>1, <2>2, <2>3, <2>4, <2>5 DEF Next, Continuation
  <1> QED BY <1>1, PTL DEF Spec, QuietAfterStop


-----------------------------------------------------------------------------
(* The deduplication cache: from the oldest entry to the newest, every     *)
(* entry has been received after the ones before it, and whoever is not in *)
(* the cache any more has seen as many others come as the cache holds.     *)

Cached(c, id) == \E i \in 1 .. Len(c) : c[i].id = id

CacheInv(c, s) ==
  /\ \E S : c \in Seq(S)
  /\ Len(c) <= MaxSize
  /\ \A i, j \in 1 .. Len(c) : i < j => c[i].id # c[j].id /\ c[j].id \in s[c[i].id]
  /\ \A i \in 1 .. Len(c) : c[i].id \in DOMAIN s
  /\ \A id \in DOMAIN s : IsFiniteSet(s[id]) /\ (~Cached(c, id) => Cardinality(s[id]) >= MaxSize)

\* The history after `id` was received once more.
Extends(s, r, id) ==
  /\ DOMAIN r = DOMAIN s \cup {id}
  /\ r[id] = {}
  /\ \A x \in DOMAIN s \ {id} : r[x] = s[x] \cup {id}

LEMMA ExtendedHistory ==
  ASSUME NEW s, NEW r, NEW id, Extends(s, r, id), \A x \in DOMAIN s : IsFiniteSet(s[x])
  PROVE  /\ \A x \in DOMAIN r : IsFiniteSet(r[x])
         /\ \A x \in DOMAIN s \ {id} : Cardinality(r[x]) >= Cardinality(s[x])
  <1>1. ASSUME NEW x \in DOMAIN s \ {id}
        PROVE  IsFiniteSet(r[x]) /\ Cardinality(r[x]) >= Cardinality(s[x])
    <2>1. r[x] = s[x] \cup {id} /\ IsFiniteSet(s[x])
      BY DEF Extends
    <2>2. IsFiniteSet(s[x] \cup {id})
      BY <2>1, FS_AddElement
    <2>3. s[x] \in SUBSET (s[x] \cup {id})
      OBVIOUS
    <2>4. Cardinality(s[x]) <= Cardinality(s[x] \cup {id})
      BY <2>2, <2>3, FS_Subset
    <2>5. Cardinality(s[x]) \in Nat /\ Cardinality(s[x] \cup {id}) \in Nat
      BY <2>1, <2>2, FS_CardinalityType
    <2> QED BY <2>1, <2>2, <2>4, <2>5
  <1>2. IsFiniteSet(r[id])
    BY FS_EmptySet DEF Extends
  <1> QED BY <1>1, <1>2 DEF Extends

\* In d, `id` is the newest entry, the n entries before it are those of c that f
\* names, in their order, and those of c that are dropped have seen enough others.
Newest(c, d, r, id, n, f) ==
  /\ n \in Nat
  /\ \E S : d \in Seq(S)
  /\ Len(d) = n + 1
  /\ n + 1 <= MaxSize
  /\ d[n + 1].id = id
  /\ f \in [1 .. n -> 1 .. Len(c)]
  /\ \A i, j \in 1 .. n : i < j => f[i] < f[j]
  /\ \A i \in 1 .. n : d[i] = c[f[i]] /\ c[f[i]].id # id
  /\ \A i \in 1 .. Len(c) :
       \/ c[i].id = id
       \/ \E j \in 1 .. n : f[j] = i
       \/ Cardinality(r[c[i].id]) >= MaxSize

LEMMA NewestEntry ==
  ASSUME NEW c, NEW s, CacheInv(c, s), NEW r, NEW id, Extends(s, r, id),
         NEW d, NEW n, NEW f, Newest(c, d, r, id, n, f)
  PROVE  CacheInv(d, r)
  <1> USE DEF Newest
  <1>1. \A x \in DOMAIN s : IsFiniteSet(s[x])
    BY DEF CacheInv
  <1>2. \A x \in DOMAIN r : IsFiniteSet(r[x])
    BY <1>1, ExtendedHistory
  <1>3. \A x \in DOMAIN s \ {id} : Cardinality(r[x]) >= Cardinality(s[x])
    BY <1>1, ExtendedHistory
  <1>4. \A i \in 1 .. n : c[f[i]].id \in DOMAIN s \ {id}
    BY DEF CacheInv
  <1>5. \A i \in 1 .. n : d[i].id \in DOMAIN s \ {id} /\ r[d[i].id] = s[d[i].id] \cup {id}
    BY <1>4 DEF Extends
  <1>6. ASSUME NEW i \in 1 .. Len(d), NEW j \in 1 .. Len(d), i < j
        PROVE  d[i].id # d[j].id /\ d[j].id \in r[d[i].id]
    <2>1. i \in 1 .. n
      BY <1>6
    <2>2. CASE j = n + 1
      BY <2>1, <2>2, <1>5
    <2>3. CASE j \in 1 .. n
      <3>1. f[i] < f[j] /\ f[i] \in 1 .. Len(c) /\ f[j] \in 1 .. Len(c)
        BY <1>6, <2>1, <2>3
      <3>2. c[f[i]].id # c[f[j]].id /\ c[f[j]].id \in s[c[f[i]].id]
        BY <3>1 DEF CacheInv
      <3> QED BY <2>1, <2>3, <3>2, <1>5
    <2> QED BY <2>2, <2>3, <1>6
  <1>7. \A i \in 1 .. Len(d) : d[i].id \in DOMAIN r
    BY <1>5 DEF Extends
  <1>8. ASSUME NEW x \in DOMAIN r, ~Cached(d, x)
        PROVE  Cardinality(r[x]) >= MaxSize
    <2>1. x # id /\ x \in DOMAIN s
      BY <1>8 DEF Cached, Extends
    <2>2. CASE Cached(c, x)
      <3>1. PICK i \in 1 .. Len(c) : c[i].id = x
        BY <2>2 DEF Cached
      <3>2. ASSUME NEW j \in 1 .. n, f[j] = i PROVE FALSE
        <4>1. d[j].id = x /\ j \in 1 .. Len(d)
          BY <3>1, <3>2
        <4> QED BY <4>1, <1>8 DEF Cached
      <3> QED BY <3>1, <3>2, <2>1
    <2>3. CASE ~Cached(c, x)
      <3>1. Cardinality(s[x]) >= MaxSize /\ Cardinality(r[x]) >= Cardinality(s[x])
        BY <2>1, <2>3, <1>3 DEF CacheInv
      <3>2. Cardinality(s[x]) \in Nat /\ Cardinality(r[x]) \in Nat
        BY <2>1, <1>1, <1>2, FS_CardinalityType
      <3> QED BY <3>1, <3>2, ChatAssumption
    <2> QED BY <2>2, <2>3
  <1> QED BY <1>2, <1>6, <1>7, <1>8 DEF CacheInv


\* The oldest entry of a full cache has seen as many others as the cache holds when
\* one more id comes that is not cached.
LEMMA OldestForgotten ==
  ASSUME NEW c, NEW s, CacheInv(c, s), Len(c) = MaxSize, NEW r, NEW id, Extends(s, r, id),
         ~Cached(c, id)
  PROVE  Cardinality(r[c[1].id]) >= MaxSize
  <1> DEFINE x == c[1].id
             f == [i \in 1 .. MaxSize |-> IF i = MaxSize THEN id ELSE c[i + 1].id]
  <1>1. MaxSize \in Nat /\ MaxSize >= 1
    BY ChatAssumption
  <1>2. x \in DOMAIN s /\ x # id
    BY <1>1 DEF CacheInv, Cached
  <1>3. r[x] = s[x] \cup {id}
    BY <1>2 DEF Extends
  <1>4. IsFiniteSet(s[x])
    BY <1>2 DEF CacheInv
  <1>5. IsFiniteSet(r[x])
    BY <1>3, <1>4, FS_AddElement
  <1>6. \A i \in 1 .. MaxSize : i # MaxSize => i + 1 \in 1 .. Len(c) /\ 1 < i + 1
    BY <1>1
  <1>7. \A i \in 1 .. MaxSize : i # MaxSize => c[i + 1].id \in s[x] /\ c[i + 1].id # id
    BY <1>1, <1>6 DEF CacheInv, Cached
  <1>8. f \in [1 .. MaxSize -> r[x]]
    BY <1>3, <1>7
  <1>9. ASSUME NEW i \in 1 .. MaxSize, NEW j \in 1 .. MaxSize, i < j
        PROVE  f[i] # f[j]
    <2>1. i # MaxSize /\ f[i] = c[i + 1].id
      BY <1>9, <1>1
    <2>2. CASE j = MaxSize
      BY <2>1, <2>2, <1>7
    <2>3. CASE j # MaxSize
      <3>1. i + 1 \in 1 .. Len(c) /\ j + 1 \in 1 .. Len(c) /\ i + 1 < j + 1
        BY <2>1, <2>3, <1>6, <1>9
      <3>2. c[i + 1].id # c[j + 1].id
        BY <3>1 DEF CacheInv
      <3> QED BY <2>1, <2>3, <3>2
    <2> QED BY <2>2, <2>3
  <1> HIDE DEF f
  <1>10. \A i, j \in 1 .. MaxSize : f[i] = f[j] => i = j
    BY <1>1, <1>9
  <1>11. f \in Injection(1 .. MaxSize, r[x])
    BY <1>8, <1>10 DEF Injection, IsInjective
  <1>12. Cardinality(1 .. MaxSize) <= Cardinality(r[x])
    BY <1>5, <1>11, FS_Injection
  <1>13. Cardinality(1 .. MaxSize) = MaxSize
    BY <1>1, FS_Interval
  <1>14. Cardinality(r[x]) \in Nat
    BY <1>5, FS_CardinalityType
  <1> QED BY <1>1, <1>12, <1>13, <1>14

\* add of a message that is not cached.
LEMMA AddedInv ==
  ASSUME CacheInv(cache, since), NEW m, ~Cached(cache, m.id), NEW r, Extends(since, r, m.id)
  PROVE  CacheInv(Added(m), r)
  <1> DEFINE d == Added(m)
  <1>1. PICK S : cache \in Seq(S)
    BY DEF CacheInv
  <1>2. cache \in Seq(S \cup {m})
    BY <1>1, SeqMonotonic
  <1>3. MaxSize \in Nat /\ MaxSize >= 1
    BY ChatAssumption
  <1>4. \A i \in 1 .. Len(cache) : cache[i].id # m.id
    BY DEF Cached
  <1>5. CASE Len(cache) >= MaxSize
    <2>1. Len(cache) = MaxSize /\ Len(cache) \in Nat
      BY <1>1, <1>3, <1>5 DEF CacheInv
    <2> DEFINE n == MaxSize - 1
               f == [i \in 1 .. n |-> i + 1]
    <2>2. cache # << >>
      BY <2>1, <1>3
    <2>3. /\ Tail(cache) \in Seq(S \cup {m}) /\ Len(Tail(cache)) = n
          /\ \A i \in 1 .. n : Tail(cache)[i] = cache[i + 1]
      BY <1>2, <2>1, <2>2
    <2>4. d = Append(Tail(cache), m)
      BY <1>5 DEF Added
    <2>5. /\ d \in Seq(S \cup {m}) /\ Len(d) = n + 1 /\ d[n + 1] = m
          /\ \A i \in 1 .. n : d[i] = cache[i + 1]
      BY <2>3, <2>4
    <2>6. n \in Nat /\ n + 1 <= MaxSize
      BY <1>3
    <2>7. f \in [1 .. n -> 1 .. Len(cache)] /\ \A i, j \in 1 .. n : i < j => f[i] < f[j]
      BY <2>1, <2>6
    <2>8. \A i \in 1 .. n : d[i] = cache[f[i]] /\ cache[f[i]].id # m.id
      BY <2>5, <2>7, <1>4
    <2>9. Cardinality(r[cache[1].id]) >= MaxSize
      BY <2>1, OldestForgotten
    <2>10. ASSUME NEW i \in 1 .. Len(cache)
           PROVE  (\E j \in 1 .. n : f[j] = i) \/ Cardinality(r[cache[i].id]) >= MaxSize
      <3>1. CASE i = 1
        BY <2>9, <3>1
      <3>2. CASE i # 1
        <4>1. i - 1 \in 1 .. n /\ f[i - 1] = i
          BY <3>2, <2>1, <2>6
        <4> QED BY <4>1
      <3> QED BY <3>1, <3>2
    <2> HIDE DEF d, n, f
    <2>11. Newest(cache, d, r, m.id, n, f)
      BY <2>5, <2>6, <2>7, <2>8, <2>10 DEF Newest
    <2>12. CacheInv(d, r)
      BY <2>11, NewestEntry
    <2> QED BY <2>12 DEF d
  <1>6. CASE Len(cache) < MaxSize
    <2> DEFINE n == Len(cache)
               f == [i \in 1 .. n |-> i]
    <2>1. n \in Nat /\ n + 1 <= MaxSize
      BY <1>1, <1>3, <1>6
    <2>2. d = Append(cache, m)
      BY <1>3, <1>6, <2>1 DEF Added
    <2>3. /\ d \in Seq(S \cup {m}) /\ Len(d) = n + 1 /\ d[n + 1] = m
          /\ \A i \in 1 .. n : d[i] = cache[i]
      BY <1>2, <2>2
    <2>4. f \in [1 .. n -> 1 .. Len(cache)] /\ \A i, j \in 1 .. n : i < j => f[i] < f[j]
      BY <2>1
    <2>5. \A i \in 1 .. n : d[i] = cache[f[i]] /\ cache[f[i]].id # m.id
      BY <2>3, <1>4
    <2>6. \A i \in 1 .. Len(cache) : \E j \in 1 .. n : f[j] = i
      OBVIOUS
    <2> HIDE DEF d, f
    <2>7. Newest(cache, d, r, m.id, n, f)
      BY <2>1, <2>3, <2>4, <2>5, <2>6 DEF Newest
    <2>8. CacheInv(d, r)
      BY <2>7, NewestEntry
    <2> QED BY <2>8 DEF d
  <1> QED BY <1>1, <1>3, <1>5, <1>6

\* observe of a message that is cached.
LEMMA ObservedInv ==
  ASSUME CacheInv(cache, since), NEW id, Cached(cache, id), NEW r, Extends(since, r, id)
  PROVE  CacheInv(Observed(id), r)
  <1> DEFINE d == Observed(id)
             k == CHOOSE j \in DOMAIN cache : cache[j].id = id
             n == Len(cache) - 1
             f == [i \in 1 .. n |-> IF i < k THEN i ELSE i + 1]
  <1>1. PICK S : cache \in Seq(S)
    BY DEF CacheInv
  <1>2. MaxSize \in Nat /\ MaxSize >= 1
    BY ChatAssumption
  <1>3. k \in 1 .. Len(cache) /\ cache[k].id = id
    BY <1>1 DEF Cached
  <1>4. d = Append(RemoveAt(cache, k), cache[k])
    BY DEF Observed
  <1> HIDE DEF k
  <1>5. n \in Nat /\ n + 1 = Len(cache) /\ n + 1 <= MaxSize /\ Len(cache) \in Nat
    BY <1>1, <1>3 DEF CacheInv
  <1>6. cache[k] \in S
    BY <1>1, <1>3
  <1>7. /\ RemoveAt(cache, k) \in Seq(S) /\ Len(RemoveAt(cache, k)) = n
        /\ \A i \in 1 .. n : RemoveAt(cache, k)[i] = cache[IF i < k THEN i ELSE i + 1]
    <2> DEFINE a == SubSeq(cache, 1, k - 1)
               b == SubSeq(cache, k + 1, Len(cache))
    <2>1. a \in Seq(S) /\ Len(a) = k - 1 /\ \A i \in 1 .. k - 1 : a[i] = cache[i]
      BY <1>1, <1>3, <1>5, SubSeqProperties
    <2>2. b \in Seq(S) /\ Len(b) = n + 1 - k /\ \A i \in 1 .. n + 1 - k : b[i] = cache[k + i]
      <3>1. \A i \in k + 1 .. Len(cache) : cache[i] \in S
        BY <1>1, <1>3, <1>5
      <3>2. /\ b \in Seq(S)
            /\ Len(b) = IF k + 1 <= Len(cache) THEN Len(cache) - (k + 1) + 1 ELSE 0
            /\ \A i \in 1 .. Len(cache) - (k + 1) + 1 : b[i] = cache[(k + 1) + i - 1]
        <4>1. k + 1 \in Int /\ Len(cache) \in Int
          BY <1>3, <1>5
        <4> QED BY <3>1, <4>1, SubSeqProperties
      <3>3. \A i \in 1 .. n + 1 - k : i \in 1 .. Len(cache) - (k + 1) + 1 /\ (k + 1) + i - 1 = k + i
        BY <1>3, <1>5
      <3> HIDE DEF b
      <3>4. Len(b) = n + 1 - k
        <4>1. CASE k + 1 <= Len(cache)
          BY <4>1, <3>2, <1>3, <1>5
        <4>2. CASE ~(k + 1 <= Len(cache))
          <5>1. k = Len(cache)
            <6>1. k \in Int /\ k <= Len(cache) /\ Len(cache) \in Int
              BY <1>3, <1>5
            <6> QED BY <6>1, <4>2
          <5>2. Len(b) = 0
            BY <4>2, <3>2
          <5> QED BY <5>1, <5>2, <1>5
        <4> QED BY <4>1, <4>2
      <3> QED BY <3>2, <3>3, <3>4
    <2>3. RemoveAt(cache, k) = a \o b
      BY DEF RemoveAt
    <2> HIDE DEF a, b
    <2>4. a \o b \in Seq(S) /\ Len(a \o b) = n
      <3>1. a \o b \in Seq(S) /\ Len(a \o b) = Len(a) + Len(b)
        BY <2>1, <2>2, ConcatProperties
      <3> QED BY <3>1, <2>1, <2>2, <1>3, <1>5
    <2>5. \A i \in 1 .. n : (a \o b)[i] = IF i <= Len(a) THEN a[i] ELSE b[i - Len(a)]
      BY <2>1, <2>2, <1>3, <1>5
    <2>6. ASSUME NEW i \in 1 .. n PROVE (a \o b)[i] = cache[IF i < k THEN i ELSE i + 1]
      <3>1. CASE i < k
        <4>1. i \in 1 .. k - 1 /\ i <= Len(a)
          BY <3>1, <2>1, <1>3
        <4> QED BY <4>1, <3>1, <2>1, <2>5
      <3>2. CASE ~(i < k)
        <4>1. i - Len(a) \in 1 .. n + 1 - k /\ ~(i <= Len(a)) /\ k + (i - Len(a)) = i + 1
          BY <3>2, <2>1, <1>3, <1>5
        <4>2. b[i - Len(a)] = cache[k + (i - Len(a))]
          BY <4>1, <2>2
        <4> QED BY <4>1, <4>2, <3>2, <2>5
      <3> QED BY <3>1, <3>2
    <2> QED BY <2>3, <2>4, <2>6
  <1>8. /\ d \in Seq(S) /\ Len(d) = n + 1 /\ d[n + 1].id = id
        /\ \A i \in 1 .. n : d[i] = cache[IF i < k THEN i ELSE i + 1]
    <2> DEFINE e == RemoveAt(cache, k)
    <2> HIDE DEF e, n
    <2>1. /\ e \in Seq(S) /\ Len(e) = n /\ d = Append(e, cache[k])
          /\ \A i \in 1 .. n : e[i] = cache[IF i < k THEN i ELSE i + 1]
      BY <1>4, <1>7 DEF e
    <2> HIDE DEF d
    <2>2. d \in Seq(S) /\ Len(d) = n + 1 /\ d[n + 1] = cache[k] /\ \A i \in 1 .. n : d[i] = e[i]
      BY <2>1, <1>5, <1>6, AppendProperties
    <2> QED BY <2>1, <2>2, <1>3
  <1>9. f \in [1 .. n -> 1 .. Len(cache)] /\ \A i, j \in 1 .. n : i < j => f[i] < f[j]
    BY <1>3, <1>5
  <1>10. \A i \in 1 .. n : f[i] # k /\ d[i] = cache[f[i]]
    BY <1>3, <1>5, <1>8
  <1>11. \A i \in 1 .. Len(cache) : i # k => cache[i].id # id
    BY <1>3, <1>5 DEF CacheInv
  <1>12. \A i \in 1 .. n : d[i] = cache[f[i]] /\ cache[f[i]].id # id
    BY <1>9, <1>10, <1>11
  <1>13. ASSUME NEW i \in 1 .. Len(cache) PROVE cache[i].id = id \/ \E j \in 1 .. n : f[j] = i
    <2>1. CASE i = k
      BY <2>1, <1>3
    <2>2. CASE i < k
      <3>1. i \in 1 .. n /\ f[i] = i
        BY <2>2, <1>3, <1>5
      <3> QED BY <3>1
    <2>3. CASE i > k
      <3>1. i - 1 \in 1 .. n /\ f[i - 1] = i
        BY <2>3, <1>3, <1>5
      <3> QED BY <3>1
    <2> QED BY <2>1, <2>2, <2>3, <1>3
  <1> HIDE DEF d, n, f
  <1>14. Newest(cache, d, r, id, n, f)
    BY <1>5, <1>8, <1>9, <1>12, <1>13 DEF Newest
  <1>15. CacheInv(d, r)
    BY <1>14, NewestEntry
  <1> QED BY <1>15 DEF d


\* A step of the application leaves the cache alone or handles one delivery.
LEMMA CacheStep ==
  ASSUME CacheInv(cache, since), [Next]_vars
  PROVE  CacheInv(cache', since')
  <1>1. CASE HandleDelivery /\ ~UNCHANGED <<cache, since>>
    <2> DEFINE m == Topic[Head(batch).message]
    <2>1. PICK S : cache \in Seq(S)
      BY DEF CacheInv
    <2>2. (\E e \in Range(cache) : e.id = m.id) <=> Cached(cache, m.id)
      <3>1. Range(cache) = { cache[i] : i \in 1 .. Len(cache) }
        BY <2>1 DEF Range
      <3> QED BY <3>1 DEF Cached
    <2>3. \/ Cached(cache, m.id) /\ cache' = Observed(m.id)
          \/ ~Cached(cache, m.id) /\ cache' = Added(m)
      BY <1>1, <2>2 DEF HandleDelivery
    <2>4. since' = Received(m.id)
      BY <1>1 DEF HandleDelivery
    <2> HIDE DEF m
    <2>5. Extends(since, since', m.id)
      BY <2>4 DEF Received, Extends
    <2>6. CASE Cached(cache, m.id) /\ cache' = Observed(m.id)
      BY <2>5, <2>6, ObservedInv
    <2>7. CASE ~Cached(cache, m.id) /\ cache' = Added(m)
      BY <2>5, <2>7, AddedInv
    <2> QED BY <2>3, <2>6, <2>7
  <1>2. CASE UNCHANGED <<cache, since>>
    BY <1>2
  <1>3. HandleDelivery \/ UNCHANGED <<cache, since>>
    BY DEF Next, Continuation, vars, HttpAnswer, ConsumeAnswer, AckAnswer, PublishAnswer,
           EnvironmentStep, Start, Stop, SendMessage, Poll, ResumeStart, StartFails, ResumeSend,
           ResumeConsume, ConsumeFails, DisplayFails, ResumeAck, EndLoop
  <1> QED BY <1>1, <1>2, <1>3

\* The cache holds the ids received last, in the order in which they were, and has
\* forgotten an id only after as many others as it holds.
THEOREM CacheInvariance == Spec => []CacheInv(cache, since)
  <1>1. Init => CacheInv(cache, since)
    <2> SUFFICES ASSUME Init PROVE CacheInv(cache, since)
      OBVIOUS
    <2>1. cache \in Seq({}) /\ Len(cache) = 0 /\ DOMAIN since = {}
      BY DEF Init
    <2> QED BY <2>1, ChatAssumption DEF CacheInv
  <1>2. CacheInv(cache, since) /\ [Next]_vars => CacheInv(cache, since)'
    BY CacheStep
  <1> QED BY <1>1, <1>2, PTL DEF Spec

\* DeduplicationCache forgets the least recently received id and no other: for every
\* capacity and every order of deliveries, a message enters the cache a second time,
\* and is shown again, only after as many others were received as the cache holds.
THEOREM ShownAgainTheorem == Spec => ShownAgainOnlyIfForgotten
  <1> DEFINE Shown == \A id \in DOMAIN since :
                        (\E e \in Range(cache') : e.id = id) /\ (~\E e \in Range(cache) : e.id = id)
                          => Cardinality(since[id]) >= MaxSize
  <1>1. CacheInv(cache, since) => Shown
    <2> SUFFICES ASSUME CacheInv(cache, since), NEW id \in DOMAIN since,
                        ~\E e \in Range(cache) : e.id = id
                 PROVE  Cardinality(since[id]) >= MaxSize
      OBVIOUS
    <2>1. PICK S : cache \in Seq(S)
      BY DEF CacheInv
    <2>2. ~Cached(cache, id)
      BY <2>1 DEF Cached, Range
    <2> QED BY <2>2 DEF CacheInv
  <1> QED BY <1>1, CacheInvariance, PTL DEF Spec, ShownAgainOnlyIfForgotten

=============================================================================
