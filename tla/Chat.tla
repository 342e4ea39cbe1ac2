--------------------------------- MODULE Chat ---------------------------------
(***************************************************************************)
(* One participant of a chat room: ChatApp (packages/chat) on top of a     *)
(* FerrumQClient (packages/sdk), on one JavaScript event loop. What runs   *)
(* between two awaits is one step; stop() may come between any two.        *)
(*                                                                         *)
(* The broker is external to this module: a topic that grows, deliveries   *)
(* under a lease, a limit of attempts. The delays of timers are not        *)
(* modelled: a timer that is set may fire at any time.                     *)
(***************************************************************************)
EXTENDS Naturals, Sequences, SequencesExt, FiniteSets

CONSTANTS
  Topic,        \* the messages of the room's topic in order, as they will be
  Malformed,    \* a message that does not parse or is for another room
  MaxSize,      \* capacity of the DeduplicationCache
  BatchSize,    \* maxMessages of a consume
  Backlog,      \* how many of them are there when the participant joins
  MaxAttempts,  \* the broker's limit of attempts
  MaxExpiries   \* bound: leases that run out

ASSUME ChatAssumption ==
  /\ \A i \in DOMAIN Topic : Topic[i] = Malformed \/ DOMAIN Topic[i] = {"id", "fingerprint"}
  /\ {MaxSize, BatchSize, MaxAttempts} \subseteq Nat \ {0}
  /\ Backlog \in 0 .. Len(Topic)
  /\ MaxExpiries \in Nat

VARIABLES
  lifecycle,   \* ChatApp: idle, starting, connected, failed or stopped
  client,      \* FerrumQClient: none, open or closed
  controller,  \* AbortController of the poll loop: none, live or aborted
  pollTimer,   \* is the poll timer set?
  ui,          \* the last state emitted
  call,        \* what start, poll and sendMessage wait for, and how it was settled
  batch,       \* deliveries of the poll that are still to be handled
  cache,       \* DeduplicationCache: its entries, the oldest first
  since,       \* history: id received -> the other ids received since
  length,      \* broker: how much of Topic has been published
  slot,        \* broker: message -> its delivery state and attempts
  expiries     \* broker: how many leases have run out

app == <<lifecycle, client, controller, pollTimer, ui>>
broker == <<length, slot, expiries>>
vars == <<app, call, batch, cache, since, broker>>

Idle == [op |-> "none", outcome |-> "none", answer |-> <<>>]
Waiting(op, answer) == [op |-> op, outcome |-> "none", answer |-> answer]

Init ==
  /\ lifecycle = "idle"
  /\ client = "none"
  /\ controller = "none"
  /\ pollTimer = FALSE
  /\ ui = "disconnected"
  /\ call = [k \in {"start", "poll", "send"} |-> Idle]
  /\ batch = <<>>
  /\ cache = <<>>
  /\ since = <<>>
  /\ length = Backlog
  /\ slot = [i \in DOMAIN Topic |-> [state |-> "ready", attempt |-> 0]]
  /\ expiries = 0

-----------------------------------------------------------------------------
(* FerrumQClient: a call is settled once, by its answer, by its deadline,  *)
(* or by close().                                                          *)

Settle(k, outcome, answer) ==
  /\ call[k].op # "none"
  /\ call[k].outcome = "none"
  /\ call' = [call EXCEPT ![k].outcome = outcome, ![k].answer = answer]

\* close(): aborts the HTTP requests and cancels the gRPC calls in progress.
CallsClosed(calls) ==
  [k \in DOMAIN calls |->
     IF calls[k].op # "none" /\ calls[k].outcome = "none"
     THEN [calls[k] EXCEPT !.outcome = "closed"] ELSE calls[k]]

\* The answer of the control API to health, readiness and createTopic (where a
\* topic that exists is as good), or an error, which ends the start whatever it is.
HttpAnswer ==
  /\ \E outcome \in {"ok", "error"} : Settle("start", outcome, <<>>)
  /\ UNCHANGED <<app, batch, cache, since, broker>>

\* The deliveries a consume would get: the first ready ones.
Ready ==
  LET all == SelectSeq([i \in 1 .. length |-> i], LAMBDA i : slot[i].state = "ready")
  IN  SubSeq(all, 1, IF Len(all) < BatchSize THEN Len(all) ELSE BatchSize)

Leased(s, deliveries) ==
  [i \in DOMAIN s |-> IF i \in Range(deliveries)
                      THEN [state |-> "leased", attempt |-> s[i].attempt + 1] ELSE s[i]]

\* The broker executes a consume and the answer arrives, or the deadline comes
\* first. Or the request does not arrive at all.
ConsumeAnswer ==
  /\ call["poll"].op = "consume"
  /\ \/ /\ Settle("poll", "ok", [n \in DOMAIN Ready |->
                                   [message |-> Ready[n], attempt |-> slot[Ready[n]].attempt + 1]])
        /\ slot' = Leased(slot, Ready)
     \/ /\ Settle("poll", "timeout", <<>>)
        /\ slot' = Leased(slot, Ready)
     \/ /\ \E outcome \in {"timeout", "transient", "permanent"} : Settle("poll", outcome, <<>>)
        /\ UNCHANGED slot
  /\ UNCHANGED <<app, batch, cache, since, length, expiries>>

\* Acknowledged or dead-lettered: not delivered any more.
Settled == [state |-> "settled", attempt |-> 0]

\* An ACK settles the delivery if it is the message's last one and its lease has
\* not run out; the answer may be lost.
AckAnswer ==
  /\ call["poll"].op = "ack"
  /\ LET d     == call["poll"].answer
         valid == slot[d.message] = [state |-> "leased", attempt |-> d.attempt]
     IN  \/ /\ valid
            /\ \E outcome \in {"ok", "error"} : Settle("poll", outcome, d)
            /\ slot' = [slot EXCEPT ![d.message] = Settled]
         \/ /\ Settle("poll", "error", d)
            /\ UNCHANGED slot
  /\ UNCHANGED <<app, batch, cache, since, length, expiries>>

\* A publish of this participant arrives or not.
PublishAnswer ==
  /\ \E outcome \in {"ok", "error"} :
       /\ Settle("send", outcome, <<>>)
       /\ length' \in IF outcome = "ok" THEN {length + 1} ELSE {length, length + 1}
  /\ length' <= Len(Topic)
  /\ UNCHANGED <<app, batch, cache, since, slot, expiries>>

\* The other participants publish, and leases run out.
Environment ==
  \/ /\ length < Len(Topic)
     /\ length' = length + 1
     /\ UNCHANGED <<slot, expiries>>
  \/ \E i \in DOMAIN Topic :
       /\ expiries < MaxExpiries
       /\ expiries' = expiries + 1
       /\ slot[i].state = "leased"
       /\ slot' = [slot EXCEPT ![i] = IF @.attempt < MaxAttempts THEN [@ EXCEPT !.state = "ready"]
                                      ELSE Settled]
       /\ UNCHANGED length

EnvironmentStep == Environment /\ UNCHANGED <<app, call, batch, cache, since>>

-----------------------------------------------------------------------------
(* ChatApp: start, stop and send.                                          *)

\* cleanupResources
Cleanup(calls) ==
  /\ pollTimer' = FALSE
  /\ controller' = IF controller = "none" THEN "none" ELSE "aborted"
  /\ client' = IF client = "none" THEN "none" ELSE "closed"
  /\ call' = CallsClosed(calls)

\* start(), up to the first await of performStart or to a client that cannot be
\* constructed, which is caught with nothing to clean up.
Start ==
  /\ lifecycle = "idle"
  /\ \/ /\ lifecycle' = "starting"
        /\ ui' = "connecting"
        /\ client' = "open"
        /\ call' = [call EXCEPT !["start"] = Waiting("health", <<>>)]
     \/ /\ lifecycle' = "failed"
        /\ ui' = "error"
        /\ UNCHANGED <<client, call>>
  /\ UNCHANGED <<controller, pollTimer, batch, cache, since, broker>>

\* Mutant: after an await performStart does not look whether it was stopped.
ResumeStartUnchecked ==
  /\ call["start"].outcome = "ok"
  /\ \/ /\ call["start"].op \in {"health", "readiness"}
        /\ call' = [call EXCEPT !["start"] =
                      Waiting(IF @.op = "health" THEN "readiness" ELSE "createTopic", <<>>)]
        /\ UNCHANGED app
     \/ /\ call["start"].op = "createTopic"
        /\ call' = [call EXCEPT !["start"] = Idle]
        /\ lifecycle' = "connected"
        /\ ui' = "connected"
        /\ controller' = "live"
        /\ pollTimer' = TRUE
        /\ UNCHANGED client
  /\ UNCHANGED <<batch, cache, since, broker>>

\* performStart goes on after health, readiness or createTopic succeeded.
ResumeStart ==
  /\ call["start"].outcome = "ok"
  /\ \/ /\ lifecycle # "starting"
        /\ call' = [call EXCEPT !["start"] = Idle]
        /\ UNCHANGED app
     \/ /\ lifecycle = "starting"
        /\ call["start"].op \in {"health", "readiness"}
        /\ call' = [call EXCEPT !["start"] =
                      Waiting(IF @.op = "health" THEN "readiness" ELSE "createTopic", <<>>)]
        /\ UNCHANGED app
     \/ /\ lifecycle = "starting"
        /\ call["start"].op = "createTopic"
        /\ call' = [call EXCEPT !["start"] = Idle]
        /\ lifecycle' = "connected"
        /\ ui' = "connected"
        /\ controller' = "live"
        /\ pollTimer' = TRUE
        /\ UNCHANGED client
  /\ UNCHANGED <<batch, cache, since, broker>>

\* The catch of performStart.
StartFails ==
  /\ call["start"].outcome \notin {"none", "ok"}
  /\ IF lifecycle = "stopped"
     THEN call' = [call EXCEPT !["start"] = Idle] /\ UNCHANGED app
     ELSE /\ lifecycle' = "failed"
          /\ ui' = "error"
          /\ Cleanup([call EXCEPT !["start"] = Idle])
  /\ UNCHANGED <<batch, cache, since, broker>>

Stop ==
  /\ lifecycle # "stopped"
  /\ lifecycle' = "stopped"
  /\ ui' = "disconnected"
  /\ Cleanup(call)
  /\ UNCHANGED <<batch, cache, since, broker>>

\* sendMessage; the user interface has at most one submission pending.
SendMessage ==
  /\ lifecycle = "connected"
  /\ call["send"] = Idle
  /\ call' = [call EXCEPT !["send"] = Waiting("publish", <<>>)]
  /\ UNCHANGED <<app, batch, cache, since, broker>>

\* The result is reported to the caller; errors end there too.
ResumeSend ==
  /\ call["send"].outcome # "none"
  /\ call' = [call EXCEPT !["send"] = Idle]
  /\ UNCHANGED <<app, batch, cache, since, broker>>

-----------------------------------------------------------------------------
(* ChatApp: the poll loop.                                                 *)

\* The timer of schedulePoll fires and poll() issues a consume.
Poll ==
  /\ pollTimer
  /\ pollTimer' = FALSE
  /\ call' = IF lifecycle = "connected" /\ client = "open" /\ controller # "aborted"
             THEN [call EXCEPT !["poll"] = Waiting("consume", <<>>)] ELSE call
  /\ UNCHANGED <<lifecycle, client, controller, ui, batch, cache, since, broker>>

\* isConnectedWith(client) and the signal is not aborted.
Live == lifecycle = "connected" /\ client = "open" /\ controller # "aborted"

\* poll() returns, after schedulePoll if it is still connected.
EndPoll ==
  /\ call' = [call EXCEPT !["poll"] = Idle]
  /\ batch' = <<>>
  /\ pollTimer' = (pollTimer \/ Live)
  /\ UNCHANGED <<lifecycle, client, controller, ui>>

\* The consume has been answered: the loop over the deliveries begins, unless the
\* application was stopped meanwhile.
ResumeConsume ==
  /\ call["poll"].op = "consume"
  /\ call["poll"].outcome = "ok"
  /\ IF Live
     THEN /\ call' = [call EXCEPT !["poll"] = [Idle EXCEPT !.op = "loop"]]
          /\ batch' = call["poll"].answer
          /\ UNCHANGED app
     ELSE EndPoll
  /\ UNCHANGED <<cache, since, broker>>

\* failPolling
FailPolling ==
  /\ lifecycle' = "failed"
  /\ ui' = "error"
  /\ Cleanup([call EXCEPT !["poll"] = Idle])
  /\ batch' = <<>>

\* Mutant: after a timeout the poll returns without another one scheduled.
ConsumeFailsSilently ==
  /\ call["poll"].op = "consume"
  /\ call["poll"].outcome \notin {"none", "ok"}
  /\ call' = [call EXCEPT !["poll"] = Idle]
  /\ UNCHANGED <<app, batch, cache, since, broker>>

\* classifyConsumeError: after a timeout or a transient error polling goes on,
\* after another one it fails.
ConsumeFails ==
  /\ call["poll"].op = "consume"
  /\ call["poll"].outcome \notin {"none", "ok"}
  /\ IF Live /\ call["poll"].outcome = "permanent" THEN FailPolling ELSE EndPoll
  /\ UNCHANGED <<cache, since, broker>>

\* Mutant: observe leaves the entry at its place.
ObservedInPlace(id) == cache

\* observe deletes an entry and sets it again: it becomes the newest.
Observed(id) ==
  LET i == CHOOSE j \in DOMAIN cache : cache[j].id = id
  IN  Append(RemoveAt(cache, i), cache[i])

\* add of a message that is not cached, at capacity without the oldest entry.
Added(m) == Append(IF Len(cache) >= MaxSize THEN Tail(cache) ELSE cache, m)

\* The history after a message with this id was received.
Received(id) ==
  [x \in DOMAIN since \cup {id} |-> IF x = id THEN {} ELSE since[x] \cup {id}]

\* One delivery of the batch: shown if it is a chat message of this room whose id
\* is not cached, and acknowledged, shown or not.
HandleDelivery ==
  /\ call["poll"].op = "loop"
  /\ batch # <<>>
  /\ IF ~Live THEN EndPoll /\ UNCHANGED <<cache, since>>
     ELSE LET m == Topic[Head(batch).message]
          IN  /\ call' = [call EXCEPT !["poll"] = Waiting("ack", Head(batch))]
              /\ batch' = Tail(batch)
              /\ \/ /\ m = Malformed
                    /\ UNCHANGED <<cache, since>>
                 \/ /\ m # Malformed
                    /\ \E e \in Range(cache) : e.id = m.id
                    /\ cache' = Observed(m.id)
                    /\ since' = Received(m.id)
                 \/ /\ m # Malformed
                    /\ ~\E e \in Range(cache) : e.id = m.id
                    /\ cache' = Added(m)
                    /\ since' = Received(m.id)
              /\ UNCHANGED app
  /\ UNCHANGED broker

\* onMessage throws: the message is not cached, its delivery not acknowledged, and
\* polling fails, as after any error that is not the broker's.
DisplayFails ==
  /\ call["poll"].op = "loop"
  /\ batch # <<>>
  /\ Live
  /\ Topic[Head(batch).message] # Malformed
  /\ ~\E e \in Range(cache) : e.id = Topic[Head(batch).message].id
  /\ FailPolling
  /\ UNCHANGED <<cache, since, broker>>

\* ackDelivery returns, whatever became of the ACK.
ResumeAck ==
  /\ call["poll"].op = "ack"
  /\ call["poll"].outcome # "none"
  /\ call' = [call EXCEPT !["poll"] = [Idle EXCEPT !.op = "loop"]]
  /\ UNCHANGED <<app, batch, cache, since, broker>>

EndLoop ==
  /\ call["poll"].op = "loop"
  /\ batch = <<>>
  /\ EndPoll
  /\ UNCHANGED <<cache, since, broker>>

Continuation ==
  \/ ResumeStart \/ StartFails \/ ResumeSend
  \/ ResumeConsume \/ ConsumeFails \/ HandleDelivery \/ DisplayFails \/ ResumeAck \/ EndLoop

Next ==
  \/ HttpAnswer \/ ConsumeAnswer \/ AckAnswer \/ PublishAnswer \/ EnvironmentStep
  \/ Start \/ Stop \/ SendMessage \/ Poll \/ Continuation

\* The event loop runs: timers fire, settled promises resume their functions, and
\* a call is settled by its deadline at the latest (timeoutMs > 0).
Fairness ==
  /\ WF_vars(Poll)
  /\ WF_vars(ResumeStart \/ StartFails)
  /\ WF_vars(ResumeConsume \/ ConsumeFails \/ HandleDelivery \/ DisplayFails \/ ResumeAck \/ EndLoop)
  /\ WF_vars(ConsumeAnswer \/ AckAnswer)

Spec == Init /\ [][Next]_vars /\ Fairness

-----------------------------------------------------------------------------
(* Properties.                                                             *)

\* Once stop() was called nothing is shown any more and the state the user sees
\* stays "disconnected", whatever answers are still on their way and wherever
\* start() and poll() were waiting.
QuietAfterStop ==
  [][lifecycle = "stopped" => lifecycle' = "stopped" /\ UNCHANGED <<ui, since>>]_vars

\* An application that failed or was stopped has let go of everything: no timer,
\* the client closed, the poll loop's signal aborted, no call unsettled; and
\* while it is connected exactly one of its poll timer and its poll is there, so
\* it neither stalls nor polls twice at a time.
ResourcesAccounted ==
  /\ lifecycle \in {"failed", "stopped"} =>
       /\ ~pollTimer
       /\ client # "open"
       /\ controller # "live"
       /\ \A k \in DOMAIN call : call[k].op \notin {"none", "loop"} => call[k].outcome # "none"
  /\ lifecycle = "connected" =>
       /\ client = "open" /\ controller = "live"
       /\ pollTimer <=> call["poll"].op = "none"

\* A message is shown, and cached, again only when the cache had to forget it:
\* since it was last received, shown or not, as many others were received as the
\* cache holds.
ShownAgainOnlyIfForgotten ==
  [][\A id \in DOMAIN since :
       (\E e \in Range(cache') : e.id = id) /\ (~\E e \in Range(cache) : e.id = id)
         => Cardinality(since[id]) >= MaxSize]_vars

\* A connected application keeps consuming, through timeouts, transient errors
\* and failed ACKs, until it is stopped or meets a permanent error, of the broker
\* or of its display.
KeepsPolling ==
  (lifecycle = "connected")
    ~> (lifecycle # "connected" \/ (call["poll"].op = "consume" /\ call["poll"].outcome = "none"))

=============================================================================
