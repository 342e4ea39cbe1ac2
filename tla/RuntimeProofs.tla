----------------------------- MODULE RuntimeProofs ----------------------------
(***************************************************************************)
(* Safety of brokerd processes around one data directory, one pair of      *)
(* addresses and one database: for any number of processes, any deployment *)
(* of commands, any migrations, topics, partition counts and messages.     *)
(***************************************************************************)
EXTENDS Runtime, SequenceTheorems, NaturalsInduction, WellFoundedInduction, TLAPS

-----------------------------------------------------------------------------
(* What FlattenSeq yields.                                                 *)

\* A set of naturals that contains 0 and the successor of each of its elements
\* contains them all.
LEMMA NatClosure ==
  ASSUME NEW S, 0 \in S, \A n \in Nat : n \in S => n + 1 \in S
  PROVE  \A n \in Nat : n \in S
  <1> DEFINE T == Nat \ S
  <1> SUFFICES ASSUME T # {} PROVE FALSE
    OBVIOUS
  <1>1. \E n \in T : \A m \in T : ~(<<m, n>> \in OpToRel(<, Nat))
    BY NatLessThanWellFounded, WFMin
  <1>2. PICK n \in T : \A m \in T : ~(<<m, n>> \in OpToRel(<, Nat))
    BY <1>1
  <1>3. n # 0 /\ n \in Nat /\ n - 1 \in Nat /\ (n - 1) + 1 = n
    OBVIOUS
  <1>4. <<n - 1, n>> \in OpToRel(<, Nat)
    BY <1>3 DEF OpToRel
  <1>5. n - 1 \in S
    BY <1>2, <1>3, <1>4
  <1>6. (n - 1) + 1 \in S
    BY <1>3, <1>5
  <1> QED BY <1>3, <1>6

\* f concatenates the first n sequences of s.
FlatTrace(f, s, n) == f = [i \in 1 .. n |-> IF i = 1 THEN s[i] ELSE f[i - 1] \o s[i]]

\* There is a concatenation of any number of them.
LEMMA FlatTraceExists ==
  ASSUME NEW s
  PROVE  \A n \in Nat : \E f : FlatTrace(f, s, n)
  <1> DEFINE S == { n \in Nat : \E f : FlatTrace(f, s, n) }
  <1>1. 0 \in S
    <2> DEFINE f == [i \in 1 .. 0 |-> << >>]
    <2>1. \A i \in 1 .. 0 : FALSE
      OBVIOUS
    <2>2. FlatTrace(f, s, 0)
      BY <2>1 DEF FlatTrace
    <2> QED BY <2>2
  <1>2. ASSUME NEW n \in Nat, n \in S PROVE n + 1 \in S
    <2>1. PICK f : FlatTrace(f, s, n)
      BY <1>2
    <2> DEFINE e == IF n = 0 THEN s[1] ELSE f[n] \o s[n + 1]
               g == [i \in 1 .. n + 1 |-> IF i = n + 1 THEN e ELSE f[i]]
    <2>2. \A i \in 1 .. n : g[i] = f[i]
      OBVIOUS
    <2>3. \A i \in 1 .. n : f[i] = IF i = 1 THEN s[i] ELSE f[i - 1] \o s[i]
      BY <2>1 DEF FlatTrace
    <2>4. ASSUME NEW i \in 1 .. n + 1
          PROVE  g[i] = IF i = 1 THEN s[i] ELSE g[i - 1] \o s[i]
      <3>1. CASE i = n + 1 /\ n = 0
        BY <3>1
      <3>2. CASE i = n + 1 /\ n # 0
        <4>1. i - 1 = n /\ g[n] = f[n] /\ i # 1
          BY <2>2, <3>2
        <4> QED BY <3>2, <4>1
      <3>3. CASE i # n + 1
        <4>1. i \in 1 .. n /\ (i # 1 => i - 1 \in 1 .. n)
          BY <3>3
        <4> HIDE DEF g
        <4> QED BY <2>2, <2>3, <4>1
      <3> QED BY <3>1, <3>2, <3>3
    <2>5. FlatTrace(g, s, n + 1)
      BY <2>4 DEF FlatTrace
    <2> HIDE DEF g
    <2> QED BY <2>5
  <1> HIDE DEF S
  <1>3. \A n \in Nat : n \in S
    BY <1>1, <1>2, NatClosure
  <1> QED BY <1>3 DEF S

\* The elements of the first n sequences.
ElementsOf(s, n) == UNION { Range(s[i]) : i \in 1 .. n }

\* Every concatenation has the elements of what it is made of.
LEMMA FlatTraceElements ==
  ASSUME NEW S, NEW s \in Seq(Seq(S)), NEW f, FlatTrace(f, s, Len(s))
  PROVE  \A n \in 1 .. Len(s) : f[n] \in Seq(S) /\ Range(f[n]) = ElementsOf(s, n)
  <1> DEFINE T == { n \in Nat : n \in 1 .. Len(s) => f[n] \in Seq(S) /\ Range(f[n]) = ElementsOf(s, n) }
  <1>1. Len(s) \in Nat /\ \A i \in 1 .. Len(s) : s[i] \in Seq(S)
    OBVIOUS
  <1>2. \A i \in 1 .. Len(s) : f[i] = IF i = 1 THEN s[i] ELSE f[i - 1] \o s[i]
    BY DEF FlatTrace
  <1>3. 0 \in T
    OBVIOUS
  <1>4. ASSUME NEW n \in Nat, n \in T PROVE n + 1 \in T
    <2> SUFFICES ASSUME n + 1 \in 1 .. Len(s)
                 PROVE  f[n + 1] \in Seq(S) /\ Range(f[n + 1]) = ElementsOf(s, n + 1)
      OBVIOUS
    <2>1. CASE n = 0
      <3>1. f[n + 1] = s[1] /\ s[1] \in Seq(S)
        BY <2>1, <1>1, <1>2
      <3>2. ElementsOf(s, n + 1) = Range(s[1])
        BY <2>1 DEF ElementsOf
      <3> QED BY <3>1, <3>2
    <2>2. CASE n # 0
      <3>1. n \in 1 .. Len(s) /\ f[n] \in Seq(S) /\ Range(f[n]) = ElementsOf(s, n) /\ s[n + 1] \in Seq(S)
        BY <2>2, <1>1, <1>4
      <3>2. (n + 1) - 1 = n /\ n + 1 # 1
        BY <2>2
      <3>3. f[n + 1] = f[n] \o s[n + 1]
        BY <3>2, <1>2
      <3>4. f[n] \o s[n + 1] \in Seq(S) /\ Range(f[n] \o s[n + 1]) = Range(f[n]) \cup Range(s[n + 1])
        BY <3>1, ConcatProperties, RangeConcatenation
      <3>5. 1 .. n + 1 = (1 .. n) \cup {n + 1}
        OBVIOUS
      <3>6. ElementsOf(s, n + 1) = ElementsOf(s, n) \cup Range(s[n + 1])
        BY <3>5 DEF ElementsOf
      <3> QED BY <3>1, <3>3, <3>4, <3>6
    <2> QED BY <2>1, <2>2
  <1> HIDE DEF T
  <1>5. \A n \in Nat : n \in T
    BY <1>3, <1>4, NatClosure
  <1> QED BY <1>1, <1>5 DEF T

\* FlattenSeq has the elements of the sequences it is made of.
LEMMA FlattenFacts ==
  ASSUME NEW S, NEW s \in Seq(Seq(S))
  PROVE  FlattenSeq(s) \in Seq(S) /\ Range(FlattenSeq(s)) = ElementsOf(s, Len(s))
  <1>1. Len(s) \in Nat
    OBVIOUS
  <1>2. CASE Len(s) = 0
    <2>1. FlattenSeq(s) = << >> /\ s = << >>
      BY <1>2 DEF FlattenSeq
    <2>2. Range(<< >>) = {} /\ ElementsOf(s, 0) = {}
      BY DEF Range, ElementsOf
    <2> QED BY <1>2, <2>1, <2>2
  <1>3. CASE Len(s) # 0
    <2> DEFINE g == CHOOSE h : h = [i \in 1 .. Len(s) |-> IF i = 1 THEN s[i] ELSE h[i - 1] \o s[i]]
    <2>1. FlattenSeq(s) = g[Len(s)]
      BY <1>3 DEF FlattenSeq
    <2>2. PICK f : FlatTrace(f, s, Len(s))
      BY <1>1, FlatTraceExists
    <2>3. FlatTrace(g, s, Len(s))
      BY <2>2 DEF FlatTrace
    <2> HIDE DEF g
    <2>4. Len(s) \in 1 .. Len(s)
      BY <1>1, <1>3
    <2> QED BY <2>1, <2>3, <2>4, FlatTraceElements
  <1> QED BY <1>2, <1>3


-----------------------------------------------------------------------------
(* The invariant.                                                          *)

Parts == 0 .. Max(PartitionCounts) - 1
Logs == [Topics -> [Parts -> Seq(MessageIds)]]

\* The rows and the upserts of a data directory with partition counts M and logs G.
Locations(G) ==
  UNION { { <<t, k, o>> : o \in 0 .. Len(G[t][k]) - 1 } : t \in Topics, k \in 0 .. Max(PartitionCounts) - 1 }
RowsOf(G) == [x \in Locations(G) |-> G[x[1]][x[2]][x[3] + 1]]

TimesIn(G, t) == { TimeOf[id] : id \in UNION { Range(G[t][k]) : k \in DOMAIN G[t] } }
TopicUpsertOf(G, t) ==
  IF TimesIn(G, t) = {} THEN [kind |-> "empty_topic", topic |-> t]
  ELSE [kind |-> "topic", topic |-> t, first |-> Min(TimesIn(G, t)), last |-> Max(TimesIn(G, t))]
PartitionRowsOf(G, t, k) == [i \in 1 .. Len(G[t][k]) |-> MessageRow(t, k, i - 1, G[t][k][i])]
TopicPlan(M, G, t) ==
  IF M[t] = 0 THEN << >>
  ELSE FlattenSeq([k \in 1 .. M[t] |-> PartitionRowsOf(G, t, k - 1)]) \o <<TopicUpsertOf(G, t)>>
UpsertsOf(M, G) == FlattenSeq([n \in DOMAIN TopicOrder |-> TopicPlan(M, G, TopicOrder[n])])

PcValues == {"idle", "http_bound", "bound", "migrate", "applying", "ready", "opened", "open",
             "started", "scanning", "failing", "ended"}
SideValues == {"off", "checking", "waiting", "draining", "done"}

Reasons == {"none", "ok", "fault", "bind", "conflict", "range", "layout", "damaged",
            "duplicate", "inconsistent"}

\* The processes, and what they share.
ProcsOK ==
  /\ pc \in [Procs -> PcValues]
  /\ reason \in [Procs -> Reasons]
  /\ faults \in Nat

AddressesOK ==
  /\ ports \in [Sides -> Procs \cup {NoProc}]
  /\ side \in [Procs -> [Sides -> SideValues]]

DirectoryOK ==
  /\ meta \in [Topics -> PartitionCounts \cup {0}]
  /\ dirs \in [Topics -> Nat]
  /\ log \in Logs
  /\ \A t \in Topics : \A k \in Parts : k >= meta[t] => log[t][k] = << >>
  /\ \A t \in Topics \ interrupted : dirs[t] \in {0, meta[t]}

\* A serve-all on its way to its state holds its addresses, and keeps each of them as
\* long as it accepts there. Of two that have both had both, one has neither left.
Holding == {"bound", "migrate", "applying", "ready", "open"}
BoundOK(p) ==
  /\ pc[p] # "open" => \A s \in Sides : side[p][s] = "off"
  /\ pc[p] = "opened" => command[p] # "serve_all"
  /\ command[p] = "serve_all" =>
       /\ pc[p] = "http_bound" => ports["http"] = p
       /\ pc[p] \in Holding \ {"open"} => \A s \in Sides : ports[s] = p
       /\ pc[p] = "open" => \A s \in Sides : /\ side[p][s] # "off"
                                             /\ side[p][s] \in Accepting => ports[s] = p
AloneOK(p, q) ==
  p # q /\ command[p] = "serve_all" /\ command[q] = "serve_all" /\ pc[p] \in Holding /\ pc[q] \in Holding
    => \E r \in {p, q} : \A s \in Sides : ports[s] # r
AddressInv ==
  /\ AddressesOK
  /\ \A p \in Procs : BoundOK(p)
  /\ \A p, q \in Procs : AloneOK(p, q)

\* The database has a beginning of MIGRATIONS, and so has the transaction of the one
\* process that holds the lock, at least as long.
Beginning(s, n) == s = SubSeq(Migrations, 1, n)
MigrationInv ==
  /\ lock \in Procs \cup {NoProc}
  /\ DOMAIN tx = Procs
  /\ \E n \in 0 .. Len(Migrations) : Beginning(applied, n)
  /\ \A p \in Procs : pc[p] = "applying" =>
       /\ lock = p
       /\ \E n \in 0 .. Len(Migrations) : Beginning(tx[p], n) /\ Len(applied) <= n
  /\ \A p \in Procs : reason[p] \notin {"duplicate", "inconsistent"}

\* An upsert of a plan is about a message that is in the log, or about a topic that
\* was created.
Genuine(M, G, u) ==
  \/ u.kind = "message" /\ u.location \in Locations(G) /\ RowsOf(G)[u.location] = u.id
  \/ u.kind \in {"topic", "empty_topic"} /\ u.topic \in Topics /\ M[u.topic] > 0

\* It has been executed.
Executed(R, T, u) ==
  /\ u.kind = "message" => u.location \in DOMAIN R
  /\ u.kind \in {"topic", "empty_topic"} => u.topic \in DOMAIN T

PlanOK(p) ==
  /\ plan[p] \in Seq(Range(plan[p]))
  /\ done[p] \in 0 .. Len(plan[p])
  /\ \A i \in 1 .. Len(plan[p]) : Genuine(meta, log, plan[p][i])
  /\ \A i \in 1 .. done[p] : Executed(rows, topicRows, plan[p][i])
  /\ plan[p] = UpsertsOf(meta, log) =>
       \A i \in 1 .. done[p] : plan[p][i].kind = "topic" =>
         topicRows[plan[p][i].topic] = [first |-> plan[p][i].first, last |-> plan[p][i].last]
  /\ pc[p] = "scanning" => Offline /\ plan[p] = UpsertsOf(meta, log)

RowsOK ==
  /\ rows = [x \in DOMAIN rows |-> rows[x]]
  /\ DOMAIN rows \subseteq Locations(log)
  /\ \A x \in DOMAIN rows : rows[x] = RowsOf(log)[x]
  /\ \A t \in DOMAIN topicRows : t \in Topics /\ meta[t] > 0

\* The record of a run, and the process that writes it.
Unfinished(p) == done[p] < Len(plan[p]) \/ plan[p] = << >>
RunOK(p) ==
  /\ pc[p] \in {"started", "scanning", "failing"} => p \in DOMAIN runs /\ runs[p] = "in_progress"
  /\ pc[p] \notin {"started", "scanning", "failing", "ended"} => p \notin DOMAIN runs
  /\ pc[p] \notin {"scanning", "failing", "ended"} => plan[p] = << >>
  /\ pc[p] = "failing" => Unfinished(p)
  /\ p \in DOMAIN runs /\ runs[p] = "success" => done[p] = Len(plan[p])
  /\ p \in DOMAIN runs /\ runs[p] = "error" => Unfinished(p)
  /\ p \in DOMAIN runs /\ runs[p] = "in_progress" /\ pc[p] = "ended" => faults > 0

ProjectionInv ==
  /\ DirectoryOK
  /\ DOMAIN plan = Procs /\ DOMAIN done = Procs /\ DOMAIN runs \subseteq Procs
  /\ RowsOK
  /\ \A p \in Procs : PlanOK(p) /\ RunOK(p)

\* The logs G have a message id twice in a topic, or a time that does not fit in a row.
Repeated(G) == \E x, y \in Locations(G) : x # y /\ x[1] = y[1] /\ RowsOf(G)[x] = RowsOf(G)[y]
TooLate(G) == \E x \in Locations(G) : TimeOf[RowsOf(G)[x]] > MaxTime

\* What a process may give as the reason of its end, with logs G, half-made topics I, n
\* faults, and a broker that does not open (D) or does.
Justified(why, G, I, D, n) ==
  /\ why = "conflict" => Repeated(G)
  /\ why = "range" => TooLate(G)
  /\ why = "layout" => I # {}
  /\ why = "damaged" => D
  /\ why = "fault" => n > 0
CauseInv == \A p \in Procs : Justified(reason[p], log, interrupted, damaged, faults)

RInv == ProcsOK /\ AddressInv /\ MigrationInv /\ ProjectionInv /\ CauseInv


-----------------------------------------------------------------------------
(* The rows and the upserts of a log.                                      *)

\* A place in the log.
LEMMA LocationsFacts ==
  ASSUME NEW G, NEW x
  PROVE  x \in Locations(G) <=>
           \E t \in Topics, k \in Parts : \E o \in 0 .. Len(G[t][k]) - 1 : x = <<t, k, o>>
  <1> DEFINE At(t, k) == { <<t, k, o>> : o \in 0 .. Len(G[t][k]) - 1 }
  <1>1. Locations(G) = UNION { At(t, k) : t \in Topics, k \in Parts }
    BY DEF Locations, Parts
  <1>2. \A t, k : x \in At(t, k) <=> \E o \in 0 .. Len(G[t][k]) - 1 : x = <<t, k, o>>
    OBVIOUS
  <1> HIDE DEF At
  <1>3. x \in Locations(G) <=> \E t \in Topics, k \in Parts : x \in At(t, k)
    BY <1>1
  <1> QED BY <1>2, <1>3

LEMMA RowFacts ==
  ASSUME NEW G, NEW t \in Topics, NEW k \in Parts, NEW o \in 0 .. Len(G[t][k]) - 1
  PROVE  <<t, k, o>> \in Locations(G) /\ RowsOf(G)[<<t, k, o>>] = G[t][k][o + 1]
  <1>1. <<t, k, o>> \in Locations(G)
    BY LocationsFacts
  <1> QED BY <1>1 DEF RowsOf

\* A publish adds one row and changes none.
LogGrown(G, H, t, k) ==
  /\ H \in Logs
  /\ Locations(G) \subseteq Locations(H)
  /\ \A x \in Locations(G) : RowsOf(H)[x] = RowsOf(G)[x]
  /\ <<t, k, Len(G[t][k])>> \in Locations(H) \ Locations(G)
  /\ \A u \in Topics : \A j \in Parts : <<u, j>> # <<t, k>> => H[u][j] = G[u][j]

Appended(G, H, t, k, id) == H = [G EXCEPT ![t] = [G[t] EXCEPT ![k] = Append(G[t][k], id)]]

LEMMA PublishGrows ==
  ASSUME NEW G \in Logs, NEW t \in Topics, NEW k \in Parts, NEW id \in MessageIds,
         NEW H, Appended(G, H, t, k, id)
  PROVE  LogGrown(G, H, t, k)
  <1>1. G[t] \in [Parts -> Seq(MessageIds)] /\ G[t][k] \in Seq(MessageIds) /\ DOMAIN G = Topics
    BY DEF Logs
  <1>2. H = [G EXCEPT ![t] = [G[t] EXCEPT ![k] = Append(G[t][k], id)]]
    BY DEF Appended
  <1> DEFINE a == Append(G[t][k], id)
             g == [G[t] EXCEPT ![k] = a]
             n == Len(G[t][k])
  <1>3. a \in Seq(MessageIds) /\ Len(a) = n + 1 /\ n \in Nat /\ \A i \in 1 .. n : a[i] = G[t][k][i]
    BY <1>1
  <1> HIDE DEF a
  <1>4. g \in [Parts -> Seq(MessageIds)] /\ g[k] = a /\ \A j \in Parts \ {k} : g[j] = G[t][j]
    BY <1>1, <1>3
  <1>5. H[t] = g /\ \A u \in Topics \ {t} : H[u] = G[u]
    BY <1>1, <1>2 DEF a
  <1>6. H \in Logs
    BY <1>1, <1>2, <1>4 DEF Logs, a
  <1> HIDE DEF g
  <1>7. H[t][k] = a /\ \A u \in Topics : \A j \in Parts : <<u, j>> # <<t, k>> => H[u][j] = G[u][j]
    BY <1>4, <1>5
  <1>8. ASSUME NEW u \in Topics, NEW j \in Parts, NEW o \in 0 .. Len(G[u][j]) - 1
        PROVE  o \in 0 .. Len(H[u][j]) - 1 /\ H[u][j][o + 1] = G[u][j][o + 1]
    <2>1. CASE <<u, j>> = <<t, k>>
      <3>1. o \in 0 .. n - 1 /\ o + 1 \in 1 .. n /\ o \in 0 .. (n + 1) - 1
        BY <2>1, <1>3
      <3> QED BY <2>1, <3>1, <1>3, <1>7
    <2>2. CASE <<u, j>> # <<t, k>>
      BY <2>2, <1>7
    <2> QED BY <2>1, <2>2
  <1>9. ASSUME NEW x \in Locations(G) PROVE x \in Locations(H) /\ RowsOf(H)[x] = RowsOf(G)[x]
    <2>1. PICK u \in Topics, j \in Parts : \E o \in 0 .. Len(G[u][j]) - 1 : x = <<u, j, o>>
      BY LocationsFacts
    <2>2. PICK o \in 0 .. Len(G[u][j]) - 1 : x = <<u, j, o>>
      BY <2>1
    <2>3. o \in 0 .. Len(H[u][j]) - 1 /\ H[u][j][o + 1] = G[u][j][o + 1]
      BY <1>8
    <2>4. x \in Locations(H) /\ RowsOf(H)[x] = H[u][j][o + 1]
      <3>1. <<u, j, o>> \in Locations(H) /\ RowsOf(H)[<<u, j, o>>] = H[u][j][o + 1]
        BY <2>3, RowFacts
      <3> QED BY <2>2, <3>1
    <2>5. RowsOf(G)[x] = G[u][j][o + 1]
      BY <2>2, RowFacts
    <2> QED BY <2>3, <2>4, <2>5
  <1>10. <<t, k, n>> \in Locations(H)
    <2>1. n \in 0 .. Len(H[t][k]) - 1
      BY <1>3, <1>7
    <2> QED BY <2>1, RowFacts
  <1>11. <<t, k, n>> \notin Locations(G)
    <2> SUFFICES ASSUME <<t, k, n>> \in Locations(G) PROVE FALSE
      OBVIOUS
    <2>1. PICK u \in Topics, j \in Parts : \E o \in 0 .. Len(G[u][j]) - 1 : <<t, k, n>> = <<u, j, o>>
      BY LocationsFacts
    <2>2. PICK o \in 0 .. Len(G[u][j]) - 1 : <<t, k, n>> = <<u, j, o>>
      BY <2>1
    <2>3. u = t /\ j = k /\ o = n
      BY <2>2
    <2> QED BY <2>3, <1>3
  <1> QED BY <1>6, <1>7, <1>9, <1>10, <1>11 DEF LogGrown

\* What the upserts of a rebuild consist of.
UpsertFacts(M, G, U) ==
  /\ U \in Seq(Range(U))
  /\ \A u \in Range(U) :
       \/ u.kind = "message" /\ u.location \in Locations(G) /\ RowsOf(G)[u.location] = u.id
       \/ \E t \in Topics : M[t] > 0 /\ u = TopicUpsertOf(G, t)
  /\ \A x \in Locations(G) : M[x[1]] > x[2] => \E u \in Range(U) : u.kind = "message" /\ u.location = x
  /\ \A t \in Topics : M[t] > 0 => TopicUpsertOf(G, t) \in Range(U)


\* The upsert of the message at x, and all upserts there may be.
Item(G, x) == [kind |-> "message", location |-> x, id |-> RowsOf(G)[x]]
Items(G) == { Item(G, x) : x \in Locations(G) }
AllItems(G) == Items(G) \cup { TopicUpsertOf(G, t) : t \in Topics }

\* The upserts of one partition.
LEMMA PartitionPlanFacts ==
  ASSUME NEW G \in Logs, NEW t \in Topics, NEW k \in Parts, NEW P, P = PartitionRowsOf(G, t, k)
  PROVE  /\ P \in Seq(AllItems(G))
         /\ Range(P) \subseteq Items(G)
         /\ \A o \in 0 .. Len(G[t][k]) - 1 : Item(G, <<t, k, o>>) \in Range(P)
  <1> DEFINE n == Len(G[t][k])
  <1>1. n \in Nat
    BY DEF Logs
  <1>2. P = [i \in 1 .. n |-> MessageRow(t, k, i - 1, G[t][k][i])]
    BY DEF PartitionRowsOf
  <1>3. ASSUME NEW i \in 1 .. n
        PROVE  P[i] = Item(G, <<t, k, i - 1>>) /\ P[i] \in Items(G)
    <2>1. i - 1 \in 0 .. n - 1 /\ (i - 1) + 1 = i
      BY <1>1
    <2>2. <<t, k, i - 1>> \in Locations(G) /\ RowsOf(G)[<<t, k, i - 1>>] = G[t][k][i]
      BY <2>1, RowFacts
    <2>3. P[i] = [kind |-> "message", location |-> <<t, k, i - 1>>, id |-> G[t][k][i]]
      BY <1>2 DEF MessageRow
    <2>4. P[i] = Item(G, <<t, k, i - 1>>)
      BY <2>2, <2>3 DEF Item
    <2> QED BY <2>2, <2>4 DEF Items
  <1>4. DOMAIN P = 1 .. n
    BY <1>2
  <1>5. P \in [1 .. n -> AllItems(G)]
    BY <1>2, <1>3 DEF AllItems
  <1>6. P \in Seq(AllItems(G))
    BY <1>1, <1>5
  <1>7. Range(P) \subseteq Items(G)
    BY <1>3, <1>4 DEF Range
  <1>8. ASSUME NEW o \in 0 .. n - 1 PROVE Item(G, <<t, k, o>>) \in Range(P)
    <2>1. o + 1 \in 1 .. n /\ (o + 1) - 1 = o
      BY <1>1
    <2>2. P[o + 1] = Item(G, <<t, k, o>>)
      BY <2>1, <1>3
    <2> QED BY <2>1, <2>2, <1>4 DEF Range
  <1> QED BY <1>6, <1>7, <1>8

Counts == [Topics -> PartitionCounts \cup {0}]

\* Partition counts are bounded, and topics have at least one partition.
LEMMA CountFacts ==
  /\ Max(PartitionCounts) \in Nat \ {0}
  /\ \A n \in PartitionCounts \cup {0} : n \in Nat /\ n <= Max(PartitionCounts)
  <1> DEFINE m == Max(PartitionCounts)
  <1>1. m \in PartitionCounts /\ PartitionCounts \subseteq Nat \ {0} /\ \A n \in PartitionCounts : n <= m
    BY PostgresAssumption
  <1> HIDE DEF m
  <1>2. m \in Nat \ {0}
    BY <1>1
  <1>3. \A n \in PartitionCounts \cup {0} : n \in Nat /\ n <= m
    BY <1>1, <1>2
  <1> QED BY <1>2, <1>3 DEF m

\* The upserts of one topic.
LEMMA TopicPlanFacts ==
  ASSUME NEW M \in Counts, NEW G \in Logs, NEW t \in Topics, NEW P, P = TopicPlan(M, G, t)
  PROVE  /\ P \in Seq(AllItems(G))
         /\ \A u \in Range(P) : u \in Items(G) \/ (M[t] > 0 /\ u = TopicUpsertOf(G, t))
         /\ M[t] > 0 =>
              /\ TopicUpsertOf(G, t) \in Range(P)
              /\ \A k \in Parts : k < M[t] =>
                   \A o \in 0 .. Len(G[t][k]) - 1 : Item(G, <<t, k, o>>) \in Range(P)
  <1> DEFINE c == M[t]
             s == [k \in 1 .. c |-> PartitionRowsOf(G, t, k - 1)]
             e == TopicUpsertOf(G, t)
  <1>1. c \in Nat /\ c <= Max(PartitionCounts) /\ Max(PartitionCounts) \in Nat
    <2>1. c \in PartitionCounts \cup {0}
      BY DEF Counts
    <2> QED BY <2>1, CountFacts
  <1>2. \A k \in 1 .. c : k - 1 \in Parts
    BY <1>1 DEF Parts
  <1>3. ASSUME NEW k \in 1 .. c
        PROVE  /\ s[k] \in Seq(AllItems(G))
               /\ Range(s[k]) \subseteq Items(G)
               /\ \A o \in 0 .. Len(G[t][k - 1]) - 1 : Item(G, <<t, k - 1, o>>) \in Range(s[k])
    <2>1. s[k] = PartitionRowsOf(G, t, k - 1) /\ k - 1 \in Parts
      BY <1>2
    <2> QED BY <2>1, PartitionPlanFacts
  <1>4. s \in Seq(Seq(AllItems(G))) /\ Len(s) = c
    <2> DEFINE X == Seq(AllItems(G))
    <2>1. s = [k \in 1 .. c |-> s[k]] /\ \A k \in 1 .. c : s[k] \in X
      BY <1>1, <1>3
    <2> HIDE DEF X, s, c
    <2>2. s \in Seq(X) /\ Len(s) = c
      BY <2>1, <1>1
    <2> QED BY <2>2 DEF X
  <1>5. FlattenSeq(s) \in Seq(AllItems(G)) /\ Range(FlattenSeq(s)) = ElementsOf(s, c)
    BY <1>4, FlattenFacts
  <1>6. CASE c = 0
    <2>1. P = << >> /\ Range(P) = {}
      BY <1>6 DEF TopicPlan, Range
    <2> QED BY <1>6, <2>1
  <1>7. CASE c > 0
    <2>1. P = FlattenSeq(s) \o <<e>>
      BY <1>7 DEF TopicPlan
    <2>2. e \in AllItems(G) /\ <<e>> \in Seq(AllItems(G))
      BY DEF AllItems
    <2>3. Range(<<e>>) = {e}
      BY DEF Range
    <2> DEFINE F == FlattenSeq(s)
    <2> HIDE DEF F, e
    <2>4. P \in Seq(AllItems(G)) /\ Range(P) = Range(F) \cup {e}
      <3>1. F \in Seq(AllItems(G)) /\ P = F \o <<e>>
        BY <1>5, <2>1 DEF F
      <3>2. Range(F \o <<e>>) = Range(F) \cup Range(<<e>>)
        <4> DEFINE X == AllItems(G)
                   d == <<e>>
        <4>1. F \in Seq(X) /\ d \in Seq(X)
          BY <3>1, <2>2
        <4> HIDE DEF X, d
        <4>2. Range(F \o d) = Range(F) \cup Range(d)
          BY <4>1, RangeConcatenation
        <4> QED BY <4>2 DEF d
      <3>3. F \o <<e>> \in Seq(AllItems(G))
        BY <3>1, <2>2, ConcatProperties
      <3> QED BY <3>1, <3>2, <3>3, <2>3
    <2>5. Range(F) = ElementsOf(s, c)
      BY <1>5 DEF F
    <2>6. \A u \in ElementsOf(s, c) : u \in Items(G)
      BY <1>3 DEF ElementsOf
    <2>7. ASSUME NEW k \in Parts, k < c, NEW o \in 0 .. Len(G[t][k]) - 1
          PROVE  Item(G, <<t, k, o>>) \in Range(P)
      <3>1. k + 1 \in 1 .. c /\ (k + 1) - 1 = k
        BY <2>7, <1>1 DEF Parts
      <3>2. Item(G, <<t, k, o>>) \in Range(s[k + 1])
        BY <3>1, <1>3
      <3>3. Item(G, <<t, k, o>>) \in ElementsOf(s, c)
        BY <3>1, <3>2 DEF ElementsOf
      <3> QED BY <3>3, <2>4, <2>5
    <2>8. e = TopicUpsertOf(G, t)
      BY DEF e
    <2> QED BY <1>7, <2>4, <2>5, <2>6, <2>7, <2>8
  <1> QED BY <1>1, <1>6, <1>7

\* The upserts of a rebuild: every message of the log and every topic that was
\* created, and nothing else.
LEMMA UpsertsFacts ==
  ASSUME NEW M \in Counts, NEW G \in Logs, NEW U, U = UpsertsOf(M, G)
  PROVE  UpsertFacts(M, G, U)
  <1> DEFINE s == [n \in DOMAIN TopicOrder |-> TopicPlan(M, G, TopicOrder[n])]
             c == Len(TopicOrder)
  <1>1. c \in Nat /\ DOMAIN TopicOrder = 1 .. c /\ \A n \in 1 .. c : TopicOrder[n] \in Topics
    BY PostgresAssumption DEF Topics
  <1>2. \A t \in Topics : \E n \in 1 .. c : TopicOrder[n] = t
    BY <1>1 DEF Topics, Range
  <1>3. ASSUME NEW n \in 1 .. c
        PROVE  /\ s[n] \in Seq(AllItems(G))
               /\ s[n] = TopicPlan(M, G, TopicOrder[n])
               /\ \A u \in Range(s[n]) :
                    u \in Items(G) \/ (M[TopicOrder[n]] > 0 /\ u = TopicUpsertOf(G, TopicOrder[n]))
    <2>1. s[n] = TopicPlan(M, G, TopicOrder[n]) /\ TopicOrder[n] \in Topics
      BY <1>1
    <2> QED BY <2>1, TopicPlanFacts
  <1>4. s \in Seq(Seq(AllItems(G))) /\ Len(s) = c
    <2> DEFINE X == Seq(AllItems(G))
    <2>1. s = [k \in 1 .. c |-> s[k]] /\ \A k \in 1 .. c : s[k] \in X
      BY <1>1, <1>3
    <2> HIDE DEF X, s, c
    <2>2. s \in Seq(X) /\ Len(s) = c
      BY <2>1, <1>1
    <2> QED BY <2>2 DEF X
  <1>5. U \in Seq(AllItems(G)) /\ Range(U) = ElementsOf(s, c)
    BY <1>4, FlattenFacts DEF UpsertsOf
  <1>6. U \in Seq(Range(U))
    BY <1>5, SeqOfRange
  <1> HIDE DEF s
  <1>7. ASSUME NEW u \in Range(U)
        PROVE  \/ u.kind = "message" /\ u.location \in Locations(G) /\ RowsOf(G)[u.location] = u.id
               \/ \E t \in Topics : M[t] > 0 /\ u = TopicUpsertOf(G, t)
    <2>1. PICK n \in 1 .. c : u \in Range(s[n])
      BY <1>5 DEF ElementsOf
    <2>2. CASE u \in Items(G)
      <3>1. PICK x \in Locations(G) : u = Item(G, x)
        BY <2>2 DEF Items
      <3>2. u.kind = "message" /\ u.location = x /\ u.id = RowsOf(G)[x]
        BY <3>1 DEF Item
      <3> QED BY <3>2
    <2>3. CASE M[TopicOrder[n]] > 0 /\ u = TopicUpsertOf(G, TopicOrder[n])
      BY <2>3, <1>1
    <2> QED BY <2>1, <2>2, <2>3, <1>3
  <1>8. ASSUME NEW t \in Topics, M[t] > 0
        PROVE  /\ TopicUpsertOf(G, t) \in Range(U)
               /\ \A k \in Parts : k < M[t] =>
                    \A o \in 0 .. Len(G[t][k]) - 1 : Item(G, <<t, k, o>>) \in Range(U)
    <2>1. PICK n \in 1 .. c : TopicOrder[n] = t
      BY <1>2
    <2>2. s[n] = TopicPlan(M, G, t)
      BY <2>1, <1>3
    <2>3. /\ TopicUpsertOf(G, t) \in Range(s[n])
          /\ \A k \in Parts : k < M[t] =>
               \A o \in 0 .. Len(G[t][k]) - 1 : Item(G, <<t, k, o>>) \in Range(s[n])
      BY <2>2, <1>8, TopicPlanFacts
    <2>4. Range(s[n]) \subseteq Range(U)
      BY <1>5 DEF ElementsOf
    <2> QED BY <2>3, <2>4
  <1>9. ASSUME NEW x \in Locations(G), M[x[1]] > x[2]
        PROVE  \E u \in Range(U) : u.kind = "message" /\ u.location = x
    <2>1. PICK t \in Topics, k \in Parts : \E o \in 0 .. Len(G[t][k]) - 1 : x = <<t, k, o>>
      BY LocationsFacts
    <2>2. PICK o \in 0 .. Len(G[t][k]) - 1 : x = <<t, k, o>>
      BY <2>1
    <2>3. k \in Nat /\ M[t] \in Nat /\ M[t] > k
      <3>1. x[1] = t /\ x[2] = k
        BY <2>2
      <3>2. M[t] \in PartitionCounts \cup {0}
        BY DEF Counts
      <3>3. k \in Nat
        BY CountFacts DEF Parts
      <3> QED BY <1>9, <3>1, <3>2, <3>3, CountFacts
    <2>4. M[t] > 0 /\ k < M[t]
      BY <2>3
    <2>5. Item(G, <<t, k, o>>) \in Range(U)
      BY <2>4, <1>8
    <2>6. Item(G, x).kind = "message" /\ Item(G, x).location = x
      BY DEF Item
    <2> QED BY <2>2, <2>5, <2>6
  <1> QED BY <1>6, <1>7, <1>8, <1>9 DEF UpsertFacts


-----------------------------------------------------------------------------
(* What a step does to the processes.                                      *)

\* Process p goes to v in a step of module Postgres.
PostgresMove(p, v) ==
  /\ v \in {"migrate", "applying", "ready", "started", "scanning", "failing", "ended"}
  /\ pc' = [pc EXCEPT ![p] = v]
  /\ pc[p] \in {"idle", "migrate", "applying", "ready", "started", "scanning", "failing"}
  /\ command[p] = "serve_all" /\ v \in Holding => pc[p] \in {"migrate", "applying"}

LEMMA PostgresMoves ==
  ASSUME ProcsOK, NEW p \in Procs, PostgresStep(p)
  PROVE  /\ \E v : PostgresMove(p, v)
         /\ reason' \in [Procs -> Reasons]
         /\ faults' \in Nat /\ faults' >= faults
  <1> USE DEF ProcsOK, PcValues, Reasons, End, Fail, PostgresMove, Holding
  <1>1. CASE LockMigrations(p)
    BY <1>1 DEF LockMigrations
  <1>2. CASE ApplyMigration(p)
    <2>1. pc = [pc EXCEPT ![p] = pc[p]]
      OBVIOUS
    <2> QED BY <1>2, <2>1 DEF ApplyMigration
  <1>3. CASE CommitMigrations(p)
    BY <1>3 DEF CommitMigrations
  <1>4. CASE MigrationError(p)
    <2>1. faults' \in Nat /\ faults' >= faults /\ reason' \in [Procs -> Reasons]
      BY <1>4 DEF MigrationError
    <2>2. PostgresMove(p, "ended")
      BY <1>4 DEF MigrationError
    <2> QED BY <2>1, <2>2
  <1>5. CASE StartCommand(p)
    <2>1. faults' \in Nat /\ faults' >= faults /\ reason' \in [Procs -> Reasons]
      BY <1>5 DEF StartCommand
    <2>2. PostgresMove(p, "migrate")
      BY <1>5 DEF StartCommand
    <2> QED BY <2>1, <2>2
  <1>6. CASE StartProjectionRun(p)
    <2>1. faults' \in Nat /\ faults' >= faults /\ reason' \in [Procs -> Reasons]
      BY <1>6 DEF StartProjectionRun
    <2>2. PostgresMove(p, "started")
      BY <1>6 DEF StartProjectionRun
    <2> QED BY <2>1, <2>2
  <1>7. CASE ReadLog(p)
    BY <1>7 DEF ReadLog
  <1>8. CASE Upsert(p)
    <2>1. pc = [pc EXCEPT ![p] = pc[p]]
      OBVIOUS
    <2> QED BY <1>8, <2>1 DEF Upsert
  <1>9. CASE CompleteProjectionRun(p)
    <2>1. faults' \in Nat /\ faults' >= faults /\ reason' \in [Procs -> Reasons]
      BY <1>9 DEF CompleteProjectionRun
    <2>2. PostgresMove(p, "ended")
      BY <1>9 DEF CompleteProjectionRun
    <2> QED BY <2>1, <2>2
  <1>10. CASE FailProjectionRun(p)
    <2>1. faults' \in Nat /\ faults' >= faults /\ reason' \in [Procs -> Reasons]
      BY <1>10 DEF FailProjectionRun
    <2>2. PostgresMove(p, "ended")
      BY <1>10 DEF FailProjectionRun
    <2> QED BY <2>1, <2>2
  <1>11. CASE StatementError(p)
    BY <1>11 DEF StatementError
  <1> QED BY <1>1, <1>2, <1>3, <1>4, <1>5, <1>6, <1>7, <1>8, <1>9, <1>10, <1>11 DEF PostgresStep

\* Process p goes to v in a step of a server. What it had open in the database goes
\* when it ends.
ServerMove(p, v) ==
  /\ v \in {"http_bound", "bound", "ready", "migrate", "opened", "open", "ended"}
  /\ pc' = [pc EXCEPT ![p] = v]
  /\ v # "ended" => pc[p] \in {"idle", "http_bound", "bound", "ready", "opened", "open"}
  /\ v = "ended" => pc[p] \in {"idle", "http_bound", "ready", "opened", "open"} \/ faults' > 0
  /\ v \in {"opened", "open"} => pc[p] \in {"opened", "open"} \/ \A q \in Procs : pc[q] # "scanning"
  /\ \/ UNCHANGED <<reason, lock, tx>>
     \/ /\ \E why \in {"ok", "fault", "bind", "damaged"} :
             /\ reason' = [reason EXCEPT ![p] = why]
             /\ why = "fault" => faults' > 0
             /\ why = "damaged" => damaged
        /\ lock' = IF lock = p THEN NoProc ELSE lock
        /\ tx' = [tx EXCEPT ![p] = << >>]
  /\ UNCHANGED <<applied, projection>>
  /\ faults' \in Nat /\ faults' >= faults

LEMMA ServerMoves ==
  ASSUME ProcsOK, NEW p \in Procs, ServerStep(p)
  PROVE  \E v : ServerMove(p, v)
  <1> USE DEF ProcsOK, End, ServerMove, database
  <1>1. CASE BindHttp(p)
    BY <1>1 DEF BindHttp, Bind
  <1>2. CASE BindGrpc(p)
    BY <1>2 DEF BindGrpc, Bind
  <1>3. CASE BuildSearch(p)
    <2>1. PICK v \in {"ready", "migrate"} : pc' = [pc EXCEPT ![p] = v]
      BY <1>3 DEF BuildSearch
    <2>2. ServerMove(p, v)
      BY <1>3, <2>1 DEF BuildSearch
    <2> QED BY <2>2
  <1>4. CASE OpenState(p)
    <2>1. CASE damaged
      <3>1. ServerMove(p, "ended")
        BY <1>4, <2>1 DEF OpenState, OpenBroker
      <3> QED BY <3>1
    <2>2. CASE ~damaged
      <3>1. ServerMove(p, "open")
        BY <1>4, <2>2 DEF OpenState, OpenBroker
      <3> QED BY <3>1
    <2> QED BY <2>1, <2>2
  <1>5. CASE OpenFirst(p)
    <2>1. CASE damaged
      <3>1. ServerMove(p, "ended")
        BY <1>5, <2>1 DEF OpenFirst, OpenBroker
      <3> QED BY <3>1
    <2>2. CASE ~damaged
      <3>1. ServerMove(p, "opened")
        BY <1>5, <2>2 DEF OpenFirst, OpenBroker
      <3> QED BY <3>1
    <2> QED BY <2>1, <2>2
  <1>6. CASE BindLast(p)
    BY <1>6 DEF BindLast, Bind
  <1>7. CASE Joined(p)
    <2>1. ServerMove(p, "ended")
      BY <1>7 DEF Joined, Stop
    <2> QED BY <2>1
  <1>8. CASE Killed(p)
    <2>1. faults' > 0 /\ faults' \in Nat /\ faults' >= faults
      BY <1>8 DEF Killed
    <2> QED BY <1>8, <2>1 DEF Killed, Stop
  <1> DEFINE Stays == /\ pc' = pc /\ pc[p] = "open"
                      /\ UNCHANGED <<reason, lock, tx, applied, projection>>
                      /\ faults' \in Nat /\ faults' >= faults
  <1>9. ASSUME Stays PROVE \E v : ServerMove(p, v)
    <2>1. pc = [pc EXCEPT ![p] = "open"]
      BY <1>9
    <2> QED BY <1>9, <2>1
  <1>10. ASSUME Signal(p) \/ Damage(p) PROVE Stays
    BY <1>10 DEF Signal, Damage, Serves
  <1>11. ASSUME NEW s \in Sides, BorrowAndUpdate(p, s) \/ Changed(p, s) \/ Drained(p, s)
         PROVE  Stays
    BY <1>11 DEF BorrowAndUpdate, Changed, Drained
  <1>12. ASSUME NEW t \in Topics, NEW n \in PartitionCounts, CreateTopic(p, t, n) \/ CreateTopicFails(p, t, n)
         PROVE  Stays
    BY <1>12 DEF CreateTopic, CreateTopicFails, Serves
  <1>13. ASSUME NEW t \in Topics, NEW k \in Parts, NEW id \in MessageIds, Publish(p, t, k, id)
         PROVE  Stays
    BY <1>13 DEF Publish, Serves
  <1> HIDE DEF Stays, ServerMove
  <1> QED BY <1>1, <1>2, <1>3, <1>4, <1>5, <1>6, <1>7, <1>8, <1>9, <1>10, <1>11, <1>12, <1>13
          DEF ServerStep, Parts

LEMMA ProcsStep ==
  ASSUME ProcsOK, NEW p \in Procs, PostgresStep(p) \/ ServerStep(p), UNCHANGED command
  PROVE  ProcsOK'
  <1>1. CASE PostgresStep(p)
    <2>1. PICK v : PostgresMove(p, v)
      BY <1>1, PostgresMoves
    <2>2. reason' \in [Procs -> Reasons] /\ faults' \in Nat
      BY <1>1, PostgresMoves
    <2> QED BY <2>1, <2>2 DEF ProcsOK, PostgresMove, PcValues
  <1>2. CASE ServerStep(p)
    <2>1. PICK v : ServerMove(p, v)
      BY <1>2, ServerMoves
    <2> QED BY <2>1 DEF ProcsOK, ServerMove, PcValues, Reasons
  <1> QED BY <1>1, <1>2

-----------------------------------------------------------------------------
(* The addresses.                                                          *)

\* A step in which process p goes to v, and no address is taken, keeps the others'
\* part of the invariant.
LEMMA AddressKept ==
  ASSUME ProcsOK, AddressInv, NEW p \in Procs, NEW v \in PcValues, UNCHANGED command,
         pc' = [pc EXCEPT ![p] = v],
         AddressesOK',
         \A s \in Sides : ports'[s] \in {ports[s], NoProc},
         \A q \in Procs \ {p} :
           /\ side'[q] = side[q]
           /\ \A s \in Sides : ports[s] = q /\ pc[q] # "ended" /\ side[q][s] \notin {"draining", "done"}
                                 => ports'[s] = q,
         BoundOK(p)',
         command[p] = "serve_all" /\ v \in Holding => pc[p] \in Holding
  PROVE  AddressInv'
  <1>1. pc'[p] = v /\ \A q \in Procs \ {p} : pc'[q] = pc[q]
    BY DEF ProcsOK
  <1>2. ASSUME NEW q \in Procs, q # p PROVE BoundOK(q)'
    <2>1. BoundOK(q) /\ pc'[q] = pc[q] /\ side'[q] = side[q] /\ command' = command
      BY <1>1, <1>2 DEF AddressInv
    <2>2. "http" \in Sides
      BY DEF Sides
    <2>3. ASSUME NEW s \in Sides, ports[s] = q, pc[q] # "ended", side[q][s] \notin {"draining", "done"}
          PROVE  ports'[s] = q
      BY <1>2, <2>3
    <2> QED BY <2>1, <2>2, <2>3 DEF BoundOK, Holding, Accepting
  <1>3. ASSUME NEW a \in Procs, NEW b \in Procs PROVE AloneOK(a, b)'
    <2> SUFFICES ASSUME a # b, command[a] = "serve_all", command[b] = "serve_all",
                        pc'[a] \in Holding, pc'[b] \in Holding
                 PROVE  \E r \in {a, b} : \A s \in Sides : ports'[s] # r
      BY DEF AloneOK
    <2>1. pc[a] \in Holding /\ pc[b] \in Holding
      BY <1>1
    <2>2. PICK r \in {a, b} : \A s \in Sides : ports[s] # r
      BY <2>1 DEF AddressInv, AloneOK
    <2>3. r # NoProc
      BY <2>2, PostgresAssumption
    <2>4. \A s \in Sides : ports'[s] # r
      BY <2>2, <2>3
    <2> QED BY <2>4
  <1> QED BY <1>2, <1>3 DEF AddressInv

\* What PortsReleased does.
LEMMA Released ==
  ASSUME AddressesOK, PortsReleased
  PROVE  /\ ports' \in [Sides -> Procs \cup {NoProc}]
         /\ \A s \in Sides : ports'[s] \in {ports[s], NoProc}
         /\ \A q \in Procs : \A s \in Sides :
              ports[s] = q /\ pc'[q] # "ended" /\ side'[q][s] \notin {"draining", "done"} => ports'[s] = q
  BY PostgresAssumption DEF AddressesOK, PortsReleased

LEMMA PostgresAddresses ==
  ASSUME ProcsOK, AddressInv, NEW p \in Procs, PostgresStep(p), UNCHANGED command
  PROVE  AddressInv'
  <1>1. PICK v : PostgresMove(p, v)
    BY PostgresMoves
  <1>2. AddressesOK /\ BoundOK(p)
    BY DEF AddressInv
  <1>3. side' = side /\ PortsReleased
    BY DEF PostgresStep
  <1>4. pc'[p] = v /\ \A q \in Procs \ {p} : pc'[q] = pc[q]
    BY <1>1 DEF ProcsOK, PostgresMove
  <1>5. \A s \in Sides : side[p][s] = "off"
    BY <1>1, <1>2 DEF PostgresMove, BoundOK
  <1>6. BoundOK(p)'
    <2>1. \A s \in Sides : ports[s] = p /\ v # "ended" => ports'[s] = p
      BY <1>2, <1>3, <1>4, <1>5, Released
    <2>2. v # "open" /\ v # "opened" /\ v # "http_bound"
      BY <1>1 DEF PostgresMove
    <2>3. command[p] = "serve_all" /\ v \in Holding => v # "ended" /\ \A s \in Sides : ports[s] = p
      BY <1>1, <1>2 DEF PostgresMove, BoundOK, Holding
    <2> QED BY <1>3, <1>4, <1>5, <2>1, <2>2, <2>3 DEF BoundOK
  <1>7. AddressesOK'
    BY <1>2, <1>3, Released DEF AddressesOK
  <1>8. command[p] = "serve_all" /\ v \in Holding => pc[p] \in Holding
    BY <1>1 DEF PostgresMove, Holding
  <1>9. v \in PcValues /\ pc' = [pc EXCEPT ![p] = v]
    BY <1>1 DEF PostgresMove, PcValues
  <1>10. \A s \in Sides : ports'[s] \in {ports[s], NoProc}
    BY <1>2, <1>3, Released
  <1>11. ASSUME NEW q \in Procs \ {p}
         PROVE  /\ side'[q] = side[q]
                /\ \A s \in Sides : ports[s] = q /\ pc[q] # "ended" /\ side[q][s] \notin {"draining", "done"}
                                      => ports'[s] = q
    BY <1>2, <1>3, <1>4, Released
  <1> QED BY <1>6, <1>7, <1>8, <1>9, <1>10, <1>11, AddressKept

\* A step in which process p, going to v, takes a free address.
LEMMA AddressTaken ==
  ASSUME ProcsOK, AddressInv, NEW p \in Procs, NEW v \in PcValues, UNCHANGED command,
         pc' = [pc EXCEPT ![p] = v],
         NEW d \in Sides, ports[d] = NoProc, ports' = [ports EXCEPT ![d] = p],
         side' \in [Procs -> [Sides -> SideValues]],
         \A q \in Procs \ {p} : side'[q] = side[q],
         BoundOK(p)',
         command[p] = "serve_all" /\ v \in Holding => \A s \in Sides : ports'[s] = p
  PROVE  AddressInv'
  <1>1. pc'[p] = v /\ \A q \in Procs \ {p} : pc'[q] = pc[q]
    BY DEF ProcsOK
  <1>2. ports'[d] = p /\ \A s \in Sides \ {d} : ports'[s] = ports[s]
    BY DEF AddressInv, AddressesOK
  <1>3. AddressesOK'
    BY DEF AddressInv, AddressesOK
  <1>4. ASSUME NEW q \in Procs, q # p PROVE BoundOK(q)'
    <2>1. BoundOK(q) /\ pc'[q] = pc[q] /\ side'[q] = side[q] /\ command' = command
      BY <1>1, <1>4 DEF AddressInv
    <2>2. "http" \in Sides
      BY DEF Sides
    <2>3. ASSUME NEW s \in Sides, ports[s] = q PROVE ports'[s] = q
      BY <1>2, <2>3, PostgresAssumption
    <2> QED BY <2>1, <2>2, <2>3 DEF BoundOK
  <1>5. ASSUME NEW a \in Procs, NEW b \in Procs PROVE AloneOK(a, b)'
    <2> SUFFICES ASSUME a # b, command[a] = "serve_all", command[b] = "serve_all",
                        pc'[a] \in Holding, pc'[b] \in Holding
                 PROVE  \E r \in {a, b} : \A s \in Sides : ports'[s] # r
      BY DEF AloneOK
    <2>1. CASE p \in {a, b}
      <3>1. \A s \in Sides : ports'[s] = p
        BY <1>1, <2>1
      <3>2. PICK r \in {a, b} : r # p
        OBVIOUS
      <3> QED BY <3>1, <3>2
    <2>2. CASE p \notin {a, b}
      <3>1. pc[a] \in Holding /\ pc[b] \in Holding
        BY <1>1, <2>2
      <3>2. PICK r \in {a, b} : \A s \in Sides : ports[s] # r
        BY <3>1 DEF AddressInv, AloneOK
      <3>3. \A s \in Sides : ports'[s] # r
        BY <1>2, <2>2, <3>2
      <3> QED BY <3>3
    <2> QED BY <2>1, <2>2
  <1> QED BY <1>3, <1>4, <1>5 DEF AddressInv

\* A listener of p is bound and p goes to `next`, or p ends.
LEMMA BindFacts ==
  ASSUME ProcsOK, AddressInv, NEW p \in Procs, NEW d \in Sides, NEW next \in PcValues \ {"ended"},
         UNCHANGED command, Bind(p, d, next), pc[p] \in {"idle", "http_bound", "opened"},
         side' = IF ports[d] = NoProc /\ next = "open" THEN [side EXCEPT ![p][d] = "waiting"] ELSE side,
         command[p] = "serve_all" => \/ d = "http" /\ next = "http_bound"
                                     \/ d = "grpc" /\ next = "bound" /\ pc[p] = "http_bound",
         next # "opened"
  PROVE  AddressInv'
  <1>1. AddressesOK /\ BoundOK(p)
    BY DEF AddressInv
  <1>2. \A s \in Sides : side[p][s] = "off"
    BY <1>1 DEF BoundOK
  <1>3. CASE ports[d] = NoProc
    <2>1. pc' = [pc EXCEPT ![p] = next] /\ ports' = [ports EXCEPT ![d] = p]
      BY <1>3 DEF Bind
    <2>2. pc'[p] = next
      BY <2>1 DEF ProcsOK
    <2>3. ports'[d] = p /\ \A s \in Sides \ {d} : ports'[s] = ports[s]
      BY <1>1, <2>1 DEF AddressesOK
    <2>4. /\ side' \in [Procs -> [Sides -> SideValues]]
          /\ \A q \in Procs \ {p} : side'[q] = side[q]
          /\ next # "open" => \A s \in Sides : side'[p][s] = "off"
      <3>1. side \in [Procs -> [Sides -> SideValues]]
        BY <1>1 DEF AddressesOK
      <3>2. CASE next = "open"
        <4>1. side' = [side EXCEPT ![p] = [side[p] EXCEPT ![d] = "waiting"]]
          BY <1>3, <3>2
        <4>2. [side[p] EXCEPT ![d] = "waiting"] \in [Sides -> SideValues]
          BY <3>1 DEF SideValues
        <4> QED BY <3>1, <3>2, <4>1, <4>2
      <3>3. CASE next # "open"
        BY <3>1, <3>3, <1>2
      <3> QED BY <3>2, <3>3
    <2>5. command[p] = "serve_all" /\ next = "bound" => \A s \in Sides : ports'[s] = p
      BY <1>1, <2>3 DEF BoundOK, Sides
    <2>6. BoundOK(p)'
      <3>1. CASE command[p] = "serve_all"
        <4>1. next = "http_bound" => ports'["http"] = p
          BY <3>1, <2>3
        <4>2. next \in {"http_bound", "bound"}
          BY <3>1
        <4> QED BY <3>1, <4>1, <4>2, <2>2, <2>4, <2>5 DEF BoundOK, Holding
      <3>2. CASE command[p] # "serve_all"
        BY <3>2, <2>2, <2>4 DEF BoundOK
      <3> QED BY <3>1, <3>2
    <2>7. command[p] = "serve_all" /\ next \in Holding => \A s \in Sides : ports'[s] = p
      BY <2>5 DEF Holding
    <2> QED BY <1>3, <2>1, <2>4, <2>6, <2>7, AddressTaken
  <1>4. CASE ports[d] # NoProc
    <2>1. /\ pc' = [pc EXCEPT ![p] = "ended"] /\ side' = side
          /\ ports' = [x \in Sides |-> IF ports[x] = p THEN NoProc ELSE ports[x]]
      BY <1>4 DEF Bind, End
    <2>2. pc'[p] = "ended" /\ "ended" \in PcValues
      BY <2>1 DEF ProcsOK, PcValues
    <2>3. AddressesOK'
      BY <1>1, <2>1 DEF AddressesOK
    <2>4. BoundOK(p)'
      BY <1>2, <2>1, <2>2 DEF BoundOK, Holding
    <2>5. \A s \in Sides : ports'[s] \in {ports[s], NoProc}
      BY <2>1
    <2>6. ASSUME NEW q \in Procs \ {p}
          PROVE  /\ side'[q] = side[q]
                 /\ \A s \in Sides : ports[s] = q /\ pc[q] # "ended" /\ side[q][s] \notin {"draining", "done"}
                                       => ports'[s] = q
      BY <2>1
    <2>7. "ended" \notin Holding
      BY DEF Holding
    <2> QED BY <2>1, <2>2, <2>3, <2>4, <2>5, <2>6, <2>7, AddressKept
  <1> QED BY <1>3, <1>4

\* A step of the servers of p, after which the listeners that are not needed are closed.
LEMMA SidesMove ==
  ASSUME ProcsOK, AddressInv, NEW p \in Procs, NEW v \in {"open", "ended"}, UNCHANGED command,
         pc' = [pc EXCEPT ![p] = v], PortsReleased,
         NEW f \in [Sides -> SideValues], side' = [side EXCEPT ![p] = f],
         v = "open" => pc[p] = "open" /\ \A s \in Sides : /\ f[s] \in Accepting => side[p][s] \in Accepting
                                                          /\ f[s] = "off" => side[p][s] = "off",
         v = "ended" => f = Off
  PROVE  AddressInv'
  <1>1. AddressesOK /\ BoundOK(p)
    BY DEF AddressInv
  <1>2. side'[p] = f /\ \A q \in Procs \ {p} : side'[q] = side[q]
    BY <1>1 DEF AddressesOK
  <1>3. pc'[p] = v /\ \A q \in Procs \ {p} : pc'[q] = pc[q]
    BY DEF ProcsOK
  <1>4. AddressesOK'
    BY <1>1, Released DEF AddressesOK
  <1>5. \A s \in Sides : ports'[s] \in {ports[s], NoProc}
    BY <1>1, Released
  <1>6. ASSUME NEW q \in Procs \ {p}
        PROVE  /\ side'[q] = side[q]
               /\ \A s \in Sides : ports[s] = q /\ pc[q] # "ended" /\ side[q][s] \notin {"draining", "done"}
                                     => ports'[s] = q
    BY <1>1, <1>2, <1>3, Released
  <1>7. BoundOK(p)'
    <2>1. CASE v = "open"
      <3>1. ASSUME NEW s \in Sides, command[p] = "serve_all", f[s] \in Accepting PROVE ports'[s] = p
        <4>1. ports[s] = p
          <5>1. pc[p] = "open" /\ side[p][s] \in Accepting
            BY <2>1, <3>1
          <5> QED BY <1>1, <3>1, <5>1 DEF BoundOK
        <4>2. side'[p][s] \notin {"draining", "done"} /\ pc'[p] # "ended"
          BY <1>2, <1>3, <2>1, <3>1 DEF Accepting
        <4> QED BY <1>1, <4>1, <4>2, Released
      <3>2. ASSUME NEW s \in Sides, command[p] = "serve_all" PROVE f[s] # "off"
        <4>1. pc[p] = "open" /\ (f[s] = "off" => side[p][s] = "off")
          BY <2>1
        <4> QED BY <1>1, <3>2, <4>1 DEF BoundOK
      <3> QED BY <1>2, <1>3, <2>1, <3>1, <3>2 DEF BoundOK, Holding
    <2>2. CASE v = "ended"
      BY <1>2, <1>3, <2>2 DEF BoundOK, Holding, Off
    <2> QED BY <2>1, <2>2
  <1>8. command[p] = "serve_all" /\ v \in Holding => pc[p] \in Holding
    BY DEF Holding
  <1>9. v \in PcValues
    BY DEF PcValues
  <1> QED BY <1>4, <1>5, <1>6, <1>7, <1>8, <1>9, AddressKept

\* A process that never served ends, and its listeners are closed.
LEMMA EndsUnopened ==
  ASSUME ProcsOK, AddressInv, NEW p \in Procs, UNCHANGED <<command, side>>, pc[p] # "open",
         pc' = [pc EXCEPT ![p] = "ended"], PortsReleased
  PROVE  AddressInv'
  <1>1. side \in [Procs -> [Sides -> SideValues]] /\ \A s \in Sides : side[p][s] = "off"
    BY DEF AddressInv, AddressesOK, BoundOK
  <1>2. side[p] = Off
    BY <1>1 DEF Off
  <1>3. side' = [side EXCEPT ![p] = Off] /\ Off \in [Sides -> SideValues]
    BY <1>1, <1>2
  <1> QED BY <1>3, SidesMove

LEMMA ServerAddresses ==
  ASSUME ProcsOK, AddressInv, NEW p \in Procs, ServerStep(p), UNCHANGED command
  PROVE  AddressInv'
  <1>1. AddressesOK /\ BoundOK(p) /\ "http" \in Sides /\ "grpc" \in Sides
    BY DEF AddressInv, Sides
  <1>2. CASE BindHttp(p)
    <2>1. Bind(p, "http", "http_bound") /\ pc[p] = "idle" /\ side' = side
      BY <1>2 DEF BindHttp
    <2>2. "http_bound" \in PcValues \ {"ended"}
      BY DEF PcValues
    <2> QED BY <1>1, <2>1, <2>2, BindFacts
  <1>3. CASE BindGrpc(p)
    <2>1. Bind(p, "grpc", "bound") /\ pc[p] = "http_bound" /\ side' = side
      BY <1>3 DEF BindGrpc
    <2>2. "bound" \in PcValues \ {"ended"}
      BY DEF PcValues
    <2> QED BY <1>1, <2>1, <2>2, BindFacts
  <1>4. CASE BindLast(p)
    <2>1. PICK d \in SidesOf(p) : /\ Bind(p, d, "open")
                                  /\ side' = IF ports[d] = NoProc THEN [side EXCEPT ![p][d] = "waiting"] ELSE side
      BY <1>4 DEF BindLast
    <2>2. d \in Sides
      BY DEF SidesOf, Sides
    <2>3. pc[p] = "opened" /\ command[p] # "serve_all"
      BY <1>1, <1>4 DEF BindLast, BoundOK
    <2>4. "open" \in PcValues \ {"ended"}
      BY DEF PcValues
    <2> QED BY <2>1, <2>2, <2>3, <2>4, BindFacts
  <1>5. CASE BuildSearch(p)
    <2>1. PICK v \in {"ready", "migrate"} : pc' = [pc EXCEPT ![p] = v]
      BY <1>5 DEF BuildSearch
    <2>2. pc[p] = "bound" /\ ports' = ports /\ side' = side
      BY <1>5 DEF BuildSearch, runtimeVars
    <2>3. pc'[p] = v /\ v \in PcValues
      BY <2>1 DEF ProcsOK, PcValues
    <2>4. BoundOK(p)'
      BY <1>1, <2>1, <2>2, <2>3 DEF BoundOK, Holding
    <2>5. AddressesOK'
      BY <1>1, <2>2 DEF AddressesOK
    <2>6. pc[p] \in Holding
      BY <2>2 DEF Holding
    <2> QED BY <2>1, <2>2, <2>3, <2>4, <2>5, <2>6, AddressKept
  <1>6. CASE OpenState(p) /\ ~damaged
    <2> DEFINE f == [s \in Sides |-> "checking"]
    <2>1. /\ pc[p] = "ready" /\ pc' = [pc EXCEPT ![p] = "open"] /\ command[p] = "serve_all"
          /\ side' = [side EXCEPT ![p] = f] /\ PortsReleased
      BY <1>6 DEF OpenState, OpenBroker
    <2>2. f \in [Sides -> SideValues] /\ \A s \in Sides : f[s] = "checking"
      BY DEF SideValues
    <2> HIDE DEF f
    <2>3. AddressesOK' /\ side'[p] = f /\ \A q \in Procs \ {p} : side'[q] = side[q]
      BY <1>1, <2>1, <2>2, Released DEF AddressesOK
    <2>4. pc'[p] = "open" /\ "open" \in PcValues /\ pc[p] \in Holding /\ \A q \in Procs \ {p} : pc'[q] = pc[q]
      BY <2>1 DEF ProcsOK, PcValues, Holding
    <2>5. \A s \in Sides : ports[s] = p
      BY <1>1, <2>1 DEF BoundOK, Holding
    <2>6. \A s \in Sides : ports'[s] = p
      BY <1>1, <2>1, <2>2, <2>3, <2>4, <2>5, Released
    <2>7. BoundOK(p)'
      BY <2>2, <2>3, <2>4, <2>6 DEF BoundOK
    <2> QED BY <2>1, <2>3, <2>4, <2>5, <2>6, <2>7, AddressKept
  <1>7. CASE OpenFirst(p) /\ ~damaged
    <2>1. /\ pc[p] = "idle" /\ pc' = [pc EXCEPT ![p] = "opened"] /\ command[p] \in {"serve", "serve_grpc"}
          /\ side' = side /\ PortsReleased
      BY <1>7 DEF OpenFirst, OpenBroker
    <2>2. AddressesOK'
      BY <1>1, <2>1, Released DEF AddressesOK
    <2>3. /\ pc'[p] = "opened" /\ "opened" \in PcValues /\ "opened" \notin Holding
          /\ \A q \in Procs \ {p} : pc'[q] = pc[q]
      BY <2>1 DEF ProcsOK, PcValues, Holding
    <2>4. BoundOK(p)'
      BY <1>1, <2>1, <2>3 DEF BoundOK
    <2>5. \A s \in Sides : ports'[s] \in {ports[s], NoProc}
      BY <1>1, <2>1, Released
    <2>6. ASSUME NEW q \in Procs \ {p}
          PROVE  /\ side'[q] = side[q]
                 /\ \A s \in Sides : ports[s] = q /\ pc[q] # "ended" /\ side[q][s] \notin {"draining", "done"}
                                       => ports'[s] = q
      BY <1>1, <2>1, <2>3, Released
    <2> QED BY <2>1, <2>2, <2>3, <2>4, <2>5, <2>6, AddressKept
  <1>14. ASSUME OpenState(p) \/ OpenFirst(p), damaged PROVE AddressInv'
    <2>1. pc[p] # "open" /\ side' = side /\ pc' = [pc EXCEPT ![p] = "ended"] /\ PortsReleased
      BY <1>14 DEF OpenState, OpenFirst, OpenBroker, End
    <2> QED BY <2>1, EndsUnopened
  <1>8. ASSUME Joined(p) \/ Killed(p) PROVE AddressInv'
    <2>1. pc' = [pc EXCEPT ![p] = "ended"] /\ side' = [side EXCEPT ![p] = Off] /\ PortsReleased
      BY <1>8 DEF Joined, Killed, Stop, End
    <2>2. Off \in [Sides -> SideValues]
      BY DEF Off, SideValues
    <2> QED BY <2>1, <2>2, SidesMove
  <1>9. ASSUME NEW s \in Sides, BorrowAndUpdate(p, s) \/ Changed(p, s) \/ Drained(p, s)
        PROVE  AddressInv'
    <2>1. PICK x \in SideValues \ {"off"} :
            side' = [side EXCEPT ![p][s] = x] /\ (x \in Accepting => side[p][s] \in Accepting)
      BY <1>9 DEF BorrowAndUpdate, Changed, Drained, Accepting, SideValues
    <2> DEFINE f == [side[p] EXCEPT ![s] = x]
    <2>2. side' = [side EXCEPT ![p] = f] /\ f \in [Sides -> SideValues] /\ f[s] = x
          /\ \A y \in Sides \ {s} : f[y] = side[p][y]
      BY <1>1, <2>1 DEF AddressesOK
    <2>3. \A y \in Sides : (f[y] \in Accepting => side[p][y] \in Accepting) /\ (f[y] = "off" => side[p][y] = "off")
      BY <2>1, <2>2
    <2>4. pc[p] = "open" /\ pc' = pc
      BY <1>9 DEF BorrowAndUpdate, Changed, Drained
    <2>5. pc' = [pc EXCEPT ![p] = "open"]
      BY <2>4 DEF ProcsOK
    <2>6. CASE PortsReleased
      <3> HIDE DEF f
      <3> QED BY <2>2, <2>3, <2>4, <2>5, <2>6, SidesMove
    <2>7. CASE Drained(p, s)
      <3>1. ports' = ports
        BY <2>7 DEF Drained
      <3> HIDE DEF f
      <3>2. AddressesOK' /\ side'[p] = f /\ \A q \in Procs \ {p} : side'[q] = side[q]
        BY <1>1, <2>2, <3>1 DEF AddressesOK
      <3>3. "open" \in PcValues /\ pc[p] \in Holding
        BY <2>4 DEF PcValues, Holding
      <3>4. BoundOK(p)'
        BY <1>1, <2>3, <2>4, <3>1, <3>2 DEF BoundOK
      <3> QED BY <2>5, <3>1, <3>2, <3>3, <3>4, AddressKept
    <2> QED BY <1>9, <2>6, <2>7 DEF BorrowAndUpdate, Changed
  <1> DEFINE Same == UNCHANGED <<pc, ports, side>>
  <1>10. ASSUME Same PROVE AddressInv'
    BY <1>10 DEF AddressInv, AddressesOK, BoundOK, AloneOK
  <1>11. ASSUME Signal(p) \/ Damage(p) PROVE Same
    BY <1>11 DEF Signal, Damage, runtimeVars
  <1>12. ASSUME NEW t \in Topics, NEW n \in PartitionCounts, CreateTopic(p, t, n) \/ CreateTopicFails(p, t, n)
         PROVE  Same
    BY <1>12 DEF CreateTopic, CreateTopicFails, runtimeVars
  <1>13. ASSUME NEW t \in Topics, NEW k \in Parts, NEW id \in MessageIds, Publish(p, t, k, id)
         PROVE  Same
    BY <1>13 DEF Publish, runtimeVars
  <1> HIDE DEF Same
  <1> QED BY <1>2, <1>3, <1>4, <1>5, <1>6, <1>7, <1>8, <1>9, <1>10, <1>11, <1>12, <1>13, <1>14
          DEF ServerStep, Parts

-----------------------------------------------------------------------------
(* The migrations.                                                         *)

LEMMA BeginningFacts ==
  ASSUME NEW s, NEW n \in 0 .. Len(Migrations), Beginning(s, n)
  PROVE  /\ Len(s) = n /\ DOMAIN s = 1 .. n
         /\ IsPrefix(s, Migrations)
         /\ n < Len(Migrations) => Beginning(Append(s, Migrations[n + 1]), n + 1)
  <1> DEFINE S == Range(Migrations)
  <1>1. Migrations \in Seq(S) /\ Len(Migrations) \in Nat
    BY PostgresAssumption
  <1> HIDE DEF S
  <1>2. n \in Nat /\ n <= Len(Migrations) /\ \A i \in 1 .. n : Migrations[i] \in S
    BY <1>1
  <1>3. s \in Seq(S) /\ Len(s) = n
    <2>1. SubSeq(Migrations, 1, n) \in Seq(S)
          /\ Len(SubSeq(Migrations, 1, n)) = IF 1 <= n THEN n - 1 + 1 ELSE 0
      BY <1>2, SubSeqProperties
    <2> QED BY <1>2, <2>1 DEF Beginning
  <1>4. DOMAIN s = 1 .. n
    BY <1>3
  <1>5. SubSeq(s, 1, Len(s)) = s
    BY <1>3, SubSeqFull
  <1>6. IsPrefix(s, Migrations)
    BY <1>2, <1>3, <1>5 DEF IsPrefix, Beginning
  <1>7. ASSUME n < Len(Migrations) PROVE Beginning(Append(s, Migrations[n + 1]), n + 1)
    <2>1. n + 1 \in 1 .. Len(Migrations) /\ n + 1 \in 1 .. Len(Migrations) /\ 1 \in 1 .. Len(Migrations)
          /\ (n + 1) - 1 = n
      BY <1>1, <1>2, <1>7
    <2>2. SubSeq(Migrations, 1, n + 1) = SubSeq(Migrations, 1, n) \o <<Migrations[n + 1]>>
      BY <1>1, <2>1, SubSeqRecursiveSecond
    <2>3. Migrations[n + 1] \in S
      BY <1>1, <2>1
    <2>4. Append(s, Migrations[n + 1]) = s \o <<Migrations[n + 1]>>
      BY <1>3, <2>3
    <2> QED BY <2>2, <2>4 DEF Beginning
  <1> QED BY <1>3, <1>4, <1>6, <1>7

\* Process p goes to v, and has no transaction open afterwards.
LEMMA MigrationKept ==
  ASSUME ProcsOK, MigrationInv, NEW p \in Procs, NEW v, v # "applying", pc' = [pc EXCEPT ![p] = v],
         UNCHANGED applied,
         \A q \in Procs : reason'[q] \in {reason[q], "ok", "fault", "bind", "conflict", "range", "layout", "damaged"},
         \/ UNCHANGED <<lock, tx>>
         \/ lock' = (IF lock = p THEN NoProc ELSE lock) /\ tx' = [tx EXCEPT ![p] = << >>]
  PROVE  MigrationInv'
  <1>1. pc'[p] = v /\ \A q \in Procs \ {p} : pc'[q] = pc[q]
    BY DEF ProcsOK
  <1>2. lock' \in Procs \cup {NoProc} /\ DOMAIN tx' = Procs
    BY DEF MigrationInv
  <1>3. \A q \in Procs \ {p} : tx'[q] = tx[q] /\ (lock = q => lock' = q)
    BY DEF MigrationInv
  <1>4. ASSUME NEW q \in Procs, pc'[q] = "applying"
        PROVE  lock' = q /\ \E n \in 0 .. Len(Migrations) : Beginning(tx'[q], n) /\ Len(applied') <= n
    <2>1. q # p /\ pc[q] = "applying"
      BY <1>1, <1>4
    <2> QED BY <1>3, <2>1 DEF MigrationInv
  <1>5. \A q \in Procs : reason'[q] \notin {"duplicate", "inconsistent"}
    BY DEF MigrationInv
  <1> QED BY <1>2, <1>4, <1>5 DEF MigrationInv

LEMMA MigrationSteps ==
  ASSUME ProcsOK, MigrationInv, NEW p \in Procs, PostgresStep(p)
  PROVE  MigrationInv'
  <1> DEFINE M == Len(Migrations)
  <1>1. M \in Nat
    BY PostgresAssumption
  <1>2. PICK m \in 0 .. M : Beginning(applied, m)
    BY DEF MigrationInv
  <1>3. /\ lock \in Procs \cup {NoProc} /\ DOMAIN tx = Procs
        /\ \A q \in Procs : reason[q] \notin {"duplicate", "inconsistent"}
        /\ \A q \in Procs : pc[q] = "applying" => lock = q
    BY DEF MigrationInv
  <1>4. Len(applied) = m /\ DOMAIN applied = 1 .. m /\ IsPrefix(applied, Migrations)
    BY <1>2, BeginningFacts
  <1>5. CASE LockMigrations(p)
    <2>1. /\ lock = NoProc /\ lock' = p /\ tx' = [tx EXCEPT ![p] = applied] /\ UNCHANGED <<reason, applied>>
          /\ pc' = [pc EXCEPT ![p] = "applying"]
      BY <1>4, <1>5 DEF LockMigrations
    <2>2. ASSUME NEW q \in Procs, pc'[q] = "applying" PROVE q = p
      <3>1. q # p => pc[q] = "applying"
        BY <2>1, <2>2 DEF ProcsOK
      <3> QED BY <1>3, <2>1, <3>1, PostgresAssumption
    <2>3. tx'[p] = applied /\ DOMAIN tx' = Procs
      BY <1>3, <2>1
    <2>4. Beginning(tx'[p], m) /\ Len(applied') <= m
      BY <1>1, <1>2, <1>4, <2>1, <2>3
    <2> QED BY <1>2, <1>3, <2>1, <2>2, <2>3, <2>4 DEF MigrationInv
  <1>6. CASE pc[p] = "applying"
    <2>1. PICK n \in 0 .. M : Beginning(tx[p], n) /\ Len(applied) <= n
      BY <1>6 DEF MigrationInv
    <2>2. Len(tx[p]) = n /\ (n < M => Beginning(Append(tx[p], Migrations[n + 1]), n + 1))
      BY <2>1, BeginningFacts
    <2>3. lock = p /\ \A q \in Procs \ {p} : pc[q] # "applying"
      BY <1>3, <1>6
    <2>4. CASE ApplyMigration(p)
      <3>1. n < M /\ n + 1 \notin DOMAIN applied
        BY <1>1, <1>4, <2>1, <2>2, <2>4 DEF ApplyMigration
      <3>2. /\ tx' = [tx EXCEPT ![p] = Append(tx[p], Migrations[n + 1])]
            /\ UNCHANGED <<pc, reason, lock, applied>>
        BY <2>2, <2>4, <3>1 DEF ApplyMigration
      <3>3. tx'[p] = Append(tx[p], Migrations[n + 1]) /\ DOMAIN tx' = Procs
        BY <1>3, <3>2
      <3>4. n + 1 \in 0 .. M /\ Len(applied') <= n + 1
        BY <1>1, <1>4, <2>1, <3>1, <3>2
      <3>5. Beginning(tx'[p], n + 1)
        BY <2>2, <3>1, <3>3
      <3> QED BY <1>2, <1>3, <2>3, <3>2, <3>3, <3>4, <3>5 DEF MigrationInv
    <2>5. ASSUME /\ applied' = tx[p] /\ n = M
                 /\ \A q \in Procs : reason'[q] \in {reason[q], "ok", "fault"}
                 /\ \E v \in {"ready", "ended"} : pc' = [pc EXCEPT ![p] = v]
                 /\ lock' = (IF lock = p THEN NoProc ELSE lock) /\ tx' = [tx EXCEPT ![p] = << >>]
          PROVE  MigrationInv'
      <3>1. \A q \in Procs : pc'[q] # "applying"
        BY <2>3, <2>5 DEF ProcsOK
      <3>2. \E k \in 0 .. M : Beginning(applied', k)
        BY <2>1, <2>5
      <3>3. \A q \in Procs : reason'[q] \notin {"duplicate", "inconsistent"}
        BY <1>3, <2>5
      <3>4. lock' \in Procs \cup {NoProc} /\ DOMAIN tx' = Procs
        BY <1>3, <2>5
      <3> QED BY <3>1, <3>2, <3>3, <3>4 DEF MigrationInv
    <2>6. CASE CommitMigrations(p)
      <3>1. \A q \in Procs : reason'[q] \in {reason[q], "ok", "fault"}
        BY <2>6 DEF CommitMigrations, End, ProcsOK
      <3>2. /\ \E v \in {"ready", "ended"} : pc' = [pc EXCEPT ![p] = v]
            /\ lock' = (IF lock = p THEN NoProc ELSE lock) /\ tx' = [tx EXCEPT ![p] = << >>]
        BY <2>6 DEF CommitMigrations, End
      <3> QED BY <2>2, <2>5, <2>6, <3>1, <3>2 DEF CommitMigrations
    <2>7. CASE MigrationError(p)
      <3>1. /\ \A q \in Procs : reason'[q] \in {reason[q], "ok", "fault"}
            /\ pc' = [pc EXCEPT ![p] = "ended"]
            /\ lock' = (IF lock = p THEN NoProc ELSE lock) /\ tx' = [tx EXCEPT ![p] = << >>]
        BY <2>7 DEF MigrationError, End, ProcsOK
      <3>2. CASE UNCHANGED applied
        <4>1. "ended" # "applying"
          OBVIOUS
        <4> QED BY <3>1, <3>2, <4>1, MigrationKept
      <3>3. CASE Len(tx[p]) = Len(Migrations) /\ applied' = tx[p]
        BY <2>2, <2>5, <3>1, <3>3
      <3> QED BY <2>7, <3>2, <3>3 DEF MigrationError
    <2> QED BY <1>6, <2>4, <2>6, <2>7 DEF PostgresStep, LockMigrations, StartCommand, StartProjectionRun,
               ReadLog, Upsert, CompleteProjectionRun, FailProjectionRun, StatementError
  <1>7. CASE pc[p] # "applying" /\ ~LockMigrations(p)
    <2>1. UNCHANGED applied
      BY <1>7 DEF PostgresStep, ApplyMigration, CommitMigrations, MigrationError, StartCommand,
              StartProjectionRun, ReadLog, Upsert, CompleteProjectionRun, FailProjectionRun, StatementError, database
    <2>2. \A q \in Procs : reason'[q] \in {reason[q], "ok", "fault", "bind", "conflict", "range", "layout", "damaged"}
      BY <1>7 DEF PostgresStep, ApplyMigration, CommitMigrations, MigrationError, StartCommand, End, Fail, ProcsOK,
              StartProjectionRun, ReadLog, Upsert, CompleteProjectionRun, FailProjectionRun, StatementError
    <2>3. \/ UNCHANGED <<lock, tx>>
          \/ lock' = (IF lock = p THEN NoProc ELSE lock) /\ tx' = [tx EXCEPT ![p] = << >>]
      BY <1>7 DEF PostgresStep, ApplyMigration, CommitMigrations, MigrationError, StartCommand, End, Fail, database,
              StartProjectionRun, ReadLog, Upsert, CompleteProjectionRun, FailProjectionRun, StatementError
    <2>4. PICK v : PostgresMove(p, v)
      BY PostgresMoves
    <2>5. v # "applying"
      <3>1. pc'[p] = v
        BY <2>4 DEF PostgresMove, ProcsOK
      <3> QED BY <1>7, <3>1 DEF PostgresStep, ApplyMigration, CommitMigrations, MigrationError, StartCommand, End, Fail, ProcsOK,
              StartProjectionRun, ReadLog, Upsert, CompleteProjectionRun, FailProjectionRun, StatementError
    <2> QED BY <2>1, <2>2, <2>3, <2>4, <2>5, MigrationKept DEF PostgresMove
  <1> QED BY <1>5, <1>6, <1>7

LEMMA ServerMigrations ==
  ASSUME ProcsOK, MigrationInv, NEW p \in Procs, ServerStep(p)
  PROVE  MigrationInv'
  <1>1. PICK v : ServerMove(p, v)
    BY ServerMoves
  <1>2. v # "applying" /\ pc' = [pc EXCEPT ![p] = v] /\ UNCHANGED applied
    BY <1>1 DEF ServerMove
  <1>3. \A q \in Procs : reason'[q] \in {reason[q], "ok", "fault", "bind", "conflict", "range", "layout", "damaged"}
    BY <1>1 DEF ServerMove, ProcsOK
  <1>4. \/ UNCHANGED <<lock, tx>>
        \/ lock' = (IF lock = p THEN NoProc ELSE lock) /\ tx' = [tx EXCEPT ![p] = << >>]
    BY <1>1 DEF ServerMove
  <1> QED BY <1>2, <1>3, <1>4, MigrationKept

-----------------------------------------------------------------------------
(* The data directory.                                                     *)

LEMMA MaxPair ==
  ASSUME NEW a \in Nat, NEW b \in Nat
  PROVE  Max({a, b}) = IF a >= b THEN a ELSE b
  <1> DEFINE m == IF a >= b THEN a ELSE b
             Greatest(x) == \A y \in {a, b} : x >= y
  <1>1. m \in {a, b} /\ Greatest(m)
    OBVIOUS
  <1>2. ASSUME NEW x \in {a, b}, Greatest(x) PROVE x = m
    BY <1>2
  <1>3. Max({a, b}) = CHOOSE x \in {a, b} : Greatest(x)
    BY DEF Max
  <1> HIDE DEF m, Greatest
  <1>4. Max({a, b}) \in {a, b} /\ Greatest(Max({a, b}))
    BY <1>1, <1>3
  <1> QED BY <1>2, <1>4 DEF m

\* The partition counts M and the logs G have become N and H: no message and no topic
\* is gone.
DataGrown(M, G, N, H) ==
  /\ Locations(G) \subseteq Locations(H)
  /\ \A x \in Locations(G) : RowsOf(H)[x] = RowsOf(G)[x]
  /\ \A t \in Topics : M[t] > 0 => N[t] > 0

LEMMA GenuineGrown ==
  ASSUME NEW M, NEW G, NEW N, NEW H, DataGrown(M, G, N, H), NEW u, Genuine(M, G, u)
  PROVE  Genuine(N, H, u)
  BY DEF DataGrown, Genuine

\* Something has been published or created since a plan was made.
Outdated(M, G, N, H) == \E u \in Range(UpsertsOf(N, H)) : ~Genuine(M, G, u)

LEMMA CreatedTopic ==
  ASSUME NEW M \in Counts, NEW N \in Counts, NEW G \in Logs, NEW t \in Topics, M[t] = 0, N[t] > 0
  PROVE  Outdated(M, G, N, G)
  <1> DEFINE U == UpsertsOf(N, G)
             e == TopicUpsertOf(G, t)
  <1>1. UpsertFacts(N, G, U)
    BY UpsertsFacts
  <1> HIDE DEF U
  <1>2. e \in Range(U)
    BY <1>1 DEF UpsertFacts
  <1>3. e.kind \in {"topic", "empty_topic"} /\ e.topic = t
    BY DEF TopicUpsertOf
  <1> HIDE DEF e
  <1>4. ~Genuine(M, G, e)
    BY <1>3 DEF Genuine
  <1> QED BY <1>2, <1>4 DEF Outdated, U

LEMMA PublishedMessage ==
  ASSUME NEW M \in Counts, NEW G \in Logs, NEW H \in Logs, NEW t \in Topics, NEW k \in Parts, k < M[t],
         LogGrown(G, H, t, k)
  PROVE  Outdated(M, G, M, H)
  <1> DEFINE U == UpsertsOf(M, H)
             x == <<t, k, Len(G[t][k])>>
  <1>1. UpsertFacts(M, H, U)
    BY UpsertsFacts
  <1> HIDE DEF U
  <1>2. x \in Locations(H) /\ x \notin Locations(G) /\ x[1] = t /\ x[2] = k
    BY DEF LogGrown
  <1>3. M[t] > k
    <2>1. M[t] \in Nat /\ k \in Nat
      <3>1. M[t] \in PartitionCounts \cup {0}
        BY DEF Counts
      <3> QED BY <3>1, CountFacts DEF Parts
    <2> QED BY <2>1
  <1> HIDE DEF x
  <1>4. PICK u \in Range(U) : u.kind = "message" /\ u.location = x
    BY <1>1, <1>2, <1>3 DEF UpsertFacts
  <1>5. ~Genuine(M, G, u)
    BY <1>2, <1>4 DEF Genuine
  <1> QED BY <1>4, <1>5 DEF Outdated, U

\* What the data directory may do in a step.
DataMoves ==
  /\ DataGrown(meta, log, meta', log')
  /\ \/ UNCHANGED <<meta, log>>
     \/ /\ \A q \in Procs : pc'[q] # "scanning"
        /\ Outdated(meta, log, meta', log')

LEMMA SameData ==
  ASSUME UNCHANGED <<meta, log>>
  PROVE  DataMoves
  BY DEF DataMoves, DataGrown

\* DurableBroker::open makes the directories of all topics.
LEMMA DirectoriesMade ==
  ASSUME DirectoryOK, UNCHANGED <<meta, log, interrupted>>, Reopen
  PROVE  DirectoryOK'
  <1>1. \A t \in Topics : dirs[t] \in Nat /\ meta[t] \in Nat
    BY CountFacts DEF DirectoryOK
  <1>2. CASE damaged
    <2>1. dirs' = dirs
      BY <1>2 DEF Reopen
    <2> QED BY <2>1 DEF DirectoryOK
  <1>3. CASE ~damaged
    <2>1. dirs' = [t \in Topics |-> Max({dirs[t], meta[t]})]
      BY <1>3 DEF Reopen
    <2>2. \A t \in Topics : dirs'[t] = IF dirs[t] >= meta[t] THEN dirs[t] ELSE meta[t]
      BY <1>1, <2>1, MaxPair
    <2>3. dirs' \in [Topics -> Nat]
      BY <1>1, <2>1, <2>2
    <2>4. ASSUME NEW t \in Topics \ interrupted PROVE dirs'[t] \in {0, meta[t]}
      BY <1>1, <2>2 DEF DirectoryOK
    <2> QED BY <2>3, <2>4 DEF DirectoryOK
  <1> QED BY <1>2, <1>3

LEMMA ServerData ==
  ASSUME ProcsOK, DirectoryOK, NEW p \in Procs, ServerStep(p)
  PROVE  DirectoryOK' /\ DataMoves /\ (UNCHANGED interrupted \/ interrupted' # {})
  <1>1. ASSUME UNCHANGED <<meta, log, dirs, interrupted>>
        PROVE  DirectoryOK' /\ DataMoves /\ (UNCHANGED interrupted \/ interrupted' # {})
    BY <1>1, SameData DEF DirectoryOK
  <1>2. ASSUME UNCHANGED <<meta, log, interrupted>>, Reopen
        PROVE  DirectoryOK' /\ DataMoves /\ (UNCHANGED interrupted \/ interrupted' # {})
    BY <1>2, SameData, DirectoriesMade
  <1>3. ASSUME \/ BindHttp(p) \/ BindGrpc(p) \/ BuildSearch(p) \/ BindLast(p)
               \/ Damage(p) \/ Signal(p) \/ Joined(p) \/ Killed(p)
        PROVE  UNCHANGED <<meta, log, dirs, interrupted>>
    BY <1>3 DEF BindHttp, BindGrpc, BuildSearch, BindLast, Damage, Signal, Joined, Killed, Stop, dataDir, runtimeVars
  <1>4. ASSUME NEW s \in Sides, BorrowAndUpdate(p, s) \/ Changed(p, s) \/ Drained(p, s)
        PROVE  UNCHANGED <<meta, log, dirs, interrupted>>
    BY <1>4 DEF BorrowAndUpdate, Changed, Drained, dataDir
  <1>5. ASSUME OpenState(p) \/ OpenFirst(p)
        PROVE  UNCHANGED <<meta, log, interrupted>> /\ Reopen
    BY <1>5 DEF OpenState, OpenFirst, OpenBroker
  <1>6. meta \in Counts /\ log \in Logs /\ \A t \in Topics : dirs[t] \in Nat /\ meta[t] \in Nat
    BY CountFacts DEF DirectoryOK, Counts
  <1>7. ASSUME NEW s \in Sides, Serves(p, s), pc' = pc PROVE \A q \in Procs : pc'[q] # "scanning"
    BY <1>7 DEF Serves
  <1>8. "http" \in Sides /\ "grpc" \in Sides
    BY DEF Sides
  <1>9. ASSUME NEW t \in Topics, NEW n \in PartitionCounts, CreateTopic(p, t, n)
        PROVE  DirectoryOK' /\ DataMoves /\ UNCHANGED interrupted
    <2>1. /\ meta[t] = 0 /\ meta' = [meta EXCEPT ![t] = n] /\ dirs' = [dirs EXCEPT ![t] = Max({dirs[t], n})]
          /\ UNCHANGED <<log, interrupted>>
      BY <1>9 DEF CreateTopic, runtimeVars
    <2>2. n \in Nat /\ n > 0
      BY PostgresAssumption
    <2>3. meta' \in Counts /\ meta'[t] = n /\ \A u \in Topics \ {t} : meta'[u] = meta[u]
      BY <1>6, <2>1 DEF Counts
    <2>4. Max({dirs[t], n}) = IF dirs[t] >= n THEN dirs[t] ELSE n
      BY <1>6, <2>2, MaxPair
    <2>5. dirs' \in [Topics -> Nat] /\ dirs'[t] = Max({dirs[t], n}) /\ \A u \in Topics \ {t} : dirs'[u] = dirs[u]
      BY <1>6, <2>1, <2>2, <2>4 DEF DirectoryOK
    <2>6. ASSUME NEW u \in Topics \ interrupted PROVE dirs'[u] \in {0, meta'[u]}
      <3>1. dirs[u] \in {0, meta[u]}
        BY DEF DirectoryOK
      <3> QED BY <2>1, <2>2, <2>3, <2>4, <2>5, <3>1
    <2>7. ASSUME NEW u \in Topics, NEW k \in Parts, k >= meta'[u] PROVE log'[u][k] = << >>
      <3>1. k \in Nat
        BY CountFacts DEF Parts
      <3>2. k >= meta[u]
        BY <1>6, <2>1, <2>2, <2>3, <2>7, <3>1
      <3> QED BY <2>1, <3>2 DEF DirectoryOK
    <2>8. DirectoryOK'
      BY <1>6, <2>1, <2>3, <2>5, <2>6, <2>7 DEF DirectoryOK, Counts
    <2>9. DataGrown(meta, log, meta', log')
      BY <2>1, <2>2, <2>3 DEF DataGrown
    <2>10. Outdated(meta, log, meta', log')
      BY <1>6, <2>1, <2>2, <2>3, CreatedTopic
    <2>11. \A q \in Procs : pc'[q] # "scanning"
      BY <1>7, <1>8, <1>9 DEF CreateTopic
    <2> QED BY <2>1, <2>8, <2>9, <2>10, <2>11 DEF DataMoves
  <1>10. ASSUME NEW t \in Topics, NEW n \in PartitionCounts, CreateTopicFails(p, t, n)
         PROVE  DirectoryOK' /\ DataMoves /\ interrupted' # {}
    <2>1. PICK j \in 1 .. n : dirs' = [dirs EXCEPT ![t] = Max({dirs[t], j})]
      BY <1>10 DEF CreateTopicFails
    <2>2. interrupted' = interrupted \cup {t} /\ UNCHANGED <<meta, log>>
      BY <1>10 DEF CreateTopicFails
    <2>3. j \in Nat
      BY PostgresAssumption
    <2>4. Max({dirs[t], j}) = IF dirs[t] >= j THEN dirs[t] ELSE j
      BY <1>6, <2>3, MaxPair
    <2>5. dirs' \in [Topics -> Nat] /\ \A u \in Topics \ {t} : dirs'[u] = dirs[u]
      BY <1>6, <2>1, <2>3, <2>4 DEF DirectoryOK
    <2> QED BY <2>2, <2>5, SameData DEF DirectoryOK
  <1>11. ASSUME NEW t \in Topics, NEW k \in Parts, NEW id \in MessageIds, Publish(p, t, k, id)
         PROVE  DirectoryOK' /\ DataMoves /\ UNCHANGED interrupted
    <2>1. /\ Appended(log, log', t, k, id)
          /\ k < meta[t] /\ UNCHANGED <<meta, dirs, interrupted>>
      BY <1>11 DEF Publish, runtimeVars, Appended
    <2>2. LogGrown(log, log', t, k)
      BY <1>6, <2>1, PublishGrows
    <2>3. log' \in Logs
      BY <2>2 DEF LogGrown
    <2>4. k \in Nat /\ ~(k >= meta[t])
      <3>1. k \in Nat
        BY CountFacts DEF Parts
      <3> QED BY <1>6, <2>1, <3>1
    <2>5. ASSUME NEW u \in Topics, NEW j \in Parts, j >= meta'[u] PROVE log'[u][j] = << >>
      <3>1. <<u, j>> # <<t, k>>
        BY <2>1, <2>4, <2>5
      <3>2. log'[u][j] = log[u][j]
        BY <2>2, <3>1 DEF LogGrown
      <3> QED BY <2>1, <2>5, <3>2 DEF DirectoryOK
    <2>6. DirectoryOK'
      BY <2>1, <2>3, <2>5 DEF DirectoryOK
    <2>7. DataGrown(meta, log, meta', log')
      BY <2>1, <2>2 DEF DataGrown, LogGrown
    <2>8. Outdated(meta, log, meta', log')
      BY <1>6, <2>1, <2>2, <2>3, PublishedMessage
    <2>9. \A q \in Procs : pc'[q] # "scanning"
      <3>1. Serves(p, "grpc") /\ pc' = pc
        BY <1>11 DEF Publish
      <3> QED BY <1>7, <1>8, <3>1
    <2> QED BY <2>1, <2>6, <2>7, <2>8, <2>9 DEF DataMoves
  <1> QED BY <1>1, <1>2, <1>3, <1>4, <1>5, <1>9, <1>10, <1>11 DEF ServerStep, Parts

-----------------------------------------------------------------------------
(* The projection.                                                         *)

\* No row is removed, and no topic that the plan of q has reached is given other times.
RowsMove(q) ==
  /\ DOMAIN rows \subseteq DOMAIN rows'
  /\ DOMAIN topicRows \subseteq DOMAIN topicRows'
  /\ plan[q] = UpsertsOf(meta, log) =>
       \A i \in 1 .. done[q] : plan[q][i].kind = "topic" =>
         topicRows'[plan[q][i].topic] = topicRows[plan[q][i].topic]

LEMMA PlanKept ==
  ASSUME NEW q \in Procs, PlanOK(q), DataMoves, RowsMove(q), plan'[q] = plan[q], done'[q] = done[q],
         pc'[q] = "scanning" => pc[q] = "scanning" /\ Offline'
  PROVE  PlanOK(q)'
  <1> DEFINE P == plan[q]
             d == done[q]
             U == UpsertsOf(meta, log)
             V == UpsertsOf(meta', log')
  <1>1. /\ P \in Seq(Range(P)) /\ d \in 0 .. Len(P)
        /\ \A i \in 1 .. Len(P) : Genuine(meta, log, P[i])
        /\ \A i \in 1 .. d : Executed(rows, topicRows, P[i])
        /\ P = U => \A i \in 1 .. d : P[i].kind = "topic" =>
                      topicRows[P[i].topic] = [first |-> P[i].first, last |-> P[i].last]
        /\ pc[q] = "scanning" => P = U
    BY DEF PlanOK
  <1>2. \A i \in 1 .. Len(P) : Genuine(meta', log', P[i])
    BY <1>1, GenuineGrown DEF DataMoves
  <1>3. \A i \in 1 .. d : Executed(rows', topicRows', P[i])
    BY <1>1 DEF Executed, RowsMove
  <1>4. P = V => P = U
    <2>1. CASE UNCHANGED <<meta, log>>
      BY <2>1
    <2>2. CASE Outdated(meta, log, meta', log')
      <3> SUFFICES ASSUME P = V PROVE FALSE
        OBVIOUS
      <3> HIDE DEF P, V
      <3>1. PICK u \in Range(P) : ~Genuine(meta, log, u)
        BY <2>2 DEF Outdated, V
      <3>2. PICK i \in 1 .. Len(P) : P[i] = u
        BY <1>1, <3>1 DEF Range
      <3> QED BY <1>1, <3>1, <3>2
    <2> QED BY <2>1, <2>2 DEF DataMoves
  <1>5. P = V => \A i \in 1 .. d : P[i].kind = "topic" =>
                      topicRows'[P[i].topic] = [first |-> P[i].first, last |-> P[i].last]
    <2> SUFFICES ASSUME P = V
                 PROVE  \A i \in 1 .. d : P[i].kind = "topic" =>
                          topicRows'[P[i].topic] = [first |-> P[i].first, last |-> P[i].last]
      OBVIOUS
    <2>1. P = U
      BY <1>4
    <2>2. \A i \in 1 .. d : P[i].kind = "topic" => topicRows'[P[i].topic] = topicRows[P[i].topic]
      BY <2>1 DEF RowsMove
    <2> HIDE DEF P, U, V, d
    <2> QED BY <1>1, <2>1, <2>2
  <1>6. pc'[q] = "scanning" => Offline' /\ P = V
    BY <1>1 DEF DataMoves
  <1>7. /\ plan'[q] = P /\ done'[q] = d
    OBVIOUS
  <1> HIDE DEF P, d
  <1> QED BY <1>1, <1>2, <1>3, <1>5, <1>6, <1>7 DEF PlanOK

\* The run of q, if it has one, is as it was.
RunSame(q) ==
  /\ q \in DOMAIN runs' <=> q \in DOMAIN runs
  /\ q \in DOMAIN runs => runs'[q] = runs[q]

LEMMA RunKept ==
  ASSUME ProcsOK, NEW q \in Procs, RunOK(q), RunSame(q), pc'[q] = pc[q], plan'[q] = plan[q], done'[q] = done[q],
         faults' \in Nat, faults' >= faults
  PROVE  RunOK(q)'
  <1>1. faults > 0 => faults' > 0
    BY DEF ProcsOK
  <1> QED BY <1>1 DEF RunOK, RunSame, Unfinished

\* Process p goes to v, and does not open the data directory while a rebuild reads it.
Goes(p, v) ==
  /\ pc' = [pc EXCEPT ![p] = v]
  /\ v \in {"opened", "open"} =>
       pc[p] \in {"opened", "open"} \/ \A q \in Procs : pc[q] # "scanning"
  /\ faults' \in Nat /\ faults' >= faults

LEMMA OthersKept ==
  ASSUME ProcsOK, NEW p \in Procs, NEW v, Goes(p, v), DataMoves,
         NEW q \in Procs \ {p}, PlanOK(q), RunOK(q), RowsMove(q), RunSame(q), plan'[q] = plan[q], done'[q] = done[q]
  PROVE  PlanOK(q)' /\ RunOK(q)'
  <1>1. pc'[p] = v /\ \A r \in Procs \ {p} : pc'[r] = pc[r]
    BY DEF Goes, ProcsOK
  <1>2. ASSUME pc'[q] = "scanning" PROVE pc[q] = "scanning" /\ Offline'
    <2>1. pc[q] = "scanning" /\ Offline
      BY <1>1, <1>2 DEF PlanOK
    <2>2. pc[p] \notin {"opened", "open"}
      BY <2>1 DEF Offline
    <2>3. v \notin {"opened", "open"}
      BY <2>1, <2>2 DEF Goes
    <2>4. \A r \in Procs : pc'[r] \notin {"opened", "open"}
      BY <1>1, <2>1, <2>3 DEF Offline
    <2> QED BY <2>1, <2>4 DEF Offline
  <1>3. PlanOK(q)'
    BY <1>2, PlanKept
  <1>4. RunOK(q)'
    BY <1>1, RunKept DEF Goes
  <1> QED BY <1>3, <1>4

LEMMA RowsKept ==
  ASSUME RowsOK, DataMoves, UNCHANGED <<rows, topicRows>>
  PROVE  RowsOK'
  <1>1. DOMAIN rows \subseteq Locations(log') /\ \A x \in DOMAIN rows : rows[x] = RowsOf(log')[x]
    BY DEF RowsOK, DataMoves, DataGrown
  <1>2. \A t \in DOMAIN topicRows : t \in Topics /\ meta'[t] > 0
    BY DEF RowsOK, DataMoves, DataGrown
  <1> QED BY <1>1, <1>2 DEF RowsOK

\* A step that leaves the projection alone and does not begin or go on with a rebuild.
LEMMA QuietStep ==
  ASSUME ProcsOK, ProjectionInv, NEW p \in Procs, NEW v, Goes(p, v), DataMoves, DirectoryOK',
         UNCHANGED projection,
         v \notin {"started", "scanning", "failing"},
         v # "ended" => pc[p] \notin {"started", "scanning", "failing", "ended"},
         v = "ended" => pc[p] \notin {"started", "scanning", "failing"} \/ faults' > 0
  PROVE  ProjectionInv'
  <1>1. UNCHANGED <<rows, topicRows, runs, plan, done>>
    BY DEF projection
  <1>2. pc'[p] = v
    BY DEF Goes, ProcsOK
  <1>3. \A q \in Procs : RowsMove(q) /\ RunSame(q) /\ PlanOK(q) /\ RunOK(q)
    BY <1>1 DEF RowsMove, RunSame, ProjectionInv
  <1>4. \A q \in Procs \ {p} : PlanOK(q)' /\ RunOK(q)'
    BY <1>1, <1>3, OthersKept
  <1>5. PlanOK(p)'
    BY <1>1, <1>2, <1>3, PlanKept
  <1>6. RunOK(p)'
    <2>1. faults > 0 => faults' > 0
      BY DEF ProcsOK, Goes
    <2> QED BY <1>1, <1>2, <1>3, <2>1 DEF RunOK, Unfinished
  <1>7. RowsOK'
    BY <1>1, RowsKept DEF ProjectionInv
  <1> QED BY <1>1, <1>4, <1>5, <1>6, <1>7 DEF ProjectionInv

LEMMA ServerProjection ==
  ASSUME ProcsOK, ProjectionInv, NEW p \in Procs, ServerStep(p)
  PROVE  ProjectionInv'
  <1>1. PICK v : ServerMove(p, v)
    BY ServerMoves
  <1>2. DirectoryOK' /\ DataMoves
    BY ServerData DEF ProjectionInv
  <1>3. Goes(p, v) /\ UNCHANGED projection
    BY <1>1 DEF ServerMove, Goes
  <1>4. /\ v \notin {"started", "scanning", "failing"}
        /\ v # "ended" => pc[p] \notin {"started", "scanning", "failing", "ended"}
        /\ v = "ended" => pc[p] \notin {"started", "scanning", "failing"} \/ faults' > 0
    BY <1>1 DEF ServerMove
  <1> QED BY <1>2, <1>3, <1>4, QuietStep

LEMMA InsertFacts ==
  ASSUME NEW f, NEW d, NEW e
  PROVE  /\ DOMAIN InsertOrIgnore(f, d, e) = DOMAIN f \cup {d}
         /\ \A x \in DOMAIN f : InsertOrIgnore(f, d, e)[x] = f[x]
         /\ d \notin DOMAIN f => InsertOrIgnore(f, d, e)[d] = e
         /\ DOMAIN InsertOrUpdate(f, d, e) = DOMAIN f \cup {d}
         /\ InsertOrUpdate(f, d, e)[d] = e
         /\ \A x \in DOMAIN f \ {d} : InsertOrUpdate(f, d, e)[x] = f[x]
  BY DEF InsertOrIgnore, InsertOrUpdate

\* The upserts a rebuild reads, as a function of the data directory.
LEMMA UpsertsRead == Upserts = UpsertsOf(meta, log)
  <1>1. \A t : TimesOf(t) = TimesIn(log, t)
    BY DEF TimesOf, TimesIn
  <1>2. \A t : TopicUpsert(t) = TopicUpsertOf(log, t)
    BY <1>1 DEF TopicUpsert, TopicUpsertOf
  <1>3. \A t, k : PartitionRows(t, k) = PartitionRowsOf(log, t, k)
    BY DEF PartitionRows, PartitionRowsOf
  <1> QED BY <1>2, <1>3 DEF Upserts, UpsertsOf, TopicPlan

\* What a step of a rebuild has in common with the others: the data directory keeps
\* what it has.
Rebuilds(p, v) == Goes(p, v) /\ UNCHANGED <<meta, log>> /\ DirectoryOK'

LEMMA RunStarted ==
  ASSUME ProcsOK, ProjectionInv, NEW p \in Procs, NEW v \in {"started", "ended"}, Rebuilds(p, v),
         pc[p] = "ready", UNCHANGED <<rows, topicRows, plan, done>>, runs' = InsertOrIgnore(runs, p, "in_progress"),
         v = "ended" => faults' > 0
  PROVE  ProjectionInv'
  <1>1. \A q \in Procs : RowsMove(q) /\ PlanOK(q) /\ RunOK(q)
    BY DEF RowsMove, ProjectionInv
  <1>2. DOMAIN runs' = DOMAIN runs \cup {p} /\ \A x \in DOMAIN runs : runs'[x] = runs[x]
    BY DEF InsertOrIgnore
  <1>3. p \notin DOMAIN runs /\ plan[p] = << >>
    BY <1>1 DEF RunOK
  <1>4. runs'[p] = "in_progress"
    BY <1>3, InsertFacts
  <1>5. DataMoves /\ Goes(p, v) /\ pc'[p] = v
    BY SameData DEF Rebuilds, Goes, ProcsOK
  <1>6. \A q \in Procs \ {p} : RunSame(q)
    BY <1>2 DEF RunSame
  <1>7. \A q \in Procs \ {p} : PlanOK(q)' /\ RunOK(q)'
    BY <1>1, <1>5, <1>6, OthersKept
  <1>8. PlanOK(p)'
    BY <1>1, <1>5, PlanKept
  <1>9. RunOK(p)'
    BY <1>2, <1>3, <1>4, <1>5 DEF RunOK, Unfinished
  <1>10. RowsOK'
    BY <1>5, RowsKept DEF ProjectionInv
  <1> QED BY <1>2, <1>7, <1>8, <1>9, <1>10 DEF ProjectionInv, Rebuilds

\* What a run of p is recorded as when it is over.
Outcome(p, r) ==
  \/ r = "success" /\ done[p] = Len(plan[p])
  \/ r = "error" /\ Unfinished(p)

LEMMA RunFinished ==
  ASSUME ProcsOK, ProjectionInv, NEW p \in Procs, Rebuilds(p, "ended"),
         pc[p] \in {"scanning", "failing"}, UNCHANGED <<rows, topicRows, plan, done>>,
         NEW r, runs' = [runs EXCEPT ![p] = r],
         Outcome(p, r)
  PROVE  ProjectionInv'
  <1>1. \A q \in Procs : RowsMove(q) /\ PlanOK(q) /\ RunOK(q)
    BY DEF RowsMove, ProjectionInv
  <1>2. p \in DOMAIN runs /\ DOMAIN runs \subseteq Procs
    BY <1>1 DEF RunOK, ProjectionInv
  <1>3. DOMAIN runs' = DOMAIN runs /\ runs'[p] = r /\ \A x \in DOMAIN runs \ {p} : runs'[x] = runs[x]
    BY <1>2
  <1>4. DataMoves /\ Goes(p, "ended") /\ pc'[p] = "ended"
    BY SameData DEF Rebuilds, Goes, ProcsOK
  <1>5. \A q \in Procs \ {p} : RunSame(q)
    BY <1>3 DEF RunSame
  <1>6. \A q \in Procs \ {p} : PlanOK(q)' /\ RunOK(q)'
    BY <1>1, <1>4, <1>5, OthersKept
  <1>7. PlanOK(p)'
    BY <1>1, <1>4, PlanKept
  <1>8. RunOK(p)'
    BY <1>3, <1>4 DEF RunOK, Unfinished, Outcome
  <1>9. RowsOK'
    BY <1>4, RowsKept DEF ProjectionInv
  <1> QED BY <1>2, <1>3, <1>6, <1>7, <1>8, <1>9 DEF ProjectionInv, Rebuilds

\* The rebuild gives up before the next upsert is executed, or before it has read the log.
LEMMA RunGivesUp ==
  ASSUME ProcsOK, ProjectionInv, NEW p \in Procs, Rebuilds(p, "failing"),
         pc[p] \in {"started", "scanning"}, Unfinished(p), UNCHANGED projection
  PROVE  ProjectionInv'
  <1>1. UNCHANGED <<rows, topicRows, runs, plan, done>>
    BY DEF projection
  <1>2. \A q \in Procs : RowsMove(q) /\ RunSame(q) /\ PlanOK(q) /\ RunOK(q)
    BY <1>1 DEF RowsMove, RunSame, ProjectionInv
  <1>3. DataMoves /\ Goes(p, "failing") /\ pc'[p] = "failing"
    BY SameData DEF Rebuilds, Goes, ProcsOK
  <1>4. \A q \in Procs \ {p} : PlanOK(q)' /\ RunOK(q)'
    BY <1>1, <1>2, <1>3, OthersKept
  <1>5. PlanOK(p)'
    BY <1>1, <1>2, <1>3, PlanKept
  <1>6. RunOK(p)'
    BY <1>1, <1>2, <1>3 DEF RunOK, Unfinished
  <1>7. RowsOK'
    BY <1>1, <1>3, RowsKept DEF ProjectionInv
  <1> QED BY <1>1, <1>4, <1>5, <1>6, <1>7 DEF ProjectionInv, Rebuilds

\* The rebuild reads the log.
LEMMA LogRead ==
  ASSUME ProcsOK, ProjectionInv, NEW p \in Procs, Rebuilds(p, "scanning"), Offline,
         pc[p] = "started", UNCHANGED <<rows, topicRows, runs, done>>, plan' = [plan EXCEPT ![p] = UpsertsOf(meta, log)]
  PROVE  ProjectionInv'
  <1> DEFINE U == UpsertsOf(meta, log)
  <1>1. \A q \in Procs : RowsMove(q) /\ RunSame(q) /\ PlanOK(q) /\ RunOK(q)
    BY DEF RowsMove, RunSame, ProjectionInv
  <1>2. DataMoves /\ Goes(p, "scanning") /\ UNCHANGED <<meta, log>>
    BY SameData DEF Rebuilds
  <1>3. pc'[p] = "scanning" /\ \A q \in Procs \ {p} : pc'[q] = pc[q]
    BY <1>2 DEF Goes, ProcsOK
  <1>4. plan'[p] = U /\ DOMAIN plan' = Procs /\ \A q \in Procs \ {p} : plan'[q] = plan[q]
    BY DEF ProjectionInv
  <1>5. \A q \in Procs \ {p} : PlanOK(q)' /\ RunOK(q)'
    BY <1>1, <1>2, <1>4, OthersKept
  <1>6. done[p] = 0
    <2>1. plan[p] = << >> /\ done[p] \in 0 .. Len(plan[p])
      BY <1>1 DEF RunOK, PlanOK
    <2> QED BY <2>1
  <1>7. UpsertFacts(meta, log, U)
    <2>1. meta \in Counts /\ log \in Logs
      BY DEF ProjectionInv, DirectoryOK, Counts
    <2> QED BY <2>1, UpsertsFacts
  <1>8. PlanOK(p)'
    <2>1. U \in Seq(Range(U))
      BY <1>7 DEF UpsertFacts
    <2>2. ASSUME NEW i \in 1 .. Len(U) PROVE Genuine(meta, log, U[i])
      <3> HIDE DEF U
      <3>1. U[i] \in Range(U)
        BY <2>1
      <3>2. CASE U[i].kind = "message" /\ U[i].location \in Locations(log) /\ RowsOf(log)[U[i].location] = U[i].id
        BY <3>2 DEF Genuine
      <3>3. ASSUME NEW t \in Topics, meta[t] > 0, U[i] = TopicUpsertOf(log, t)
            PROVE  Genuine(meta, log, U[i])
        <4>1. U[i].kind \in {"topic", "empty_topic"} /\ U[i].topic = t
          BY <3>3 DEF TopicUpsertOf
        <4> QED BY <3>3, <4>1 DEF Genuine
      <3> QED BY <1>7, <3>1, <3>2, <3>3 DEF UpsertFacts
    <2>3. Offline'
      BY <1>3 DEF Offline
    <2>4. done'[p] = 0 /\ 1 .. 0 = {} /\ Len(U) \in Nat
      BY <1>6, <2>1
    <2>5. UpsertsOf(meta', log') = U
      BY <1>2
    <2>6. 0 \in 0 .. Len(U) /\ \A i \in 1 .. 0 : FALSE
      BY <2>4
    <2> HIDE DEF U
    <2>7. \A i \in 1 .. Len(U) : Genuine(meta', log', U[i])
      BY <1>2, <2>2
    <2> QED BY <1>4, <2>1, <2>3, <2>4, <2>5, <2>6, <2>7 DEF PlanOK
  <1>9. RunOK(p)'
    BY <1>1, <1>3 DEF RunOK
  <1>10. RowsOK'
    BY <1>2, RowsKept DEF ProjectionInv
  <1> QED BY <1>4, <1>5, <1>8, <1>9, <1>10 DEF ProjectionInv, Rebuilds

\* An upsert of a topic, in the plan of a rebuild that has read all of the log, is the
\* one upsert there is for that topic.
LEMMA TopicUpsertsAgree ==
  ASSUME NEW M, NEW G, NEW U, UpsertFacts(M, G, U), NEW u \in Range(U), u.kind = "topic"
  PROVE  u.topic \in Topics /\ u = TopicUpsertOf(G, u.topic)
  <1>1. PICK t \in Topics : u = TopicUpsertOf(G, t)
    BY DEF UpsertFacts
  <1>2. u.topic = t
    BY <1>1 DEF TopicUpsertOf
  <1> QED BY <1>1, <1>2

\* The next upsert of p is executed: the rows stay true, and the topics other rebuilds
\* have written keep their times.
LEMMA UpsertExecuted ==
  ASSUME ProjectionInv, NEW p \in Procs, pc[p] = "scanning", done[p] < Len(plan[p]),
         UNCHANGED <<meta, log>>, Execute(Current(p)), NEW u, u = Current(p)
  PROVE  /\ RowsOK'
         /\ \A q \in Procs : RowsMove(q)
         /\ Executed(rows', topicRows', u)
         /\ u.kind = "topic" => topicRows'[u.topic] = [first |-> u.first, last |-> u.last]
  <1> DEFINE U == UpsertsOf(meta, log)
  <1>1. \A q \in Procs : PlanOK(q)
    BY DEF ProjectionInv
  <1>2. plan[p] = U /\ done[p] + 1 \in 1 .. Len(plan[p]) /\ plan[p] \in Seq(Range(plan[p]))
    <2>1. plan[p] = U /\ done[p] \in 0 .. Len(plan[p]) /\ plan[p] \in Seq(Range(plan[p]))
      BY <1>1 DEF PlanOK
    <2> QED BY <2>1
  <1>3. UpsertFacts(meta, log, U)
    <2>1. meta \in Counts /\ log \in Logs
      BY DEF ProjectionInv, DirectoryOK, Counts
    <2> QED BY <2>1, UpsertsFacts
  <1> HIDE DEF U
  <1>4. u \in Range(U) /\ u = plan[p][done[p] + 1]
    BY <1>2 DEF Current
  <1>5. /\ Genuine(meta, log, u)
        /\ u.kind # "message" => u.kind \in {"topic", "empty_topic"} /\ u.topic \in Topics /\ meta[u.topic] > 0
    <2>1. Genuine(meta, log, u)
      BY <1>1, <1>2, <1>4 DEF PlanOK
    <2> QED BY <2>1 DEF Genuine
  <1>6. RowsOK /\ Execute(u)
    BY DEF ProjectionInv
  <1>7. CASE u.kind = "message"
    <2>1. rows' = InsertOrIgnore(rows, u.location, u.id) /\ topicRows' = topicRows
      BY <1>6, <1>7 DEF Execute
    <2>2. /\ DOMAIN rows' = DOMAIN rows \cup {u.location}
          /\ \A x \in DOMAIN rows : rows'[x] = rows[x]
          /\ u.location \notin DOMAIN rows => rows'[u.location] = u.id
      BY <2>1 DEF InsertOrIgnore
    <2>3. u.location \in Locations(log) /\ RowsOf(log)[u.location] = u.id
      BY <1>5, <1>7 DEF Genuine
    <2>4. RowsOK'
      <3>1. DOMAIN rows' \subseteq Locations(log)
        BY <1>6, <2>2, <2>3 DEF RowsOK
      <3>2. \A x \in DOMAIN rows' : rows'[x] = RowsOf(log)[x]
        BY <1>6, <2>2, <2>3 DEF RowsOK
      <3>3. rows' = [x \in DOMAIN rows' |-> rows'[x]]
        BY <2>1 DEF InsertOrIgnore
      <3> QED BY <1>6, <2>1, <3>1, <3>2, <3>3 DEF RowsOK
    <2>5. \A q \in Procs : RowsMove(q)
      BY <2>1, <2>2 DEF RowsMove
    <2>6. Executed(rows', topicRows', u)
      BY <1>7, <2>2 DEF Executed
    <2> QED BY <1>7, <2>4, <2>5, <2>6
  <1>8. CASE u.kind = "topic"
    <2> DEFINE e == [first |-> u.first, last |-> u.last]
    <2>1. rows' = rows /\ topicRows' = InsertOrUpdate(topicRows, u.topic, e)
      BY <1>6, <1>8 DEF Execute
    <2>2. /\ DOMAIN topicRows' = DOMAIN topicRows \cup {u.topic} /\ topicRows'[u.topic] = e
          /\ \A x \in DOMAIN topicRows \ {u.topic} : topicRows'[x] = topicRows[x]
      BY <2>1 DEF InsertOrUpdate
    <2>3. RowsOK'
      BY <1>5, <1>6, <1>8, <2>1, <2>2 DEF RowsOK
    <2>4. ASSUME NEW q \in Procs, plan[q] = UpsertsOf(meta, log), NEW i \in 1 .. done[q], plan[q][i].kind = "topic"
          PROVE  topicRows'[plan[q][i].topic] = topicRows[plan[q][i].topic]
      <3> DEFINE w == plan[q][i]
      <3>1. /\ topicRows[w.topic] = [first |-> w.first, last |-> w.last]
            /\ Executed(rows, topicRows, w)
        BY <1>1, <2>4 DEF PlanOK
      <3>2. w \in Range(U)
        <4>1. plan[q] = U /\ i \in 1 .. Len(plan[q]) /\ plan[q] \in Seq(Range(plan[q]))
          BY <1>1, <2>4 DEF PlanOK, U
        <4> QED BY <4>1
      <3>3. w.topic \in DOMAIN topicRows /\ w.kind = "topic"
        BY <2>4, <3>1 DEF Executed
      <3> HIDE DEF w
      <3>4. w.topic = u.topic => w = u
        BY <1>3, <1>4, <1>8, <3>2, <3>3, TopicUpsertsAgree
      <3>5. topicRows'[w.topic] = topicRows[w.topic]
        <4>1. CASE w.topic = u.topic
          BY <2>2, <3>1, <3>4, <4>1
        <4>2. CASE w.topic # u.topic
          BY <2>2, <3>3, <4>2
        <4> QED BY <4>1, <4>2
      <3> QED BY <3>5 DEF w
    <2>5. \A q \in Procs : RowsMove(q)
      BY <2>1, <2>2, <2>4 DEF RowsMove
    <2>6. Executed(rows', topicRows', u)
      BY <1>8, <2>2 DEF Executed
    <2> QED BY <2>2, <2>3, <2>5, <2>6
  <1>9. CASE u.kind = "empty_topic"
    <2>1. rows' = rows /\ topicRows' = InsertOrIgnore(topicRows, u.topic, [first |-> "now", last |-> "now"])
      BY <1>6, <1>9 DEF Execute
    <2>2. /\ DOMAIN topicRows' = DOMAIN topicRows \cup {u.topic}
          /\ \A x \in DOMAIN topicRows : topicRows'[x] = topicRows[x]
      BY <2>1 DEF InsertOrIgnore
    <2>3. RowsOK'
      BY <1>5, <1>6, <1>9, <2>1, <2>2 DEF RowsOK
    <2>4. ASSUME NEW q \in Procs, plan[q] = UpsertsOf(meta, log), NEW i \in 1 .. done[q], plan[q][i].kind = "topic"
          PROVE  topicRows'[plan[q][i].topic] = topicRows[plan[q][i].topic]
      <3>1. plan[q][i].topic \in DOMAIN topicRows
        BY <1>1, <2>4 DEF PlanOK, Executed
      <3> QED BY <2>2, <3>1
    <2>5. \A q \in Procs : RowsMove(q)
      BY <2>1, <2>2, <2>4 DEF RowsMove
    <2>6. Executed(rows', topicRows', u)
      BY <1>9, <2>2 DEF Executed
    <2> QED BY <1>9, <2>3, <2>5, <2>6
  <1> QED BY <1>5, <1>7, <1>8, <1>9

\* The upsert was answered, or it was not.
Advances(p, v) ==
  \/ v = "scanning" /\ done' = [done EXCEPT ![p] = done[p] + 1]
  \/ v = "failing" /\ UNCHANGED done

LEMMA RebuildAdvances ==
  ASSUME ProcsOK, ProjectionInv, NEW p \in Procs, NEW v, Rebuilds(p, v), pc[p] = "scanning",
         done[p] < Len(plan[p]), Execute(Current(p)), UNCHANGED <<runs, plan>>,
         Advances(p, v)
  PROVE  ProjectionInv'
  <1> DEFINE u == Current(p)
             d == done[p]
             P == plan[p]
  <1>1. UNCHANGED <<meta, log>> /\ Goes(p, v) /\ DirectoryOK'
    BY DEF Rebuilds
  <1>2. /\ RowsOK'
        /\ \A q \in Procs : RowsMove(q)
        /\ Executed(rows', topicRows', u)
        /\ u.kind = "topic" => topicRows'[u.topic] = [first |-> u.first, last |-> u.last]
    BY <1>1, UpsertExecuted
  <1>3. \A q \in Procs : PlanOK(q) /\ RunOK(q) /\ RunSame(q)
    BY DEF ProjectionInv, RunSame
  <1>4. pc'[p] = v /\ \A q \in Procs \ {p} : pc'[q] = pc[q]
    BY <1>1 DEF Goes, ProcsOK
  <1>5. DataMoves
    BY <1>1, SameData
  <1>6. DOMAIN done' = Procs /\ \A q \in Procs \ {p} : done'[q] = done[q]
    BY DEF ProjectionInv, Advances
  <1>7. \A q \in Procs \ {p} : PlanOK(q)' /\ RunOK(q)'
    BY <1>1, <1>2, <1>3, <1>5, <1>6, OthersKept
  <1>8. RunOK(p)'
    <2>1. v \in {"scanning", "failing"} /\ runs' = runs /\ p \in DOMAIN runs /\ runs[p] = "in_progress"
      BY <1>3 DEF RunOK, Advances
    <2>2. v = "failing" => Unfinished(p)'
      BY DEF Unfinished, Advances
    <2> QED BY <1>4, <2>1, <2>2 DEF RunOK
  <1>9. PlanOK(p)'
    <2>1. CASE v = "failing"
      <3>1. done'[p] = done[p] /\ plan'[p] = plan[p]
        BY <2>1 DEF Advances
      <3> QED BY <1>2, <1>3, <1>4, <1>5, <2>1, <3>1, PlanKept
    <2>2. CASE v = "scanning"
      <3>1. /\ P \in Seq(Range(P)) /\ d \in 0 .. Len(P) /\ P = UpsertsOf(meta, log) /\ Offline
            /\ \A i \in 1 .. Len(P) : Genuine(meta, log, P[i])
            /\ \A i \in 1 .. d : Executed(rows, topicRows, P[i])
            /\ \A i \in 1 .. d : P[i].kind = "topic" =>
                 topicRows[P[i].topic] = [first |-> P[i].first, last |-> P[i].last]
        BY <1>3 DEF PlanOK
      <3>2. done'[p] = d + 1 /\ plan'[p] = P /\ P[d + 1] = u
        BY <2>2 DEF ProjectionInv, Current, Advances
      <3>3. d + 1 \in 0 .. Len(P) /\ \A i \in 1 .. d + 1 : i \in 1 .. d \/ i = d + 1
        BY <3>1
      <3>4. /\ DOMAIN rows \subseteq DOMAIN rows' /\ DOMAIN topicRows \subseteq DOMAIN topicRows'
            /\ \A i \in 1 .. d : P[i].kind = "topic" => topicRows'[P[i].topic] = topicRows[P[i].topic]
        BY <1>2, <3>1 DEF RowsMove
      <3> HIDE DEF u, P, d
      <3>5. \A i \in 1 .. d + 1 : Executed(rows', topicRows', P[i])
        BY <1>2, <3>1, <3>2, <3>3, <3>4 DEF Executed
      <3>6. \A i \in 1 .. d + 1 : P[i].kind = "topic" =>
              topicRows'[P[i].topic] = [first |-> P[i].first, last |-> P[i].last]
        BY <1>2, <3>1, <3>2, <3>3, <3>4
      <3>7. Offline'
        BY <1>4, <2>2, <3>1 DEF Offline
      <3>8. UpsertsOf(meta', log') = P /\ \A i \in 1 .. Len(P) : Genuine(meta', log', P[i])
        BY <1>1, <3>1
      <3> QED BY <3>1, <3>2, <3>3, <3>5, <3>6, <3>7, <3>8 DEF PlanOK
    <2> QED BY <2>1, <2>2 DEF Advances
  <1> QED BY <1>1, <1>2, <1>6, <1>7, <1>8, <1>9 DEF ProjectionInv

LEMMA PostgresProjection ==
  ASSUME ProcsOK, ProjectionInv, NEW p \in Procs, PostgresStep(p)
  PROVE  ProjectionInv'
  <1>1. DirectoryOK /\ PlanOK(p) /\ RunOK(p) /\ UNCHANGED interrupted
    BY DEF ProjectionInv, PostgresStep
  <1>2. ASSUME UNCHANGED dataDir PROVE DirectoryOK' /\ DataMoves /\ UNCHANGED <<meta, log>>
    BY <1>1, <1>2, SameData DEF DirectoryOK, dataDir
  <1>3. faults \in Nat
    BY DEF ProcsOK
  <1>4. ASSUME NEW v, pc' = [pc EXCEPT ![p] = v], v \notin {"opened", "open"},
               faults' \in {faults, faults + 1}
        PROVE  Goes(p, v)
    BY <1>3, <1>4 DEF Goes
  <1>5. ASSUME UNCHANGED dataDir, UNCHANGED projection, faults' \in {faults, faults + 1},
               NEW v, pc' = [pc EXCEPT ![p] = v],
               \/ v \in {"applying", "ready", "migrate", "ended"} /\ pc[p] \in {"idle", "migrate", "applying", "ready"}
               \/ v = "ended" /\ faults' = faults + 1
        PROVE  ProjectionInv'
    <2>1. Goes(p, v)
      BY <1>4, <1>5
    <2>2. v = "ended" => pc[p] \notin {"started", "scanning", "failing"} \/ faults' > 0
      BY <1>3, <1>5
    <2>3. /\ v \notin {"started", "scanning", "failing"}
          /\ v # "ended" => pc[p] \notin {"started", "scanning", "failing", "ended"}
      BY <1>5
    <2> QED BY <1>2, <1>5, <2>1, <2>2, <2>3, QuietStep
  <1>6. CASE LockMigrations(p)
    <2>1. /\ UNCHANGED dataDir /\ UNCHANGED projection /\ faults' = faults /\ pc[p] = "migrate"
          /\ \E v \in {"applying", "ended"} : pc' = [pc EXCEPT ![p] = v]
      BY <1>6 DEF LockMigrations, End
    <2> QED BY <1>5, <2>1
  <1>7. CASE ApplyMigration(p)
    <2>1. UNCHANGED dataDir /\ UNCHANGED projection /\ faults' = faults /\ pc[p] = "applying"
      BY <1>7 DEF ApplyMigration
    <2>2. \E v \in {"applying", "ended"} : pc' = [pc EXCEPT ![p] = v]
      <3>1. pc = [pc EXCEPT ![p] = "applying"]
        BY <2>1 DEF ProcsOK
      <3> QED BY <1>7, <3>1 DEF ApplyMigration, End
    <2> QED BY <1>5, <2>1, <2>2
  <1>8. CASE CommitMigrations(p)
    <2>1. /\ UNCHANGED dataDir /\ UNCHANGED projection /\ faults' = faults /\ pc[p] = "applying"
          /\ \E v \in {"ready", "ended"} : pc' = [pc EXCEPT ![p] = v]
      BY <1>8 DEF CommitMigrations, End
    <2> QED BY <1>5, <2>1
  <1>9. CASE MigrationError(p)
    <2>1. /\ UNCHANGED dataDir /\ UNCHANGED projection /\ faults' = faults + 1
          /\ pc' = [pc EXCEPT ![p] = "ended"]
      BY <1>9 DEF MigrationError, End
    <2> QED BY <1>5, <2>1
  <1>10. CASE StartCommand(p)
    <2>1. /\ UNCHANGED dataDir /\ UNCHANGED projection /\ faults' = faults /\ pc[p] = "idle"
          /\ pc' = [pc EXCEPT ![p] = "migrate"]
      BY <1>10 DEF StartCommand
    <2> QED BY <1>5, <2>1
  <1>11. ASSUME NEW v \in {"started", "failing", "ended"}, pc' = [pc EXCEPT ![p] = v], UNCHANGED dataDir,
                faults' \in {faults, faults + 1}
         PROVE  Rebuilds(p, v)
    <2>1. Goes(p, v)
      BY <1>4, <1>11
    <2> QED BY <1>2, <1>11, <2>1 DEF Rebuilds
  <1>12. CASE StartProjectionRun(p)
    <2>1. /\ UNCHANGED dataDir /\ faults' = faults /\ pc[p] = "ready" /\ pc' = [pc EXCEPT ![p] = "started"]
          /\ UNCHANGED <<rows, topicRows, plan, done>> /\ runs' = InsertOrIgnore(runs, p, "in_progress")
      BY <1>12 DEF StartProjectionRun
    <2>2. Rebuilds(p, "started")
      BY <1>11, <2>1
    <2> QED BY <2>1, <2>2, RunStarted
  <1>13. CASE ReadLog(p)
    <2>1. /\ Offline /\ pc[p] = "started" /\ UNCHANGED <<meta, log, rows, topicRows, runs, done>> /\ faults' = faults
          /\ Reopen
          /\ \/ plan' = [plan EXCEPT ![p] = Upserts] /\ pc' = [pc EXCEPT ![p] = "scanning"]
             \/ UNCHANGED plan /\ pc' = [pc EXCEPT ![p] = "failing"]
      BY <1>13 DEF ReadLog, Fail
    <2>2. DirectoryOK'
      BY <1>1, <2>1, DirectoriesMade
    <2>3. CASE plan' = [plan EXCEPT ![p] = Upserts] /\ pc' = [pc EXCEPT ![p] = "scanning"]
      <3>1. Goes(p, "scanning")
        BY <1>3, <2>1, <2>3 DEF Goes
      <3>2. Rebuilds(p, "scanning")
        BY <2>1, <2>2, <3>1 DEF Rebuilds
      <3> QED BY <2>1, <2>3, <3>2, UpsertsRead, LogRead
    <2>4. CASE UNCHANGED plan /\ pc' = [pc EXCEPT ![p] = "failing"]
      <3>1. Goes(p, "failing")
        BY <1>3, <2>1, <2>4 DEF Goes
      <3>2. Rebuilds(p, "failing")
        BY <2>1, <2>2, <3>1 DEF Rebuilds
      <3>3. Unfinished(p)
        BY <1>1, <2>1 DEF RunOK, Unfinished
      <3> QED BY <2>1, <2>4, <3>2, <3>3, RunGivesUp DEF projection
    <2> QED BY <2>1, <2>3, <2>4
  <1>14. CASE Upsert(p)
    <2>1. /\ pc[p] = "scanning" /\ done[p] < Len(plan[p]) /\ UNCHANGED dataDir /\ faults' = faults
          /\ UNCHANGED <<runs, plan>>
      BY <1>14 DEF Upsert
    <2>2. CASE OutOfRange(Current(p)) \/ Conflicts(Current(p))
      <3>1. pc' = [pc EXCEPT ![p] = "failing"] /\ UNCHANGED projection
        BY <1>14, <2>2 DEF Upsert, Fail, projection
      <3>2. Rebuilds(p, "failing")
        BY <1>11, <2>1, <3>1
      <3> QED BY <2>1, <3>1, <3>2, RunGivesUp DEF Unfinished
    <2>3. CASE ~OutOfRange(Current(p)) /\ ~Conflicts(Current(p))
      <3>1. Execute(Current(p)) /\ done' = [done EXCEPT ![p] = done[p] + 1] /\ pc' = pc
        BY <1>14, <2>3 DEF Upsert
      <3>2. Goes(p, "scanning")
        BY <1>3, <2>1, <3>1 DEF Goes, ProcsOK
      <3>3. Rebuilds(p, "scanning")
        BY <1>2, <2>1, <3>2 DEF Rebuilds
      <3>4. Advances(p, "scanning")
        BY <3>1 DEF Advances
      <3> QED BY <2>1, <3>1, <3>3, <3>4, RebuildAdvances
    <2> QED BY <2>2, <2>3
  <1>15. CASE CompleteProjectionRun(p)
    <2>1. /\ pc[p] = "scanning" /\ done[p] = Len(plan[p]) /\ runs' = [runs EXCEPT ![p] = "success"]
          /\ pc' = [pc EXCEPT ![p] = "ended"] /\ UNCHANGED <<rows, topicRows, plan, done>>
          /\ UNCHANGED dataDir /\ faults' = faults
      BY <1>15 DEF CompleteProjectionRun, End
    <2>2. Rebuilds(p, "ended") /\ Outcome(p, "success")
      BY <1>11, <2>1 DEF Outcome
    <2> QED BY <2>1, <2>2, RunFinished
  <1>16. CASE FailProjectionRun(p)
    <2>1. /\ pc[p] = "failing" /\ runs' = [runs EXCEPT ![p] = "error"]
          /\ pc' = [pc EXCEPT ![p] = "ended"] /\ UNCHANGED <<rows, topicRows, plan, done>>
          /\ UNCHANGED dataDir /\ faults' = faults
      BY <1>16 DEF FailProjectionRun
    <2>2. Rebuilds(p, "ended") /\ Outcome(p, "error")
      BY <1>1, <1>11, <2>1 DEF RunOK, Outcome
    <2> QED BY <2>1, <2>2, RunFinished
  <1>17. CASE StatementError(p)
    <2>1. faults' = faults + 1 /\ UNCHANGED dataDir /\ UNCHANGED plan /\ UNCHANGED done
      BY <1>17 DEF StatementError, projection
    <2>2. CASE pc[p] = "scanning" /\ done[p] < Len(plan[p])
      <3>1. /\ pc' = [pc EXCEPT ![p] = "failing"] /\ UNCHANGED runs
            /\ UNCHANGED <<rows, topicRows>> \/ Execute(Current(p))
        BY <1>1, <1>17, <2>2 DEF StatementError, Fail, PlanOK
      <3>2. Rebuilds(p, "failing")
        BY <1>11, <2>1, <3>1
      <3>3. CASE UNCHANGED <<rows, topicRows>>
        <4>1. UNCHANGED projection /\ Unfinished(p)
          BY <2>1, <2>2, <3>1, <3>3 DEF projection, Unfinished
        <4> QED BY <2>2, <3>2, <4>1, RunGivesUp
      <3>4. CASE Execute(Current(p))
        <4>1. Advances(p, "failing")
          BY <2>1 DEF Advances
        <4> QED BY <2>1, <2>2, <3>1, <3>2, <3>4, <4>1, RebuildAdvances
      <3> QED BY <3>1, <3>3, <3>4
    <2>3. CASE pc[p] = "scanning" /\ done[p] = Len(plan[p])
      <3>1. /\ pc' = [pc EXCEPT ![p] = "ended"] /\ UNCHANGED <<rows, topicRows>>
            /\ UNCHANGED runs \/ runs' = [runs EXCEPT ![p] = "success"]
        BY <1>1, <1>17, <2>3 DEF StatementError, End, PlanOK
      <3>2. CASE UNCHANGED runs
        <4>1. UNCHANGED projection
          BY <2>1, <3>1, <3>2 DEF projection
        <4> QED BY <1>5, <2>1, <3>1, <4>1
      <3>3. CASE runs' = [runs EXCEPT ![p] = "success"]
        <4>1. Rebuilds(p, "ended") /\ Outcome(p, "success")
          BY <1>11, <2>1, <2>3, <3>1 DEF Outcome
        <4> QED BY <2>1, <2>3, <3>1, <3>3, <4>1, RunFinished
      <3> QED BY <3>1, <3>2, <3>3
    <2>4. CASE pc[p] = "failing"
      <3>1. pc' = [pc EXCEPT ![p] = "ended"] /\ UNCHANGED projection
        BY <1>17, <2>4 DEF StatementError
      <3> QED BY <1>5, <2>1, <3>1
    <2>5. CASE pc[p] = "ready"
      <3>1. /\ pc' = [pc EXCEPT ![p] = "ended"] /\ UNCHANGED <<rows, topicRows>>
            /\ UNCHANGED runs \/ runs' = InsertOrIgnore(runs, p, "in_progress")
        BY <1>17, <2>5 DEF StatementError, End
      <3>2. CASE UNCHANGED runs
        <4>1. UNCHANGED projection
          BY <2>1, <3>1, <3>2 DEF projection
        <4> QED BY <1>5, <2>1, <3>1, <4>1
      <3>3. CASE runs' = InsertOrIgnore(runs, p, "in_progress")
        <4>1. Rebuilds(p, "ended") /\ faults' > 0
          BY <1>3, <1>11, <2>1, <3>1
        <4> QED BY <2>1, <2>5, <3>1, <3>3, <4>1, RunStarted
      <3> QED BY <3>1, <3>2, <3>3
    <2>6. CASE pc[p] = "started"
      <3>1. pc' = [pc EXCEPT ![p] = "failing"] /\ UNCHANGED projection
        BY <1>17, <2>6 DEF StatementError, Fail
      <3>2. Rebuilds(p, "failing")
        BY <1>11, <2>1, <3>1
      <3>3. Unfinished(p)
        BY <1>1, <2>6 DEF RunOK, Unfinished
      <3> QED BY <2>6, <3>1, <3>2, <3>3, RunGivesUp
    <2> QED BY <1>17, <2>2, <2>3, <2>4, <2>5, <2>6 DEF StatementError
  <1> QED BY <1>6, <1>7, <1>8, <1>9, <1>10, <1>12, <1>13, <1>14, <1>15, <1>16, <1>17 DEF PostgresStep

-----------------------------------------------------------------------------
(* The causes of a refusal.                                                *)

\* What justifies an end goes on to justify it: no message and no half-made topic
\* disappears, a log that does not open stays so, and faults are only counted.
LEMMA CausesGrown ==
  ASSUME NEW M, NEW G, NEW N, NEW H, DataGrown(M, G, N, H),
         NEW I, NEW J, I # {} => J # {}, NEW D, NEW E, D => E, NEW m \in Nat, NEW n \in Nat, m <= n,
         NEW why, Justified(why, G, I, D, m)
  PROVE  Justified(why, H, J, E, n)
  <1>1. ASSUME Repeated(G) PROVE Repeated(H)
    <2>1. PICK x \in Locations(G), y \in Locations(G) : x # y /\ x[1] = y[1] /\ RowsOf(G)[x] = RowsOf(G)[y]
      BY <1>1 DEF Repeated
    <2>2. x \in Locations(H) /\ y \in Locations(H) /\ RowsOf(H)[x] = RowsOf(H)[y]
      BY <2>1 DEF DataGrown
    <2> QED BY <2>1, <2>2 DEF Repeated
  <1>2. TooLate(G) => TooLate(H)
    BY DEF TooLate, DataGrown
  <1>3. m > 0 => n > 0
    OBVIOUS
  <1> QED BY <1>1, <1>2, <1>3 DEF Justified

\* A step in which every process keeps its reason or ends for a cause.
LEMMA CausesKept ==
  ASSUME ProcsOK, CauseInv, DataMoves, interrupted # {} => interrupted' # {}, damaged => damaged',
         faults' \in Nat, faults' >= faults,
         \A q \in Procs : reason'[q] = reason[q] \/ Justified(reason'[q], log', interrupted', damaged', faults')
  PROVE  CauseInv'
  <1>1. faults \in Nat /\ faults <= faults'
    BY DEF ProcsOK
  <1>2. ASSUME NEW q \in Procs, reason'[q] = reason[q]
        PROVE  Justified(reason'[q], log', interrupted', damaged', faults')
    <2>1. Justified(reason[q], log, interrupted, damaged, faults)
      BY DEF CauseInv
    <2>2. Justified(reason[q], log', interrupted', damaged', faults')
      BY <1>1, <2>1, CausesGrown DEF DataMoves
    <2> QED BY <1>2, <2>2
  <1> QED BY <1>2 DEF CauseInv

LEMMA ServerCauses ==
  ASSUME ProcsOK, ProjectionInv, CauseInv, NEW p \in Procs, ServerStep(p)
  PROVE  CauseInv'
  <1>1. PICK v : ServerMove(p, v)
    BY ServerMoves
  <1>2. DataMoves /\ (interrupted # {} => interrupted' # {})
    BY ServerData DEF ProjectionInv
  <1>3. damaged => damaged'
    BY DEF ServerStep, BindHttp, BindGrpc, BuildSearch, OpenState, OpenFirst, OpenBroker, BindLast, Damage, Signal,
       Joined, Killed, Stop, BorrowAndUpdate, Changed, Drained, CreateTopic, CreateTopicFails, Publish, dataDir
  <1>4. ASSUME NEW q \in Procs
        PROVE  reason'[q] = reason[q] \/ Justified(reason'[q], log', interrupted', damaged', faults')
    <2>1. \/ reason'[q] = reason[q]
          \/ reason'[q] \in {"ok", "bind"}
          \/ reason'[q] = "fault" /\ faults' > 0
          \/ reason'[q] = "damaged" /\ damaged
      BY <1>1 DEF ServerMove, ProcsOK
    <2> QED BY <1>3, <2>1 DEF Justified
  <1>5. faults' \in Nat /\ faults' >= faults
    BY <1>1 DEF ServerMove
  <1> QED BY <1>2, <1>3, <1>4, <1>5, CausesKept

LEMMA PostgresCauses ==
  ASSUME ProcsOK, ProjectionInv, CauseInv, NEW p \in Procs, PostgresStep(p)
  PROVE  CauseInv'
  <1>1. UNCHANGED <<meta, log, interrupted, damaged>>
    BY DEF PostgresStep, LockMigrations, ApplyMigration, CommitMigrations, MigrationError, StartCommand,
       StartProjectionRun, ReadLog, Upsert, CompleteProjectionRun, FailProjectionRun, StatementError, dataDir
  <1>2. DataMoves /\ faults' \in Nat /\ faults' >= faults
    BY <1>1, SameData, PostgresMoves
  <1>3. ASSUME \A q \in Procs : \/ reason'[q] \in {reason[q], "ok", "duplicate", "inconsistent"}
                                \/ reason'[q] = "conflict" /\ Repeated(log)
                                \/ reason'[q] = "range" /\ TooLate(log)
                                \/ reason'[q] = "layout" /\ interrupted # {}
                                \/ reason'[q] = "damaged" /\ damaged
                                \/ reason'[q] = "fault" /\ faults' > 0
        PROVE  CauseInv'
    <2>1. \A q \in Procs : reason'[q] = reason[q] \/ Justified(reason'[q], log', interrupted', damaged', faults')
      BY <1>1, <1>3 DEF Justified
    <2> QED BY <1>1, <1>2, <2>1, CausesKept
  <1>4. CASE ReadLog(p)
    <2>1. DirectoryOK'
      <3>1. Reopen /\ UNCHANGED <<meta, log>>
        BY <1>4 DEF ReadLog
      <3> QED BY <1>1, <3>1, DirectoriesMade DEF ProjectionInv
    <2>2. ~LayoutValid(dirs') => interrupted # {}
      BY <1>1, <2>1 DEF LayoutValid, DirectoryOK
    <2>3. \A q \in Procs : \/ reason'[q] = reason[q]
                           \/ reason'[q] = "layout" /\ ~LayoutValid(dirs')
                           \/ reason'[q] = "damaged" /\ damaged
      BY <1>4 DEF ReadLog, Fail, ProcsOK
    <2> QED BY <1>3, <2>2, <2>3
  <1>5. CASE Upsert(p)
    <2> DEFINE u == Current(p)
    <2>1. Genuine(meta, log, u)
      <3>1. /\ done[p] \in 0 .. Len(plan[p]) /\ plan[p] \in Seq(Range(plan[p]))
            /\ \A i \in 1 .. Len(plan[p]) : Genuine(meta, log, plan[p][i])
        BY DEF ProjectionInv, PlanOK
      <3>2. done[p] + 1 \in 1 .. Len(plan[p])
        BY <1>5, <3>1 DEF Upsert
      <3> QED BY <3>1, <3>2 DEF Current
    <2>2. \A q \in Procs : \/ reason'[q] = reason[q]
                           \/ reason'[q] = "conflict" /\ Conflicts(u)
                           \/ reason'[q] = "range" /\ OutOfRange(u)
      BY <1>5 DEF Upsert, Fail, ProcsOK
    <2> HIDE DEF u
    <2>3. u.kind = "message" => u.location \in Locations(log) /\ RowsOf(log)[u.location] = u.id
      BY <2>1 DEF Genuine
    <2>4. ASSUME Conflicts(u) PROVE Repeated(log)
      <3>1. /\ u.kind = "message" /\ u.location \notin DOMAIN rows
            /\ \E x \in DOMAIN rows : x[1] = u.location[1] /\ rows[x] = u.id
        BY <2>4 DEF Conflicts
      <3>2. PICK x \in DOMAIN rows : x[1] = u.location[1] /\ rows[x] = u.id
        BY <3>1
      <3>3. x \in Locations(log) /\ RowsOf(log)[x] = u.id
        BY <3>2 DEF ProjectionInv, RowsOK
      <3>4. x # u.location
        BY <3>1, <3>2
      <3> QED BY <2>3, <3>1, <3>2, <3>3, <3>4 DEF Repeated
    <2>5. OutOfRange(u) => TooLate(log)
      BY <2>3 DEF OutOfRange, TooLate
    <2> QED BY <1>3, <2>2, <2>4, <2>5
  <1>6. CASE ~ReadLog(p) /\ ~Upsert(p)
    <2>1. \A q \in Procs : \/ reason'[q] \in {reason[q], "ok", "duplicate", "inconsistent"}
                           \/ reason'[q] = "fault" /\ faults' = faults + 1
      BY <1>6 DEF PostgresStep, LockMigrations, ApplyMigration, CommitMigrations, MigrationError, StartCommand,
         StartProjectionRun, CompleteProjectionRun, FailProjectionRun, StatementError, End, Fail, ProcsOK
    <2>2. faults + 1 > 0
      BY DEF ProcsOK
    <2> QED BY <1>3, <2>1, <2>2
  <1> QED BY <1>4, <1>5, <1>6

-----------------------------------------------------------------------------
(* The invariant holds.                                                    *)

LEMMA InitRInv ==
  ASSUME Init
  PROVE  RInv
  <1> USE DEF Init, PostgresInit
  <1>1. ProcsOK
    BY DEF ProcsOK, PcValues, Reasons
  <1>2. AddressInv
    <2>1. AddressesOK
      BY DEF AddressesOK, Off, SideValues
    <2>2. \A p \in Procs : BoundOK(p)
      BY DEF BoundOK, Off, Holding
    <2>3. \A p, q \in Procs : AloneOK(p, q)
      BY DEF AloneOK, Holding
    <2> QED BY <2>1, <2>2, <2>3 DEF AddressInv
  <1>3. MigrationInv
    BY DEF MigrationInv, Beginning
  <1>4. ProjectionInv
    <2>1. DirectoryOK
      <3>1. PICK d \in Deployments : meta = d.meta /\ dirs = d.meta /\ log = d.log
        OBVIOUS
      <3>2. /\ meta \in [Topics -> PartitionCounts \cup {0}] /\ log \in Logs
            /\ \A t \in Topics : \A k \in Parts : k >= meta[t] => log[t][k] = << >>
        BY <3>1, PostgresAssumption DEF Topics, Logs, Parts
      <3>3. dirs = meta /\ \A n \in PartitionCounts \cup {0} : n \in Nat
        BY <3>1, CountFacts
      <3>4. dirs \in [Topics -> Nat]
        BY <3>2, <3>3
      <3> QED BY <3>2, <3>3, <3>4 DEF DirectoryOK
    <2>2. \A p \in Procs : PlanOK(p)
      <3>1. << >> \in Seq(Range(<< >>)) /\ 0 \in 0 .. Len(<< >>) /\ Len(<< >>) = 0 /\ \A i \in 1 .. 0 : FALSE
        OBVIOUS
      <3> QED BY <3>1 DEF PlanOK
    <2>3. \A p \in Procs : RunOK(p)
      BY DEF RunOK
    <2>4. RowsOK
      BY DEF RowsOK
    <2> QED BY <2>1, <2>2, <2>3, <2>4 DEF ProjectionInv
  <1>5. CauseInv
    BY DEF CauseInv, Justified
  <1> QED BY <1>1, <1>2, <1>3, <1>4, <1>5 DEF RInv

LEMMA NextRInv ==
  ASSUME RInv, [Next]_vars
  PROVE  RInv'
  <1>1. CASE Next
    <2>1. PICK p \in Procs : PostgresStep(p) \/ ServerStep(p)
      BY <1>1 DEF Next
    <2>2. UNCHANGED command
      BY <1>1 DEF Next
    <2>3. ProcsOK /\ AddressInv /\ MigrationInv /\ ProjectionInv /\ CauseInv
      BY DEF RInv
    <2>4. ProcsOK'
      BY <2>1, <2>2, <2>3, ProcsStep
    <2>5. AddressInv'
      BY <2>1, <2>2, <2>3, PostgresAddresses, ServerAddresses
    <2>6. MigrationInv'
      BY <2>1, <2>3, MigrationSteps, ServerMigrations
    <2>7. ProjectionInv'
      BY <2>1, <2>3, PostgresProjection, ServerProjection
    <2>8. CauseInv'
      BY <2>1, <2>3, PostgresCauses, ServerCauses
    <2> QED BY <2>4, <2>5, <2>6, <2>7, <2>8 DEF RInv
  <1>2. CASE UNCHANGED vars
    <2>1. UNCHANGED <<command, pc, reason, applied, lock, tx, rows, topicRows, runs, plan, done, meta, dirs, log,
                      damaged, faults, ports, side, interrupted>>
      BY <1>2 DEF vars, database, projection, dataDir, runtimeVars
    <2>2. ProcsOK' /\ AddressInv' /\ MigrationInv' /\ CauseInv'
      BY <2>1 DEF RInv, ProcsOK, AddressInv, AddressesOK, BoundOK, AloneOK, MigrationInv, CauseInv
    <2>3. ProjectionInv'
      BY <2>1 DEF RInv, ProjectionInv, DirectoryOK, RowsOK, PlanOK, Offline, RunOK, Unfinished
    <2> QED BY <2>2, <2>3 DEF RInv
  <1> QED BY <1>1, <1>2

\* The processes stay within the invariant of the addresses, the migrations, the rows
\* and the causes of refusals, whatever the deployment and however they interleave,
\* fail and die.
THEOREM Invariance == Spec => []RInv
  <1>1. Init => RInv
    BY InitRInv
  <1>2. RInv /\ [Next]_vars => RInv'
    BY NextRInv
  <1> QED BY <1>1, <1>2, PTL DEF Spec

\* Of any number of serve-all processes at the same addresses that have the data
\* directory open, all but one have stopped to accept requests at both: a process binds
\* both sockets before it opens its state, and gives one up only when it drains.
THEOREM OpenedAloneTheorem == Spec => []OpenedAlone
  <1>1. RInv => OpenedAlone
    <2> SUFFICES ASSUME RInv, NEW p \in Procs, NEW q \in Procs, p # q,
                        command[p] = "serve_all", command[q] = "serve_all",
                        pc[p] \in {"opened", "open"}, pc[q] \in {"opened", "open"}
                 PROVE  \E r \in {p, q} : \A s \in Sides : side[r][s] \in {"draining", "done"}
      BY DEF OpenedAlone
    <2>1. AloneOK(p, q) /\ BoundOK(p) /\ BoundOK(q) /\ side \in [Procs -> [Sides -> SideValues]]
      BY DEF RInv, AddressInv, AddressesOK
    <2>2. pc[p] = "open" /\ pc[q] = "open"
      BY <2>1 DEF BoundOK
    <2>3. PICK r \in {p, q} : \A s \in Sides : ports[s] # r
      BY <2>1, <2>2 DEF AloneOK, Holding
    <2>4. \A s \in Sides : side[r][s] \notin Accepting /\ side[r][s] # "off" /\ side[r][s] \in SideValues
      BY <2>1, <2>2, <2>3 DEF BoundOK
    <2> QED BY <2>4 DEF Accepting, SideValues
  <1> QED BY <1>1, Invariance, PTL

\* The messages of the log as rows.
LEMMA MessageRowsOf == MessageRows = RowsOf(log)
  BY DEF MessageRows, RowsOf, Locations

\* Processes that migrate and rebuild at the same time, any number of them, are not in
\* each other's way: run_migrations never meets a version that another one applied, and
\* a rebuild that no fault of the database or the disk stops fails only for what is in
\* the data directory: an id twice, a time out of range, a topic half made, a log that
\* the broker cannot open.
THEOREM RefusedTheorem == Spec => []RefusedOnlyForCause
  <1>1. RInv => RefusedOnlyForCause
    <2>1. ASSUME RInv, NEW p \in Procs
          PROVE  /\ reason[p] \in {"none", "ok", "fault", "bind", "conflict", "range", "layout", "damaged"}
                 /\ Justified(reason[p], log, interrupted, damaged, faults)
      <3>1. reason[p] \in Reasons /\ reason[p] \notin {"duplicate", "inconsistent"}
        BY <2>1 DEF RInv, ProcsOK, MigrationInv
      <3> QED BY <2>1, <3>1 DEF RInv, CauseInv, Reasons
    <2>2. DOMAIN RowsOf(log) = Locations(log)
      BY DEF RowsOf
    <2>3. /\ Repeated(log) => \E x, y \in DOMAIN MessageRows :
                                x # y /\ x[1] = y[1] /\ MessageRows[x] = MessageRows[y]
          /\ TooLate(log) => \E x \in DOMAIN MessageRows : TimeOf[MessageRows[x]] > MaxTime
      BY <2>2, MessageRowsOf DEF Repeated, TooLate
    <2> QED BY <2>1, <2>3 DEF RefusedOnlyForCause, Justified
  <1> QED BY <1>1, Invariance, PTL

\* A topic with a message was created, and so was the partition the message is in.
LEMMA CreatedBefore ==
  ASSUME DirectoryOK, NEW t \in Topics, NEW k \in Parts, Len(log[t][k]) > 0
  PROVE  k < meta[t] /\ meta[t] > 0
  <1>1. k \in Nat /\ meta[t] \in Nat
    BY CountFacts DEF Parts, DirectoryOK
  <1>2. log[t][k] # << >>
    OBVIOUS
  <1>3. ~(k >= meta[t])
    BY <1>2 DEF DirectoryOK
  <1> QED BY <1>1, <1>3

\* A complete rebuild of a log that has not grown since.
LEMMA CompleteRebuild ==
  ASSUME DirectoryOK, RowsOK, NEW p \in Procs, PlanOK(p), done[p] = Len(plan[p]), plan[p] = UpsertsOf(meta, log)
  PROVE  /\ rows = RowsOf(log)
         /\ DOMAIN topicRows = { t \in Topics : meta[t] > 0 }
         /\ \A t \in Topics : TimesIn(log, t) # {} =>
              topicRows[t] = [first |-> Min(TimesIn(log, t)), last |-> Max(TimesIn(log, t))]
  <1> DEFINE U == UpsertsOf(meta, log)
  <1>1. UpsertFacts(meta, log, U)
    <2>1. meta \in Counts /\ log \in Logs
      BY DEF DirectoryOK, Counts
    <2> QED BY <2>1, UpsertsFacts
  <1>2. /\ U \in Seq(Range(U)) /\ \A i \in 1 .. Len(U) : Executed(rows, topicRows, U[i])
        /\ \A i \in 1 .. Len(U) : U[i].kind = "topic" =>
             topicRows[U[i].topic] = [first |-> U[i].first, last |-> U[i].last]
    BY DEF PlanOK
  <1> HIDE DEF U
  <1>3. ASSUME NEW u \in Range(U)
        PROVE  /\ Executed(rows, topicRows, u)
               /\ u.kind = "topic" => topicRows[u.topic] = [first |-> u.first, last |-> u.last]
    <2>1. PICK i \in 1 .. Len(U) : U[i] = u
      BY <1>2 DEF Range
    <2> QED BY <1>2, <2>1
  <1>4. ASSUME NEW x \in Locations(log) PROVE x \in DOMAIN rows
    <2>1. PICK t \in Topics, k \in Parts : \E o \in 0 .. Len(log[t][k]) - 1 : x = <<t, k, o>>
      BY LocationsFacts
    <2>2. PICK o \in 0 .. Len(log[t][k]) - 1 : x = <<t, k, o>>
      BY <2>1
    <2>3. Len(log[t][k]) > 0
      <3>1. Len(log[t][k]) \in Nat
        BY DEF DirectoryOK, Logs
      <3> QED BY <3>1
    <2>4. meta[x[1]] > x[2]
      <3>1. k \in Nat /\ meta[t] \in Nat
        BY CountFacts DEF Parts, DirectoryOK
      <3>2. x[1] = t /\ x[2] = k
        BY <2>2
      <3> QED BY <2>3, <3>1, <3>2, CreatedBefore
    <2>5. PICK u \in Range(U) : u.kind = "message" /\ u.location = x
      BY <1>1, <2>4 DEF UpsertFacts
    <2> QED BY <1>3, <2>5 DEF Executed
  <1>5. rows = RowsOf(log)
    <2>1. DOMAIN rows = Locations(log)
      BY <1>4 DEF RowsOK
    <2>2. rows = [x \in DOMAIN rows |-> rows[x]] /\ \A x \in DOMAIN rows : rows[x] = RowsOf(log)[x]
      BY DEF RowsOK
    <2>3. RowsOf(log) = [x \in Locations(log) |-> RowsOf(log)[x]]
      BY DEF RowsOf
    <2> QED BY <2>1, <2>2, <2>3
  <1>6. ASSUME NEW t \in Topics, meta[t] > 0
        PROVE  /\ t \in DOMAIN topicRows
               /\ TimesIn(log, t) # {} =>
                    topicRows[t] = [first |-> Min(TimesIn(log, t)), last |-> Max(TimesIn(log, t))]
    <2> DEFINE u == TopicUpsertOf(log, t)
    <2>1. u \in Range(U)
      BY <1>1, <1>6 DEF UpsertFacts
    <2>2. u.kind \in {"topic", "empty_topic"} /\ u.topic = t
      BY DEF TopicUpsertOf
    <2>3. TimesIn(log, t) # {} => /\ u.kind = "topic" /\ u.first = Min(TimesIn(log, t))
                                  /\ u.last = Max(TimesIn(log, t))
      BY DEF TopicUpsertOf
    <2> HIDE DEF u
    <2> QED BY <1>3, <2>1, <2>2, <2>3 DEF Executed
  <1>7. DOMAIN topicRows = { t \in Topics : meta[t] > 0 }
    BY <1>6 DEF RowsOK
  <1>8. ASSUME NEW t \in Topics, TimesIn(log, t) # {} PROVE meta[t] > 0
    <2>1. PICK id \in UNION { Range(log[t][k]) : k \in DOMAIN log[t] } : TRUE
      BY <1>8 DEF TimesIn
    <2>2. DOMAIN log[t] = Parts
      BY DEF DirectoryOK, Logs
    <2>3. PICK k \in Parts : id \in Range(log[t][k])
      BY <2>1, <2>2
    <2>4. log[t][k] \in Seq(MessageIds)
      BY DEF DirectoryOK, Logs
    <2>5. Len(log[t][k]) > 0
      BY <2>3, <2>4 DEF Range
    <2> QED BY <2>5, CreatedBefore
  <1> QED BY <1>5, <1>6, <1>7, <1>8

\* The record of a projection run tells the truth about the rows, for rebuilds side by
\* side, cut short at any statement and repeated, and a log of any size.
THEOREM RunRecordTheorem == Spec => []RunRecordTruthful
  <1>1. RInv => RunRecordTruthful
    <2> SUFFICES ASSUME RInv PROVE RunRecordTruthful
      OBVIOUS
    <2>1. DirectoryOK /\ RowsOK /\ DOMAIN runs \subseteq Procs /\ \A p \in Procs : PlanOK(p) /\ RunOK(p)
      BY DEF RInv, ProjectionInv
    <2>2. DOMAIN RowsOf(log) = Locations(log)
      BY DEF RowsOf
    <2>3. DOMAIN rows \subseteq DOMAIN MessageRows /\ \A x \in DOMAIN rows : rows[x] = MessageRows[x]
      BY <2>1, <2>2, MessageRowsOf DEF RowsOK
    <2>4. ASSUME NEW p \in DOMAIN runs, runs[p] = "success"
          PROVE  /\ \A i \in DOMAIN plan[p] :
                      plan[p][i].kind = "message" => plan[p][i].location \in DOMAIN rows
                 /\ plan[p] = Upserts =>
                      /\ rows = MessageRows
                      /\ DOMAIN topicRows = { t \in Topics : meta[t] > 0 }
                      /\ \A t \in Topics : TimesOf(t) # {} =>
                           topicRows[t] = [first |-> Min(TimesOf(t)), last |-> Max(TimesOf(t))]
      <3>1. p \in Procs /\ PlanOK(p) /\ done[p] = Len(plan[p])
        BY <2>1, <2>4 DEF RunOK
      <3>2. \A i \in DOMAIN plan[p] : plan[p][i].kind = "message" => plan[p][i].location \in DOMAIN rows
        BY <3>1 DEF PlanOK, Executed
      <3>3. \A t : TimesOf(t) = TimesIn(log, t)
        BY DEF TimesOf, TimesIn
      <3> QED BY <2>1, <3>1, <3>2, <3>3, CompleteRebuild, UpsertsRead, MessageRowsOf
    <2>5. ASSUME NEW p \in DOMAIN runs
          PROVE  /\ runs[p] = "error" => done[p] < Len(plan[p]) \/ plan[p] = << >>
                 /\ runs[p] = "in_progress" /\ pc[p] = "ended" => faults > 0
      BY <2>1 DEF RunOK, Unfinished
    <2> QED BY <2>3, <2>4, <2>5 DEF RunRecordTruthful
  <1> QED BY <1>1, Invariance, PTL

=============================================================================
