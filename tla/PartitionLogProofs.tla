------------------------- MODULE PartitionLogProofs --------------------------
(***************************************************************************)
(* The storage engine, for every number and size of messages and segments. *)
(* As long as a rollback does not fail, the segmented log is an AppendLog: *)
(* what was acknowledged stays readable, the metadata describes the files, *)
(* and whatever a crash or a failed append leaves behind can be reopened.  *)
(* When rollbacks fail as well, a log is refused only for debris that has  *)
(* something written behind it.                                            *)
(* The inductions over sequences take a least counterexample.              *)
(***************************************************************************)
EXTENDS PartitionLog, SequenceTheorems, NaturalsInduction, WellFoundedInduction, TLAPS

-----------------------------------------------------------------------------
(* The two accumulations: bytes of frames, messages of files.              *)

\* A set of naturals that contains 0 and the successor of each of its elements
\* contains them all.
LEMMA NatClosure ==
  ASSUME NEW S, 0 \in S, \A n \in Nat : n \in S => n + 1 \in S
  PROVE  \A n \in Nat : n \in S
  <1> DEFINE T == Nat \ S
  <1> SUFFICES ASSUME T # {} PROVE FALSE
    OBVIOUS
  <1>1. \E n \in T : \A m \in T : ~(<<m, n>> \in OpToRel(<, Nat))
    BY NatLessThanWellFounded, WFMin
  <1>2. PICK n \in T : \A m \in T : ~(<<m, n>> \in OpToRel(<, Nat))
    BY <1>1
  <1>3. n # 0 /\ n \in Nat /\ n - 1 \in Nat /\ (n - 1) + 1 = n
    OBVIOUS
  <1>4. <<n - 1, n>> \in OpToRel(<, Nat)
    BY <1>3 DEF OpToRel
  <1>5. n - 1 \in S
    BY <1>2, <1>3, <1>4
  <1>6. (n - 1) + 1 \in S
    BY <1>3, <1>5
  <1> QED BY <1>3, <1>6

\* f accumulates SizeOf over the first n elements of s.
SizeTrace(f, s, n) == f = [i \in 0 .. n |-> IF i = 0 THEN 0 ELSE f[i - 1] + Bytes(s[i])]

\* Two accumulations agree as far as both go.
LEMMA SizeTraceUnique ==
  ASSUME NEW s, NEW u, NEW m \in Nat, NEW n \in Nat, m <= n, \A i \in 1 .. m : s[i] = u[i],
         NEW f, SizeTrace(f, s, m), NEW g, SizeTrace(g, u, n)
  PROVE  \A i \in 0 .. m : f[i] = g[i]
  <1> DEFINE S == { i \in Nat : i <= m => f[i] = g[i] }
  <1>1. 0 \in S
    BY DEF SizeTrace
  <1>2. ASSUME NEW i \in Nat, i \in S PROVE i + 1 \in S
    <2>1. CASE i + 1 <= m
      <3>1. f[i + 1] = f[(i + 1) - 1] + Bytes(s[i + 1])
        BY <2>1 DEF SizeTrace
      <3>2. g[i + 1] = g[(i + 1) - 1] + Bytes(u[i + 1])
        BY <2>1 DEF SizeTrace
      <3>3. (i + 1) - 1 = i /\ f[i] = g[i] /\ s[i + 1] = u[i + 1]
        BY <1>2, <2>1
      <3>4. f[i + 1] = g[i + 1]
        BY <3>1, <3>2, <3>3, Zenon
      <3> QED BY <3>4
    <2> QED BY <2>1
  <1> HIDE DEF S
  <1>3. \A i \in Nat : i \in S
    BY <1>1, <1>2, NatClosure
  <1> QED BY <1>3 DEF S

\* There is an accumulation of every length.
LEMMA SizeTraceExists ==
  ASSUME NEW s
  PROVE  \A n \in Nat : \E f : SizeTrace(f, s, n)
  <1> DEFINE S == { n \in Nat : \E f : SizeTrace(f, s, n) }
  <1>1. 0 \in S
    <2> DEFINE f == [i \in 0 .. 0 |-> 0]
    <2>1. \A i \in 0 .. 0 : i = 0
      OBVIOUS
    <2>2. SizeTrace(f, s, 0)
      BY <2>1 DEF SizeTrace
    <2> QED BY <2>2
  <1>2. ASSUME NEW n \in Nat, n \in S PROVE n + 1 \in S
    <2>1. PICK f : SizeTrace(f, s, n)
      BY <1>2
    <2> DEFINE g == [i \in 0 .. n + 1 |-> IF i = n + 1 THEN f[n] + Bytes(s[n + 1]) ELSE f[i]]
    <2>2. \A i \in 0 .. n : g[i] = f[i]
      OBVIOUS
    <2>3. \A i \in 0 .. n : f[i] = IF i = 0 THEN 0 ELSE f[i - 1] + Bytes(s[i])
      BY <2>1 DEF SizeTrace
    <2>4. \A i \in 0 .. n + 1 : g[i] = IF i = 0 THEN 0 ELSE g[i - 1] + Bytes(s[i])
      <3> SUFFICES ASSUME NEW i \in 0 .. n + 1
                   PROVE  g[i] = IF i = 0 THEN 0 ELSE g[i - 1] + Bytes(s[i])
        OBVIOUS
      <3>1. CASE i = n + 1
        <4>1. i - 1 = n /\ g[n] = f[n] /\ i # 0
          BY <2>2, <3>1
        <4> QED BY <3>1, <4>1
      <3>2. CASE i # n + 1
        <4>1. i \in 0 .. n /\ (i # 0 => i - 1 \in 0 .. n)
          BY <3>2
        <4> HIDE DEF g
        <4> QED BY <2>2, <2>3, <4>1
      <3> QED BY <3>1, <3>2
    <2>5. SizeTrace(g, s, n + 1)
      BY <2>4 DEF SizeTrace
    <2> HIDE DEF g
    <2> QED BY <2>5
  <1> HIDE DEF S
  <1>3. \A n \in Nat : n \in S
    BY <1>1, <1>2, NatClosure
  <1> QED BY <1>3 DEF S

\* SizeOf is the end of the accumulation.
LEMMA SizeTraceEnd ==
  ASSUME NEW s, Len(s) \in Nat, NEW f, SizeTrace(f, s, Len(s))
  PROVE  SizeOf(s) = f[Len(s)]
  <1> DEFINE g == CHOOSE h : h = [i \in 0 .. Len(s) |->
                                    IF i = 0 THEN 0 ELSE h[i - 1] + Bytes(s[i])]
  <1>1. SizeOf(s) = g[Len(s)]
    BY DEF SizeOf
  <1>2. SizeTrace(g, s, Len(s))
    BY DEF SizeTrace
  <1> HIDE DEF g
  <1>3. f[Len(s)] = g[Len(s)]
    BY <1>2, SizeTraceUnique
  <1> QED BY <1>1, <1>3

\* SizeOf of one frame more.
LEMMA SizeAppend ==
  /\ SizeOf(<< >>) = 0
  /\ \A S : \A s \in Seq(S) : \A x : SizeOf(Append(s, x)) = SizeOf(s) + Bytes(x)
  <1>1. SizeOf(<< >>) = 0
    <2>1. PICK f : SizeTrace(f, << >>, 0)
      BY SizeTraceExists
    <2>2. f[0] = 0 /\ Len(<< >>) = 0
      BY <2>1 DEF SizeTrace
    <2> QED BY <2>1, <2>2, SizeTraceEnd
  <1>2. ASSUME NEW S, NEW s \in Seq(S), NEW x PROVE SizeOf(Append(s, x)) = SizeOf(s) + Bytes(x)
    <2> DEFINE n == Len(s)
               t == Append(s, x)
    <2>1. /\ n \in Nat /\ n + 1 \in Nat /\ Len(t) = n + 1 /\ t[n + 1] = x
          /\ \A i \in 1 .. n : s[i] = t[i]
      OBVIOUS
    <2> HIDE DEF n, t
    <2>2. PICK f : SizeTrace(f, s, n)
      BY <2>1, SizeTraceExists
    <2>3. PICK g : SizeTrace(g, t, n + 1)
      BY <2>1, SizeTraceExists
    <2>4. SizeOf(s) = f[n]
      BY <2>1, <2>2, SizeTraceEnd DEF n
    <2>5. SizeOf(t) = g[n + 1]
      BY <2>1, <2>3, SizeTraceEnd
    <2>6. n <= n + 1 /\ (n + 1) - 1 = n /\ n \in 0 .. n /\ n + 1 # 0 /\ n + 1 \in 0 .. n + 1
      BY <2>1
    <2>7. f[n] = g[n]
      BY <2>1, <2>2, <2>3, <2>6, SizeTraceUnique
    <2>8. g[n + 1] = g[(n + 1) - 1] + Bytes(t[n + 1])
      BY <2>3, <2>6 DEF SizeTrace
    <2> QED BY <2>1, <2>4, <2>5, <2>6, <2>7, <2>8 DEF t
  <1> QED BY <1>1, <1>2

\* f accumulates MessagesIn over the first n elements of s.
ReadTrace(f, s, n) == f = [i \in 0 .. n |-> IF i = 0 THEN << >> ELSE f[i - 1] \o ValidMessages(s[i])]

\* Two accumulations agree as far as both go.
LEMMA ReadTraceUnique ==
  ASSUME NEW s, NEW u, NEW m \in Nat, NEW n \in Nat, m <= n, \A i \in 1 .. m : s[i] = u[i],
         NEW f, ReadTrace(f, s, m), NEW g, ReadTrace(g, u, n)
  PROVE  \A i \in 0 .. m : f[i] = g[i]
  <1> DEFINE S == { i \in Nat : i <= m => f[i] = g[i] }
  <1>1. 0 \in S
    BY DEF ReadTrace
  <1>2. ASSUME NEW i \in Nat, i \in S PROVE i + 1 \in S
    <2>1. CASE i + 1 <= m
      <3>1. f[i + 1] = f[(i + 1) - 1] \o ValidMessages(s[i + 1])
        BY <2>1 DEF ReadTrace
      <3>2. g[i + 1] = g[(i + 1) - 1] \o ValidMessages(u[i + 1])
        BY <2>1 DEF ReadTrace
      <3>3. (i + 1) - 1 = i /\ f[i] = g[i] /\ s[i + 1] = u[i + 1]
        BY <1>2, <2>1
      <3>4. f[i + 1] = g[i + 1]
        BY <3>1, <3>2, <3>3, Zenon
      <3> QED BY <3>4
    <2> QED BY <2>1
  <1> HIDE DEF S
  <1>3. \A i \in Nat : i \in S
    BY <1>1, <1>2, NatClosure
  <1> QED BY <1>3 DEF S

\* There is an accumulation of every length.
LEMMA ReadTraceExists ==
  ASSUME NEW s
  PROVE  \A n \in Nat : \E f : ReadTrace(f, s, n)
  <1> DEFINE S == { n \in Nat : \E f : ReadTrace(f, s, n) }
  <1>1. 0 \in S
    <2> DEFINE f == [i \in 0 .. 0 |-> << >>]
    <2>1. \A i \in 0 .. 0 : i = 0
      OBVIOUS
    <2>2. ReadTrace(f, s, 0)
      BY <2>1 DEF ReadTrace
    <2> QED BY <2>2
  <1>2. ASSUME NEW n \in Nat, n \in S PROVE n + 1 \in S
    <2>1. PICK f : ReadTrace(f, s, n)
      BY <1>2
    <2> DEFINE g == [i \in 0 .. n + 1 |-> IF i = n + 1 THEN f[n] \o ValidMessages(s[n + 1]) ELSE f[i]]
    <2>2. \A i \in 0 .. n : g[i] = f[i]
      OBVIOUS
    <2>3. \A i \in 0 .. n : f[i] = IF i = 0 THEN << >> ELSE f[i - 1] \o ValidMessages(s[i])
      BY <2>1 DEF ReadTrace
    <2>4. \A i \in 0 .. n + 1 : g[i] = IF i = 0 THEN << >> ELSE g[i - 1] \o ValidMessages(s[i])
      <3> SUFFICES ASSUME NEW i \in 0 .. n + 1
                   PROVE  g[i] = IF i = 0 THEN << >> ELSE g[i - 1] \o ValidMessages(s[i])
        OBVIOUS
      <3>1. CASE i = n + 1
        <4>1. i - 1 = n /\ g[n] = f[n] /\ i # 0
          BY <2>2, <3>1
        <4> QED BY <3>1, <4>1
      <3>2. CASE i # n + 1
        <4>1. i \in 0 .. n /\ (i # 0 => i - 1 \in 0 .. n)
          BY <3>2
        <4> HIDE DEF g
        <4> QED BY <2>2, <2>3, <4>1
      <3> QED BY <3>1, <3>2
    <2>5. ReadTrace(g, s, n + 1)
      BY <2>4 DEF ReadTrace
    <2> HIDE DEF g
    <2> QED BY <2>5
  <1> HIDE DEF S
  <1>3. \A n \in Nat : n \in S
    BY <1>1, <1>2, NatClosure
  <1> QED BY <1>3 DEF S

\* MessagesIn is the end of the accumulation.
LEMMA ReadTraceEnd ==
  ASSUME NEW s, Len(s) \in Nat, NEW f, ReadTrace(f, s, Len(s))
  PROVE  MessagesIn(s) = f[Len(s)]
  <1> DEFINE g == CHOOSE h : h = [i \in 0 .. Len(s) |->
                                    IF i = 0 THEN << >> ELSE h[i - 1] \o ValidMessages(s[i])]
  <1>1. MessagesIn(s) = g[Len(s)]
    BY DEF MessagesIn
  <1>2. ReadTrace(g, s, Len(s))
    BY DEF ReadTrace
  <1> HIDE DEF g
  <1>3. f[Len(s)] = g[Len(s)]
    BY <1>2, ReadTraceUnique
  <1> QED BY <1>1, <1>3

\* MessagesIn of one file more.
LEMMA MessagesAppend ==
  /\ MessagesIn(<< >>) = << >>
  /\ \A S : \A s \in Seq(S) : \A x : MessagesIn(Append(s, x)) = MessagesIn(s) \o ValidMessages(x)
  <1>1. MessagesIn(<< >>) = << >>
    <2>1. PICK f : ReadTrace(f, << >>, 0)
      BY ReadTraceExists
    <2>2. f[0] = << >> /\ Len(<< >>) = 0
      BY <2>1 DEF ReadTrace
    <2> QED BY <2>1, <2>2, ReadTraceEnd
  <1>2. ASSUME NEW S, NEW s \in Seq(S), NEW x PROVE MessagesIn(Append(s, x)) = MessagesIn(s) \o ValidMessages(x)
    <2> DEFINE n == Len(s)
               t == Append(s, x)
    <2>1. /\ n \in Nat /\ n + 1 \in Nat /\ Len(t) = n + 1 /\ t[n + 1] = x
          /\ \A i \in 1 .. n : s[i] = t[i]
      OBVIOUS
    <2> HIDE DEF n, t
    <2>2. PICK f : ReadTrace(f, s, n)
      BY <2>1, ReadTraceExists
    <2>3. PICK g : ReadTrace(g, t, n + 1)
      BY <2>1, ReadTraceExists
    <2>4. MessagesIn(s) = f[n]
      BY <2>1, <2>2, ReadTraceEnd DEF n
    <2>5. MessagesIn(t) = g[n + 1]
      BY <2>1, <2>3, ReadTraceEnd
    <2>6. n <= n + 1 /\ (n + 1) - 1 = n /\ n \in 0 .. n /\ n + 1 # 0 /\ n + 1 \in 0 .. n + 1
      BY <2>1
    <2>7. f[n] = g[n]
      BY <2>1, <2>2, <2>3, <2>6, ReadTraceUnique
    <2>8. g[n + 1] = g[(n + 1) - 1] \o ValidMessages(t[n + 1])
      BY <2>3, <2>6 DEF ReadTrace
    <2> QED BY <2>1, <2>4, <2>5, <2>6, <2>7, <2>8 DEF t
  <1> QED BY <1>1, <1>2

-----------------------------------------------------------------------------
(* Frames and files.                                                       *)

SegmentFiles == [base: 0 .. MaxRecords, frames: Seq(Frames)]

\* A frame has a size.
LEMMA FrameFacts ==
  ASSUME NEW x \in Frames
  PROVE  /\ Bytes(x) \in Nat \ {0}
         /\ x.kind \in {"record", "debris"}
         /\ x.kind = "record" => x.msg \in Msgs
         /\ x.kind = "debris" => Bytes(x) = x.bytes /\ Claimed(x) = x.claims
  BY StorageAssumption DEF Frames, Bytes, Claimed

\* The frames an append writes.
LEMMA NewFrames ==
  /\ \A o \in 0 .. MaxRecords, m \in Msgs :
       /\ Record(o, m) \in Frames /\ Record(o, m).kind = "record"
       /\ Record(o, m).offset = o /\ Record(o, m).msg = m /\ Bytes(Record(o, m)) = FrameSize[m]
  /\ \A k \in Nat \ {0}, c \in Nat :
       /\ Debris(k, c) \in Frames /\ Debris(k, c).kind = "debris"
       /\ Debris(k, c).bytes = k /\ Debris(k, c).claims = c /\ Bytes(Debris(k, c)) = k
  BY DEF Record, Debris, Frames, Bytes

\* A sequence that is not empty, without its last element and with it.
LEMMA FrontAndLast ==
  ASSUME NEW S, NEW s \in Seq(S), s # << >>
  PROVE  /\ Len(s) \in Nat \ {0} /\ Last(s) = s[Len(s)] /\ Last(s) \in S
         /\ SubSeq(s, 1, Len(s) - 1) \in Seq(S)
         /\ Len(SubSeq(s, 1, Len(s) - 1)) = Len(s) - 1
         /\ s = Append(SubSeq(s, 1, Len(s) - 1), Last(s))
  <1>1. Len(s) \in Nat \ {0} /\ Last(s) = s[Len(s)] /\ Last(s) \in S
    BY DEF Last
  <1> DEFINE front == SubSeq(s, 1, Len(s) - 1)
  <1>2. /\ front \in Seq(S) /\ Len(front) = Len(s) - 1
        /\ \A i \in 1 .. Len(s) - 1 : front[i] = s[i]
    <2> DEFINE n == Len(s) - 1
    <2>1. n \in Nat /\ n <= Len(s)
      BY <1>1
    <2> HIDE DEF n
    <2>2. /\ SubSeq(s, 1, n) \in Seq(S) /\ Len(SubSeq(s, 1, n)) = n
          /\ \A i \in 1 .. n : SubSeq(s, 1, n)[i] = s[i]
      BY <2>1
    <2> QED BY <2>2 DEF n
  <1> HIDE DEF front
  <1>3. /\ Append(front, Last(s)) \in Seq(S)
        /\ Len(Append(front, Last(s))) = Len(s)
        /\ \A i \in 1 .. Len(s) : Append(front, Last(s))[i] = s[i]
    BY <1>1, <1>2
  <1>4. s = Append(front, Last(s))
    BY <1>3, SeqEqual
  <1> QED BY <1>1, <1>2, <1>4 DEF front

\* The size of a sequence of frames.
LEMMA SizeType ==
  \A s \in Seq(Frames) : SizeOf(s) \in Nat
  <1> DEFINE S == { n \in Nat : \A s \in Seq(Frames) : Len(s) = n => SizeOf(s) \in Nat }
  <1>1. 0 \in S
    <2>1. \A s \in Seq(Frames) : Len(s) = 0 => s = << >>
      BY EmptySeq
    <2> QED BY <2>1, SizeAppend
  <1>2. ASSUME NEW n \in Nat, n \in S PROVE n + 1 \in S
    <2> SUFFICES ASSUME NEW s \in Seq(Frames), Len(s) = n + 1 PROVE SizeOf(s) \in Nat
      OBVIOUS
    <2> DEFINE front == SubSeq(s, 1, Len(s) - 1)
    <2>1. s # << >>
      OBVIOUS
    <2>2. Last(s) \in Frames /\ front \in Seq(Frames) /\ Len(front) = n /\ s = Append(front, Last(s))
      BY <2>1, FrontAndLast
    <2> HIDE DEF front
    <2>3. SizeOf(front) \in Nat /\ Bytes(Last(s)) \in Nat
      BY <1>2, <2>2, FrameFacts
    <2>4. SizeOf(s) = SizeOf(front) + Bytes(Last(s))
      BY <2>2, SizeAppend
    <2> QED BY <2>3, <2>4
  <1> HIDE DEF S
  <1>3. \A n \in Nat : n \in S
    BY <1>1, <1>2, NatClosure
  <1> QED BY <1>3 DEF S

\* A prefix is not larger than the whole.
LEMMA SizePrefix ==
  ASSUME NEW s \in Seq(Frames)
  PROVE  \A n \in 0 .. Len(s) : SizeOf(SubSeq(s, 1, n)) \in Nat /\ SizeOf(SubSeq(s, 1, n)) <= SizeOf(s)
  <1> DEFINE N == Len(s)
             P(n) == SubSeq(s, 1, n)
             S == { d \in Nat : d <= N => SizeOf(P(N - d)) <= SizeOf(s) }
  <1>1. N \in Nat /\ SizeOf(s) \in Nat
    BY SizeType
  <1>2. \A n \in 0 .. N : P(n) \in Seq(Frames) /\ SizeOf(P(n)) \in Nat
    <2>1. \A n \in 0 .. N : P(n) \in Seq(Frames)
      OBVIOUS
    <2> HIDE DEF P
    <2> QED BY <2>1, SizeType
  <1>3. \A n \in 0 .. N - 1 : P(n + 1) = Append(P(n), s[n + 1]) /\ s[n + 1] \in Frames
    <2> SUFFICES ASSUME NEW n \in 0 .. N - 1
                 PROVE  P(n + 1) = Append(P(n), s[n + 1]) /\ s[n + 1] \in Frames
      OBVIOUS
    <2>1. s[n + 1] \in Frames
      OBVIOUS
    <2>2. /\ P(n + 1) \in Seq(Frames) /\ Len(P(n + 1)) = n + 1
          /\ \A i \in 1 .. n + 1 : P(n + 1)[i] = s[i]
      OBVIOUS
    <2>3. /\ P(n) \in Seq(Frames) /\ Len(P(n)) = n
          /\ \A i \in 1 .. n : P(n)[i] = s[i]
      OBVIOUS
    <2> HIDE DEF P
    <2>4. /\ Append(P(n), s[n + 1]) \in Seq(Frames) /\ Len(Append(P(n), s[n + 1])) = n + 1
          /\ \A i \in 1 .. n + 1 : Append(P(n), s[n + 1])[i] = s[i]
      BY <2>1, <2>3
    <2>5. P(n + 1) = Append(P(n), s[n + 1])
      BY <2>2, <2>4, SeqEqual
    <2> QED BY <2>1, <2>5
  <1>4. 0 \in S
    <2>1. P(N) = s
      OBVIOUS
    <2> HIDE DEF P
    <2> QED BY <1>1, <2>1
  <1>5. ASSUME NEW d \in Nat, d \in S PROVE d + 1 \in S
    <2> SUFFICES ASSUME d + 1 <= N PROVE SizeOf(P(N - (d + 1))) <= SizeOf(s)
      OBVIOUS
    <2> DEFINE n == N - (d + 1)
    <2>1. n \in 0 .. N - 1 /\ n + 1 = N - d /\ n \in 0 .. N /\ n + 1 \in 0 .. N
      BY <1>1
    <2> HIDE DEF n, P
    <2>2. SizeOf(P(n + 1)) <= SizeOf(s)
      BY <1>5, <2>1
    <2>3. SizeOf(P(n + 1)) = SizeOf(P(n)) + Bytes(s[n + 1]) /\ Bytes(s[n + 1]) \in Nat
      BY <1>2, <1>3, <2>1, SizeAppend, FrameFacts
    <2>4. SizeOf(P(n)) \in Nat /\ SizeOf(P(n + 1)) \in Nat
      BY <1>2, <2>1
    <2> QED BY <1>1, <2>2, <2>3, <2>4 DEF n
  <1> HIDE DEF S
  <1>6. \A d \in Nat : d \in S
    BY <1>4, <1>5, NatClosure
  <1> SUFFICES ASSUME NEW n \in 0 .. N PROVE SizeOf(P(n)) \in Nat /\ SizeOf(P(n)) <= SizeOf(s)
    OBVIOUS
  <1>7. N - n \in Nat /\ N - n <= N /\ N - (N - n) = n
    BY <1>1
  <1> HIDE DEF P
  <1>8. SizeOf(P(N - (N - n))) <= SizeOf(s)
    BY <1>6, <1>7 DEF S
  <1> QED BY <1>2, <1>7, <1>8

\* Rolling back to the size the file has changes nothing.
LEMMA SetLenWhole ==
  ASSUME NEW s \in Seq(Frames)
  PROVE  SetLen(s, SizeOf(s)) = s
  <1> DEFINE N == Len(s)
             Z(n) == SizeOf(SubSeq(s, 1, n))
             IsWhole(n) == Z(n) <= SizeOf(s) /\ (n < N => Z(n + 1) > SizeOf(s))
             whole == CHOOSE n \in 0 .. N : IsWhole(n)
             rest  == SizeOf(s) - Z(whole)
  <1>1. N \in Nat /\ SizeOf(s) \in Nat /\ SubSeq(s, 1, N) = s
    BY SizeType
  <1>2. \A n \in 0 .. N : Z(n) \in Nat /\ Z(n) <= SizeOf(s)
    BY SizePrefix
  <1>3. Z(N) = SizeOf(s)
    BY <1>1
  <1>4. SetLen(s, SizeOf(s)) = SubSeq(s, 1, whole)
          \o IF rest = 0 THEN << >> ELSE <<Debris(rest, Claimed(s[whole + 1]))>>
    BY DEF SetLen
  <1> HIDE DEF N, Z
  <1>5. IsWhole(N) /\ N \in 0 .. N
    BY <1>1, <1>3
  <1>6. ASSUME NEW n \in 0 .. N, IsWhole(n) PROVE n = N
    <2>1. n + 1 \in 0 .. N => Z(n + 1) \in Nat /\ Z(n + 1) <= SizeOf(s)
      BY <1>2
    <2> QED BY <1>1, <1>6, <2>1
  <1>7. whole \in 0 .. N /\ IsWhole(whole)
    BY <1>5
  <1> HIDE DEF whole
  <1>8. whole = N
    BY <1>6, <1>7
  <1>9. rest = 0 /\ SubSeq(s, 1, whole) = s
    BY <1>1, <1>3, <1>8
  <1> HIDE DEF rest
  <1>10. SetLen(s, SizeOf(s)) = s \o << >>
    BY <1>4, <1>9
  <1> QED BY <1>10, ConcatEmptySeq

-----------------------------------------------------------------------------
(* What a scan finds in a file.                                            *)

\* A non-empty set of naturals has a least element.
LEMMA LeastElement ==
  ASSUME NEW T, T \subseteq Nat, T # {}
  PROVE  \E n \in T : \A m \in T : n <= m
  <1> DEFINE S == { n \in Nat : (\E m \in T : m <= n) => \E k \in T : \A m \in T : k <= m }
  <1>1. 0 \in S
    OBVIOUS
  <1>2. ASSUME NEW n \in Nat, n \in S PROVE n + 1 \in S
    <2> SUFFICES ASSUME NEW m \in T, m <= n + 1 PROVE \E k \in T : \A j \in T : k <= j
      OBVIOUS
    <2>1. CASE \E j \in T : j <= n
      BY <1>2, <2>1
    <2>2. CASE ~\E j \in T : j <= n
      <3>1. \A j \in T : m <= j
        BY <2>2
      <3> QED BY <3>1
    <2> QED BY <2>1, <2>2
  <1> HIDE DEF S
  <1>3. \A n \in Nat : n \in S
    BY <1>1, <1>2, NatClosure
  <1>4. PICK n \in T : TRUE
    OBVIOUS
  <1>5. n \in S /\ n <= n
    BY <1>3
  <1> QED BY <1>4, <1>5 DEF S

\* The scan accepts a prefix and stops at the first invalid frame.
LEMMA ScanFacts ==
  ASSUME NEW f \in SegmentFiles
  PROVE  /\ Len(f.frames) \in Nat /\ ValidPrefix(f) \in 0 .. Len(f.frames)
         /\ \A i \in 1 .. ValidPrefix(f) : IsValid(f, i)
         /\ ValidPrefix(f) < Len(f.frames) => ~IsValid(f, ValidPrefix(f) + 1)
  <1> DEFINE N == Len(f.frames)
             Stops(n) == (\A i \in 1 .. n : IsValid(f, i)) /\ (n < N => ~IsValid(f, n + 1))
             T == { i \in 1 .. N : ~IsValid(f, i) }
  <1>1. N \in Nat
    BY DEF SegmentFiles
  <1> HIDE DEF N
  <1>2. \E n \in 0 .. N : Stops(n)
    <2>1. CASE T = {}
      <3>1. N \in 0 .. N /\ Stops(N)
        BY <1>1, <2>1
      <3> QED BY <3>1
    <2>2. CASE T # {}
      <3>1. PICK k \in T : \A m \in T : k <= m
        <4>1. T \subseteq Nat
          BY <1>1
        <4> HIDE DEF T
        <4> QED BY <2>2, <4>1, LeastElement
      <3>2. k \in 1 .. N /\ k - 1 \in 0 .. N /\ (k - 1) + 1 = k
        BY <1>1, <3>1
      <3>3. \A i \in 1 .. k - 1 : i \notin T /\ i \in 1 .. N
        BY <1>1, <3>1, <3>2
      <3>4. Stops(k - 1)
        BY <3>1, <3>2, <3>3
      <3> QED BY <3>2, <3>4
    <2> QED BY <2>1, <2>2
  <1>3. ValidPrefix(f) = CHOOSE n \in 0 .. N : Stops(n)
    BY DEF ValidPrefix, N
  <1> HIDE DEF Stops
  <1>4. ValidPrefix(f) \in 0 .. N /\ Stops(ValidPrefix(f))
    BY <1>2, <1>3
  <1> QED BY <1>1, <1>4 DEF N, Stops

\* Where the scan stops is no matter of choice.
LEMMA ScanUnique ==
  ASSUME NEW f \in SegmentFiles, NEW n \in 0 .. Len(f.frames),
         \A i \in 1 .. n : IsValid(f, i), n < Len(f.frames) => ~IsValid(f, n + 1)
  PROVE  ValidPrefix(f) = n
  <1>1. /\ Len(f.frames) \in Nat /\ ValidPrefix(f) \in 0 .. Len(f.frames)
        /\ \A i \in 1 .. ValidPrefix(f) : IsValid(f, i)
        /\ ValidPrefix(f) < Len(f.frames) => ~IsValid(f, ValidPrefix(f) + 1)
    BY ScanFacts
  <1>2. ~(n < ValidPrefix(f))
    <2> SUFFICES ASSUME n < ValidPrefix(f) PROVE FALSE
      OBVIOUS
    <2>1. n + 1 \in 1 .. ValidPrefix(f) /\ n < Len(f.frames)
      BY <1>1
    <2> QED BY <1>1, <2>1
  <1>3. ~(ValidPrefix(f) < n)
    <2> SUFFICES ASSUME ValidPrefix(f) < n PROVE FALSE
      OBVIOUS
    <2>1. ValidPrefix(f) + 1 \in 1 .. n /\ ValidPrefix(f) < Len(f.frames)
      BY <1>1
    <2> QED BY <1>1, <2>1
  <1> QED BY <1>1, <1>2, <1>3

\* The messages of a file.
LEMMA ValidMessagesType ==
  ASSUME NEW f \in SegmentFiles
  PROVE  ValidMessages(f) \in Seq(Msgs) /\ Len(ValidMessages(f)) = ValidPrefix(f)
  <1> DEFINE n == ValidPrefix(f)
  <1>1. n \in Nat /\ \A i \in 1 .. n : i \in 1 .. Len(f.frames) /\ IsValid(f, i)
    BY ScanFacts
  <1>2. f.frames \in Seq(Frames)
    BY DEF SegmentFiles
  <1> HIDE DEF n
  <1>3. \A i \in 1 .. n : f.frames[i].msg \in Msgs
    <2> SUFFICES ASSUME NEW i \in 1 .. n PROVE f.frames[i].msg \in Msgs
      OBVIOUS
    <2>1. f.frames[i] \in Frames /\ f.frames[i].kind = "record"
      BY <1>1, <1>2 DEF IsValid
    <2> QED BY <2>1, FrameFacts
  <1>4. ValidMessages(f) = [i \in 1 .. n |-> f.frames[i].msg]
    BY DEF ValidMessages, n
  <1> HIDE DEF ValidMessages
  <1>5. ValidMessages(f) \in Seq(Msgs)
    BY <1>1, <1>3, <1>4, IsASeq
  <1>6. Len(ValidMessages(f)) = n
    BY <1>1, <1>4, <1>5, LenProperties
  <1> QED BY <1>5, <1>6 DEF n

\* The messages of files.
LEMMA MessagesType ==
  \A fs \in Seq(SegmentFiles) : MessagesIn(fs) \in Seq(Msgs)
  <1> DEFINE S == { n \in Nat : \A fs \in Seq(SegmentFiles) : Len(fs) = n => MessagesIn(fs) \in Seq(Msgs) }
  <1>1. 0 \in S
    <2>1. \A fs \in Seq(SegmentFiles) : Len(fs) = 0 => fs = << >>
      BY EmptySeq
    <2>2. MessagesIn(<< >>) = << >>
      BY MessagesAppend, Zenon
    <2> QED BY <2>1, <2>2
  <1>2. ASSUME NEW n \in Nat, n \in S PROVE n + 1 \in S
    <2> SUFFICES ASSUME NEW fs \in Seq(SegmentFiles), Len(fs) = n + 1 PROVE MessagesIn(fs) \in Seq(Msgs)
      OBVIOUS
    <2> DEFINE front == SubSeq(fs, 1, Len(fs) - 1)
    <2>1. fs # << >>
      OBVIOUS
    <2>2. /\ Last(fs) \in SegmentFiles /\ front \in Seq(SegmentFiles) /\ Len(front) = n
          /\ fs = Append(front, Last(fs))
      BY <2>1, FrontAndLast
    <2> HIDE DEF front
    <2>3. MessagesIn(front) \in Seq(Msgs) /\ ValidMessages(Last(fs)) \in Seq(Msgs)
      BY <1>2, <2>2, ValidMessagesType
    <2>4. MessagesIn(fs) = MessagesIn(front) \o ValidMessages(Last(fs))
      BY <2>2, MessagesAppend
    <2> QED BY <2>3, <2>4, ConcatProperties
  <1> HIDE DEF S
  <1>3. \A n \in Nat : n \in S
    BY <1>1, <1>2, NatClosure
  <1> QED BY <1>3 DEF S

-----------------------------------------------------------------------------
(* The files of a log.                                                     *)

\* The offset the next record of the files fs has.
EndOf(fs) == IF fs = << >> THEN 0 ELSE Last(fs).base + ValidPrefix(Last(fs))

\* EarlierFilesAccepted, of any files.
ChainedFiles(fs) ==
  \A k \in DOMAIN fs :
    /\ fs[k].base = IF k = 1 THEN 0 ELSE fs[k - 1].base + Len(fs[k - 1].frames)
    /\ k < Len(fs) => IsIntact(fs[k]) /\ fs[k].frames # << >>

LogOK(fs) ==
  /\ fs \in Seq(SegmentFiles)
  /\ ChainedFiles(fs)
  /\ Len(MessagesIn(fs)) = EndOf(fs)
  /\ EndOf(fs) \in 0 .. MaxRecords

\* The last file is whole ...
Whole(fs) == fs # << >> => IsIntact(Last(fs))

\* ... or ends in the debris of one write.
TailOK(f) ==
  ~IsIntact(f) =>
    /\ ValidPrefix(f) + 1 = Len(f.frames)
    /\ f.frames[Len(f.frames)].kind = "debris"
    /\ f.frames[Len(f.frames)].bytes < f.frames[Len(f.frames)].claims

CutShort(fs) == fs # << >> => TailOK(Last(fs))

\* A new segment file is empty and begins where the log ends.
LEMMA NewSegment ==
  ASSUME NEW fs, LogOK(fs), Whole(fs), fs = << >> \/ Last(fs).frames # << >>,
         NEW gs, gs = Append(fs, [base |-> EndOf(fs), frames |-> << >>])
  PROVE  /\ LogOK(gs) /\ Whole(gs) /\ gs # << >>
         /\ EndOf(gs) = EndOf(fs) /\ MessagesIn(gs) = MessagesIn(fs)
  <1> DEFINE g == [base |-> EndOf(fs), frames |-> << >>]
             n == Len(fs)
  <1>1. fs \in Seq(SegmentFiles) /\ EndOf(fs) \in 0 .. MaxRecords /\ n \in Nat
    BY DEF LogOK
  <1>2. g \in SegmentFiles /\ g.base = EndOf(fs) /\ g.frames = << >> /\ Len(g.frames) = 0
    BY <1>1 DEF SegmentFiles
  <1> HIDE DEF g
  <1>3. ValidPrefix(g) = 0 /\ IsIntact(g)
    BY <1>2, ScanFacts DEF IsIntact
  <1>4. /\ gs = Append(fs, g) /\ gs \in Seq(SegmentFiles) /\ Len(gs) = n + 1 /\ gs # << >>
        /\ DOMAIN gs = 1 .. n + 1 /\ gs[n + 1] = g
        /\ \A k \in 1 .. n : gs[k] = fs[k]
    BY <1>1, <1>2 DEF g
  <1>5. Last(gs) = g
    BY <1>4 DEF Last
  <1>6. EndOf(gs) = EndOf(fs) /\ Whole(gs)
    BY <1>1, <1>2, <1>3, <1>4, <1>5 DEF EndOf, Whole
  <1>7. MessagesIn(gs) = MessagesIn(fs)
    <2>1. MessagesIn(gs) = MessagesIn(fs) \o ValidMessages(g)
      BY <1>1, <1>4, MessagesAppend
    <2>2. ValidMessages(g) \in Seq(Msgs) /\ Len(ValidMessages(g)) = 0
      BY <1>2, <1>3, ValidMessagesType
    <2>3. ValidMessages(g) = << >>
      BY <2>2, EmptySeq
    <2>4. MessagesIn(fs) \in Seq(Msgs)
      BY <1>1, MessagesType
    <2> QED BY <2>1, <2>3, <2>4, ConcatEmptySeq
  <1>8. ChainedFiles(gs)
    <2> SUFFICES ASSUME NEW k \in 1 .. n + 1
                 PROVE  /\ gs[k].base = IF k = 1 THEN 0 ELSE gs[k - 1].base + Len(gs[k - 1].frames)
                        /\ k < n + 1 => IsIntact(gs[k]) /\ gs[k].frames # << >>
      BY <1>4 DEF ChainedFiles
    <2>1. CASE k = n + 1
      <3>1. CASE n = 0
        <4>1. fs = << >>
          BY <1>1, <3>1, EmptySeq
        <4> QED BY <1>2, <1>4, <2>1, <3>1, <4>1 DEF EndOf
      <3>2. CASE n # 0
        <4>1. fs # << >> /\ Last(fs) = fs[n] /\ k - 1 = n /\ n \in 1 .. n
          BY <1>1, <2>1, <3>2 DEF Last
        <4>2. EndOf(fs) = fs[n].base + Len(fs[n].frames)
          BY <4>1 DEF EndOf, Whole, IsIntact
        <4> QED BY <1>1, <1>2, <1>4, <2>1, <3>2, <4>1, <4>2
      <3> QED BY <3>1, <3>2
    <2>2. CASE k # n + 1
      <3>0. k < n \/ k = n
        BY <1>1, <2>2
      <3>1. k \in 1 .. n /\ DOMAIN fs = 1 .. n /\ (k # 1 => k - 1 \in 1 .. n)
        BY <1>1, <2>2
      <3>2. gs[k].base = IF k = 1 THEN 0 ELSE gs[k - 1].base + Len(gs[k - 1].frames)
        BY <1>4, <3>1 DEF LogOK, ChainedFiles
      <3>3. IsIntact(fs[k]) /\ fs[k].frames # << >>
        <4>1. CASE k < n
          BY <3>1, <4>1 DEF LogOK, ChainedFiles
        <4>2. CASE k = n
          <5>1. fs # << >> /\ Last(fs) = fs[k]
            BY <1>1, <3>1, <4>2 DEF Last
          <5> QED BY <5>1 DEF Whole
        <4> QED BY <3>0, <4>1, <4>2, Zenon
      <3> QED BY <1>4, <3>1, <3>2, <3>3
    <2> QED BY <2>1, <2>2
  <1> QED BY <1>1, <1>4, <1>6, <1>7, <1>8 DEF LogOK

\* gs has g where fs has its last file.
EndsIn(fs, g, gs) ==
  \E X \in Seq(Frames) : /\ g = [base |-> Last(fs).base, frames |-> X]
                         /\ gs = [fs EXCEPT ![Len(fs)].frames = X]

\* The messages of fs and of gs are those of the same files before the last.
SameFront(fs, g, gs) ==
  \E rest \in Seq(Msgs) : /\ Len(rest) = g.base
                          /\ MessagesIn(fs) = rest \o ValidMessages(Last(fs))
                          /\ MessagesIn(gs) = rest \o ValidMessages(g)

\* Replacing the frames of the last file leaves the others where they are.
LEMMA LastReplaced ==
  ASSUME NEW fs, NEW g, NEW gs, LogOK(fs), fs # << >>, EndsIn(fs, g, gs)
  PROVE  /\ g \in SegmentFiles /\ gs \in Seq(SegmentFiles) /\ gs # << >>
         /\ Len(gs) = Len(fs) /\ Last(gs) = g /\ ChainedFiles(gs)
         /\ EndOf(gs) = g.base + ValidPrefix(g)
         /\ SameFront(fs, g, gs)
  <1> DEFINE n     == Len(fs)
             front == SubSeq(fs, 1, n - 1)
  <1>0. PICK X \in Seq(Frames) : /\ g = [base |-> Last(fs).base, frames |-> X]
                                 /\ gs = [fs EXCEPT ![Len(fs)].frames = X]
    BY DEF EndsIn
  <1>1. fs \in Seq(SegmentFiles)
    BY DEF LogOK
  <1>2. /\ n \in Nat \ {0} /\ Last(fs) = fs[n] /\ Last(fs) \in SegmentFiles
        /\ front \in Seq(SegmentFiles) /\ Len(front) = n - 1 /\ fs = Append(front, Last(fs))
    BY <1>1, FrontAndLast
  <1>3. g \in SegmentFiles /\ g.base = Last(fs).base /\ g.frames = X
    BY <1>0, <1>2 DEF SegmentFiles
  <1>4. /\ gs = [fs EXCEPT ![n] = g] /\ DOMAIN fs = 1 .. n
    <2>1. DOMAIN fs = 1 .. n
      BY <1>1, <1>2
    <2>2. fs[n] = [base |-> fs[n].base, frames |-> fs[n].frames]
      BY <1>2 DEF SegmentFiles
    <2>3. [fs[n] EXCEPT !.frames = X] = g
      BY <1>0, <1>2, <2>2
    <2> QED BY <1>0, <2>3, <2>1
  <1> HIDE DEF n, front
  <1>5. /\ gs \in Seq(SegmentFiles) /\ Len(gs) = n /\ gs[n] = g /\ gs # << >>
        /\ DOMAIN gs = 1 .. n /\ \A k \in 1 .. n - 1 : gs[k] = fs[k]
    BY <1>1, <1>2, <1>3, <1>4
  <1>6. Last(gs) = g /\ Len(gs) = Len(fs)
    BY <1>5 DEF Last, n
  <1>7. ChainedFiles(gs)
    <2>1. \A k \in 1 .. n : gs[k].base = fs[k].base
      BY <1>2, <1>3, <1>5
    <2>2. ASSUME NEW k \in 1 .. n
          PROVE  /\ gs[k].base = IF k = 1 THEN 0 ELSE gs[k - 1].base + Len(gs[k - 1].frames)
                 /\ k < n => IsIntact(gs[k]) /\ gs[k].frames # << >>
      <3>1. /\ fs[k].base = IF k = 1 THEN 0 ELSE fs[k - 1].base + Len(fs[k - 1].frames)
            /\ k < n => IsIntact(fs[k]) /\ fs[k].frames # << >>
        BY <1>4 DEF LogOK, ChainedFiles, n
      <3>2. k # 1 => k - 1 \in 1 .. n - 1
        BY <1>2
      <3>3. k < n => k \in 1 .. n - 1
        BY <1>2
      <3> QED BY <1>5, <2>1, <3>1, <3>2, <3>3
    <2> QED BY <1>5, <2>2 DEF ChainedFiles
  <1>8. gs = Append(front, g)
    <2>1. /\ Append(front, g) \in Seq(SegmentFiles) /\ Len(Append(front, g)) = n
          /\ Append(front, g)[n] = g
          /\ \A k \in 1 .. n - 1 : Append(front, g)[k] = front[k]
      BY <1>2, <1>3
    <2>2. \A k \in 1 .. n - 1 : fs[k] = front[k]
      BY <1>2
    <2>3. \A k \in 1 .. n : gs[k] = Append(front, g)[k]
      <3> SUFFICES ASSUME NEW k \in 1 .. n PROVE gs[k] = Append(front, g)[k]
        OBVIOUS
      <3>1. k = n \/ k \in 1 .. n - 1
        BY <1>2
      <3> QED BY <1>5, <2>1, <2>2, <3>1
    <2> QED BY <1>5, <2>1, <2>3, SeqEqual
  <1>9. /\ MessagesIn(fs) = MessagesIn(front) \o ValidMessages(Last(fs))
        /\ MessagesIn(gs) = MessagesIn(front) \o ValidMessages(g)
    BY <1>2, <1>8, MessagesAppend
  <1>10. MessagesIn(front) \in Seq(Msgs)
    BY <1>2, MessagesType
  <1>11. Len(MessagesIn(front)) = g.base
    <2> DEFINE a == MessagesIn(front)
               b == ValidMessages(Last(fs))
    <2>1. b \in Seq(Msgs) /\ Len(b) = ValidPrefix(Last(fs))
      BY <1>2, ValidMessagesType
    <2>2. Len(a \o b) = Len(a) + Len(b) /\ Len(a) \in Nat /\ Len(b) \in Nat
      BY <1>10, <2>1, ConcatProperties, LenProperties
    <2>3. Len(MessagesIn(fs)) = Last(fs).base + ValidPrefix(Last(fs))
      BY DEF LogOK, EndOf
    <2>4. Last(fs).base \in Nat
      BY <1>2, StorageAssumption DEF SegmentFiles
    <2> HIDE DEF a, b
    <2>5. Len(a) + Len(b) = Last(fs).base + Len(b)
      BY <1>9, <2>1, <2>2, <2>3 DEF a, b
    <2> QED BY <1>3, <2>2, <2>4, <2>5 DEF a
  <1>12. EndOf(gs) = g.base + ValidPrefix(g)
    BY <1>5, <1>6 DEF EndOf
  <1>13. SameFront(fs, g, gs)
    BY <1>9, <1>10, <1>11 DEF SameFront
  <1> QED BY <1>3, <1>5, <1>6, <1>7, <1>12, <1>13

\* gs is fs with the frame x at the end, and g the last file of gs.
Adds(fs, x, g, gs) ==
  /\ gs = WithFrame(fs, x)
  /\ g = [base |-> Last(fs).base, frames |-> Append(Last(fs).frames, x)]

\* One frame more in the last file of a whole log: a valid one is accepted, any
\* other is where the scan stops.
LEMMA FrameAppended ==
  ASSUME NEW fs, NEW x, NEW g, NEW gs, LogOK(fs), Whole(fs), fs # << >>, x \in Frames,
         Adds(fs, x, g, gs)
  PROVE  /\ gs \in Seq(SegmentFiles) /\ gs # << >> /\ Len(gs) = Len(fs)
         /\ gs = [fs EXCEPT ![Len(fs)].frames = g.frames]
         /\ Last(gs) = g /\ g \in SegmentFiles /\ ChainedFiles(gs)
         /\ EndOf(fs) = g.base + ValidPrefix(Last(fs)) /\ EndOf(fs) \in 0 .. MaxRecords
         /\ EndOf(gs) = g.base + ValidPrefix(g)
         /\ Len(g.frames) = ValidPrefix(Last(fs)) + 1 /\ g.frames[Len(g.frames)] = x
         /\ ValidPrefix(g) = IF x.kind = "record" /\ x.offset = EndOf(fs)
                             THEN ValidPrefix(Last(fs)) + 1 ELSE ValidPrefix(Last(fs))
         /\ \A i \in 1 .. ValidPrefix(Last(fs)) : g.frames[i] = Last(fs).frames[i]
         /\ SameFront(fs, g, gs)
  <1> DEFINE f == Last(fs)
             N == ValidPrefix(f)
             X == Append(f.frames, x)
  <1>1. fs \in Seq(SegmentFiles) /\ EndOf(fs) \in 0 .. MaxRecords
    BY DEF LogOK
  <1>2. f \in SegmentFiles /\ f = fs[Len(fs)]
    BY <1>1, FrontAndLast
  <1>3. /\ f.frames \in Seq(Frames) /\ N = Len(f.frames) /\ N \in Nat /\ f.base \in Nat
        /\ \A i \in 1 .. N : IsValid(f, i)
    BY <1>2, ScanFacts, StorageAssumption DEF SegmentFiles, Whole, IsIntact
  <1>4. EndOf(fs) = f.base + N
    BY DEF EndOf
  <1> HIDE DEF f, N
  <1>5. /\ X \in Seq(Frames) /\ Len(X) = N + 1 /\ X[N + 1] = x
        /\ \A i \in 1 .. N : X[i] = f.frames[i]
    BY <1>3
  <1>6. gs = [fs EXCEPT ![Len(fs)].frames = X]
    BY <1>2 DEF WithFrame, Adds
  <1>7. g = [base |-> Last(fs).base, frames |-> X] /\ g.base = f.base /\ g.frames = X
    BY DEF f, Adds
  <1> HIDE DEF X
  <1>8. /\ g \in SegmentFiles /\ gs \in Seq(SegmentFiles) /\ gs # << >>
        /\ Len(gs) = Len(fs) /\ Last(gs) = g /\ ChainedFiles(gs)
        /\ EndOf(gs) = g.base + ValidPrefix(g)
        /\ SameFront(fs, g, gs)
    <2>1. EndsIn(fs, g, gs)
      BY <1>5, <1>6, <1>7 DEF EndsIn
    <2> QED BY <2>1, LastReplaced
  <1>9. \A i \in 1 .. N : IsValid(g, i)
    BY <1>3, <1>5, <1>7 DEF IsValid
  <1>10. IsValid(g, N + 1) <=> x.kind = "record" /\ x.offset = EndOf(fs)
    <2>1. g.base + (N + 1) - 1 = EndOf(fs)
      BY <1>3, <1>4, <1>7
    <2> QED BY <1>5, <1>7, <2>1 DEF IsValid
  <1>11. CASE x.kind = "record" /\ x.offset = EndOf(fs)
    <2>1. \A i \in 1 .. N + 1 : IsValid(g, i)
      <3> SUFFICES ASSUME NEW i \in 1 .. N + 1 PROVE IsValid(g, i)
        OBVIOUS
      <3>1. i = N + 1 \/ i \in 1 .. N
        BY <1>3
      <3> QED BY <1>9, <1>10, <1>11, <3>1
    <2>2. N + 1 \in 0 .. Len(g.frames) /\ ~(N + 1 < Len(g.frames))
      BY <1>3, <1>5, <1>7
    <2>3. ValidPrefix(g) = N + 1
      BY <1>8, <2>1, <2>2, ScanUnique
    <2> QED BY <1>1, <1>3, <1>4, <1>5, <1>6, <1>7, <1>8, <1>11, <2>3 DEF f, N
  <1>12. CASE ~(x.kind = "record" /\ x.offset = EndOf(fs))
    <2>1. N \in 0 .. Len(g.frames) /\ (N < Len(g.frames) => ~IsValid(g, N + 1))
      BY <1>3, <1>5, <1>7, <1>10, <1>12
    <2>2. ValidPrefix(g) = N
      BY <1>8, <1>9, <2>1, ScanUnique
    <2> QED BY <1>1, <1>3, <1>4, <1>5, <1>6, <1>7, <1>8, <1>12, <2>2 DEF f, N
  <1> QED BY <1>11, <1>12

\* A record with the next offset is one message more.
LEMMA RecordAppended ==
  ASSUME NEW fs, LogOK(fs), Whole(fs), fs # << >>, EndOf(fs) < MaxRecords, NEW m \in Msgs,
         NEW gs, gs = WithFrame(fs, Record(EndOf(fs), m))
  PROVE  /\ LogOK(gs) /\ Whole(gs) /\ gs # << >> /\ EndOf(gs) = EndOf(fs) + 1
         /\ MessagesIn(gs) = Append(MessagesIn(fs), m)
  <1> DEFINE x == Record(EndOf(fs), m)
             f == Last(fs)
             g == [base |-> Last(fs).base, frames |-> Append(Last(fs).frames, x)]
             N == ValidPrefix(f)
             E == EndOf(fs)
  <1>1. E \in 0 .. MaxRecords /\ f \in SegmentFiles
    <2>1. fs \in Seq(SegmentFiles)
      BY DEF LogOK
    <2> QED BY <2>1, FrontAndLast DEF LogOK
  <1> HIDE DEF f, E
  <1>2. x \in Frames /\ x.kind = "record" /\ x.offset = E /\ x.msg = m
    BY <1>1, NewFrames DEF E
  <1> HIDE DEF x, N
  <1>3. Adds(fs, x, g, gs)
    BY DEF Adds, x, E
  <1> HIDE DEF g
  <1>4. /\ gs \in Seq(SegmentFiles) /\ gs # << >> /\ Len(gs) = Len(fs)
        /\ Last(gs) = g /\ g \in SegmentFiles /\ ChainedFiles(gs)
        /\ E = g.base + N
        /\ EndOf(gs) = g.base + ValidPrefix(g)
        /\ Len(g.frames) = N + 1 /\ g.frames[Len(g.frames)] = x
        /\ ValidPrefix(g) = N + 1
        /\ \A i \in 1 .. N : g.frames[i] = f.frames[i]
    BY <1>2, <1>3, FrameAppended DEF N, f, E
  <1>5. PICK rest \in Seq(Msgs) : /\ MessagesIn(fs) = rest \o ValidMessages(f)
                                  /\ MessagesIn(gs) = rest \o ValidMessages(g)
    <2>1. SameFront(fs, g, gs)
      BY <1>2, <1>3, FrameAppended
    <2> QED BY <2>1 DEF SameFront, f
  <1>6. N \in Nat /\ g.base \in Nat
    BY <1>1, <1>4, ScanFacts, StorageAssumption DEF SegmentFiles, N
  <1>7. EndOf(gs) = E + 1 /\ E + 1 \in 0 .. MaxRecords
    <2>1. E < MaxRecords /\ MaxRecords \in Nat
      BY StorageAssumption DEF E
    <2>2. E + 1 \in 0 .. MaxRecords
      BY <1>1, <2>1
    <2>3. EndOf(gs) = g.base + (N + 1) /\ E = g.base + N
      BY <1>4
    <2>4. EndOf(gs) = E + 1
      BY <1>6, <2>3
    <2> QED BY <2>2, <2>4
  <1>8. Whole(gs)
    BY <1>4 DEF Whole, IsIntact
  <1> DEFINE a == ValidMessages(f)
             b == ValidMessages(g)
  <1>9. /\ a \in Seq(Msgs) /\ Len(a) = N /\ b \in Seq(Msgs) /\ Len(b) = N + 1
        /\ \A i \in 1 .. N : a[i] = f.frames[i].msg
        /\ \A i \in 1 .. N + 1 : b[i] = g.frames[i].msg
    <2>1. a \in Seq(Msgs) /\ Len(a) = N /\ b \in Seq(Msgs) /\ Len(b) = N + 1
      BY <1>1, <1>4, ValidMessagesType DEF N
    <2>2. /\ \A i \in 1 .. N : a[i] = f.frames[i].msg
          /\ \A i \in 1 .. N + 1 : b[i] = g.frames[i].msg
      BY <1>4 DEF ValidMessages, N
    <2> QED BY <2>1, <2>2
  <1> HIDE DEF a, b
  <1>10. b = Append(a, m)
    <2>1. /\ Append(a, m) \in Seq(Msgs) /\ Len(Append(a, m)) = N + 1
          /\ Append(a, m)[N + 1] = m /\ \A i \in 1 .. N : Append(a, m)[i] = a[i]
      BY <1>6, <1>9
    <2>2. \A i \in 1 .. N + 1 : b[i] = Append(a, m)[i]
      <3> SUFFICES ASSUME NEW i \in 1 .. N + 1 PROVE b[i] = Append(a, m)[i]
        OBVIOUS
      <3>1. i = N + 1 \/ i \in 1 .. N
        BY <1>6
      <3>2. CASE i = N + 1
        BY <1>2, <1>4, <1>9, <2>1, <3>2
      <3>3. CASE i \in 1 .. N
        BY <1>4, <1>9, <2>1, <3>3
      <3> QED BY <3>1, <3>2, <3>3
    <2> QED BY <1>9, <2>1, <2>2, SeqEqual
  <1>11. MessagesIn(gs) = Append(MessagesIn(fs), m)
    <2>1. MessagesIn(fs) = rest \o a /\ MessagesIn(gs) = rest \o b
      BY <1>5 DEF a, b
    <2>2. b = a \o << m >> /\ << m >> \in Seq(Msgs)
      BY <1>9, <1>10, AppendIsConcat
    <2>3. rest \o (a \o << m >>) = (rest \o a) \o << m >> /\ rest \o a \in Seq(Msgs)
      BY <1>9, <2>2, ConcatAssociative, ConcatProperties
    <2>4. Append(rest \o a, m) = (rest \o a) \o << m >>
      BY <2>3, AppendIsConcat
    <2> QED BY <2>1, <2>2, <2>3, <2>4, Zenon
  <1>12. Len(MessagesIn(gs)) = E + 1
    <2>1. MessagesIn(fs) \in Seq(Msgs)
      BY MessagesType DEF LogOK
    <2>2. Len(MessagesIn(fs)) = E
      BY DEF LogOK, E
    <2> QED BY <1>11, <2>1, <2>2
  <1> QED BY <1>4, <1>7, <1>8, <1>11, <1>12 DEF LogOK, E

\* The debris of a write hides nothing.
LEMMA DebrisAppended ==
  ASSUME NEW fs, LogOK(fs), Whole(fs), fs # << >>, NEW c \in Nat, NEW k \in 1 .. c - 1,
         NEW gs, gs = WithFrame(fs, Debris(k, c))
  PROVE  LogOK(gs) /\ CutShort(gs) /\ MessagesIn(gs) = MessagesIn(fs)
  <1> DEFINE x == Debris(k, c)
             f == Last(fs)
             g == [base |-> Last(fs).base, frames |-> Append(Last(fs).frames, x)]
             N == ValidPrefix(f)
             E == EndOf(fs)
  <1>1. E \in 0 .. MaxRecords /\ f \in SegmentFiles
    <2>1. fs \in Seq(SegmentFiles)
      BY DEF LogOK
    <2> QED BY <2>1, FrontAndLast DEF LogOK
  <1> HIDE DEF f, E
  <1>2. x \in Frames /\ x.kind = "debris" /\ x.bytes = k /\ x.claims = c /\ k < c
    BY NewFrames
  <1> HIDE DEF x, N
  <1>3. Adds(fs, x, g, gs)
    BY DEF Adds, x, E
  <1> HIDE DEF g
  <1>4. /\ gs \in Seq(SegmentFiles) /\ gs # << >> /\ Len(gs) = Len(fs)
        /\ Last(gs) = g /\ g \in SegmentFiles /\ ChainedFiles(gs)
        /\ E = g.base + N
        /\ EndOf(gs) = g.base + ValidPrefix(g)
        /\ Len(g.frames) = N + 1 /\ g.frames[Len(g.frames)] = x
        /\ ValidPrefix(g) = N
        /\ \A i \in 1 .. N : g.frames[i] = f.frames[i]
    BY <1>2, <1>3, FrameAppended DEF N, f, E
  <1>5. PICK rest \in Seq(Msgs) : /\ MessagesIn(fs) = rest \o ValidMessages(f)
                                  /\ MessagesIn(gs) = rest \o ValidMessages(g)
    <2>1. SameFront(fs, g, gs)
      BY <1>2, <1>3, FrameAppended
    <2> QED BY <2>1 DEF SameFront, f
  <1>6. CutShort(gs)
    BY <1>2, <1>4 DEF CutShort, TailOK
  <1>7. ValidMessages(g) = ValidMessages(f)
    BY <1>4 DEF ValidMessages, N
  <1>8. MessagesIn(gs) = MessagesIn(fs)
    BY <1>5, <1>7, Zenon
  <1>9. EndOf(gs) = E
    BY <1>4
  <1> QED BY <1>1, <1>4, <1>6, <1>8, <1>9 DEF LogOK, E

\* The repair leaves every message and makes the last file whole.
LEMMA TailRepaired ==
  ASSUME NEW fs, LogOK(fs), fs # << >>,
         NEW gs, gs = [fs EXCEPT ![Len(fs)].frames = SubSeq(@, 1, ValidPrefix(Last(fs)))]
  PROVE  LogOK(gs) /\ Whole(gs) /\ gs # << >> /\ MessagesIn(gs) = MessagesIn(fs) /\ EndOf(gs) = EndOf(fs)
  <1> DEFINE f == Last(fs)
             N == ValidPrefix(f)
             X == SubSeq(f.frames, 1, N)
             g == [base |-> Last(fs).base, frames |-> X]
  <1>1. fs \in Seq(SegmentFiles) /\ EndOf(fs) \in 0 .. MaxRecords
    BY DEF LogOK
  <1>2. f \in SegmentFiles /\ f = fs[Len(fs)]
    BY <1>1, FrontAndLast
  <1>3. /\ f.frames \in Seq(Frames) /\ N \in 0 .. Len(f.frames) /\ Len(f.frames) \in Nat
        /\ \A i \in 1 .. N : IsValid(f, i)
    BY <1>2, ScanFacts DEF SegmentFiles
  <1>4. EndOf(fs) = f.base + N
    BY DEF EndOf
  <1> HIDE DEF f, N
  <1>5. X \in Seq(Frames) /\ Len(X) = N /\ \A i \in 1 .. N : X[i] = f.frames[i]
    BY <1>3
  <1>6. gs = [fs EXCEPT ![Len(fs)].frames = X]
    BY <1>2 DEF f, N
  <1>7. g = [base |-> Last(fs).base, frames |-> X] /\ g.base = f.base /\ g.frames = X
    BY DEF f
  <1> HIDE DEF X, g
  <1>8. /\ g \in SegmentFiles /\ gs \in Seq(SegmentFiles) /\ gs # << >>
        /\ Len(gs) = Len(fs) /\ Last(gs) = g /\ ChainedFiles(gs)
        /\ EndOf(gs) = g.base + ValidPrefix(g)
        /\ SameFront(fs, g, gs)
    <2>1. EndsIn(fs, g, gs)
      BY <1>5, <1>6, <1>7 DEF EndsIn
    <2> QED BY <2>1, LastReplaced
  <1>9. \A i \in 1 .. N : IsValid(g, i)
    BY <1>3, <1>5, <1>7 DEF IsValid
  <1>10. N \in 0 .. Len(g.frames) /\ ~(N < Len(g.frames))
    BY <1>3, <1>5, <1>7
  <1>11. ValidPrefix(g) = N
    BY <1>8, <1>9, <1>10, ScanUnique
  <1>12. ValidMessages(g) = ValidMessages(f)
    BY <1>5, <1>7, <1>11 DEF ValidMessages, N
  <1>13. MessagesIn(gs) = MessagesIn(fs)
    <2>1. PICK rest \in Seq(Msgs) : /\ MessagesIn(fs) = rest \o ValidMessages(f)
                                    /\ MessagesIn(gs) = rest \o ValidMessages(g)
      BY <1>8 DEF f, SameFront
    <2> QED BY <2>1, <1>12, Zenon
  <1>14. Whole(gs)
    BY <1>5, <1>7, <1>8, <1>11 DEF Whole, IsIntact
  <1>15. EndOf(gs) = EndOf(fs)
    BY <1>4, <1>7, <1>8, <1>11
  <1> QED BY <1>1, <1>8, <1>13, <1>14, <1>15 DEF LogOK

-----------------------------------------------------------------------------
(* The metadata of files.                                                  *)

SegmentMetadata == [base: 0 .. MaxRecords, next: 0 .. MaxRecords, size: Nat]

\* The metadata of one file, all of whose frames are valid.
Metadata(f) ==
  [base |-> f.base, next |-> f.base + Len(f.frames), size |-> SizeOf(f.frames)]

\* recover goes through the files one by one.
LEMMA RecoveredFacts ==
  ASSUME NEW fs \in Seq(SegmentFiles)
  PROVE  /\ RecoveredSegments(fs) \in Seq({ Metadata(f) : f \in SegmentFiles })
         /\ Len(RecoveredSegments(fs)) = Len(fs)
         /\ \A k \in 1 .. Len(fs) : RecoveredSegments(fs)[k] = Metadata(fs[k])
         /\ RecoveredSegments(fs) = << >> <=> fs = << >>
         /\ fs # << >> => Last(RecoveredSegments(fs)) = Metadata(Last(fs))
  <1> DEFINE R == RecoveredSegments(fs)
             n == Len(fs)
             T == { Metadata(f) : f \in SegmentFiles }
  <1>1. n \in Nat /\ DOMAIN fs = 1 .. n /\ \A k \in 1 .. n : fs[k] \in SegmentFiles
    OBVIOUS
  <1>2. R = [k \in 1 .. n |-> Metadata(fs[k])]
    BY <1>1 DEF RecoveredSegments, Metadata
  <1> HIDE DEF n, R
  <1>3. \A k \in 1 .. n : Metadata(fs[k]) \in T
    BY <1>1
  <1> HIDE DEF T
  <1>4. R \in Seq(T)
    BY <1>1, <1>2, <1>3, IsASeq
  <1>5. Len(R) = n /\ \A k \in 1 .. n : R[k] = Metadata(fs[k])
    BY <1>1, <1>2, <1>4, LenProperties
  <1>6. R = << >> <=> fs = << >>
    <2>1. R = << >> <=> Len(R) = 0
      BY <1>4, EmptySeq
    <2>2. fs = << >> <=> Len(fs) = 0
      BY EmptySeq
    <2> QED BY <1>5, <2>1, <2>2 DEF n
  <1>7. fs # << >> => Last(R) = Metadata(Last(fs))
    <2> SUFFICES ASSUME fs # << >> PROVE Last(R) = Metadata(Last(fs))
      OBVIOUS
    <2>1. n \in 1 .. n
      BY <1>1, EmptySeq DEF n
    <2>2. Last(R) = R[n] /\ Last(fs) = fs[n]
      BY <1>5 DEF Last, n
    <2> QED BY <1>5, <2>1, <2>2
  <1> QED BY <1>4, <1>5, <1>6, <1>7 DEF R, T, n

\* The metadata of a whole log stays within the bounds.
LEMMA RecoveredType ==
  ASSUME NEW fs, LogOK(fs), Whole(fs)
  PROVE  RecoveredSegments(fs) \in Seq(SegmentMetadata)
  <1> DEFINE R == RecoveredSegments(fs)
             n == Len(fs)
  <1>1. /\ fs \in Seq(SegmentFiles) /\ n \in Nat /\ DOMAIN fs = 1 .. n
        /\ \A k \in 1 .. n : fs[k] \in SegmentFiles
    BY DEF LogOK
  <1>2. /\ R \in Seq({ Metadata(f) : f \in SegmentFiles }) /\ Len(R) = n
        /\ \A k \in 1 .. n : R[k] = Metadata(fs[k])
    BY <1>1, RecoveredFacts
  <1> HIDE DEF R, n
  <1>3. ASSUME NEW k \in 1 .. n PROVE Metadata(fs[k]) \in SegmentMetadata
    <2>1. /\ fs[k] \in SegmentFiles /\ fs[k].base \in 0 .. MaxRecords
          /\ fs[k].frames \in Seq(Frames) /\ Len(fs[k].frames) \in Nat
      BY <1>1 DEF SegmentFiles
    <2>2. SizeOf(fs[k].frames) \in Nat
      BY <2>1, SizeType
    <2>3. fs[k].base + Len(fs[k].frames) \in 0 .. MaxRecords
      <3>1. CASE k = n
        <4>1. fs # << >> /\ Last(fs) = fs[k]
          BY <1>1, <3>1 DEF Last, n
        <4>2. EndOf(fs) = fs[k].base + Len(fs[k].frames)
          BY <4>1 DEF EndOf, Whole, IsIntact
        <4> QED BY <4>2 DEF LogOK
      <3>2. CASE k # n
        <4>1. k + 1 \in 1 .. n /\ (k + 1) - 1 = k /\ k + 1 # 1
          BY <1>1, <3>2
        <4>2. fs[k + 1].base = fs[k].base + Len(fs[k].frames)
          BY <1>1, <4>1 DEF LogOK, ChainedFiles
        <4>3. fs[k + 1].base \in 0 .. MaxRecords
          BY <1>1, <4>1 DEF SegmentFiles
        <4> QED BY <4>2, <4>3
      <3> QED BY <3>1, <3>2
    <2> QED BY <2>1, <2>2, <2>3 DEF Metadata, SegmentMetadata
  <1>4. R = [k \in 1 .. n |-> R[k]]
    BY <1>2, LenProperties
  <1>5. \A k \in 1 .. n : R[k] \in SegmentMetadata
    BY <1>2, <1>3
  <1>6. [k \in 1 .. n |-> R[k]] \in Seq(SegmentMetadata)
    BY <1>1, <1>5, IsASeq
  <1>7. R \in Seq(SegmentMetadata)
    BY <1>4, <1>6, Zenon
  <1> QED BY <1>7 DEF R

\* create_active_segment: the metadata of the new, empty file.
LEMMA SegmentAdded ==
  ASSUME NEW fs \in Seq(SegmentFiles), NEW e \in 0 .. MaxRecords,
         NEW gs, gs = Append(fs, [base |-> e, frames |-> << >>])
  PROVE  RecoveredSegments(gs) = Append(RecoveredSegments(fs), [base |-> e, next |-> e, size |-> 0])
  <1> DEFINE h == [base |-> e, frames |-> << >>]
             y == [base |-> e, next |-> e, size |-> 0]
             n == Len(fs)
             R == RecoveredSegments(fs)
             Q == RecoveredSegments(gs)
             T == { Metadata(f) : f \in SegmentFiles }
  <1>1. h \in SegmentFiles
    BY DEF SegmentFiles
  <1>2. Metadata(h) = y
    BY SizeAppend DEF Metadata
  <1>3. y \in T
    BY <1>1, <1>2
  <1> HIDE DEF h, y
  <1>4. /\ gs \in Seq(SegmentFiles) /\ n \in Nat /\ Len(gs) = n + 1 /\ gs[n + 1] = h
        /\ \A k \in 1 .. n : gs[k] = fs[k]
    BY <1>1 DEF h
  <1>5. R \in Seq(T) /\ Len(R) = n /\ \A k \in 1 .. n : R[k] = Metadata(fs[k])
    BY RecoveredFacts
  <1>6. Q \in Seq(T) /\ Len(Q) = n + 1 /\ \A k \in 1 .. n + 1 : Q[k] = Metadata(gs[k])
    BY <1>4, RecoveredFacts
  <1> HIDE DEF T, Q, R, n
  <1>7. /\ Append(R, y) \in Seq(T) /\ Len(Append(R, y)) = n + 1
        /\ Append(R, y)[n + 1] = y /\ \A k \in 1 .. n : Append(R, y)[k] = R[k]
    BY <1>3, <1>4, <1>5
  <1>8. \A k \in 1 .. n + 1 : Q[k] = Append(R, y)[k]
    <2> SUFFICES ASSUME NEW k \in 1 .. n + 1 PROVE Q[k] = Append(R, y)[k]
      OBVIOUS
    <2>1. k = n + 1 \/ k \in 1 .. n
      BY <1>4
    <2>2. CASE k = n + 1
      BY <1>2, <1>4, <1>6, <1>7, <2>2
    <2>3. CASE k \in 1 .. n
      BY <1>4, <1>5, <1>6, <1>7, <2>3
    <2> QED BY <2>1, <2>2, <2>3
  <1>9. Q = Append(R, y)
    BY <1>6, <1>7, <1>8, SeqEqual
  <1> QED BY <1>9 DEF Q, R, y

\* A record more in the last file: its size and its end move.
LEMMA RecordAdded ==
  ASSUME NEW fs, LogOK(fs), Whole(fs), fs # << >>, EndOf(fs) < MaxRecords, NEW m \in Msgs,
         NEW gs, gs = WithFrame(fs, Record(EndOf(fs), m)),
         NEW segs, segs = RecoveredSegments(fs)
  PROVE  RecoveredSegments(gs) = [segs EXCEPT ![Len(segs)].size = @ + FrameSize[m],
                                              ![Len(segs)].next = EndOf(fs) + 1]
  <1> DEFINE x == Record(EndOf(fs), m)
             f == Last(fs)
             g == [base |-> Last(fs).base, frames |-> Append(Last(fs).frames, x)]
             N == ValidPrefix(f)
             E == EndOf(fs)
             n == Len(fs)
             Q == RecoveredSegments(gs)
             y == [base |-> f.base, next |-> E + 1, size |-> SizeOf(f.frames) + FrameSize[m]]
  <1>1. fs \in Seq(SegmentFiles) /\ E \in 0 .. MaxRecords /\ n \in Nat \ {0}
    BY EmptySeq DEF LogOK
  <1>2. f \in SegmentFiles /\ f = fs[n]
    BY <1>1, FrontAndLast
  <1>3. x \in Frames /\ x.kind = "record" /\ x.offset = E /\ Bytes(x) = FrameSize[m]
    BY <1>1, NewFrames
  <1>4. Adds(fs, x, g, gs)
    BY DEF Adds
  <1>5. f.frames \in Seq(Frames) /\ N = Len(f.frames) /\ N \in Nat /\ f.base \in Nat /\ E = f.base + N
    BY <1>2, ScanFacts, StorageAssumption DEF SegmentFiles, Whole, IsIntact, EndOf
  <1>6. Metadata(g) = y
    <2>1. SizeOf(Append(f.frames, x)) = SizeOf(f.frames) + FrameSize[m]
      BY <1>3, <1>5, SizeAppend
    <2>2. Len(Append(f.frames, x)) = N + 1
      BY <1>5
    <2>3. f.base + (N + 1) = E + 1
      BY <1>5
    <2>4. g.base = f.base /\ g.frames = Append(f.frames, x)
      OBVIOUS
    <2> HIDE DEF g, x, N, E, f
    <2> QED BY <2>1, <2>2, <2>3, <2>4 DEF Metadata
  <1> HIDE DEF g, x, N, E, y
  <1>7. /\ gs \in Seq(SegmentFiles) /\ Len(gs) = n /\ gs[n] = g
        /\ gs = [fs EXCEPT ![n].frames = g.frames]
    <2>1. gs \in Seq(SegmentFiles) /\ gs # << >> /\ Len(gs) = n /\ Last(gs) = g
      BY <1>3, <1>4, FrameAppended
    <2>2. gs = [fs EXCEPT ![n].frames = g.frames]
      BY <1>3, <1>4, FrameAppended
    <2> QED BY <2>1, <2>2 DEF Last
  <1>8. \A k \in 1 .. n : k # n => gs[k] = fs[k]
    BY <1>1, <1>7
  <1>9. Len(Q) = n /\ \A k \in 1 .. n : Q[k] = Metadata(gs[k])
    BY <1>7, RecoveredFacts
  <1>10. /\ Len(segs) = n /\ DOMAIN segs = 1 .. n
         /\ \A k \in 1 .. n : segs[k] = Metadata(fs[k])
    <2>1. segs \in Seq({ Metadata(ff) : ff \in SegmentFiles }) /\ Len(segs) = n
      BY <1>1, RecoveredFacts
    <2>2. \A k \in 1 .. n : segs[k] = Metadata(fs[k])
      BY <1>1, RecoveredFacts
    <2> QED BY <2>1, <2>2
  <1>11. Q = [k \in 1 .. n |-> Q[k]]
    <2>1. Q \in Seq({ Metadata(ff) : ff \in SegmentFiles })
      BY <1>7, RecoveredFacts
    <2> QED BY <1>9, <2>1
  <1> HIDE DEF Q, n
  <1>12. Q = [segs EXCEPT ![n] = y]
    <2>1. n \in 1 .. n
      BY <1>1
    <2>2. Q[n] = y /\ \A k \in 1 .. n : k # n => Q[k] = segs[k]
      BY <1>6, <1>7, <1>8, <1>9, <1>10, <2>1
    <2> QED BY <1>10, <1>11, <2>1, <2>2
  <1>13. [segs EXCEPT ![n].size = @ + FrameSize[m], ![n].next = E + 1] = [segs EXCEPT ![n] = y]
    <2>1. n \in 1 .. n /\ segs[n] = Metadata(f)
      BY <1>1, <1>2, <1>10
    <2> DEFINE r == segs[n]
    <2>2. r = [base |-> f.base, next |-> f.base + Len(f.frames), size |-> SizeOf(f.frames)]
      BY <2>1 DEF Metadata
    <2> HIDE DEF r, f
    <2> DEFINE z == SizeOf(f.frames) + FrameSize[m]
    <2>3. r.size + FrameSize[m] = z
      BY <2>2
    <2> HIDE DEF z
    <2>4. [r EXCEPT !.size = z] = [base |-> f.base, next |-> f.base + Len(f.frames), size |-> z]
      BY <2>2
    <2>5. [[base |-> f.base, next |-> f.base + Len(f.frames), size |-> z] EXCEPT !.next = E + 1]
            = [base |-> f.base, next |-> E + 1, size |-> z]
      OBVIOUS
    <2>6. [[r EXCEPT !.size = r.size + FrameSize[m]] EXCEPT !.next = E + 1] = y
      BY <2>3, <2>4, <2>5 DEF y, z
    <2> QED BY <1>10, <2>1, <2>6 DEF r
  <1> QED BY <1>10, <1>12, <1>13 DEF E, Q

-----------------------------------------------------------------------------
(* The inductive invariant.                                                *)

\* Every acknowledged message of A is at its offset in the log.
Holds(log, A) == \A a \in A : a[1] < Len(log) /\ log[a[1] + 1] = a[2]

\* The files are a log whose last file is whole or cut short by one write. The
\* acknowledged messages are in it, and the metadata of the open log describes
\* it.
SInv ==
  /\ TypeOK
  /\ LogOK(files)
  /\ CutShort(files)
  /\ status # "failed"
  /\ Holds(Readable, acked)
  /\ status = "up" => /\ Whole(files)
                      /\ segments = RecoveredSegments(files)
                      /\ nextOffset = EndOf(files)

\* A whole log is cut nowhere.
LEMMA WholeIsAccepted ==
  ASSUME NEW fs, Whole(fs)
  PROVE  CutShort(fs)
  BY DEF Whole, CutShort, TailOK

\* One message more does not move the others.
LEMMA AppendHolds ==
  ASSUME NEW log \in Seq(Msgs), NEW A, A \subseteq Nat \X Msgs, Holds(log, A), NEW m \in Msgs,
         NEW longer, longer = Append(log, m)
  PROVE  Holds(longer, A) /\ Holds(longer, A \cup {<<Len(log), m>>})
  <1>1. Len(log) \in Nat /\ Len(longer) = Len(log) + 1 /\ longer[Len(log) + 1] = m
    OBVIOUS
  <1>2. \A i \in 1 .. Len(log) : longer[i] = log[i]
    OBVIOUS
  <1>3. ASSUME NEW a \in A PROVE a[1] < Len(longer) /\ longer[a[1] + 1] = a[2]
    <2>1. a[1] \in Nat /\ a[1] < Len(log) /\ log[a[1] + 1] = a[2]
      BY DEF Holds
    <2>2. a[1] + 1 \in 1 .. Len(log) /\ a[1] < Len(longer)
      BY <1>1, <2>1
    <2> QED BY <1>2, <2>1, <2>2
  <1>4. Holds(longer, A)
    BY <1>3 DEF Holds
  <1> DEFINE b == <<Len(log), m>>
  <1>5. b[1] < Len(longer) /\ longer[b[1] + 1] = b[2]
    BY <1>1
  <1> HIDE DEF b
  <1>6. Holds(longer, A \cup {b})
    BY <1>4, <1>5 DEF Holds
  <1> QED BY <1>4, <1>6 DEF b

\* The files and the metadata an append writes into: those of the open log, or
\* one new segment more.
LEMMA AppendTarget ==
  ASSUME SInv, status = "up", NEW m \in Msgs, NEW fs, fs = FilesForAppend(m)
  PROVE  /\ LogOK(fs) /\ Whole(fs) /\ fs # << >>
         /\ EndOf(fs) = nextOffset /\ MessagesIn(fs) = Readable
         /\ SegmentsForAppend(m) = RecoveredSegments(fs)
         /\ Last(SegmentsForAppend(m)).size = SizeOf(Last(fs).frames)
  <1> USE DEF SInv
  <1>1. files \in Seq(SegmentFiles) /\ nextOffset \in 0 .. MaxRecords
    BY DEF TypeOK, LogOK
  <1>2. /\ segments = << >> <=> files = << >>
        /\ files # << >> => Last(segments).size = SizeOf(Last(files).frames)
    <2>1. RecoveredSegments(files) = << >> <=> files = << >>
      BY <1>1, RecoveredFacts
    <2>2. files # << >> => Last(RecoveredSegments(files)) = Metadata(Last(files))
      BY <1>1, RecoveredFacts
    <2> QED BY <2>1, <2>2 DEF Metadata
  <1>3. CASE NeedsSegment(m)
    <2>1. files = << >> \/ Last(files).frames # << >>
      <3> SUFFICES ASSUME files # << >>, Last(files).frames = << >> PROVE FALSE
        OBVIOUS
      <3>1. Last(segments).size = 0
        BY <1>2, SizeAppend
      <3> QED BY <1>2, <1>3, <3>1 DEF NeedsSegment
    <2>2. fs = Append(files, [base |-> EndOf(files), frames |-> << >>])
      BY <1>3 DEF FilesForAppend
    <2>3. /\ LogOK(fs) /\ Whole(fs) /\ fs # << >>
          /\ EndOf(fs) = EndOf(files) /\ MessagesIn(fs) = MessagesIn(files)
      BY <2>1, <2>2, NewSegment
    <2>4. RecoveredSegments(fs)
            = Append(segments, [base |-> nextOffset, next |-> nextOffset, size |-> 0])
      BY <1>1, <2>2, SegmentAdded
    <2>5. SegmentsForAppend(m) = RecoveredSegments(fs)
      BY <1>3, <2>4 DEF SegmentsForAppend
    <2>6. Last(RecoveredSegments(fs)) = Metadata(Last(fs))
      BY <2>3, RecoveredFacts DEF LogOK
    <2> QED BY <2>3, <2>5, <2>6 DEF Readable, Metadata
  <1>4. CASE ~NeedsSegment(m)
    <2>1. fs = files /\ SegmentsForAppend(m) = segments /\ segments # << >>
      BY <1>4 DEF FilesForAppend, SegmentsForAppend, NeedsSegment
    <2> QED BY <1>2, <2>1 DEF Readable
  <1> QED BY <1>3, <1>4

\* What the next state inherits when the messages are the same or one more.
LEMMA FilesKept ==
  ASSUME SInv, LogOK(files'), CutShort(files'), Holds(Readable', acked'),
         acked' \subseteq (0 .. MaxRecords) \X Msgs,
         \/ status' = "down" /\ segments' = << >> /\ nextOffset' = 0
         \/ /\ status' = "up" /\ Whole(files') /\ segments' = RecoveredSegments(files')
            /\ nextOffset' = EndOf(files')
  PROVE  SInv'
  <1>1. files' \in Seq(SegmentFiles) /\ EndOf(files') \in 0 .. MaxRecords
    BY DEF LogOK
  <1>2. CASE status' = "down" /\ segments' = << >> /\ nextOffset' = 0
    <2>1. << >> \in Seq(SegmentMetadata) /\ 0 \in 0 .. MaxRecords
      BY EmptySeq, StorageAssumption
    <2>2. TypeOK'
      BY <1>1, <1>2, <2>1 DEF TypeOK, SegmentFiles, SegmentMetadata
    <2> QED BY <1>2, <2>2 DEF SInv
  <1>3. CASE /\ status' = "up" /\ Whole(files') /\ segments' = RecoveredSegments(files')
             /\ nextOffset' = EndOf(files')
    <2>1. segments' \in Seq(SegmentMetadata)
      BY <1>3, RecoveredType
    <2>2. TypeOK'
      BY <1>1, <1>3, <2>1 DEF TypeOK, SegmentFiles, SegmentMetadata
    <2> QED BY <1>3, <2>2 DEF SInv
  <1> QED BY <1>2, <1>3

\* Init establishes the invariant.
LEMMA InitInv ==
  ASSUME Init
  PROVE  SInv
  <1>1. /\ status = "up" /\ segments = << >> /\ nextOffset = 0 /\ files = << >> /\ acked = {}
    BY DEF Init
  <1>2. << >> \in Seq(SegmentFiles) /\ << >> \in Seq(SegmentMetadata) /\ 0 \in 0 .. MaxRecords
    BY EmptySeq, StorageAssumption
  <1>3. TypeOK
    BY <1>1, <1>2 DEF TypeOK, SegmentFiles, SegmentMetadata
  <1>4. MessagesIn(<< >>) = << >> /\ Len(<< >>) = 0 /\ EndOf(<< >>) = 0
    BY MessagesAppend, EmptySeq DEF EndOf
  <1>5. ChainedFiles(<< >>)
    BY DEF ChainedFiles
  <1>6. LogOK(files) /\ CutShort(files) /\ Whole(files)
    BY <1>1, <1>2, <1>4, <1>5 DEF LogOK, CutShort, Whole
  <1>7. RecoveredSegments(<< >>) = << >>
    BY <1>2, RecoveredFacts
  <1>8. Holds(Readable, acked)
    BY <1>1 DEF Holds
  <1> QED BY <1>1, <1>3, <1>4, <1>6, <1>7, <1>8 DEF SInv

-----------------------------------------------------------------------------
(* The steps.                                                              *)

\* What a reader sees of a step.
LogStep == Readable' = Readable \/ \E m \in Msgs : Readable' = Append(Readable, m)

\* The state of the open log, and the offsets in it.
LEMMA OpenLog ==
  ASSUME SInv
  PROVE  /\ files \in Seq(SegmentFiles) /\ Readable \in Seq(Msgs)
         /\ Len(Readable) = EndOf(files) /\ acked \subseteq Nat \X Msgs
         /\ acked \subseteq (0 .. MaxRecords) \X Msgs /\ nextOffset \in 0 .. MaxRecords
  <1>1. files \in Seq(SegmentFiles) /\ Len(Readable) = EndOf(files)
    BY DEF SInv, LogOK, Readable
  <1>2. Readable \in Seq(Msgs)
    BY <1>1, MessagesType DEF Readable
  <1>3. acked \subseteq (0 .. MaxRecords) \X Msgs /\ nextOffset \in 0 .. MaxRecords
    BY DEF SInv, TypeOK
  <1>4. acked \subseteq Nat \X Msgs
    BY <1>3, StorageAssumption
  <1> QED BY <1>1, <1>2, <1>3, <1>4

\* An append that succeeds is one message more.
LEMMA AppendSucceedsInv ==
  ASSUME SInv, NEW m \in Msgs, AppendSucceeds(m)
  PROVE  SInv' /\ LogStep
  <1> DEFINE fs == FilesForAppend(m)
             segs == SegmentsForAppend(m)
  <1>1. /\ status = "up" /\ nextOffset < MaxRecords /\ status' = "up"
        /\ files' = WithFrame(fs, Record(nextOffset, m))
        /\ segments' = [segs EXCEPT ![Len(segs)].size = @ + FrameSize[m],
                                    ![Len(segs)].next = nextOffset + 1]
        /\ nextOffset' = nextOffset + 1 /\ acked' = acked \cup {<<nextOffset, m>>}
    BY DEF AppendSucceeds
  <1>2. /\ LogOK(fs) /\ Whole(fs) /\ fs # << >>
        /\ EndOf(fs) = nextOffset /\ MessagesIn(fs) = Readable
        /\ segs = RecoveredSegments(fs)
    BY <1>1, AppendTarget
  <1> HIDE DEF fs, segs
  <1>3. /\ LogOK(files') /\ Whole(files') /\ EndOf(files') = nextOffset + 1
        /\ MessagesIn(files') = Append(Readable, m)
    BY <1>1, <1>2, RecordAppended
  <1>4. segments' = RecoveredSegments(files')
    BY <1>1, <1>2, RecordAdded
  <1>5. Readable' = Append(Readable, m)
    BY <1>3 DEF Readable
  <1>6. Len(Readable) = nextOffset
    BY <1>1, OpenLog DEF SInv
  <1>7. Holds(Readable', acked')
    BY <1>1, <1>5, <1>6, OpenLog, AppendHolds DEF SInv
  <1>8. acked' \subseteq (0 .. MaxRecords) \X Msgs
    BY <1>1, OpenLog
  <1>9. SInv'
    BY <1>1, <1>3, <1>4, <1>7, <1>8, WholeIsAccepted, FilesKept
  <1> QED BY <1>5, <1>9 DEF LogStep

\* A failed append that is rolled back leaves at most a new, empty segment.
LEMMA AppendFailsInv ==
  ASSUME ~RollbackErrors, SInv, NEW m \in Msgs, AppendFails(m)
  PROVE  SInv' /\ LogStep
  <1> DEFINE fs == FilesForAppend(m)
             segs == SegmentsForAppend(m)
  <1>1. /\ status = "up" /\ status' = "up" /\ nextOffset' = nextOffset /\ acked' = acked
        /\ files' = [fs EXCEPT ![Len(fs)].frames = SetLen(@, Last(segs).size)]
        /\ segments' = segs
    BY DEF AppendFails
  <1>2. /\ LogOK(fs) /\ Whole(fs) /\ fs # << >>
        /\ EndOf(fs) = nextOffset /\ MessagesIn(fs) = Readable
        /\ segs = RecoveredSegments(fs) /\ Last(segs).size = SizeOf(Last(fs).frames)
    BY <1>1, AppendTarget
  <1> HIDE DEF fs, segs
  <1>3. files' = fs
    <2>1. fs \in Seq(SegmentFiles)
      BY <1>2 DEF LogOK
    <2>2. Last(fs) \in SegmentFiles /\ Last(fs) = fs[Len(fs)] /\ Len(fs) \in Nat \ {0}
      BY <1>2, <2>1, FrontAndLast
    <2>3. SetLen(Last(fs).frames, SizeOf(Last(fs).frames)) = Last(fs).frames
      BY <2>2, SetLenWhole DEF SegmentFiles
    <2>4. files' = [fs EXCEPT ![Len(fs)].frames = fs[Len(fs)].frames]
      BY <1>1, <1>2, <2>2, <2>3
    <2>5. [fs[Len(fs)] EXCEPT !.frames = fs[Len(fs)].frames] = fs[Len(fs)]
      BY <2>2 DEF SegmentFiles
    <2> QED BY <2>1, <2>2, <2>4, <2>5
  <1>4. Readable' = Readable
    BY <1>2, <1>3 DEF Readable
  <1>5. Holds(Readable', acked') /\ acked' \subseteq (0 .. MaxRecords) \X Msgs
    BY <1>1, <1>4, OpenLog DEF SInv
  <1>6. /\ LogOK(files') /\ Whole(files') /\ segments' = RecoveredSegments(files')
        /\ nextOffset' = EndOf(files')
    BY <1>1, <1>2, <1>3
  <1>7. SInv'
    BY <1>1, <1>5, <1>6, WholeIsAccepted, FilesKept
  <1> QED BY <1>4, <1>7 DEF LogStep

\* A crash inside an append leaves the messages, or one more.
LEMMA CrashInAppendInv ==
  ASSUME SInv, NEW m \in Msgs, CrashInAppend(m)
  PROVE  SInv' /\ LogStep
  <1> DEFINE fs == FilesForAppend(m)
  <1>1. /\ status = "up" /\ nextOffset < MaxRecords /\ acked' = acked
        /\ status' = "down" /\ segments' = << >> /\ nextOffset' = 0
    BY DEF CrashInAppend
  <1>2. /\ LogOK(fs) /\ Whole(fs) /\ fs # << >>
        /\ EndOf(fs) = nextOffset /\ MessagesIn(fs) = Readable
    BY <1>1, AppendTarget
  <1>3. \/ files' = files
        \/ files' = fs
        \/ \E k \in 1 .. FrameSize[m] - 1 : files' = WithFrame(fs, Debris(k, FrameSize[m]))
        \/ files' = WithFrame(fs, Record(nextOffset, m))
    BY DEF CrashInAppend
  <1> HIDE DEF fs
  <1>4. Holds(Readable, acked) /\ acked' \subseteq (0 .. MaxRecords) \X Msgs
    BY <1>1, OpenLog DEF SInv
  <1>5. CASE files' = files
    <2>1. Readable' = Readable /\ LogOK(files') /\ CutShort(files')
      BY <1>5 DEF Readable, SInv
    <2>2. Holds(Readable', acked')
      BY <1>1, <1>4, <2>1
    <2> QED BY <1>1, <1>4, <2>1, <2>2, FilesKept DEF LogStep
  <1>6. CASE files' = fs
    <2>1. Readable' = Readable /\ LogOK(files') /\ CutShort(files')
      BY <1>2, <1>6, WholeIsAccepted DEF Readable
    <2>2. Holds(Readable', acked')
      BY <1>1, <1>4, <2>1
    <2> QED BY <1>1, <1>4, <2>1, <2>2, FilesKept DEF LogStep
  <1>7. CASE \E k \in 1 .. FrameSize[m] - 1 : files' = WithFrame(fs, Debris(k, FrameSize[m]))
    <2>1. PICK k \in 1 .. FrameSize[m] - 1 : files' = WithFrame(fs, Debris(k, FrameSize[m]))
      BY <1>7
    <2>2. FrameSize[m] \in Nat
      BY StorageAssumption
    <2>3. LogOK(files') /\ CutShort(files') /\ MessagesIn(files') = MessagesIn(fs)
      BY <1>2, <2>1, <2>2, DebrisAppended
    <2>4. Readable' = Readable
      BY <1>2, <2>3 DEF Readable
    <2>5. Holds(Readable', acked')
      BY <1>1, <1>4, <2>4
    <2> QED BY <1>1, <1>4, <2>3, <2>4, <2>5, FilesKept DEF LogStep
  <1>8. CASE files' = WithFrame(fs, Record(nextOffset, m))
    <2>1. /\ LogOK(files') /\ Whole(files')
          /\ MessagesIn(files') = Append(Readable, m)
      BY <1>1, <1>2, <1>8, RecordAppended
    <2>2. Readable' = Append(Readable, m)
      BY <2>1 DEF Readable
    <2>3. Holds(Readable', acked)
      BY <1>4, <2>2, OpenLog, AppendHolds
    <2> QED BY <1>1, <1>4, <2>1, <2>2, <2>3, WholeIsAccepted, FilesKept DEF LogStep
  <1> QED BY <1>3, <1>5, <1>6, <1>7, <1>8

\* A crash between appends leaves the files alone.
LEMMA CrashInv ==
  ASSUME SInv, Crash
  PROVE  SInv' /\ LogStep
  <1>1. /\ status' = "down" /\ segments' = << >> /\ nextOffset' = 0
        /\ files' = files /\ acked' = acked
    BY DEF Crash
  <1>2. Readable' = Readable /\ LogOK(files') /\ CutShort(files')
    BY <1>1 DEF Readable, SInv
  <1>3. Holds(Readable', acked') /\ acked' \subseteq (0 .. MaxRecords) \X Msgs
    BY <1>1, <1>2, OpenLog DEF SInv
  <1> QED BY <1>1, <1>2, <1>3, FilesKept DEF LogStep

\* Opening repairs the last file and recovers the metadata of a whole log.
LEMMA OpenSucceedsInv ==
  ASSUME SInv, OpenSucceeds
  PROVE  SInv' /\ LogStep
  <1>1. /\ status' = "up" /\ files' = RepairedFiles /\ segments' = RecoveredSegments(files')
        /\ nextOffset' = (IF files = << >> THEN 0 ELSE Last(segments').next) /\ acked' = acked
    BY DEF OpenSucceeds
  <1>2. LogOK(files') /\ Whole(files') /\ MessagesIn(files') = Readable /\ nextOffset' = EndOf(files')
    <2>1. CASE files = << >>
      BY <1>1, <2>1 DEF RepairedFiles, SInv, Whole, EndOf, Readable
    <2>2. CASE files # << >>
      <3>1. files' = [files EXCEPT ![Len(files)].frames = SubSeq(@, 1, ValidPrefix(Last(files)))]
        BY <1>1, <2>2 DEF RepairedFiles
      <3>2. LogOK(files') /\ Whole(files') /\ files' # << >> /\ MessagesIn(files') = Readable
        BY <2>2, <3>1, TailRepaired DEF SInv, Readable
      <3>3. Last(segments') = Metadata(Last(files'))
        BY <1>1, <3>2, RecoveredFacts DEF LogOK
      <3>4. nextOffset' = Last(files').base + Len(Last(files').frames)
        BY <1>1, <2>2, <3>3 DEF Metadata
      <3>5. EndOf(files') = Last(files').base + Len(Last(files').frames)
        BY <3>2 DEF EndOf, Whole, IsIntact
      <3> QED BY <3>2, <3>4, <3>5
    <2> QED BY <2>1, <2>2
  <1>3. Readable' = Readable
    BY <1>2 DEF Readable
  <1>4. Holds(Readable', acked') /\ acked' \subseteq (0 .. MaxRecords) \X Msgs
    BY <1>1, <1>3, OpenLog DEF SInv
  <1> QED BY <1>1, <1>2, <1>3, <1>4, WholeIsAccepted, FilesKept DEF LogStep

\* The debris of one write at the end of the last file is repaired, never
\* rejected: its length field, where it was written whole, claims more bytes
\* than the file has left.
LEMMA DebrisRepaired ==
  ASSUME NEW f \in SegmentFiles, TailOK(f)
  PROVE  ~IsRejectable(f)
  <1> SUFFICES ASSUME IsRejectable(f) PROVE FALSE
    OBVIOUS
  <1> DEFINE L == Len(f.frames)
             d == f.frames[L]
             tail == SubSeq(f.frames, L, L)
  <1>1. /\ ValidPrefix(f) + 1 = L /\ d.kind = "debris" /\ d.bytes < d.claims
    BY DEF IsRejectable, TailOK
  <1>2. f.frames \in Seq(Frames) /\ L \in Nat \ {0}
    BY <1>1, ScanFacts DEF SegmentFiles
  <1>3. d \in Frames
    BY <1>2
  <1> HIDE DEF L, d
  <1>4. Bytes(d) = d.bytes /\ Claimed(d) = d.claims /\ d.bytes \in Nat /\ d.claims \in Nat
    BY <1>1, <1>3 DEF Bytes, Claimed, Frames
  <1>5. tail = Append(<< >>, d)
    <2>1. tail \in Seq(Frames) /\ Len(tail) = 1 /\ tail[1] = d
      BY <1>2, <1>3 DEF d, L
    <2>2. Append(<< >>, d) \in Seq(Frames) /\ Len(Append(<< >>, d)) = 1 /\ Append(<< >>, d)[1] = d
      BY <1>3
    <2> HIDE DEF tail
    <2>3. \A i \in 1 .. Len(tail) : tail[i] = Append(<< >>, d)[i]
      BY <2>1, <2>2
    <2> QED BY <2>1, <2>2, <2>3, SeqEqual
  <1> HIDE DEF tail
  <1>6. SizeOf(tail) = d.bytes
    <2>1. << >> \in Seq(Frames)
      OBVIOUS
    <2>2. SizeOf(Append(<< >>, d)) = SizeOf(<< >>) + Bytes(d)
      BY <2>1, SizeAppend
    <2> QED BY <1>4, <1>5, <2>2, SizeAppend
  <1>7. Remaining(f) = d.bytes
    BY <1>1, <1>6 DEF Remaining, L, tail
  <1>8. d.bytes >= LengthBytes
    BY <1>7 DEF IsRejectable
  <1>9. ClaimedSizes(f) = {d.claims}
    <2>1. ~(Bytes(d) < LengthBytes)
      BY <1>4, <1>8, StorageAssumption
    <2>2. f.frames[ValidPrefix(f) + 1] = d
      BY <1>1 DEF d
    <2> QED BY <1>4, <2>1, <2>2 DEF ClaimedSizes
  <1>10. PICK size \in ClaimedSizes(f) : size < Remaining(f)
    BY DEF IsRejectable
  <1> QED BY <1>1, <1>4, <1>7, <1>9, <1>10

\* Opening never fails.
LEMMA OpenFailsInv ==
  ASSUME SInv, OpenFails
  PROVE  FALSE
  <1>1. EarlierFilesAccepted
    BY DEF SInv, LogOK, ChainedFiles, EarlierFilesAccepted, IsChained
  <1>2. files # << >> /\ IsRejectable(Last(files))
    BY <1>1 DEF OpenFails
  <1>3. TailOK(Last(files)) /\ Last(files) \in SegmentFiles
    BY <1>2, OpenLog, FrontAndLast DEF SInv, CutShort
  <1> QED BY <1>2, <1>3, DebrisRepaired

\* Every step preserves the invariant and is a step of the abstract log.
LEMMA NextInv ==
  ASSUME ~RollbackErrors, SInv, [Next]_vars
  PROVE  SInv' /\ LogStep
  <1>1. CASE UNCHANGED vars
    BY <1>1 DEF vars, SInv, TypeOK, Readable, LogStep
  <1>2. ASSUME NEW m \in Msgs, AppendSucceeds(m) PROVE SInv' /\ LogStep
    BY <1>2, AppendSucceedsInv
  <1>3. ASSUME NEW m \in Msgs, AppendFails(m) PROVE SInv' /\ LogStep
    BY <1>3, AppendFailsInv
  <1>4. ASSUME NEW m \in Msgs, CrashInAppend(m) PROVE SInv' /\ LogStep
    BY <1>4, CrashInAppendInv
  <1>5. CASE Crash
    BY <1>5, CrashInv
  <1>6. CASE OpenSucceeds
    BY <1>6, OpenSucceedsInv
  <1>7. CASE OpenFails
    BY <1>7, OpenFailsInv
  <1> QED BY <1>1, <1>2, <1>3, <1>4, <1>5, <1>6, <1>7 DEF Next

-----------------------------------------------------------------------------
(* Rollbacks that fail. What a scan meets, and what the metadata knows of  *)
(* the last file, when debris may stay anywhere.                           *)

\* The scan of a file stops only at the debris of a write, no debris has the
\* bytes it claims, and the offsets keep the bound.
ScarOK(f) ==
  /\ f \in SegmentFiles
  /\ ValidPrefix(f) < Len(f.frames) => f.frames[ValidPrefix(f) + 1].kind = "debris"
  /\ \A i \in 1 .. Len(f.frames) :
       /\ f.frames[i].kind = "debris" => f.frames[i].bytes < f.frames[i].claims
       /\ f.frames[i].kind = "record" => f.frames[i].offset < MaxRecords

\* A file begins where it should as long as no file before it is damaged.
ChainedUntilScar(fs) ==
  \A k \in 1 .. Len(fs) : (\A j \in 1 .. k - 1 : IsIntact(fs[j])) =>
    /\ fs[k].base = IF k = 1 THEN 0 ELSE fs[k - 1].base + Len(fs[k - 1].frames)
    /\ \A j \in 1 .. k - 1 : fs[j].frames # << >>

Scarred(fs) ==
  /\ fs \in Seq(SegmentFiles)
  /\ \A k \in 1 .. Len(fs) : ScarOK(fs[k])
  /\ ChainedUntilScar(fs)

\* The bytes of f before the place where a scan stops.
ValidBytes(f) == SizeOf(SubSeq(f.frames, 1, ValidPrefix(f)))

\* What the metadata of the last segment knows of its file: size lies between
\* the valid bytes and the end of the file, and next is the offset that belongs
\* there as long as nothing was appended behind debris.
Tracks(f, size, next) ==
  /\ ValidBytes(f) <= size /\ size <= SizeOf(f.frames)
  /\ size = ValidBytes(f) => next = f.base + ValidPrefix(f)

\* The bytes of the prefixes of s: one frame more is so many bytes more.
LEMMA PrefixSizes ==
  ASSUME NEW s \in Seq(Frames)
  PROVE  /\ SizeOf(SubSeq(s, 1, 0)) = 0
         /\ SizeOf(SubSeq(s, 1, Len(s))) = SizeOf(s)
         /\ \A n \in 0 .. Len(s) : /\ SubSeq(s, 1, n) \in Seq(Frames)
                                   /\ SizeOf(SubSeq(s, 1, n)) \in Nat
         /\ \A n \in 0 .. Len(s) - 1 :
              /\ SizeOf(SubSeq(s, 1, n + 1)) = SizeOf(SubSeq(s, 1, n)) + Bytes(s[n + 1])
              /\ Bytes(s[n + 1]) \in Nat \ {0}
  <1> DEFINE P(n) == SubSeq(s, 1, n)
             N == Len(s)
  <1>1. N \in Nat
    OBVIOUS
  <1>2. P(0) = << >> /\ P(N) = s
    <2>1. P(0) \in Seq(Frames) /\ Len(P(0)) = 0
      OBVIOUS
    <2>2. P(0) = << >>
      BY <2>1, EmptySeq
    <2> QED BY <2>2
  <1>3. \A n \in 0 .. N : P(n) \in Seq(Frames)
    OBVIOUS
  <1>4. ASSUME NEW n \in 0 .. N - 1
        PROVE  P(n + 1) = Append(P(n), s[n + 1]) /\ s[n + 1] \in Frames
    <2>1. s[n + 1] \in Frames
      OBVIOUS
    <2>2. /\ P(n + 1) \in Seq(Frames) /\ Len(P(n + 1)) = n + 1
          /\ \A i \in 1 .. n + 1 : P(n + 1)[i] = s[i]
      OBVIOUS
    <2>3. /\ P(n) \in Seq(Frames) /\ Len(P(n)) = n
          /\ \A i \in 1 .. n : P(n)[i] = s[i]
      OBVIOUS
    <2> HIDE DEF P
    <2>4. /\ Append(P(n), s[n + 1]) \in Seq(Frames) /\ Len(Append(P(n), s[n + 1])) = n + 1
          /\ \A i \in 1 .. n + 1 : Append(P(n), s[n + 1])[i] = s[i]
      BY <2>1, <2>3
    <2>5. P(n + 1) = Append(P(n), s[n + 1])
      BY <2>2, <2>4, SeqEqual
    <2> QED BY <2>1, <2>5
  <1> HIDE DEF P, N
  <1>5. \A n \in 0 .. N : SizeOf(P(n)) \in Nat
    BY <1>3, SizeType
  <1>6. ASSUME NEW n \in 0 .. N - 1
        PROVE  SizeOf(P(n + 1)) = SizeOf(P(n)) + Bytes(s[n + 1]) /\ Bytes(s[n + 1]) \in Nat \ {0}
    <2>1. P(n) \in Seq(Frames)
      BY <1>1, <1>3
    <2> QED BY <1>4, <2>1, SizeAppend, FrameFacts
  <1>7. SizeOf(P(0)) = 0 /\ SizeOf(P(N)) = SizeOf(s)
    BY <1>2, SizeAppend
  <1> QED BY <1>3, <1>5, <1>6, <1>7 DEF P, N

\* A longer prefix is not smaller.
LEMMA PrefixesGrow ==
  ASSUME NEW s \in Seq(Frames), NEW n \in 0 .. Len(s), NEW m \in 0 .. n
  PROVE  SizeOf(SubSeq(s, 1, m)) <= SizeOf(SubSeq(s, 1, n))
  <1> DEFINE t == SubSeq(s, 1, n)
  <1>1. t \in Seq(Frames) /\ Len(t) = n /\ \A i \in 1 .. n : t[i] = s[i]
    OBVIOUS
  <1>2. SubSeq(t, 1, m) = SubSeq(s, 1, m)
    <2>1. n \in Nat /\ m \in Nat /\ m <= n /\ m <= Len(s)
      OBVIOUS
    <2> HIDE DEF t
    <2>2. /\ SubSeq(t, 1, m) \in Seq(Frames) /\ Len(SubSeq(t, 1, m)) = m
          /\ \A i \in 1 .. m : SubSeq(t, 1, m)[i] = t[i]
      BY <1>1, <2>1
    <2>3. /\ SubSeq(s, 1, m) \in Seq(Frames) /\ Len(SubSeq(s, 1, m)) = m
          /\ \A i \in 1 .. m : SubSeq(s, 1, m)[i] = s[i]
      BY <2>1
    <2>4. \A i \in 1 .. m : SubSeq(t, 1, m)[i] = SubSeq(s, 1, m)[i]
      BY <1>1, <2>1, <2>2, <2>3
    <2> QED BY <2>2, <2>3, <2>4, SeqEqual
  <1> HIDE DEF t
  <1>3. SizeOf(SubSeq(t, 1, m)) <= SizeOf(t)
    BY <1>1, SizePrefix
  <1> QED BY <1>2, <1>3 DEF t

\* t is s cut to len bytes: w whole frames, and perhaps a part of the next.
Cut(s, len, t, w) ==
  /\ w \in 0 .. Len(s) /\ t \in Seq(Frames) /\ SizeOf(t) = len
  /\ \A i \in 1 .. w : t[i] = s[i]
  /\ \/ Len(t) = w /\ SizeOf(SubSeq(s, 1, w)) = len
     \/ /\ w < Len(s) /\ Len(t) = w + 1
        /\ t[w + 1].kind = "debris" /\ t[w + 1].bytes < t[w + 1].claims
        /\ len < SizeOf(SubSeq(s, 1, w + 1))

\* No debris in s has the bytes it claims.
ShortDebris(s) == \A i \in 1 .. Len(s) : s[i].kind = "debris" => s[i].bytes < s[i].claims

\* File::set_len cuts.
LEMMA SetLenCuts ==
  ASSUME NEW s \in Seq(Frames), ShortDebris(s), NEW len \in Nat, len <= SizeOf(s),
         NEW t, t = SetLen(s, len)
  PROVE  \E w : Cut(s, len, t, w)
  <1> DEFINE N == Len(s)
             Z(n) == SizeOf(SubSeq(s, 1, n))
             IsWhole(n) == Z(n) <= len /\ (n < N => Z(n + 1) > len)
             w == CHOOSE n \in 0 .. N : IsWhole(n)
             rest == len - Z(w)
             T == { n \in 0 .. N : n = N \/ Z(n + 1) > len }
  <1>1. N \in Nat
    OBVIOUS
  <1>2. /\ Z(0) = 0 /\ Z(N) = SizeOf(s)
        /\ \A n \in 0 .. N : SubSeq(s, 1, n) \in Seq(Frames) /\ Z(n) \in Nat
        /\ \A n \in 0 .. N - 1 : Z(n + 1) = Z(n) + Bytes(s[n + 1]) /\ Bytes(s[n + 1]) \in Nat \ {0}
    BY PrefixSizes
  <1>3. t = SubSeq(s, 1, w) \o IF rest = 0 THEN << >> ELSE <<Debris(rest, Claimed(s[w + 1]))>>
    BY DEF SetLen
  <1> HIDE DEF Z
  <1>4. \E n \in 0 .. N : IsWhole(n)
    <2>1. T \subseteq Nat /\ N \in T
      BY <1>1
    <2>2. PICK n \in T : \A m \in T : n <= m
      <3> HIDE DEF T
      <3> QED BY <2>1, LeastElement
    <2>3. n \in 0 .. N /\ (n < N => Z(n + 1) > len)
      BY <1>1, <2>2
    <2>4. Z(n) <= len
      <3>1. CASE n = 0
        BY <1>2, <3>1
      <3>2. CASE n # 0
        <4>1. n - 1 \in 0 .. N /\ (n - 1) + 1 = n /\ n - 1 # N /\ ~(n <= n - 1)
          <5> HIDE DEF T
          <5> QED BY <1>1, <2>3, <3>2
        <4>2. n - 1 \notin T
          <5> HIDE DEF T, N
          <5> QED BY <2>2, <4>1
        <4>3. ~(Z((n - 1) + 1) > len)
          <5> HIDE DEF N
          <5> QED BY <4>1, <4>2
        <4>4. Z(n) \in Nat /\ ~(Z(n) > len)
          BY <1>2, <2>3, <4>1, <4>3
        <4> QED BY <4>4
      <3> QED BY <3>1, <3>2
    <2> QED BY <2>3, <2>4
  <1>5. w \in 0 .. N /\ IsWhole(w)
    <2> HIDE DEF IsWhole
    <2> QED BY <1>4
  <1> HIDE DEF w, T
  <1>6. Z(w) \in Nat /\ rest \in Nat /\ Z(w) + rest = len
    BY <1>2, <1>5
  <1> DEFINE P == SubSeq(s, 1, w)
  <1>7. /\ P \in Seq(Frames) /\ Len(P) = w /\ SizeOf(P) = Z(w)
        /\ \A i \in 1 .. w : P[i] = s[i]
    BY <1>1, <1>5 DEF Z
  <1>8. t = P \o IF rest = 0 THEN << >> ELSE <<Debris(rest, Claimed(s[w + 1]))>>
    BY <1>3
  <1> HIDE DEF P, rest
  <1>9. CASE rest = 0
    <2>1. t = P
      <3>1. t = P \o << >>
        BY <1>8, <1>9
      <3> QED BY <1>7, <3>1, ConcatEmptySeq
    <2>2. SizeOf(t) = len /\ Z(w) = len
      BY <1>6, <1>7, <1>9, <2>1
    <2>3. Cut(s, len, t, w)
      BY <1>5, <1>7, <2>1, <2>2 DEF Cut, Z, N
    <2> QED BY <2>3
  <1>10. CASE rest # 0
    <2> DEFINE c == Claimed(s[w + 1])
               d == Debris(rest, c)
    <2>1. w < N /\ w \in 0 .. N - 1
      <3>1. w # N
        BY <1>2, <1>6, <1>10
      <3> QED BY <1>1, <1>5, <3>1
    <2>2. s[w + 1] \in Frames /\ w + 1 \in 1 .. N
      BY <2>1
    <2>3. len < Z(w + 1) /\ Z(w + 1) = Z(w) + Bytes(s[w + 1]) /\ Bytes(s[w + 1]) \in Nat
      BY <1>2, <1>5, <2>1
    <2>4. c \in Nat /\ Bytes(s[w + 1]) <= c
      <3>1. CASE s[w + 1].kind = "record"
        <4>1. c = Bytes(s[w + 1])
          BY <3>1 DEF Claimed, Bytes
        <4> QED BY <2>3, <4>1
      <3>2. CASE s[w + 1].kind # "record"
        <4>1. s[w + 1].kind = "debris"
          BY <2>2, <3>2, FrameFacts
        <4>2. Bytes(s[w + 1]) = s[w + 1].bytes /\ c = s[w + 1].claims
          BY <2>2, <4>1, FrameFacts
        <4>3. s[w + 1].bytes \in Nat /\ s[w + 1].claims \in Nat
          BY <2>2, <4>1 DEF Frames
        <4>4. s[w + 1].bytes < s[w + 1].claims
          BY <2>2, <4>1 DEF ShortDebris
        <4> QED BY <4>2, <4>3, <4>4
      <3> QED BY <3>1, <3>2
    <2>5. rest < c /\ rest \in Nat \ {0}
      BY <1>6, <1>10, <2>3, <2>4
    <2> HIDE DEF c
    <2>6. d \in Frames /\ d.kind = "debris" /\ d.bytes = rest /\ d.claims = c /\ Bytes(d) = rest
      BY <2>4, <2>5, NewFrames
    <2>7. t = P \o << d >>
      BY <1>8, <1>10 DEF c
    <2> HIDE DEF d
    <2>8. t = Append(P, d)
      BY <1>7, <2>6, <2>7, AppendIsConcat
    <2>9. SizeOf(t) = len
      BY <1>6, <1>7, <2>6, <2>8, SizeAppend
    <2>10. /\ t \in Seq(Frames) /\ Len(t) = w + 1 /\ t[w + 1] = d
           /\ \A i \in 1 .. w : t[i] = s[i]
      BY <1>5, <1>7, <2>6, <2>8
    <2>11. Cut(s, len, t, w)
      BY <1>5, <2>1, <2>3, <2>5, <2>6, <2>9, <2>10 DEF Cut, Z, N
    <2> QED BY <2>11
  <1> QED BY <1>9, <1>10

\* g is f with the frames X.
Reframed(f, X, g) == X \in Seq(Frames) /\ g = [base |-> f.base, frames |-> X]

\* Where the scan of g stops when g begins with what the scan of f accepted and
\* goes on, if it does, with debris.
LEMMA ScanKept ==
  ASSUME NEW f, ScarOK(f), NEW X, NEW g, Reframed(f, X, g),
         Len(X) >= ValidPrefix(f), \A i \in 1 .. ValidPrefix(f) : X[i] = f.frames[i],
         Len(X) > ValidPrefix(f) => X[ValidPrefix(f) + 1].kind = "debris"
  PROVE  /\ g \in SegmentFiles /\ g.base = f.base /\ g.frames = X
         /\ ValidPrefix(g) = ValidPrefix(f) /\ ValidBytes(g) = ValidBytes(f)
  <1> DEFINE V == ValidPrefix(f)
  <1>1. f \in SegmentFiles
    BY DEF ScarOK
  <1>2. /\ f.frames \in Seq(Frames) /\ Len(f.frames) \in Nat /\ V \in 0 .. Len(f.frames)
        /\ \A i \in 1 .. V : IsValid(f, i)
    BY <1>1, ScanFacts DEF SegmentFiles
  <1>3. X \in Seq(Frames) /\ Len(X) \in Nat /\ g.base = f.base /\ g.frames = X
    BY DEF Reframed
  <1>4. g \in SegmentFiles
    BY <1>1 DEF Reframed, SegmentFiles
  <1>5. /\ Len(X) >= V /\ \A i \in 1 .. V : X[i] = f.frames[i]
        /\ Len(X) > V => X[V + 1].kind = "debris"
    OBVIOUS
  <1> HIDE DEF V
  <1>6. \A i \in 1 .. V : IsValid(g, i)
    BY <1>2, <1>3, <1>5 DEF IsValid
  <1>7. V \in 0 .. Len(g.frames) /\ (V < Len(g.frames) => ~IsValid(g, V + 1))
    BY <1>2, <1>3, <1>5 DEF IsValid
  <1>8. ValidPrefix(g) = V
    BY <1>4, <1>6, <1>7, ScanUnique
  <1>9. SubSeq(X, 1, V) = SubSeq(f.frames, 1, V)
    <2>1. V \in Nat /\ V <= Len(X) /\ V <= Len(f.frames)
      BY <1>2, <1>3, <1>5
    <2>2. /\ SubSeq(X, 1, V) \in Seq(Frames) /\ Len(SubSeq(X, 1, V)) = V
          /\ \A i \in 1 .. V : SubSeq(X, 1, V)[i] = X[i]
      BY <1>3, <2>1
    <2>3. /\ SubSeq(f.frames, 1, V) \in Seq(Frames) /\ Len(SubSeq(f.frames, 1, V)) = V
          /\ \A i \in 1 .. V : SubSeq(f.frames, 1, V)[i] = f.frames[i]
      BY <1>2, <2>1
    <2>4. \A i \in 1 .. V : SubSeq(X, 1, V)[i] = SubSeq(f.frames, 1, V)[i]
      BY <1>5, <2>2, <2>3
    <2> QED BY <2>2, <2>3, <2>4, SeqEqual
  <1>10. ValidBytes(g) = ValidBytes(f)
    BY <1>3, <1>8, <1>9 DEF ValidBytes, V
  <1> QED BY <1>3, <1>4, <1>8, <1>10 DEF V

\* The valid bytes of a file are a part of it, and all of an intact one.
LEMMA ValidBytesFacts ==
  ASSUME NEW f \in SegmentFiles
  PROVE  /\ ValidBytes(f) \in Nat /\ SizeOf(f.frames) \in Nat /\ ValidBytes(f) <= SizeOf(f.frames)
         /\ IsIntact(f) => ValidBytes(f) = SizeOf(f.frames)
  <1>1. f.frames \in Seq(Frames) /\ ValidPrefix(f) \in 0 .. Len(f.frames)
    BY ScanFacts DEF SegmentFiles
  <1>2. ValidBytes(f) \in Nat /\ ValidBytes(f) <= SizeOf(f.frames)
    BY <1>1, SizePrefix DEF ValidBytes
  <1>3. IsIntact(f) => ValidBytes(f) = SizeOf(f.frames)
    BY <1>1, PrefixSizes DEF ValidBytes, IsIntact
  <1> QED BY <1>1, <1>2, <1>3, SizeType

\* A rollback to the size the metadata has takes nothing of what a scan
\* accepts, and leaves no damage but debris.
LEMMA ScarCut ==
  ASSUME NEW f, ScarOK(f), NEW size \in Nat, NEW next, Tracks(f, size, next),
         NEW X, X = SetLen(f.frames, size), NEW g, g = [base |-> f.base, frames |-> X]
  PROVE  ScarOK(g) /\ Tracks(g, size, next) /\ X \in Seq(Frames)
  <1> DEFINE s == f.frames
             V == ValidPrefix(f)
  <1>1. f \in SegmentFiles
    BY DEF ScarOK
  <1>2. s \in Seq(Frames) /\ Len(s) \in Nat /\ V \in 0 .. Len(s)
    BY <1>1, ScanFacts DEF SegmentFiles
  <1>3. /\ ShortDebris(s) /\ (V < Len(s) => s[V + 1].kind = "debris")
        /\ \A i \in 1 .. Len(s) : s[i].kind = "record" => s[i].offset < MaxRecords
    BY DEF ScarOK, ShortDebris
  <1>4. SizeOf(SubSeq(s, 1, V)) <= size /\ size <= SizeOf(s)
    BY DEF Tracks, ValidBytes
  <1>5. PICK w : Cut(s, size, X, w)
    BY <1>2, <1>3, <1>4, SetLenCuts
  <1>6. /\ w \in 0 .. Len(s) /\ X \in Seq(Frames) /\ SizeOf(X) = size /\ Len(X) \in Nat
        /\ \A i \in 1 .. w : X[i] = s[i]
        /\ \/ Len(X) = w /\ SizeOf(SubSeq(s, 1, w)) = size
           \/ /\ w < Len(s) /\ Len(X) = w + 1
              /\ X[w + 1].kind = "debris" /\ X[w + 1].bytes < X[w + 1].claims
              /\ size < SizeOf(SubSeq(s, 1, w + 1))
    BY <1>5 DEF Cut
  <1> HIDE DEF s, V
  <1>7. w >= V
    <2> SUFFICES ASSUME w < V PROVE FALSE
      BY <1>2, <1>6
    <2> DEFINE a == SizeOf(SubSeq(s, 1, w))
               b == SizeOf(SubSeq(s, 1, w + 1))
               c == SizeOf(SubSeq(s, 1, V))
    <2>1. w + 1 \in 0 .. V /\ w \in 0 .. Len(s) - 1 /\ V \in 0 .. Len(s)
      BY <1>2, <1>6
    <2>2. b <= c
      BY <1>2, <2>1, PrefixesGrow
    <2>3. a \in Nat /\ b \in Nat /\ c \in Nat /\ a < b
      <3>1. /\ SizeOf(SubSeq(s, 1, w + 1)) = SizeOf(SubSeq(s, 1, w)) + Bytes(s[w + 1])
            /\ Bytes(s[w + 1]) \in Nat \ {0}
        BY <1>2, <2>1, PrefixSizes
      <3>2. w \in 0 .. Len(s) /\ w + 1 \in 0 .. Len(s)
        BY <1>2, <2>1
      <3>3. a \in Nat /\ b \in Nat /\ c \in Nat
        BY <1>2, <2>1, <3>2, PrefixSizes
      <3> QED BY <3>1, <3>3
    <2>4. c <= size /\ (a = size \/ size < b)
      BY <1>4, <1>6
    <2> HIDE DEF a, b, c
    <2> QED BY <2>2, <2>3, <2>4
  <1>8. Len(X) >= V /\ (\A i \in 1 .. V : X[i] = s[i])
    BY <1>2, <1>6, <1>7
  <1>9. Len(X) > V => X[V + 1].kind = "debris"
    <2> SUFFICES ASSUME Len(X) > V PROVE X[V + 1].kind = "debris"
      OBVIOUS
    <2>1. CASE w = V
      BY <1>2, <1>6, <2>1
    <2>2. CASE w # V
      <3>1. V + 1 \in 1 .. w /\ V < Len(s)
        BY <1>2, <1>6, <1>7, <2>2
      <3> QED BY <1>3, <1>6, <3>1
    <2> QED BY <2>1, <2>2
  <1>10. /\ g \in SegmentFiles /\ g.base = f.base /\ g.frames = X
         /\ ValidPrefix(g) = V /\ ValidBytes(g) = ValidBytes(f)
    <2>1. Reframed(f, X, g)
      BY <1>6 DEF Reframed
    <2> QED BY <1>8, <1>9, <2>1, ScanKept DEF s, V
  <1>11. ASSUME NEW i \in 1 .. Len(X)
         PROVE  /\ X[i].kind = "debris" => X[i].bytes < X[i].claims
                /\ X[i].kind = "record" => X[i].offset < MaxRecords
    <2>1. CASE i \in 1 .. w
      <3>1. X[i] = s[i] /\ i \in 1 .. Len(s)
        BY <1>2, <1>6, <2>1
      <3> QED BY <1>3, <3>1 DEF ShortDebris
    <2>2. CASE i \notin 1 .. w
      <3>1. i = w + 1 /\ Len(X) = w + 1
        BY <1>6, <2>2
      <3>2. X[i].kind = "debris" /\ X[i].bytes < X[i].claims
        BY <1>6, <3>1
      <3> QED BY <3>2
    <2> QED BY <2>1, <2>2
  <1>12. ScarOK(g)
    BY <1>2, <1>6, <1>9, <1>10, <1>11 DEF ScarOK
  <1>13. Tracks(g, size, next)
    BY <1>6, <1>10 DEF Tracks, V
  <1> QED BY <1>6, <1>12, <1>13

\* The frame x may follow the frames of f.
FrameFits(f, x) ==
  /\ x \in Frames
  /\ x.kind = "debris" => x.bytes < x.claims
  /\ x.kind = "record" => /\ x.offset < MaxRecords
                          /\ IsIntact(f) => x.offset = f.base + ValidPrefix(f)

\* g is f with the frame x at the end.
Grown(f, x, g) == g = [base |-> f.base, frames |-> Append(f.frames, x)]

\* One frame more: a record with the offset that follows an intact file is
\* accepted, anything else leaves the scan where it stopped.
LEMMA ScarAppend ==
  ASSUME NEW f, ScarOK(f), NEW x, FrameFits(f, x), NEW g, Grown(f, x, g)
  PROVE  /\ ScarOK(g) /\ g.frames \in Seq(Frames) /\ g.base = f.base
         /\ SizeOf(g.frames) = SizeOf(f.frames) + Bytes(x)
         /\ IF x.kind = "record" /\ IsIntact(f)
            THEN IsIntact(g) /\ ValidPrefix(g) = ValidPrefix(f) + 1
            ELSE ValidPrefix(g) = ValidPrefix(f) /\ ValidBytes(g) = ValidBytes(f)
  <1> DEFINE s == f.frames
             V == ValidPrefix(f)
             L == Len(s)
             X == Append(s, x)
  <1>0. g = [base |-> f.base, frames |-> X] /\ x \in Frames
    BY DEF Grown, FrameFits
  <1>1. f \in SegmentFiles
    BY DEF ScarOK
  <1>2. /\ s \in Seq(Frames) /\ L \in Nat /\ V \in 0 .. L /\ f.base \in Nat
        /\ \A i \in 1 .. V : IsValid(f, i)
    BY <1>1, ScanFacts, StorageAssumption DEF SegmentFiles
  <1>3. /\ V < L => s[V + 1].kind = "debris"
        /\ \A i \in 1 .. L :
             /\ s[i].kind = "debris" => s[i].bytes < s[i].claims
             /\ s[i].kind = "record" => s[i].offset < MaxRecords
    BY DEF ScarOK
  <1>4. IsIntact(f) <=> V = L
    BY DEF IsIntact
  <1>5. X = Append(s, x)
    OBVIOUS
  <1> HIDE DEF s, V, L, X
  <1>6. /\ X \in Seq(Frames) /\ Len(X) = L + 1 /\ X[L + 1] = x
        /\ \A i \in 1 .. L : X[i] = s[i]
    BY <1>0, <1>2, <1>5 DEF L
  <1>7. SizeOf(X) = SizeOf(s) + Bytes(x)
    BY <1>2, <1>5, SizeAppend
  <1>8. Reframed(f, X, g) /\ g.base = f.base /\ g.frames = X /\ g \in SegmentFiles
    BY <1>0, <1>1, <1>6 DEF Reframed, SegmentFiles
  <1>9. ASSUME NEW i \in 1 .. Len(X)
        PROVE  /\ X[i].kind = "debris" => X[i].bytes < X[i].claims
               /\ X[i].kind = "record" => X[i].offset < MaxRecords
    <2>1. i \in 1 .. L \/ i = L + 1
      BY <1>2, <1>6
    <2>2. CASE i \in 1 .. L
      BY <1>3, <1>6, <2>2
    <2>3. CASE i = L + 1
      BY <1>6, <2>3 DEF FrameFits
    <2> QED BY <2>1, <2>2, <2>3
  <1>10. CASE x.kind = "record" /\ IsIntact(f)
    <2>1. V = L /\ x.offset = f.base + L
      BY <1>4, <1>10 DEF V, FrameFits
    <2>2. \A i \in 1 .. L + 1 : IsValid(g, i)
      <3> SUFFICES ASSUME NEW i \in 1 .. L + 1 PROVE IsValid(g, i)
        OBVIOUS
      <3>1. i \in 1 .. L \/ i = L + 1
        BY <1>2
      <3>2. CASE i \in 1 .. L
        BY <1>2, <1>6, <1>8, <2>1, <3>2 DEF IsValid, s
      <3>3. CASE i = L + 1
        <4>1. f.base + i - 1 = f.base + L
          BY <1>2, <3>3
        <4> QED BY <1>6, <1>8, <1>10, <2>1, <3>3, <4>1 DEF IsValid
      <3> QED BY <3>1, <3>2, <3>3
    <2>3. L + 1 \in 0 .. Len(g.frames) /\ ~(L + 1 < Len(g.frames))
      BY <1>2, <1>6, <1>8
    <2>4. ValidPrefix(g) = L + 1
      BY <1>8, <2>2, <2>3, ScanUnique
    <2>5. IsIntact(g)
      BY <1>6, <1>8, <2>4 DEF IsIntact
    <2>6. ScarOK(g)
      BY <1>2, <1>6, <1>8, <1>9, <2>4 DEF ScarOK
    <2> QED BY <1>6, <1>7, <1>8, <1>10, <2>1, <2>4, <2>5, <2>6 DEF V, s
  <1>11. CASE ~(x.kind = "record" /\ IsIntact(f))
    <2>1. Len(X) >= V /\ \A i \in 1 .. V : X[i] = s[i]
      BY <1>2, <1>6
    <2>2. X[V + 1].kind = "debris"
      <3>1. CASE V = L
        <4>1. x.kind = "debris"
          BY <1>0, <1>4, <1>11, <3>1, FrameFacts
        <4> QED BY <1>6, <3>1, <4>1
      <3>2. CASE V # L
        <4>1. V < L /\ V + 1 \in 1 .. L
          BY <1>2, <3>2
        <4> QED BY <1>3, <1>6, <4>1
      <3> QED BY <3>1, <3>2
    <2>3. ValidPrefix(g) = V /\ ValidBytes(g) = ValidBytes(f)
      BY <1>8, <2>1, <2>2, ScanKept DEF s, V
    <2>4. ScarOK(g)
      BY <1>2, <1>6, <1>8, <1>9, <2>2, <2>3 DEF ScarOK
    <2> QED BY <1>6, <1>7, <1>8, <1>11, <2>3, <2>4 DEF V, s
  <1> QED BY <1>10, <1>11

\* The bytes of a failed write behind what the metadata knows.
LEMMA DebrisTracked ==
  ASSUME NEW f, ScarOK(f), NEW size \in Nat, NEW next, Tracks(f, size, next),
         NEW c \in Nat, NEW k \in 1 .. c - 1, NEW g, Grown(f, Debris(k, c), g)
  PROVE  ScarOK(g) /\ Tracks(g, size, next) /\ g.frames \in Seq(Frames)
  <1> DEFINE x == Debris(k, c)
  <1>1. x \in Frames /\ x.kind = "debris" /\ x.bytes < x.claims /\ Bytes(x) = k /\ k \in Nat
    BY NewFrames
  <1>2. f \in SegmentFiles
    BY DEF ScarOK
  <1>3. Grown(f, x, g)
    OBVIOUS
  <1> HIDE DEF x
  <1>4. FrameFits(f, x) /\ x.kind # "record"
    BY <1>1 DEF FrameFits
  <1>5. /\ ScarOK(g) /\ g.frames \in Seq(Frames) /\ g.base = f.base
        /\ SizeOf(g.frames) = SizeOf(f.frames) + k
        /\ ValidPrefix(g) = ValidPrefix(f) /\ ValidBytes(g) = ValidBytes(f)
    BY <1>1, <1>3, <1>4, ScarAppend
  <1>6. size <= SizeOf(f.frames) /\ SizeOf(f.frames) \in Nat
    BY <1>2, ValidBytesFacts DEF Tracks
  <1>7. size <= SizeOf(g.frames)
    BY <1>1, <1>5, <1>6
  <1>8. Tracks(g, size, next)
    BY <1>5, <1>7 DEF Tracks
  <1> QED BY <1>5, <1>8

\* A record the metadata learns of.
LEMMA RecordTracked ==
  ASSUME NEW f, ScarOK(f), NEW size \in Nat, NEW next \in 0 .. MaxRecords, next < MaxRecords,
         Tracks(f, size, next), NEW m \in Msgs, NEW g, Grown(f, Record(next, m), g)
  PROVE  ScarOK(g) /\ Tracks(g, size + FrameSize[m], next + 1) /\ g.frames \in Seq(Frames)
  <1> DEFINE x == Record(next, m)
             V == ValidPrefix(f)
  <1>1. /\ x \in Frames /\ x.kind = "record" /\ x.offset = next /\ Bytes(x) = FrameSize[m]
        /\ FrameSize[m] \in Nat \ {0} /\ next \in Nat
    BY NewFrames, StorageAssumption
  <1>2. /\ f \in SegmentFiles /\ V \in Nat /\ f.base \in Nat
    BY ScanFacts, StorageAssumption DEF ScarOK, SegmentFiles
  <1>3. /\ ValidBytes(f) \in Nat /\ SizeOf(f.frames) \in Nat
        /\ ValidBytes(f) <= size /\ size <= SizeOf(f.frames)
        /\ size = ValidBytes(f) => next = f.base + V
        /\ IsIntact(f) => ValidBytes(f) = SizeOf(f.frames)
    BY <1>2, ValidBytesFacts DEF Tracks
  <1>4. IsIntact(f) => size = SizeOf(f.frames) /\ next = f.base + V
    <2> HIDE DEF V
    <2> QED BY <1>3
  <1>5. Grown(f, x, g) /\ FrameFits(f, x)
    <2>1. Grown(f, x, g)
      OBVIOUS
    <2> HIDE DEF x
    <2> QED BY <1>1, <1>4, <2>1 DEF FrameFits
  <1> HIDE DEF x
  <1>6. /\ ScarOK(g) /\ g.frames \in Seq(Frames) /\ g.base = f.base
        /\ SizeOf(g.frames) = SizeOf(f.frames) + FrameSize[m]
        /\ IF IsIntact(f)
           THEN IsIntact(g) /\ ValidPrefix(g) = V + 1
           ELSE ValidPrefix(g) = V /\ ValidBytes(g) = ValidBytes(f)
    BY <1>1, <1>5, ScarAppend
  <1> HIDE DEF V
  <1>7. size + FrameSize[m] <= SizeOf(g.frames)
    BY <1>1, <1>3, <1>6
  <1>8. CASE IsIntact(f)
    <2>1. IsIntact(g) /\ ValidPrefix(g) = V + 1
      BY <1>1, <1>6, <1>8
    <2>2. g \in SegmentFiles
      BY <1>6 DEF ScarOK
    <2>3. ValidBytes(g) = SizeOf(g.frames)
      BY <2>1, <2>2, ValidBytesFacts
    <2>4. SizeOf(g.frames) = size + FrameSize[m]
      BY <1>1, <1>4, <1>6, <1>8
    <2>5. next + 1 = f.base + (V + 1) /\ ValidBytes(g) <= size + FrameSize[m]
      BY <1>1, <1>2, <1>3, <1>4, <1>8, <2>3, <2>4
    <2>6. Tracks(g, size + FrameSize[m], next + 1)
      BY <1>6, <1>7, <2>1, <2>5 DEF Tracks
    <2> QED BY <1>6, <2>6
  <1>9. CASE ~IsIntact(f)
    <2>1. ValidPrefix(g) = V /\ ValidBytes(g) = ValidBytes(f)
      BY <1>6, <1>9
    <2>2. ValidBytes(g) < size + FrameSize[m]
      BY <1>1, <1>3, <2>1
    <2>3. ValidBytes(g) \in Nat
      BY <1>3, <2>1
    <2>4. ValidBytes(g) <= size + FrameSize[m] /\ size + FrameSize[m] # ValidBytes(g)
      BY <1>1, <2>2, <2>3
    <2>5. Tracks(g, size + FrameSize[m], next + 1)
      BY <1>7, <2>4 DEF Tracks
    <2> QED BY <1>6, <2>5
  <1> QED BY <1>8, <1>9

\* Other frames in the last file leave the files before it, and their ends,
\* where they are.
LEMMA ScarredLast ==
  ASSUME NEW fs, Scarred(fs), fs # << >>, NEW g, ScarOK(g), NEW gs, EndsIn(fs, g, gs)
  PROVE  Scarred(gs) /\ Len(gs) = Len(fs) /\ Last(gs) = g /\ gs # << >>
  <1> DEFINE n == Len(fs)
  <1>0. PICK X \in Seq(Frames) : /\ g = [base |-> Last(fs).base, frames |-> X]
                                 /\ gs = [fs EXCEPT ![Len(fs)].frames = X]
    BY DEF EndsIn
  <1>1. fs \in Seq(SegmentFiles)
    BY DEF Scarred
  <1>2. /\ n \in Nat \ {0} /\ Last(fs) = fs[n] /\ Last(fs) \in SegmentFiles
    BY <1>1, FrontAndLast
  <1>3. g \in SegmentFiles /\ g.base = fs[n].base /\ g.frames = X
    BY <1>0, <1>2 DEF SegmentFiles
  <1>4. gs = [fs EXCEPT ![n] = g] /\ DOMAIN fs = 1 .. n
    <2>1. DOMAIN fs = 1 .. n
      BY <1>1, <1>2
    <2>2. fs[n] = [base |-> fs[n].base, frames |-> fs[n].frames]
      BY <1>2 DEF SegmentFiles
    <2>3. [fs[n] EXCEPT !.frames = X] = g
      BY <1>0, <1>2, <2>2
    <2> QED BY <1>0, <2>3, <2>1
  <1>5. /\ \A k \in 1 .. n : ScarOK(fs[k])
        /\ \A k \in 1 .. n : (\A j \in 1 .. k - 1 : IsIntact(fs[j])) =>
             /\ fs[k].base = IF k = 1 THEN 0 ELSE fs[k - 1].base + Len(fs[k - 1].frames)
             /\ \A j \in 1 .. k - 1 : fs[j].frames # << >>
    BY DEF Scarred, ChainedUntilScar
  <1> HIDE DEF n
  <1>6. /\ gs \in Seq(SegmentFiles) /\ Len(gs) = n /\ gs[n] = g /\ gs # << >>
        /\ \A k \in 1 .. n - 1 : gs[k] = fs[k]
    BY <1>1, <1>2, <1>3, <1>4
  <1>7. Last(gs) = g
    BY <1>6 DEF Last
  <1>8. \A k \in 1 .. n : gs[k].base = fs[k].base
    BY <1>2, <1>3, <1>6
  <1>9. \A k \in 1 .. n : ScarOK(gs[k])
    <2> SUFFICES ASSUME NEW k \in 1 .. n PROVE ScarOK(gs[k])
      OBVIOUS
    <2>1. k = n \/ k \in 1 .. n - 1
      BY <1>2
    <2> QED BY <1>5, <1>6, <2>1
  <1>10. ASSUME NEW k \in 1 .. n, \A j \in 1 .. k - 1 : IsIntact(gs[j])
         PROVE  /\ gs[k].base = IF k = 1 THEN 0 ELSE gs[k - 1].base + Len(gs[k - 1].frames)
                /\ \A j \in 1 .. k - 1 : gs[j].frames # << >>
    <2>1. \A j \in 1 .. k - 1 : j \in 1 .. n - 1 /\ gs[j] = fs[j]
      BY <1>2, <1>6
    <2>2. \A j \in 1 .. k - 1 : IsIntact(fs[j])
      BY <1>10, <2>1
    <2>3. /\ fs[k].base = IF k = 1 THEN 0 ELSE fs[k - 1].base + Len(fs[k - 1].frames)
          /\ \A j \in 1 .. k - 1 : fs[j].frames # << >>
      BY <1>5, <2>2
    <2>4. k # 1 => k - 1 \in 1 .. k - 1
      OBVIOUS
    <2>5. gs[k].base = IF k = 1 THEN 0 ELSE gs[k - 1].base + Len(gs[k - 1].frames)
      BY <1>8, <2>1, <2>3, <2>4
    <2> QED BY <2>1, <2>3, <2>5
  <1>11. Scarred(gs)
    BY <1>6, <1>9, <1>10 DEF Scarred, ChainedUntilScar
  <1> QED BY <1>6, <1>7, <1>11 DEF n

\* The offset at which a new segment file may begin.
NextFits(fs, next) ==
  IF fs = << >> THEN next = 0
  ELSE /\ Last(fs).frames # << >>
       /\ IsIntact(Last(fs)) => next = Last(fs).base + Len(Last(fs).frames)

\* A new segment file begins where the one before it ends, unless damage made
\* the metadata lose count.
LEMMA ScarredSegment ==
  ASSUME NEW fs, Scarred(fs), NEW next \in 0 .. MaxRecords, NextFits(fs, next),
         NEW g, g = [base |-> next, frames |-> << >>], NEW gs, gs = Append(fs, g)
  PROVE  Scarred(gs) /\ Len(gs) = Len(fs) + 1 /\ Last(gs) = g /\ gs # << >> /\ Tracks(g, 0, next)
  <1> DEFINE n == Len(fs)
  <1>1. fs \in Seq(SegmentFiles) /\ n \in Nat
    BY DEF Scarred
  <1>2. g \in SegmentFiles /\ g.base = next /\ g.frames = << >> /\ Len(g.frames) = 0
    BY DEF SegmentFiles
  <1>3. ValidPrefix(g) = 0 /\ IsIntact(g)
    BY <1>2, ScanFacts DEF IsIntact
  <1>4. ScarOK(g)
    BY <1>2, <1>3 DEF ScarOK
  <1>5. Tracks(g, 0, next)
    <2>1. SizeOf(g.frames) = 0
      BY <1>2, SizeAppend
    <2>2. ValidBytes(g) = 0
      BY <1>2, <1>3, <2>1, ValidBytesFacts
    <2>3. next \in Nat /\ next = g.base + 0
      BY <1>2, StorageAssumption
    <2> QED BY <1>3, <2>1, <2>2, <2>3 DEF Tracks
  <1>6. /\ gs \in Seq(SegmentFiles) /\ Len(gs) = n + 1 /\ gs # << >> /\ gs[n + 1] = g
        /\ \A k \in 1 .. n : gs[k] = fs[k]
    BY <1>1, <1>2
  <1>7. /\ \A k \in 1 .. n : ScarOK(fs[k])
        /\ \A k \in 1 .. n : (\A j \in 1 .. k - 1 : IsIntact(fs[j])) =>
             /\ fs[k].base = IF k = 1 THEN 0 ELSE fs[k - 1].base + Len(fs[k - 1].frames)
             /\ \A j \in 1 .. k - 1 : fs[j].frames # << >>
    BY DEF Scarred, ChainedUntilScar
  <1>8. n # 0 => fs # << >> /\ Last(fs) = fs[n]
    BY <1>1 DEF Last
  <1>9. n = 0 => fs = << >>
    BY <1>1, EmptySeq
  <1> HIDE DEF n
  <1>10. \A k \in 1 .. n + 1 : ScarOK(gs[k])
    <2> SUFFICES ASSUME NEW k \in 1 .. n + 1 PROVE ScarOK(gs[k])
      OBVIOUS
    <2>1. k = n + 1 \/ k \in 1 .. n
      BY <1>1
    <2> QED BY <1>4, <1>6, <1>7, <2>1
  <1>11. ASSUME NEW k \in 1 .. n + 1, \A j \in 1 .. k - 1 : IsIntact(gs[j])
         PROVE  /\ gs[k].base = IF k = 1 THEN 0 ELSE gs[k - 1].base + Len(gs[k - 1].frames)
                /\ \A j \in 1 .. k - 1 : gs[j].frames # << >>
    <2>1. \A j \in 1 .. k - 1 : j \in 1 .. n /\ gs[j] = fs[j] /\ IsIntact(fs[j])
      BY <1>1, <1>6, <1>11
    <2>2. k # 1 => k - 1 \in 1 .. k - 1
      OBVIOUS
    <2>3. CASE k \in 1 .. n
      <3>1. /\ fs[k].base = IF k = 1 THEN 0 ELSE fs[k - 1].base + Len(fs[k - 1].frames)
            /\ \A j \in 1 .. k - 1 : fs[j].frames # << >>
        BY <1>7, <2>1, <2>3
      <3>2. gs[k].base = IF k = 1 THEN 0 ELSE gs[k - 1].base + Len(gs[k - 1].frames)
        BY <1>6, <2>1, <2>2, <2>3, <3>1
      <3> QED BY <2>1, <3>1, <3>2
    <2>4. CASE k \notin 1 .. n /\ n = 0
      <3>1. k = 1 /\ next = 0 /\ gs[k] = g
        BY <1>1, <1>6, <1>9, <2>4 DEF NextFits
      <3> QED BY <1>2, <3>1
    <2>5. CASE k \notin 1 .. n /\ n # 0
      <3>1. k = n + 1 /\ k - 1 = n /\ k # 1 /\ n \in 1 .. n /\ n \in 1 .. k - 1
        BY <1>1, <2>5
      <3>2. IsIntact(fs[n]) /\ gs[n] = fs[n]
        BY <2>1, <3>1
      <3>3. fs[n].frames # << >> /\ next = fs[n].base + Len(fs[n].frames)
        BY <1>8, <2>5, <3>2 DEF NextFits
      <3>4. \A j \in 1 .. n - 1 : fs[j].frames # << >>
        <4>1. \A j \in 1 .. n - 1 : IsIntact(fs[j])
          BY <1>1, <2>1, <3>1
        <4> QED BY <1>7, <3>1, <4>1
      <3>5. \A j \in 1 .. k - 1 : fs[j].frames # << >>
        <4> SUFFICES ASSUME NEW j \in 1 .. k - 1 PROVE fs[j].frames # << >>
          OBVIOUS
        <4>1. j = n \/ j \in 1 .. n - 1
          BY <1>1, <3>1
        <4> QED BY <3>3, <3>4, <4>1
      <3>6. gs[k].base = gs[k - 1].base + Len(gs[k - 1].frames)
        BY <1>2, <1>6, <3>1, <3>2, <3>3
      <3> QED BY <2>1, <3>1, <3>5, <3>6
    <2> QED BY <2>3, <2>4, <2>5
  <1>12. Scarred(gs)
    BY <1>6, <1>10, <1>11 DEF Scarred, ChainedUntilScar
  <1>13. Last(gs) = g
    BY <1>6 DEF Last
  <1> QED BY <1>5, <1>6, <1>12, <1>13 DEF n

\* The files gs are fs with another last file, which size and next describe.
NowTracks(fs, gs, size, next) ==
  /\ Scarred(gs) /\ gs # << >> /\ Len(gs) = Len(fs)
  /\ Tracks(Last(gs), size, next)

\* The bytes of a failed write at the end of the log.
LEMMA DebrisInFiles ==
  ASSUME NEW fs, Scarred(fs), fs # << >>, NEW size \in Nat, NEW next,
         Tracks(Last(fs), size, next), NEW c \in Nat, NEW k \in 1 .. c - 1
  PROVE  NowTracks(fs, WithFrame(fs, Debris(k, c)), size, next)
  <1> DEFINE f == Last(fs)
             x == Debris(k, c)
             X == Append(f.frames, x)
             g == [base |-> f.base, frames |-> X]
             gs == WithFrame(fs, x)
  <1>1. fs \in Seq(SegmentFiles) /\ \A i \in 1 .. Len(fs) : ScarOK(fs[i])
    BY DEF Scarred
  <1>2. f = fs[Len(fs)] /\ ScarOK(f)
    BY <1>1, FrontAndLast
  <1>3. Grown(f, Debris(k, c), g)
    BY DEF Grown
  <1>4. gs = [fs EXCEPT ![Len(fs)].frames = X] /\ g.frames = X
    BY <1>2 DEF WithFrame
  <1> HIDE DEF g
  <1>5. ScarOK(g) /\ Tracks(g, size, next) /\ g.frames \in Seq(Frames)
    <2> HIDE DEF f, x, X
    <2> QED BY <1>2, <1>3, DebrisTracked DEF f
  <1>6. EndsIn(fs, g, gs)
    BY <1>4, <1>5 DEF EndsIn, g
  <1> HIDE DEF gs
  <1>7. Scarred(gs) /\ Len(gs) = Len(fs) /\ Last(gs) = g /\ gs # << >>
    BY <1>5, <1>6, ScarredLast
  <1>8. NowTracks(fs, gs, size, next)
    BY <1>5, <1>7 DEF NowTracks
  <1> QED BY <1>8 DEF gs

\* A record at the end of the log.
LEMMA RecordInFiles ==
  ASSUME NEW fs, Scarred(fs), fs # << >>, NEW size \in Nat, NEW next \in 0 .. MaxRecords,
         next < MaxRecords, Tracks(Last(fs), size, next), NEW m \in Msgs
  PROVE  NowTracks(fs, WithFrame(fs, Record(next, m)), size + FrameSize[m], next + 1)
  <1> DEFINE f == Last(fs)
             x == Record(next, m)
             X == Append(f.frames, x)
             g == [base |-> f.base, frames |-> X]
             gs == WithFrame(fs, x)
  <1>1. fs \in Seq(SegmentFiles) /\ \A i \in 1 .. Len(fs) : ScarOK(fs[i])
    BY DEF Scarred
  <1>2. f = fs[Len(fs)] /\ ScarOK(f)
    BY <1>1, FrontAndLast
  <1>3. Grown(f, Record(next, m), g)
    BY DEF Grown
  <1>4. gs = [fs EXCEPT ![Len(fs)].frames = X] /\ g.frames = X
    BY <1>2 DEF WithFrame
  <1> HIDE DEF g
  <1>5. ScarOK(g) /\ Tracks(g, size + FrameSize[m], next + 1) /\ g.frames \in Seq(Frames)
    <2> HIDE DEF f, x, X
    <2> QED BY <1>2, <1>3, RecordTracked DEF f
  <1>6. EndsIn(fs, g, gs)
    BY <1>4, <1>5 DEF EndsIn, g
  <1> HIDE DEF gs
  <1>7. Scarred(gs) /\ Len(gs) = Len(fs) /\ Last(gs) = g /\ gs # << >>
    BY <1>5, <1>6, ScarredLast
  <1>8. NowTracks(fs, gs, size + FrameSize[m], next + 1)
    BY <1>5, <1>7 DEF NowTracks
  <1> QED BY <1>8 DEF gs

\* A rollback of the last file.
LEMMA CutInFiles ==
  ASSUME NEW fs, Scarred(fs), fs # << >>, NEW size \in Nat, NEW next,
         Tracks(Last(fs), size, next)
  PROVE  NowTracks(fs, [fs EXCEPT ![Len(fs)].frames = SetLen(@, size)], size, next)
  <1> DEFINE f == Last(fs)
             X == SetLen(f.frames, size)
             g == [base |-> f.base, frames |-> X]
             gs == [fs EXCEPT ![Len(fs)].frames = SetLen(@, size)]
  <1>1. fs \in Seq(SegmentFiles) /\ \A i \in 1 .. Len(fs) : ScarOK(fs[i])
    BY DEF Scarred
  <1>2. f = fs[Len(fs)] /\ ScarOK(f)
    BY <1>1, FrontAndLast
  <1>3. gs = [fs EXCEPT ![Len(fs)].frames = X]
    BY <1>2
  <1>4. ScarOK(g) /\ Tracks(g, size, next) /\ X \in Seq(Frames)
    <2> HIDE DEF f
    <2> QED BY <1>2, ScarCut DEF f
  <1> HIDE DEF X
  <1>5. EndsIn(fs, g, gs)
    BY <1>3, <1>4 DEF EndsIn
  <1> HIDE DEF gs, g
  <1>6. Scarred(gs) /\ Len(gs) = Len(fs) /\ Last(gs) = g /\ gs # << >>
    BY <1>4, <1>5, ScarredLast
  <1>7. NowTracks(fs, gs, size, next)
    BY <1>4, <1>6 DEF NowTracks
  <1> QED BY <1>7 DEF gs

\* What the metadata knows of the files.
Described(fs, segs, next) ==
  /\ Len(segs) = Len(fs)
  /\ fs = << >> => next = 0
  /\ fs # << >> => Tracks(Last(fs), Last(segs).size, next)

\* The invariant when rollbacks may fail.
DInv ==
  /\ TypeOK
  /\ Scarred(files)
  /\ status = "up" => Described(files, segments, nextOffset)
  /\ RefusedOnlyForBuriedDebris

\* Files and metadata ready for the frame of an append.
Target(fs, segs, next) ==
  /\ Scarred(fs) /\ fs # << >> /\ segs \in Seq(SegmentMetadata)
  /\ Len(segs) = Len(fs) /\ segs # << >> /\ Last(segs) \in SegmentMetadata
  /\ Tracks(Last(fs), Last(segs).size, next)

\* An append finds them ready, or makes them so with a new segment.
LEMMA ScarTarget ==
  ASSUME DInv, status = "up", NEW m \in Msgs
  PROVE  Target(FilesForAppend(m), SegmentsForAppend(m), nextOffset)
  <1>1. /\ Scarred(files) /\ files \in Seq(SegmentFiles) /\ segments \in Seq(SegmentMetadata)
        /\ nextOffset \in 0 .. MaxRecords /\ Described(files, segments, nextOffset)
    BY DEF DInv, TypeOK, Scarred, SegmentFiles, SegmentMetadata
  <1>2. segments = << >> <=> files = << >>
    BY <1>1, EmptySeq DEF Described
  <1>3. /\ segments # << >> => Last(segments) \in SegmentMetadata /\ Last(segments).size \in Nat
        /\ files # << >> => Last(files) \in SegmentFiles
    <2>1. segments # << >> => Last(segments) \in SegmentMetadata
      BY <1>1, FrontAndLast
    <2>2. files # << >> => Last(files) \in SegmentFiles
      BY <1>1, FrontAndLast
    <2> QED BY <2>1, <2>2 DEF SegmentMetadata
  <1>4. CASE NeedsSegment(m)
    <2> DEFINE g == [base |-> nextOffset, frames |-> << >>]
               y == [base |-> nextOffset, next |-> nextOffset, size |-> 0]
               gs == Append(files, g)
               segs == Append(segments, y)
    <2>1. NextFits(files, nextOffset)
      <3>1. CASE files = << >>
        BY <1>1, <3>1 DEF NextFits, Described
      <3>2. CASE files # << >>
        <4> DEFINE f == Last(files)
                   z == Last(segments).size
        <4>1. f \in SegmentFiles /\ z \in Nat /\ z > 0 /\ Tracks(f, z, nextOffset)
          BY <1>1, <1>2, <1>3, <1>4, <3>2 DEF NeedsSegment, Described
        <4> HIDE DEF f, z
        <4>2. /\ ValidBytes(f) \in Nat /\ SizeOf(f.frames) \in Nat
              /\ ValidBytes(f) <= z /\ z <= SizeOf(f.frames)
              /\ z = ValidBytes(f) => nextOffset = f.base + ValidPrefix(f)
              /\ IsIntact(f) => ValidBytes(f) = SizeOf(f.frames)
          BY <4>1, ValidBytesFacts DEF Tracks
        <4>3. f.frames # << >>
          <5>1. SizeOf(f.frames) # 0
            BY <4>1, <4>2
          <5> QED BY <5>1, SizeAppend
        <4>4. IsIntact(f) => nextOffset = f.base + Len(f.frames)
          <5> SUFFICES ASSUME IsIntact(f) PROVE nextOffset = f.base + Len(f.frames)
            OBVIOUS
          <5>1. z = ValidBytes(f)
            BY <4>1, <4>2
          <5> QED BY <4>2, <5>1 DEF IsIntact
        <4> QED BY <3>2, <4>3, <4>4 DEF NextFits, f
      <3> QED BY <3>1, <3>2
    <2>2. Scarred(gs) /\ Len(gs) = Len(files) + 1 /\ Last(gs) = g /\ gs # << >> /\ Tracks(g, 0, nextOffset)
      <3> HIDE DEF g, gs
      <3> QED BY <1>1, <2>1, ScarredSegment DEF g, gs
    <2>3. /\ segs \in Seq(SegmentMetadata) /\ Len(segs) = Len(segments) + 1
          /\ segs # << >> /\ Last(segs) = y /\ y \in SegmentMetadata /\ y.size = 0
      <3>1. y \in SegmentMetadata /\ y.size = 0
        BY <1>1 DEF SegmentMetadata
      <3> HIDE DEF y
      <3>2. /\ segs \in Seq(SegmentMetadata) /\ Len(segs) = Len(segments) + 1
            /\ segs[Len(segments) + 1] = y /\ Len(segments) \in Nat
        BY <1>1, <3>1
      <3> HIDE DEF segs
      <3>3. segs # << >>
        BY <3>2, EmptySeq
      <3> QED BY <3>1, <3>2, <3>3 DEF Last
    <2>4. FilesForAppend(m) = gs /\ SegmentsForAppend(m) = segs
      BY <1>4 DEF FilesForAppend, SegmentsForAppend
    <2>5. Len(segs) = Len(gs)
      BY <1>1, <2>2, <2>3 DEF Described
    <2> HIDE DEF g, y, gs, segs
    <2> QED BY <2>2, <2>3, <2>4, <2>5 DEF Target
  <1>5. CASE ~NeedsSegment(m)
    <2>1. FilesForAppend(m) = files /\ SegmentsForAppend(m) = segments /\ segments # << >>
      BY <1>5 DEF FilesForAppend, SegmentsForAppend, NeedsSegment
    <2> QED BY <1>1, <1>2, <1>3, <2>1 DEF Target, Described
  <1> QED BY <1>4, <1>5

\* What the next state inherits.
LEMMA ScarKept ==
  ASSUME DInv, Scarred(files'), acked' \subseteq (0 .. MaxRecords) \X Msgs,
         \/ status' = "down" /\ segments' = << >> /\ nextOffset' = 0
         \/ /\ status' = "up" /\ segments' \in Seq(SegmentMetadata)
            /\ nextOffset' \in 0 .. MaxRecords /\ Described(files', segments', nextOffset')
  PROVE  DInv'
  <1>1. files' \in Seq(SegmentFiles)
    BY DEF Scarred
  <1>2. << >> \in Seq(SegmentMetadata) /\ 0 \in 0 .. MaxRecords
    BY EmptySeq, StorageAssumption
  <1>3. segments' \in Seq(SegmentMetadata) /\ nextOffset' \in 0 .. MaxRecords /\ status' \in {"up", "down"}
    BY <1>2
  <1>4. TypeOK'
    BY <1>1, <1>3 DEF TypeOK, SegmentFiles, SegmentMetadata
  <1>5. RefusedOnlyForBuriedDebris'
    BY <1>3 DEF RefusedOnlyForBuriedDebris
  <1> QED BY <1>4, <1>5 DEF DInv

\* new is segs with d bytes more in the last segment, which now ends at e.
Moved(segs, d, e, new) == new = [segs EXCEPT ![Len(segs)].size = @ + d, ![Len(segs)].next = e]

\* The metadata of a record that was appended.
LEMMA MetadataMoved ==
  ASSUME NEW segs \in Seq(SegmentMetadata), segs # << >>, NEW d \in Nat, NEW e \in 0 .. MaxRecords,
         NEW new, Moved(segs, d, e, new)
  PROVE  /\ new \in Seq(SegmentMetadata) /\ Len(new) = Len(segs)
         /\ Last(new).size = Last(segs).size + d
  <1> DEFINE n == Len(segs)
             r == segs[n]
             y == [base |-> r.base, next |-> e, size |-> r.size + d]
  <1>1. n \in Nat \ {0} /\ Last(segs) = r /\ r \in SegmentMetadata /\ DOMAIN segs = 1 .. n
    BY FrontAndLast
  <1> HIDE DEF n
  <1>2. y \in SegmentMetadata /\ r.size \in Nat
    BY <1>1 DEF SegmentMetadata
  <1>3. r = [base |-> r.base, next |-> r.next, size |-> r.size]
    BY <1>1 DEF SegmentMetadata
  <1>4. [[r EXCEPT !.size = r.size + d] EXCEPT !.next = e] = y
    <2> DEFINE z == r.size + d
    <2> HIDE DEF z, r
    <2>1. [r EXCEPT !.size = z] = [base |-> r.base, next |-> r.next, size |-> z]
      BY <1>3
    <2>2. [[base |-> r.base, next |-> r.next, size |-> z] EXCEPT !.next = e]
            = [base |-> r.base, next |-> e, size |-> z]
      OBVIOUS
    <2> QED BY <2>1, <2>2 DEF z
  <1>5. new = [segs EXCEPT ![n] = y]
    <2>1. new = [segs EXCEPT ![n].size = @ + d, ![n].next = e]
      BY DEF n, Moved
    <2> QED BY <1>1, <1>4, <2>1
  <1> HIDE DEF y
  <1>6. new \in Seq(SegmentMetadata) /\ Len(new) = n /\ new[n] = y
    BY <1>1, <1>2, <1>5
  <1> QED BY <1>1, <1>6 DEF n, Last, y

\* An append that succeeds.
LEMMA AppendSucceedsScar ==
  ASSUME DInv, NEW m \in Msgs, AppendSucceeds(m)
  PROVE  DInv'
  <1> DEFINE fs == FilesForAppend(m)
             segs == SegmentsForAppend(m)
             size == Last(segs).size
  <1>1. /\ status = "up" /\ nextOffset < MaxRecords /\ status' = "up"
        /\ files' = WithFrame(fs, Record(nextOffset, m))
        /\ segments' = [segs EXCEPT ![Len(segs)].size = @ + FrameSize[m],
                                    ![Len(segs)].next = nextOffset + 1]
        /\ nextOffset' = nextOffset + 1 /\ acked' = acked \cup {<<nextOffset, m>>}
    BY DEF AppendSucceeds
  <1>2. Target(fs, segs, nextOffset)
    BY <1>1, ScarTarget
  <1> HIDE DEF fs, segs
  <1>3. /\ Scarred(fs) /\ fs # << >> /\ segs \in Seq(SegmentMetadata) /\ segs # << >>
        /\ Len(segs) = Len(fs) /\ size \in Nat /\ Tracks(Last(fs), size, nextOffset)
    BY <1>2 DEF Target, SegmentMetadata
  <1>4. nextOffset \in 0 .. MaxRecords /\ acked \subseteq (0 .. MaxRecords) \X Msgs
    BY DEF DInv, TypeOK
  <1>5. nextOffset + 1 \in 0 .. MaxRecords /\ FrameSize[m] \in Nat
    BY <1>1, <1>4, StorageAssumption
  <1>6. NowTracks(fs, files', size + FrameSize[m], nextOffset + 1)
    <2> HIDE DEF size
    <2> QED BY <1>1, <1>3, <1>4, RecordInFiles
  <1>7. /\ segments' \in Seq(SegmentMetadata) /\ Len(segments') = Len(segs)
        /\ Last(segments').size = size + FrameSize[m]
    <2>1. Moved(segs, FrameSize[m], nextOffset + 1, segments')
      BY <1>1 DEF Moved
    <2> QED BY <1>3, <1>5, <2>1, MetadataMoved
  <1>8. Scarred(files') /\ Described(files', segments', nextOffset')
    BY <1>1, <1>3, <1>6, <1>7 DEF NowTracks, Described
  <1>9. acked' \subseteq (0 .. MaxRecords) \X Msgs
    BY <1>1, <1>4
  <1> QED BY <1>1, <1>5, <1>7, <1>8, <1>9, ScarKept

\* A failed append, rolled back or not.
LEMMA AppendFailsScar ==
  ASSUME DInv, NEW m \in Msgs, AppendFails(m)
  PROVE  DInv'
  <1> DEFINE fs == FilesForAppend(m)
             segs == SegmentsForAppend(m)
             size == Last(segs).size
  <1>1. /\ status = "up" /\ status' = "up" /\ nextOffset' = nextOffset /\ acked' = acked
        /\ \/ files' = [fs EXCEPT ![Len(fs)].frames = SetLen(@, size)]
           \/ \E k \in 1 .. FrameSize[m] - 1 : files' = WithFrame(fs, Debris(k, FrameSize[m]))
        /\ segments' = segs
    BY DEF AppendFails
  <1>2. Target(fs, segs, nextOffset)
    BY <1>1, ScarTarget
  <1> HIDE DEF fs, segs
  <1>3. /\ Scarred(fs) /\ fs # << >> /\ segs \in Seq(SegmentMetadata)
        /\ Len(segs) = Len(fs) /\ size \in Nat /\ Tracks(Last(fs), size, nextOffset)
    BY <1>2 DEF Target, SegmentMetadata
  <1>4. nextOffset \in 0 .. MaxRecords /\ acked \subseteq (0 .. MaxRecords) \X Msgs
    BY DEF DInv, TypeOK
  <1>5. FrameSize[m] \in Nat
    BY StorageAssumption
  <1>6. NowTracks(fs, files', size, nextOffset)
    <2>1. CASE files' = [fs EXCEPT ![Len(fs)].frames = SetLen(@, size)]
      <3> HIDE DEF size
      <3> QED BY <1>3, <2>1, CutInFiles
    <2>2. CASE \E k \in 1 .. FrameSize[m] - 1 : files' = WithFrame(fs, Debris(k, FrameSize[m]))
      <3> HIDE DEF size
      <3> QED BY <1>3, <1>5, <2>2, DebrisInFiles
    <2> QED BY <1>1, <2>1, <2>2
  <1>7. Scarred(files') /\ Described(files', segments', nextOffset')
    BY <1>1, <1>3, <1>6 DEF NowTracks, Described
  <1> QED BY <1>1, <1>3, <1>4, <1>7, ScarKept

\* A crash inside an append.
LEMMA CrashInAppendScar ==
  ASSUME DInv, NEW m \in Msgs, CrashInAppend(m)
  PROVE  DInv'
  <1> DEFINE fs == FilesForAppend(m)
             segs == SegmentsForAppend(m)
             size == Last(segs).size
  <1>1. /\ status = "up" /\ nextOffset < MaxRecords /\ acked' = acked
        /\ status' = "down" /\ segments' = << >> /\ nextOffset' = 0
        /\ \/ files' = files
           \/ files' = fs
           \/ \E k \in 1 .. FrameSize[m] - 1 : files' = WithFrame(fs, Debris(k, FrameSize[m]))
           \/ files' = WithFrame(fs, Record(nextOffset, m))
    BY DEF CrashInAppend
  <1>2. Target(fs, segs, nextOffset)
    BY <1>1, ScarTarget
  <1> HIDE DEF fs, segs
  <1>3. /\ Scarred(fs) /\ fs # << >> /\ size \in Nat /\ Tracks(Last(fs), size, nextOffset)
    BY <1>2 DEF Target, SegmentMetadata
  <1>4. nextOffset \in 0 .. MaxRecords /\ acked \subseteq (0 .. MaxRecords) \X Msgs /\ Scarred(files)
    BY DEF DInv, TypeOK
  <1>5. FrameSize[m] \in Nat
    BY StorageAssumption
  <1>6. Scarred(files')
    <2> HIDE DEF size
    <2>1. CASE files' = files
      BY <1>4, <2>1
    <2>2. CASE files' = fs
      BY <1>3, <2>2
    <2>3. CASE \E k \in 1 .. FrameSize[m] - 1 : files' = WithFrame(fs, Debris(k, FrameSize[m]))
      BY <1>3, <1>5, <2>3, DebrisInFiles DEF NowTracks
    <2>4. CASE files' = WithFrame(fs, Record(nextOffset, m))
      BY <1>1, <1>3, <1>4, <2>4, RecordInFiles DEF NowTracks
    <2> QED BY <1>1, <2>1, <2>2, <2>3, <2>4
  <1> QED BY <1>1, <1>4, <1>6, ScarKept

\* g is f cut where the scan of f stops, and X its frames.
Repaired(f, X, g) ==
  /\ X = SubSeq(f.frames, 1, ValidPrefix(f))
  /\ g = [base |-> f.base, frames |-> X]

\* The repair of the last file takes its debris, and all that is behind it.
LEMMA ScarRepaired ==
  ASSUME NEW f, ScarOK(f), NEW X, NEW g, Repaired(f, X, g)
  PROVE  ScarOK(g) /\ IsIntact(g) /\ X \in Seq(Frames)
  <1> DEFINE V == ValidPrefix(f)
  <1>1. f \in SegmentFiles
    BY DEF ScarOK
  <1>2. f.frames \in Seq(Frames) /\ Len(f.frames) \in Nat /\ V \in 0 .. Len(f.frames)
    BY <1>1, ScanFacts DEF SegmentFiles
  <1>3. X = SubSeq(f.frames, 1, V)
    BY DEF Repaired
  <1> HIDE DEF V
  <1>4. /\ X \in Seq(Frames) /\ Len(X) = V
        /\ \A i \in 1 .. V : X[i] = f.frames[i]
        /\ \A i \in 1 .. V : i \in 1 .. Len(f.frames)
    <2> DEFINE s == f.frames
    <2>1. s \in Seq(Frames) /\ V \in Nat /\ V <= Len(s)
      BY <1>2
    <2> HIDE DEF s
    <2>2. /\ SubSeq(s, 1, V) \in Seq(Frames) /\ Len(SubSeq(s, 1, V)) = V
          /\ \A i \in 1 .. V : SubSeq(s, 1, V)[i] = s[i]
      BY <2>1
    <2>3. \A i \in 1 .. V : i \in 1 .. Len(s)
      BY <2>1
    <2> QED BY <1>3, <2>2, <2>3 DEF s
  <1>5. Reframed(f, X, g)
    BY <1>4 DEF Reframed, Repaired
  <1>6. g \in SegmentFiles /\ g.frames = X /\ ValidPrefix(g) = V
    <2>1. Len(X) >= V /\ ~(Len(X) > V)
      BY <1>2, <1>4
    <2> QED BY <1>4, <1>5, <2>1, ScanKept DEF V
  <1>7. IsIntact(g)
    BY <1>4, <1>6 DEF IsIntact
  <1>8. \A i \in 1 .. Len(X) : /\ X[i].kind = "debris" => X[i].bytes < X[i].claims
                               /\ X[i].kind = "record" => X[i].offset < MaxRecords
    BY <1>4 DEF ScarOK
  <1>9. ScarOK(g)
    BY <1>2, <1>4, <1>6, <1>8 DEF ScarOK
  <1> QED BY <1>4, <1>7, <1>9

\* The metadata of an intact file.
LEMMA IntactMetadata ==
  ASSUME NEW f, ScarOK(f), IsIntact(f)
  PROVE  Metadata(f) \in SegmentMetadata
  <1> DEFINE L == Len(f.frames)
  <1>1. f \in SegmentFiles
    BY DEF ScarOK
  <1>2. /\ f.base \in 0 .. MaxRecords /\ L \in Nat /\ ValidPrefix(f) = L
        /\ \A i \in 1 .. L : IsValid(f, i)
    BY <1>1, ScanFacts DEF SegmentFiles, IsIntact
  <1>3. SizeOf(f.frames) \in Nat
    BY <1>1, SizeType DEF SegmentFiles
  <1>4. f.base + L \in 0 .. MaxRecords
    <2>1. CASE L = 0
      BY <1>2, <2>1
    <2>2. CASE L # 0
      <3>1. L \in 1 .. L
        BY <1>2, <2>2
      <3>2. f.frames[L].kind = "record" /\ f.frames[L].offset = f.base + L - 1
        BY <1>2, <3>1 DEF IsValid
      <3>3. f.frames[L].offset < MaxRecords
        BY <3>1, <3>2 DEF ScarOK
      <3> HIDE DEF L
      <3> QED BY <1>2, <3>2, <3>3, StorageAssumption
    <2> QED BY <2>1, <2>2
  <1> QED BY <1>2, <1>3, <1>4 DEF Metadata, SegmentMetadata

\* Opening leaves intact files and the metadata of them.
LEMMA OpenSucceedsScar ==
  ASSUME DInv, OpenSucceeds
  PROVE  DInv'
  <1>1. /\ status' = "up" /\ files' = RepairedFiles /\ segments' = RecoveredSegments(files')
        /\ nextOffset' = (IF files = << >> THEN 0 ELSE Last(segments').next) /\ acked' = acked
        /\ EarlierFilesAccepted
    BY DEF OpenSucceeds
  <1>2. /\ Scarred(files) /\ acked \subseteq (0 .. MaxRecords) \X Msgs
        /\ files \in Seq(SegmentFiles) /\ \A k \in 1 .. Len(files) : ScarOK(files[k])
    BY DEF DInv, TypeOK, Scarred
  <1>3. CASE files = << >>
    <2>1. files' = << >> /\ nextOffset' = 0
      BY <1>1, <1>3 DEF RepairedFiles
    <2>2. << >> \in Seq(SegmentFiles) /\ << >> \in Seq(SegmentMetadata)
      BY EmptySeq
    <2>3. segments' = << >>
      BY <1>1, <2>1, <2>2, RecoveredFacts
    <2>4. Scarred(files') /\ Described(files', segments', nextOffset')
      BY <1>2, <1>3, <2>1, <2>3 DEF Described
    <2>5. nextOffset' \in 0 .. MaxRecords /\ segments' \in Seq(SegmentMetadata)
      BY <2>1, <2>2, <2>3, StorageAssumption
    <2> QED BY <1>1, <1>2, <2>4, <2>5, ScarKept
  <1>4. CASE files # << >>
    <2> DEFINE n == Len(files)
               f == Last(files)
               X == SubSeq(f.frames, 1, ValidPrefix(f))
               g == [base |-> f.base, frames |-> X]
    <2>1. n \in Nat \ {0} /\ f = files[n] /\ ScarOK(f)
      BY <1>2, <1>4, FrontAndLast
    <2>2. files' = [files EXCEPT ![n].frames = X]
      BY <1>1, <1>4, <2>1 DEF RepairedFiles
    <2>3. ScarOK(g) /\ IsIntact(g) /\ X \in Seq(Frames)
      <3>1. Repaired(f, X, g)
        BY DEF Repaired
      <3> HIDE DEF f, X, g
      <3> QED BY <2>1, <3>1, ScarRepaired
    <2>4. EndsIn(files, g, files')
      <3> HIDE DEF X
      <3> QED BY <2>2, <2>3 DEF EndsIn
    <2> HIDE DEF g, X, f
    <2>5. Scarred(files') /\ Len(files') = n /\ Last(files') = g /\ files' # << >>
      BY <1>2, <1>4, <2>3, <2>4, ScarredLast
    <2>6. files' \in Seq(SegmentFiles) /\ \A k \in 1 .. n : ScarOK(files'[k])
      BY <2>5 DEF Scarred
    <2>7. \A k \in 1 .. n : IsIntact(files'[k])
      <3> SUFFICES ASSUME NEW k \in 1 .. n PROVE IsIntact(files'[k])
        OBVIOUS
      <3>1. CASE k = n
        <4>1. files'[k] = g
          BY <2>5, <3>1 DEF Last
        <4> QED BY <2>3, <4>1
      <3>2. CASE k # n
        <4>1. files'[k] = files[k]
          BY <1>2, <2>2, <3>2
        <4>2. k \in DOMAIN files /\ k < Len(files)
          BY <1>2, <2>1, <3>2
        <4>3. IsIntact(files[k])
          BY <1>1, <4>2 DEF EarlierFilesAccepted
        <4> QED BY <4>1, <4>3
      <3> QED BY <3>1, <3>2
    <2>8. /\ Len(segments') = n /\ Last(segments') = Metadata(g)
          /\ \A k \in 1 .. n : segments'[k] = Metadata(files'[k])
      BY <1>1, <2>5, <2>6, RecoveredFacts
    <2>9. segments' \in Seq(SegmentMetadata)
      <3>1. \A k \in 1 .. n : segments'[k] \in SegmentMetadata
        BY <2>6, <2>7, <2>8, IntactMetadata
      <3>2. segments' = [k \in 1 .. n |-> segments'[k]]
        <4>1. segments' \in Seq({ Metadata(ff) : ff \in SegmentFiles })
          BY <1>1, <2>6, RecoveredFacts
        <4> QED BY <2>8, <4>1
      <3>3. n \in Nat
        BY <2>1
      <3> HIDE DEF n
      <3>4. [k \in 1 .. n |-> segments'[k]] \in Seq(SegmentMetadata)
        BY <3>1, <3>3, IsASeq
      <3> QED BY <3>2, <3>4, Zenon
    <2>10. Metadata(g) \in SegmentMetadata
      BY <2>3, IntactMetadata
    <2>11. nextOffset' = g.base + Len(g.frames) /\ Last(segments').size = SizeOf(g.frames)
      BY <1>1, <1>4, <2>8 DEF Metadata
    <2>12. nextOffset' \in 0 .. MaxRecords
      BY <2>10, <2>11 DEF Metadata, SegmentMetadata
    <2>13. Tracks(g, SizeOf(g.frames), nextOffset')
      <3>1. g \in SegmentFiles
        BY <2>3 DEF ScarOK
      <3>2. ValidBytes(g) = SizeOf(g.frames) /\ SizeOf(g.frames) \in Nat
        BY <2>3, <3>1, ValidBytesFacts
      <3> QED BY <2>3, <2>11, <3>2 DEF Tracks, IsIntact
    <2>14. Described(files', segments', nextOffset')
      BY <2>5, <2>8, <2>11, <2>13 DEF Described
    <2> QED BY <1>1, <1>2, <2>5, <2>9, <2>12, <2>14, ScarKept
  <1> QED BY <1>3, <1>4

\* Debris with something written behind it.
Buried(fs) ==
  \E k \in DOMAIN fs : \E i \in DOMAIN fs[k].frames :
    /\ fs[k].frames[i].kind = "debris"
    /\ k < Len(fs) \/ i < Len(fs[k].frames)

\* open refuses nothing else.
LEMMA OpenFailsScar ==
  ASSUME DInv, OpenFails
  PROVE  DInv'
  <1>1. /\ files # << >> /\ (EarlierFilesAccepted => IsRejectable(Last(files)))
        /\ status' = "failed" /\ UNCHANGED <<segments, nextOffset, files, acked>>
    BY DEF OpenFails
  <1>2. /\ files \in Seq(SegmentFiles) /\ (\A k \in 1 .. Len(files) : ScarOK(files[k]))
        /\ ChainedUntilScar(files)
    BY DEF DInv, Scarred
  <1> DEFINE n == Len(files)
             f == Last(files)
  <1>3. n \in Nat \ {0} /\ f = files[n] /\ DOMAIN files = 1 .. n
    BY <1>1, <1>2, FrontAndLast
  <1>4. Buried(files)
    <2> SUFFICES ASSUME ~Buried(files) PROVE FALSE
      OBVIOUS
    <2>1. ASSUME NEW k \in 1 .. n, ~IsIntact(files[k])
          PROVE  k = n /\ ValidPrefix(f) + 1 = Len(f.frames)
      <3> DEFINE V == ValidPrefix(files[k])
                 L == Len(files[k].frames)
      <3>1. files[k] \in SegmentFiles /\ ScarOK(files[k])
        BY <1>2
      <3>2. V \in 0 .. L /\ L \in Nat /\ V # L /\ DOMAIN files[k].frames = 1 .. L
        BY <2>1, <3>1, ScanFacts DEF IsIntact, SegmentFiles
      <3>3. V < L /\ V + 1 \in 1 .. L
        BY <3>2
      <3>4. files[k].frames[V + 1].kind = "debris"
        BY <3>1, <3>3 DEF ScarOK
      <3>5. ~(k < n) /\ ~(V + 1 < L)
        BY <1>3, <3>2, <3>3, <3>4 DEF Buried
      <3>6. k = n
        <4> HIDE DEF n
        <4> QED BY <1>3, <3>5
      <3>7. V + 1 = L
        <4> HIDE DEF V, L
        <4> QED BY <3>2, <3>3, <3>5
      <3> QED BY <1>3, <3>6, <3>7
    <2>2. \A k \in 1 .. n - 1 : IsIntact(files[k])
      <3> SUFFICES ASSUME NEW k \in 1 .. n - 1 PROVE IsIntact(files[k])
        OBVIOUS
      <3>1. k \in 1 .. n /\ k # n
        <4> HIDE DEF n
        <4> QED BY <1>3
      <3> QED BY <2>1, <3>1
    <2>3. ASSUME NEW k \in 1 .. n
          PROVE  IsChained(k) /\ (k < n => IsIntact(files[k]) /\ files[k].frames # << >>)
      <3>1. \A j \in 1 .. k - 1 : IsIntact(files[j])
        BY <1>3, <2>2
      <3>2. IsChained(k)
        BY <1>2, <3>1 DEF ChainedUntilScar, IsChained
      <3>3. ASSUME k < n PROVE IsIntact(files[k]) /\ files[k].frames # << >>
        <4>1. k \in 1 .. n - 1 /\ n \in 1 .. n
          BY <1>3, <3>3
        <4>2. \A j \in 1 .. n - 1 : files[j].frames # << >>
          BY <1>2, <2>2, <4>1 DEF ChainedUntilScar
        <4> QED BY <2>2, <4>1, <4>2
      <3> QED BY <3>2, <3>3
    <2>4. EarlierFilesAccepted
      BY <1>3, <2>3 DEF EarlierFilesAccepted
    <2>5. IsRejectable(f) /\ ~IsIntact(f)
      BY <1>1, <2>4 DEF IsRejectable
    <2>6. ScarOK(f) /\ f \in SegmentFiles /\ n \in 1 .. n
      BY <1>2, <1>3
    <2>7. ValidPrefix(f) + 1 = Len(f.frames)
      BY <1>3, <2>1, <2>5, <2>6
    <2> HIDE DEF f, n
    <2>8. TailOK(f)
      <3> DEFINE L == Len(f.frames)
      <3>1. L \in Nat /\ ValidPrefix(f) \in Nat /\ ValidPrefix(f) + 1 = L
        BY <2>6, <2>7, ScanFacts
      <3>2. ValidPrefix(f) < L /\ L \in 1 .. L
        <4> HIDE DEF L
        <4> QED BY <3>1
      <3>3. f.frames[L].kind = "debris"
        BY <2>6, <3>1, <3>2 DEF ScarOK
      <3>4. f.frames[L].bytes < f.frames[L].claims
        BY <2>6, <3>2, <3>3 DEF ScarOK
      <3> QED BY <3>1, <3>3, <3>4 DEF TailOK
    <2> QED BY <2>5, <2>6, <2>8, DebrisRepaired
  <1>5. RefusedOnlyForBuriedDebris'
    BY <1>1, <1>4 DEF RefusedOnlyForBuriedDebris, Buried
  <1>6. TypeOK'
    BY <1>1 DEF DInv, TypeOK
  <1> QED BY <1>1, <1>5, <1>6 DEF DInv

\* Init establishes the invariant.
LEMMA InitScar ==
  ASSUME Init
  PROVE  DInv
  <1>1. /\ status = "up" /\ segments = << >> /\ nextOffset = 0 /\ files = << >>
    BY DEF Init
  <1>2. TypeOK
    BY InitInv DEF SInv
  <1>3. Scarred(<< >>)
    BY EmptySeq DEF Scarred, ChainedUntilScar
  <1> QED BY <1>1, <1>2, <1>3 DEF DInv, Described, RefusedOnlyForBuriedDebris

\* Every step preserves the invariant.
LEMMA NextScar ==
  ASSUME DInv, [Next]_vars
  PROVE  DInv'
  <1>1. CASE UNCHANGED vars
    BY <1>1 DEF vars, DInv, TypeOK, RefusedOnlyForBuriedDebris
  <1>2. CASE Crash
    <2>1. /\ status' = "down" /\ segments' = << >> /\ nextOffset' = 0
          /\ files' = files /\ acked' = acked
      BY <1>2 DEF Crash
    <2>2. Scarred(files') /\ acked' \subseteq (0 .. MaxRecords) \X Msgs
      BY <2>1 DEF DInv, TypeOK
    <2> QED BY <2>1, <2>2, ScarKept
  <1> QED BY <1>1, <1>2, AppendSucceedsScar, AppendFailsScar, CrashInAppendScar,
             OpenSucceedsScar, OpenFailsScar DEF Next

-----------------------------------------------------------------------------
(* The theorems.                                                           *)

\* The invariant holds in every state, unless a rollback fails.
THEOREM Invariance ==
  ASSUME ~RollbackErrors
  PROVE  Spec => []SInv
  <1>1. Init => SInv
    BY InitInv
  <1>2. SInv /\ [Next]_vars => SInv'
    BY NextInv
  <1> QED BY <1>1, <1>2, PTL DEF Spec

\* The invariant for rollbacks that fail holds in every state, whatever fails.
THEOREM ScarInvariance == Spec => []DInv
  <1>1. Init => DInv
    BY InitScar
  <1>2. DInv /\ [Next]_vars => DInv'
    BY NextScar
  <1> QED BY <1>1, <1>2, PTL DEF Spec

\* Metadata and files keep their types, also when rollbacks fail.
THEOREM TypeCorrectness == Spec => []TypeOK
  <1>1. DInv => TypeOK
    BY DEF DInv
  <1> QED BY <1>1, ScarInvariance, PTL

\* open refuses a log only where debris that could not be rolled back lies
\* before something written later, whatever else failed or crashed.
THEOREM BuriedDebrisTheorem == Spec => []RefusedOnlyForBuriedDebris
  <1>1. DInv => RefusedOnlyForBuriedDebris
    BY DEF DInv
  <1> QED BY <1>1, ScarInvariance, PTL

\* A message whose append returned Ok is found at its offset by every later
\* read.
THEOREM AcknowledgedTheorem ==
  ASSUME ~RollbackErrors
  PROVE  Spec => []AcknowledgedSurvive
  <1>1. SInv => AcknowledgedSurvive
    BY DEF SInv, Holds, AcknowledgedSurvive
  <1> QED BY <1>1, Invariance, PTL

\* The metadata of the open log describes its files.
THEOREM MetadataTheorem ==
  ASSUME ~RollbackErrors
  PROVE  Spec => []MetadataMatchesFiles
  <1>1. SInv => MetadataMatchesFiles
    BY OpenLog DEF SInv, MetadataMatchesFiles
  <1> QED BY <1>1, Invariance, PTL

\* What an append, a failed append or a crash leaves behind can be opened.
THEOREM ReopenTheorem ==
  ASSUME ~RollbackErrors
  PROVE  Spec => []ReopenSucceeds
  <1>1. SInv => ReopenSucceeds
    BY DEF SInv, ReopenSucceeds
  <1> QED BY <1>1, Invariance, PTL

\* The segmented log implements the log that only grows.
THEOREM RefinementTheorem ==
  ASSUME ~RollbackErrors
  PROVE  Spec => ImplementsAppendLog
  <1>1. Init => AppendOnly!LogInit
    <2> SUFFICES ASSUME Init PROVE Readable = << >>
      BY DEF AppendOnly!LogInit
    <2> QED BY MessagesAppend DEF Init, Readable
  <1>2. SInv /\ [Next]_vars => [AppendOnly!LogNext]_Readable
    BY NextInv DEF LogStep, AppendOnly!LogNext
  <1> QED BY <1>1, <1>2, Invariance, PTL DEF Spec, ImplementsAppendLog, AppendOnly!LogSpec

=============================================================================
