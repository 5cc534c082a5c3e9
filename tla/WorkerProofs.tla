---------------------------- MODULE WorkerProofs ----------------------------
(***************************************************************************)
(* Proofs about Worker, for all tasks and events, any capacity of the      *)
(* pipes and any number of faults: the cooker is told what the processes   *)
(* did, in order, and of what a worker that left its loop had reaped       *)
(* nothing is lost.                                                        *)
(***************************************************************************)
EXTENDS Worker, FiniteSetTheorems, SequenceTheorems, TLAPS

What     == {Events[i] : i \in Nat} \cup Statuses
Msgs     == [task : Tasks, what : What]
Commands == {Run(t) : t \in Tasks} \cup {FinishNow, Quit}

\* What is on its way to the cooker, and to the worker
Channel == stdout \o out
Orders  == (input \o stdin) \o outbox

Typed ==
  /\ got \in [Tasks -> Seq(What)] /\ said \in [Tasks -> Seq(What)] /\ pipe \in [Tasks -> Seq(What)]
  /\ stdout \in Seq(Msgs) /\ out \in Seq(Msgs)
  /\ pids \in Seq(Tasks) /\ doomed \in Seq(Tasks) /\ ready \subseteq Tasks
  /\ input \in Seq(Commands) /\ stdin \in Seq(Commands) /\ outbox \in Seq(Commands)
  /\ Len(outbox) <= 1 /\ asked \subseteq Tasks
  /\ proc \in [Tasks -> {"none", "forked", "up", "term", "zombie", "gone", "orphan"}]
  /\ main \in {"select", "items", "late", "last", "kill", "wait", "drain", "pipes", "reap",
               "join", "ended", "killed"}
  /\ build \in {"running", "stopped", "teardown", "done", "dead"}
  /\ main = "wait" => doomed # <<>>
  /\ \A t \in Tasks : proc[t] = "zombie" => said[t] # <<>>

\* A task is asked for once, and has no process before.
Once(c) == \A i, j \in DOMAIN c : c[i] = c[j] /\ c[i].op = "runtask" => i = j

AskedOnce ==
  /\ Once(Orders)
  /\ \A c \in Range(Orders) : c.op = "runtask" => c.task \in asked /\ proc[c.task] = "none"
  /\ \A t \in Tasks \ asked : proc[t] = "none"

\* A process that was not reaped is in the table.
InTable ==
  \A t \in Tasks :
    proc[t] \in {"forked", "up", "term", "zombie", "orphan"} => t \in Range(pids)

\* The messages of t among the first n of c, and all that have left its pipe
Count(c, t, n) == Cardinality({j \in 1..n : c[j].task = t})
Sent(t)        == Len(got[t]) + Count(Channel, t, Len(Channel))

\* Each message on its way is what its task said next after those before it.
Numbered ==
  \A i \in DOMAIN Channel :
    LET t == Channel[i].task
        k == Len(got[t]) + Count(Channel, t, i)
    IN k <= Len(said[t]) /\ Channel[i].what = said[t][k]

\* The pipe of a task has what follows, up to the exit code of a process that has
\* ended; after a process was reaped nothing is missing.
Piped ==
  \A t \in Tasks :
    /\ Sent(t) + Len(pipe[t]) <= Len(said[t])
    /\ \A k \in DOMAIN pipe[t] : pipe[t][k] = said[t][Sent(t) + k]
    /\ proc[t] \in {"none", "forked", "up", "term"} => Sent(t) + Len(pipe[t]) = Len(said[t])
    /\ proc[t] = "zombie" => Sent(t) + Len(pipe[t]) + 1 = Len(said[t])
    /\ Reported(t) => Sent(t) = Len(said[t]) /\ pipe[t] = <<>>

Told ==
  \A t \in Tasks :
    Len(got[t]) <= Len(said[t]) /\ \A k \in DOMAIN got[t] : got[t][k] = said[t][k]

Ends ==
  /\ Down => out = <<>>
  /\ build = "done" => Down /\ stdout = <<>>

WInv ==
  /\ Typed /\ AskedOnce /\ InTable /\ Told /\ Ends
  /\ build # "dead" => Numbered
  /\ build # "dead" /\ main # "killed" => Piped

-----------------------------------------------------------------------------
(* Counting *)

LEMMA CountFacts ==
  ASSUME NEW c, NEW t, NEW n \in Nat
  PROVE  /\ Count(c, t, n) \in Nat /\ Count(c, t, 0) = 0
         /\ Count(c, t, n + 1) = Count(c, t, n) + (IF c[n + 1].task = t THEN 1 ELSE 0)
<1> DEFINE C(m) == {j \in 1..m : c[j].task = t}
<1>1. \A m \in Nat : IsFiniteSet(1..m)
  BY FS_Interval
<1>2. \A m \in Nat : IsFiniteSet(C(m)) /\ Cardinality(C(m)) \in Nat
  BY <1>1, FS_Subset, FS_CardinalityType
<1>3. C(0) = {}
  OBVIOUS
<1>0. \A m : Count(c, t, m) = Cardinality(C(m))
  BY DEF Count
<1>4. CASE c[n + 1].task = t
  <2>1. C(n + 1) = C(n) \cup {n + 1} /\ n + 1 \notin C(n)
    BY <1>4
  <2>2. Cardinality(C(n + 1)) = Cardinality(C(n)) + 1
    BY <2>1, <1>2, FS_AddElement
  <2> QED BY <2>2, <1>0, <1>2, <1>3, <1>4, FS_EmptySet
<1>5. CASE c[n + 1].task # t
  <2>1. 1..(n + 1) = (1..n) \cup {n + 1}
    OBVIOUS
  <2>2. C(n + 1) = C(n)
    BY <2>1, <1>5
  <2> HIDE DEF C
  <2> QED BY <2>2, <1>0, <1>2, <1>3, <1>5, FS_EmptySet
<1> QED BY <1>4, <1>5

LEMMA CountSame ==
  ASSUME NEW c, NEW d, NEW t, NEW n \in Nat, \A j \in 1..n : c[j] = d[j]
  PROVE  Count(c, t, n) = Count(d, t, n)
<1>1. {j \in 1..n : c[j].task = t} = {j \in 1..n : d[j].task = t}
  OBVIOUS
<1> QED BY <1>1 DEF Count

\* Messages of one task behind others
BlockCounted(c, b, t) ==
  /\ \A u, i : i \in 0..Len(c) => Count(c \o b, u, i) = Count(c, u, i)
  /\ \A j \in 0..Len(b) : Count(c \o b, t, Len(c) + j) = Count(c, t, Len(c)) + j
  /\ \A u : u # t => Count(c \o b, u, Len(c \o b)) = Count(c, u, Len(c))

LEMMA CountBlock ==
  ASSUME NEW c \in Seq(Msgs), NEW b \in Seq(Msgs), NEW t,
         \A j \in DOMAIN b : b[j].task = t
  PROVE  BlockCounted(c, b, t)
<1> USE DEF BlockCounted
<1> DEFINE d == c \o b
           D(u, m) == {j \in 1..m : d[j].task = u}
<1>1. /\ Len(c) \in Nat /\ Len(b) \in Nat /\ Len(d) = Len(c) + Len(b)
      /\ \A j \in 1..Len(c) : d[j] = c[j]
      /\ \A j \in (Len(c) + 1)..(Len(c) + Len(b)) : d[j].task = t
  BY ConcatProperties, LenProperties
<1>2. \A u, i : i \in 0..Len(c) => Count(d, u, i) = Count(c, u, i)
  <2> SUFFICES ASSUME NEW u, NEW i \in 0..Len(c) PROVE Count(d, u, i) = Count(c, u, i)
    OBVIOUS
  <2>1. i \in Nat /\ \A j \in 1..i : d[j] = c[j]
    BY <1>1
  <2> QED BY <2>1, CountSame
<1>3. \A j \in 0..Len(b) : Count(d, t, Len(c) + j) = Count(c, t, Len(c)) + j
  <2> SUFFICES ASSUME NEW j \in 0..Len(b)
               PROVE  Count(d, t, Len(c) + j) = Count(c, t, Len(c)) + j
    OBVIOUS
  <2> DEFINE I == (Len(c) + 1)..(Len(c) + j)
             A == {x \in 1..Len(c) : d[x].task = t}
             B == {x \in 1..(Len(c) + j) : d[x].task = t}
  <2>1. B = A \cup I /\ A \cap I = {}
    <3>1. 1..(Len(c) + j) = (1..Len(c)) \cup I /\ (1..Len(c)) \cap I = {}
      BY <1>1
    <3>2. \A x \in I : d[x].task = t
      BY <1>1
    <3> HIDE DEF d, I
    <3> QED BY <3>1, <3>2
  <2>2. IsFiniteSet(I) /\ Cardinality(I) = j
    <3>1. \A x, y \in Int : IsFiniteSet(x..y) /\ (x <= y + 1 => Cardinality(x..y) = y - x + 1)
      BY FS_Interval
    <3> DEFINE x == Len(c) + 1
               y == Len(c) + j
    <3>2. x \in Int /\ y \in Int /\ x <= y + 1 /\ y - x + 1 = j /\ I = x..y
      BY <1>1
    <3> HIDE DEF x, y
    <3> QED BY <3>1, <3>2
  <2>3. IsFiniteSet(A)
    <3>1. IsFiniteSet(1..Len(c))
      BY <1>1, FS_Interval
    <3> QED BY <3>1, FS_Subset
  <2>4. Count(d, t, Len(c) + j) = Cardinality(B) /\ Cardinality(A) = Count(c, t, Len(c))
    BY <1>1, <1>2 DEF Count
  <2> HIDE DEF A, B, I, d
  <2>5. Cardinality(A) \in Nat /\ Cardinality(A \cap I) = 0
    BY <2>1, <2>3, FS_EmptySet, FS_CardinalityType
  <2>6. Cardinality(A \cup I) = Cardinality(A) + j - 0
    BY <2>2, <2>3, <2>5, FS_Union
  <2> QED BY <2>1, <2>4, <2>5, <2>6
<1>4. \A u : u # t => Count(d, u, Len(d)) = Count(c, u, Len(c))
  <2>0. SUFFICES ASSUME NEW u, u # t PROVE Count(d, u, Len(d)) = Count(c, u, Len(c))
    OBVIOUS
  <2>1. D(u, Len(d)) = D(u, Len(c))
    <3>1. /\ 1..Len(d) = (1..Len(c)) \cup ((Len(c) + 1)..(Len(c) + Len(b)))
          /\ \A j \in (Len(c) + 1)..(Len(c) + Len(b)) : d[j].task # u
      BY <1>1, <2>0
    <3> HIDE DEF d
    <3> QED BY <3>1
  <2>2. Count(d, u, Len(c)) = Count(c, u, Len(c))
    BY <1>1, <1>2
  <2> QED BY <2>1, <2>2 DEF Count
<1> QED BY <1>2, <1>3, <1>4

\* The first message is taken.
LEMMA CountTail ==
  ASSUME NEW c \in Seq(Msgs), c # <<>>, NEW u, NEW i \in 0..Len(Tail(c))
  PROVE  Count(c, u, i + 1) = Count(Tail(c), u, i) + (IF Head(c).task = u THEN 1 ELSE 0)
<1> DEFINE T == {j \in 1..i : Tail(c)[j].task = u}
           S == {j \in 2..(i + 1) : c[j].task = u}
           C == {j \in 1..(i + 1) : c[j].task = u}
           f == [j \in T |-> j + 1]
<1>1. /\ Len(c) \in Nat \ {0} /\ Len(Tail(c)) = Len(c) - 1 /\ Head(c) = c[1]
      /\ \A j \in 1..Len(Tail(c)) : Tail(c)[j] = c[j + 1]
  BY HeadTailProperties, LenProperties, EmptySeq
<1>2. IsFiniteSet(T) /\ Cardinality(T) \in Nat
  <2>1. IsFiniteSet(1..i)
    BY <1>1, FS_Interval
  <2>2. T \in SUBSET (1..i)
    OBVIOUS
  <2> QED BY <2>1, <2>2, FS_Subset, FS_CardinalityType
<1>3. f \in Bijection(T, S)
  <2>1. \A j \in T : f[j] \in S
    BY <1>1
  <2>2. \A j, k \in T : f[j] = f[k] => j = k
    BY <1>1
  <2>3. \A k \in S : k - 1 \in T /\ f[k - 1] = k
    BY <1>1
  <2> QED BY <2>1, <2>2, <2>3 DEF Bijection, Injection, Surjection, IsInjective
<1>4. IsFiniteSet(S) /\ Cardinality(S) = Cardinality(T)
  BY <1>2, <1>3, FS_Bijection DEF ExistsBijection
<1>0. Count(c, u, i + 1) = Cardinality(C) /\ Count(Tail(c), u, i) = Cardinality(T)
  BY DEF Count
<1>5. CASE Head(c).task = u
  <2>1. C = S \cup {1} /\ 1 \notin S
    BY <1>1, <1>5
  <2>2. Cardinality(C) = Cardinality(S) + 1
    BY <2>1, <1>4, FS_AddElement
  <2> QED BY <2>2, <1>0, <1>4, <1>2, <1>5
<1>6. CASE Head(c).task # u
  <2>1. 1..(i + 1) = {1} \cup (2..(i + 1))
    OBVIOUS
  <2>2. C = S
    BY <2>1, <1>1, <1>6
  <2> HIDE DEF C, S, T
  <2> QED BY <2>2, <1>0, <1>4, <1>2, <1>6
<1> QED BY <1>5, <1>6

-----------------------------------------------------------------------------
(* Sequences *)

LEMMA Associative ==
  \A S : \A s, t, u \in Seq(S) : s \o (t \o u) = (s \o t) \o u
<1> SUFFICES ASSUME NEW S, NEW s \in Seq(S), NEW t \in Seq(S), NEW u \in Seq(S)
             PROVE  s \o (t \o u) = (s \o t) \o u
  OBVIOUS
<1>1. (s \o t) \o u = s \o (t \o u)
  BY ConcatAssociative
<1> QED BY <1>1

LEMMA RangeBoth ==
  \A S : \A s, t \in Seq(S) : Range(s \o t) = Range(s) \cup Range(t)
<1> SUFFICES ASSUME NEW S, NEW s \in Seq(S), NEW t \in Seq(S)
             PROVE  Range(s \o t) = Range(s) \cup Range(t)
  OBVIOUS
<1> QED BY RangeConcatenation

LEMMA HandedOn ==
  ASSUME NEW S, NEW a \in Seq(S), NEW b \in Seq(S), b # <<>>
  PROVE  Append(a, Head(b)) \o Tail(b) = a \o b
<1>1. /\ Head(b) = b[1] /\ Head(b) \in S /\ Tail(b) \in Seq(S) /\ Len(Tail(b)) = Len(b) - 1
      /\ \A i \in 1..Len(Tail(b)) : Tail(b)[i] = b[i + 1]
      /\ Len(a) \in Nat /\ Len(b) \in Nat \ {0}
  BY HeadTailProperties, LenProperties, EmptySeq
<1>2. /\ Append(a, Head(b)) \in Seq(S) /\ Len(Append(a, Head(b))) = Len(a) + 1
      /\ \A i \in 1..Len(a) : Append(a, Head(b))[i] = a[i]
      /\ Append(a, Head(b))[Len(a) + 1] = b[1]
  BY <1>1, AppendProperties
<1> DEFINE c == Append(a, Head(b)) \o Tail(b)
           d == a \o b
<1>3. /\ c \in Seq(S) /\ Len(c) = Len(a) + Len(b)
      /\ \A i \in 1..(Len(a) + Len(b)) : c[i] = IF i <= Len(a) THEN a[i] ELSE b[i - Len(a)]
  <2>1. /\ c \in Seq(S) /\ Len(c) = Len(a) + 1 + (Len(b) - 1)
        /\ \A i \in 1..(Len(a) + 1 + (Len(b) - 1)) :
             c[i] = IF i <= Len(a) + 1 THEN Append(a, Head(b))[i] ELSE Tail(b)[i - (Len(a) + 1)]
    BY <1>1, <1>2, ConcatProperties
  <2>2. \A i \in 1..(Len(a) + Len(b)) : i > Len(a) + 1 => Tail(b)[i - (Len(a) + 1)] = b[i - Len(a)]
    BY <1>1
  <2> HIDE DEF c
  <2>3. ASSUME NEW i \in 1..(Len(a) + Len(b))
        PROVE  (i <= Len(a) => c[i] = a[i]) /\ (~(i <= Len(a)) => c[i] = b[i - Len(a)])
    <3>1. CASE i <= Len(a)
      BY <3>1, <2>1, <1>1, <1>2
    <3>2. CASE i = Len(a) + 1
      <4>1. i - Len(a) = 1 /\ ~(i <= Len(a)) /\ i <= Len(a) + 1
        BY <3>2, <1>1
      <4>2. c[i] = Append(a, Head(b))[i]
        BY <4>1, <2>1, <1>1
      <4>3. c[i] = b[1]
        BY <4>2, <3>2, <1>2
      <4>4. b[i - Len(a)] = b[1]
        BY <4>1
      <4> QED BY <4>1, <4>3, <4>4
    <3>3. CASE i > Len(a) + 1
      <4>1. i \in 1..(Len(a) + 1 + (Len(b) - 1)) /\ ~(i <= Len(a) + 1) /\ ~(i <= Len(a))
        BY <3>3, <1>1
      <4>2. c[i] = Tail(b)[i - (Len(a) + 1)]
        BY <4>1, <2>1
      <4>3. Tail(b)[i - (Len(a) + 1)] = b[i - Len(a)]
        BY <3>3, <2>2
      <4> QED BY <4>1, <4>2, <4>3
    <3> QED BY <3>1, <3>2, <3>3, <1>1
  <2> QED BY <2>1, <2>3, <1>1
<1>4. /\ d \in Seq(S) /\ Len(d) = Len(a) + Len(b)
      /\ \A i \in 1..(Len(a) + Len(b)) : d[i] = IF i <= Len(a) THEN a[i] ELSE b[i - Len(a)]
  BY ConcatProperties
<1> HIDE DEF c, d
<1>5. c = d
  BY <1>1, <1>3, <1>4, SeqEqual
<1> QED BY <1>5 DEF c, d

LEMMA TakenFirst ==
  ASSUME NEW S, NEW a \in Seq(S), NEW b \in Seq(S), a # <<>>
  PROVE  a \o b # <<>> /\ Head(a \o b) = Head(a) /\ Tail(a \o b) = Tail(a) \o b
<1> DEFINE c == a \o b
           d == Tail(a) \o b
<1>1. /\ Head(a) = a[1] /\ Tail(a) \in Seq(S) /\ Len(Tail(a)) = Len(a) - 1
      /\ \A i \in 1..Len(Tail(a)) : Tail(a)[i] = a[i + 1]
      /\ Len(a) \in Nat \ {0} /\ Len(b) \in Nat
  BY HeadTailProperties, LenProperties, EmptySeq
<1>2. /\ c \in Seq(S) /\ Len(c) = Len(a) + Len(b)
      /\ \A i \in 1..(Len(a) + Len(b)) : c[i] = IF i <= Len(a) THEN a[i] ELSE b[i - Len(a)]
  BY ConcatProperties
<1>3. /\ d \in Seq(S) /\ Len(d) = Len(Tail(a)) + Len(b)
      /\ \A i \in 1..(Len(Tail(a)) + Len(b)) :
           d[i] = IF i <= Len(Tail(a)) THEN Tail(a)[i] ELSE b[i - Len(Tail(a))]
  BY <1>1, ConcatProperties
<1> HIDE DEF c, d
<1>4. c # <<>> /\ Len(c) \in Nat \ {0}
  BY <1>1, <1>2, EmptySeq
<1>5. /\ Head(c) = c[1] /\ Tail(c) \in Seq(S) /\ Len(Tail(c)) = Len(c) - 1
      /\ \A i \in 1..Len(Tail(c)) : Tail(c)[i] = c[i + 1]
  BY <1>2, <1>4, HeadTailProperties
<1>6. \A i \in 1..Len(d) : Tail(c)[i] = d[i]
  <2> SUFFICES ASSUME NEW i \in 1..Len(d) PROVE Tail(c)[i] = d[i]
    OBVIOUS
  <2>1. i \in 1..(Len(a) - 1 + Len(b)) /\ i \in 1..Len(Tail(c)) /\ i + 1 \in 1..(Len(a) + Len(b))
    BY <1>1, <1>2, <1>3, <1>5
  <2>2. CASE i <= Len(a) - 1
    <3>1. Tail(c)[i] = c[i + 1] /\ c[i + 1] = a[i + 1]
      BY <2>1, <2>2, <1>1, <1>2, <1>5
    <3>2. d[i] = Tail(a)[i] /\ Tail(a)[i] = a[i + 1]
      BY <2>1, <2>2, <1>1, <1>3
    <3> QED BY <3>1, <3>2
  <2>3. CASE i > Len(a) - 1
    <3>1. Tail(c)[i] = c[i + 1] /\ c[i + 1] = b[i + 1 - Len(a)]
      BY <2>1, <2>3, <1>1, <1>2, <1>5
    <3>2. d[i] = b[i - (Len(a) - 1)]
      BY <2>1, <2>3, <1>1, <1>3
    <3>3. i + 1 - Len(a) = i - (Len(a) - 1)
      BY <1>1
    <3> QED BY <3>1, <3>2, <3>3
  <2> QED BY <2>1, <2>2, <2>3, <1>1
<1>7. Tail(c) = d
  BY <1>1, <1>2, <1>3, <1>5, <1>6, SeqEqual
<1>8. Head(c) = Head(a)
  BY <1>1, <1>2, <1>5
<1> QED BY <1>4, <1>7, <1>8 DEF c, d

-----------------------------------------------------------------------------
(* Types *)

LEMMA AbandonedTyped ==
  ASSUME Typed
  PROVE  /\ Abandoned \in [Tasks -> {"none", "orphan", "gone"}]
         /\ \A t \in Tasks : Abandoned[t] = "none" <=> proc[t] = "none"
BY DEF Typed, Abandoned

LEMMA MessagesTyped ==
  ASSUME Typed, NEW t \in Tasks
  PROVE  /\ Messages(t) \in Seq(Msgs) /\ Len(Messages(t)) = Len(pipe[t])
         /\ \A k \in DOMAIN Messages(t) : Messages(t)[k] = [task |-> t, what |-> pipe[t][k]]
<1>1. pipe[t] \in Seq(What) /\ Len(pipe[t]) \in Nat /\ DOMAIN pipe[t] = 1..Len(pipe[t])
  BY LenProperties DEF Typed
<1>2. \A k \in 1..Len(pipe[t]) : pipe[t][k] \in What
  BY <1>1, ElementOfSeq
<1>3. Messages(t) \in [1..Len(pipe[t]) -> Msgs]
  BY <1>1, <1>2 DEF Messages, Msgs
<1>4. Messages(t) \in Seq(Msgs)
  BY <1>1, <1>3, SeqDef
<1>5. Len(Messages(t)) = Len(pipe[t])
  BY <1>1, <1>3, <1>4, LenProperties
<1> QED BY <1>1, <1>4, <1>5 DEF Messages

LEMMA ReadTyped ==
  ASSUME Typed, NEW t \in Tasks, ReadPipe(t)
  PROVE  out' \in Seq(Msgs) /\ pipe' \in [Tasks -> Seq(What)]
<1>1. out' \in Seq(Msgs)
  BY MessagesTyped, ConcatProperties DEF ReadPipe, Typed
<1>2. pipe' \in [Tasks -> Seq(What)]
  BY EmptySeq DEF ReadPipe, Typed
<1> QED BY <1>1, <1>2

LEMMA RemovedTyped ==
  ASSUME NEW S, NEW s \in Seq(S), NEW i \in 1..Len(s)
  PROVE  /\ RemoveAt(s, i) \in Seq(S)
         /\ \A x \in Range(s) : x # s[i] => x \in Range(RemoveAt(s, i))
<1> DEFINE a == SubSeq(s, 1, i - 1)
           b == SubSeq(s, i + 1, Len(s))
<1>1. Len(s) \in Nat /\ DOMAIN s = 1..Len(s) /\ \A j \in 1..Len(s) : s[j] \in S
  BY LenProperties, ElementOfSeq
<1>2. /\ a \in Seq(S) /\ Len(a) = i - 1 /\ \A j \in 1..(i - 1) : a[j] = s[j]
  <2>1. \A j \in 1..(i - 1) : s[j] \in S
    BY <1>1
  <2>2. \A j \in 1..(i - 1 - 1 + 1) : a[j] = s[1 + j - 1]
    BY <2>1, <1>1, SubSeqProperties
  <2> QED BY <2>1, <2>2, <1>1, SubSeqProperties
<1>3. /\ b \in Seq(S) /\ Len(b) = Len(s) - i
      /\ \A j \in 1..(Len(s) - i) : b[j] = s[i + j]
  <2>1. \A j \in (i + 1)..Len(s) : s[j] \in S
    BY <1>1
  <2>2. \A j \in 1..(Len(s) - (i + 1) + 1) : b[j] = s[i + 1 + j - 1]
    BY <2>1, <1>1, SubSeqProperties
  <2>3. Len(b) = IF i + 1 <= Len(s) THEN Len(s) - (i + 1) + 1 ELSE 0
    BY <2>1, <1>1, SubSeqProperties
  <2>4. b \in Seq(S)
    BY <2>1, <1>1, SubSeqProperties
  <2>5. Len(b) = Len(s) - i
    <3> DEFINE n == Len(s)
    <3>1. n \in Int /\ i \in Int /\ i <= n /\ Len(b) = IF i + 1 <= n THEN n - (i + 1) + 1 ELSE 0
      BY <1>1, <2>3
    <3> HIDE DEF n, b
    <3>2. Len(b) = n - i
      BY <3>1
    <3> QED BY <3>2 DEF n
  <2>6. \A j \in 1..(Len(s) - i) : i + 1 + j - 1 = i + j /\ j \in 1..(Len(s) - (i + 1) + 1)
    BY <1>1
  <2> HIDE DEF b
  <2> QED BY <2>2, <2>4, <2>5, <2>6
<1> HIDE DEF a, b
<1>4. a \o b \in Seq(S) /\ Range(a \o b) = Range(a) \cup Range(b)
  BY <1>2, <1>3, ConcatProperties, RangeConcatenation
<1>5. ASSUME NEW x \in Range(s), x # s[i]
      PROVE  x \in Range(a) \cup Range(b)
  <2>1. PICK j \in 1..Len(s) : x = s[j]
    BY <1>1 DEF Range
  <2>2. CASE j < i
    <3>1. j \in DOMAIN a /\ a[j] = x
      BY <2>1, <2>2, <1>1, <1>2, LenProperties
    <3> QED BY <3>1 DEF Range
  <2>3. CASE j > i
    <3>1. j - i \in 1..(Len(s) - i) /\ i + (j - i) = j
      BY <2>3, <1>1
    <3>2. j - i \in DOMAIN b /\ b[j - i] = x
      BY <3>1, <2>1, <1>3, LenProperties
    <3> QED BY <3>2 DEF Range
  <2> QED BY <2>1, <2>2, <2>3, <1>1, <1>5
<1> QED BY <1>4, <1>5 DEF RemoveAt, a, b

LEMMA CommandsTyped ==
  /\ FinishNow \in Commands /\ Quit \in Commands
  /\ \A t \in Tasks : Run(t) \in Commands /\ Run(t).op = "runtask" /\ Run(t).task = t
  /\ \A c \in Commands : c.op = "runtask" => c.task \in Tasks /\ c = Run(c.task)
  /\ FinishNow.op = "finishnow" /\ Quit.op = "quit"
<1>1. /\ FinishNow \in Commands /\ Quit \in Commands
      /\ \A t \in Tasks : Run(t) \in Commands /\ Run(t).op = "runtask" /\ Run(t).task = t
      /\ FinishNow.op = "finishnow" /\ Quit.op = "quit"
  BY DEF Commands, FinishNow, Quit, Run
<1>2. \A c \in Commands : c.op = "runtask" => c.task \in Tasks /\ c = Run(c.task)
  <2> SUFFICES ASSUME NEW c \in Commands, c.op = "runtask" PROVE c.task \in Tasks /\ c = Run(c.task)
    OBVIOUS
  <2>1. c # FinishNow /\ c # Quit
    BY <1>1
  <2>2. PICK t \in Tasks : c = Run(t)
    BY <2>1 DEF Commands
  <2> QED BY <2>2, <1>1
<1> QED BY <1>1, <1>2

\* What an action of the processes does
LEMMA WhatIsSaid ==
  /\ \A n \in Nat : Events[n + 1] \in What
  /\ "exited" \in What /\ "terminated" \in What
BY DEF What, Statuses

LEMMA Longer ==
  \A S : \A s \in Seq(S), e \in S : Append(s, e) \in Seq(S) /\ Append(s, e) # <<>>
BY AppendProperties

LEMMA InitTyped == Init => Typed
<1> SUFFICES ASSUME Init PROVE Typed
  OBVIOUS
<1>1. Len(<<>>) = 0 /\ \A S : <<>> \in Seq(S)
  BY EmptySeq
<1> QED BY <1>1 DEF Init, Typed

LEMMA TypedKept ==
  ASSUME Typed, [Next]_vars
  PROVE  Typed'
<1> USE DEF Typed
<1>1. CASE Select
  <2>1. input' \in Seq(Commands) /\ stdin' \in Seq(Commands)
    BY <1>1, ConcatProperties, EmptySeq DEF Select
  <2>2. ready' \subseteq Tasks
    BY <1>1, RangeOfSeq DEF Select
  <2>3. doomed' \in Seq(Tasks) /\ main' \in {"kill", "items"}
    BY <1>1 DEF Select, Range
  <2> QED BY <1>1, <2>1, <2>2, <2>3 DEF Select, cooker, kids
<1>2. CASE HandleRuntask
  <2>1. Head(input) \in Commands /\ Tail(input) \in Seq(Commands)
    BY <1>2, HeadTailProperties DEF HandleRuntask, NextIs
  <2>2. Head(input).task \in Tasks
    BY <1>2, <2>1, CommandsTyped DEF HandleRuntask, NextIs
  <2>3. pids' \in Seq(Tasks)
    BY <1>2, <2>2, AppendProperties DEF HandleRuntask
  <2> QED BY <1>2, <2>1, <2>2, <2>3 DEF HandleRuntask, cooker, pipes
<1>3. CASE HandleFinishNow
  <2>1. Tail(input) \in Seq(Commands)
    BY <1>3, HeadTailProperties DEF HandleFinishNow, NextIs
  <2> QED BY <1>3, <2>1 DEF HandleFinishNow, cooker, pipes, kids
<1>4. CASE Kill
  <2>1. Head(doomed) \in Tasks /\ Tail(doomed) \in Seq(Tasks)
    BY <1>4, HeadTailProperties DEF Kill
  <2> QED BY <1>4, <2>1 DEF Kill, cooker, pipes
<1>5. CASE WaitAny
  <2>1. Tail(doomed) \in Seq(Tasks)
    BY <1>5 DEF WaitAny
  <2> QED BY <1>5, <2>1 DEF WaitAny, cooker, pipes
<1>6. CASE KilledAll
  BY <1>6 DEF KilledAll, cooker, pipes, kids
<1>7. CASE ReadLast
  <2>1. Head(doomed) \in Tasks /\ Tail(doomed) \in Seq(Tasks)
    BY <1>7, HeadTailProperties DEF ReadLast
  <2>2. out' \in Seq(Msgs) /\ pipe' \in [Tasks -> Seq(What)]
    BY <1>7, <2>1, ReadTyped DEF ReadLast
  <2> QED BY <1>7, <2>1, <2>2 DEF ReadLast, cooker, pipes
<1>8. CASE Finished
  BY <1>8, AbandonedTyped, EmptySeq DEF Finished, cooker, pipes
<1>9. CASE HandleQuit
  <2>1. Tail(input) \in Seq(Commands)
    BY <1>9, HeadTailProperties DEF HandleQuit, NextIs
  <2> QED BY <1>9, <2>1 DEF HandleQuit, cooker, pipes, kids
<1>10. CASE ReadReady
  <2>1. PICK i \in DOMAIN pids : ReadPipe(pids[i]) /\ ready' = ready \ {pids[i]}
    BY <1>10 DEF ReadReady
  <2>2. pids[i] \in Tasks
    BY LenProperties, ElementOfSeq
  <2>3. out' \in Seq(Msgs) /\ pipe' \in [Tasks -> Seq(What)]
    BY <2>1, <2>2, ReadTyped
  <2> QED BY <1>10, <2>1, <2>3 DEF ReadReady, cooker, pipes
<1>11. CASE ReadAll
  BY <1>11 DEF ReadAll, cooker, pipes, kids
<1>12. CASE Reap
  <2>1. PICK i \in DOMAIN pids :
          /\ proc[pids[i]] = "zombie" /\ proc' = [proc EXCEPT ![pids[i]] = "gone"]
          /\ out' = out \o Append(Messages(pids[i]), [task |-> pids[i], what |-> Last(said[pids[i]])])
          /\ pipe' = [pipe EXCEPT ![pids[i]] = <<>>]
          /\ pids' = RemoveAt(pids, i)
    BY <1>12 DEF Reap
  <2>2. pids[i] \in Tasks /\ i \in 1..Len(pids) /\ Len(pids) \in Nat
    BY LenProperties, ElementOfSeq
  <2>3. said[pids[i]] \in Seq(What) /\ said[pids[i]] # <<>>
    BY <2>1, <2>2
  <2>4. Last(said[pids[i]]) \in What
    BY <2>3, EmptySeq, ElementOfSeq DEF Last
  <2>5. [task |-> pids[i], what |-> Last(said[pids[i]])] \in Msgs
    BY <2>2, <2>4 DEF Msgs
  <2>6. out' \in Seq(Msgs)
    BY <2>1, <2>2, <2>5, MessagesTyped, AppendProperties, ConcatProperties
  <2>7. pipe' \in [Tasks -> Seq(What)] /\ proc' \in [Tasks -> {"none", "forked", "up", "term", "zombie", "gone", "orphan"}]
    BY <2>1, <2>2, EmptySeq
  <2>8. pids' \in Seq(Tasks)
    BY <2>1, <2>2, RemovedTyped
  <2> QED BY <1>12, <2>1, <2>6, <2>7, <2>8 DEF Reap, cooker, pipes
<1>13. CASE ReapedAll
  BY <1>13 DEF ReapedAll, cooker, pipes, kids
<1>14. CASE Join
  BY <1>14, AbandonedTyped DEF Join, cooker, pipes
<1>15. CASE Flush
  <2>1. Head(out) \in Msgs /\ Tail(out) \in Seq(Msgs)
    BY <1>15, HeadTailProperties DEF Flush
  <2>2. stdout' \in Seq(Msgs)
    BY <1>15, <2>1, AppendProperties DEF Flush
  <2> QED BY <1>15, <2>1, <2>2 DEF Flush, cooker, loop, kids
<1>16. ASSUME NEW t \in Tasks, Setsid(t) PROVE Typed'
  BY <1>16 DEF Setsid, cooker, pipes, loop
<1>17. ASSUME NEW t \in Tasks, Fire(t) PROVE Typed'
  <2>1. said[t] \in Seq(What) /\ pipe[t] \in Seq(What) /\ Len(said[t]) \in Nat
    BY LenProperties
  <2>2. Events[Len(said[t]) + 1] \in What
    BY <2>1, WhatIsSaid
  <2>3. /\ Append(said[t], Events[Len(said[t]) + 1]) \in Seq(What)
        /\ Append(pipe[t], Events[Len(said[t]) + 1]) \in Seq(What)
        /\ Append(said[t], Events[Len(said[t]) + 1]) # <<>>
    BY <2>1, <2>2, Longer
  <2> QED BY <1>17, <2>3 DEF Fire, cooker, pipes, loop
<1>18. ASSUME NEW t \in Tasks, Exit(t) PROVE Typed'
  <2>1. said[t] \in Seq(What)
    OBVIOUS
  <2>2. \A e \in What : Append(said[t], e) \in Seq(What) /\ Append(said[t], e) # <<>>
    BY <2>1, Longer
  <2> QED BY <1>18, <2>2, WhatIsSaid DEF Exit, cooker, pipes, loop
<1>19. ASSUME NEW t \in Tasks, StartTask(t) PROVE Typed'
  <2>1. <<Run(t)>> \in Seq(Commands) /\ Len(<<Run(t)>>) = 1
    BY CommandsTyped
  <2> QED BY <1>19, <2>1 DEF StartTask, pipes, loop, kids
<1>20. CASE Teardown
  <2>1. <<Quit>> \in Seq(Commands) /\ Len(<<Quit>>) = 1
    BY CommandsTyped
  <2> QED BY <1>20, <2>1 DEF Teardown, pipes, loop, kids
<1>21. CASE Write
  <2>1. Head(outbox) \in Commands
    BY <1>21, HeadTailProperties DEF Write
  <2>2. stdin' \in Seq(Commands) /\ <<>> \in Seq(Commands) /\ Len(<<>>) = 0
    BY <1>21, <2>1, AppendProperties, EmptySeq DEF Write
  <2> QED BY <1>21, <2>2 DEF Write, loop, kids
<1>22. CASE BrokenPipe
  <2>1. <<>> \in Seq(Commands) /\ Len(<<>>) = 0
    BY EmptySeq
  <2>2. build' \in {"running", "stopped", "teardown", "done", "dead"}
    BY <1>22 DEF BrokenPipe
  <2>3. outbox' \in Seq(Commands) /\ Len(outbox') <= 1 /\ asked' \subseteq Tasks /\ got' = got
    BY <1>22, <2>1 DEF BrokenPipe
  <2>4. UNCHANGED <<stdin, stdout, main, input, ready, pids, doomed, out, proc, said, pipe>>
    BY <1>22 DEF BrokenPipe, pipes, loop, kids
  <2> QED BY <2>2, <2>3, <2>4
<1>23. CASE Read
  <2>1. CASE stdout = <<>>
    BY <1>23, <2>1 DEF Read, Handle, loop, kids
  <2>2. CASE stdout # <<>>
    <3>1. Head(stdout) \in Msgs /\ Tail(stdout) \in Seq(Msgs)
      BY <2>2, HeadTailProperties
    <3>2. Head(stdout).task \in Tasks /\ Head(stdout).what \in What
      BY <3>1 DEF Msgs
    <3>3. Append(got[Head(stdout).task], Head(stdout).what) \in Seq(What)
      BY <3>2, AppendProperties
    <3>4. got' = [got EXCEPT ![Head(stdout).task] = Append(@, Head(stdout).what)] /\ stdout' = Tail(stdout)
      BY <1>23, <2>2 DEF Read, Handle
    <3> QED BY <1>23, <3>1, <3>2, <3>3, <3>4 DEF Read, loop, kids
  <2> QED BY <2>1, <2>2
<1>24. CASE Done
  BY <1>24 DEF Done, pipes, loop, kids
<1>25. CASE ForceStop
  <2>1. <<FinishNow>> \in Seq(Commands) /\ Len(<<FinishNow>>) = 1
    BY CommandsTyped
  <2> QED BY <1>25, <2>1 DEF ForceStop, pipes, loop, kids
<1>26. CASE ForkFails
  BY <1>26 DEF ForkFails, cooker, pipes, kids
<1>27. CASE KillWorker
  BY <1>27, AbandonedTyped, EmptySeq DEF KillWorker, cooker, pipes
<1>28. CASE KillCooker
  <2>1. <<>> \in Seq(Commands) /\ Len(<<>>) = 0 /\ <<>> \in Seq(Msgs)
    BY EmptySeq
  <2> QED BY <1>28, <2>1 DEF KillCooker, loop, kids
<1>29. CASE UNCHANGED vars
  BY <1>29 DEF vars, cooker, pipes, loop, kids
<1> QED
  BY <1>1, <1>2, <1>3, <1>4, <1>5, <1>6, <1>7, <1>8, <1>9, <1>10, <1>11, <1>12, <1>13, <1>14,
     <1>15, <1>16, <1>17, <1>18, <1>19, <1>20, <1>21, <1>22, <1>23, <1>24, <1>25, <1>26, <1>27,
     <1>28, <1>29
     DEF Next, MainThread, Process, RunQueueSteps

-----------------------------------------------------------------------------
(* Commands *)

LEMMA OnceFewer ==
  ASSUME NEW a \in Seq(Commands), NEW b \in Seq(Commands), Once(a \o b)
  PROVE  /\ Once(a) /\ Range(a) \subseteq Range(a \o b)
         /\ a # <<>> => /\ Once(Tail(a)) /\ Range(Tail(a)) \subseteq Range(a)
                        /\ Head(a) \in Range(a)
                        /\ Head(a).op = "runtask" => Head(a) \notin Range(Tail(a))
<1>1. /\ Len(a) \in Nat /\ Len(b) \in Nat /\ DOMAIN a = 1..Len(a)
      /\ DOMAIN (a \o b) = 1..(Len(a) + Len(b)) /\ \A i \in 1..Len(a) : (a \o b)[i] = a[i]
  BY LenProperties, ConcatProperties
<1>2. Once(a)
  BY <1>1 DEF Once
<1>3. Range(a) \subseteq Range(a \o b)
  BY ConcatProperties, RangeConcatenation
<1>4. ASSUME a # <<>>
      PROVE  /\ Once(Tail(a)) /\ Range(Tail(a)) \subseteq Range(a)
             /\ Head(a) \in Range(a)
             /\ Head(a).op = "runtask" => Head(a) \notin Range(Tail(a))
  <2>1. /\ Len(a) \in Nat \ {0} /\ Head(a) = a[1] /\ Tail(a) \in Seq(Commands)
        /\ Len(Tail(a)) = Len(a) - 1 /\ DOMAIN Tail(a) = 1..(Len(a) - 1)
        /\ \A i \in 1..(Len(a) - 1) : Tail(a)[i] = a[i + 1]
    BY <1>4, HeadTailProperties, LenProperties, EmptySeq
  <2>2. \A i \in 1..(Len(a) - 1) : i + 1 \in 1..Len(a) /\ i + 1 # 1
    BY <2>1
  <2>3. Once(Tail(a))
    <3> SUFFICES ASSUME NEW i \in 1..(Len(a) - 1), NEW j \in 1..(Len(a) - 1),
                        Tail(a)[i] = Tail(a)[j], Tail(a)[i].op = "runtask"
                 PROVE  i = j
      BY <2>1 DEF Once
    <3>1. a[i + 1] = a[j + 1] /\ a[i + 1].op = "runtask"
      BY <2>1
    <3>2. i + 1 = j + 1
      BY <3>1, <2>2, <1>1, <1>2 DEF Once
    <3> QED BY <3>2, <2>1
  <2>4. Range(Tail(a)) \subseteq Range(a)
    <3> SUFFICES ASSUME NEW i \in 1..(Len(a) - 1) PROVE Tail(a)[i] \in Range(a)
      BY <2>1 DEF Range
    <3>1. Tail(a)[i] = a[i + 1] /\ i + 1 \in DOMAIN a
      BY <2>1, <2>2, <1>1
    <3> QED BY <3>1 DEF Range
  <2>5. Head(a) \in Range(a)
    BY <2>1, <1>1 DEF Range
  <2>6. ASSUME Head(a).op = "runtask", Head(a) \in Range(Tail(a)) PROVE FALSE
    <3>1. PICK i \in 1..(Len(a) - 1) : Tail(a)[i] = Head(a)
      BY <2>1, <2>6 DEF Range
    <3>2. a[1] = a[i + 1] /\ a[1].op = "runtask" /\ 1 \in DOMAIN a /\ i + 1 \in DOMAIN a
      BY <3>1, <2>1, <2>2, <2>6, <1>1
    <3> QED BY <3>2, <2>2, <1>2 DEF Once
  <2> QED BY <2>3, <2>4, <2>5, <2>6
<1> QED BY <1>2, <1>3, <1>4

LEMMA OnceMore ==
  ASSUME NEW a \in Seq(Commands), NEW e \in Commands, Once(a),
         e.op = "runtask" => e \notin Range(a)
  PROVE  Once(Append(a, e)) /\ Range(Append(a, e)) = Range(a) \cup {e}
<1>1. /\ Len(a) \in Nat /\ DOMAIN a = 1..Len(a)
      /\ DOMAIN Append(a, e) = 1..(Len(a) + 1)
      /\ \A i \in 1..Len(a) : Append(a, e)[i] = a[i]
      /\ Append(a, e)[Len(a) + 1] = e
  BY LenProperties, AppendProperties
<1>2. 1..(Len(a) + 1) = (1..Len(a)) \cup {Len(a) + 1}
  BY <1>1
<1>3. Range(Append(a, e)) = Range(a) \cup {e}
  BY <1>1, <1>2 DEF Range
<1>4. ASSUME NEW i \in DOMAIN Append(a, e), NEW j \in DOMAIN Append(a, e),
             Append(a, e)[i] = Append(a, e)[j], Append(a, e)[i].op = "runtask"
      PROVE  i = j
  <2>1. CASE i \in 1..Len(a) /\ j \in 1..Len(a)
    BY <2>1, <1>1, <1>4 DEF Once
  <2>2. CASE i = Len(a) + 1 /\ j \in 1..Len(a)
    BY <2>2, <1>1, <1>4 DEF Range
  <2>3. CASE j = Len(a) + 1 /\ i \in 1..Len(a)
    BY <2>3, <1>1, <1>4 DEF Range
  <2> QED BY <2>1, <2>2, <2>3, <1>1, <1>2
<1> QED BY <1>3, <1>4 DEF Once

\* How the commands under way change
LEMMA OrdersChange ==
  ASSUME Typed, [Next]_vars
  PROVE  \/ Orders' = Orders
         \/ Orders' = input \o stdin
         \/ Orders # <<>> /\ Orders' = Tail(Orders)
              /\ (HandleRuntask => Head(Orders) = Run(Head(input).task))
         \/ \E e \in {FinishNow, Quit} : Orders' = Append(Orders, e)
         \/ \E t \in Tasks \ asked : Orders' = Append(Orders, Run(t)) /\ t \in asked'
<1> DEFINE Goal == \/ Orders' = Orders
                   \/ Orders' = input \o stdin
                   \/ Orders # <<>> /\ Orders' = Tail(Orders)
                        /\ (HandleRuntask => Head(Orders) = Run(Head(input).task))
                   \/ \E e \in {FinishNow, Quit} : Orders' = Append(Orders, e)
                   \/ \E t \in Tasks \ asked : Orders' = Append(Orders, Run(t)) /\ t \in asked'
<1>1. /\ input \in Seq(Commands) /\ stdin \in Seq(Commands) /\ outbox \in Seq(Commands)
      /\ input \o stdin \in Seq(Commands) /\ Orders \in Seq(Commands)
  BY ConcatProperties DEF Typed, Orders
<1>2. ASSUME input' = Tail(input), input # <<>>, UNCHANGED <<stdin, outbox>>
      PROVE  Orders # <<>> /\ Orders' = Tail(Orders) /\ Head(Orders) = Head(input)
  <2>1. /\ input \o stdin # <<>> /\ Tail(input \o stdin) = Tail(input) \o stdin
        /\ Head(input \o stdin) = Head(input)
    BY <1>1, <1>2, TakenFirst
  <2>2. /\ Orders # <<>> /\ Tail(Orders) = Tail(input \o stdin) \o outbox
        /\ Head(Orders) = Head(input \o stdin)
    BY <1>1, <2>1, TakenFirst DEF Orders
  <2> QED BY <2>1, <2>2, <1>2 DEF Orders
<1>3. CASE Select
  <2>1. (input \o stdin) \o <<>> = input \o stdin
    BY <1>1, ConcatEmptySeq
  <2> QED BY <1>3, <2>1 DEF Select, cooker, Orders
<1>4. CASE HandleRuntask
  <2>1. Head(input) \in Commands
    BY <1>4, <1>1, HeadTailProperties DEF HandleRuntask, NextIs
  <2>2. Head(input) = Run(Head(input).task)
    BY <1>4, <2>1, CommandsTyped DEF HandleRuntask, NextIs
  <2> QED BY <1>4, <1>2, <2>2 DEF HandleRuntask, NextIs, cooker, pipes
<1>5. CASE HandleFinishNow
  <2>1. ~HandleRuntask
    BY <1>5, CommandsTyped DEF HandleFinishNow, HandleRuntask, NextIs
  <2> QED BY <1>5, <1>2, <2>1 DEF HandleFinishNow, NextIs, cooker, pipes
<1>6. CASE HandleQuit
  <2>1. ~HandleRuntask
    BY <1>6, CommandsTyped DEF HandleQuit, HandleRuntask, NextIs
  <2> QED BY <1>6, <1>2, <2>1 DEF HandleQuit, NextIs, cooker, pipes
<1>7. ASSUME outbox = <<>>
      PROVE  \A e \in Commands : (input \o stdin) \o <<e>> = Append(Orders, e)
  <2>1. Orders = input \o stdin
    BY <1>1, <1>7, ConcatEmptySeq DEF Orders
  <2> QED BY <1>1, <2>1, AppendIsConcat
<1>8. ASSUME NEW t \in Tasks, StartTask(t) PROVE Goal
  <2>1. Orders' = (input \o stdin) \o <<Run(t)>>
    BY <1>8 DEF StartTask, pipes, loop, Orders
  <2>2. Orders' = Append(Orders, Run(t)) /\ t \in Tasks \ asked /\ t \in asked'
    BY <1>7, <1>8, <2>1, CommandsTyped DEF StartTask
  <2> QED BY <2>2
<1>9. CASE Teardown
  <2>1. Orders' = (input \o stdin) \o <<Quit>>
    BY <1>9 DEF Teardown, pipes, loop, Orders
  <2> QED BY <1>7, <1>9, <2>1, CommandsTyped DEF Teardown
<1>10. CASE ForceStop
  <2>1. Orders' = (input \o stdin) \o <<FinishNow>>
    BY <1>10 DEF ForceStop, pipes, loop, Orders
  <2> QED BY <1>7, <1>10, <2>1, CommandsTyped DEF ForceStop
<1>11. CASE Write
  <2>1. outbox = <<Head(outbox)>> /\ Head(outbox) \in Commands
    <3>1. Len(outbox) = 1 /\ Head(outbox) = outbox[1] /\ Head(outbox) \in Commands
      <4>1. outbox # <<>> /\ Len(outbox) <= 1
        BY <1>11 DEF Write, Typed
      <4>2. Len(outbox) \in Nat \ {0}
        BY <4>1, <1>1, EmptySeq
      <4>3. Head(outbox) \in Commands /\ Head(outbox) = outbox[1]
        BY <4>1, <1>1, HeadTailProperties
      <4> QED BY <4>1, <4>2, <4>3
    <3>2. <<Head(outbox)>> \in Seq(Commands) /\ Len(<<Head(outbox)>>) = 1 /\ <<Head(outbox)>>[1] = Head(outbox)
      BY <3>1
    <3> QED BY <1>1, <3>1, <3>2, SeqEqual
  <2>2. stdin' = stdin \o <<Head(outbox)>> /\ stdin' \in Seq(Commands)
    BY <1>1, <1>11, <2>1, AppendIsConcat, AppendProperties DEF Write
  <2>3. Orders' = (input \o stdin') \o <<>>
    BY <1>11 DEF Write, loop, Orders
  <2>4. Orders' = input \o stdin'
    <3>1. input \o stdin' \in Seq(Commands)
      BY <1>1, <2>2, ConcatProperties
    <3>2. (input \o stdin') \o <<>> = input \o stdin'
      BY <3>1, ConcatEmptySeq
    <3> QED BY <2>3, <3>2
  <2>5. input \o (stdin \o outbox) = (input \o stdin) \o outbox
    BY <1>1, Associative
  <2> QED BY <2>1, <2>2, <2>4, <2>5 DEF Orders
<1>12. ASSUME outbox' = <<>>, UNCHANGED <<input, stdin>> PROVE Orders' = input \o stdin
  BY <1>1, <1>12, ConcatEmptySeq DEF Orders
<1>13. CASE BrokenPipe
  BY <1>12, <1>13 DEF BrokenPipe, pipes, loop
<1>14. CASE KillCooker
  BY <1>12, <1>14 DEF KillCooker, loop
<1>15. ASSUME UNCHANGED <<input, stdin, outbox>> PROVE Goal
  BY <1>15 DEF Orders
<1>16. CASE \/ Kill \/ WaitAny \/ KilledAll \/ ReadLast \/ Finished \/ ReadReady \/ ReadAll \/ Reap
            \/ ReapedAll \/ Join \/ Flush
  BY <1>15, <1>16 DEF Kill, WaitAny, KilledAll, ReadLast, Finished, ReadReady, ReadAll, Reap, ReapedAll,
     Join, Flush, cooker, pipes, loop
<1>17. CASE \/ \E t \in Tasks : Process(t)
            \/ Read \/ Done \/ ForkFails \/ KillWorker \/ UNCHANGED vars
  BY <1>15, <1>17 DEF Process, Setsid, Fire, Exit, Read, Done, ForkFails, KillWorker, vars,
     cooker, pipes, loop
<1> HIDE DEF Goal
<1>18. Goal
  BY <1>3, <1>4, <1>5, <1>6, <1>8, <1>9, <1>10, <1>11, <1>13, <1>14, <1>16, <1>17
     DEF Next, MainThread, RunQueueSteps, Goal
<1> QED BY <1>18 DEF Goal

LEMMA RemainsNone ==
  ASSUME Typed, [Next]_vars, NEW t \in Tasks, proc[t] = "none",
         HandleRuntask => t # Head(input).task
  PROVE  proc'[t] = "none"
<1> USE DEF Typed
<1>1. CASE HandleRuntask
  BY <1>1 DEF HandleRuntask
<1>2. CASE Kill
  BY <1>2 DEF Kill
<1>3. CASE WaitAny \/ Reap
  BY <1>3 DEF WaitAny, Reap
<1>4. CASE Finished \/ Join \/ KillWorker
  BY <1>4, AbandonedTyped DEF Finished, Join, KillWorker
<1>5. ASSUME NEW u \in Tasks, Process(u) PROVE proc'[t] = "none"
  BY <1>5 DEF Process, Setsid, Fire, Exit
<1>6. CASE \/ Select \/ HandleFinishNow \/ KilledAll \/ ReadLast \/ HandleQuit \/ ReadReady \/ ReadAll
           \/ ReapedAll \/ Flush \/ RunQueueSteps \/ ForceStop \/ ForkFails \/ KillCooker
           \/ UNCHANGED vars
  BY <1>6 DEF Select, HandleFinishNow, KilledAll, ReadLast, HandleQuit, ReadReady, ReadAll, ReapedAll,
     Flush, RunQueueSteps, StartTask, Teardown, Write, BrokenPipe, Read, Done, ForceStop, ForkFails,
     KillCooker, vars, kids
<1> QED BY <1>1, <1>2, <1>3, <1>4, <1>5, <1>6 DEF Next, MainThread

LEMMA AskedGrows ==
  ASSUME [Next]_vars PROVE asked \subseteq asked'
<1>1. CASE RunQueueSteps \/ ForceStop \/ KillCooker
  BY <1>1 DEF RunQueueSteps, StartTask, Teardown, Write, BrokenPipe, Read, Done, ForceStop, KillCooker
<1>2. CASE MainThread
  BY <1>2 DEF MainThread, Select, HandleRuntask, HandleFinishNow, Kill, WaitAny, KilledAll, ReadLast,
     Finished, HandleQuit, ReadReady, ReadAll, Reap, ReapedAll, Join, cooker
<1>3. CASE Flush \/ (\E t \in Tasks : Process(t)) \/ ForkFails \/ KillWorker \/ UNCHANGED vars
  BY <1>3 DEF Flush, Process, Setsid, Fire, Exit, ForkFails, KillWorker, vars, cooker
<1> QED BY <1>1, <1>2, <1>3 DEF Next

LEMMA AskedOnceKept ==
  ASSUME Typed, AskedOnce, [Next]_vars
  PROVE  AskedOnce'
<1>1. input \o stdin \in Seq(Commands) /\ outbox \in Seq(Commands) /\ Orders \in Seq(Commands)
      /\ Orders = (input \o stdin) \o outbox
  BY ConcatProperties DEF Typed, Orders
<1>2. /\ Range(Orders) \subseteq Commands
      /\ \A c \in Range(Orders) : c.op = "runtask" => c.task \in asked /\ proc[c.task] = "none"
  BY <1>1, RangeOfSeq DEF AskedOnce
<1>3. /\ Once(Orders) /\ Once(input \o stdin) /\ Range(input \o stdin) \subseteq Range(Orders)
      /\ Orders # <<>> => /\ Once(Tail(Orders)) /\ Range(Tail(Orders)) \subseteq Range(Orders)
                          /\ Head(Orders).op = "runtask" => Head(Orders) \notin Range(Tail(Orders))
  <2>1. Once(input \o stdin) /\ Range(input \o stdin) \subseteq Range(Orders)
    BY <1>1, OnceFewer DEF AskedOnce
  <2>2. Orders \o <<>> = Orders /\ <<>> \in Seq(Commands)
    BY <1>1, ConcatEmptySeq, EmptySeq
  <2> QED BY <1>1, <2>1, <2>2, OnceFewer DEF AskedOnce
<1>4. asked \subseteq asked'
  BY AskedGrows
<1>5. \A c \in Range(Orders) : c.op = "runtask" =>
        /\ c.task \in Tasks /\ c = Run(c.task) /\ c.task \in asked'
        /\ (HandleRuntask => c.task # Head(input).task) => proc'[c.task] = "none"
  BY <1>2, <1>4, CommandsTyped, RemainsNone
<1>10. \A t \in Tasks \ asked : proc'[t] = "none"
  <2>1. HandleRuntask => Head(input).task \in asked
    <3> SUFFICES ASSUME HandleRuntask PROVE Head(input).task \in asked
      OBVIOUS
    <3>1. /\ input # <<>> /\ input \in Seq(Commands) /\ stdin \in Seq(Commands) /\ outbox \in Seq(Commands)
          /\ Head(input).op = "runtask"
      BY DEF HandleRuntask, NextIs, Typed
    <3>2. Once(input) /\ Range(input) \subseteq Range(input \o stdin)
      BY <1>3, <3>1, OnceFewer
    <3>3. input \o <<>> = input /\ <<>> \in Seq(Commands)
      BY <3>1, ConcatEmptySeq, EmptySeq
    <3>4. Head(input) \in Range(input)
      BY <3>1, <3>2, <3>3, OnceFewer
    <3> QED BY <1>2, <1>3, <3>1, <3>2, <3>4
  <2> QED BY <2>1, RemainsNone DEF AskedOnce
<1>6. CASE ~HandleRuntask /\ \/ Orders' = Orders \/ Orders' = input \o stdin
                             \/ Orders # <<>> /\ Orders' = Tail(Orders)
  BY <1>3, <1>4, <1>5, <1>6, <1>10 DEF AskedOnce
<1>7. CASE HandleRuntask
  <2>1. Head(input).task \in Tasks /\ Head(input).op = "runtask"
    <3>1. Head(input) \in Commands /\ Head(input).op = "runtask"
      BY <1>7, HeadTailProperties DEF HandleRuntask, NextIs, Typed
    <3> QED BY <3>1, CommandsTyped
  <2>2. Orders # <<>> /\ Orders' = Tail(Orders) /\ Head(Orders) = Run(Head(input).task)
    <3>1. /\ input # <<>> /\ input \in Seq(Commands) /\ stdin \in Seq(Commands)
          /\ input' = Tail(input) /\ UNCHANGED <<stdin, outbox>>
      BY <1>7 DEF HandleRuntask, NextIs, cooker, pipes, Typed
    <3>2. input \o stdin # <<>> /\ Tail(input \o stdin) = Tail(input) \o stdin /\ Head(input \o stdin) = Head(input)
      BY <3>1, TakenFirst
    <3>3. Orders # <<>> /\ Tail(Orders) = Tail(input \o stdin) \o outbox /\ Head(Orders) = Head(input \o stdin)
      BY <1>1, <3>2, TakenFirst
    <3>4. Head(input) = Run(Head(input).task)
      BY <2>1, <3>1, HeadTailProperties, CommandsTyped
    <3> QED BY <3>1, <3>2, <3>3, <3>4 DEF Orders
  <2>3. ASSUME NEW c \in Range(Tail(Orders)), c.op = "runtask" PROVE c.task # Head(input).task
    <3>1. c = Run(c.task) /\ c # Head(Orders)
      BY <1>3, <1>5, <2>1, <2>2, <2>3, CommandsTyped
    <3> QED BY <3>1, <2>2
  <2> QED BY <1>3, <1>4, <1>5, <1>10, <2>2, <2>3 DEF AskedOnce
<1>8. CASE ~HandleRuntask /\ \E e \in {FinishNow, Quit} : Orders' = Append(Orders, e)
  <2>1. PICK e \in {FinishNow, Quit} : Orders' = Append(Orders, e)
    BY <1>8
  <2>2. e \in Commands /\ e.op # "runtask"
    BY <2>1, CommandsTyped
  <2>3. Once(Orders') /\ Range(Orders') = Range(Orders) \cup {e}
    BY <1>1, <1>3, <2>1, <2>2, OnceMore
  <2> QED BY <1>4, <1>5, <1>8, <1>10, <2>2, <2>3 DEF AskedOnce
<1>9. CASE ~HandleRuntask /\ \E t \in Tasks \ asked : Orders' = Append(Orders, Run(t)) /\ t \in asked'
  <2>1. PICK t \in Tasks \ asked : Orders' = Append(Orders, Run(t)) /\ t \in asked'
    BY <1>9
  <2>2. Run(t) \in Commands /\ Run(t).op = "runtask" /\ Run(t).task = t /\ Run(t) \notin Range(Orders)
    BY <1>2, CommandsTyped
  <2>3. Once(Orders') /\ Range(Orders') = Range(Orders) \cup {Run(t)}
    BY <1>1, <1>3, <2>1, <2>2, OnceMore
  <2>4. proc'[t] = "none"
    BY <1>9, <1>10
  <2> QED BY <1>4, <1>5, <1>9, <1>10, <2>1, <2>2, <2>3, <2>4 DEF AskedOnce
<1> QED BY <1>6, <1>7, <1>8, <1>9, OrdersChange

-----------------------------------------------------------------------------
(* The table of processes, and the end *)

LEMMA InTableKept ==
  ASSUME Typed, InTable, [Next]_vars
  PROVE  InTable'
<1> USE DEF Typed
<1>1. CASE HandleRuntask
  <2>1. Head(input).task \in Tasks
    <3>1. Head(input) \in Commands /\ Head(input).op = "runtask"
      BY <1>1, HeadTailProperties DEF HandleRuntask, NextIs
    <3> QED BY <3>1, CommandsTyped
  <2>2. Range(pids') = Range(pids) \cup {Head(input).task}
    <3> DEFINE t == Head(input).task
    <3>1. pids' = Append(pids, t) /\ t \in Tasks
      BY <1>1, <2>1 DEF HandleRuntask
    <3>2. /\ Append(pids, t) = pids \o <<t>> /\ <<t>> \in Seq(Tasks) /\ Range(<<t>>) = {t}
          /\ pids \in Seq(Tasks)
      BY <2>1, AppendIsConcat DEF Range
    <3> HIDE DEF t
    <3> DEFINE one == <<t>>
    <3>4. /\ one \in Seq(Tasks) /\ Range(one) = {t} /\ Append(pids, t) = pids \o one
      BY <3>2
    <3> HIDE DEF one
    <3>3. Range(pids \o one) = Range(pids) \cup Range(one)
      BY <3>2, <3>4, RangeBoth
    <3> QED BY <3>1, <3>3, <3>4 DEF t
  <2> QED BY <1>1, <2>1, <2>2 DEF HandleRuntask, InTable
<1>2. CASE Reap
  <2>1. PICK i \in DOMAIN pids : proc' = [proc EXCEPT ![pids[i]] = "gone"] /\ pids' = RemoveAt(pids, i)
    BY <1>2 DEF Reap
  <2>2. pids[i] \in Tasks /\ \A x \in Range(pids) : x # pids[i] => x \in Range(pids')
    BY <2>1, LenProperties, ElementOfSeq, RemovedTyped
  <2> QED BY <2>1, <2>2 DEF InTable
<1>3. CASE Kill
  BY <1>3 DEF Kill, InTable
<1>4. CASE WaitAny
  BY <1>4 DEF WaitAny, InTable
<1>5. CASE Finished \/ Join \/ KillWorker
  <2>1. \A t \in Tasks : Abandoned[t] = "orphan" => proc[t] = "forked"
    BY DEF Abandoned
  <2>2. (proc' = proc \/ proc' = Abandoned) /\ pids' = pids
    BY <1>5 DEF Finished, Join, KillWorker
  <2>3. Abandoned \in [Tasks -> {"none", "orphan", "gone"}]
    BY AbandonedTyped
  <2> QED BY <2>1, <2>2, <2>3 DEF InTable
<1>6. ASSUME NEW u \in Tasks, Process(u) PROVE InTable'
  BY <1>6 DEF Process, Setsid, Fire, Exit, InTable, loop
<1>7. CASE \/ Select \/ HandleFinishNow \/ KilledAll \/ ReadLast \/ HandleQuit \/ ReadReady \/ ReadAll
           \/ ReapedAll \/ Flush \/ RunQueueSteps \/ ForceStop \/ ForkFails \/ KillCooker
           \/ UNCHANGED vars
  <2>1. UNCHANGED <<proc, pids>>
    BY <1>7 DEF Select, HandleFinishNow, KilledAll, ReadLast, HandleQuit, ReadReady, ReadAll, ReapedAll,
       Flush, RunQueueSteps, StartTask, Teardown, Write, BrokenPipe, Read, Done, ForceStop, ForkFails,
       KillCooker, vars, kids, loop
  <2> QED BY <2>1 DEF InTable
<1> QED BY <1>1, <1>2, <1>3, <1>4, <1>5, <1>6, <1>7 DEF Next, MainThread

LEMMA EndsKept ==
  ASSUME Typed, Ends, [Next]_vars
  PROVE  Ends'
<1> USE DEF Ends, Down
<1>1. CASE Select \/ HandleRuntask \/ HandleFinishNow \/ Kill \/ WaitAny \/ KilledAll
  BY <1>1 DEF Select, HandleRuntask, HandleFinishNow, Kill, WaitAny, KilledAll, cooker, pipes
<1>2. CASE ReadLast \/ ReadReady \/ ReadAll \/ Reap \/ ReapedAll \/ HandleQuit
  BY <1>2 DEF ReadLast, ReadReady, ReadAll, Reap, ReapedAll, HandleQuit, NothingToHandle, cooker, pipes
<1>3. CASE Finished \/ Join \/ KillWorker
  BY <1>3 DEF Finished, Join, KillWorker, cooker, pipes
<1>4. CASE Flush
  BY <1>4 DEF Flush, loop, cooker
<1>5. ASSUME NEW u \in Tasks, Process(u) PROVE Ends'
  BY <1>5 DEF Process, Setsid, Fire, Exit, loop, cooker, pipes
<1>6. CASE RunQueueSteps
  BY <1>6 DEF RunQueueSteps, StartTask, Teardown, Write, BrokenPipe, Read, Done, loop, pipes
<1>7. CASE ForceStop \/ ForkFails \/ KillCooker \/ UNCHANGED vars
  BY <1>7 DEF ForceStop, ForkFails, KillCooker, vars, loop, pipes, cooker
<1> QED BY <1>1, <1>2, <1>3, <1>4, <1>5, <1>6, <1>7 DEF Next, MainThread

-----------------------------------------------------------------------------
(* Messages *)

LEMMA ChannelTyped ==
  ASSUME Typed
  PROVE  /\ Channel \in Seq(Msgs) /\ Len(Channel) \in Nat /\ DOMAIN Channel = 1..Len(Channel)
         /\ \A i \in DOMAIN Channel : Channel[i] \in Msgs /\ Channel[i].task \in Tasks
         /\ \A t \in Tasks : /\ Sent(t) \in Nat /\ Len(got[t]) \in Nat /\ Len(got[t]) <= Sent(t)
                             /\ Len(said[t]) \in Nat /\ Len(pipe[t]) \in Nat
                             /\ DOMAIN got[t] = 1..Len(got[t])
                             /\ DOMAIN pipe[t] = 1..Len(pipe[t])
                             /\ \A i \in Nat : Count(Channel, t, i) \in Nat
<1>1. Channel \in Seq(Msgs)
  BY ConcatProperties DEF Typed, Channel
<1>2. Len(Channel) \in Nat /\ DOMAIN Channel = 1..Len(Channel)
  BY <1>1, LenProperties
<1>3. \A i \in DOMAIN Channel : Channel[i] \in Msgs /\ Channel[i].task \in Tasks
  <2> SUFFICES ASSUME NEW i \in 1..Len(Channel) PROVE Channel[i] \in Msgs /\ Channel[i].task \in Tasks
    BY <1>2
  <2>1. Channel[i] \in Msgs
    BY <1>1, ElementOfSeq
  <2> QED BY <2>1 DEF Msgs
<1>4. ASSUME NEW t \in Tasks
      PROVE  /\ Sent(t) \in Nat /\ Len(got[t]) \in Nat /\ Len(got[t]) <= Sent(t)
             /\ Len(said[t]) \in Nat /\ Len(pipe[t]) \in Nat
             /\ DOMAIN got[t] = 1..Len(got[t])
             /\ DOMAIN pipe[t] = 1..Len(pipe[t])
             /\ \A i \in Nat : Count(Channel, t, i) \in Nat
  <2>1. got[t] \in Seq(What) /\ said[t] \in Seq(What) /\ pipe[t] \in Seq(What)
    BY DEF Typed
  <2>2. \A i \in Nat : Count(Channel, t, i) \in Nat
    BY CountFacts
  <2>3. /\ Len(got[t]) \in Nat /\ Len(said[t]) \in Nat /\ Len(pipe[t]) \in Nat
        /\ DOMAIN got[t] = 1..Len(got[t]) /\ DOMAIN pipe[t] = 1..Len(pipe[t])
    BY <2>1, LenProperties
  <2>4. Count(Channel, t, Len(Channel)) \in Nat
    BY <1>2, <2>2
  <2>5. Sent(t) \in Nat /\ Len(got[t]) <= Sent(t)
    BY <2>3, <2>4 DEF Sent
  <2> QED BY <2>2, <2>3, <2>5
<1> QED BY <1>1, <1>2, <1>3, <1>4

\* A block of messages of t is queued that continues what it said.
LEMMA QueuedBehind ==
  ASSUME Typed, Numbered, NEW t \in Tasks, NEW b \in Seq(Msgs),
         \A j \in DOMAIN b : b[j].task = t /\ b[j].what = said[t][Sent(t) + j],
         Sent(t) + Len(b) <= Len(said[t]),
         Channel' = Channel \o b, UNCHANGED <<got, said>>
  PROVE  Numbered' /\ Sent(t)' = Sent(t) + Len(b) /\ \A u \in Tasks \ {t} : Sent(u)' = Sent(u)
<1> DEFINE n == Len(Channel)
<1>1. /\ Channel \in Seq(Msgs) /\ n \in Nat /\ Len(b) \in Nat /\ DOMAIN b = 1..Len(b)
      /\ DOMAIN Channel = 1..n /\ Channel' \in Seq(Msgs)
      /\ DOMAIN Channel' = 1..(n + Len(b)) /\ Len(Channel') = n + Len(b)
      /\ \A i \in 1..n : Channel'[i] = Channel[i]
      /\ \A j \in 1..Len(b) : Channel'[n + j] = b[j]
  BY ChannelTyped, LenProperties, ConcatProperties
<1>2. /\ \A u, i : i \in 0..n => Count(Channel', u, i) = Count(Channel, u, i)
      /\ \A j \in 0..Len(b) : Count(Channel', t, n + j) = Count(Channel, t, n) + j
      /\ \A u : u # t => Count(Channel', u, Len(Channel')) = Count(Channel, u, n)
  <2>1. \A j \in DOMAIN b : b[j].task = t
    OBVIOUS
  <2> DEFINE c == Channel
  <2>3. c \in Seq(Msgs) /\ Channel' = c \o b /\ n = Len(c)
    BY <1>1
  <2> HIDE DEF n, c
  <2>2. BlockCounted(c, b, t)
    BY <2>1, <2>3, CountBlock
  <2> QED BY <2>2, <2>3 DEF c, BlockCounted
<1>3. Sent(t) = Len(got[t]) + Count(Channel, t, n) /\ Len(got[t]) \in Nat /\ Count(Channel, t, n) \in Nat
  BY <1>1, ChannelTyped DEF Sent
<1>4. \A u \in Tasks : Sent(u)' = Len(got[u]) + Count(Channel', u, Len(Channel'))
  BY DEF Sent, Count
<1>5. Sent(t)' = Sent(t) + Len(b)
  <2>1. Len(b) \in 0..Len(b)
    BY <1>1
  <2>2. Count(Channel', t, n + Len(b)) = Count(Channel, t, n) + Len(b)
    BY <1>2, <2>1
  <2> QED BY <1>1, <1>3, <1>4, <2>2
<1>6. \A u \in Tasks \ {t} : Sent(u)' = Sent(u)
  BY <1>2, <1>4 DEF Sent
<1>7. ASSUME NEW i \in 1..(n + Len(b))
      PROVE  LET u == Channel'[i].task
                 k == Len(got[u]) + Count(Channel', u, i)
             IN k <= Len(said[u]) /\ Channel'[i].what = said[u][k]
  <2>1. CASE i <= n
    <3>1. i \in DOMAIN Channel /\ i \in 0..n /\ Channel'[i] = Channel[i]
      BY <1>1, <2>1
    <3>2. Count(Channel', Channel[i].task, i) = Count(Channel, Channel[i].task, i)
      BY <1>2, <3>1
    <3> QED BY <3>1, <3>2 DEF Numbered
  <2>2. CASE i > n
    <3>1. PICK j \in 1..Len(b) : i = n + j
      <4>1. i - n \in 1..Len(b) /\ i = n + (i - n)
        BY <1>1, <2>2
      <4> QED BY <4>1
    <3>2. j \in 0..Len(b) /\ j \in DOMAIN b /\ Channel'[i] = b[j]
      BY <1>1, <3>1
    <3>3. Count(Channel', t, i) = Count(Channel, t, n) + j
      BY <1>2, <3>1, <3>2
    <3>4. Len(got[t]) + Count(Channel', t, i) = Sent(t) + j
      BY <1>3, <3>3
    <3>5. Sent(t) + j <= Len(said[t])
      <4>1. Sent(t) \in Nat /\ Len(said[t]) \in Nat
        BY ChannelTyped
      <4> QED BY <1>1, <3>1, <4>1
    <3> QED BY <3>2, <3>4, <3>5
  <2> QED BY <1>1, <2>1, <2>2
<1>8. Numbered'
  <2>1. got' = got /\ said' = said
    OBVIOUS
  <2>2. \A i \in DOMAIN Channel' : LET u == Channel'[i].task
                 k == Len(got'[u]) + Count(Channel', u, i)
             IN k <= Len(said'[u]) /\ Channel'[i].what = said'[u][k]
    BY <1>1, <1>7, <2>1
  <2> QED BY <2>2 DEF Numbered, Count
<1> QED BY <1>5, <1>6, <1>8

-----------------------------------------------------------------------------
(* What was told and what is under way *)

\* A process only says more.
Grows(s, r) == Len(s) <= Len(r) /\ \A k \in 1..Len(s) : r[k] = s[k]

LEMMA AppendGrows ==
  \A S : \A s \in Seq(S), e \in S : /\ Grows(s, Append(s, e)) /\ Len(Append(s, e)) = Len(s) + 1
                                    /\ Append(s, e)[Len(s) + 1] = e
<1> SUFFICES ASSUME NEW S, NEW s \in Seq(S), NEW e \in S
             PROVE  /\ Grows(s, Append(s, e)) /\ Len(Append(s, e)) = Len(s) + 1
                    /\ Append(s, e)[Len(s) + 1] = e
  OBVIOUS
<1>1. /\ Len(s) \in Nat /\ Len(Append(s, e)) = Len(s) + 1
      /\ \A k \in 1..Len(s) : Append(s, e)[k] = s[k]
      /\ Append(s, e)[Len(s) + 1] = e
  BY AppendProperties, LenProperties
<1>2. Len(s) <= Len(Append(s, e))
  BY <1>1
<1> QED BY <1>1, <1>2 DEF Grows

\* What an event or the end of a process adds
LEMMA SaysMore ==
  ASSUME Typed, NEW t \in Tasks, Fire(t) \/ Exit(t)
  PROVE  \E e \in What : said' = [said EXCEPT ![t] = Append(@, e)]
<1>1. CASE Fire(t)
  <2>1. Len(said[t]) + 1 = Len(said[t]) + 1 /\ Len(said[t]) \in Nat
    BY LenProperties DEF Typed
  <2>2. Events[Len(said[t]) + 1] \in What
    BY <2>1, WhatIsSaid
  <2> QED BY <1>1, <2>2 DEF Fire
<1>2. CASE Exit(t)
  BY <1>2, WhatIsSaid DEF Exit
<1> QED BY <1>1, <1>2

LEMMA SaidGrows ==
  ASSUME Typed, [Next]_vars
  PROVE  \A u \in Tasks : Grows(said[u], said'[u])
<1>1. \A u \in Tasks : Grows(said[u], said[u])
  BY LenProperties DEF Grows, Typed
<1>2. ASSUME NEW t \in Tasks, Fire(t) \/ Exit(t) PROVE \A u \in Tasks : Grows(said[u], said'[u])
  <2>1. PICK e \in What : said' = [said EXCEPT ![t] = Append(@, e)]
    BY <1>2, SaysMore
  <2>2. Grows(said[t], Append(said[t], e))
    BY AppendGrows DEF Typed
  <2> QED BY <1>1, <2>1, <2>2 DEF Typed
<1>3. CASE MainThread
  <2>1. said' = said
    BY <1>3 DEF MainThread, Select, HandleRuntask, HandleFinishNow, Kill, WaitAny, KilledAll, ReadLast,
       Finished, HandleQuit, ReadReady, ReadAll, Reap, ReapedAll, Join, kids
  <2> QED BY <1>1, <2>1
<1>4. CASE \/ Flush \/ RunQueueSteps \/ ForceStop \/ ForkFails \/ KillWorker \/ KillCooker
           \/ UNCHANGED vars \/ \E t \in Tasks : Setsid(t)
  <2>1. said' = said
    BY <1>4 DEF Flush, RunQueueSteps, StartTask, Teardown, Write, BrokenPipe, Read, Done, ForceStop,
       ForkFails, KillWorker, KillCooker, Setsid, vars, kids
  <2> QED BY <1>1, <2>1
<1> QED BY <1>2, <1>3, <1>4 DEF Next, Process

LEMMA GotKept ==
  ASSUME [Next]_vars, ~Read PROVE got' = got
<1>1. CASE MainThread
  BY <1>1 DEF MainThread, Select, HandleRuntask, HandleFinishNow, Kill, WaitAny, KilledAll, ReadLast,
     Finished, HandleQuit, ReadReady, ReadAll, Reap, ReapedAll, Join, cooker
<1>2. CASE \/ Flush \/ RunQueueSteps \/ ForceStop \/ ForkFails \/ KillWorker \/ KillCooker
           \/ UNCHANGED vars \/ \E t \in Tasks : Process(t)
  BY <1>2 DEF Flush, RunQueueSteps, StartTask, Teardown, Write, BrokenPipe, Done, ForceStop,
     ForkFails, KillWorker, KillCooker, Process, Setsid, Fire, Exit, vars, cooker
<1> QED BY <1>1, <1>2 DEF Next

\* The position of a message under way among those of its task
LEMMA Place ==
  ASSUME Typed, NEW i \in DOMAIN Channel
  PROVE  /\ Channel[i].task \in Tasks
         /\ Len(got[Channel[i].task]) \in Nat
         /\ Count(Channel, Channel[i].task, i) \in Nat \ {0}
<1> DEFINE t == Channel[i].task
<1>1. t \in Tasks /\ i \in Nat \ {0} /\ Len(got[t]) \in Nat
  <2>1. t \in Tasks
    BY ChannelTyped
  <2>2. Len(Channel) \in Nat /\ i \in 1..Len(Channel)
    BY ChannelTyped
  <2> HIDE DEF t
  <2>3. Len(got[t]) \in Nat
    BY <2>1, ChannelTyped
  <2> QED BY <2>1, <2>2, <2>3
<1>2. /\ i - 1 \in Nat /\ (i - 1) + 1 = i
  BY <1>1
<1>3. Count(Channel, t, i - 1) \in Nat /\ Count(Channel, t, i) = Count(Channel, t, i - 1) + 1
  <2> DEFINE n == i - 1
             c == Channel
  <2>1. n \in Nat /\ n + 1 = i /\ c[i].task = t
    BY <1>2
  <2> HIDE DEF n, t, c
  <2>2. Count(c, t, n) \in Nat /\ Count(c, t, n + 1) = Count(c, t, n) + (IF c[n + 1].task = t THEN 1 ELSE 0)
    BY <2>1, CountFacts
  <2>3. Count(c, t, n) \in Nat /\ Count(c, t, i) = Count(c, t, n) + 1
    BY <2>1, <2>2
  <2> QED BY <2>3 DEF n, c
<1> QED BY <1>1, <1>3

LEMMA ToldKept ==
  ASSUME Typed, Told, build # "dead" => Numbered, [Next]_vars
  PROVE  Told'
<1>1. CASE got' = got
  <2>1. \A u \in Tasks : Grows(said[u], said'[u])
    BY SaidGrows
  <2> SUFFICES ASSUME NEW t \in Tasks
               PROVE  /\ Len(got[t]) <= Len(said'[t])
                      /\ \A k \in DOMAIN got[t] : got[t][k] = said'[t][k]
    BY <1>1 DEF Told
  <2>2. /\ Len(got[t]) \in Nat /\ Len(said[t]) \in Nat /\ DOMAIN got[t] = 1..Len(got[t])
        /\ Len(said'[t]) \in Nat
    BY TypedKept, LenProperties DEF Typed
  <2>3. Len(said[t]) <= Len(said'[t]) /\ \A k \in 1..Len(said[t]) : said'[t][k] = said[t][k]
    BY <2>1 DEF Grows
  <2>4. Len(got[t]) <= Len(said[t]) /\ \A k \in DOMAIN got[t] : got[t][k] = said[t][k]
    BY DEF Told
  <2> QED BY <2>2, <2>3, <2>4
<1>2. CASE Read /\ stdout # <<>>
  <2> DEFINE m == Head(stdout)
             t == m.task
  <2>1. got' = [got EXCEPT ![t] = Append(@, m.what)] /\ said' = said /\ build # "dead"
    BY <1>2 DEF Read, Handle, kids
  <2>2. stdout \in Seq(Msgs) /\ out \in Seq(Msgs) /\ m \in Msgs /\ t \in Tasks /\ m.what \in What
    <3>1. stdout \in Seq(Msgs) /\ out \in Seq(Msgs) /\ stdout # <<>>
      BY <1>2 DEF Typed
    <3>2. m \in Msgs
      BY <3>1, HeadTailProperties
    <3> QED BY <3>1, <3>2 DEF Msgs
  <2>3. Channel # <<>> /\ Head(Channel) = m /\ 1 \in DOMAIN Channel /\ Channel[1] = m
    <3>1. Channel # <<>> /\ Head(Channel) = m
      BY <1>2, <2>2, TakenFirst DEF Channel
    <3> QED BY <3>1, ChannelTyped, HeadTailProperties, EmptySeq
  <2>4. Count(Channel, t, 1) = 1
    <3>1. Count(Channel, t, 0) = 0 /\ 0 + 1 = 1
            /\ Count(Channel, t, 0 + 1) = Count(Channel, t, 0) + (IF Channel[0 + 1].task = t THEN 1 ELSE 0)
      BY CountFacts
    <3> QED BY <3>1, <2>3
  <2>5. Len(got[t]) + 1 <= Len(said[t]) /\ m.what = said[t][Len(got[t]) + 1]
    BY <2>1, <2>3, <2>4 DEF Numbered
  <2>6. ASSUME NEW u \in Tasks
        PROVE  /\ Len(got'[u]) <= Len(said[u])
               /\ \A k \in DOMAIN got'[u] : got'[u][k] = said[u][k]
    <3>1. got[u] \in Seq(What) /\ got[t] \in Seq(What)
      BY <2>2 DEF Typed
    <3>2. CASE u # t
      BY <3>2, <2>1 DEF Told, Typed
    <3>3. CASE u = t
      <4> DEFINE g == Append(got[t], m.what)
      <4>1. got'[u] = g
        BY <3>3, <2>1, <2>2 DEF Typed
      <4>2. /\ g \in Seq(What) /\ Len(g) = Len(got[t]) + 1 /\ Len(got[t]) \in Nat
            /\ DOMAIN g = 1..(Len(got[t]) + 1) /\ DOMAIN got[t] = 1..Len(got[t])
            /\ \A k \in 1..Len(got[t]) : g[k] = got[t][k]
            /\ g[Len(got[t]) + 1] = m.what
        BY <3>1, <2>2, AppendProperties, LenProperties
      <4>3. \A k \in 1..Len(got[t]) : got[t][k] = said[t][k]
        BY <4>2, <2>2 DEF Told
      <4> HIDE DEF g
      <4> QED BY <3>3, <4>1, <4>2, <4>3, <2>5
    <3> QED BY <3>2, <3>3
  <2> QED BY <2>1, <2>6 DEF Told
<1>3. CASE Read /\ stdout = <<>>
  BY <1>1, <1>3 DEF Read, Handle
<1> QED BY <1>1, <1>2, <1>3, GotKept

LEMMA SentSame ==
  ASSUME Channel' = Channel, got' = got
  PROVE  \A u : Sent(u)' = Sent(u)
BY DEF Sent, Count

\* Messages on their way stay what their task said when it says more.
LEMMA NumberedGrows ==
  ASSUME Typed, Numbered, Channel' = Channel, got' = got, Typed',
         \A u \in Tasks : Grows(said[u], said'[u])
  PROVE  Numbered'
<1> SUFFICES ASSUME NEW i \in DOMAIN Channel
             PROVE  LET t == Channel[i].task
                        k == Len(got[t]) + Count(Channel, t, i)
                    IN k <= Len(said'[t]) /\ Channel[i].what = said'[t][k]
  <2>1. (\A i \in DOMAIN Channel :
           LET t == Channel[i].task
               k == Len(got[t]) + Count(Channel, t, i)
           IN k <= Len(said'[t]) /\ Channel[i].what = said'[t][k]) => Numbered'
    BY DEF Numbered, Count
  <2> QED BY <2>1
<1> DEFINE t == Channel[i].task
           k == Len(got[t]) + Count(Channel, t, i)
<1>1. t \in Tasks /\ k \in Nat \ {0}
  <2>1. t \in Tasks /\ Len(got[t]) \in Nat /\ Count(Channel, t, i) \in Nat \ {0}
    BY Place
  <2> HIDE DEF t
  <2> QED BY <2>1
<1>2. k <= Len(said[t]) /\ Channel[i].what = said[t][k]
  BY DEF Numbered
<1> HIDE DEF t, k
<1>3. Len(said[t]) \in Nat /\ Len(said'[t]) \in Nat
  BY <1>1, LenProperties DEF Typed
<1>4. Len(said[t]) <= Len(said'[t]) /\ \A n \in 1..Len(said[t]) : said'[t][n] = said[t][n]
  BY <1>1 DEF Grows
<1>5. k <= Len(said'[t]) /\ Channel[i].what = said'[t][k]
  BY <1>1, <1>2, <1>3, <1>4
<1> QED BY <1>5 DEF t, k

\* The part of Piped about one task
PipedOf(t) ==
  /\ Sent(t) + Len(pipe[t]) <= Len(said[t])
  /\ \A k \in DOMAIN pipe[t] : pipe[t][k] = said[t][Sent(t) + k]
  /\ proc[t] \in {"none", "forked", "up", "term"} => Sent(t) + Len(pipe[t]) = Len(said[t])
  /\ proc[t] = "zombie" => Sent(t) + Len(pipe[t]) + 1 = Len(said[t])
  /\ Reported(t) => Sent(t) = Len(said[t]) /\ pipe[t] = <<>>

LEMMA PipedParts ==
  /\ Piped <=> \A t \in Tasks : PipedOf(t)
  /\ Piped' <=> \A t \in Tasks : PipedOf(t)'
BY DEF Piped, PipedOf

\* A task of which nothing was said or read, whose process did not end
LEMMA PipedStays ==
  ASSUME NEW t \in Tasks, PipedOf(t), Sent(t)' = Sent(t),
         said'[t] = said[t], pipe'[t] = pipe[t],
         \/ proc'[t] = proc[t]
         \/ {proc[t], proc'[t]} \subseteq {"none", "forked", "up", "term"}
         \/ proc'[t] \in {"gone", "orphan"},
         Reported(t)' => Reported(t)
  PROVE  PipedOf(t)'
BY DEF PipedOf

LEMMA QuietKept ==
  ASSUME Typed, Numbered, Piped, Channel' = Channel, got' = got, said' = said, pipe' = pipe, Typed',
         \A t \in Tasks : \/ proc'[t] = proc[t]
                          \/ {proc[t], proc'[t]} \subseteq {"none", "forked", "up", "term"}
                          \/ proc'[t] \in {"gone", "orphan"},
         \A t \in Tasks : Reported(t)' => Reported(t)
  PROVE  Numbered' /\ Piped'
<1>1. \A u : Sent(u)' = Sent(u)
  BY SentSame
<1>2. \A t \in Tasks : PipedOf(t)'
  BY <1>1, PipedStays, PipedParts
<1>3. \A u \in Tasks : Grows(said[u], said'[u])
  BY LenProperties DEF Grows, Typed
<1> QED BY <1>2, <1>3, PipedParts, NumberedGrows

LEMMA FireKept ==
  ASSUME Typed, Numbered, Piped, NEW t \in Tasks, Fire(t), Typed'
  PROVE  Numbered' /\ Piped'
<1> DEFINE e == Events[Len(said[t]) + 1]
<1>1. /\ said' = [said EXCEPT ![t] = Append(@, e)] /\ pipe' = [pipe EXCEPT ![t] = Append(@, e)]
      /\ proc[t] = "up" /\ UNCHANGED <<got, stdout, out, pids, proc>>
  BY DEF Fire, cooker, pipes, loop
<1>2. said[t] \in Seq(What) /\ pipe[t] \in Seq(What) /\ Len(said[t]) \in Nat /\ Len(pipe[t]) \in Nat
  BY LenProperties DEF Typed
<1>3. e \in What
  BY <1>2, WhatIsSaid
<1> HIDE DEF e
<1>4. Channel' = Channel
  BY <1>1 DEF Channel
<1>5. \A u : Sent(u)' = Sent(u)
  BY <1>1, <1>4, SentSame
<1>6. Numbered'
  <2>1. \A u \in Tasks \ {t} : said'[u] = said[u] /\ Len(said[u]) \in Nat
    BY <1>1, LenProperties DEF Typed
  <2>2. said'[t] = Append(said[t], e)
    BY <1>1 DEF Typed
  <2>3. \A u \in Tasks : Grows(said[u], said'[u])
    BY <1>2, <1>3, <2>1, <2>2, AppendGrows DEF Grows
  <2> QED BY <1>1, <1>4, <2>3, NumberedGrows
<1>7. \A u \in Tasks \ {t} : PipedOf(u)'
  <2>1. \A u \in Tasks : Reported(u)' => Reported(u)
    BY <1>1 DEF Reported
  <2> QED BY <1>1, <1>5, <2>1, PipedStays, PipedParts DEF Typed
<1>8. PipedOf(t)'
  <2> DEFINE s == said[t]
             p == pipe[t]
             n == Sent(t)
  <2>1. said'[t] = Append(s, e) /\ pipe'[t] = Append(p, e) /\ Sent(t)' = n /\ proc'[t] = "up"
    BY <1>1, <1>5 DEF Typed
  <2>2. n + Len(p) = Len(s) /\ (\A k \in DOMAIN p : p[k] = s[n + k]) /\ n \in Nat
    BY <1>1, PipedParts, ChannelTyped DEF PipedOf
  <2>3. /\ Len(Append(s, e)) = Len(s) + 1 /\ Append(s, e)[Len(s) + 1] = e
        /\ \A k \in 1..Len(s) : Append(s, e)[k] = s[k]
        /\ Len(Append(p, e)) = Len(p) + 1 /\ Append(p, e)[Len(p) + 1] = e
        /\ \A k \in 1..Len(p) : Append(p, e)[k] = p[k]
        /\ DOMAIN Append(p, e) = 1..(Len(p) + 1) /\ DOMAIN p = 1..Len(p)
        /\ Len(s) \in Nat /\ Len(p) \in Nat
    BY <1>2, <1>3, AppendProperties, LenProperties
  <2> DEFINE r == Append(s, e)
             q == Append(p, e)
  <2> HIDE DEF s, p, n, r, q
  <2>4. \A k \in 1..(Len(p) + 1) : q[k] = r[n + k]
    <3> SUFFICES ASSUME NEW k \in 1..(Len(p) + 1) PROVE q[k] = r[n + k]
      OBVIOUS
    <3>1. CASE k = Len(p) + 1
      <4>1. n + k = Len(s) + 1
        BY <2>2, <2>3, <3>1
      <4> QED BY <2>3, <3>1, <4>1 DEF q, r
    <3>2. CASE k <= Len(p)
      <4>1. k \in 1..Len(p) /\ n + k \in 1..Len(s)
        BY <2>2, <2>3, <3>2
      <4> QED BY <2>2, <2>3, <4>1 DEF q, r
    <3> QED BY <2>3, <3>1, <3>2
  <2>5. n + Len(q) = Len(r) /\ DOMAIN q = 1..(Len(p) + 1)
    BY <2>2, <2>3 DEF q, r
  <2>6. said'[t] = r /\ pipe'[t] = q /\ n + Len(q) <= Len(r) /\ ~(Reported(t)')
    <3>1. Len(r) \in Nat
      BY <2>3 DEF r
    <3> QED BY <2>1, <2>5, <3>1 DEF r, q, Reported
  <2> QED BY <2>1, <2>4, <2>5, <2>6 DEF PipedOf
<1> QED BY <1>6, <1>7, <1>8, PipedParts

LEMMA ExitKept ==
  ASSUME Typed, Numbered, Piped, NEW t \in Tasks, Exit(t), Typed'
  PROVE  Numbered' /\ Piped'
<1>1. PICK e \in What : said' = [said EXCEPT ![t] = Append(@, e)]
  BY SaysMore
<1>2. /\ proc' = [proc EXCEPT ![t] = "zombie"] /\ proc[t] \in {"up", "term"}
      /\ UNCHANGED <<got, stdout, out, pids, pipe>>
  BY DEF Exit, cooker, pipes, loop
<1>3. said[t] \in Seq(What) /\ Len(said[t]) \in Nat
  BY LenProperties DEF Typed
<1>4. Channel' = Channel
  BY <1>2 DEF Channel
<1>5. \A u : Sent(u)' = Sent(u)
  BY <1>2, <1>4, SentSame
<1>6. said'[t] = Append(said[t], e) /\ \A u \in Tasks \ {t} : said'[u] = said[u] /\ Len(said[u]) \in Nat
  BY <1>1, LenProperties DEF Typed
<1>7. Numbered'
  <2>1. \A u \in Tasks : Grows(said[u], said'[u])
    BY <1>3, <1>6, AppendGrows DEF Grows
  <2> QED BY <1>2, <1>4, <2>1, NumberedGrows
<1>8. \A u \in Tasks \ {t} : PipedOf(u)'
  <2>1. \A u \in Tasks \ {t} : proc'[u] = proc[u] /\ (Reported(u)' => Reported(u))
    BY <1>2 DEF Reported, Typed
  <2> QED BY <1>2, <1>5, <1>6, <2>1, PipedStays, PipedParts
<1>9. PipedOf(t)'
  <2> DEFINE s == said[t]
             p == pipe[t]
             n == Sent(t)
             r == Append(s, e)
  <2>1. said'[t] = r /\ pipe'[t] = p /\ Sent(t)' = n /\ proc'[t] = "zombie"
    BY <1>2, <1>5, <1>6 DEF Typed
  <2>2. n + Len(p) = Len(s) /\ (\A k \in DOMAIN p : p[k] = s[n + k]) /\ n \in Nat
        /\ DOMAIN p = 1..Len(p) /\ Len(p) \in Nat /\ Len(s) \in Nat
    BY <1>2, PipedParts, ChannelTyped DEF PipedOf
  <2>3. Len(r) = Len(s) + 1 /\ \A k \in 1..Len(s) : r[k] = s[k]
    BY <1>3, AppendProperties
  <2> HIDE DEF s, p, n, r
  <2>4. \A k \in DOMAIN p : p[k] = r[n + k]
    <3> SUFFICES ASSUME NEW k \in 1..Len(p) PROVE p[k] = r[n + k]
      BY <2>2
    <3>1. n + k \in 1..Len(s)
      BY <2>2
    <3> QED BY <2>2, <2>3, <3>1
  <2>5. n + Len(p) <= Len(r) /\ n + Len(p) + 1 = Len(r)
    BY <2>2, <2>3
  <2>6. ~(Reported(t)')
    BY <2>1 DEF Reported
  <2> QED BY <2>1, <2>4, <2>5, <2>6 DEF PipedOf
<1> QED BY <1>7, <1>8, <1>9, PipedParts

LEMMA ReadPipeKept ==
  ASSUME Typed, Numbered, Piped, NEW t \in Tasks, ReadPipe(t),
         UNCHANGED <<got, said, stdout, proc, pids>>
  PROVE  Numbered' /\ Piped'
<1> DEFINE b == Messages(t)
<1>1. /\ b \in Seq(Msgs) /\ Len(b) = Len(pipe[t])
      /\ \A j \in DOMAIN b : b[j].task = t /\ b[j].what = pipe[t][j]
      /\ DOMAIN b = DOMAIN pipe[t]
  <2>1. /\ b \in Seq(Msgs) /\ Len(b) = Len(pipe[t])
        /\ \A j \in DOMAIN b : b[j] = [task |-> t, what |-> pipe[t][j]]
    BY MessagesTyped
  <2>2. DOMAIN b = DOMAIN pipe[t]
    BY DEF Messages
  <2> HIDE DEF b
  <2>3. ASSUME NEW j \in DOMAIN b PROVE b[j].task = t /\ b[j].what = pipe[t][j]
    <3>1. b[j] = [task |-> t, what |-> pipe[t][j]]
      BY <2>1
    <3> QED BY <3>1
  <2> QED BY <2>1, <2>2, <2>3
<1>2. /\ Sent(t) + Len(pipe[t]) <= Len(said[t])
      /\ \A k \in DOMAIN pipe[t] : pipe[t][k] = said[t][Sent(t) + k]
  BY PipedParts DEF PipedOf
<1>3. Channel' = Channel \o b
  <2>1. stdout \in Seq(Msgs) /\ out \in Seq(Msgs)
    BY DEF Typed
  <2>2. out' = out \o b /\ stdout' = stdout
    BY DEF ReadPipe
  <2> HIDE DEF b
  <2> QED BY <1>1, <2>1, <2>2, Associative DEF Channel
<1>4. pipe' = [pipe EXCEPT ![t] = <<>>]
  BY DEF ReadPipe
<1> HIDE DEF b
<1>5. Numbered' /\ Sent(t)' = Sent(t) + Len(b) /\ \A u \in Tasks \ {t} : Sent(u)' = Sent(u)
  <2>1. \A j \in DOMAIN b : b[j].task = t /\ b[j].what = said[t][Sent(t) + j]
    BY <1>1, <1>2
  <2>2. Sent(t) + Len(b) <= Len(said[t])
    BY <1>1, <1>2
  <2> QED BY <1>1, <1>3, <2>1, <2>2, QueuedBehind
<1>6. \A u \in Tasks : Reported(u)' => Reported(u)
  BY DEF Reported
<1>7. \A u \in Tasks \ {t} : PipedOf(u)'
  BY <1>4, <1>5, <1>6, PipedStays, PipedParts DEF Typed
<1>8. PipedOf(t)'
  <2> DEFINE n == Sent(t)
             s == said[t]
             p == pipe[t]
  <2>1. /\ Sent(t)' = n + Len(p) /\ said'[t] = s /\ proc'[t] = proc[t] /\ pipe'[t] = <<>>
    BY <1>1, <1>4, <1>5 DEF Typed
  <2>2. n \in Nat /\ Len(p) \in Nat /\ Len(s) \in Nat
    BY ChannelTyped
  <2>3. /\ n + Len(p) <= Len(s)
        /\ proc[t] \in {"none", "forked", "up", "term"} => n + Len(p) = Len(s)
        /\ proc[t] = "zombie" => n + Len(p) + 1 = Len(s)
        /\ Reported(t) => n = Len(s) /\ p = <<>>
    BY PipedParts DEF PipedOf
  <2> HIDE DEF n, s, p
  <2>4. Len(<<>>) = 0 /\ DOMAIN <<>> = {}
    BY EmptySeq
  <2>5. Sent(t)' + 0 = n + Len(p)
    BY <2>1, <2>2
  <2>6. Reported(t)' => n + Len(p) = Len(s)
    BY <1>6, <2>2, <2>3, <2>4
  <2> QED BY <2>1, <2>2, <2>3, <2>4, <2>5, <2>6 DEF PipedOf
<1> QED BY <1>5, <1>7, <1>8, PipedParts

LEMMA ReapKept ==
  ASSUME Typed, Numbered, Piped, Reap
  PROVE  Numbered' /\ Piped'
<1>0. PICK i \in DOMAIN pids :
        /\ proc[pids[i]] = "zombie" /\ proc' = [proc EXCEPT ![pids[i]] = "gone"]
        /\ out' = out \o Append(Messages(pids[i]), [task |-> pids[i], what |-> Last(said[pids[i]])])
        /\ pipe' = [pipe EXCEPT ![pids[i]] = <<>>]
        /\ pids' = RemoveAt(pids, i)
        /\ UNCHANGED <<got, said, stdout>>
  BY DEF Reap, cooker, pipes
<1>2. PICK t \in Tasks : t = pids[i] /\ i \in 1..Len(pids) /\ pids \in Seq(Tasks)
  BY <1>0, LenProperties, ElementOfSeq DEF Typed
<1> DEFINE m == [task |-> t, what |-> Last(said[t])]
           b == Append(Messages(t), m)
<1>1. /\ proc[t] = "zombie" /\ proc' = [proc EXCEPT ![t] = "gone"]
      /\ out' = out \o b
      /\ pipe' = [pipe EXCEPT ![t] = <<>>]
      /\ pids' = RemoveAt(pids, i)
      /\ UNCHANGED <<got, said, stdout>>
  BY <1>0, <1>2
<1>3. said[t] \in Seq(What) /\ said[t] # <<>> /\ Len(said[t]) \in Nat \ {0} /\ Last(said[t]) = said[t][Len(said[t])]
  BY <1>1, <1>2, LenProperties, EmptySeq DEF Typed, Last
<1>4. Last(said[t]) \in What
  <2> DEFINE s == said[t]
  <2>1. s \in Seq(What) /\ Len(s) \in 1..Len(s) /\ Last(said[t]) = s[Len(s)]
    BY <1>3
  <2> HIDE DEF s
  <2> QED BY <2>1, ElementOfSeq
<1>5. m \in Msgs /\ m.task = t /\ m.what = said[t][Len(said[t])]
  BY <1>2, <1>3, <1>4 DEF Msgs
<1>6. /\ Messages(t) \in Seq(Msgs) /\ Len(Messages(t)) = Len(pipe[t])
      /\ \A k \in DOMAIN Messages(t) : Messages(t)[k] = [task |-> t, what |-> pipe[t][k]]
      /\ DOMAIN Messages(t) = 1..Len(pipe[t])
  <2>1. /\ Messages(t) \in Seq(Msgs) /\ Len(Messages(t)) = Len(pipe[t])
        /\ \A k \in DOMAIN Messages(t) : Messages(t)[k] = [task |-> t, what |-> pipe[t][k]]
    BY <1>2, MessagesTyped
  <2> QED BY <2>1, LenProperties
<1>7. /\ Sent(t) \in Nat /\ Len(pipe[t]) \in Nat /\ DOMAIN pipe[t] = 1..Len(pipe[t])
      /\ Sent(t) + Len(pipe[t]) + 1 = Len(said[t])
      /\ \A k \in DOMAIN pipe[t] : pipe[t][k] = said[t][Sent(t) + k]
  <2>1. Sent(t) \in Nat /\ Len(pipe[t]) \in Nat /\ DOMAIN pipe[t] = 1..Len(pipe[t])
    BY <1>2, ChannelTyped
  <2>2. PipedOf(t) /\ proc[t] = "zombie"
    BY <1>1, <1>2, PipedParts
  <2> QED BY <2>1, <2>2 DEF PipedOf
<1> HIDE DEF m
<1>8. /\ b \in Seq(Msgs) /\ Len(b) = Len(pipe[t]) + 1 /\ DOMAIN b = 1..(Len(pipe[t]) + 1)
      /\ \A j \in 1..Len(pipe[t]) : b[j] = [task |-> t, what |-> pipe[t][j]]
      /\ b[Len(pipe[t]) + 1] = m
  <2> DEFINE M == Messages(t)
             n == Len(pipe[t])
  <2>1. /\ M \in Seq(Msgs) /\ Len(M) = n /\ n \in Nat /\ m \in Msgs /\ b = Append(M, m)
        /\ \A k \in 1..n : M[k] = [task |-> t, what |-> pipe[t][k]]
    BY <1>5, <1>6, <1>7
  <2> HIDE DEF M, n, b
  <2>2. /\ b \in Seq(Msgs) /\ Len(b) = n + 1 /\ \A j \in 1..n : b[j] = M[j]
        /\ b[n + 1] = m
    BY <2>1, AppendProperties
  <2>3. DOMAIN b = 1..(n + 1)
    BY <2>2, LenProperties
  <2> QED BY <2>1, <2>2, <2>3 DEF n
<1> HIDE DEF b
<1>9. \A j \in DOMAIN b : b[j].task = t /\ b[j].what = said[t][Sent(t) + j]
  <2> SUFFICES ASSUME NEW j \in 1..(Len(pipe[t]) + 1)
               PROVE  b[j].task = t /\ b[j].what = said[t][Sent(t) + j]
    BY <1>8
  <2>1. CASE j = Len(pipe[t]) + 1
    <3>1. Sent(t) + j = Len(said[t])
      BY <1>7, <2>1
    <3> QED BY <1>5, <1>8, <2>1, <3>1
  <2>2. CASE j <= Len(pipe[t])
    <3>1. j \in 1..Len(pipe[t])
      BY <1>7, <2>2
    <3>2. b[j] = [task |-> t, what |-> pipe[t][j]]
      BY <1>8, <3>1
    <3>3. b[j].task = t /\ b[j].what = pipe[t][j]
      BY <3>2
    <3> QED BY <1>7, <3>1, <3>3
  <2> QED BY <1>7, <2>1, <2>2
<1>10. Channel' = Channel \o b
  <2>1. stdout \in Seq(Msgs) /\ out \in Seq(Msgs) /\ out' = out \o b /\ stdout' = stdout
    BY <1>1 DEF Typed
  <2> QED BY <1>8, <2>1, Associative DEF Channel
<1>11. Sent(t) + Len(b) <= Len(said[t]) /\ Sent(t) + Len(b) = Len(said[t])
  <2> DEFINE n == Len(pipe[t])
             l == Len(said[t])
             x == Sent(t)
             y == Len(b)
  <2>1. n \in Nat /\ l \in Nat /\ x \in Nat /\ y = n + 1 /\ x + n + 1 = l
    BY <1>3, <1>7, <1>8
  <2> HIDE DEF n, l, x, y
  <2>2. x + y <= l /\ x + y = l
    BY <2>1
  <2> QED BY <2>2 DEF x, y, l
<1>12. Numbered' /\ Sent(t)' = Sent(t) + Len(b) /\ \A u \in Tasks \ {t} : Sent(u)' = Sent(u)
  BY <1>1, <1>2, <1>8, <1>9, <1>10, <1>11, QueuedBehind
<1>13. \A u \in Tasks \ {t} : Reported(u)' => Reported(u)
  <2>1. \A x \in Range(pids) : x # t => x \in Range(pids')
    BY <1>1, <1>2, RemovedTyped
  <2>2. \A u \in Tasks \ {t} : proc'[u] = proc[u]
    BY <1>1 DEF Typed
  <2> QED BY <2>1, <2>2 DEF Reported
<1>14. \A u \in Tasks \ {t} : PipedOf(u)'
  <2>1. \A u \in Tasks \ {t} : proc'[u] = proc[u] /\ pipe'[u] = pipe[u] /\ said'[u] = said[u]
    BY <1>1 DEF Typed
  <2> QED BY <1>12, <1>13, <2>1, PipedStays, PipedParts
<1>15. PipedOf(t)'
  <2>1. /\ Sent(t)' = Len(said[t]) /\ said'[t] = said[t] /\ proc'[t] = "gone" /\ pipe'[t] = <<>>
    BY <1>1, <1>2, <1>11, <1>12 DEF Typed
  <2>2. Len(<<>>) = 0 /\ DOMAIN <<>> = {}
    BY EmptySeq
  <2>3. \A n \in Nat : n + 0 <= n
    OBVIOUS
  <2>4. Sent(t)' + 0 <= Len(said[t])
    BY <1>3, <2>1, <2>3
  <2> QED BY <2>1, <2>2, <2>4 DEF PipedOf
<1> QED BY <1>12, <1>14, <1>15, PipedParts

\* The first message is handled.
LEMMA HandleKept ==
  ASSUME Typed, Numbered, stdout # <<>>, Handle, UNCHANGED <<said, out>>
  PROVE  Numbered' /\ \A u \in Tasks : Sent(u)' = Sent(u)
<1> DEFINE m == Head(stdout)
           t == m.task
           c == Channel
           d == Tail(Channel)
<1>1. stdout \in Seq(Msgs) /\ out \in Seq(Msgs) /\ c \in Seq(Msgs) /\ c # <<>> /\ Head(c) = m
      /\ Channel' = d
  <2>1. stdout \in Seq(Msgs) /\ out \in Seq(Msgs) /\ stdout' = Tail(stdout) /\ out' = out
    BY DEF Typed, Handle
  <2>2. c # <<>> /\ Head(c) = m /\ d = Tail(stdout) \o out
    BY <2>1, TakenFirst DEF Channel
  <2> QED BY <2>1, <2>2, ChannelTyped DEF Channel
<1>2. m \in Msgs /\ t \in Tasks /\ m.what \in What
  <2>1. m \in Msgs
    BY <1>1, HeadTailProperties
  <2> QED BY <2>1 DEF Msgs
<1>3. got' = [got EXCEPT ![t] = Append(@, m.what)]
  BY DEF Handle
<1> HIDE DEF m
<1>4. ASSUME NEW u \in Tasks
      PROVE  /\ Len(got[u]) \in Nat /\ (u = t => Len(got'[u]) = Len(got[u]) + 1)
             /\ (u # t => Len(got'[u]) = Len(got[u]))
  <2>1. got[u] \in Seq(What) /\ got[u] \in Seq(What)
    BY DEF Typed
  <2>2. CASE u = t
    BY <1>2, <1>3, <2>1, <2>2, AppendProperties, LenProperties DEF Typed
  <2>3. CASE u # t
    BY <1>2, <1>3, <2>1, <2>3, LenProperties DEF Typed
  <2> QED BY <2>2, <2>3
<1>5. /\ Len(c) \in Nat \ {0} /\ Len(d) = Len(c) - 1 /\ d \in Seq(Msgs) /\ DOMAIN d = 1..Len(d)
      /\ DOMAIN c = 1..Len(c) /\ \A i \in 1..Len(d) : d[i] = c[i + 1]
  BY <1>1, HeadTailProperties, LenProperties, EmptySeq
<1> HIDE DEF c, d
<1>6. ASSUME NEW u \in Tasks, NEW i \in 0..Len(d)
      PROVE  Len(got'[u]) + Count(d, u, i) = Len(got[u]) + Count(c, u, i + 1)
  <2>1. i \in Nat /\ i + 1 \in Nat
    BY <1>5
  <2>2. Count(d, u, i) \in Nat /\ Count(c, u, i + 1) \in Nat
    BY <2>1, CountFacts
  <2>3. Count(c, u, i + 1) = Count(d, u, i) + (IF m.task = u THEN 1 ELSE 0)
    BY <1>1, CountTail DEF d, c
  <2> DEFINE x == Count(d, u, i)
             y == Count(c, u, i + 1)
             g == Len(got[u])
             h == Len(got'[u])
  <2>4. x \in Nat /\ g \in Nat /\ (u = t => y = x + 1 /\ h = g + 1) /\ (u # t => y = x /\ h = g)
    BY <2>2, <2>3, <1>4
  <2> HIDE DEF x, y, g, h
  <2>5. h + x = g + y
    BY <2>4
  <2> QED BY <2>5 DEF x, y, g, h
<1>7. \A u \in Tasks : Sent(u)' = Sent(u)
  <2> SUFFICES ASSUME NEW u \in Tasks
               PROVE  Len(got'[u]) + Count(d, u, Len(d)) = Len(got[u]) + Count(c, u, Len(c))
    BY <1>1 DEF Sent, Count, c
  <2>1. Len(d) \in 0..Len(d) /\ Len(d) + 1 = Len(c)
    BY <1>5
  <2> QED BY <1>6, <2>1
<1>8. ASSUME NEW i \in DOMAIN d
      PROVE  LET u == d[i].task
                 k == Len(got'[u]) + Count(d, u, i)
             IN k <= Len(said[u]) /\ d[i].what = said[u][k]
  <2>1. i \in 0..Len(d) /\ i + 1 \in DOMAIN c /\ d[i] = c[i + 1]
    BY <1>5
  <2>2. c[i + 1].task \in Tasks
    BY <2>1, ChannelTyped DEF c
  <2>3. LET u == c[i + 1].task
            k == Len(got[u]) + Count(c, u, i + 1)
        IN k <= Len(said[u]) /\ c[i + 1].what = said[u][k]
    BY <2>1 DEF Numbered, c
  <2> QED BY <1>6, <2>1, <2>2, <2>3
<1>9. Numbered'
  <2>1. said' = said
    OBVIOUS
  <2>2. \A i \in DOMAIN Channel' : LET u == Channel'[i].task
                 k == Len(got'[u]) + Count(Channel', u, i)
             IN k <= Len(said'[u]) /\ Channel'[i].what = said'[u][k]
    BY <1>1, <1>8, <2>1
  <2> QED BY <2>2 DEF Numbered, Count
<1> QED BY <1>7, <1>9

\* A worker that is killed loses what it had not written.
LEMMA LostKept ==
  ASSUME Typed, Numbered, out' = <<>>, UNCHANGED <<got, said, stdout>>
  PROVE  Numbered'
<1> DEFINE c == Channel
           d == stdout
<1>1. /\ d \in Seq(Msgs) /\ out \in Seq(Msgs) /\ Len(d) \in Nat /\ Len(out) \in Nat
      /\ DOMAIN d = 1..Len(d) /\ Channel' = d
  <2>1. d \in Seq(Msgs) /\ out \in Seq(Msgs) /\ d \o <<>> = d
    BY ConcatEmptySeq DEF Typed
  <2> QED BY <2>1, LenProperties DEF Channel
<1>2. /\ DOMAIN c = 1..(Len(d) + Len(out))
      /\ \A i \in 1..Len(d) : c[i] = d[i]
  BY <1>1, ConcatProperties, LenProperties DEF Channel
<1> HIDE DEF c, d
<1>3. ASSUME NEW i \in DOMAIN d
      PROVE  LET u == d[i].task
                 k == Len(got[u]) + Count(d, u, i)
             IN k <= Len(said[u]) /\ d[i].what = said[u][k]
  <2>1. i \in Nat /\ i \in DOMAIN c /\ c[i] = d[i] /\ \A j \in 1..i : c[j] = d[j]
    BY <1>1, <1>2
  <2>2. LET u == c[i].task
            k == Len(got[u]) + Count(c, u, i)
        IN k <= Len(said[u]) /\ c[i].what = said[u][k]
    BY <2>1 DEF Numbered, c
  <2>3. Count(c, c[i].task, i) = Count(d, c[i].task, i)
    BY <2>1, CountSame
  <2> QED BY <2>1, <2>2, <2>3
<1>4. said' = said /\ got' = got
  OBVIOUS
<1>5. \A i \in DOMAIN Channel' : LET u == Channel'[i].task
               k == Len(got'[u]) + Count(Channel', u, i)
           IN k <= Len(said'[u]) /\ Channel'[i].what = said'[u][k]
  BY <1>1, <1>3, <1>4
<1> QED BY <1>5 DEF Numbered, Count

\* What the actions that say, read and hand on nothing do to the processes
LEMMA QuietSteps ==
  ASSUME Typed, InTable, Ends,
         \/ Select \/ HandleRuntask \/ HandleFinishNow \/ Kill \/ WaitAny \/ KilledAll \/ HandleQuit
         \/ ReadAll \/ ReapedAll \/ Join \/ (Finished /\ main' # "killed")
         \/ (\E t \in Tasks : Setsid(t) \/ StartTask(t))
         \/ Teardown \/ Write \/ BrokenPipe \/ Done \/ ForceStop \/ ForkFails \/ UNCHANGED vars
         \/ (Read /\ stdout = <<>>),
         HandleRuntask => proc[Head(input).task] = "none"
  PROVE  /\ UNCHANGED <<got, said, pipe, stdout, out>>
         /\ \A t \in Tasks : \/ proc'[t] = proc[t]
                             \/ {proc[t], proc'[t]} \subseteq {"none", "forked", "up", "term"}
                             \/ proc'[t] \in {"gone", "orphan"}
         /\ \A t \in Tasks : Reported(t)' => Reported(t)
<1>1. CASE HandleRuntask
  <2>1. Head(input).task \in Tasks /\ pids \in Seq(Tasks)
    <3>1. Head(input) \in Commands /\ Head(input).op = "runtask"
      BY <1>1, HeadTailProperties DEF HandleRuntask, NextIs, Typed
    <3> QED BY <3>1, CommandsTyped DEF Typed
  <2>2. /\ proc' = [proc EXCEPT ![Head(input).task] = "forked"]
        /\ UNCHANGED <<got, said, pipe, stdout, out>>
    BY <1>1 DEF HandleRuntask, cooker, pipes
  <2>3. \A t \in Tasks : t \in Range(pids) => t \in Range(pids')
    <3>1. pids' = Append(pids, Head(input).task)
      BY <1>1 DEF HandleRuntask
    <3> DEFINE x == Head(input).task
               r == Append(pids, x)
    <3>2. /\ DOMAIN pids = 1..Len(pids) /\ Len(pids) \in Nat /\ DOMAIN r = 1..(Len(pids) + 1)
          /\ \A k \in 1..Len(pids) : r[k] = pids[k]
      BY <2>1, AppendProperties, LenProperties
    <3> HIDE DEF r
    <3> QED BY <3>1, <3>2 DEF Range, r
  <2> QED BY <1>1, <2>1, <2>2, <2>3 DEF Typed, Reported
<1>2. CASE Kill \/ \E t \in Tasks : Setsid(t)
  <2>1. UNCHANGED <<got, said, pipe, stdout, out, pids>>
    BY <1>2 DEF Kill, Setsid, cooker, pipes, loop
  <2>2. \A t \in Tasks : \/ proc'[t] = proc[t]
                         \/ {proc[t], proc'[t]} \subseteq {"none", "forked", "up", "term"}
    BY <1>2 DEF Kill, Setsid, Typed
  <2> QED BY <2>1, <2>2 DEF Reported
<1>3. CASE WaitAny
  <2>1. PICK t \in Tasks : proc[t] = "zombie" /\ proc' = [proc EXCEPT ![t] = "gone"]
    BY <1>3 DEF WaitAny
  <2>2. UNCHANGED <<got, said, pipe, stdout, out, pids>>
    BY <1>3 DEF WaitAny, cooker, pipes
  <2>3. t \in Range(pids)
    BY <2>1 DEF InTable
  <2> QED BY <2>1, <2>2, <2>3 DEF Reported, Typed
<1>4. CASE Join \/ (Finished /\ main' # "killed")
  <2>1. UNCHANGED <<got, said, pipe, stdout, out, pids>> /\ (proc' = proc \/ proc' = Abandoned)
    BY <1>4 DEF Join, Finished, cooker, pipes
  <2>2. \A t \in Tasks : Abandoned[t] = proc[t] \/ Abandoned[t] \in {"gone", "orphan"}
    BY DEF Abandoned
  <2>3. \A t \in Tasks : proc[t] = "none" => Abandoned[t] = "none"
    BY AbandonedTyped
  <2>4. \A t \in Tasks : Abandoned[t] = "gone" /\ proc[t] # "gone" => t \in Range(pids)
    BY <2>3 DEF InTable, Typed
  <2> QED BY <2>1, <2>2, <2>4 DEF Reported
<1>5. CASE \/ Select \/ HandleFinishNow \/ KilledAll \/ HandleQuit \/ ReadAll \/ ReapedAll
           \/ (\E t \in Tasks : StartTask(t)) \/ Teardown \/ Write \/ BrokenPipe \/ Done
           \/ ForceStop \/ ForkFails \/ UNCHANGED vars \/ (Read /\ stdout = <<>>)
  <2>1. UNCHANGED <<got, said, pipe, stdout, out, pids, proc>>
    BY <1>5 DEF Select, HandleFinishNow, KilledAll, HandleQuit, ReadAll, ReapedAll, StartTask,
       Teardown, Write, BrokenPipe, Done, ForceStop, ForkFails, Read, Handle, vars, cooker, pipes,
       loop, kids
  <2> QED BY <2>1 DEF Reported
<1> QED BY <1>1, <1>2, <1>3, <1>4, <1>5

LEMMA FirstCommand ==
  ASSUME Typed, AskedOnce, HandleRuntask
  PROVE  proc[Head(input).task] = "none"
<1>1. /\ input # <<>> /\ input \in Seq(Commands) /\ stdin \in Seq(Commands) /\ outbox \in Seq(Commands)
      /\ Head(input).op = "runtask"
  BY DEF HandleRuntask, NextIs, Typed
<1>2. input \o stdin \in Seq(Commands) /\ input \o stdin # <<>> /\ Head(input \o stdin) = Head(input)
  BY <1>1, TakenFirst, ConcatProperties
<1>3. Orders \in Seq(Commands) /\ Orders # <<>> /\ Head(Orders) = Head(input)
  BY <1>1, <1>2, TakenFirst, ConcatProperties DEF Orders
<1>4. Head(Orders) \in Range(Orders)
  BY <1>3, HeadTailProperties, LenProperties, EmptySeq DEF Range
<1> QED BY <1>1, <1>3, <1>4 DEF AskedOnce

LEMMA FlushKept ==
  ASSUME Typed, Flush
  PROVE  Channel' = Channel /\ UNCHANGED <<got, said, pipe, proc, pids>>
<1>1. /\ stdout' = Append(stdout, Head(out)) /\ out' = Tail(out) /\ out # <<>>
      /\ stdout \in Seq(Msgs) /\ out \in Seq(Msgs)
  BY DEF Flush, Typed
<1>2. Channel' = Channel
  BY <1>1, HandedOn DEF Channel
<1> QED BY <1>2 DEF Flush, cooker, loop, kids

LEMMA MessagesKept ==
  ASSUME WInv, [Next]_vars, build' # "dead", Typed'
  PROVE  Numbered' /\ (main' # "killed" => Piped')
<1>1. build # "dead"
  BY DEF Next, MainThread, Select, HandleRuntask, HandleFinishNow, Kill, WaitAny, KilledAll, ReadLast,
     Finished, HandleQuit, ReadReady, ReadAll, Reap, ReapedAll, Join, Flush, RunQueueSteps, StartTask,
     Teardown, Write, BrokenPipe, Done, Read, ForceStop, ForkFails, KillWorker, KillCooker, Process,
     Setsid, Fire, Exit, vars, cooker
<1>2. Typed /\ AskedOnce /\ InTable /\ Ends /\ Numbered /\ (main # "killed" => Piped)
  BY <1>1 DEF WInv
<1>3. main = "killed" => main' = "killed"
  BY DEF Next, MainThread, Select, HandleRuntask, HandleFinishNow, Kill, WaitAny, KilledAll, ReadLast,
     Finished, HandleQuit, NothingToHandle, ReadReady, ReadAll, Reap, ReapedAll, Join, Flush,
     RunQueueSteps, StartTask, Teardown, Write, BrokenPipe, Done, Read, ForceStop, ForkFails, KillWorker,
     KillCooker, Process, Setsid, Fire, Exit, vars, loop, Down
<1>4. CASE KillWorker \/ (Finished /\ main' = "killed")
  <2>1. out' = <<>> /\ UNCHANGED <<got, said, stdout>> /\ main' = "killed"
    BY <1>4 DEF KillWorker, Finished, cooker, pipes
  <2> QED BY <1>2, <2>1, LostKept
<1>5. ASSUME NEW t \in Tasks, Fire(t) \/ Exit(t) PROVE Numbered' /\ (main' # "killed" => Piped')
  <2>1. CASE main # "killed"
    BY <1>2, <1>5, <2>1, FireKept, ExitKept
  <2>2. CASE main = "killed"
    <3>1. Channel' = Channel /\ got' = got
      BY <1>5 DEF Fire, Exit, cooker, pipes, loop, Channel
    <3>2. \A u \in Tasks : Grows(said[u], said'[u])
      BY <1>2, SaidGrows
    <3> QED BY <1>2, <1>3, <2>2, <3>1, <3>2, NumberedGrows
  <2> QED BY <2>1, <2>2
<1>6. CASE ReadLast
  <2>1. Head(doomed) \in Tasks
    BY <1>2, <1>6, HeadTailProperties DEF ReadLast, Typed
  <2>2. ReadPipe(Head(doomed)) /\ UNCHANGED <<got, said, stdout, proc, pids>> /\ main # "killed"
    BY <1>6 DEF ReadLast, cooker, pipes
  <2>3. PICK t \in Tasks : ReadPipe(t)
    BY <2>1, <2>2
  <2> QED BY <1>2, <2>2, <2>3, ReadPipeKept
<1>7. CASE ReadReady
  <2>1. UNCHANGED <<got, said, stdout, proc, pids>> /\ main # "killed"
    BY <1>7 DEF ReadReady, NothingToHandle, cooker, pipes
  <2>2. PICK i \in DOMAIN pids : ReadPipe(pids[i])
    BY <1>7 DEF ReadReady
  <2>3. pids[i] \in Tasks
    BY <1>2, LenProperties, ElementOfSeq DEF Typed
  <2>4. PICK t \in Tasks : ReadPipe(t)
    BY <2>2, <2>3
  <2> QED BY <1>2, <2>1, <2>4, ReadPipeKept
<1>8. CASE Reap
  <2>1. main # "killed"
    BY <1>8 DEF Reap
  <2> QED BY <1>2, <1>8, <2>1, ReapKept
<1>9. CASE Flush
  <2>1. main # "killed" /\ Channel' = Channel /\ UNCHANGED <<got, said, pipe, proc, pids>>
    BY <1>2, <1>9, FlushKept DEF Flush, Down
  <2>2. \A t \in Tasks : Reported(t)' => Reported(t)
    BY <2>1 DEF Reported
  <2> QED BY <1>2, <2>1, <2>2, QuietKept
<1>10. CASE Read /\ stdout # <<>>
  <2>1. Handle /\ UNCHANGED <<said, out, pipe, proc, pids, main>>
    BY <1>10 DEF Read, loop, kids
  <2>2. Numbered' /\ \A u \in Tasks : Sent(u)' = Sent(u)
    BY <1>2, <1>10, <2>1, HandleKept
  <2>3. ASSUME Piped, NEW t \in Tasks PROVE PipedOf(t)'
    <3>1. Reported(t)' => Reported(t)
      BY <2>1 DEF Reported
    <3> QED BY <2>1, <2>2, <2>3, <3>1, PipedStays, PipedParts
  <2> QED BY <1>2, <2>1, <2>2, <2>3, PipedParts
<1>11. CASE \/ Select \/ HandleRuntask \/ HandleFinishNow \/ Kill \/ WaitAny \/ KilledAll \/ HandleQuit
            \/ ReadAll \/ ReapedAll \/ Join \/ (Finished /\ main' # "killed")
            \/ (\E t \in Tasks : Setsid(t) \/ StartTask(t))
            \/ Teardown \/ Write \/ BrokenPipe \/ Done \/ ForceStop \/ ForkFails \/ UNCHANGED vars
            \/ (Read /\ stdout = <<>>)
  <2>1. HandleRuntask => proc[Head(input).task] = "none"
    BY <1>2, FirstCommand
  <2>2. /\ UNCHANGED <<got, said, pipe, stdout, out>>
        /\ \A t \in Tasks : \/ proc'[t] = proc[t]
                            \/ {proc[t], proc'[t]} \subseteq {"none", "forked", "up", "term"}
                            \/ proc'[t] \in {"gone", "orphan"}
        /\ \A t \in Tasks : Reported(t)' => Reported(t)
    BY <1>2, <1>11, <2>1, QuietSteps
  <2>3. Channel' = Channel
    BY <2>2 DEF Channel
  <2>4. CASE main # "killed"
    BY <1>2, <2>2, <2>3, <2>4, QuietKept
  <2>5. CASE main = "killed"
    <3>1. \A u \in Tasks : Grows(said[u], said'[u])
      BY <1>2, SaidGrows
    <3> QED BY <1>2, <1>3, <2>2, <2>3, <2>5, <3>1, NumberedGrows
  <2> QED BY <2>4, <2>5
<1>12. CASE KillCooker
  BY <1>12 DEF KillCooker
<1> QED BY <1>4, <1>5, <1>6, <1>7, <1>8, <1>9, <1>10, <1>11, <1>12
       DEF Next, MainThread, RunQueueSteps, Process

-----------------------------------------------------------------------------
(* The invariant and what follows from it *)

LEMMA InitInv == Init => WInv
<1> SUFFICES ASSUME Init PROVE WInv
  OBVIOUS
<1>1. Typed
  BY InitTyped
<1>2. /\ \A t \in Tasks : got[t] = <<>> /\ said[t] = <<>> /\ pipe[t] = <<>> /\ proc[t] = "none"
      /\ input = <<>> /\ stdin = <<>> /\ outbox = <<>> /\ stdout = <<>> /\ out = <<>> /\ pids = <<>>
      /\ build = "running" /\ main = "select"
  BY DEF Init
<1>3. /\ Len(<<>>) = 0 /\ DOMAIN <<>> = {} /\ <<>> \o <<>> = <<>> /\ Range(<<>>) = {}
  BY EmptySeq DEF Range
<1>4. Orders = <<>> /\ Channel = <<>>
  BY <1>2, <1>3 DEF Orders, Channel
<1>5. AskedOnce
  BY <1>2, <1>3, <1>4 DEF AskedOnce, Once
<1>6. InTable /\ Told /\ Ends
  BY <1>2, <1>3 DEF InTable, Told, Ends, Down
<1>7. Numbered
  BY <1>3, <1>4 DEF Numbered
<1>8. \A t \in Tasks : Sent(t) = 0
  <2> SUFFICES ASSUME NEW t \in Tasks PROVE Sent(t) = 0
    OBVIOUS
  <2>1. Count(Channel, t, 0) = 0
    BY CountFacts
  <2> QED BY <1>2, <1>3, <1>4, <2>1 DEF Sent
<1>9. Piped
  BY <1>2, <1>3, <1>8 DEF Piped, Reported
<1> QED BY <1>1, <1>5, <1>6, <1>7, <1>9 DEF WInv

LEMMA InvKept == WInv /\ [Next]_vars => WInv'
<1> SUFFICES ASSUME WInv, [Next]_vars PROVE WInv'
  OBVIOUS
<1>1. Typed /\ AskedOnce /\ InTable /\ Told /\ Ends /\ (build # "dead" => Numbered)
  BY DEF WInv
<1>2. Typed' /\ AskedOnce' /\ InTable' /\ Ends'
  BY <1>1, TypedKept, AskedOnceKept, InTableKept, EndsKept
<1>3. Told'
  BY <1>1, ToldKept
<1>4. build' # "dead" => Numbered' /\ (main' # "killed" => Piped')
  BY <1>2, MessagesKept
<1> QED BY <1>2, <1>3, <1>4 DEF WInv

\* The inductive invariant: what the cooker was told, the messages on their way
\* to it and the pipe of a task are, one after the other, what the task said.
THEOREM Delivered == Spec => []WInv
<1>1. Init => WInv
  BY InitInv
<1>2. WInv /\ [Next]_vars => WInv'
  BY InvKept
<1> QED BY <1>1, <1>2, PTL DEF Spec

\* RunQueue is told of each task what its process did, in order and without
\* repetition, whatever is killed (runQueuePipe.read, worker_flush).
THEOREM OrderKept == Spec => []ToldInOrder
<1>1. WInv => ToldInOrder
  <2> SUFFICES ASSUME WInv, NEW t \in Tasks PROVE IsPrefix(got[t], said[t])
    BY DEF ToldInOrder
  <2> DEFINE g == got[t]
             s == said[t]
  <2>1. g \in Seq(What) /\ s \in Seq(What)
    BY DEF WInv, Typed
  <2>2. /\ Len(g) \in Nat /\ Len(s) \in Nat /\ Len(g) <= Len(s) /\ DOMAIN g = 1..Len(g)
        /\ \A k \in 1..Len(g) : g[k] = s[k]
    BY <2>1, LenProperties DEF WInv, Told
  <2> HIDE DEF g, s
  <2>3. g = SubSeq(s, 1, Len(g))
    <3>1. \A k \in 1..Len(g) : s[k] \in What
      BY <2>1, <2>2, ElementOfSeq
    <3>2. /\ SubSeq(s, 1, Len(g)) \in Seq(What)
          /\ Len(SubSeq(s, 1, Len(g))) = IF 1 <= Len(g) THEN Len(g) - 1 + 1 ELSE 0
          /\ \A k \in 1..(Len(g) - 1 + 1) : SubSeq(s, 1, Len(g))[k] = s[1 + k - 1]
      BY <2>1, <2>2, <3>1, SubSeqProperties
    <3> DEFINE r == SubSeq(s, 1, Len(g))
               n == Len(g)
    <3>3. r \in Seq(What) /\ Len(r) = (IF 1 <= n THEN n - 1 + 1 ELSE 0)
          /\ \A k \in 1..(n - 1 + 1) : r[k] = s[1 + k - 1]
      BY <3>2
    <3>4. n \in Nat /\ n = Len(g) /\ \A k \in 1..n : g[k] = s[k]
      BY <2>2
    <3> HIDE DEF r, n
    <3>5. Len(r) = n
      BY <3>3, <3>4
    <3>6. \A k \in 1..n : r[k] = s[k]
      BY <3>3, <3>4
    <3>7. r = g
      BY <2>1, <3>3, <3>4, <3>5, <3>6, SeqEqual
    <3> QED BY <3>7 DEF r
  <2>4. IsPrefix(g, s)
    BY <2>2, <2>3 DEF IsPrefix
  <2> QED BY <2>4 DEF g, s
<1> QED BY <1>1, Delivered, PTL

\* Once teardown has seen the end of a worker that left serve by itself, the
\* run queue has all that a reaped task said, to its exit code.
THEOREM AllDelivered == Spec => []NothingQueuedIsLost
<1>1. WInv => NothingQueuedIsLost
  <2> SUFFICES ASSUME WInv, build = "done", main = "ended", NEW t \in Tasks, Reported(t)
               PROVE  got[t] = said[t]
    BY DEF NothingQueuedIsLost
  <2>1. stdout = <<>> /\ out = <<>> /\ Piped /\ Told /\ Typed
    BY DEF WInv, Ends, Down
  <2>2. Channel = <<>> /\ Len(Channel) = 0
    BY <2>1, EmptySeq DEF Channel
  <2>3. Count(Channel, t, 0) = 0 /\ Len(got[t]) \in Nat
    BY <2>1, CountFacts, ChannelTyped
  <2>4. Len(got[t]) = Len(said[t])
    <3>1. Len(got[t]) + 0 = Len(said[t])
      BY <2>1, <2>2, <2>3 DEF Piped, Sent
    <3> QED BY <2>3, <3>1
  <2>5. /\ got[t] \in Seq(What) /\ said[t] \in Seq(What) /\ DOMAIN got[t] = 1..Len(got[t])
        /\ \A k \in DOMAIN got[t] : got[t][k] = said[t][k]
    BY <2>1, LenProperties DEF Typed, Told
  <2> QED BY <2>4, <2>5, SeqEqual
<1> QED BY <1>1, Delivered, PTL

=============================================================================
