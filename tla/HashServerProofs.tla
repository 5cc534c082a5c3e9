-------------------------- MODULE HashServerProofs --------------------------
(***************************************************************************)
(* Proofs about HashServer, for every set of tasks, outputs, unihashes,    *)
(* marks and clients, every number of rows, and every removal, garbage     *)
(* collection and answer of the upstream server: its types, what a sweep   *)
(* spares, where answers come from, and that equal outputs share their     *)
(* unihash on a server without upstream.                                   *)
(***************************************************************************)
EXTENDS HashServer, FiniteSetTheorems, TLAPS

-----------------------------------------------------------------------------
(* Types *)

Row == [task : Tasks, out : Outs, day : Nat, remote : BOOLEAN, at : Nat]

FiniteRows == {R \in SUBSET Row : IsFiniteSet(R)}

Tables == [uni : [Tasks -> Unis \cup {None}], rows : FiniteRows]

Answer == [task : Tasks, out : Outs \cup {None}, day : Nat, uni : Unis]

Handler ==
  [op : {"insert", "outhash", "get", "report", "getall", "stream"}, at : {"asked", "answered"},
   task : Tasks \cup {None}, out : Outs \cup {None}, own : Unis \cup {None},
   got : Answer \cup {None}]

\* A handler that has to do with one task knows it, a report knows its unihash,
\* and the answers that have an output say which.
Awaiting(k) ==
  /\ k.op # "outhash" => k.task \in Tasks
  /\ k.op = "insert" => k.own \in Unis
  /\ k.op \in {"getall", "outhash"} /\ k.got # None => k.got.out \in Outs

Typed ==
  /\ db \in Tables /\ up \in Tables
  /\ rowMark \in [Tasks -> Marks \cup {None}] /\ mark \in Marks \cup {None}
  /\ today \in Nat
  /\ conn \in [Conns -> Handler \cup {Idle}]
  /\ \A c \in Conns : conn[c] # Idle => Awaiting(conn[c])
  /\ backfill \in Seq(Tasks) /\ worker \in Tasks \cup {None}
  /\ told \in [Tasks -> SUBSET Unis]
  /\ origin \in [Tasks -> {"none", "report", "equiv", "upstream", "forgotten"}]
  /\ kept \subseteq Tasks

LEMMA LeastNumber ==
  ASSUME NEW T \in SUBSET Nat, T # {}
  PROVE  \E n \in T : \A m \in T : n <= m
  <1> DEFINE R == StrictSubsetOrdering(Nat)
             Below(n) == 0..n
             Starts == {Below(n) : n \in T}
  <1>1. \A n \in T : IsFiniteSet(Below(n)) /\ Below(n) \subseteq Nat
    BY FS_Interval
  <1>2. Starts \subseteq FiniteSubsetsOf(Nat) /\ Starts # {}
    BY <1>1 DEF FiniteSubsetsOf
  <1>3. \E X \in Starts : \A Y \in Starts : <<Y, X>> \notin R
    <2>1. IsWellFoundedOn(R, FiniteSubsetsOf(Nat))
      BY FS_StrictSubsetOrderingWellFounded
    <2> HIDE DEF Starts, R
    <2> QED BY <1>2, <2>1, WFMin
  <1>4. PICK n \in T : \A m \in T : <<Below(m), Below(n)>> \notin R
    BY <1>3
  <1>5. ASSUME NEW m \in T, m < n PROVE FALSE
    <2>1. Below(m) \subseteq Below(n) /\ n \in Below(n) /\ n \notin Below(m)
      BY <1>5
    <2>2. <<Below(m), Below(n)>> \in R
      BY <1>1, <2>1 DEF StrictSubsetOrdering
    <2> QED BY <1>4, <2>2
  <1> QED BY <1>5

LEMMA OldestFirst ==
  ASSUME NEW R, R # {}, \A r \in R : r.at \in Nat
  PROVE  Oldest(R) \in R /\ \A s \in R : Oldest(R).at <= s.at
  <1>1. {r.at : r \in R} \in SUBSET Nat /\ {r.at : r \in R} # {}
    OBVIOUS
  <1>2. \E r \in R : \A s \in R : r.at <= s.at
    <2>1. PICK n \in {r.at : r \in R} : \A m \in {r.at : r \in R} : n <= m
      BY <1>1, LeastNumber
    <2> QED BY <2>1
  <1> QED BY <1>2 DEF Oldest

LEMMA EquivalentType ==
  ASSUME NEW d \in Tables, NEW t \in Tasks, NEW o \in Outs
  PROVE  Equivalent(d, t, o) \in Unis \cup {None}
  <1> DEFINE others == Known(d, {r \in RowsOf(d, o) : r.task # t})
  <1>1. CASE others = {}
    BY <1>1 DEF Equivalent
  <1>2. CASE others # {}
    <2>1. others \subseteq Row
      BY DEF Known, RowsOf, Tables, FiniteRows
    <2>2. Oldest(others) \in others
      BY <1>2, <2>1, OldestFirst DEF Row
    <2>3. Oldest(others).task \in Tasks
      BY <2>1, <2>2 DEF Row
    <2> QED BY <1>2, <2>3 DEF Equivalent, Tables
  <1> QED BY <1>1, <1>2

LEMMA InsertRowType ==
  ASSUME NEW rows \in FiniteRows, NEW r \in [task : Tasks, out : Outs, day : Nat, remote : BOOLEAN],
         NEW n \in Nat
  PROVE  InsertRow(rows, r, n) \in FiniteRows
  <1> DEFINE f == [s \in rows |-> At(s, IF s.at < n THEN s.at ELSE s.at + 1)]
             shifted == {At(s, IF s.at < n THEN s.at ELSE s.at + 1) : s \in rows}
  <1>1. InsertRow(rows, r, n) = shifted \cup {At(r, n)} /\ IsFiniteSet(rows)
    BY DEF InsertRow, FiniteRows
  <1>2. shifted \cup {At(r, n)} \subseteq Row
    BY DEF At, Row, FiniteRows
  <1>3. f \in Surjection(rows, shifted)
    BY DEF Surjection
  <1> HIDE DEF f, shifted
  <1>4. IsFiniteSet(shifted)
    BY <1>1, <1>3, FS_Surjection
  <1>5. IsFiniteSet(shifted \cup {At(r, n)})
    BY <1>4, FS_AddElement
  <1> QED BY <1>1, <1>2, <1>5 DEF FiniteRows

LEMMA InsertRowTables ==
  ASSUME NEW d \in Tables, NEW r \in [task : Tasks, out : Outs, day : Nat, remote : BOOLEAN],
         NEW n \in Nat
  PROVE  /\ [d EXCEPT !.rows = InsertRow(@, r, n)] \in Tables
         /\ [d EXCEPT !.rows = InsertRow(@, r, n)].uni = d.uni
         /\ [d EXCEPT !.rows = InsertRow(@, r, n)].rows = InsertRow(d.rows, r, n)
  BY InsertRowType DEF Tables

\* What a step that stores a unihash does
LEMMA InsertUnihashFacts ==
  ASSUME Typed, NEW d \in Tables, NEW t \in Tasks, NEW u \in Unis,
         NEW from \in {"report", "equiv", "upstream"}, InsertUnihash(d, t, u, from)
  PROVE  /\ db' \in Tables /\ rowMark' \in [Tasks -> Marks \cup {None}]
         /\ origin' \in [Tasks -> {"none", "report", "equiv", "upstream", "forgotten"}]
         /\ kept' \subseteq Tasks /\ mark' = mark
         /\ db'.rows = d.rows
         /\ db'.uni[t] # None
         /\ \A s \in Tasks : s # t \/ d.uni[t] # None =>
              /\ db'.uni[s] = d.uni[s] /\ rowMark'[s] = rowMark[s] /\ origin'[s] = origin[s]
              /\ s \in kept' => s \in kept
         /\ d.uni[t] = None =>
              /\ db'.uni[t] = u /\ rowMark'[t] = mark
              /\ origin'[t] = IF origin[t] = "forgotten" THEN "forgotten" ELSE from
         /\ \A s \in Tasks : origin[s] = "forgotten" <=> origin'[s] = "forgotten"
  <1>1. None \notin Unis
    BY NoneAssumption
  <1>2. CASE d.uni[t] = None
    BY <1>1, <1>2 DEF InsertUnihash, Typed, Tables
  <1>3. CASE d.uni[t] # None
    BY <1>1, <1>3 DEF InsertUnihash, Typed, Tables
  <1> QED BY <1>2, <1>3

LEMMA TellType ==
  ASSUME Typed, NEW t \in Tasks, NEW u \in Unis \cup {None}, Tell(t, u)
  PROVE  told' \in [Tasks -> SUBSET Unis]
  BY DEF Tell, Typed

ConnTyped ==
  /\ conn \in [Conns -> Handler \cup {Idle}]
  /\ \A c \in Conns : conn[c] # Idle => Awaiting(conn[c])

LEMMA ConnType ==
  ASSUME Typed, NEW c \in Conns, NEW k \in Handler \cup {Idle}, k # Idle => Awaiting(k),
         conn' = [conn EXCEPT ![c] = k]
  PROVE  ConnTyped'
  BY DEF Typed, ConnTyped

LEMMA SuspendType ==
  ASSUME Typed, NEW c \in Conns, NEW op \in {"insert", "outhash", "get", "report", "getall", "stream"},
         NEW t \in Tasks \cup {None}, NEW o \in Outs \cup {None}, NEW own \in Unis \cup {None},
         op # "outhash" => t \in Tasks, op = "insert" => own \in Unis,
         conn' = [conn EXCEPT ![c] = Suspended(op, t, o, own)]
  PROVE  ConnTyped'
  <1>1. Suspended(op, t, o, own) \in Handler
    BY DEF Suspended, Handler
  <1>2. Awaiting(Suspended(op, t, o, own))
    BY DEF Suspended, Awaiting
  <1> QED BY <1>1, <1>2, ConnType

LEMMA GetUnihashType ==
  ASSUME Typed, NEW c \in Conns, NEW op \in {"get", "report", "stream"}, NEW t \in Tasks,
         NEW own \in Unis \cup {None}, GetUnihash(c, op, t, own)
  PROVE  ConnTyped' /\ told' \in [Tasks -> SUBSET Unis]
  <1>1. CASE UNCHANGED conn
    <2>1. db.uni[t] \in Unis \cup {None}
      BY DEF Typed, Tables
    <2>2. ConnTyped'
      BY <1>1 DEF Typed, ConnTyped
    <2>3. CASE Tell(t, db.uni[t]) \/ Tell(t, own)
      BY <2>1, <2>2, <2>3, TellType
    <2>4. CASE Silent
      BY <2>2, <2>4 DEF Silent, Typed
    <2> QED BY <1>1, <2>3, <2>4 DEF GetUnihash
  <1>2. CASE conn' = [conn EXCEPT ![c] = Suspended(op, t, None, own)] /\ Silent
    BY <1>2, SuspendType DEF Silent, Typed
  <1> QED BY <1>1, <1>2 DEF GetUnihash

LEMMA ReportType ==
  ASSUME Typed, NEW c \in Conns, NEW t \in Tasks, NEW o \in Outs, NEW u \in Unis, Report(c, t, o, u)
  PROVE  Typed'
  <1>1. CASE GetUnihash(c, "report", t, u)
    <2>1. Unstored
      BY <1>1 DEF GetUnihash
    <2>2. ConnTyped' /\ told' \in [Tasks -> SUBSET Unis]
      BY <1>1, GetUnihashType
    <2> QED BY <2>1, <2>2 DEF Report, Elsewhere, Unstored, tables, Typed, ConnTyped
  <1>2. ASSUME NEW n \in Places(db.rows, LocalRow(t, o)),
               NEW d, d = [db EXCEPT !.rows = InsertRow(@, LocalRow(t, o), n)],
               NEW e, e = Equivalent(d, t, o),
               \/ /\ e # None \/ ~hasUpstream
                  /\ InsertUnihash(d, t, IF e # None THEN e ELSE u, "report")
                  /\ Tell(t, db'.uni[t]) /\ UNCHANGED conn
               \/ /\ e = None /\ hasUpstream
                  /\ db' = d /\ UNCHANGED <<rowMark, mark, kept, origin>>
                  /\ conn' = [conn EXCEPT ![c] = Suspended("insert", t, o, u)]
                  /\ Silent
        PROVE  Typed'
    <2>1. d \in Tables
      <3>1. LocalRow(t, o) \in [task : Tasks, out : Outs, day : Nat, remote : BOOLEAN]
        BY DEF LocalRow, Typed
      <3>2. n \in Nat
        BY DEF Places
      <3> QED BY <1>2, <3>1, <3>2, InsertRowTables DEF Typed
    <2>2. e \in Unis \cup {None}
      BY <1>2, <2>1, EquivalentType
    <2>3. CASE InsertUnihash(d, t, IF e # None THEN e ELSE u, "report")
                 /\ Tell(t, db'.uni[t]) /\ UNCHANGED conn
      <3> DEFINE v == IF e # None THEN e ELSE u
      <3>1. v \in Unis
        BY <2>2
      <3> HIDE DEF v
      <3>2. InsertUnihash(d, t, v, "report")
        BY <2>3 DEF v
      <3>3. /\ db' \in Tables /\ rowMark' \in [Tasks -> Marks \cup {None}]
            /\ origin' \in [Tasks -> {"none", "report", "equiv", "upstream", "forgotten"}]
            /\ kept' \subseteq Tasks /\ mark' = mark
        BY <2>1, <3>1, <3>2, InsertUnihashFacts
      <3>4. db'.uni[t] \in Unis \cup {None}
        BY <3>3 DEF Tables
      <3>5. told' \in [Tasks -> SUBSET Unis]
        BY <2>3, <3>4, TellType
      <3> QED BY <2>3, <3>3, <3>5 DEF Report, Elsewhere, Typed
    <2>4. CASE /\ db' = d /\ UNCHANGED <<rowMark, mark, kept, origin>>
               /\ conn' = [conn EXCEPT ![c] = Suspended("insert", t, o, u)]
               /\ Silent
      <3>1. ConnTyped'
        BY <2>4, SuspendType
      <3> QED BY <2>1, <2>4, <3>1 DEF Report, Elsewhere, Typed, ConnTyped, Silent
    <2> QED BY <1>2, <2>3, <2>4
  <1>3. CASE ~GetUnihash(c, "report", t, u)
    <2>1. PICK n \in Places(db.rows, LocalRow(t, o)) :
            LET d == [db EXCEPT !.rows = InsertRow(@, LocalRow(t, o), n)]
                e == Equivalent(d, t, o) IN
            \/ /\ e # None \/ ~hasUpstream
               /\ InsertUnihash(d, t, IF e # None THEN e ELSE u, "report")
               /\ Tell(t, db'.uni[t]) /\ UNCHANGED conn
            \/ /\ e = None /\ hasUpstream
               /\ db' = d /\ UNCHANGED <<rowMark, mark, kept, origin>>
               /\ conn' = [conn EXCEPT ![c] = Suspended("insert", t, o, u)]
               /\ Silent
      BY <1>3 DEF Report
    <2> QED BY <1>2, <2>1
  <1> QED BY <1>1, <1>3

LEMMA RequestType ==
  ASSUME Typed, Request
  PROVE  Typed'
  <1>1. ASSUME NEW c \in Conns, NEW o \in Outs, NEW w \in BOOLEAN, GetOuthash(c, o, w)
        PROVE  Typed'
    <2>1. ConnTyped'
      BY <1>1, SuspendType DEF GetOuthash
    <2> QED BY <1>1, <2>1
            DEF GetOuthash, Elsewhere, Unstored, Silent, tables, Typed, ConnTyped
  <1>2. ASSUME NEW c \in Conns, NEW t \in Tasks, NEW op \in {"get", "stream"},
               GetUnihash(c, op, t, None), Elsewhere
        PROVE  Typed'
    <2>1. Unstored
      BY <1>2 DEF GetUnihash
    <2>2. ConnTyped' /\ told' \in [Tasks -> SUBSET Unis]
      BY <1>2, GetUnihashType
    <2> QED BY <1>2, <2>1, <2>2 DEF Elsewhere, Unstored, tables, Typed, ConnTyped
  <1>3. ASSUME NEW c \in Conns, NEW t \in Tasks, GetAll(c, t)
        PROVE  Typed'
    <2>1. db.uni[t] \in Unis \cup {None}
      BY DEF Typed, Tables
    <2>2. ConnTyped' /\ told' \in [Tasks -> SUBSET Unis]
      <3>1. CASE UNCHANGED conn /\ (Tell(t, db.uni[t]) \/ Tell(t, None))
        BY <2>1, <3>1, TellType DEF Typed, ConnTyped
      <3>2. CASE conn' = [conn EXCEPT ![c] = Suspended("getall", t, None, None)] /\ Silent
        BY <3>2, SuspendType DEF Silent, Typed
      <3> QED BY <1>3, <3>1, <3>2 DEF GetAll
    <2> QED BY <1>3, <2>2 DEF GetAll, Elsewhere, Unstored, tables, Typed, ConnTyped
  <1>4. ASSUME NEW c \in Conns, NEW t \in Tasks, NEW u \in Unis, EquivReport(c, t, u)
        PROVE  Typed'
    <2>1. /\ db' \in Tables /\ rowMark' \in [Tasks -> Marks \cup {None}]
          /\ origin' \in [Tasks -> {"none", "report", "equiv", "upstream", "forgotten"}]
          /\ kept' \subseteq Tasks /\ mark' = mark
      BY <1>4, InsertUnihashFacts DEF EquivReport, Typed
    <2>2. db'.uni[t] \in Unis \cup {None}
      BY <2>1 DEF Tables
    <2>3. told' \in [Tasks -> SUBSET Unis]
      BY <1>4, <2>2, TellType DEF EquivReport
    <2> QED BY <1>4, <2>1, <2>3 DEF EquivReport, Elsewhere, Typed
  <1> QED BY <1>1, <1>2, <1>3, <1>4, ReportType DEF Request, Get, GetStream

\* What the upstream server answers is what its table holds.
UpstreamHolds(k) ==
  k.got # None => /\ k.got.uni = up.uni[k.got.task]
                  /\ k.op \in {"get", "report", "getall", "stream"} => k.got.task = k.task

LEMMA UpstreamDataFacts ==
  ASSUME Typed, NEW k \in Handler, Awaiting(k), UpstreamData(k) # None
  PROVE  /\ UpstreamData(k) \in Answer
         /\ UpstreamData(k).uni = up.uni[UpstreamData(k).task]
         /\ k.op \in {"get", "report", "getall", "stream"} => UpstreamData(k).task = k.task
         /\ k.op \in {"getall", "outhash"} => UpstreamData(k).out \in Outs
  <1> DEFINE Of(R) ==
               IF Known(up, R) = {} THEN None
               ELSE LET r == Oldest(Known(up, R))
                    IN [task |-> r.task, out |-> r.out, day |-> r.day, uni |-> up.uni[r.task]]
  <1>1. ASSUME NEW R \in SUBSET up.rows, Of(R) # None
        PROVE  /\ Of(R) \in Answer /\ Of(R).uni = up.uni[Of(R).task] /\ Of(R).out \in Outs
               /\ \E r \in R : Of(R).task = r.task
    <2> DEFINE r == Oldest(Known(up, R))
    <2>1. Known(up, R) \subseteq R /\ R \subseteq Row
      BY DEF Known, Typed, Tables, FiniteRows
    <2>2. r \in Known(up, R)
      BY <1>1, <2>1, OldestFirst DEF Row
    <2>3. r \in R /\ r \in Row /\ up.uni[r.task] \in Unis
      BY <2>1, <2>2 DEF Known, Typed, Tables, Row
    <2>4. Of(R) = [task |-> r.task, out |-> r.out, day |-> r.day, uni |-> up.uni[r.task]]
      BY <1>1
    <2> HIDE DEF r, Of
    <2> QED BY <2>3, <2>4 DEF Answer, Row
  <1>2. CASE k.op \in {"insert", "outhash"}
    <2>1. UpstreamData(k) = Of(RowsOf(up, k.out)) /\ RowsOf(up, k.out) \subseteq up.rows
      BY <1>2 DEF UpstreamData, RowsOf
    <2> HIDE DEF Of
    <2> QED BY <1>1, <1>2, <2>1
  <1>3. CASE k.op = "getall"
    <2> DEFINE R == {r \in up.rows : r.task = k.task}
    <2>1. UpstreamData(k) = Of(R)
      BY <1>3 DEF UpstreamData
    <2> HIDE DEF Of
    <2> QED BY <1>1, <1>3, <2>1
  <1>4. CASE k.op \notin {"insert", "outhash", "getall"}
    <2>1. k.task \in Tasks /\ k.op # "outhash"
      BY <1>4 DEF Awaiting
    <2>2. UpstreamData(k) = [task |-> k.task, out |-> None, day |-> 0, uni |-> up.uni[k.task]]
          /\ up.uni[k.task] # None
      BY <1>4 DEF UpstreamData
    <2>3. up.uni[k.task] \in Unis
      BY <2>1, <2>2 DEF Typed, Tables
    <2> HIDE DEF Of
    <2>4. UpstreamData(k) \in Answer /\ UpstreamData(k).uni = up.uni[UpstreamData(k).task]
          /\ UpstreamData(k).task = k.task
      BY <2>1, <2>2, <2>3 DEF Answer
    <2> QED BY <1>4, <2>1, <2>4
  <1> QED BY <1>2, <1>3, <1>4

LEMMA AdoptFacts ==
  ASSUME Typed, NEW g \in Answer, g.out \in Outs, Adopt(g)
  PROVE  \E d \in Tables : d.uni = db.uni /\ InsertUnihash(d, g.task, g.uni, "upstream")
  <1>1. CASE InsertUnihash(db, g.task, g.uni, "upstream")
    BY <1>1 DEF Typed, Tables
  <1>2. ASSUME NEW n \in Places(db.rows, RemoteRow(g)),
               InsertUnihash([db EXCEPT !.rows = InsertRow(@, RemoteRow(g), n)],
                             g.task, g.uni, "upstream")
        PROVE  \E d \in Tables : d.uni = db.uni /\ InsertUnihash(d, g.task, g.uni, "upstream")
    <2>1. RemoteRow(g) \in [task : Tasks, out : Outs, day : Nat, remote : BOOLEAN] /\ n \in Nat
      BY DEF RemoteRow, Answer, Places
    <2>2. [db EXCEPT !.rows = InsertRow(@, RemoteRow(g), n)] \in Tables
          /\ [db EXCEPT !.rows = InsertRow(@, RemoteRow(g), n)].uni = db.uni
      BY <2>1, InsertRowTables DEF Typed
    <2> QED BY <1>2, <2>2 DEF Typed, Tables
  <1> QED BY <1>1, <1>2 DEF Adopt

LEMMA ResumeType ==
  ASSUME Typed, NEW c \in Conns, Resume(c)
  PROVE  Typed'
  <1> DEFINE k == conn[c]
  <1>1. k \in Handler /\ k # Idle /\ Awaiting(k)
    BY DEF Resume, Typed
  <1>2. ConnTyped'
    BY ConnType DEF Resume
  <1>3. UNCHANGED <<today, up, worker>>
    BY DEF Resume
  <1> DEFINE Stored == /\ db' \in Tables /\ rowMark' \in [Tasks -> Marks \cup {None}]
                       /\ origin' \in [Tasks -> {"none", "report", "equiv", "upstream", "forgotten"}]
                       /\ kept' \subseteq Tasks /\ mark' = mark
  <1>4. ASSUME NEW d \in Tables, NEW t \in Tasks, NEW u \in Unis,
               NEW from \in {"report", "equiv", "upstream"}, InsertUnihash(d, t, u, from)
        PROVE  Stored
    BY <1>4, InsertUnihashFacts
  <1>5. Unstored => Stored
    BY DEF Unstored, tables, Typed
  <1>6. k.got # None => k.got \in Answer /\ k.got.uni \in Unis /\ k.got.task \in Tasks
    BY <1>1 DEF Handler, Answer
  <1>7. CASE ResumeInsert(k)
    <2>1. k.task \in Tasks /\ k.own \in Unis
      BY <1>1, <1>7 DEF ResumeInsert, Awaiting
    <2>2. Stored
      BY <1>4, <1>6, <1>7, <2>1 DEF ResumeInsert, Typed
    <2>3. db'.uni[k.task] \in Unis \cup {None}
      BY <2>1, <2>2 DEF Tables
    <2>4. told' \in [Tasks -> SUBSET Unis]
      BY <1>7, <2>1, <2>3, TellType DEF ResumeInsert
    <2> QED BY <1>2, <1>3, <1>7, <2>2, <2>4 DEF ResumeInsert, Typed, ConnTyped
  <1>8. CASE ResumeGet(k)
    <2>1. k.task \in Tasks
      BY <1>1, <1>8 DEF ResumeGet, Awaiting
    <2>2. Stored
      BY <1>4, <1>5, <1>6, <1>8, <2>1 DEF ResumeGet, Typed
    <2>3. told' \in [Tasks -> SUBSET Unis]
      BY <1>6, <1>8, <2>1, TellType DEF ResumeGet, Silent, Typed
    <2> QED BY <1>2, <1>3, <1>8, <2>2, <2>3 DEF ResumeGet, Typed, ConnTyped
  <1>9. CASE ResumeGetAll(k)
    <2>1. k.task \in Tasks /\ (k.got # None => k.got.out \in Outs)
      BY <1>1, <1>9 DEF ResumeGetAll, Awaiting
    <2>2. Stored
      <3> HIDE DEF Stored, k
      <3>1. CASE Unstored
        BY <1>5, <3>1
      <3>2. CASE k.got # None /\ Adopt(k.got)
        BY <1>4, <1>6, <2>1, <3>2, AdoptFacts
      <3> QED BY <1>9, <3>1, <3>2 DEF ResumeGetAll
    <2>3. told' \in [Tasks -> SUBSET Unis]
      BY <1>6, <1>9, <2>1, TellType DEF ResumeGetAll, Silent, Typed
    <2> QED BY <1>2, <1>3, <1>9, <2>2, <2>3 DEF ResumeGetAll, Typed, ConnTyped
  <1>10. CASE ResumeOuthash(k)
    <2>1. k.got # None => k.got.out \in Outs
      BY <1>1, <1>10 DEF ResumeOuthash, Awaiting
    <2>2. Stored
      <3> HIDE DEF Stored, k
      <3>1. CASE Unstored
        BY <1>5, <3>1
      <3>2. CASE k.got # None /\ Adopt(k.got)
        BY <1>4, <1>6, <2>1, <3>2, AdoptFacts
      <3> QED BY <1>10, <3>1, <3>2 DEF ResumeOuthash
    <2> QED BY <1>2, <1>3, <1>10, <2>2 DEF ResumeOuthash, Typed, ConnTyped
  <1>11. CASE ResumeStream(k)
    <2>1. k.task \in Tasks
      BY <1>1, <1>11 DEF ResumeStream, Awaiting
    <2>2. Stored
      BY <1>5, <1>11 DEF ResumeStream
    <2>3. told' \in [Tasks -> SUBSET Unis]
      BY <1>6, <1>11, <2>1, TellType DEF ResumeStream
    <2>4. backfill' \in Seq(Tasks)
      BY <1>11, <2>1 DEF ResumeStream, Typed
    <2> QED BY <1>2, <1>3, <2>2, <2>3, <2>4 DEF Typed, ConnTyped
  <1> QED BY <1>7, <1>8, <1>9, <1>10, <1>11 DEF Resume

LEMMA UpstreamType ==
  ASSUME Typed, Upstream
  PROVE  Typed'
  <1>1. ASSUME NEW t \in Tasks, NEW o \in Outs, NEW u \in Unis, UpstreamLearns(t, o, u)
        PROVE  Typed'
    <2> DEFINE n == Cardinality(up.rows) + 1
               d == [up EXCEPT !.rows = InsertRow(@, LocalRow(t, o), Cardinality(@) + 1)]
               e == Equivalent(d, t, o)
    <2>1. LocalRow(t, o) \in [task : Tasks, out : Outs, day : Nat, remote : BOOLEAN]
      BY DEF LocalRow, Typed
    <2>2. d \in Tables
      <3>1. n \in Nat
        BY FS_CardinalityType DEF Typed, Tables, FiniteRows
      <3> QED BY <2>1, <3>1, InsertRowTables DEF Typed
    <2> HIDE DEF d
    <2>3. e \in Unis \cup {None}
      BY <2>2, EquivalentType
    <2>4. up' = IF d.uni[t] # None THEN d
                ELSE [d EXCEPT !.uni[t] = IF e # None THEN e ELSE u]
      BY <1>1 DEF UpstreamLearns, d
    <2> HIDE DEF e
    <2>5. up' \in Tables
      BY <2>2, <2>3, <2>4 DEF Tables
    <2> QED BY <1>1, <2>5 DEF UpstreamLearns, tables, history, Typed
  <1>2. ASSUME NEW c \in Conns, UpstreamAnswers(c)
        PROVE  Typed'
    <2> DEFINE k == conn[c]
               answered == [k EXCEPT !.at = "answered", !.got = UpstreamData(k)]
    <2>1. k \in Handler /\ Awaiting(k)
      BY <1>2 DEF UpstreamAnswers, Typed
    <2>2. UpstreamData(k) \in Answer \cup {None}
      BY <2>1, UpstreamDataFacts
    <2>3. k.op \in {"getall", "outhash"} /\ UpstreamData(k) # None => UpstreamData(k).out \in Outs
      BY <2>1, UpstreamDataFacts
    <2>4. answered \in Handler /\ Awaiting(answered)
      BY <2>1, <2>2, <2>3 DEF Handler, Awaiting
    <2>5. conn' = [conn EXCEPT ![c] = answered]
      BY <1>2 DEF UpstreamAnswers, Typed
    <2>6. ConnTyped'
      BY <2>4, <2>5, ConnType
    <2> QED BY <1>2, <2>6
            DEF UpstreamAnswers, Unstored, Silent, Elsewhere, tables, Typed, ConnTyped
  <1>3. ASSUME NEW c \in Conns, UpstreamFails(c)
        PROVE  Typed'
    <2>1. ConnTyped'
      BY <1>3, ConnType DEF UpstreamFails
    <2> QED BY <1>3, <2>1
            DEF UpstreamFails, Unstored, Silent, Elsewhere, tables, Typed, ConnTyped
  <1> QED BY <1>1, <1>2, <1>3, ResumeType DEF Upstream


\* The place that a row keeps when others are removed
Place(rows, gone, r) == Cardinality({s \in rows \ gone : s.at <= r.at})

LEMMA PlaceType ==
  ASSUME NEW rows \in FiniteRows, NEW gone, NEW r
  PROVE  Place(rows, gone, r) \in Nat
  <1>1. IsFiniteSet({s \in rows \ gone : s.at <= r.at})
    BY FS_Subset DEF FiniteRows
  <1> QED BY <1>1, FS_CardinalityType DEF Place

LEMMA RemoveRowsType ==
  ASSUME NEW rows \in FiniteRows, NEW gone
  PROVE  RemoveRows(rows, gone) \in FiniteRows
  <1> DEFINE f == [r \in rows \ gone |-> At(r, Place(rows, gone, r))]
             kept_rows == {At(r, Place(rows, gone, r)) : r \in rows \ gone}
  <1>1. RemoveRows(rows, gone) = kept_rows
    BY DEF RemoveRows, Place
  <1>2. kept_rows \subseteq Row
    BY PlaceType DEF At, Row, FiniteRows
  <1>3. f \in Surjection(rows \ gone, kept_rows)
    BY DEF Surjection
  <1>4. IsFiniteSet(rows \ gone)
    BY FS_Subset DEF FiniteRows
  <1> HIDE DEF f, kept_rows
  <1> QED BY <1>1, <1>2, <1>3, <1>4, FS_Surjection DEF FiniteRows

LEMMA LoseType ==
  ASSUME Typed, NEW unis \in SUBSET Tasks, NEW rows \in SUBSET db.rows, Lose(unis, rows)
  PROVE  /\ db' \in Tables /\ rowMark' \in [Tasks -> Marks \cup {None}]
         /\ origin' \in [Tasks -> {"none", "report", "equiv", "upstream", "forgotten"}]
         /\ told' \in [Tasks -> SUBSET Unis]
  <1>1. RemoveRows(db.rows, rows) \in FiniteRows
    BY RemoveRowsType DEF Typed, Tables
  <1>2. db' = [uni  |-> [t \in Tasks |-> IF t \in unis THEN None ELSE db.uni[t]],
               rows |-> RemoveRows(db.rows, rows)]
    BY DEF Lose
  <1>3. db' \in Tables
    BY <1>1, <1>2 DEF Typed, Tables
  <1> QED BY <1>3 DEF Lose, Typed

LEMMA AdministerType ==
  ASSUME Typed, Administer
  PROVE  Typed'
  <1>1. ASSUME NEW c \in Conns, NEW w \in Conditions, Remove(c, w)
        PROVE  Typed'
    <2>1. UniMatch(w) \in SUBSET Tasks /\ RowMatch(w) \in SUBSET db.rows
      BY DEF UniMatch, RowMatch
    <2> QED BY <1>1, <2>1, LoseType DEF Remove, Admin, Typed
  <1>2. ASSUME NEW c \in Conns, NEW w \in Conditions, NEW m \in Marks, GcMark(c, m, w)
        PROVE  Typed'
    <2>1. UniMatch(w) \in SUBSET Tasks
      BY DEF UniMatch
    <2> QED BY <1>2, <2>1 DEF GcMark, Admin, Typed
  <1>3. ASSUME NEW c \in Conns, NEW m \in Marks, GcSweep(c, m)
        PROVE  Typed'
    <2>1. Unmarked \in SUBSET Tasks
      BY DEF Unmarked
    <2> QED BY <1>3, <2>1, LoseType DEF GcSweep, Admin, Typed
  <1>4. ASSUME NEW c \in Conns, NEW a \in MaxAges, NEW late \in BOOLEAN, CleanUnused(c, a, late)
        PROVE  Typed'
    <2>1. PICK rows \in SUBSET db.rows : Lose({}, rows)
      BY <1>4 DEF CleanUnused
    <2> QED BY <1>4, <2>1, LoseType DEF CleanUnused, Admin, Typed
  <1> QED BY <1>1, <1>2, <1>3, <1>4 DEF Administer

LEMMA LifeType ==
  ASSUME Typed, Life
  PROVE  Typed'
  <1>1. CASE BackfillTake
    <2>1. Head(backfill) \in Tasks /\ Tail(backfill) \in Seq(Tasks)
      BY <1>1 DEF BackfillTake, Typed
    <2> QED BY <1>1, <2>1 DEF BackfillTake, tables, history, Typed
  <1>2. CASE BackfillStore
    <2>1. CASE Unstored
      BY <1>2, <2>1 DEF BackfillStore, Unstored, tables, Silent, Typed
    <2>2. CASE up.uni[worker] # None /\ InsertUnihash(db, worker, up.uni[worker], "upstream")
      <3>1. worker \in Tasks /\ up.uni[worker] \in Unis
        BY <1>2, <2>2 DEF BackfillStore, Typed, Tables
      <3>2. /\ db' \in Tables /\ rowMark' \in [Tasks -> Marks \cup {None}]
            /\ origin' \in [Tasks -> {"none", "report", "equiv", "upstream", "forgotten"}]
            /\ kept' \subseteq Tasks /\ mark' = mark
        BY <2>2, <3>1, InsertUnihashFacts DEF Typed
      <3> QED BY <1>2, <3>2 DEF BackfillStore, Silent, Typed
    <2> QED BY <1>2, <2>1, <2>2 DEF BackfillStore
  <1>3. CASE Ends
    BY <1>3 DEF Ends, tables, history, Typed
  <1>4. CASE Start
    BY <1>4 DEF Start, tables, history, Typed
  <1>5. CASE Tick
    BY <1>5 DEF Tick, tables, history, Typed
  <1> QED BY <1>1, <1>2, <1>3, <1>4, <1>5 DEF Life, BackfillFails, Stop

\* What is stored, and what is under way, is what the operations say it is.
THEOREM TablesTyped == Spec => []Typed
  <1>1. Init => Typed
    <2> SUFFICES ASSUME Init PROVE Typed
      OBVIOUS
    <2>1. Empty \in Tables
      BY FS_EmptySet DEF Empty, Tables, FiniteRows
    <2> QED BY <2>1 DEF Init, Typed
  <1>2. Typed /\ [Next]_vars => Typed'
    <2>1. CASE UNCHANGED vars
      BY <2>1 DEF vars, tables, history, Typed
    <2> QED BY <2>1, RequestType, AdministerType, UpstreamType, LifeType DEF Next
  <1> QED BY <1>1, <1>2, PTL DEF Spec


-----------------------------------------------------------------------------
(* What a garbage collection keeps *)

\* Outside of administration a step stores at most one unihash, by insert_unihash.
Stores(t, u, from) ==
  \E d \in Tables : d.uni = db.uni /\ InsertUnihash(d, t, u, from)

StoresNothing == db'.uni = db.uni /\ UNCHANGED <<rowMark, mark, kept, origin>>

StoresOne ==
  \E t \in Tasks, u \in Unis, from \in {"report", "equiv", "upstream"} : Stores(t, u, from)

LEMMA ReportStores ==
  ASSUME Typed, NEW c \in Conns, NEW t \in Tasks, NEW o \in Outs, NEW u \in Unis, Report(c, t, o, u)
  PROVE  StoresNothing \/ \E v \in Unis : Stores(t, v, "report")
  <1>1. CASE GetUnihash(c, "report", t, u)
    BY <1>1 DEF GetUnihash, Unstored, tables, StoresNothing
  <1>2. CASE ~GetUnihash(c, "report", t, u)
    <2>1. PICK n \in Places(db.rows, LocalRow(t, o)) :
            LET d == [db EXCEPT !.rows = InsertRow(@, LocalRow(t, o), n)]
                e == Equivalent(d, t, o) IN
            \/ /\ e # None \/ ~hasUpstream
               /\ InsertUnihash(d, t, IF e # None THEN e ELSE u, "report")
            \/ db' = d /\ UNCHANGED <<rowMark, mark, kept, origin>>
      BY <1>2 DEF Report
    <2> DEFINE d == [db EXCEPT !.rows = InsertRow(@, LocalRow(t, o), n)]
               e == Equivalent(d, t, o)
               v == IF e # None THEN e ELSE u
    <2>2. d \in Tables /\ d.uni = db.uni
      <3>1. LocalRow(t, o) \in [task : Tasks, out : Outs, day : Nat, remote : BOOLEAN] /\ n \in Nat
        BY DEF LocalRow, Typed, Places
      <3> QED BY <3>1, InsertRowTables DEF Typed
    <2>3. \/ InsertUnihash(d, t, v, "report")
          \/ db' = d /\ UNCHANGED <<rowMark, mark, kept, origin>>
      BY <2>1
    <2> HIDE DEF d
    <2>4. v \in Unis
      BY <2>2, EquivalentType
    <2> HIDE DEF v
    <2> QED BY <2>2, <2>3, <2>4 DEF Stores, StoresNothing
  <1> QED BY <1>1, <1>2

LEMMA ResumeStores ==
  ASSUME Typed, NEW c \in Conns, Resume(c)
  PROVE  StoresNothing \/ \E u \in Unis, from \in {"report", "upstream"}, t \in Tasks : Stores(t, u, from)
  <1> DEFINE k == conn[c]
  <1>1. k \in Handler /\ k # Idle /\ Awaiting(k)
    BY DEF Resume, Typed
  <1>2. k.got # None => k.got \in Answer /\ k.got.uni \in Unis /\ k.got.task \in Tasks
    BY <1>1 DEF Handler, Answer
  <1>3. ASSUME NEW t \in Tasks, NEW u \in Unis, NEW from, InsertUnihash(db, t, u, from)
        PROVE  Stores(t, u, from)
    BY <1>3 DEF Stores, Typed
  <1>4. ASSUME k.got # None, k.got.out \in Outs, Adopt(k.got)
        PROVE  Stores(k.got.task, k.got.uni, "upstream")
    BY <1>2, <1>4, AdoptFacts DEF Stores
  <1>5. Unstored => StoresNothing
    BY DEF Unstored, tables, StoresNothing
  <1> HIDE DEF k
  <1>6. CASE ResumeInsert(k)
    BY <1>1, <1>2, <1>3, <1>6 DEF ResumeInsert, Awaiting
  <1>7. CASE ResumeGet(k)
    BY <1>1, <1>2, <1>3, <1>5, <1>7 DEF ResumeGet, Awaiting
  <1>8. CASE ResumeGetAll(k)
    BY <1>1, <1>2, <1>4, <1>5, <1>8 DEF ResumeGetAll, Awaiting
  <1>9. CASE ResumeOuthash(k)
    BY <1>1, <1>2, <1>4, <1>5, <1>9 DEF ResumeOuthash, Awaiting
  <1>10. CASE ResumeStream(k)
    BY <1>5, <1>10 DEF ResumeStream
  <1> QED BY <1>6, <1>7, <1>8, <1>9, <1>10 DEF Resume, k

LEMMA BackfillStores ==
  ASSUME Typed, BackfillStore
  PROVE  StoresNothing \/ \E u \in Unis : Stores(worker, u, "upstream")
  <1>1. CASE Unstored
    BY <1>1 DEF Unstored, tables, StoresNothing
  <1>2. CASE up.uni[worker] # None /\ InsertUnihash(db, worker, up.uni[worker], "upstream")
    <2>1. worker \in Tasks /\ up.uni[worker] \in Unis
      BY <1>2 DEF BackfillStore, Typed, Tables
    <2> QED BY <1>2, <2>1 DEF Stores, Typed
  <1> QED BY <1>1, <1>2 DEF BackfillStore

LEMMA ServingStores ==
  ASSUME Typed, Request \/ Upstream \/ Life
  PROVE  StoresNothing \/ StoresOne
  <1>1. CASE Request
    <2>1. ASSUME NEW c \in Conns, NEW t \in Tasks, NEW u \in Unis, EquivReport(c, t, u)
          PROVE  StoresOne
      BY <2>1 DEF EquivReport, StoresOne, Stores, Typed
    <2>2. ASSUME NEW c \in Conns, NEW t \in Tasks, NEW op, GetUnihash(c, op, t, None)
          PROVE  StoresNothing
      BY <2>2 DEF GetUnihash, Unstored, tables, StoresNothing
    <2>3. ASSUME NEW c \in Conns, NEW t \in Tasks, GetAll(c, t)
          PROVE  StoresNothing
      BY <2>3 DEF GetAll, Unstored, tables, StoresNothing
    <2>4. ASSUME NEW c \in Conns, NEW o \in Outs, NEW w \in BOOLEAN, GetOuthash(c, o, w)
          PROVE  StoresNothing
      BY <2>4 DEF GetOuthash, Unstored, tables, StoresNothing
    <2> QED BY <1>1, <2>1, <2>2, <2>3, <2>4, ReportStores DEF Request, Get, GetStream, StoresOne
  <1>2. CASE Upstream
    <2>1. ASSUME NEW t \in Tasks, NEW o \in Outs, NEW u \in Unis, UpstreamLearns(t, o, u)
          PROVE  StoresNothing
      BY <2>1 DEF UpstreamLearns, tables, history, StoresNothing
    <2>2. ASSUME NEW c \in Conns, UpstreamAnswers(c) \/ UpstreamFails(c)
          PROVE  StoresNothing
      BY <2>2 DEF UpstreamAnswers, UpstreamFails, Unstored, tables, StoresNothing
    <2> QED BY <1>2, <2>1, <2>2, ResumeStores DEF Upstream, StoresOne
  <1>3. CASE Life
    <2>1. CASE BackfillStore
      <3>1. worker \in Tasks
        BY <2>1 DEF BackfillStore, Typed
      <3> QED BY <2>1, <3>1, BackfillStores DEF StoresOne
    <2>2. CASE ~BackfillStore
      BY <1>3, <2>2
         DEF Life, BackfillTake, BackfillFails, Ends, Stop, Start, Tick, tables, history, StoresNothing
    <2> QED BY <2>1, <2>2
  <1> QED BY <1>1, <1>2, <1>3

\* An entry that is kept carries the mark of the collection under way.
Marked == \A t \in kept : db.uni[t] # None /\ (mark # None => rowMark[t] = mark)

LEMMA StoringKeepsMarks ==
  ASSUME Typed, Marked, NEW t \in Tasks, NEW u \in Unis, NEW from \in {"report", "equiv", "upstream"},
         Stores(t, u, from)
  PROVE  Marked'
  <1>1. PICK d \in Tables : d.uni = db.uni /\ InsertUnihash(d, t, u, from)
    BY DEF Stores
  <1>2. SUFFICES ASSUME NEW s \in kept'
                 PROVE  db'.uni[s] # None /\ (mark' # None => rowMark'[s] = mark')
    BY DEF Marked
  <1>3. s \in Tasks /\ mark' = mark /\ db'.uni[t] # None
    BY <1>1, InsertUnihashFacts
  <1>4. CASE s # t \/ db.uni[t] # None
    BY <1>1, <1>3, <1>4, InsertUnihashFacts DEF Marked
  <1>5. CASE s = t /\ db.uni[t] = None
    BY <1>1, <1>3, <1>5, InsertUnihashFacts
  <1> QED BY <1>4, <1>5

LEMMA AdministeringKeepsMarks ==
  ASSUME Typed, Marked, Administer
  PROVE  Marked'
  <1>1. ASSUME NEW c \in Conns, NEW w \in Conditions, Remove(c, w)
        PROVE  Marked'
    BY <1>1 DEF Remove, Lose, Marked, Typed
  <1>2. ASSUME NEW c \in Conns, NEW w \in Conditions, NEW m \in Marks, GcMark(c, m, w)
        PROVE  Marked'
    BY <1>2 DEF GcMark, UniMatch, Marked, Typed
  <1>3. ASSUME NEW c \in Conns, NEW m \in Marks, GcSweep(c, m)
        PROVE  Marked'
    <2>1. mark # None /\ mark' = None
      BY <1>3, NoneAssumption DEF GcSweep
    <2>2. \A t \in kept : t \in Tasks /\ t \notin Unmarked
      BY <2>1 DEF Unmarked, Marked, Typed
    <2>3. \A t \in kept : db'.uni[t] = db.uni[t]
      BY <1>3, <2>2 DEF GcSweep, Lose
    <2> QED BY <1>3, <2>1, <2>3 DEF GcSweep, Marked
  <1>4. ASSUME NEW c \in Conns, NEW a \in MaxAges, NEW late \in BOOLEAN, CleanUnused(c, a, late)
        PROVE  Marked'
    <2>1. \E rows : Lose({}, rows)
      BY <1>4 DEF CleanUnused
    <2>2. \A t \in kept : t \in Tasks
      BY DEF Typed
    <2>3. \A t \in Tasks : db'.uni[t] = db.uni[t] /\ rowMark'[t] = rowMark[t]
      BY <2>1 DEF Lose
    <2> QED BY <1>4, <2>2, <2>3 DEF CleanUnused, Marked
  <1> QED BY <1>1, <1>2, <1>3, <1>4 DEF Administer

\* gc_sweep spares every entry that this collection has marked, and every one
\* that was added since it began, whatever is reported, removed by name, marked
\* again or swept in between (gc_mark, gc_sweep, insert_unihash).
THEOREM CollectionsSpareTheMarked == Spec => []SweepKeepsMarked
  <1>1. Init => Marked
    BY DEF Init, Marked
  <1>2. Typed /\ Marked /\ [Next]_vars => Marked'
    <2> SUFFICES ASSUME Typed, Marked, [Next]_vars PROVE Marked'
      OBVIOUS
    <2>1. StoresNothing => Marked'
      BY DEF StoresNothing, Marked
    <2>2. CASE UNCHANGED vars
      BY <2>1, <2>2 DEF vars, tables, history, StoresNothing
    <2>3. CASE Request \/ Upstream \/ Life
      BY <2>1, <2>3, ServingStores, StoringKeepsMarks DEF StoresOne
    <2> QED BY <2>2, <2>3, AdministeringKeepsMarks DEF Next
  <1>3. Marked => SweepKeepsMarked
    <2> SUFFICES ASSUME Marked, NEW t \in Tasks, t \in kept PROVE db.uni[t] # None
      BY DEF SweepKeepsMarked, Marked
    <2> QED BY DEF Marked
  <1> QED BY <1>1, <1>2, <1>3, TablesTyped, PTL DEF Spec


-----------------------------------------------------------------------------
(* Where the answers come from *)

\* What handlers were answered is what the upstream server still holds.
Holding == \A c \in Conns : conn[c] # Idle => UpstreamHolds(conn[c])

\* Without an upstream server, a task that was reported has an entry as long as
\* nothing about it is removed.
Entered ==
  ~hasUpstream =>
    \A r \in db.rows : db.uni[r.task] # None \/ origin[r.task] = "forgotten"

Sourced == AnswersHaveASource /\ Holding /\ Entered

\* A step that answers at most with what a table then holds, and takes no entry back
TruthTold ==
  \A s \in Tasks : told'[s] \subseteq told[s] \cup {db'.uni[s], up'.uni[s]}
NothingLost ==
  \A s \in Tasks : /\ db.uni[s] # None => db'.uni[s] = db.uni[s]
                   /\ up.uni[s] # None => up'.uni[s] = up.uni[s]

LEMMA TruthIsSourced ==
  ASSUME Typed, AnswersHaveASource, TruthTold, NothingLost
  PROVE  AnswersHaveASource'
  <1> SUFFICES ASSUME NEW s \in Tasks, NEW u \in told'[s]
               PROVE  u \in {db'.uni[s], up'.uni[s]}
    BY DEF AnswersHaveASource
  <1>1. CASE u \in told[s]
    <2>1. u \in {db.uni[s], up.uni[s]} /\ u # None
      BY <1>1, NoneAssumption DEF AnswersHaveASource, Typed
    <2> QED BY <2>1 DEF NothingLost
  <1> QED BY <1>1 DEF TruthTold

LEMMA TellTruth ==
  ASSUME Typed, NEW t \in Tasks, NEW u, Tell(t, u),
         u = None \/ origin'[t] = "forgotten" \/ u \in {db'.uni[t], up'.uni[t]}
  PROVE  TruthTold
  BY DEF Tell, TruthTold, Typed

LEMMA SilenceIsTrue ==
  ASSUME Silent
  PROVE  TruthTold
  BY DEF Silent, TruthTold

LEMMA StoringLosesNothing ==
  ASSUME Typed, StoresNothing \/ StoresOne, UNCHANGED up
  PROVE  NothingLost
  <1>1. CASE StoresNothing
    BY <1>1 DEF StoresNothing, NothingLost
  <1>2. ASSUME NEW t \in Tasks, NEW u \in Unis, NEW from \in {"report", "equiv", "upstream"},
               Stores(t, u, from)
        PROVE  NothingLost
    <2>1. PICK d \in Tables : d.uni = db.uni /\ InsertUnihash(d, t, u, from)
      BY <1>2 DEF Stores
    <2>2. \A s \in Tasks : s # t \/ d.uni[t] # None => db'.uni[s] = d.uni[s]
      BY <2>1, InsertUnihashFacts
    <2> QED BY <2>1, <2>2 DEF NothingLost
  <1> QED BY <1>1, <1>2 DEF StoresOne

LEMMA GetUnihashTruth ==
  ASSUME Typed, NEW c \in Conns, NEW op, NEW t \in Tasks, NEW own, GetUnihash(c, op, t, own),
         own = None \/ (~hasUpstream => db.uni[t] # None \/ origin[t] = "forgotten")
  PROVE  TruthTold
  <1>1. db' = db /\ origin' = origin
    BY DEF GetUnihash, Unstored, tables
  <1>2. CASE db.uni[t] # None /\ Tell(t, db.uni[t])
    BY <1>1, <1>2, TellTruth
  <1>3. CASE db.uni[t] = None /\ ~hasUpstream /\ Tell(t, own)
    BY <1>1, <1>3, TellTruth
  <1>4. CASE Silent
    BY <1>4, SilenceIsTrue
  <1> QED BY <1>2, <1>3, <1>4 DEF GetUnihash

LEMMA ReportTruth ==
  ASSUME Typed, Entered, NEW c \in Conns, NEW t \in Tasks, NEW o \in Outs, NEW u \in Unis,
         Report(c, t, o, u)
  PROVE  TruthTold
  <1>1. CASE HasRow(db, t, o)
    <2>1. ~hasUpstream => db.uni[t] # None \/ origin[t] = "forgotten"
      BY <1>1 DEF Entered, HasRow, RowsOf
    <2> QED BY <1>1, <2>1, GetUnihashTruth DEF Report
  <1>2. CASE ~HasRow(db, t, o)
    <2>1. Tell(t, db'.uni[t]) \/ Silent
      BY <1>2 DEF Report
    <2> QED BY <2>1, TellTruth, SilenceIsTrue
  <1> QED BY <1>1, <1>2

LEMMA ResumeTruth ==
  ASSUME Typed, Holding, NEW c \in Conns, Resume(c)
  PROVE  TruthTold
  <1> DEFINE k == conn[c]
  <1>1. k \in Handler /\ k # Idle /\ Awaiting(k) /\ UpstreamHolds(k) /\ up' = up
    BY DEF Resume, Typed, Holding
  <1> HIDE DEF k
  <1>2. CASE ResumeInsert(k)
    BY <1>1, <1>2, TellTruth DEF ResumeInsert, Awaiting
  <1>3. CASE k.op \in {"get", "report", "getall", "stream"}
             /\ (Silent \/ Tell(k.task, None) \/ (k.got # None /\ Tell(k.task, k.got.uni)))
    BY <1>1, <1>3, TellTruth, SilenceIsTrue DEF Awaiting, UpstreamHolds
  <1>4. CASE ResumeOuthash(k)
    BY <1>4, SilenceIsTrue DEF ResumeOuthash, Silent
  <1> QED BY <1>2, <1>3, <1>4 DEF Resume, ResumeGet, ResumeGetAll, ResumeStream, k

LEMMA RequestTruth ==
  ASSUME Typed, Entered, Request
  PROVE  TruthTold
  <1>1. ASSUME NEW c \in Conns, NEW o \in Outs, NEW w \in BOOLEAN, GetOuthash(c, o, w)
        PROVE  TruthTold
    BY <1>1, SilenceIsTrue DEF GetOuthash
  <1>2. ASSUME NEW c \in Conns, NEW t \in Tasks, NEW op, GetUnihash(c, op, t, None)
        PROVE  TruthTold
    BY <1>2, GetUnihashTruth
  <1>3. ASSUME NEW c \in Conns, NEW t \in Tasks, GetAll(c, t)
        PROVE  TruthTold
    <2>1. db' = db
      BY <1>3 DEF GetAll, Unstored, tables
    <2>2. Tell(t, db'.uni[t]) \/ Tell(t, None) \/ Silent
      BY <1>3, <2>1 DEF GetAll
    <2> QED BY <2>2, TellTruth, SilenceIsTrue
  <1>4. ASSUME NEW c \in Conns, NEW t \in Tasks, NEW u \in Unis, EquivReport(c, t, u)
        PROVE  TruthTold
    BY <1>4, TellTruth DEF EquivReport
  <1> QED BY <1>1, <1>2, <1>3, <1>4, ReportTruth DEF Request, Get, GetStream

LEMMA UpstreamKeeps ==
  ASSUME Typed, NEW t \in Tasks, NEW o \in Outs, NEW u \in Unis, UpstreamLearns(t, o, u)
  PROVE  \A s \in Tasks : up.uni[s] # None => up'.uni[s] = up.uni[s]
  <1> DEFINE d == [up EXCEPT !.rows = InsertRow(@, LocalRow(t, o), Cardinality(@) + 1)]
             e == Equivalent(d, t, o)
  <1>1. up' = IF d.uni[t] # None THEN d ELSE [d EXCEPT !.uni[t] = IF e # None THEN e ELSE u]
    BY DEF UpstreamLearns
  <1> HIDE DEF e
  <1>2. d.uni = up.uni /\ up.uni \in [Tasks -> Unis \cup {None}]
        /\ DOMAIN d = {"uni", "rows"}
    BY DEF Typed, Tables
  <1> HIDE DEF d
  <1>3. CASE up.uni[t] # None
    BY <1>1, <1>2, <1>3
  <1>4. CASE up.uni[t] = None
    <2>1. up'.uni = [d.uni EXCEPT ![t] = IF e # None THEN e ELSE u]
      BY <1>1, <1>2, <1>4
    <2> QED BY <1>2, <1>4, <2>1
  <1> QED BY <1>3, <1>4

LEMMA ServingIsSourced ==
  ASSUME Typed, Sourced, Request \/ Upstream \/ Life
  PROVE  AnswersHaveASource'
  <1>1. StoresNothing \/ StoresOne
    BY ServingStores
  <1>2. CASE Request
    <2>1. UNCHANGED up
      BY <1>2 DEF Request, Report, GetOuthash, Get, GetAll, GetStream, EquivReport, Elsewhere
    <2> QED BY <1>1, <1>2, <2>1, StoringLosesNothing, RequestTruth, TruthIsSourced DEF Sourced
  <1>3. CASE Upstream
    <2>1. ASSUME NEW t \in Tasks, NEW o \in Outs, NEW u \in Unis, UpstreamLearns(t, o, u)
          PROVE  AnswersHaveASource'
      <3>1. db' = db /\ Silent
        BY <2>1 DEF UpstreamLearns, tables, history, Silent
      <3>2. NothingLost
        BY <2>1, <3>1, UpstreamKeeps DEF NothingLost
      <3> QED BY <3>1, <3>2, SilenceIsTrue, TruthIsSourced DEF Sourced
    <2>2. ASSUME NEW c \in Conns, UpstreamAnswers(c) \/ UpstreamFails(c)
          PROVE  AnswersHaveASource'
      <3>1. UNCHANGED up /\ Silent
        BY <2>2 DEF UpstreamAnswers, UpstreamFails, Elsewhere
      <3> QED BY <1>1, <3>1, StoringLosesNothing, SilenceIsTrue, TruthIsSourced DEF Sourced
    <2>3. ASSUME NEW c \in Conns, Resume(c)
          PROVE  AnswersHaveASource'
      <3>1. UNCHANGED up
        BY <2>3 DEF Resume
      <3> QED BY <1>1, <2>3, <3>1, StoringLosesNothing, ResumeTruth, TruthIsSourced DEF Sourced
    <2> QED BY <1>3, <2>1, <2>2, <2>3 DEF Upstream
  <1>4. CASE Life
    <2>1. UNCHANGED up /\ Silent
      BY <1>4 DEF Life, BackfillTake, BackfillStore, BackfillFails, Ends, Stop, Start, Tick,
                  history, Silent
    <2> QED BY <1>1, <2>1, StoringLosesNothing, SilenceIsTrue, TruthIsSourced DEF Sourced
  <1> QED BY <1>2, <1>3, <1>4


LEMMA LosingIsSourced ==
  ASSUME Typed, AnswersHaveASource, NEW unis \in SUBSET Tasks, NEW rows, Lose(unis, rows), UNCHANGED up
  PROVE  AnswersHaveASource'
  <1> SUFFICES ASSUME NEW s \in Tasks, told'[s] # {}
               PROVE  told'[s] \subseteq {db'.uni[s], up'.uni[s]}
    BY DEF AnswersHaveASource
  <1>1. told'[s] = told[s] /\ s \notin unis
    BY DEF Lose
  <1>2. db'.uni[s] = db.uni[s]
    BY <1>1 DEF Lose
  <1> QED BY <1>1, <1>2 DEF AnswersHaveASource

LEMMA AdministeringIsSourced ==
  ASSUME Typed, AnswersHaveASource, Administer
  PROVE  AnswersHaveASource'
  <1>1. UNCHANGED up
    BY DEF Administer, Remove, GcMark, GcSweep, CleanUnused, Admin
  <1>2. ASSUME NEW w, UniMatch(w) \in SUBSET Tasks, Lose(UniMatch(w), RowMatch(w))
        PROVE  AnswersHaveASource'
    BY <1>1, <1>2, LosingIsSourced
  <1>3. UNCHANGED <<db, told>> => AnswersHaveASource'
    BY <1>1 DEF AnswersHaveASource
  <1>4. ASSUME NEW m, NEW c, GcSweep(c, m) PROVE AnswersHaveASource'
    <2>1. Unmarked \in SUBSET Tasks /\ Lose(Unmarked, {})
      BY <1>4 DEF GcSweep, Unmarked
    <2> QED BY <1>1, <2>1, LosingIsSourced
  <1>5. ASSUME NEW a, NEW c, NEW late, CleanUnused(c, a, late) PROVE AnswersHaveASource'
    <2>1. PICK rows : Lose({}, rows)
      BY <1>5 DEF CleanUnused
    <2> QED BY <1>1, <2>1, LosingIsSourced
  <1>6. \A w : UniMatch(w) \in SUBSET Tasks
    BY DEF UniMatch
  <1>7. ASSUME NEW c, NEW w, Remove(c, w) PROVE AnswersHaveASource'
    BY <1>2, <1>6, <1>7 DEF Remove
  <1>8. ASSUME NEW c, NEW w, NEW m, GcMark(c, m, w) PROVE AnswersHaveASource'
    BY <1>3, <1>8 DEF GcMark
  <1> QED BY <1>4, <1>5, <1>7, <1>8 DEF Administer

LEMMA HoldingKept ==
  ASSUME Typed, Holding, Next
  PROVE  Holding'
  <1>1. ASSUME NEW c \in Conns, NEW k, conn' = [conn EXCEPT ![c] = k], UNCHANGED up,
               k = Idle \/ k.got = None
        PROVE  Holding'
    <2> SUFFICES ASSUME NEW x \in Conns, conn'[x] # Idle PROVE UpstreamHolds(conn[x])'
      BY DEF Holding
    <2>1. CASE x = c
      <3>1. conn'[x] = k
        BY <1>1, <2>1 DEF Typed
      <3> QED BY <1>1, <3>1 DEF UpstreamHolds
    <2>2. CASE x # c
      <3>1. conn'[x] = conn[x]
        BY <1>1, <2>2 DEF Typed
      <3> QED BY <1>1, <3>1 DEF UpstreamHolds, Holding
    <2> QED BY <2>1, <2>2
  <1>2. UNCHANGED <<conn, up>> => Holding'
    BY DEF Holding, UpstreamHolds
  <1>3. \A op, t, o, own : Suspended(op, t, o, own).got = None
    BY DEF Suspended
  <1>4. CASE Request
    <2>1. ASSUME NEW c \in Conns, NEW op, NEW t, NEW own, GetUnihash(c, op, t, own), UNCHANGED up
          PROVE  Holding'
      <3>1. CASE UNCHANGED conn
        BY <1>2, <2>1, <3>1
      <3>2. CASE conn' = [conn EXCEPT ![c] = Suspended(op, t, None, own)]
        BY <1>1, <1>3, <2>1, <3>2
      <3> QED BY <2>1, <3>1, <3>2 DEF GetUnihash
    <2>2. ASSUME NEW c \in Conns, NEW t \in Tasks, NEW o \in Outs, NEW u \in Unis, Report(c, t, o, u)
          PROVE  Holding'
      <3>1. UNCHANGED up
        BY <2>2 DEF Report, Elsewhere
      <3>2. CASE UNCHANGED conn
        BY <1>2, <3>1, <3>2
      <3>3. CASE conn' = [conn EXCEPT ![c] = Suspended("insert", t, o, u)]
        BY <1>1, <1>3, <3>1, <3>3
      <3> QED BY <2>1, <2>2, <3>1, <3>2, <3>3 DEF Report
    <2>3. ASSUME NEW c \in Conns, NEW o \in Outs, NEW w \in BOOLEAN, GetOuthash(c, o, w)
          PROVE  Holding'
      <3>1. UNCHANGED up /\ conn' = [conn EXCEPT ![c] = Suspended("outhash", None, o, None)]
        BY <2>3 DEF GetOuthash, Elsewhere
      <3>2. PICK k : k = Suspended("outhash", None, o, None)
        OBVIOUS
      <3>3. k.got = None
        BY <3>2 DEF Suspended
      <3> QED BY <1>1, <3>1, <3>2, <3>3
    <2>4. ASSUME NEW c \in Conns, NEW t \in Tasks, GetAll(c, t)
          PROVE  Holding'
      <3>1. UNCHANGED up
        BY <2>4 DEF GetAll, Elsewhere
      <3>2. CASE UNCHANGED conn
        BY <1>2, <3>1, <3>2
      <3>3. CASE conn' = [conn EXCEPT ![c] = Suspended("getall", t, None, None)]
        <4>1. PICK k : k = Suspended("getall", t, None, None)
          OBVIOUS
        <4>2. k.got = None
          BY <4>1 DEF Suspended
        <4> QED BY <1>1, <3>1, <3>3, <4>1, <4>2
      <3> QED BY <2>4, <3>2, <3>3 DEF GetAll
    <2>5. ASSUME NEW c \in Conns, NEW t \in Tasks, NEW u \in Unis, EquivReport(c, t, u)
          PROVE  Holding'
      BY <1>2, <2>5 DEF EquivReport, Elsewhere
    <2> QED BY <1>4, <2>1, <2>2, <2>3, <2>4, <2>5 DEF Request, Get, GetStream, Elsewhere
  <1>5. CASE Administer
    BY <1>2, <1>5 DEF Administer, Remove, GcMark, GcSweep, CleanUnused, Admin
  <1>6. CASE Upstream
    <2>1. ASSUME NEW t \in Tasks, NEW o \in Outs, NEW u \in Unis, UpstreamLearns(t, o, u)
          PROVE  Holding'
      <3> SUFFICES ASSUME NEW x \in Conns, conn[x] # Idle, conn[x].got # None
                   PROVE  UpstreamHolds(conn[x])'
        BY <2>1 DEF UpstreamLearns, Holding, UpstreamHolds
      <3>1. conn[x].got.task \in Tasks /\ conn[x].got.uni \in Unis
        BY DEF Typed, Handler, Answer
      <3>2. up'.uni[conn[x].got.task] = up.uni[conn[x].got.task]
        BY <2>1, <3>1, UpstreamKeeps, NoneAssumption DEF Holding, UpstreamHolds
      <3> QED BY <2>1, <3>2 DEF UpstreamLearns, Holding, UpstreamHolds
    <2>2. ASSUME NEW c \in Conns, UpstreamAnswers(c)
          PROVE  Holding'
      <3>1. PICK k : k = conn[c]
        OBVIOUS
      <3>2. PICK g : g = UpstreamData(k)
        OBVIOUS
      <3>3. k \in Handler /\ Awaiting(k) /\ UNCHANGED up
        BY <2>2, <3>1 DEF UpstreamAnswers, Elsewhere, Typed
      <3>4. PICK answered : answered = [k EXCEPT !.at = "answered", !.got = g]
        OBVIOUS
      <3>5. conn' = [conn EXCEPT ![c] = answered]
        BY <2>2, <3>1, <3>2, <3>4 DEF UpstreamAnswers, Typed
      <3>6. answered.op = k.op /\ answered.task = k.task /\ answered.got = g
        BY <3>3, <3>4 DEF Handler
      <3>7. g # None => /\ g.uni = up.uni[g.task]
                        /\ k.op \in {"get", "report", "getall", "stream"} => g.task = k.task
        BY <3>2, <3>3, UpstreamDataFacts
      <3>8. UpstreamHolds(answered)'
        BY <3>3, <3>6, <3>7 DEF UpstreamHolds
      <3> SUFFICES ASSUME NEW x \in Conns, conn'[x] # Idle PROVE UpstreamHolds(conn[x])'
        BY DEF Holding
      <3>9. CASE x = c
        <4>1. conn'[x] = answered
          BY <3>5, <3>9 DEF Typed
        <4> QED BY <3>8, <4>1 DEF UpstreamHolds
      <3>10. CASE x # c
        <4>1. conn'[x] = conn[x]
          BY <3>5, <3>10 DEF Typed
        <4> QED BY <3>3, <4>1 DEF UpstreamHolds, Holding
      <3> QED BY <3>9, <3>10
    <2>3. ASSUME NEW c \in Conns, UpstreamFails(c) \/ Resume(c)
          PROVE  Holding'
      BY <1>1, <2>3 DEF UpstreamFails, Resume, Elsewhere
    <2> QED BY <1>6, <2>1, <2>2, <2>3 DEF Upstream
  <1>7. CASE Life
    <2>1. UNCHANGED up /\ (UNCHANGED conn \/ conn' = [c \in Conns |-> Idle])
      BY <1>7 DEF Life, BackfillTake, BackfillStore, BackfillFails, Ends, Stop, Start, Tick
    <2>2. conn' = [c \in Conns |-> Idle] => Holding'
      BY DEF Holding
    <2> QED BY <1>2, <2>1, <2>2
  <1> QED BY <1>4, <1>5, <1>6, <1>7 DEF Next

\* A server without upstream waits for nothing
Alone ==
  ~hasUpstream => /\ \A c \in Conns : conn[c] = Idle
                  /\ backfill = <<>> /\ worker = None

LEMMA UpstreamStays ==
  ASSUME Next
  PROVE  hasUpstream' = hasUpstream
  <1>1. CASE Request
    BY <1>1 DEF Request, Report, GetOuthash, Get, GetAll, GetStream, EquivReport, Elsewhere
  <1>2. CASE Administer
    BY <1>2 DEF Administer, Remove, GcMark, GcSweep, CleanUnused, Admin
  <1>3. CASE Upstream
    BY <1>3 DEF Upstream, UpstreamLearns, UpstreamAnswers, UpstreamFails, Resume, Elsewhere
  <1>4. CASE Life
    BY <1>4 DEF Life, BackfillTake, BackfillStore, BackfillFails, Ends, Stop, Start, Tick
  <1> QED BY <1>1, <1>2, <1>3, <1>4 DEF Next

LEMMA AloneKept ==
  ASSUME Typed, Alone, Next
  PROVE  Alone'
  <1> SUFFICES ASSUME ~hasUpstream
               PROVE  Alone'
    BY UpstreamStays DEF Alone
  <1>1. (\A c \in Conns : conn[c] = Idle) /\ backfill = <<>> /\ worker = None
    BY DEF Alone
  <1>2. CASE UNCHANGED <<conn, backfill, worker>>
    BY <1>1, <1>2 DEF Alone
  <1>3. CASE Request
    <2>1. ASSUME NEW c \in Conns, NEW t \in Tasks, NEW o \in Outs, NEW u \in Unis, Report(c, t, o, u)
          PROVE  UNCHANGED conn /\ Elsewhere
      BY <2>1 DEF Report, GetUnihash
    <2>2. ASSUME NEW c \in Conns, NEW t \in Tasks, Get(c, t) \/ GetAll(c, t) \/ GetStream(c, t)
          PROVE  UNCHANGED conn /\ Elsewhere
      BY <2>2 DEF Get, GetAll, GetStream, GetUnihash
    <2>3. ASSUME NEW c \in Conns, NEW t \in Tasks, NEW u \in Unis, EquivReport(c, t, u)
          PROVE  UNCHANGED conn /\ Elsewhere
      BY <2>3 DEF EquivReport
    <2>4. ASSUME NEW c \in Conns, NEW o \in Outs, NEW w \in BOOLEAN, GetOuthash(c, o, w)
          PROVE  FALSE
      BY <2>4 DEF GetOuthash
    <2>5. UNCHANGED conn /\ Elsewhere
      BY <1>3, <2>1, <2>2, <2>3, <2>4 DEF Request
    <2> QED BY <1>2, <2>5 DEF Elsewhere
  <1>4. CASE Administer
    BY <1>2, <1>4 DEF Administer, Remove, GcMark, GcSweep, CleanUnused, Admin
  <1>5. CASE Upstream
    BY <1>1, <1>5 DEF Upstream, UpstreamLearns, UpstreamAnswers, UpstreamFails, Resume
  <1>6. CASE Life
    <2>1. CASE Ends
      BY <2>1 DEF Ends, Alone
    <2> QED BY <1>1, <1>2, <1>6, <2>1
            DEF Life, BackfillTake, BackfillStore, BackfillFails, Stop, Start, Tick
  <1> QED BY <1>3, <1>4, <1>5, <1>6 DEF Next

\* What a report that is stored does, when no other server is asked
Stored(t, o, n, v) ==
  /\ ~HasRow(db, t, o)
  /\ InsertUnihash([db EXCEPT !.rows = InsertRow(@, LocalRow(t, o), n)], t, v, "report")

EquivalentOr(t, o, n, u) ==
  LET e == Equivalent([db EXCEPT !.rows = InsertRow(@, LocalRow(t, o), n)], t, o)
  IN IF e # None THEN e ELSE u

LEMMA AloneServes ==
  ASSUME Typed, Alone, ~hasUpstream, Request \/ Upstream \/ Life
  PROVE  \/ UNCHANGED <<db, rowMark, mark, kept, origin>>
         \/ \E t \in Tasks, o \in Outs, u \in Unis : \E n \in Places(db.rows, LocalRow(t, o)) :
              Stored(t, o, n, EquivalentOr(t, o, n, u))
         \/ \E t \in Tasks, u \in Unis : InsertUnihash(db, t, u, "equiv")
  <1>1. CASE Request
    <2>1. ASSUME NEW c \in Conns, NEW t \in Tasks, NEW o \in Outs, NEW u \in Unis, Report(c, t, o, u)
          PROVE  \/ UNCHANGED <<db, rowMark, mark, kept, origin>>
                 \/ \E n \in Places(db.rows, LocalRow(t, o)) : Stored(t, o, n, EquivalentOr(t, o, n, u))
      BY <2>1 DEF Report, GetUnihash, Unstored, tables, Stored, EquivalentOr
    <2>2. ASSUME NEW c \in Conns, NEW t \in Tasks, NEW u \in Unis, EquivReport(c, t, u)
          PROVE  InsertUnihash(db, t, u, "equiv")
      BY <2>2 DEF EquivReport
    <2>3. ASSUME NEW c \in Conns, NEW t \in Tasks,
                 GetAll(c, t) \/ Get(c, t) \/ GetStream(c, t)
          PROVE  UNCHANGED <<db, rowMark, mark, kept, origin>>
      BY <2>3 DEF GetAll, Get, GetStream, GetUnihash, Unstored, tables
    <2>4. ASSUME NEW c \in Conns, NEW o \in Outs, NEW w \in BOOLEAN, GetOuthash(c, o, w)
          PROVE  UNCHANGED <<db, rowMark, mark, kept, origin>>
      BY <2>4 DEF GetOuthash, Unstored, tables
    <2> QED BY <1>1, <2>1, <2>2, <2>3, <2>4 DEF Request
  <1>2. CASE Upstream
    BY <1>2 DEF Alone, Upstream, UpstreamLearns, UpstreamAnswers, UpstreamFails, Resume
  <1>3. CASE Life
    BY <1>3 DEF Alone, Life, BackfillTake, BackfillStore, BackfillFails, Ends, Stop, Start, Tick,
                tables, history
  <1> QED BY <1>1, <1>2, <1>3

LEMMA StoredFacts ==
  ASSUME Typed, NEW t \in Tasks, NEW o \in Outs, NEW u \in Unis, NEW n \in Places(db.rows, LocalRow(t, o))
  PROVE  LET d == [db EXCEPT !.rows = InsertRow(@, LocalRow(t, o), n)] IN
         /\ d \in Tables /\ d.uni = db.uni /\ d.rows = InsertRow(db.rows, LocalRow(t, o), n)
         /\ EquivalentOr(t, o, n, u) \in Unis
  <1> DEFINE d == [db EXCEPT !.rows = InsertRow(@, LocalRow(t, o), n)]
  <1>1. LocalRow(t, o) \in [task : Tasks, out : Outs, day : Nat, remote : BOOLEAN] /\ n \in Nat
    BY DEF LocalRow, Typed, Places
  <1>2. d \in Tables /\ d.uni = db.uni /\ d.rows = InsertRow(db.rows, LocalRow(t, o), n)
    BY <1>1, InsertRowTables DEF Typed
  <1> HIDE DEF d
  <1>3. Equivalent(d, t, o) \in Unis \cup {None}
    BY <1>2, EquivalentType
  <1>4. EquivalentOr(t, o, n, u) = IF Equivalent(d, t, o) # None THEN Equivalent(d, t, o) ELSE u
    BY DEF EquivalentOr, d
  <1> QED BY <1>2, <1>3, <1>4 DEF d

LEMMA EnteredKept ==
  ASSUME Typed, Alone, Entered, Next
  PROVE  Entered'
  <1>1. hasUpstream' = hasUpstream
    BY UpstreamStays
  <1> SUFFICES ASSUME ~hasUpstream, NEW r \in db'.rows
               PROVE  db'.uni[r.task] # None \/ origin'[r.task] = "forgotten"
    BY <1>1 DEF Entered
  <1>2. CASE UNCHANGED <<db, rowMark, mark, kept, origin>>
    BY <1>2 DEF Entered
  <1>3. ASSUME NEW d \in Tables, d.uni = db.uni, NEW t \in Tasks, NEW u \in Unis,
               NEW from \in {"report", "equiv"}, InsertUnihash(d, t, u, from),
               \A s \in d.rows : s.task = t \/ \E p \in db.rows : p.task = s.task
        PROVE  db'.uni[r.task] # None \/ origin'[r.task] = "forgotten"
    <2>1. /\ db'.rows = d.rows /\ db'.uni[t] # None
          /\ \A s \in Tasks : s # t \/ d.uni[t] # None =>
               db'.uni[s] = d.uni[s] /\ origin'[s] = origin[s]
      BY <1>3, InsertUnihashFacts
    <2>2. r.task \in Tasks
      BY <1>3, <2>1 DEF Tables, FiniteRows, Row
    <2> QED BY <1>3, <2>1, <2>2 DEF Entered
  <1>4. ASSUME NEW t \in Tasks, NEW u \in Unis, InsertUnihash(db, t, u, "equiv")
        PROVE  db'.uni[r.task] # None \/ origin'[r.task] = "forgotten"
    BY <1>3, <1>4 DEF Typed
  <1>5. ASSUME NEW t \in Tasks, NEW o \in Outs, NEW u \in Unis, NEW n \in Places(db.rows, LocalRow(t, o)),
               Stored(t, o, n, EquivalentOr(t, o, n, u))
        PROVE  db'.uni[r.task] # None \/ origin'[r.task] = "forgotten"
    <2> DEFINE d == [db EXCEPT !.rows = InsertRow(@, LocalRow(t, o), n)]
               v == EquivalentOr(t, o, n, u)
    <2>1. d \in Tables /\ d.uni = db.uni /\ d.rows = InsertRow(db.rows, LocalRow(t, o), n) /\ v \in Unis
      BY StoredFacts
    <2>2. InsertUnihash(d, t, v, "report")
      BY <1>5 DEF Stored
    <2>3. \A s \in d.rows : s.task = t \/ \E p \in db.rows : p.task = s.task
      BY <2>1 DEF InsertRow, At, LocalRow
    <2> HIDE DEF d, v
    <2> QED BY <1>3, <2>1, <2>2, <2>3
  <1>6. CASE Administer
    <2>1. ASSUME NEW unis \in SUBSET Tasks, NEW rows \in SUBSET db.rows, Lose(unis, rows)
          PROVE  db'.uni[r.task] # None \/ origin'[r.task] = "forgotten"
      <3>1. r \in RemoveRows(db.rows, rows)
        BY <2>1 DEF Lose
      <3>2. PICK p \in db.rows : p.task = r.task
        <4>1. PICK p \in db.rows : \E n : r = At(p, n)
          BY <3>1 DEF RemoveRows
        <4> QED BY <4>1 DEF At
      <3>3. p.task \in Tasks
        BY DEF Typed, Tables, FiniteRows, Row
      <3>4. CASE p.task \in unis
        BY <2>1, <3>2, <3>3, <3>4 DEF Lose
      <3>5. CASE p.task \notin unis
        <4>1. db'.uni[p.task] = db.uni[p.task]
          BY <2>1, <3>3, <3>5 DEF Lose
        <4>2. origin[p.task] = "forgotten" => origin'[p.task] = "forgotten"
          BY <2>1, <3>3 DEF Lose
        <4> QED BY <3>2, <4>1, <4>2 DEF Entered
      <3> QED BY <3>4, <3>5
    <2>2. ASSUME NEW c, NEW w, Remove(c, w)
          PROVE  UniMatch(w) \in SUBSET Tasks /\ RowMatch(w) \in SUBSET db.rows
                 /\ Lose(UniMatch(w), RowMatch(w))
      BY <2>2 DEF Remove, UniMatch, RowMatch
    <2>3. ASSUME NEW c, NEW m, NEW w, GcMark(c, m, w)
          PROVE  db'.uni[r.task] # None \/ origin'[r.task] = "forgotten"
      BY <2>3 DEF GcMark, Entered
    <2>4. ASSUME NEW c, NEW m, GcSweep(c, m)
          PROVE  Unmarked \in SUBSET Tasks /\ Lose(Unmarked, {})
      BY <2>4 DEF GcSweep, Unmarked
    <2>5. ASSUME NEW c, NEW a, NEW late, CleanUnused(c, a, late)
          PROVE  \E rows \in SUBSET db.rows : Lose({}, rows)
      BY <2>5 DEF CleanUnused
    <2> QED BY <1>6, <2>1, <2>2, <2>3, <2>4, <2>5 DEF Administer
  <1> QED BY <1>2, <1>4, <1>5, <1>6, AloneServes DEF Next

\* Whatever a client was ever told about a task is still in the table or in
\* that of the upstream server, unless something about the task was removed:
\* across suspended handlers, the queue of get-stream, restarts, reports of
\* others meanwhile and collections (get_unihash, handle_report, update_unified,
\* handle_get_stream).
THEOREM AnswersStandBehindEntries == Spec => []AnswersHaveASource
  <1>1. Init => Sourced /\ Alone
    BY DEF Init, Sourced, Alone, AnswersHaveASource, Holding, Entered, Empty
  <1>2. Typed /\ Sourced /\ Alone /\ [Next]_vars => (Sourced /\ Alone)'
    <2> SUFFICES ASSUME Typed, Sourced, Alone, [Next]_vars PROVE (Sourced /\ Alone)'
      OBVIOUS
    <2>1. CASE UNCHANGED vars
      BY <2>1 DEF vars, tables, history, Sourced, Alone, AnswersHaveASource, Holding, UpstreamHolds,
                  Entered
    <2>2. CASE Next
      <3>1. AnswersHaveASource'
        BY <2>2, ServingIsSourced, AdministeringIsSourced DEF Next, Sourced
      <3> QED BY <2>2, <3>1, HoldingKept, EnteredKept, AloneKept DEF Sourced
    <2> QED BY <2>1, <2>2
  <1>3. Sourced => AnswersHaveASource
    BY DEF Sourced
  <1> QED BY <1>1, <1>2, <1>3, TablesTyped, PTL DEF Spec


-----------------------------------------------------------------------------
(* Equal outputs *)

\* The rows of a server without upstream are its own and of no later day, each
\* at a place of its own.
Ordered ==
  /\ \A r \in db.rows : ~r.remote /\ r.day <= today
  /\ \A r, s \in db.rows : r.at = s.at => r = s

\* Every task that was reported with an output of which nothing was removed has
\* an entry, and the entry that a report made is backed by that report.
Whole == \A o \in Outs \ cut : \A r \in RowsOf(db, o) : db.uni[r.task] # None

Reported ==
  \A t \in Tasks : origin[t] = "report" => db.uni[t] # None /\ \E r \in db.rows : r.task = t

\* The first report of an output decides the unihash of the later ones.
First(o) == {r \in RowsOf(db, o) : \A s \in RowsOf(db, o) : r.at <= s.at}

Grouped ==
  \A t \in Tasks, o \in Outs \ cut :
    origin[t] = "report" /\ OutsOf(t) = {o} => \A r \in First(o) : db.uni[r.task] = db.uni[t]

Shared == ~hasUpstream => Ordered /\ Whole /\ Reported /\ Grouped

LEMMA SharedIsEqual ==
  ASSUME Typed, Shared
  PROVE  EqualOutputs
  <1> SUFFICES ASSUME ~hasUpstream, NEW s \in Reproducible, NEW t \in Reproducible,
                      OutsOf(s) = OutsOf(t), OutsOf(s) \cap cut = {}
               PROVE  db.uni[s] = db.uni[t]
    BY DEF EqualOutputs
  <1>1. PICK o \in Outs : OutsOf(s) = {o}
    BY DEF Reproducible
  <1>2. o \notin cut
    BY <1>1
  <1>3. PICK p \in db.rows : p.out = o
    BY <1>1 DEF OutsOf
  <1>4. RowsOf(db, o) # {} /\ \A r \in RowsOf(db, o) : r.at \in Nat
    BY <1>3 DEF RowsOf, Typed, Tables, FiniteRows, Row
  <1>5. Oldest(RowsOf(db, o)) \in First(o)
    BY <1>4, OldestFirst DEF First
  <1>6. /\ s \in Tasks /\ origin[s] = "report"
        /\ t \in Tasks /\ origin[t] = "report"
    BY DEF Reproducible
  <1> QED BY <1>1, <1>2, <1>5, <1>6 DEF Shared, Grouped

\* A row of this server is inserted behind all others.
LEMMA NewRowIsLast ==
  ASSUME Typed, Ordered, NEW t \in Tasks, NEW o \in Outs, NEW n \in Places(db.rows, LocalRow(t, o))
  PROVE  /\ n \in Nat /\ \A s \in db.rows : s.at < n
         /\ InsertRow(db.rows, LocalRow(t, o), n) = db.rows \cup {At(LocalRow(t, o), n)}
  <1>1. n \in Nat
    BY DEF Places
  <1>2. ASSUME NEW s \in db.rows PROVE s.at < n
    <2>1. LocalRow(t, o).day = today /\ LocalRow(t, o).remote = FALSE
      BY DEF LocalRow
    <2>2. s.day \in Nat /\ today \in Nat
      BY DEF Typed, Tables, FiniteRows, Row
    <2>3. Precedes(s, LocalRow(t, o))
      BY <2>1, <2>2 DEF Precedes, Ordered
    <2> QED BY <2>3 DEF Places
  <1>3. ASSUME NEW s \in db.rows PROVE At(s, IF s.at < n THEN s.at ELSE s.at + 1) = s
    BY <1>2 DEF At, Typed, Tables, FiniteRows, Row
  <1> QED BY <1>1, <1>2, <1>3 DEF InsertRow

LEMMA UnchangedShares ==
  ASSUME Typed, Ordered, Whole, Reported, Grouped, UNCHANGED <<db, origin, cut>>, today' \in Nat,
         today <= today'
  PROVE  (Ordered /\ Whole /\ Reported /\ Grouped)'
  <1>1. Ordered'
    BY DEF Ordered, Typed, Tables, FiniteRows, Row
  <1> QED BY <1>1 DEF Whole, Reported, Grouped, First, OutsOf, RowsOf

LEMMA EquivShares ==
  ASSUME Typed, Ordered, Whole, Reported, Grouped, NEW t \in Tasks, NEW u \in Unis,
         InsertUnihash(db, t, u, "equiv"), UNCHANGED <<today, cut>>
  PROVE  (Ordered /\ Whole /\ Reported /\ Grouped)'
  <1>1. /\ db'.rows = db.rows /\ db'.uni[t] # None
        /\ \A s \in Tasks : s # t \/ db.uni[t] # None =>
             db'.uni[s] = db.uni[s] /\ origin'[s] = origin[s]
        /\ db.uni[t] = None => origin'[t] = IF origin[t] = "forgotten" THEN "forgotten" ELSE "equiv"
    BY InsertUnihashFacts DEF Typed
  <1>2. \A o : RowsOf(db', o) = RowsOf(db, o) /\ First(o)' = First(o)
    BY <1>1 DEF RowsOf, First
  <1>3. \A s : OutsOf(s)' = OutsOf(s)
    BY <1>1 DEF OutsOf
  <1>4. \A o : \A r \in RowsOf(db, o) : r.task \in Tasks
    BY DEF RowsOf, Typed, Tables, FiniteRows, Row
  <1>5. Ordered'
    BY <1>1 DEF Ordered
  <1>6. Whole'
    BY <1>1, <1>2, <1>4 DEF Whole
  <1>7. Reported'
    BY <1>1 DEF Reported
  <1>8. Grouped'
    <2> SUFFICES ASSUME NEW s \in Tasks, NEW o \in Outs \ cut, origin'[s] = "report", OutsOf(s) = {o},
                        NEW r \in First(o)
                 PROVE  db'.uni[r.task] = db'.uni[s]
      BY <1>2, <1>3 DEF Grouped
    <2>1. r \in RowsOf(db, o) /\ r.task \in Tasks /\ db.uni[r.task] # None
      BY <1>4 DEF First, Whole
    <2>2. origin[s] = "report" /\ (s # t \/ db.uni[t] # None)
      BY <1>1
    <2>3. db.uni[r.task] = db.uni[s]
      BY <2>2 DEF Grouped
    <2> QED BY <1>1, <2>1, <2>2, <2>3
  <1> QED BY <1>5, <1>6, <1>7, <1>8


LEMMA ReportShares ==
  ASSUME Typed, Ordered, Whole, Reported, Grouped,
         NEW t \in Tasks, NEW o \in Outs, NEW u \in Unis, NEW n \in Places(db.rows, LocalRow(t, o)),
         Stored(t, o, n, EquivalentOr(t, o, n, u)), UNCHANGED <<today, cut>>
  PROVE  (Ordered /\ Whole /\ Reported /\ Grouped)'
  <1>1. PICK d : d = [db EXCEPT !.rows = InsertRow(@, LocalRow(t, o), n)]
    OBVIOUS
  <1>2. PICK new : new = At(LocalRow(t, o), n)
    OBVIOUS
  <1>3. new.task = t /\ new.out = o /\ new.day = today /\ new.remote = FALSE /\ new.at = n
    BY <1>2 DEF At, LocalRow
  <1>4. n \in Nat /\ \A s \in db.rows : s.at < n
    BY NewRowIsLast
  <1>5. d \in Tables /\ d.uni = db.uni /\ d.rows = db.rows \cup {new}
    BY <1>1, <1>2, StoredFacts, NewRowIsLast
  <1>6. PICK v \in Unis : v = EquivalentOr(t, o, n, u)
    BY StoredFacts
  <1>7. ~HasRow(db, t, o) /\ InsertUnihash(d, t, v, "report")
    BY <1>1, <1>6 DEF Stored
  <1>8. /\ db'.rows = db.rows \cup {new} /\ db'.uni[t] # None
        /\ \A s \in Tasks : s # t \/ db.uni[t] # None =>
             db'.uni[s] = db.uni[s] /\ origin'[s] = origin[s]
        /\ db.uni[t] = None => db'.uni[t] = v
    BY <1>5, <1>7, InsertUnihashFacts
  <1>9. ASSUME NEW r \in db.rows PROVE r.task \in Tasks /\ r.at \in Nat
    BY DEF Typed, Tables, FiniteRows, Row
  <1>10. ASSUME NEW x \in Outs \ cut, NEW r \in RowsOf(db, x)
         PROVE  db.uni[r.task] # None /\ db'.uni[r.task] = db.uni[r.task]
    <2>1. db.uni[r.task] # None /\ r.task \in Tasks
      BY <1>9 DEF Whole, RowsOf
    <2> QED BY <1>8, <2>1
  <1>11. ASSUME NEW x, NEW r, r \in First(x)', RowsOf(db, x) # {}
         PROVE  r \in First(x)
    <2>1. r \in RowsOf(db', x) /\ \A s \in RowsOf(db, x) : r.at <= s.at
      BY <1>8, <1>11 DEF First, RowsOf
    <2>2. PICK p \in RowsOf(db, x) : p.at \in Nat /\ p.at < n
      BY <1>4, <1>9, <1>11 DEF RowsOf
    <2>3. r # new
      BY <1>3, <1>4, <2>1, <2>2
    <2> QED BY <1>8, <2>1, <2>3 DEF First, RowsOf
  <1>12. Ordered'
    <2>1. \A r \in db'.rows : ~r.remote /\ r.day <= today
      BY <1>3, <1>8 DEF Ordered, Typed
    <2>2. ASSUME NEW r \in db'.rows, NEW s \in db'.rows, r.at = s.at PROVE r = s
      BY <1>3, <1>4, <1>8, <1>9, <2>2 DEF Ordered
    <2> QED BY <2>1, <2>2 DEF Ordered
  <1>13. Whole'
    <2> SUFFICES ASSUME NEW x \in Outs \ cut, NEW r \in RowsOf(db', x) PROVE db'.uni[r.task] # None
      BY DEF Whole
    <2>1. CASE r = new
      BY <1>3, <1>8, <2>1
    <2>2. CASE r # new
      BY <1>8, <1>10, <2>2 DEF RowsOf
    <2> QED BY <2>1, <2>2
  <1>14. Reported'
    <2> SUFFICES ASSUME NEW s \in Tasks, origin'[s] = "report"
                 PROVE  db'.uni[s] # None /\ \E r \in db'.rows : r.task = s
      BY DEF Reported
    <2>1. CASE s # t
      BY <1>8, <2>1 DEF Reported
    <2>2. CASE s = t
      BY <1>3, <1>8, <2>2
    <2> QED BY <2>1, <2>2
  <1>15. Grouped'
    <2> SUFFICES ASSUME NEW s \in Tasks, NEW x \in Outs \ cut, origin'[s] = "report", OutsOf(s)' = {x},
                        NEW r \in First(x)'
                 PROVE  db'.uni[r.task] = db'.uni[s]
      BY DEF Grouped
    <2>1. CASE s # t \/ db.uni[t] # None
      <3>1. origin[s] = "report" /\ db'.uni[s] = db.uni[s]
        BY <1>8, <2>1
      <3>2. PICK p \in db.rows : p.task = s
        BY <3>1 DEF Reported
      <3>3. OutsOf(s) \subseteq OutsOf(s)'
        BY <1>8 DEF OutsOf
      <3>4. p.out \in OutsOf(s)
        BY <3>2 DEF OutsOf
      <3>5. OutsOf(s) = {x} /\ p \in RowsOf(db, x)
        BY <3>3, <3>4 DEF RowsOf
      <3>6. r \in First(x)
        BY <1>11, <3>5
      <3>7. db.uni[r.task] = db.uni[s]
        BY <3>1, <3>5, <3>6 DEF Grouped
      <3> QED BY <1>10, <3>1, <3>6, <3>7 DEF First
    <2>2. CASE s = t /\ db.uni[t] = None
      <3>1. o \in OutsOf(t)'
        BY <1>3, <1>8 DEF OutsOf
      <3>2. x = o
        BY <2>2, <3>1
      <3>3. CASE RowsOf(db, o) = {}
        <4>1. r \in db'.rows /\ r \notin db.rows
          BY <3>2, <3>3 DEF First, RowsOf
        <4> QED BY <1>3, <1>8, <2>2, <4>1
      <3>4. CASE RowsOf(db, o) # {}
        <4>1. PICK old : old = Oldest(RowsOf(db, o))
          OBVIOUS
        <4>2. old \in RowsOf(db, o) /\ \A p \in RowsOf(db, o) : old.at <= p.at
          BY <1>9, <3>4, <4>1, OldestFirst DEF RowsOf
        <4>3. r \in RowsOf(db, o) /\ r.at <= old.at
          BY <1>11, <3>2, <3>4, <4>2 DEF First
        <4>4. r = old
          BY <1>9, <4>2, <4>3 DEF Ordered, RowsOf
        <4>5. Known(d, {p \in RowsOf(d, o) : p.task # t}) = RowsOf(db, o)
          <5>1. {p \in RowsOf(d, o) : p.task # t} = RowsOf(db, o)
            BY <1>3, <1>5, <1>7 DEF RowsOf, HasRow
          <5>2. \A p \in RowsOf(db, o) : d.uni[p.task] # None
            BY <1>5, <1>10, <3>2
          <5> QED BY <5>1, <5>2 DEF Known
        <4>6. Equivalent(d, t, o) = db.uni[old.task]
          BY <1>5, <3>4, <4>1, <4>5 DEF Equivalent
        <4>7. v = db.uni[old.task]
          BY <1>1, <1>6, <1>10, <3>2, <4>2, <4>6 DEF EquivalentOr
        <4> QED BY <1>8, <1>10, <2>2, <3>2, <4>2, <4>4, <4>7
      <3> QED BY <3>3, <3>4
    <2> QED BY <2>1, <2>2
  <1> QED BY <1>12, <1>13, <1>14, <1>15

\* The rows that stay keep their order.
LEMMA PlacesInOrder ==
  ASSUME NEW rows \in FiniteRows, NEW gone, NEW r \in rows \ gone, NEW s \in rows \ gone, r.at < s.at
  PROVE  Place(rows, gone, r) < Place(rows, gone, s)
  <1> DEFINE Upto(q) == {p \in rows \ gone : p.at <= q.at}
  <1>1. Upto(r) \subseteq Upto(s) /\ s \in Upto(s) /\ s \notin Upto(r)
    BY DEF FiniteRows, Row
  <1>2. IsFiniteSet(Upto(s))
    BY FS_Subset DEF FiniteRows
  <1> HIDE DEF Upto
  <1>3. Cardinality(Upto(r)) < Cardinality(Upto(s))
    <2>1. Upto(r) # Upto(s)
      BY <1>1
    <2>2. Cardinality(Upto(r)) <= Cardinality(Upto(s))
          /\ (Cardinality(Upto(s)) = Cardinality(Upto(r)) => Upto(r) = Upto(s))
      BY <1>1, <1>2, FS_Subset
    <2>3. IsFiniteSet(Upto(r))
      BY <1>1, <1>2, FS_Subset
    <2>4. Cardinality(Upto(r)) \in Nat /\ Cardinality(Upto(s)) \in Nat
      BY <1>2, <2>3, FS_CardinalityType
    <2> QED BY <2>1, <2>2, <2>4
  <1> QED BY <1>3 DEF Place, Upto

LEMMA LoseShares ==
  ASSUME Typed, Ordered, Whole, Reported, Grouped, NEW unis \in SUBSET Tasks,
         NEW rows \in SUBSET db.rows, Lose(unis, rows), UNCHANGED today
  PROVE  (Ordered /\ Whole /\ Reported /\ Grouped)'
  <1> DEFINE hit == unis \cup {r.task : r \in rows}
             P(r) == Place(db.rows, rows, r)
  <1>1. /\ db' = [uni |-> [t \in Tasks |-> IF t \in unis THEN None ELSE db.uni[t]],
                  rows |-> RemoveRows(db.rows, rows)]
        /\ origin' = [t \in Tasks |-> IF t \in hit THEN "forgotten" ELSE origin[t]]
        /\ cut' = cut \cup {r.out : r \in {r \in db.rows : r.task \in hit}}
    BY DEF Lose
  <1>2. db'.rows = {At(r, P(r)) : r \in db.rows \ rows}
    BY <1>1 DEF RemoveRows, Place
  <1>3. db.rows \in FiniteRows /\ \A r \in db.rows : r.task \in Tasks /\ r.at \in Nat
    BY DEF Typed, Tables, FiniteRows, Row
  <1>4. \A r : P(r) \in Nat
    BY <1>3, PlaceType
  <1>5. \A r \in db.rows \ rows, s \in db.rows \ rows : r.at < s.at => P(r) < P(s)
    BY <1>3, PlacesInOrder
  <1> HIDE DEF P
  <1>6. \A t \in Tasks \ hit : db'.uni[t] = db.uni[t] /\ origin'[t] = origin[t]
    BY <1>1
  <1>7. ASSUME NEW r \in db.rows, r.task \notin hit PROVE r \in db.rows \ rows
    BY <1>7
  <1>8. ASSUME NEW r \in db'.rows
        PROVE  \E q \in db.rows \ rows : r = At(q, P(q)) /\ r.task = q.task /\ r.out = q.out
                                         /\ r.day = q.day /\ r.remote = q.remote /\ r.at = P(q)
    <2>1. PICK q \in db.rows \ rows : r = At(q, P(q))
      BY <1>2
    <2> QED BY <2>1 DEF At
  <1>9. ASSUME NEW q \in db.rows \ rows
        PROVE  \E r \in db'.rows : r.task = q.task /\ r.out = q.out /\ r.at = P(q)
    <2>1. At(q, P(q)) \in db'.rows
      BY <1>2
    <2> QED BY <2>1 DEF At
  <1>10. ASSUME NEW o \in Outs \ cut', NEW r \in db.rows, r.out = o
         PROVE  r.task \in Tasks \ hit /\ r \in db.rows \ rows
    <2>1. r.task \notin hit
      BY <1>1, <1>10
    <2> QED BY <1>3, <1>7, <2>1
  <1> HIDE DEF hit
  <1>11. Ordered'
    <2>1. \A r \in db'.rows : ~r.remote /\ r.day <= today
      BY <1>8 DEF Ordered
    <2>2. ASSUME NEW r \in db'.rows, NEW s \in db'.rows, r.at = s.at PROVE r = s
      <3>1. PICK q \in db.rows \ rows : r = At(q, P(q)) /\ r.at = P(q)
        BY <1>8
      <3>2. PICK p \in db.rows \ rows : s = At(p, P(p)) /\ s.at = P(p)
        BY <1>8
      <3>3. q.at = p.at
        BY <1>3, <1>4, <1>5, <2>2, <3>1, <3>2
      <3> QED BY <3>1, <3>2, <3>3 DEF Ordered
    <2> QED BY <2>1, <2>2 DEF Ordered
  <1>12. Whole'
    <2> SUFFICES ASSUME NEW o \in Outs \ cut', NEW r \in RowsOf(db', o) PROVE db'.uni[r.task] # None
      BY DEF Whole
    <2>1. PICK q \in db.rows : q.task = r.task /\ q.out = o
      BY <1>8 DEF RowsOf
    <2>2. db.uni[q.task] # None
      BY <1>1, <2>1 DEF Whole, RowsOf
    <2> QED BY <1>6, <1>10, <2>1, <2>2
  <1>13. Reported'
    <2> SUFFICES ASSUME NEW t \in Tasks, origin'[t] = "report"
                 PROVE  db'.uni[t] # None /\ \E r \in db'.rows : r.task = t
      BY DEF Reported
    <2>1. t \notin hit /\ origin[t] = "report"
      BY <1>1
    <2>2. PICK q \in db.rows : q.task = t
      BY <2>1 DEF Reported
    <2>3. q \in db.rows \ rows
      BY <1>7, <2>1, <2>2
    <2> QED BY <1>6, <1>9, <2>1, <2>2, <2>3 DEF Reported
  <1>14. Grouped'
    <2> SUFFICES ASSUME NEW t \in Tasks, NEW o \in Outs \ cut', origin'[t] = "report", OutsOf(t)' = {o},
                        NEW r \in First(o)'
                 PROVE  db'.uni[r.task] = db'.uni[t]
      BY DEF Grouped
    <2>1. t \in Tasks \ hit /\ origin[t] = "report"
      BY <1>1
    <2>2. OutsOf(t) = {o}
      <3>1. ASSUME NEW q \in db.rows, q.task = t PROVE q.out \in OutsOf(t)'
        <4>1. q \in db.rows \ rows
          BY <1>7, <2>1, <3>1
        <4>2. PICK p \in db'.rows : p.task = t /\ p.out = q.out
          BY <1>9, <3>1, <4>1
        <4> QED BY <4>2 DEF OutsOf
      <3>2. OutsOf(t) \subseteq OutsOf(t)'
        BY <3>1 DEF OutsOf
      <3>3. OutsOf(t) # {}
        BY <2>1 DEF Reported, OutsOf
      <3> QED BY <3>2, <3>3
    <2>3. PICK q \in db.rows \ rows : q.task = r.task /\ q.out = o /\ r.at = P(q)
      BY <1>8 DEF First, RowsOf
    <2>4. q \in First(o)
      <3> SUFFICES ASSUME NEW s \in RowsOf(db, o) PROVE q.at <= s.at
        BY <2>3 DEF First, RowsOf
      <3>1. s \in db.rows \ rows /\ s.out = o
        BY <1>10 DEF RowsOf
      <3>2. PICK p \in db'.rows : p.out = o /\ p.at = P(s)
        BY <1>9, <3>1
      <3>3. r.at <= p.at
        BY <3>2 DEF First, RowsOf
      <3> QED BY <1>3, <1>4, <1>5, <2>3, <3>1, <3>2, <3>3
    <2>5. o \in Outs \ cut
      BY <1>1
    <2>6. db.uni[q.task] = db.uni[t]
      BY <2>1, <2>2, <2>4, <2>5 DEF Grouped
    <2>7. q.task \in Tasks \ hit
      BY <1>10, <2>3
    <2> QED BY <1>6, <2>1, <2>3, <2>6, <2>7
  <1> QED BY <1>11, <1>12, <1>13, <1>14

LEMMA AdministeringShares ==
  ASSUME Typed, Ordered, Whole, Reported, Grouped, Administer
  PROVE  (Ordered /\ Whole /\ Reported /\ Grouped)'
  <1>1. UNCHANGED today
    BY DEF Administer, Remove, GcMark, GcSweep, CleanUnused, Admin
  <1>2. ASSUME NEW c, NEW w, Remove(c, w)
        PROVE  (Ordered /\ Whole /\ Reported /\ Grouped)'
    <2>1. UniMatch(w) \in SUBSET Tasks /\ RowMatch(w) \in SUBSET db.rows
      BY DEF UniMatch, RowMatch
    <2> QED BY <1>1, <1>2, <2>1, LoseShares DEF Remove
  <1>3. ASSUME NEW c, NEW m, NEW w, GcMark(c, m, w)
        PROVE  (Ordered /\ Whole /\ Reported /\ Grouped)'
    BY <1>1, <1>3, UnchangedShares DEF GcMark, Typed
  <1>4. ASSUME NEW c, NEW m, GcSweep(c, m)
        PROVE  (Ordered /\ Whole /\ Reported /\ Grouped)'
    <2>1. Unmarked \in SUBSET Tasks /\ Lose(Unmarked, {})
      BY <1>4 DEF GcSweep, Unmarked
    <2> QED BY <1>1, <2>1, LoseShares
  <1>5. ASSUME NEW c, NEW a, NEW late, CleanUnused(c, a, late)
        PROVE  (Ordered /\ Whole /\ Reported /\ Grouped)'
    <2>1. PICK rows \in SUBSET db.rows : Lose({}, rows)
      BY <1>5 DEF CleanUnused
    <2> QED BY <1>1, <2>1, LoseShares
  <1> QED BY <1>2, <1>3, <1>4, <1>5 DEF Administer

LEMMA SharedKept ==
  ASSUME Typed, Alone, Shared, Next
  PROVE  Shared'
  <1> SUFFICES ASSUME ~hasUpstream
               PROVE  (Ordered /\ Whole /\ Reported /\ Grouped)'
    BY UpstreamStays DEF Shared
  <1>1. Ordered /\ Whole /\ Reported /\ Grouped
    BY DEF Shared
  <1>2. CASE Administer
    BY <1>1, <1>2, AdministeringShares
  <1>3. CASE Request
    <2>1. UNCHANGED <<today, cut>>
      BY <1>3 DEF Request, Report, GetOuthash, Get, GetAll, GetStream, EquivReport, Elsewhere
    <2>2. today \in Nat
      BY DEF Typed
    <2>3. CASE UNCHANGED <<db, rowMark, mark, kept, origin>>
      BY <1>1, <2>1, <2>2, <2>3, UnchangedShares
    <2> QED BY <1>1, <1>3, <2>1, <2>3, AloneServes, ReportShares, EquivShares
  <1>4. CASE Upstream
    BY <1>4 DEF Alone, Upstream, UpstreamLearns, UpstreamAnswers, UpstreamFails, Resume
  <1>5. CASE Life
    <2>1. UNCHANGED <<db, origin, cut>>
      BY <1>5 DEF Alone, Life, BackfillTake, BackfillStore, BackfillFails, Ends, Stop, Start, Tick,
                  tables, history
    <2>2. today \in Nat /\ (today' = today \/ today' = today + 1)
      BY <1>5 DEF Typed, Life, BackfillTake, BackfillStore, BackfillFails, Ends, Stop, Start, Tick
    <2>3. today' \in Nat /\ today <= today'
      BY <2>2
    <2> QED BY <1>1, <2>1, <2>3, UnchangedShares
  <1> QED BY <1>2, <1>3, <1>4, <1>5 DEF Next

\* A server without upstream gives the tasks that were reported with the same
\* output the same unihash, whatever the order of the reports, of equivalences
\* given by hand, and of removals and collections of other outputs
\* (handle_report, get_equivalent_for_outhash, insert_unihash).
THEOREM OutputsShareTheirUnihash == Spec => []EqualOutputs
  <1>1. Init => Alone /\ Shared
    BY DEF Init, Alone, Shared, Ordered, Whole, Reported, Grouped, RowsOf, Empty
  <1>2. Typed /\ Alone /\ Shared /\ [Next]_vars => (Alone /\ Shared)'
    <2> SUFFICES ASSUME Typed, Alone, Shared, [Next]_vars PROVE (Alone /\ Shared)'
      OBVIOUS
    <2>1. CASE UNCHANGED vars
      <3>1. Alone'
        BY <2>1 DEF vars, Alone
      <3>2. UNCHANGED <<db, origin, cut, today, hasUpstream>>
        BY <2>1 DEF vars, tables, history
      <3>3. today' \in Nat /\ today <= today'
        BY <3>2 DEF Typed
      <3> QED BY <3>1, <3>2, <3>3, UnchangedShares DEF Shared
    <2> QED BY <2>1, AloneKept, SharedKept
  <1>3. Typed /\ Shared => EqualOutputs
    BY SharedIsEqual
  <1> QED BY <1>1, <1>2, <1>3, TablesTyped, PTL DEF Spec
=============================================================================
