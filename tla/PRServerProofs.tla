--------------------------- MODULE PRServerProofs ---------------------------
(***************************************************************************)
(* Proofs about PRServer, for every set of packages, checksums and imports *)
(* and any number of starts and crashes: revisions never go down, two      *)
(* builds share none, exports lose none, and the server implements         *)
(* PRContract.                                                             *)
(***************************************************************************)
EXTENDS PRServer, WellFoundedInduction, TLAPS

-----------------------------------------------------------------------------
(* The highest value of a package *)

LEMMA TopExists ==
  ASSUME NEW t \in Table, NEW p \in Packages
  PROVE  /\ Top(t, p) \in Values
         /\ \E s \in Checksums : t[p][s] = Top(t, p)
         /\ \A s \in Checksums : t[p][s] <= Top(t, p)
  <1> DEFINE V == {t[p][s] : s \in Checksums}
             D == {MaxValue - v : v \in V}
             R == OpToRel(<, Nat)
  <1>1. V \subseteq Values /\ V # {}
    <2>1. \A s \in Checksums : t[p][s] \in Values
      BY DEF Table
    <2>2. PICK s \in Checksums : TRUE
      BY ConstantsAssumption
    <2>3. t[p][s] \in V
      OBVIOUS
    <2>4. V \subseteq Values
      BY <2>1, Zenon
    <2> QED BY <2>3, <2>4
  <1>2. D \subseteq Nat /\ D # {}
    <2> HIDE DEF V
    <2>1. \A v \in V : MaxValue - v \in Nat
      BY <1>1, ConstantsAssumption DEF Values, NoValue
    <2> QED BY <1>1, <2>1
  <1>3. \E d \in D : \A e \in D : ~(<<e, d>> \in R)
    <2> HIDE DEF D
    <2> QED BY <1>2, NatLessThanWellFounded, WFMin
  <1>4. \A d, e \in Nat : e < d => <<e, d>> \in R
    BY Zenon DEF OpToRel
  <1> HIDE DEF R
  <1>5. \E d \in D : \A e \in D : d <= e
    <2>1. PICK d \in D : \A e \in D : ~(<<e, d>> \in R)
      BY <1>3
    <2>2. ASSUME NEW e \in D PROVE d <= e
      <3>1. d \in Nat /\ e \in Nat /\ ~(e < d)
        BY <1>2, <1>4, <2>1
      <3> QED BY <3>1
    <2> QED BY <2>1, <2>2
  <1>6. \E v \in V : \A s \in Checksums : t[p][s] <= v
    <2>1. PICK d \in D : \A e \in D : d <= e
      BY <1>5
    <2>2. PICK v \in V : d = MaxValue - v
      OBVIOUS
    <2>3. ASSUME NEW s \in Checksums PROVE t[p][s] <= v
      <3>1. t[p][s] \in V /\ MaxValue - t[p][s] \in D
        OBVIOUS
      <3>2. d <= MaxValue - t[p][s]
        BY <2>1, <3>1
      <3>3. t[p][s] \in Int /\ v \in Int /\ MaxValue \in Int
        BY <1>1, <3>1, ConstantsAssumption DEF Values, NoValue
      <3> QED BY <2>2, <3>2, <3>3
    <2> QED BY <2>3
  <1>7. Top(t, p) \in V /\ \A s \in Checksums : t[p][s] <= Top(t, p)
    BY <1>6 DEF Top
  <1> QED BY <1>1, <1>7

\* A value that a row holds and no row exceeds is the highest one.
LEMMA TopIs ==
  ASSUME NEW t \in Table, NEW p \in Packages, NEW s \in Checksums,
         \A r \in Checksums : t[p][r] <= t[p][s]
  PROVE  Top(t, p) = t[p][s]
  <1>1. PICK r \in Checksums : t[p][r] = Top(t, p)
    BY TopExists
  <1>2. t[p][r] <= t[p][s] /\ t[p][s] <= t[p][r]
    BY <1>1, TopExists
  <1>3. t[p][r] \in Int /\ t[p][s] \in Int
    BY ConstantsAssumption DEF Table, Values, NoValue
  <1> QED BY <1>1, <1>2, <1>3

\* The table in which the row of p and s was raised to v.
Raised(t, p, s, v) == [t EXCEPT ![p][s] = v]

LEMMA RaisedTable ==
  ASSUME NEW t \in Table, NEW p \in Packages, NEW s \in Checksums, NEW v \in Values
  PROVE  /\ Raised(t, p, s, v) \in Table
         /\ Raised(t, p, s, v)[p][s] = v
         /\ \A r \in Checksums \ {s} : Raised(t, p, s, v)[p][r] = t[p][r]
         /\ \A q \in Packages \ {p} : Raised(t, p, s, v)[q] = t[q]
  BY DEF Raised, Table

LEMMA TopElsewhere ==
  ASSUME NEW t, NEW u, NEW q, t[q] = u[q]
  PROVE  Top(t, q) = Top(u, q)
  BY DEF Top

LEMMA TopOfRaised ==
  ASSUME NEW t \in Table, NEW p \in Packages, NEW s \in Checksums,
         NEW v \in Values, t[p][s] <= v
  PROVE  Top(Raised(t, p, s, v), p) = IF Top(t, p) <= v THEN v ELSE Top(t, p)
  <1> DEFINE u == Raised(t, p, s, v)
  <1>1. u \in Table /\ u[p][s] = v /\ \A r \in Checksums \ {s} : u[p][r] = t[p][r]
    BY RaisedTable
  <1>2. \A r \in Checksums : t[p][r] <= Top(t, p) /\ t[p][r] \in Int
    BY TopExists, ConstantsAssumption DEF Table, Values, NoValue
  <1>3. v \in Int /\ Top(t, p) \in Int
    BY TopExists, ConstantsAssumption DEF Values, NoValue
  <1> HIDE DEF u
  <1>4. CASE Top(t, p) <= v
    <2>1. \A r \in Checksums : u[p][r] <= u[p][s]
      <3> TAKE r \in Checksums
      <3>1. CASE r = s
        BY <1>1, <1>3, <3>1
      <3>2. CASE r # s
        <4>1. u[p][r] = t[p][r] /\ t[p][r] <= Top(t, p) /\ t[p][r] \in Int
          BY <1>1, <1>2, <3>2
        <4> QED BY <1>1, <1>3, <1>4, <4>1
      <3> QED BY <3>1, <3>2
    <2>2. Top(u, p) = u[p][s]
      BY <1>1, <2>1, TopIs
    <2> QED BY <1>1, <1>4, <2>2 DEF u
  <1>5. CASE ~(Top(t, p) <= v)
    <2>1. PICK m \in Checksums : t[p][m] = Top(t, p)
      BY TopExists
    <2>2. m # s
      BY <1>2, <1>3, <1>5, <2>1
    <2>3. u[p][m] = Top(t, p)
      BY <1>1, <2>1, <2>2
    <2>4. \A r \in Checksums : u[p][r] <= u[p][m]
      <3> TAKE r \in Checksums
      <3>1. CASE r = s
        BY <1>1, <1>3, <1>5, <2>3, <3>1
      <3>2. CASE r # s
        BY <1>1, <1>2, <2>3, <3>2
      <3> QED BY <3>1, <3>2
    <2>5. Top(u, p) = u[p][m]
      BY <1>1, <2>4, TopIs
    <2> QED BY <1>5, <2>3, <2>5 DEF u
  <1> QED BY <1>4, <1>5

-----------------------------------------------------------------------------
(* What a handler stores *)

LEMMA RevisionFacts ==
  ASSUME NEW t \in Table, NEW p \in Packages, NEW s \in Checksums,
         Revision(t, p, s) <= MaxValue
  PROVE  /\ Revision(t, p, s) \in Values \ {NoValue}
         /\ t[p][s] <= Revision(t, p, s)
         /\ Top(t, p) <= Revision(t, p, s)
         /\ HasTop(t, p, s) => Revision(t, p, s) = t[p][s] /\ t[p][s] = Top(t, p)
         /\ ~HasTop(t, p, s) => Revision(t, p, s) = Top(t, p) + 1
  <1>1. t[p][s] \in Values /\ Top(t, p) \in Values /\ t[p][s] <= Top(t, p)
    BY TopExists DEF Table
  <1>2. /\ t[p][s] \in Int /\ Top(t, p) \in Int /\ MaxValue \in Int
        /\ -1 <= t[p][s] /\ -1 <= Top(t, p)
    BY <1>1, ConstantsAssumption DEF Values, NoValue
  <1>3. CASE HasTop(t, p, s)
    <2>1. t[p][s] = Top(t, p) /\ Revision(t, p, s) = t[p][s] /\ t[p][s] # NoValue
      BY <1>1, <1>2, <1>3 DEF HasTop, Revision
    <2> QED BY <1>1, <1>2, <1>3, <2>1
  <1>4. CASE ~HasTop(t, p, s)
    <2>1. Revision(t, p, s) = Top(t, p) + 1
      BY <1>4 DEF Revision
    <2>2. Revision(t, p, s) \in Values \ {NoValue}
      BY <1>2, <2>1 DEF Values, NoValue
    <2> QED BY <1>1, <1>2, <1>4, <2>1, <2>2
  <1> QED BY <1>3, <1>4

LEMMA ImportedFacts ==
  ASSUME NEW t \in Table, NEW p \in Packages, NEW s \in Checksums, NEW v \in ImportValues
  PROVE  /\ v \in Values \ {NoValue}
         /\ Imported(t, p, s, v) \in Values
         /\ t[p][s] <= Imported(t, p, s, v)
         /\ Imported(t, p, s, v) \in {v, t[p][s]}
  <1>1. t[p][s] \in Values
    BY DEF Table
  <1> QED BY <1>1, ConstantsAssumption DEF Imported, Values, NoValue

-----------------------------------------------------------------------------
(* Type correctness *)

\* While no connection is open to it, the table is what was committed.
Closed == server \in {"down", "closed"} => tab = db
Silent == server = "down" => answer = NoAnswer

Typed == TypeOK /\ Closed /\ Silent

LEMMA InitTyped == Init => Typed
  <1> SUFFICES ASSUME Init PROVE Typed
    OBVIOUS
  <1>1. NoValue \in Values /\ 0 \in 0..MaxStarts /\ 0 \in 0..MaxCrashes
    BY ConstantsAssumption DEF Values, NoValue
  <1>2. [p \in Packages |-> [s \in Checksums |-> NoValue]] \in Table
    BY <1>1 DEF Table
  <1> QED BY <1>1, <1>2 DEF Init, Typed, TypeOK, Closed, Silent

LEMMA GetPrTyped ==
  ASSUME Typed, NEW p \in Packages, NEW s \in Checksums, GetPr(p, s)
  PROVE  Typed'
  <1> DEFINE v == Revision(tab, p, s)
  <1>1. tab \in Table /\ db \in Table
    BY DEF Typed, TypeOK
  <1>2. v \in Values /\ v \in Values \ {NoValue}
    BY <1>1, RevisionFacts DEF GetPr
  <1>3. answer' \in Given
    BY <1>2 DEF GetPr, Given
  <1>4. CASE readOnly
    BY <1>3, <1>4 DEF GetPr, Typed, TypeOK, Closed, Silent, life, Listening
  <1>5. CASE ~readOnly
    <2>1. tab' = Raised(tab, p, s, v)
      BY <1>5 DEF GetPr, Raised
    <2>2. tab' \in Table
      BY <1>1, <1>2, <2>1, RaisedTable
    <2>3. HasTop(tab, p, s) => tab' = tab
      <3> HAVE HasTop(tab, p, s)
      <3>1. v = tab[p][s]
        BY DEF Revision
      <3> QED BY <1>1, <2>1, <3>1 DEF Raised, Table
    <2>4. tab' # db' => dirty'
      BY <1>5, <2>3 DEF GetPr, Typed, TypeOK
    <2>5. given' \subseteq Given /\ lost' \subseteq given'
      BY <1>3, <1>5 DEF GetPr, Typed, TypeOK
    <2>6. dirty' \in BOOLEAN
      BY <1>5 DEF GetPr, Typed, TypeOK
    <2> QED BY <1>3, <1>5, <2>2, <2>4, <2>5, <2>6
            DEF GetPr, Typed, TypeOK, Closed, Silent, life, Listening
  <1>6. readOnly \in BOOLEAN
    BY DEF Typed, TypeOK
  <1> QED BY <1>4, <1>5, <1>6

LEMMA ImportTyped ==
  ASSUME Typed, NEW p \in Packages, NEW s \in Checksums, NEW v \in ImportValues,
         ImportOne(p, s, v)
  PROVE  Typed'
  <1>1. tab \in Table
    BY DEF Typed, TypeOK
  <1>2. Imported(tab, p, s, v) \in Values /\ v \in Values
    BY <1>1, ImportedFacts
  <1>3. tab' \in Table
    BY <1>1, <1>2, RaisedTable DEF ImportOne, Raised
  <1>4. imported' \subseteq [pkg : Packages, value : Values]
    BY <1>2 DEF ImportOne, Typed, TypeOK
  <1> QED BY <1>3, <1>4 DEF ImportOne, Typed, TypeOK, Closed, Silent, life, Listening

LEMMA StepTyped == Typed /\ [Next]_vars => Typed'
  <1> SUFFICES ASSUME Typed, [Next]_vars PROVE Typed'
    OBVIOUS
  <1> USE DEF Typed, TypeOK, Closed, Silent
  <1>1. CASE Requests
    <2>1. CASE \E p \in Packages, s \in Checksums : GetPr(p, s)
      BY <2>1, GetPrTyped
    <2>2. CASE \E p \in Packages, s \in Checksums, v \in ImportValues : ImportOne(p, s, v)
      BY <2>2, ImportTyped
    <2>3. CASE HandleBad
      BY <2>3 DEF HandleBad, Sync, Listening, life
    <2> QED BY <1>1, <2>1, <2>2, <2>3 DEF Requests
  <1>2. CASE Start
    <2>1. starts' \in 0..MaxStarts
      BY <1>2, ConstantsAssumption DEF Start
    <2>2. readOnly' \in BOOLEAN
      BY <1>2, ConstantsAssumption DEF Start
    <2> QED BY <1>2, <2>1, <2>2 DEF Start
  <1>3. CASE Signal
    BY <1>3 DEF Signal, Sync
  <1>4. CASE Stop
    BY <1>4 DEF Stop, SyncIfDirty, Sync
  <1>5. CASE Exit
    BY <1>5 DEF Exit, Gone
  <1>6. CASE Crash
    <2>1. crashes' \in 0..MaxCrashes
      BY <1>6, ConstantsAssumption DEF Crash
    <2>2. given' = given /\ lost' \subseteq given
      BY <1>6 DEF Crash, Gone
    <2> QED BY <1>6, <2>1, <2>2 DEF Crash, Gone
  <1>7. CASE UNCHANGED vars
    BY <1>7 DEF vars, table, life
  <1> QED BY <1>1, <1>2, <1>3, <1>4, <1>5, <1>6, <1>7 DEF Next

\* Every variable of the server keeps its type, uncommitted rows are marked
\* dirty, and a read-only server never has any.
THEOREM TypeCorrect == Spec => []TypeOK
  <1>1. Typed => TypeOK
    BY DEF Typed
  <1> QED BY <1>1, InitTyped, StepTyped, PTL DEF Spec

-----------------------------------------------------------------------------
(* Revisions never go down, and two builds share none *)

Standing == given \ lost

Import(p, v) == [pkg |-> p, value |-> v]

\* Two rows share the highest value of a package only by an import.
Ties(t) ==
  \A p \in Packages : \A s, r \in Checksums :
    s # r /\ t[p][s] = Top(t, p) /\ t[p][r] = Top(t, p) /\ Top(t, p) # NoValue =>
      Import(p, Top(t, p)) \in imported

\* A revision that still is the highest was given to an owner of it.
Owned(t) ==
  \A g \in Standing : g.value = Top(t, g.pkg) =>
    t[g.pkg][g.sum] = g.value \/ Import(g.pkg, g.value) \in imported

\* What the transaction has changed lies above what is committed.
Fresh ==
  \A p \in Packages, s \in Checksums :
    /\ db[p][s] <= tab[p][s]
    /\ \/ tab[p][s] = db[p][s]
       \/ tab[p][s] > Top(db, p)
       \/ Import(p, tab[p][s]) \in imported

Below == \A g \in Standing : g.value <= Top(tab, g.pkg)
Real  == \A g \in given : g.value # NoValue

IndInv ==
  /\ Typed /\ NeverDecremented /\ OneBuildPerRevision
  /\ Ties(db) /\ Ties(tab) /\ Owned(db) /\ Owned(tab)
  /\ Fresh /\ Below /\ Real

LEMMA InitInd == Init => IndInv
  <1> SUFFICES ASSUME Init PROVE IndInv
    OBVIOUS
  <1>1. Typed
    BY InitTyped
  <1>2. \A p \in Packages : Top(db, p) = NoValue /\ Top(tab, p) = NoValue
    <2> TAKE p \in Packages
    <2>1. PICK s \in Checksums : TRUE
      BY ConstantsAssumption
    <2>2. db \in Table /\ tab = db /\ \A r \in Checksums : db[p][r] = -1
      BY <1>1 DEF Typed, TypeOK, Init, NoValue
    <2>3. Top(db, p) = db[p][s]
      BY <2>1, <2>2, TopIs
    <2> QED BY <2>2, <2>3 DEF NoValue
  <1>3. Standing = {} /\ given = {}
    BY DEF Init, Standing
  <1>4. Fresh
    BY DEF Fresh, Init, NoValue
  <1>5. Ties(db) /\ Ties(tab)
    BY <1>2 DEF Ties
  <1> QED BY <1>1, <1>3, <1>4, <1>5
       DEF IndInv, Init, NeverDecremented, OneBuildPerRevision, Owned, Below, Real, Standing

LEMMA TopsOrdered ==
  ASSUME Typed, Fresh, NEW p \in Packages
  PROVE  Top(db, p) <= Top(tab, p)
  <1>1. db \in Table /\ tab \in Table
    BY DEF Typed, TypeOK
  <1>2. PICK s \in Checksums : db[p][s] = Top(db, p)
    BY <1>1, TopExists
  <1>3. db[p][s] <= tab[p][s] /\ tab[p][s] <= Top(tab, p)
    BY <1>1, TopExists DEF Fresh
  <1>4. db[p][s] \in Int /\ tab[p][s] \in Int /\ Top(tab, p) \in Int
    BY <1>1, TopExists, ConstantsAssumption DEF Table, Values, NoValue
  <1> QED BY <1>2, <1>3, <1>4

\* The table after a handler has raised one row, to a new highest value or by
\* an import.
LEMMA RaiseKeepsTable ==
  ASSUME Typed, Typed', Fresh, Ties(tab),
         NEW p \in Packages, NEW s \in Checksums, NEW v \in Values,
         tab[p][s] <= v, tab' = Raised(tab, p, s, v), db' = db,
         imported \subseteq imported',
         v = tab[p][s] \/ v > Top(tab, p) \/ Import(p, v) \in imported'
  PROVE  Fresh' /\ Ties(tab)'
  <1>1. db \in Table /\ tab \in Table /\ tab' \in Table
    BY DEF Typed, TypeOK
  <1>2. /\ tab'[p][s] = v
        /\ \A r \in Checksums \ {s} : tab'[p][r] = tab[p][r]
        /\ \A q \in Packages \ {p} : tab'[q] = tab[q]
    BY <1>1, RaisedTable
  <1>3. Top(tab', p) = IF Top(tab, p) <= v THEN v ELSE Top(tab, p)
    BY <1>1, TopOfRaised
  <1>4. \A q \in Packages \ {p} : Top(tab', q) = Top(tab, q)
    BY <1>2, TopElsewhere
  <1>5. \A q, w : Import(q, w) \in imported => Import(q, w) \in imported'
    OBVIOUS
  <1>6. /\ v \in Int /\ Top(tab, p) \in Int /\ Top(db, p) \in Int
        /\ \A q \in Packages, r \in Checksums : tab[q][r] \in Int /\ db[q][r] \in Int
    BY <1>1, TopExists, ConstantsAssumption DEF Table, Values, NoValue
  <1>7. Top(db, p) <= Top(tab, p)
    BY TopsOrdered
  <1>8. Fresh'
    <2> SUFFICES ASSUME NEW q \in Packages, NEW r \in Checksums
                 PROVE  /\ db[q][r] <= tab'[q][r]
                        /\ \/ tab'[q][r] = db[q][r]
                           \/ tab'[q][r] > Top(db, q)
                           \/ Import(q, tab'[q][r]) \in imported'
      BY DEF Fresh
    <2>1. /\ db[q][r] <= tab[q][r]
          /\ tab[q][r] = db[q][r] \/ tab[q][r] > Top(db, q) \/ Import(q, tab[q][r]) \in imported
      BY DEF Fresh
    <2>2. CASE q = p /\ r = s
      BY <1>2, <1>5, <1>6, <1>7, <2>1, <2>2
    <2>3. CASE ~(q = p /\ r = s)
      <3>1. tab'[q][r] = tab[q][r]
        BY <1>2, <2>3
      <3> QED BY <1>5, <2>1, <3>1
    <2> QED BY <2>2, <2>3
  <1>9. Ties(tab)'
    <2> SUFFICES ASSUME NEW q \in Packages, NEW a \in Checksums, NEW b \in Checksums,
                        a # b, tab'[q][a] = Top(tab', q), tab'[q][b] = Top(tab', q),
                        Top(tab', q) # NoValue
                 PROVE  Import(q, Top(tab', q)) \in imported'
      BY DEF Ties
    <2>1. CASE q # p
      <3>1. tab'[q] = tab[q] /\ Top(tab', q) = Top(tab, q)
        BY <1>2, <1>4, <2>1
      <3>2. Import(q, Top(tab, q)) \in imported
        BY <3>1 DEF Ties
      <3> QED BY <1>5, <3>1, <3>2
    <2>2. CASE q = p /\ a # s /\ b # s
      <3>1. tab[p][a] = Top(tab', p) /\ tab[p][b] = Top(tab', p)
        BY <1>2, <2>2
      <3>2. Top(tab', p) = Top(tab, p)
        BY <1>1, <1>3, <1>6, <3>1, TopExists
      <3>3. Import(p, Top(tab, p)) \in imported
        BY <2>2, <3>1, <3>2 DEF Ties
      <3> QED BY <1>5, <2>2, <3>2, <3>3
    <2>3. CASE q = p /\ (a = s \/ b = s)
      <3>1. PICK r \in Checksums : r # s /\ r \in {a, b}
        BY <2>3
      <3>2. v = Top(tab', p) /\ tab[p][r] = Top(tab', p)
        BY <1>2, <2>3, <3>1
      <3>3. v <= Top(tab, p) /\ v = Top(tab, p)
        BY <1>1, <1>3, <1>6, <3>1, <3>2, TopExists
      <3>4. CASE v = tab[p][s]
        <4>1. Import(p, v) \in imported
          BY <3>1, <3>2, <3>3, <3>4, <2>3 DEF Ties
        <4> QED BY <1>5, <2>3, <3>2, <4>1
      <3>5. CASE Import(p, v) \in imported'
        BY <2>3, <3>2, <3>5
      <3> QED BY <1>6, <3>3, <3>4, <3>5
    <2> QED BY <2>1, <2>2, <2>3
  <1> QED BY <1>8, <1>9

LEMMA TopInt ==
  ASSUME Typed, NEW p \in Packages
  PROVE  Top(db, p) \in Int /\ Top(tab, p) \in Int
  BY TopExists, ConstantsAssumption DEF Typed, TypeOK, Values, NoValue

LEMMA StandingFacts ==
  ASSUME Typed, NEW g \in Standing
  PROVE  g.pkg \in Packages /\ g.sum \in Checksums /\ g.value \in Int
  BY ConstantsAssumption DEF Typed, TypeOK, Standing, Given, Values, NoValue

\* A writable server: the revision is stored and handed out.
LEMMA WritableGetPr ==
  ASSUME IndInv, Typed', NEW p \in Packages, NEW s \in Checksums,
         GetPr(p, s), ~readOnly
  PROVE  IndInv'
  <1> DEFINE v == Revision(tab, p, s)
             n == [pkg |-> p, sum |-> s, value |-> v]
  <1>1. tab \in Table /\ db \in Table /\ tab' \in Table
    BY DEF IndInv, Typed, TypeOK
  <1>2. /\ v \in Values \ {NoValue} /\ tab[p][s] <= v /\ Top(tab, p) <= v
        /\ \/ v = tab[p][s] /\ v = Top(tab, p)
           \/ v = Top(tab, p) + 1
    BY <1>1, RevisionFacts DEF GetPr
  <1>3. v \in Int /\ Top(tab, p) \in Int /\ Top(db, p) \in Int /\ tab[p][s] \in Int
    BY <1>1, <1>2, TopInt, ConstantsAssumption DEF IndInv, Table, Values, NoValue
  <1>4. /\ tab' = Raised(tab, p, s, v) /\ db' = db /\ imported' = imported
        /\ answer' = n /\ given' = given \cup {n} /\ lost' = lost \ {n}
        /\ readOnly' = readOnly
    BY DEF GetPr, Raised, life
  <1>5. /\ tab'[p][s] = v
        /\ \A q \in Packages \ {p} : tab'[q] = tab[q]
    BY <1>1, <1>2, <1>4, RaisedTable
  <1>6. Top(tab', p) = v
    BY <1>1, <1>2, <1>4, TopOfRaised
  <1>7. \A q \in Packages \ {p} : Top(tab', q) = Top(tab, q)
    BY <1>5, TopElsewhere
  <1> HIDE DEF v
  <1>8. v = Top(tab, p) => tab' = tab
    BY <1>1, <1>2, <1>3, <1>4 DEF Raised, Table
  <1>9. Standing' = Standing \cup {n} /\ n.pkg = p /\ n.sum = s /\ n.value = v
    BY <1>4 DEF Standing
  <1>10. Fresh' /\ Ties(tab)'
    BY <1>2, <1>3, <1>4, RaiseKeepsTable DEF IndInv
  <1>11. Ties(db)'
    BY <1>4 DEF IndInv, Ties
  <1>12. \A g \in Standing : g.pkg = p => g.value <= Top(tab, p) /\ g.value <= v
    <2> TAKE g \in Standing
    <2> HAVE g.pkg = p
    <2>1. g.value <= Top(tab, p) /\ g.value \in Int
      BY StandingFacts DEF IndInv, Below
    <2> QED BY <1>2, <1>3, <2>1
  <1>13. NeverDecremented'
    BY <1>3, <1>4, <1>9, <1>12 DEF NeverDecremented, Standing
  <1>14. Below'
    <2> SUFFICES ASSUME NEW g \in Standing' PROVE g.value <= Top(tab', g.pkg)
      BY DEF Below
    <2>1. CASE g = n
      BY <1>3, <1>6, <1>9, <2>1
    <2>2. CASE g \in Standing
      BY <1>6, <1>7, <1>12, <2>2, StandingFacts DEF IndInv, Below
    <2> QED BY <1>9, <2>1, <2>2
  <1>15. Owned(tab)'
    <2> SUFFICES ASSUME NEW g \in Standing', g.value = Top(tab', g.pkg)
                 PROVE  tab'[g.pkg][g.sum] = g.value
                          \/ Import(g.pkg, g.value) \in imported'
      BY DEF Owned
    <2>1. CASE g = n
      BY <1>5, <1>9, <2>1
    <2>2. CASE g \in Standing /\ g.pkg # p
      BY <1>4, <1>5, <1>7, <2>2, StandingFacts DEF IndInv, Owned
    <2>3. CASE g \in Standing /\ g.pkg = p
      <3>1. g.value = v /\ g.value <= Top(tab, p)
        BY <1>6, <1>12, <2>3
      <3>2. v = Top(tab, p)
        BY <1>2, <1>3, <3>1
      <3> QED BY <1>4, <1>8, <2>3, <3>1, <3>2 DEF IndInv, Owned
    <2> QED BY <1>9, <2>1, <2>2, <2>3
  <1>16. Owned(db)'
    <2> SUFFICES ASSUME NEW g \in Standing', g.value = Top(db, g.pkg)
                 PROVE  db[g.pkg][g.sum] = g.value \/ Import(g.pkg, g.value) \in imported
      BY <1>4 DEF Owned
    <2>1. CASE g = n
      <3>1. v = Top(db, p) /\ Top(db, p) <= Top(tab, p)
        BY <1>9, <2>1, TopsOrdered DEF IndInv
      <3>2. v = Top(tab, p) /\ tab[p][s] = v
        BY <1>2, <1>3, <3>1
      <3>3. tab[p][s] = db[p][s] \/ tab[p][s] > Top(db, p)
              \/ Import(p, tab[p][s]) \in imported
        BY DEF IndInv, Fresh
      <3> QED BY <1>3, <1>9, <2>1, <3>1, <3>2, <3>3
    <2>2. CASE g \in Standing
      BY <2>2 DEF IndInv, Owned
    <2> QED BY <1>9, <2>1, <2>2
  <1>17. \A h \in Standing : h.pkg = p /\ h.value = v /\ h.sum # s =>
           Import(p, v) \in imported
    <2> TAKE h \in Standing
    <2> HAVE h.pkg = p /\ h.value = v /\ h.sum # s
    <2>1. v = Top(tab, p)
      BY <1>2, <1>3, <1>12
    <2>2. tab[p][s] = v /\ h.sum \in Checksums
      BY <1>2, <1>3, <2>1, StandingFacts DEF IndInv
    <2>3. tab[p][h.sum] = v \/ Import(p, v) \in imported
      BY <2>1 DEF IndInv, Owned
    <2> QED BY <1>2, <2>1, <2>2, <2>3 DEF IndInv, Ties
  <1>18. OneBuildPerRevision'
    <2> SUFFICES ASSUME NEW g \in Standing', NEW h \in Standing',
                        g.pkg = h.pkg, g.value = h.value, g.sum # h.sum
                 PROVE  Import(g.pkg, g.value) \in imported
      BY <1>4 DEF OneBuildPerRevision, Standing, Import
    <2>1. CASE g \in Standing /\ h \in Standing
      BY <2>1 DEF IndInv, OneBuildPerRevision, Standing, Import
    <2>2. CASE g = n \/ h = n
      BY <1>9, <1>17, <2>2
    <2> QED BY <1>9, <2>1, <2>2
  <1>19. Real'
    BY <1>2, <1>4, <1>9 DEF IndInv, Real
  <1> QED BY <1>10, <1>11, <1>13, <1>14, <1>15, <1>16, <1>18, <1>19 DEF IndInv

LEMMA ReadOnlyGetPr ==
  ASSUME IndInv, Typed', NEW p \in Packages, NEW s \in Checksums,
         GetPr(p, s), readOnly
  PROVE  IndInv'
  <1>1. UNCHANGED <<tab, db, given, lost, imported, readOnly>>
    BY DEF GetPr, life
  <1> QED BY <1>1 DEF IndInv, NeverDecremented, OneBuildPerRevision, Ties, Owned,
                      Fresh, Below, Real, Standing, Import

LEMMA ImportInd ==
  ASSUME IndInv, Typed', NEW p \in Packages, NEW s \in Checksums,
         NEW v \in ImportValues, ImportOne(p, s, v)
  PROVE  IndInv'
  <1> DEFINE w == Imported(tab, p, s, v)
  <1>1. tab \in Table /\ db \in Table
    BY DEF IndInv, Typed, TypeOK
  <1>2. v \in Values /\ w \in Values /\ tab[p][s] <= w /\ w \in {v, tab[p][s]}
    BY <1>1, ImportedFacts
  <1>3. w \in Int /\ Top(tab, p) \in Int /\ tab[p][s] \in Int
    BY <1>1, <1>2, TopInt, ConstantsAssumption DEF IndInv, Table, Values, NoValue
  <1>4. /\ tab' = Raised(tab, p, s, w) /\ db' = db
        /\ imported' = imported \cup {Import(p, v)}
        /\ UNCHANGED <<given, lost, answer, readOnly>> /\ Standing' = Standing
    BY DEF ImportOne, Raised, Import, life, Standing
  <1>5. /\ tab'[p][s] = w
        /\ \A r \in Checksums \ {s} : tab'[p][r] = tab[p][r]
        /\ \A q \in Packages \ {p} : tab'[q] = tab[q]
    BY <1>1, <1>2, <1>4, RaisedTable
  <1>6. Top(tab', p) = IF Top(tab, p) <= w THEN w ELSE Top(tab, p)
    BY <1>1, <1>2, <1>4, TopOfRaised
  <1>7. \A q \in Packages \ {p} : Top(tab', q) = Top(tab, q)
    BY <1>5, TopElsewhere
  <1> HIDE DEF w
  <1>8. Fresh' /\ Ties(tab)'
    BY <1>2, <1>4, RaiseKeepsTable DEF IndInv
  <1>9. Ties(db)' /\ Owned(db)' /\ Real'
    BY <1>4 DEF IndInv, Ties, Owned, Real
  <1>10. NeverDecremented' /\ OneBuildPerRevision'
    BY <1>4 DEF IndInv, NeverDecremented, OneBuildPerRevision
  <1>11. \A g \in Standing : g.value <= Top(tab, g.pkg) /\ g.value \in Int
    BY StandingFacts DEF IndInv, Below
  <1>12. Below'
    <2> SUFFICES ASSUME NEW g \in Standing PROVE g.value <= Top(tab', g.pkg)
      BY <1>4 DEF Below
    <2>1. CASE g.pkg = p
      BY <1>3, <1>6, <1>11, <2>1
    <2>2. CASE g.pkg # p
      BY <1>7, <1>11, <2>2, StandingFacts DEF IndInv
    <2> QED BY <2>1, <2>2
  <1>13. Owned(tab)'
    <2> SUFFICES ASSUME NEW g \in Standing, g.value = Top(tab', g.pkg)
                 PROVE  tab'[g.pkg][g.sum] = g.value
                          \/ Import(g.pkg, g.value) \in imported'
      BY <1>4 DEF Owned
    <2>1. CASE g.pkg # p
      BY <1>4, <1>5, <1>7, <2>1, StandingFacts DEF IndInv, Owned
    <2>2. CASE g.pkg = p
      <3>1. g.value = Top(tab, p) /\ w <= Top(tab, p)
        BY <1>3, <1>6, <1>11, <2>2
      <3>2. tab[p][g.sum] = g.value \/ Import(p, g.value) \in imported
        BY <2>2, <3>1 DEF IndInv, Owned
      <3>3. CASE g.sum = s /\ tab[p][s] = g.value
        BY <1>2, <1>3, <1>5, <2>2, <3>1, <3>3
      <3>4. CASE g.sum # s /\ tab[p][g.sum] = g.value
        BY <1>5, <2>2, <3>4, StandingFacts DEF IndInv
      <3> QED BY <1>4, <2>2, <3>2, <3>3, <3>4
    <2> QED BY <2>1, <2>2
  <1> QED BY <1>8, <1>9, <1>10, <1>12, <1>13 DEF IndInv

\* A commit, or nothing at all.
LEMMA SyncInd ==
  ASSUME IndInv, Typed', db' \in {db, tab},
         UNCHANGED <<tab, given, lost, imported, answer, readOnly>>
  PROVE  IndInv'
  <1>1. CASE db' = db
    BY <1>1 DEF IndInv, NeverDecremented, OneBuildPerRevision, Ties, Owned,
                Fresh, Below, Real, Standing
  <1>2. CASE db' = tab
    <2>1. \A p \in Packages, s \in Checksums : tab[p][s] \in Int
      BY ConstantsAssumption DEF IndInv, Typed, TypeOK, Table, Values, NoValue
    <2>2. Fresh'
      BY <1>2, <2>1 DEF Fresh
    <2> QED BY <1>2, <2>2 DEF IndInv, NeverDecremented, OneBuildPerRevision, Ties,
                              Owned, Below, Real, Standing
  <1> QED BY <1>1, <1>2

\* The table goes back to what is committed, and what lies above it is lost.
LEMMA ResetInd ==
  ASSUME IndInv, Typed', tab' = db, UNCHANGED <<db, given, imported>>,
         lost \subseteq lost',
         \A g \in given \ lost' : g.value <= Top(db, g.pkg),
         answer' = NoAnswer
  PROVE  IndInv'
  <1>1. Standing' \subseteq Standing
    BY DEF Standing
  <1>2. \A p \in Packages, s \in Checksums : db[p][s] \in Int
    BY ConstantsAssumption DEF IndInv, Typed, TypeOK, Table, Values, NoValue
  <1>3. Fresh'
    BY <1>2 DEF Fresh
  <1>4. Below'
    BY DEF Below, Standing
  <1>5. Owned(db)' /\ Owned(tab)'
    BY <1>1 DEF Owned, IndInv
  <1>6. Ties(db)' /\ Ties(tab)'
    BY DEF Ties, IndInv
  <1>7. OneBuildPerRevision'
    BY DEF OneBuildPerRevision, IndInv
  <1>8. NeverDecremented'
    BY DEF NeverDecremented
  <1> QED BY <1>3, <1>4, <1>5, <1>6, <1>7, <1>8 DEF IndInv, Real

LEMMA StepInd == IndInv /\ [Next]_vars => IndInv'
  <1> SUFFICES ASSUME IndInv, [Next]_vars PROVE IndInv'
    OBVIOUS
  <1>0. Typed'
    BY StepTyped DEF IndInv
  <1>1. CASE Requests
    <2>1. CASE \E p \in Packages, s \in Checksums : GetPr(p, s)
      BY <1>0, <2>1, WritableGetPr, ReadOnlyGetPr
    <2>2. CASE \E p \in Packages, s \in Checksums, v \in ImportValues : ImportOne(p, s, v)
      BY <1>0, <2>2, ImportInd
    <2>3. CASE HandleBad
      BY <1>0, <2>3, SyncInd DEF HandleBad, Sync, life
    <2> QED BY <1>1, <2>1, <2>2, <2>3 DEF Requests
  <1>2. tab = db => \A g \in Standing : g.value <= Top(db, g.pkg)
    BY DEF IndInv, Below
  <1>3. CASE Start
    BY <1>0, <1>2, <1>3, ResetInd DEF Start, IndInv, Typed, Closed, Silent, Standing
  <1>4. CASE Signal
    BY <1>0, <1>4, SyncInd DEF Signal, Sync
  <1>5. CASE Stop
    BY <1>0, <1>5, SyncInd DEF Stop, SyncIfDirty, Sync
  <1>6. CASE Exit
    BY <1>0, <1>2, <1>6, ResetInd DEF Exit, Gone, IndInv, Typed, Closed, Standing
  <1>7. CASE Crash
    <2>1. \A g \in given \ lost' : ~(g.value > Top(db, g.pkg))
      BY <1>7 DEF Crash
    <2>2. \A g \in given : g.value \in Int /\ Top(db, g.pkg) \in Int
      BY TopInt, ConstantsAssumption DEF IndInv, Typed, TypeOK, Given, Values, NoValue
    <2>3. \A g \in given \ lost' : g.value <= Top(db, g.pkg)
      BY <2>1, <2>2
    <2> QED BY <1>0, <1>7, <2>3, ResetInd DEF Crash, Gone
  <1>8. CASE UNCHANGED vars
    BY <1>0, <1>8, SyncInd DEF vars, table, life
  <1> QED BY <1>1, <1>3, <1>4, <1>5, <1>6, <1>7, <1>8 DEF Next

\* "This means the PR value returned can NOT be decremented": for every set of
\* packages and checksums, through imports, stops, restarts and crashes, a
\* writable server answers no less than any revision that was not undone.
THEOREM RevisionsNeverGoDown == Spec => []NeverDecremented
  <1>1. IndInv => NeverDecremented
    BY DEF IndInv
  <1> QED BY <1>1, InitInd, StepInd, PTL DEF Spec

\* Two different builds of a package never share a revision, unless it was imported.
THEOREM RevisionsAreNotShared == Spec => []OneBuildPerRevision
  <1>1. IndInv => OneBuildPerRevision
    BY DEF IndInv
  <1> QED BY <1>1, InitInd, StepInd, PTL DEF Spec

-----------------------------------------------------------------------------
(* The server implements its contract *)

RankAt(t, p) == [top |-> Top(t, p), owners |-> {s \in Checksums : t[p][s] = Top(t, p)}]

LEMMA RankIs ==
  /\ \A t : RankOf(t) = [p \in Packages |-> RankAt(t, p)]
  /\ RankOf(tab)' = RankOf(tab') /\ RankOf(db)' = RankOf(db')
  BY DEF RankOf, RankAt, Top

\* Raising a row changes the rank of its package only: to the row alone when it
\* exceeds the others, by one more owner when it draws level.
LEMMA RankOfRaised ==
  ASSUME NEW t \in Table, NEW p \in Packages, NEW s \in Checksums,
         NEW v \in Values, t[p][s] < v
  PROVE  /\ v > Top(t, p) => RankOf(Raised(t, p, s, v)) =
              [RankOf(t) EXCEPT ![p] = [top |-> v, owners |-> {s}]]
         /\ v = Top(t, p) => RankOf(Raised(t, p, s, v)) =
              [RankOf(t) EXCEPT ![p].owners = @ \cup {s}]
         /\ v < Top(t, p) => RankOf(Raised(t, p, s, v)) = RankOf(t)
  <1> DEFINE u == Raised(t, p, s, v)
  <1>1. /\ u \in Table /\ u[p][s] = v
        /\ \A r \in Checksums \ {s} : u[p][r] = t[p][r]
        /\ \A q \in Packages \ {p} : u[q] = t[q]
    BY RaisedTable
  <1>2. /\ v \in Int /\ Top(t, p) \in Int
        /\ \A r \in Checksums : t[p][r] \in Int /\ t[p][r] <= Top(t, p)
    BY TopExists, ConstantsAssumption DEF Table, Values, NoValue
  <1>3. Top(u, p) = IF Top(t, p) <= v THEN v ELSE Top(t, p)
    BY <1>2, TopOfRaised
  <1> HIDE DEF u
  <1>4. \A q \in Packages \ {p} : RankAt(u, q) = RankAt(t, q)
    <2> TAKE q \in Packages \ {p}
    <2>1. u[q] = t[q]
      BY <1>1
    <2>2. Top(u, q) = Top(t, q)
      BY <2>1, TopElsewhere
    <2> QED BY <2>1, <2>2 DEF RankAt
  <1>5. v > Top(t, p) => RankAt(u, p) = [top |-> v, owners |-> {s}]
    <2> HAVE v > Top(t, p)
    <2>1. Top(u, p) = v
      BY <1>2, <1>3
    <2>2. \A r \in Checksums : u[p][r] = v <=> r = s
      BY <1>1, <1>2
    <2>3. {r \in Checksums : u[p][r] = Top(u, p)} = {s}
      BY <2>1, <2>2
    <2> QED BY <2>1, <2>3 DEF RankAt
  <1>6. v = Top(t, p) =>
          RankAt(u, p) = [RankAt(t, p) EXCEPT !.owners = @ \cup {s}]
    <2> HAVE v = Top(t, p)
    <2>1. Top(u, p) = Top(t, p)
      BY <1>2, <1>3
    <2>2. {r \in Checksums : u[p][r] = Top(u, p)} =
            {r \in Checksums : t[p][r] = Top(t, p)} \cup {s}
      BY <1>1, <2>1
    <2>3. RankAt(u, p) = [top |-> Top(t, p),
                          owners |-> {r \in Checksums : t[p][r] = Top(t, p)} \cup {s}]
      BY <2>1, <2>2 DEF RankAt
    <2>4. \A a, A : [[top |-> a, owners |-> A] EXCEPT !.owners = @ \cup {s}]
                     = [top |-> a, owners |-> A \cup {s}]
      OBVIOUS
    <2>5. RankAt(t, p) = [top |-> Top(t, p),
                          owners |-> {r \in Checksums : t[p][r] = Top(t, p)}]
      BY DEF RankAt
    <2> QED BY <2>3, <2>4, <2>5
  <1>7. v < Top(t, p) => RankAt(u, p) = RankAt(t, p)
    <2> HAVE v < Top(t, p)
    <2>1. Top(u, p) = Top(t, p)
      BY <1>2, <1>3
    <2>2. \A r \in Checksums : u[p][r] = Top(u, p) <=> t[p][r] = Top(t, p)
      BY <1>1, <1>2, <2>1
    <2>3. {r \in Checksums : u[p][r] = Top(u, p)} = {r \in Checksums : t[p][r] = Top(t, p)}
      BY <2>2
    <2> QED BY <2>1, <2>3 DEF RankAt
  <1> QED BY <1>4, <1>5, <1>6, <1>7, RankIs DEF u

LEMMA ContractInit == Init => Contract!Init
  <1> SUFFICES ASSUME Init PROVE Contract!Init
    OBVIOUS
  <1>1. \A p \in Packages : RankAt(db, p) = [top |-> -1, owners |-> Checksums]
    <2> TAKE p \in Packages
    <2>1. PICK s \in Checksums : TRUE
      BY ConstantsAssumption
    <2>2. db \in Table /\ \A r \in Checksums : db[p][r] = -1
      BY InitTyped DEF Typed, TypeOK, Init, NoValue
    <2>3. Top(db, p) = -1
      BY <2>1, <2>2, TopIs
    <2>4. {r \in Checksums : db[p][r] = Top(db, p)} = Checksums
      BY <2>2, <2>3
    <2> QED BY <2>3, <2>4 DEF RankAt
  <1>2. RankOf(db) = [p \in Packages |-> [top |-> -1, owners |-> Checksums]]
    BY <1>1, RankIs
  <1>3. tab = db
    BY DEF Init
  <1> QED BY <1>2, <1>3 DEF Contract!Init

Stutter == UNCHANGED <<RankOf(tab), RankOf(db)>>

LEMMA ContractGetPr ==
  ASSUME Typed, NEW p \in Packages, NEW s \in Checksums, GetPr(p, s)
  PROVE  Contract!Next \/ Stutter
  <1> DEFINE v == Revision(tab, p, s)
  <1>1. tab \in Table
    BY DEF Typed, TypeOK
  <1>2. /\ v \in Values \ {NoValue} /\ tab[p][s] <= v /\ Top(tab, p) <= v
        /\ HasTop(tab, p, s) => v = tab[p][s]
        /\ ~HasTop(tab, p, s) => v = Top(tab, p) + 1
    BY <1>1, RevisionFacts DEF GetPr
  <1>3. db' = db
    BY DEF GetPr
  <1> HIDE DEF v
  <1>4. CASE readOnly \/ HasTop(tab, p, s)
    <2>1. tab' = tab
      BY <1>1, <1>2, <1>4 DEF GetPr, Table, v
    <2> QED BY <1>3, <2>1, RankIs DEF Stutter
  <1>5. CASE ~readOnly /\ ~HasTop(tab, p, s)
    <2>1. tab' = Raised(tab, p, s, v)
      BY <1>5 DEF GetPr, Raised, v
    <2>2. tab[p][s] \in Int /\ Top(tab, p) \in Int /\ tab[p][s] <= Top(tab, p)
      BY <1>1, TopExists, ConstantsAssumption DEF Table, Values, NoValue
    <2>3. tab[p][s] < v /\ v > Top(tab, p) /\ v = Top(tab, p) + 1
      BY <1>2, <1>5, <2>2
    <2>4. RankOf(tab') = [RankOf(tab) EXCEPT ![p] = [top |-> v, owners |-> {s}]]
      BY <1>1, <1>2, <2>1, <2>3, RankOfRaised
    <2>5. RankOf(tab)[p] = RankAt(tab, p)
      BY RankIs
    <2>6. s \notin RankAt(tab, p).owners \/ RankAt(tab, p).top = -1
      BY <1>5, <2>2 DEF RankAt, HasTop, NoValue
    <2>7. RankAt(tab, p).top + 1 = v
      BY <2>3 DEF RankAt
    <2>8. Contract!Advance(p, s)
      BY <1>3, <2>4, <2>5, <2>6, <2>7, RankIs DEF Contract!Advance
    <2> QED BY <2>8 DEF Contract!Next
  <1>6. readOnly \in BOOLEAN
    BY DEF Typed, TypeOK
  <1> QED BY <1>4, <1>5, <1>6

LEMMA ContractImport ==
  ASSUME Typed, NEW p \in Packages, NEW s \in Checksums, NEW v \in ImportValues,
         ImportOne(p, s, v)
  PROVE  Contract!Next \/ Stutter
  <1>1. tab \in Table /\ v \in Values \ {-1}
    BY ImportedFacts DEF Typed, TypeOK, NoValue
  <1>2. tab[p][s] \in Int /\ Top(tab, p) \in Int /\ v \in Int
    BY <1>1, TopExists, ConstantsAssumption DEF Table, Values, NoValue
  <1>3. db' = db
    BY DEF ImportOne
  <1>4. CASE ~(tab[p][s] < v)
    <2>1. tab' = tab
      BY <1>1, <1>4 DEF ImportOne, Imported, Table
    <2> QED BY <1>3, <2>1, RankIs DEF Stutter
  <1>5. CASE tab[p][s] < v
    <2>1. tab' = Raised(tab, p, s, v)
      BY <1>5 DEF ImportOne, Imported, Raised
    <2>2. RankOf(tab)[p].top = Top(tab, p)
      BY RankIs DEF RankAt
    <2>3. CASE v > Top(tab, p)
      <3>1. RankOf(tab') = [RankOf(tab) EXCEPT ![p] = [top |-> v, owners |-> {s}]]
        BY <1>1, <1>5, <2>1, <2>3, RankOfRaised
      <3>2. Contract!Import(p, s, v)
        BY <1>3, <2>2, <2>3, <3>1, RankIs DEF Contract!Import
      <3> QED BY <1>1, <3>2 DEF Contract!Next
    <2>4. CASE v = Top(tab, p)
      <3>1. RankOf(tab') = [RankOf(tab) EXCEPT ![p].owners = @ \cup {s}]
        BY <1>1, <1>5, <2>1, <2>4, RankOfRaised
      <3>2. Contract!Import(p, s, v)
        BY <1>3, <2>2, <2>4, <3>1, RankIs DEF Contract!Import
      <3> QED BY <1>1, <3>2 DEF Contract!Next
    <2>5. CASE v < Top(tab, p)
      <3>1. RankOf(tab') = RankOf(tab)
        BY <1>1, <1>5, <2>1, <2>5, RankOfRaised
      <3> QED BY <1>3, <3>1, RankIs DEF Stutter
    <2> QED BY <1>2, <2>3, <2>4, <2>5
  <1> QED BY <1>4, <1>5

\* A commit is the contract's Save, the rollback of a crash its Lose.
LEMMA ContractSync ==
  ASSUME tab' = tab, db' \in {db, tab}
  PROVE  Contract!Next \/ Stutter
  BY RankIs DEF Contract!Next, Contract!Save, Stutter

LEMMA ContractReset ==
  ASSUME tab' = db, db' = db
  PROVE  Contract!Next \/ Stutter
  BY RankIs DEF Contract!Next, Contract!Lose, Stutter

LEMMA ContractStep == Typed /\ [Next]_vars => [Contract!Next]_<<RankOf(tab), RankOf(db)>>
  <1> SUFFICES ASSUME Typed, [Next]_vars PROVE Contract!Next \/ Stutter
    BY DEF Stutter
  <1>1. CASE Requests
    <2>1. CASE \E p \in Packages, s \in Checksums : GetPr(p, s)
      BY <2>1, ContractGetPr
    <2>2. CASE \E p \in Packages, s \in Checksums, v \in ImportValues : ImportOne(p, s, v)
      BY <2>2, ContractImport
    <2>3. CASE HandleBad
      BY <2>3, ContractSync DEF HandleBad, Sync
    <2> QED BY <1>1, <2>1, <2>2, <2>3 DEF Requests
  <1>2. CASE Start
    BY <1>2, ContractReset DEF Start
  <1>3. CASE Signal
    BY <1>3, ContractSync DEF Signal, Sync
  <1>4. CASE Stop
    BY <1>4, ContractSync DEF Stop, SyncIfDirty, Sync
  <1>5. CASE Exit \/ Crash
    BY <1>5, ContractReset DEF Exit, Crash, Gone
  <1>6. CASE UNCHANGED vars
    BY <1>6, ContractSync DEF vars, table
  <1> QED BY <1>1, <1>2, <1>3, <1>4, <1>5, <1>6 DEF Next

\* The PR server implements PRContract: its table, with commits, rollbacks and
\* restarts, behaves as one highest revision per package with its owners.
THEOREM Implementation == Spec => ImplementsContract
  <1> USE DEF ImplementsContract, Contract!Spec
  <1> QED BY ContractInit, ContractStep, InitTyped, StepTyped, PTL DEF Spec

-----------------------------------------------------------------------------
(* Export and import *)

LEMMA ReimportedIs ==
  ASSUME NEW t \in Table, NEW p \in Packages
  PROVE  \A s \in Checksums : Reimported(t)[p][s] = IF HasTop(t, p, s) THEN t[p][s] ELSE NoValue
  <1> SUFFICES ASSUME NEW s \in Checksums
               PROVE  Reimported(t)[p][s] = IF HasTop(t, p, s) THEN t[p][s] ELSE NoValue
    OBVIOUS
  <1> DEFINE Rows == {r \in Export(t) : r.pkg = p /\ r.sum = s}
             mine == [pkg |-> p, sum |-> s, value |-> t[p][s]]
  <1>1. Reimported(t)[p][s] =
          IF \E r \in Export(t) : r.pkg = p /\ r.sum = s
          THEN (CHOOSE r \in Export(t) : r.pkg = p /\ r.sum = s).value ELSE NoValue
    BY DEF Reimported
  <1>2. \A r \in Export(t) : r.value = t[r.pkg][r.sum] /\ HasTop(t, r.pkg, r.sum)
    BY DEF Export
  <1>3. CASE HasTop(t, p, s)
    <2>1. mine \in Export(t)
      BY <1>3 DEF Export, HasTop, Table
    <2>2. \E r \in Export(t) : r.pkg = p /\ r.sum = s
      BY <2>1
    <2>3. PICK r \in Export(t) : r = CHOOSE x \in Export(t) : x.pkg = p /\ x.sum = s
      BY <2>2
    <2>4. r.pkg = p /\ r.sum = s
      BY <2>2, <2>3
    <2> QED BY <1>1, <1>2, <1>3, <2>2, <2>3, <2>4
  <1>4. CASE ~HasTop(t, p, s)
    BY <1>1, <1>2, <1>4
  <1> QED BY <1>3, <1>4

LEMMA ReimportKeepsRevisions ==
  ASSUME NEW t \in Table, NEW p \in Packages, NEW s \in Checksums
  PROVE  Revision(Reimported(t), p, s) = Revision(t, p, s)
  <1> DEFINE u == Reimported(t)
  <1>1. \A c \in Checksums : u[p][c] = IF HasTop(t, p, c) THEN t[p][c] ELSE NoValue
    BY ReimportedIs
  <1>2. u \in Table
    <2>1. \A q \in Packages, c \in Checksums : u[q][c] \in Values
      <3> TAKE q \in Packages, c \in Checksums
      <3>1. u[q][c] = IF HasTop(t, q, c) THEN t[q][c] ELSE NoValue
        BY ReimportedIs
      <3>2. t[q][c] \in Values /\ NoValue \in Values
        BY ConstantsAssumption DEF Table, Values, NoValue
      <3> QED BY <3>1, <3>2
    <2>2. u = [q \in Packages |-> [c \in Checksums |-> u[q][c]]]
      BY DEF Reimported
    <2> HIDE DEF u
    <2> QED BY <2>1, <2>2 DEF Table
  <1> HIDE DEF u
  <1>3. \A c \in Checksums : /\ t[p][c] \in Int /\ t[p][c] <= Top(t, p)
                             /\ NoValue <= t[p][c] /\ u[p][c] \in Int
    BY <1>2, TopExists, ConstantsAssumption DEF Table, Values, NoValue
  <1>4. Top(t, p) \in Int /\ NoValue \in Int
    BY TopExists, ConstantsAssumption DEF Values, NoValue
  <1>5. PICK m \in Checksums : t[p][m] = Top(t, p)
    BY TopExists
  <1>6. u[p][m] = Top(t, p)
    BY <1>1, <1>3, <1>4, <1>5 DEF HasTop
  <1>7. Top(u, p) = Top(t, p)
    <2>1. \A c \in Checksums : u[p][c] <= u[p][m]
      BY <1>1, <1>3, <1>4, <1>5, <1>6
    <2> QED BY <1>2, <1>6, <2>1, TopIs
  <1>8. HasTop(u, p, s) <=> HasTop(t, p, s)
    BY <1>1, <1>3, <1>4, <1>7 DEF HasTop
  <1> QED BY <1>1, <1>7, <1>8 DEF Revision, u

\* An export imported into an empty table gives every checksum the revision
\* that the first server would give it, at any point of its life (export,
\* importone, _get_value_no_hist).
THEOREM ExportsAreFaithful == Spec => []ExportKeepsRevisions
  <1>1. TypeOK => ExportKeepsRevisions
    BY ReimportKeepsRevisions DEF TypeOK, ExportKeepsRevisions
  <1> QED BY <1>1, TypeCorrect, PTL
=============================================================================
