------------------------------ MODULE PRServer ------------------------------
(***************************************************************************)
(* The PR server (prserv): clients ask for the revision of a package built *)
(* from a checksum; the server keeps one table in "no history" mode, the   *)
(* only one PRServer opens, inside an SQLite transaction that it commits   *)
(* at few places.                                                          *)
(*                                                                         *)
(* A handler has no await, so handling one request is one step.  A client  *)
(* repeats a request after a time-out or a broken connection, and one it   *)
(* gave up may be read late: so any request may be handled at any time,    *)
(* any number of times, and its answer may reach nobody.  SQLite is        *)
(* external: what was not committed is lost with the process.              *)
(***************************************************************************)
EXTENDS Integers

CONSTANTS
  Packages,      \* (version, pkgarch) pairs
  Checksums,     \* checksums of do_package
  ImportValues,  \* revisions that import-one brings in
  ReadOnlyModes, \* how the server may be started: a subset of BOOLEAN
  MaxValue,      \* bound on revisions
  MaxStarts,     \* bound on starts of the server
  MaxCrashes     \* bound on deaths without a stop

NoValue == -1                   \* no row
Values  == NoValue..MaxValue

ASSUME ConstantsAssumption ==
  /\ Checksums # {}
  /\ ImportValues \subseteq 0..MaxValue
  /\ ReadOnlyModes \subseteq BOOLEAN
  /\ MaxValue \in Nat
  /\ MaxStarts \in Nat /\ MaxCrashes \in Nat

VARIABLES
  db,        \* the committed rows: package -> checksum -> value
  tab,       \* the rows as the connection of the server sees them
  dirty,     \* PRTable.dirty
  server,    \* "down", "up", "stopping" (signal seen), "closed" (database closed)
  readOnly,  \* PRServer.read_only
  answer,    \* the last answer to a get-pr, and what it was asked for
  starts, crashes,  \* bounded counters
  given,     \* history: revisions get-pr of a writable server handed out
  lost,      \* history: those of them that a crash undid
  imported   \* history: package and value pairs that were imported

table == <<db, tab, dirty, given, lost, imported>>
life  == <<server, readOnly, starts, crashes>>
vars  == <<table, life, answer>>

Given == [pkg : Packages, sum : Checksums, value : Values]

-----------------------------------------------------------------------------
(* The table: PRTable *)

\* select max(value); NoValue stands for NULL, so that ifnull(max + 1, 0) is
\* Top + 1.
Top(t, p) ==
  CHOOSE v \in {t[p][s] : s \in Checksums} : \A s \in Checksums : t[p][s] <= v

HasTop(t, p, s) == t[p][s] # NoValue /\ t[p][s] >= Top(t, p)

SameTop(t, p, s) ==       \* mutant: the new row takes the highest value itself
  IF HasTop(t, p, s) \/ Top(t, p) # NoValue THEN Top(t, p) ELSE 0

\* _get_value_no_hist: the value of the row if it is the highest, else a new one.
Revision(t, p, s) == IF HasTop(t, p, s) THEN t[p][s] ELSE Top(t, p) + 1

BlindImport(t, p, s, v) == v    \* mutant: the update lacks "AND value<?"

\* _import_no_hist: insert, or raise the row that is there.
Imported(t, p, s, v) == IF t[p][s] < v THEN v ELSE t[p][s]

OnePerPackage(t) ==       \* mutant: one row per package, the lowest
  {r \in [pkg : Packages, sum : Checksums, value : Values \ {NoValue}] :
     r.value = t[r.pkg][r.sum] /\ \A s \in Checksums : r.value <= t[r.pkg][s]}

\* export: the rows that hold the highest value of their package.
Export(t) ==
  {r \in [pkg : Packages, sum : Checksums, value : Values \ {NoValue}] :
     r.value = t[r.pkg][r.sum] /\ HasTop(t, r.pkg, r.sum)}

-----------------------------------------------------------------------------
(* Requests: PRServerClient *)

Listening == server \in {"up", "stopping"}

NoAnswer == [pkg |-> "none"]

\* PRTable.sync, sync_if_dirty
Sync == db' = IF readOnly THEN db ELSE tab
SyncIfDirty == IF dirty THEN Sync /\ dirty' = FALSE ELSE UNCHANGED <<db, dirty>>

\* handle_get_pr; a read-only server makes a revision up and keeps nothing.
\* dispatch_message returns from inside its try, so that the "else" with its
\* sync_if_dirty never runs: neither this nor an import is committed here.
GetPr(p, s) ==
  LET v == Revision(tab, p, s) IN
  /\ Listening /\ v <= MaxValue
  /\ answer' = [pkg |-> p, sum |-> s, value |-> v]
  /\ IF readOnly THEN UNCHANGED <<tab, dirty, given, lost>>
     ELSE /\ tab' = [tab EXCEPT ![p][s] = v]
          /\ dirty' = (dirty \/ ~HasTop(tab, p, s))
          /\ given' = given \cup {answer'} /\ lost' = lost \ {answer'}
  /\ UNCHANGED <<db, imported, life>>

\* handle_import_one
ImportOne(p, s, v) ==
  /\ Listening /\ ~readOnly
  /\ tab' = [tab EXCEPT ![p][s] = Imported(tab, p, s, v)]
  /\ dirty' = TRUE
  /\ imported' = imported \cup {[pkg |-> p, value |-> v]}
  /\ UNCHANGED <<db, given, lost, life, answer>>

\* An unknown command, or a handler that raises: sync() commits and leaves
\* dirty as it is; the connection of whoever sent it is closed.
HandleBad ==
  /\ Listening
  /\ Sync
  /\ UNCHANGED <<tab, dirty, given, lost, imported, life, answer>>

-----------------------------------------------------------------------------
(* The server process: PRServer *)

\* The connection reads the committed rows.
Start ==
  /\ server = "down" /\ starts < MaxStarts
  /\ server' = "up" /\ readOnly' \in ReadOnlyModes /\ starts' = starts + 1
  /\ tab' = db /\ dirty' = FALSE
  /\ UNCHANGED <<db, given, lost, imported, crashes, answer>>

\* signal_handler: the stop is scheduled, then sync().
Signal ==
  /\ server = "up"
  /\ server' = "stopping"
  /\ Sync
  /\ UNCHANGED <<tab, dirty, given, lost, imported, readOnly, starts, crashes, answer>>

StopUnsynced ==           \* mutant: stop() closes the database without the sync
  /\ server = "stopping"
  /\ server' = "closed"
  /\ UNCHANGED db
  /\ UNCHANGED <<tab, dirty, given, lost, imported, readOnly, starts, crashes, answer>>

\* stop: requests handled since the signal are committed, the database closed.
Stop ==
  /\ server = "stopping"
  /\ server' = "closed"
  /\ SyncIfDirty
  /\ UNCHANGED <<tab, given, lost, imported, readOnly, starts, crashes, answer>>

\* The process ends: what its connection saw and had not committed is gone.
Gone ==
  /\ server' = "down" /\ readOnly' = FALSE
  /\ tab' = db /\ dirty' = FALSE
  /\ answer' = NoAnswer
  /\ UNCHANGED <<db, given, imported, starts>>

Exit == server = "closed" /\ Gone /\ UNCHANGED <<lost, crashes>>

\* Killed, or the machine went down: the open transaction is rolled back.
Crash ==
  /\ server # "down" /\ crashes < MaxCrashes
  /\ Gone
  /\ lost' = lost \cup {g \in given : g.value > Top(db, g.pkg)}
  /\ crashes' = crashes + 1

-----------------------------------------------------------------------------

Init ==
  /\ db = [p \in Packages |-> [s \in Checksums |-> NoValue]] /\ tab = db
  /\ dirty = FALSE
  /\ server = "down" /\ readOnly = FALSE /\ starts = 0 /\ crashes = 0
  /\ answer = NoAnswer /\ given = {} /\ lost = {} /\ imported = {}

Requests ==
  \/ \E p \in Packages, s \in Checksums :
       GetPr(p, s) \/ \E v \in ImportValues : ImportOne(p, s, v)
  \/ HandleBad

Next == Requests \/ Start \/ Signal \/ Stop \/ Exit \/ Crash

Spec == Init /\ [][Next]_vars

-----------------------------------------------------------------------------
(* Properties *)

Table == [Packages -> [Checksums -> Values]]

\* Types; uncommitted rows make the table dirty, which is what lets a stop
\* that syncs "if dirty" lose nothing; a read-only server changes nothing.
TypeOK ==
  /\ db \in Table /\ tab \in Table /\ dirty \in BOOLEAN
  /\ server \in {"down", "up", "stopping", "closed"} /\ readOnly \in BOOLEAN
  /\ starts \in 0..MaxStarts /\ crashes \in 0..MaxCrashes
  /\ answer \in Given \cup {NoAnswer} /\ given \subseteq Given /\ lost \subseteq given
  /\ imported \subseteq [pkg : Packages, value : Values]
  /\ tab # db => dirty /\ ~readOnly

\* "This means the PR value returned can NOT be decremented": what a writable
\* server answers is never below a revision handed out before for the package,
\* across imports, repeated and abandoned requests, stops and restarts - and
\* across crashes, as far as revisions a commit has covered are concerned.
NeverDecremented ==
  answer # NoAnswer /\ ~readOnly =>
    \A g \in given \ lost : g.pkg = answer.pkg => g.value <= answer.value

\* One revision of a package stands for one checksum: two different builds are
\* never given the same revision, unless it came in by an import.
OneBuildPerRevision ==
  \A g, h \in given \ lost :
    g.pkg = h.pkg /\ g.value = h.value /\ g.sum # h.sum =>
      [pkg |-> g.pkg, value |-> g.value] \in imported

\* Exporting the table and importing it elsewhere loses nothing that matters:
\* every checksum is given the same revision by both servers.
Reimported(t) ==
  [p \in Packages |-> [s \in Checksums |->
     IF \E r \in Export(t) : r.pkg = p /\ r.sum = s
       THEN (CHOOSE r \in Export(t) : r.pkg = p /\ r.sum = s).value ELSE NoValue]]

ExportKeepsRevisions ==
  \A p \in Packages, s \in Checksums :
    Revision(Reimported(tab), p, s) = Revision(tab, p, s)

\* The server implements the contract: the table stands for the highest
\* revision of each package and its owners.
RankOf(t) ==
  [p \in Packages |-> [top |-> Top(t, p),
                       owners |-> {s \in Checksums : t[p][s] = Top(t, p)}]]

Contract == INSTANCE PRContract WITH now <- RankOf(tab), saved <- RankOf(db)

ImplementsContract == Contract!Spec

-----------------------------------------------------------------------------
(* Claim of a comment, refuted by the run claim_pr *)

\* "This means the PR value returned can NOT be decremented", for everything
\* that was returned: not below what a get-pr was told before a crash.
ReturnedNeverDecremented ==
  answer # NoAnswer /\ ~readOnly =>
    \A g \in given : g.pkg = answer.pkg => g.value <= answer.value
=============================================================================
