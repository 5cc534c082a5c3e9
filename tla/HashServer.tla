---------------------------- MODULE HashServer ----------------------------
(***************************************************************************)
(* The hash equivalence server (lib/hashserv/server.py) over its sqlite    *)
(* engine (sqlite.py), with an optional upstream server.  Two tables: the  *)
(* unihash of every taskhash, and the output hashes reported for taskhashes*)
(* in the order of their creation.  All handlers run in one event loop and *)
(* every call into sqlite is synchronous, so a handler is cut only where it*)
(* awaits the upstream server.  One hash method stands for all of them (it *)
(* is part of every key).  A request is a parameter of its action: clients *)
(* resend them (asyncrpc), so each may arrive at any time, any number of   *)
(* times, with or without the permission to report.                        *)
(***************************************************************************)
EXTENDS Naturals, Sequences, FiniteSets

CONSTANTS
  Tasks,        \* taskhashes
  Outs,         \* output hashes
  Unis,         \* unihashes
  Marks,        \* names of garbage collections
  Conns,        \* connections, each with at most one request in flight
  None,
  Conditions,   \* WHERE clauses: [method, task, out, uni], None = not named
  MaxAges,      \* max_age of clean-unused, in days
  MaxDays, MaxRows, MaxUpstream, MaxQueue, MaxCrashes    \* bounds of the instance

ASSUME NoneAssumption == None \notin Tasks \cup Outs \cup Unis \cup Marks

VARIABLES
  db,           \* unihashes_v3 (uni) and outhashes_v2 (rows: [task, out, day, remote,
                \* at], at is the place in the order of creation)
  rowMark,      \* column gc_mark of unihashes_v3
  mark,         \* config value gc-mark
  today,
  up,           \* the tables of the upstream server
  hasUpstream,
  conn,         \* the handler that each connection has suspended
  backfill,     \* backfill_queue
  worker,       \* the item backfill_worker_task is fetching
  server,       \* "up" or "down"
  crashes,
  told,         \* history: unihashes that clients were answered for a task
  origin,       \* history: where the unihash of a task came from: "none", "report",
                \* "equiv", "upstream", or "forgotten" (removed)
  cut,          \* history: outputs that lost a row, or the entry of a task of theirs
  kept          \* history: entries marked or added in this garbage collection

tables == <<db, rowMark, mark>>
history == <<told, origin, cut, kept>>
vars == <<tables, today, up, hasUpstream, conn, backfill, worker, server, crashes,
          history>>

At(r, n) == [task |-> r.task, out |-> r.out, day |-> r.day, remote |-> r.remote, at |-> n]

LocalRow(t, o) == [task |-> t, out |-> o, day |-> today, remote |-> FALSE]
RemoteRow(g)   == [task |-> g.task, out |-> g.out, day |-> g.day, remote |-> TRUE]

Idle     == [op |-> "idle"]

-----------------------------------------------------------------------------
(* sqlite.py *)

RowsOf(d, o)    == {r \in d.rows : r.out = o}
HasRow(d, t, o) == \E r \in RowsOf(d, o) : r.task = t

\* Rows whose task has a unihash; and of them, ORDER BY created ASC LIMIT 1
Known(d, R) == {r \in R : d.uni[r.task] # None}

Newest(R) == CHOOSE r \in R : \A s \in R : s.at <= r.at    \* mutant: DESC

Oldest(R) == CHOOSE r \in R : \A s \in R : r.at <= s.at

\* get_equivalent_for_outhash: the unihash of the oldest other task that was
\* reported with this output.
Equivalent(d, t, o) ==
  LET others == Known(d, {r \in RowsOf(d, o) : r.task # t})
  IN IF others = {} THEN None ELSE d.uni[Oldest(others).task]

\* Rows are kept in the order of their time stamps.  Those of this server come
\* in order.  One that came from upstream is the string that the engine there
\* makes of it, with a space or with a T before the time of day: within its day
\* it may sort anywhere.
Precedes(r, s) == r.day < s.day \/ (r.day = s.day /\ ~r.remote /\ ~s.remote)
Places(rows, r) ==
  {n \in 1..(Cardinality(rows) + 1) :
     \A s \in rows : /\ Precedes(s, r) => s.at < n
                     /\ r.day < s.day => n <= s.at}
InsertRow(rows, r, n) ==
  {At(s, IF s.at < n THEN s.at ELSE s.at + 1) : s \in rows} \cup {At(r, n)}
RemoveRows(rows, gone) ==
  {At(r, Cardinality({s \in rows \ gone : s.at <= r.at})) : r \in rows \ gone}

InsertOrReplace(d, t, u, from) ==   \* mutant: INSERT OR REPLACE
  /\ db' = [d EXCEPT !.uni[t] = u] /\ rowMark' = [rowMark EXCEPT ![t] = mark]
  /\ origin' = IF origin[t] = "forgotten" THEN origin ELSE [origin EXCEPT ![t] = from]
  /\ UNCHANGED <<mark, kept>>

InsertUnmarked(d, t, u, from) ==    \* mutant: new entries are not marked
  /\ db' = IF d.uni[t] = None THEN [d EXCEPT !.uni[t] = u] ELSE d
  /\ kept' = IF d.uni[t] = None /\ mark # None THEN kept \cup {t} ELSE kept
  /\ UNCHANGED <<mark, rowMark, origin>>

\* insert_unihash: INSERT OR IGNORE, stamped with the current gc-mark.
InsertUnihash(d, t, u, from) ==
  /\ db' = IF d.uni[t] = None THEN [d EXCEPT !.uni[t] = u] ELSE d
  /\ rowMark' = IF d.uni[t] = None THEN [rowMark EXCEPT ![t] = mark] ELSE rowMark
  /\ kept' = IF d.uni[t] = None /\ mark # None THEN kept \cup {t} ELSE kept
  /\ origin' = IF d.uni[t] = None /\ origin[t] # "forgotten"
                 THEN [origin EXCEPT ![t] = from] ELSE origin
  /\ UNCHANGED mark

Unstored == UNCHANGED <<tables, kept, origin>>

-----------------------------------------------------------------------------
(* Answers to clients: only what they are told about unihashes matters. *)

\* An answer that says what the unihash of t is.
Tell(t, u) ==
  told' = IF u = None \/ origin'[t] = "forgotten" THEN told
          ELSE [told EXCEPT ![t] = @ \cup {u}]

\* No answer, or none about a unihash.  A handler that raises closes its
\* connection and sends none.
Silent == UNCHANGED told

Suspended(op, t, o, own) ==
  [op |-> op, at |-> "asked", task |-> t, out |-> o, own |-> own, got |-> None]

Ready(c)  == server = "up" /\ conn[c] = Idle
Elsewhere == UNCHANGED <<today, up, hasUpstream, backfill, worker, server, crashes, cut>>

-----------------------------------------------------------------------------
(* server.py: requests *)

\* get_unihash of a task, whose answer is op's; without an entry the upstream
\* server is asked, and without that the answer is own (None for a get).
GetUnihash(c, op, t, own) ==
  /\ Unstored
  /\ \/ db.uni[t] # None /\ Tell(t, db.uni[t]) /\ UNCHANGED conn
     \/ db.uni[t] = None /\ ~hasUpstream /\ Tell(t, own) /\ UNCHANGED conn
     \/ /\ db.uni[t] = None /\ hasUpstream
        /\ conn' = [conn EXCEPT ![c] = Suspended(op, t, None, own)] /\ Silent

\* handle_report of a client with REPORT_PERM: the task t, run with unihash u,
\* has produced the output o.
Report(c, t, o, u) ==
  /\ Ready(c)
  /\ \/ HasRow(db, t, o) /\ GetUnihash(c, "report", t, u)
     \/ /\ ~HasRow(db, t, o) /\ Cardinality(db.rows) < MaxRows
        /\ \E n \in Places(db.rows, LocalRow(t, o)) :
           LET d == [db EXCEPT !.rows = InsertRow(@, LocalRow(t, o), n)]
               e == Equivalent(d, t, o) IN
           \/ /\ e # None \/ ~hasUpstream
              /\ InsertUnihash(d, t, IF e # None THEN e ELSE u, "report")
              /\ Tell(t, db'.uni[t]) /\ UNCHANGED conn
           \/ /\ e = None /\ hasUpstream
              /\ db' = d /\ UNCHANGED <<rowMark, mark, kept, origin>>
              /\ conn' = [conn EXCEPT ![c] = Suspended("insert", t, o, u)]
              /\ Silent
  /\ Elsewhere

\* get_outhash, for a get-outhash request and for a report on a read-only server
\* or without REPORT_PERM (report_readonly).  An answer from the table changes
\* nothing.
GetOuthash(c, o, withUnihash) ==
  /\ Ready(c) /\ hasUpstream
  /\ (IF withUnihash THEN Known(db, RowsOf(db, o)) ELSE RowsOf(db, o)) = {}
  /\ conn' = [conn EXCEPT ![c] = Suspended("outhash", None, o, None)]
  /\ Unstored /\ Silent /\ Elsewhere

Get(c, t) == Ready(c) /\ GetUnihash(c, "get", t, None) /\ Elsewhere

\* handle_get with "all": the entry counts only if it has an output hash too.
GetAll(c, t) ==
  /\ Ready(c) /\ Unstored
  /\ \/ (\E o \in Outs : HasRow(db, t, o)) /\ db.uni[t] # None
        /\ Tell(t, db.uni[t]) /\ UNCHANGED conn
     \/ ~((\E o \in Outs : HasRow(db, t, o)) /\ db.uni[t] # None)
        /\ \/ ~hasUpstream /\ Tell(t, None) /\ UNCHANGED conn
           \/ /\ hasUpstream
              /\ conn' = [conn EXCEPT ![c] = Suspended("getall", t, None, None)]
              /\ Silent
  /\ Elsewhere

\* One line of a get-stream.
GetStream(c, t) ==
  Ready(c) /\ Len(backfill) < MaxQueue /\ GetUnihash(c, "stream", t, None) /\ Elsewhere

\* handle_equivreport
EquivReport(c, t, u) ==
  /\ Ready(c)
  /\ InsertUnihash(db, t, u, "equiv")
  /\ Tell(t, db'.uni[t])
  /\ UNCHANGED conn /\ Elsewhere

-----------------------------------------------------------------------------
(* The upstream server and the handlers that wait for it *)

\* What the upstream server answers to the question of k.
UpstreamData(k) ==
  LET Of(R) ==
        IF Known(up, R) = {} THEN None
        ELSE LET r == Oldest(Known(up, R))
             IN [task |-> r.task, out |-> r.out, day |-> r.day, uni |-> up.uni[r.task]]
  IN CASE k.op \in {"insert", "outhash"} -> Of(RowsOf(up, k.out))
       [] k.op = "getall" -> Of({r \in up.rows : r.task = k.task})
       [] OTHER -> IF up.uni[k.task] = None THEN None
                   ELSE [task |-> k.task, out |-> None, day |-> 0, uni |-> up.uni[k.task]]

\* Another client of the upstream server reports to it.
UpstreamLearns(t, o, u) ==
  /\ hasUpstream /\ ~HasRow(up, t, o) /\ Cardinality(up.rows) < MaxUpstream
  /\ up' = LET d == [up EXCEPT !.rows = InsertRow(@, LocalRow(t, o), Cardinality(@) + 1)]
               e == Equivalent(d, t, o)
           IN IF d.uni[t] # None THEN d
              ELSE [d EXCEPT !.uni[t] = IF e # None THEN e ELSE u]
  /\ UNCHANGED <<tables, today, hasUpstream, conn, backfill, worker, server, crashes,
                 history>>

UpstreamAnswers(c) ==
  /\ conn[c] # Idle /\ conn[c].at = "asked"
  /\ conn' = [conn EXCEPT ![c].at = "answered", ![c].got = UpstreamData(conn[c])]
  /\ Unstored /\ Silent /\ Elsewhere

\* The upstream server cannot be reached: the handler raises ConnectionError.
UpstreamFails(c) ==
  /\ conn[c] # Idle /\ conn[c].at = "asked"
  /\ conn' = [conn EXCEPT ![c] = Idle]
  /\ Unstored /\ Silent /\ Elsewhere

\* update_unified
Adopt(g) ==
  \/ HasRow(db, g.task, g.out) /\ InsertUnihash(db, g.task, g.uni, "upstream")
  \/ /\ ~HasRow(db, g.task, g.out)
     /\ \E n \in Places(db.rows, RemoteRow(g)) :
          InsertUnihash([db EXCEPT !.rows = InsertRow(@, RemoteRow(g), n)],
                        g.task, g.uni, "upstream")

\* The rest of handle_report: no equivalent task was found locally.
ResumeInsert(k) ==
  /\ k.op = "insert"
  /\ IF k.got = None THEN InsertUnihash(db, k.task, k.own, "report")
                     ELSE InsertUnihash(db, k.task, k.got.uni, "upstream")
  /\ Tell(k.task, db'.uni[k.task]) /\ UNCHANGED backfill

\* The rest of get_unihash: it does not expect an answer without data, and it
\* returns the answer of the upstream server, not what the table holds.
ResumeGet(k) ==
  /\ k.op \in {"get", "report"} /\ UNCHANGED backfill
  /\ \/ k.got = None /\ Unstored /\ Silent
     \/ /\ k.got # None
        /\ InsertUnihash(db, k.task, k.got.uni, "upstream")
        /\ Tell(k.task, k.got.uni)

ResumeGetAll(k) ==
  /\ k.op = "getall" /\ UNCHANGED backfill
  /\ \/ k.got = None /\ Unstored /\ Silent
     \/ k.got # None /\ Adopt(k.got) /\ Tell(k.task, k.got.uni)

ResumeOuthash(k) ==
  /\ k.op = "outhash" /\ UNCHANGED <<backfill, told>>
  /\ \/ k.got = None /\ Unstored
     \/ k.got # None /\ Adopt(k.got)

\* The rest of handle_get_stream: the entry is stored later, by the worker.
ResumeStream(k) ==
  /\ k.op = "stream" /\ Unstored
  /\ \/ k.got = None /\ Tell(k.task, None) /\ UNCHANGED backfill
     \/ /\ k.got # None /\ Tell(k.task, k.got.uni)
        /\ backfill' = Append(backfill, k.task)

Resume(c) ==
  /\ conn[c] # Idle /\ conn[c].at = "answered"
  /\ LET k == conn[c] IN \/ ResumeInsert(k) \/ ResumeGet(k) \/ ResumeGetAll(k)
                         \/ ResumeOuthash(k) \/ ResumeStream(k)
  /\ conn' = [conn EXCEPT ![c] = Idle]
  /\ UNCHANGED <<today, up, hasUpstream, worker, server, crashes, cut>>

\* backfill_worker_task fetches the tasks that get-stream answered from
\* upstream, one at a time.
BackfillTake ==
  /\ server = "up" /\ worker = None /\ backfill # <<>>
  /\ worker' = Head(backfill) /\ backfill' = Tail(backfill)
  /\ UNCHANGED <<tables, today, up, hasUpstream, conn, server, crashes, history>>

BackfillStore ==
  /\ worker # None /\ worker' = None
  /\ IF up.uni[worker] = None THEN Unstored
     ELSE InsertUnihash(db, worker, up.uni[worker], "upstream")
  /\ Silent
  /\ UNCHANGED <<today, up, hasUpstream, conn, backfill, server, crashes, cut>>

\* The server ends: suspended handlers and the queue are lost, tables are not.
Ends ==
  /\ server = "up" /\ server' = "down"
  /\ conn' = [c \in Conns |-> Idle] /\ backfill' = <<>> /\ worker' = None
  /\ UNCHANGED <<tables, today, up, hasUpstream, history>>

\* An exception of the worker ends the gather of _serve_forever.
BackfillFails == worker # None /\ Ends /\ UNCHANGED crashes
Stop  == crashes < MaxCrashes /\ Ends /\ crashes' = crashes + 1
Start ==
  /\ server = "down" /\ server' = "up"
  /\ UNCHANGED <<tables, today, up, hasUpstream, conn, backfill, worker, crashes,
                 history>>

-----------------------------------------------------------------------------
(* server.py: administration *)

Matches(x, w) == w = None \/ x = w

\* The entries a WHERE clause selects; a table of which no column is named is
\* left alone.
UniMatch(w) ==
  IF ~w.method /\ w.task = None /\ w.uni = None THEN {}
  ELSE {t \in Tasks : db.uni[t] # None /\ Matches(t, w.task) /\ Matches(db.uni[t], w.uni)}
RowMatch(w) ==
  IF ~w.method /\ w.task = None /\ w.out = None THEN {}
  ELSE {r \in db.rows : Matches(r.task, w.task) /\ Matches(r.out, w.out)}

Lose(unis, rows) ==
  LET hit == unis \cup {r.task : r \in rows} IN
  /\ db' = [uni  |-> [t \in Tasks |-> IF t \in unis THEN None ELSE db.uni[t]],
            rows |-> RemoveRows(db.rows, rows)]
  /\ rowMark' = [t \in Tasks |-> IF t \in unis THEN None ELSE rowMark[t]]
  /\ origin' = [t \in Tasks |-> IF t \in hit THEN "forgotten" ELSE origin[t]]
  /\ told' = [t \in Tasks |-> IF t \in hit THEN {} ELSE told[t]]
  /\ cut' = cut \cup {r.out : r \in {r \in db.rows : r.task \in hit}}

Admin(c) ==
  /\ Ready(c)
  /\ UNCHANGED <<today, up, hasUpstream, conn, backfill, worker, server, crashes>>

Remove(c, w) ==
  /\ Admin(c) /\ Lose(UniMatch(w), RowMatch(w))
  /\ kept' = kept \ UniMatch(w) /\ UNCHANGED mark

GcMark(c, m, w) ==
  /\ Admin(c)
  /\ mark' = m
  /\ rowMark' = [t \in Tasks |-> IF t \in UniMatch(w) THEN m ELSE rowMark[t]]
  /\ kept' = (IF m = mark THEN kept ELSE {}) \cup UniMatch(w)
  /\ UNCHANGED <<db, told, origin, cut>>

Unmarked == {t \in Tasks : db.uni[t] # None /\ rowMark[t] # mark}

\* Another mark than the current one is refused.
GcSweep(c, m) ==
  /\ Admin(c)
  /\ m = mark
  /\ Lose(Unmarked, {}) /\ mark' = None /\ UNCHANGED kept

\* max_age is subtracted with its sign turned: rows younger than today plus
\* max_age days go.  sortsLate: stamps from upstream are written with a T.
CleanUnused(c, a, sortsLate) ==
  /\ Admin(c)
  /\ LET old(r) == r.day < today + a \/ (r.day = today + a /\ ~(r.remote /\ sortsLate))
     IN Lose({}, {r \in db.rows : db.uni[r.task] = None /\ old(r)})
  /\ UNCHANGED <<mark, kept>>

Tick ==
  /\ today < MaxDays /\ today' = today + 1
  /\ UNCHANGED <<tables, up, hasUpstream, conn, backfill, worker, server, crashes,
                 history>>

-----------------------------------------------------------------------------

Empty == [uni |-> [t \in Tasks |-> None], rows |-> {}]

Init ==
  /\ db = Empty /\ rowMark = [t \in Tasks |-> None] /\ mark = None
  /\ today = 0 /\ up = Empty /\ hasUpstream \in BOOLEAN
  /\ conn = [c \in Conns |-> Idle] /\ backfill = <<>> /\ worker = None
  /\ server = "up" /\ crashes = 0
  /\ told = [t \in Tasks |-> {}] /\ origin = [t \in Tasks |-> "none"] /\ kept = {}
  /\ cut = {}

Request ==
  \E c \in Conns :
    \/ \E t \in Tasks, o \in Outs, u \in Unis : Report(c, t, o, u)
    \/ \E o \in Outs, w \in BOOLEAN : GetOuthash(c, o, w)
    \/ \E t \in Tasks : Get(c, t) \/ GetAll(c, t) \/ GetStream(c, t)
    \/ \E t \in Tasks, u \in Unis : EquivReport(c, t, u)

Administer ==
  \E c \in Conns :
    \/ \E w \in Conditions : Remove(c, w) \/ \E m \in Marks : GcMark(c, m, w)
    \/ \E m \in Marks : GcSweep(c, m)
    \/ \E a \in MaxAges, late \in BOOLEAN : CleanUnused(c, a, late)

Upstream ==
  \/ \E t \in Tasks, o \in Outs, u \in Unis : UpstreamLearns(t, o, u)
  \/ \E c \in Conns : UpstreamAnswers(c) \/ UpstreamFails(c) \/ Resume(c)

Life == BackfillTake \/ BackfillStore \/ BackfillFails \/ Stop \/ Start \/ Tick

Next == Request \/ Administer \/ Upstream \/ Life

Spec == Init /\ [][Next]_vars

-----------------------------------------------------------------------------
(* Properties *)

\* As long as nothing about a task is removed, whatever clients were answered
\* for it is still what the table holds, or what the upstream server holds:
\* two builds that were given different unihashes for a task differ only in
\* which of the two servers they were served from (get_unihash, handle_report).
AnswersHaveASource ==
  \A t \in Tasks : told[t] \subseteq {db.uni[t], up.uni[t]}

OutsOf(t) == {r.out : r \in {r \in db.rows : r.task = t}}

\* Tasks whose unihash is the one of their only report.
Reproducible == {t \in Tasks : origin[t] = "report" /\ \E o \in Outs : OutsOf(t) = {o}}

\* Tasks that were reported with the same output share their unihash, in
\* whatever order reports, reports of tasks whose output varies, equivalences
\* given by hand, and removals and collections of other outputs come.
\* A server without upstream keeps to that, as its handlers run to their end
\* (handle_report, get_equivalent_for_outhash); one that awaits an upstream
\* server between the two inserts of a report does not.
EqualOutputs ==
  ~hasUpstream =>
    \A s, t \in Reproducible :
      OutsOf(s) = OutsOf(t) /\ OutsOf(s) \cap cut = {} => db.uni[s] = db.uni[t]

\* An entry that was marked in this garbage collection, or added since it
\* began, is there until it is removed by name (gc_mark, insert_unihash).
SweepKeepsMarked == \A t \in kept : db.uni[t] # None

=============================================================================
