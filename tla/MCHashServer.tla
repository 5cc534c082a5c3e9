--------------------------- MODULE MCHashServer ---------------------------
(***************************************************************************)
(* Small instances of HashServer: a server of its own that serves one      *)
(* request at a time, and a server with an upstream server and requests in *)
(* parallel, for fewer tasks and outputs.                                  *)
(***************************************************************************)
EXTENDS HashServer, TLC

CONSTANT Uses     \* what the run covers, see below

VARIABLE use

\* A server of its own, without and with administration; one with an upstream
\* server; and one of which two clients ask for the same tasks at once.
Alone  == [upstream |-> FALSE, tasks |-> 3, outs |-> 2, conns |-> 1, admin |-> FALSE, days |-> 0,
           stops |-> 0]
Tended == [upstream |-> FALSE, tasks |-> 2, outs |-> 2, conns |-> 1, admin |-> TRUE, days |-> 1,
           stops |-> 0]
Behind == [upstream |-> TRUE, tasks |-> 2, outs |-> 1, conns |-> 1, admin |-> TRUE, days |-> 0,
           stops |-> 1]
Racing == [upstream |-> TRUE, tasks |-> 2, outs |-> 1, conns |-> 2, admin |-> FALSE, days |-> 0,
           stops |-> 0]

AllUses == {Alone, Tended, Behind, Racing}

Where == [method |-> FALSE, task |-> None, out |-> None, uni |-> None]

\* By task; by unihash; and by unihash and method, which selects every output
\* hash.
SomeConditions ==
  {[Where EXCEPT !.task = t] : t \in Tasks}
  \cup {[Where EXCEPT !.uni = u, !.method = m] : u \in Unis, m \in BOOLEAN}

Interchangeable ==
  Permutations(Tasks) \cup Permutations(Outs) \cup Permutations(Unis) \cup Permutations(Conns)

MCInit ==
  /\ Init
  /\ use \in [tasks : SUBSET Tasks, outs : SUBSET Outs, conns : SUBSET Conns, admin : BOOLEAN,
             days : 0..MaxDays, stops : 0..MaxCrashes]
  /\ [upstream |-> hasUpstream, tasks |-> Cardinality(use.tasks), outs |-> Cardinality(use.outs),
      conns |-> Cardinality(use.conns), admin |-> use.admin,
      days |-> use.days, stops |-> use.stops] \in Uses

Used(w) == w.task \in use.tasks \cup {None} /\ w.out \in use.outs \cup {None}

MCRequest ==
  \E c \in use.conns :
    \/ \E t \in use.tasks, o \in use.outs, u \in Unis : Report(c, t, o, u)
    \/ \E o \in use.outs, w \in BOOLEAN : GetOuthash(c, o, w)
    \/ \E t \in use.tasks : Get(c, t) \/ GetAll(c, t) \/ GetStream(c, t)
    \/ \E t \in use.tasks, u \in Unis : EquivReport(c, t, u)

MCAdminister ==
  /\ use.admin
  /\ \E c \in use.conns :
    \/ \E w \in {w \in Conditions : Used(w)} : Remove(c, w) \/ \E m \in Marks : GcMark(c, m, w)
    \/ \E m \in Marks : GcSweep(c, m)
    \/ \E a \in MaxAges, late \in BOOLEAN : CleanUnused(c, a, late)

MCUpstream ==
  \/ \E t \in use.tasks, o \in use.outs, u \in Unis : UpstreamLearns(t, o, u)
  \/ \E c \in use.conns : UpstreamAnswers(c) \/ UpstreamFails(c) \/ Resume(c)

MCNext ==
  /\ MCRequest \/ MCAdminister \/ MCUpstream \/ Life
  /\ today' <= use.days /\ crashes' <= use.stops
  /\ UNCHANGED use

MCSpec == MCInit /\ [][MCNext]_<<vars, use>>
=============================================================================
