----------------------------- MODULE TaskGraph -----------------------------
(***************************************************************************)
(* The task graph of a BitBake build and the setscene graph that           *)
(* build_scenequeue_data collapses it into.                                *)
(*                                                                         *)
(* A setscene task can be replaced by unpacking its output from shared     *)
(* state; a successful setscene task also "covers" the ordinary tasks that *)
(* only lead to it.  The code finds these sets by peeling the graph from   *)
(* its endpoints; here they are defined by the paths they stand for.       *)
(***************************************************************************)
EXTENDS FiniteSets

CONSTANTS
  Tasks,      \* runtaskentries
  Depends,    \* runtaskentries[t].depends
  Setscene,   \* runq_setscene_tids
  Targets     \* target_tids

ASSUME GraphAssumption ==
  /\ IsFiniteSet(Tasks)
  /\ Depends \in [Tasks -> SUBSET Tasks]
  /\ Setscene \subseteq Tasks
  /\ Targets \subseteq Tasks

\* No dependency loops
ASSUME QueueAssumption ==
  \A S \in SUBSET Tasks : S # {} => \E t \in S : \A r \in S : t \notin Depends[r]

revdeps == [t \in Tasks |-> {r \in Tasks : t \in Depends[r]}]

\* The tasks reached from S going down, not past a setscene task.
ClosedDown(X) == \A x \in X \ Setscene : Depends[x] \subseteq X
DownFrom(S) ==
  {x \in Tasks : \A X \in SUBSET Tasks : S \subseteq X /\ ClosedDown(X) => x \in X}

\* S and the ordinary tasks all of whose users are in it, and so on.
ClosedUp(X) == \A d \in Tasks \ Setscene :
                 revdeps[d] # {} /\ revdeps[d] \subseteq X => d \in X
UpClosure(S) ==
  {x \in Tasks : \A X \in SUBSET Tasks : S \subseteq X /\ ClosedUp(X) => x \in X}

Below == [s \in Setscene |-> DownFrom(Depends[s])]

sq_covered_tasks == [s \in Setscene |-> Below[s] \ Setscene]
sq_deps          == [s \in Setscene |-> Below[s] \cap Setscene]
sq_revdeps       == [s \in Setscene |-> {r \in Setscene : s \in Below[r]}]

cantskip    == Targets \ Setscene
unskippable == DownFrom({t \in Tasks : revdeps[t] = {}} \cup cantskip)
=============================================================================
