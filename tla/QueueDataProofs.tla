-------------------------- MODULE QueueDataProofs --------------------------
(***************************************************************************)
(* Proofs about QueueData, for all metadata and every request: the queue   *)
(* has all that its tasks depend on, --runall reaches every recipe of it,  *)
(* and exactly the queues with a dependency loop are refused as circular;  *)
(* recursive dependencies are resolved to the least that was asked for;    *)
(* and the setscene graph is what the paths of the task graph say.         *)
(***************************************************************************)
EXTENDS QueueData, FiniteSetTheorems, TLAPS

Resolving == {"collate", "recurse", "targets"}
Marking   == {"runall", "prune"}
Checked   == {"setscene", "peel", "unskippable", "ready", "went badly wrong"}

\* Until it is pruned the queue has all tasks; afterwards it is closed.
Typed ==
  /\ pc \in Resolving \cup Marking \cup Checked \cup
            {"runonly", "loops", "weights", "circular", "empty"}
  /\ metadata \in Metadata /\ request \in Requests
  /\ Queue \subseteq Tasks
  /\ runtaskentries \in [Queue -> SUBSET Tasks]
  /\ pc \in Resolving \cup Marking => Queue = Tasks
  /\ pc \in Resolving => runall_tids = {}
  /\ pc = "runonly" => request.runonly # {}
  /\ turn \subseteq DOMAIN metadata.recursive

ClosedSet(X) == \A x \in X : runtaskentries[x] \subseteq X

\* What is marked is closed; a pass of --runall marks no less than the last.
Marked ==
  /\ pc \in Marking => runq_build \subseteq Queue /\ ClosedSet(runq_build)
  /\ pc = "runall" => Active(runall_tids) \subseteq runq_build
  /\ pc = "prune" /\ request.runall # {} => Wanted \subseteq runq_build
  /\ pc \notin Resolving \cup Marking => ClosedSet(Queue)

Loop(S) == S # {} /\ \A t \in S : revdeps[t] \cap S # {}
Zero    == {t \in Queue : deps_left[t] = 0}
Done    == Zero \ points

\* Tasks are done in an order in which their users come first, and a loop is
\* never entered.
Counted ==
  pc = "weights" =>
    /\ points \subseteq Zero
    /\ \A t \in Queue : deps_left[t] = Cardinality(revdeps[t] \ Done)
    /\ \A S \in SUBSET Queue : Loop(S) => S \cap Zero = {}

Inv == Typed /\ Marked /\ RunallReached /\ Counted /\ LoopsRefused

-----------------------------------------------------------------------------
(* Marking *)

\* mark_active marks what it is called for and all that these depend on, and no
\* task that is not in every such set.
LEMMA ActiveCloses ==
  ASSUME ClosedSet(Queue), NEW S \in SUBSET Queue
  PROVE  /\ Active(S) \subseteq Queue /\ S \subseteq Active(S) /\ ClosedSet(Active(S))
         /\ \A X \in SUBSET Queue : S \subseteq X /\ ClosedSet(X) => Active(S) \subseteq X
<1>1. Active(S) \subseteq Queue /\ S \subseteq Active(S)
  BY DEF Active
<1>2. ClosedSet(Active(S))
  <2> SUFFICES ASSUME NEW t \in Active(S), NEW d \in runtaskentries[t]
               PROVE  d \in Active(S)
    BY DEF ClosedSet
  <2>1. d \in Queue
    BY <1>1 DEF ClosedSet
  <2>2. ASSUME NEW X \in SUBSET Queue, S \subseteq X, \A x \in X : runtaskentries[x] \subseteq X
        PROVE  d \in X
    BY <2>2 DEF Active
  <2> QED BY <2>1, <2>2 DEF Active
<1>3. \A X \in SUBSET Queue : S \subseteq X /\ ClosedSet(X) => Active(S) \subseteq X
  BY DEF Active, ClosedSet
<1> QED BY <1>1, <1>2, <1>3

\* Whoever is marked for fewer tasks is marked for more.
LEMMA ActiveGrows ==
  ASSUME ClosedSet(Queue), NEW S \in SUBSET Queue, NEW T \in SUBSET Queue, S \subseteq T
  PROVE  Active(S) \subseteq Active(T)
BY ActiveCloses DEF Active

-----------------------------------------------------------------------------
(* The invariant *)

LEMMA StartsRight == Init => Inv
<1> SUFFICES ASSUME Init PROVE Inv
  OBVIOUS
<1>1. Typed
  BY InputAssumption DEF Init, Typed, Queue, Resolving
<1>2. Marked /\ RunallReached /\ Counted /\ LoopsRefused
  BY DEF Init, Marked, RunallReached, Counted, LoopsRefused, Resolving, Marking, Checked
<1> QED BY <1>1, <1>2 DEF Inv

\* The steps that resolve recursive dependencies touch nothing but the
\* dependencies of tasks.
LEMMA ResolvingKeeps ==
  ASSUME Inv, Collate \/ NextPass \/ \E r \in Tasks : Recurse(r)
  PROVE  Inv'
<1>1. pc \in {"collate", "recurse"} /\ pc' \in Resolving
  BY DEF Collate, NextPass, Recurse, Resolving
<1>2. UNCHANGED <<metadata, request, runall_tids>>
  BY DEF Collate, NextPass, Recurse, inputs, asked
<1>3. Queue = Tasks /\ runtaskentries \in [Tasks -> SUBSET Tasks]
  BY <1>1 DEF Inv, Typed, Resolving
<1>4. runtaskentries' \in [Tasks -> SUBSET Tasks] /\ turn' \subseteq DOMAIN metadata.recursive
  <2>1. CASE Collate
    BY <1>3, <2>1 DEF Collate, Inv, Typed
  <2>2. CASE NextPass
    BY <1>3, <2>2 DEF NextPass, Unreferred, Inv, Typed
  <2>3. CASE \E r \in Tasks : Recurse(r)
    <3>1. PICK r \in Tasks : Recurse(r)
      BY <2>3
    <3>2. ASSUME NEW D \in SUBSET Tasks
          PROVE  FromOthers(r, D) \subseteq Tasks
      BY <1>3, <3>2 DEF FromOthers
    <3>3. PICK D \in SUBSET Tasks :
            runtaskentries' = [runtaskentries EXCEPT ![r] = D \cup FromOthers(r, D)]
      BY <1>3, <3>1 DEF Recurse
    <3>4. turn' \subseteq turn
      BY <3>1 DEF Recurse
    <3> QED BY <1>3, <3>2, <3>3, <3>4 DEF Inv, Typed
  <2> QED BY <2>1, <2>2, <2>3
<1>5. Queue' = Tasks
  BY <1>4 DEF Queue
<1>6. Typed'
  BY <1>1, <1>2, <1>4, <1>5 DEF Inv, Typed, Resolving
<1>7. Marked' /\ RunallReached' /\ Counted' /\ LoopsRefused'
  BY <1>1 DEF Marked, RunallReached, Counted, LoopsRefused, Resolving, Marking, Checked
<1> QED BY <1>6, <1>7 DEF Inv

\* Marking, with --runall: a pass looks at the recipes that the pass before it
\* marked, so that the last one, which finds nothing new, marks no other recipe.
LEMMA MarkingKeeps ==
  ASSUME Inv, MarkTargets \/ Runall
  PROVE  Inv'
<1>1. pc \in {"targets", "runall"} /\ pc' \in Marking
  BY DEF MarkTargets, Runall, Marking
<1>2. UNCHANGED <<metadata, request, runtaskentries, turn>>
  BY DEF MarkTargets, Runall, inputs, recursion
<1>3. Queue = Tasks /\ Queue' = Tasks /\ runtaskentries \in [Tasks -> SUBSET Tasks]
  BY <1>1, <1>2 DEF Inv, Typed, Resolving, Marking, Queue
<1>4. Typed'
  BY <1>1, <1>2, <1>3 DEF Inv, Typed, Resolving, Marking
<1>5. ClosedSet(Queue)
  BY <1>3 DEF ClosedSet
<1>6. RunallReached' /\ Counted' /\ LoopsRefused'
  BY <1>1 DEF RunallReached, Counted, LoopsRefused, Marking, Checked
<1>7. CASE MarkTargets
  <2> DEFINE A == (request.targets \ request.parents) \cup
                    UNION {runtaskentries[t] : t \in request.parents}
  <2>1. A \subseteq Queue
    BY <1>3, InputAssumption DEF Inv, Typed
  <2>2. runq_build' = Active(A) /\ runall_tids' = {}
    BY <1>1, <1>7 DEF MarkTargets, Inv, Typed, Resolving
  <2> HIDE DEF A
  <2>3. runq_build' \subseteq Queue /\ ClosedSet(runq_build')
    BY <1>5, <2>1, <2>2, ActiveCloses
  <2>4. Active({}) = {}
    BY <1>5, ActiveCloses DEF ClosedSet
  <2>5. Active(runall_tids)' = {}
    BY <1>2, <2>2, <2>4 DEF Active, Queue
  <2>6. pc' = "prune" => request.runall = {}
    BY <1>7 DEF MarkTargets
  <2>7. Marked'
    BY <1>1, <1>2, <1>3, <2>3, <2>5, <2>6 DEF Marked, Marking, ClosedSet
  <2> QED BY <1>4, <1>6, <2>7 DEF Inv
<1>8. CASE Runall
  <2>1. Wanted \subseteq Queue
    BY DEF Wanted
  <2>2. runq_build' = Active(Wanted) /\ runall_tids' = Wanted
    BY <1>8 DEF Runall
  <2>3. runq_build' \subseteq Queue /\ ClosedSet(runq_build') /\ Wanted \subseteq runq_build'
    BY <1>5, <2>1, <2>2, ActiveCloses
  <2>4. Active(runall_tids)' = runq_build'
    BY <1>2, <2>2 DEF Active, Queue
  <2>5. ASSUME pc' = "prune" PROVE Wanted' \subseteq runq_build'
    <3>1. Wanted \subseteq runall_tids
      BY <1>8, <2>5 DEF Runall, AllKnown
    <3>2. Active(runall_tids) \subseteq runq_build
      BY <1>8 DEF Runall, Inv, Marked
    <3>3. Active(Wanted) \subseteq Active(runall_tids)
      BY <3>1 DEF Active
    <3>4. runq_build' \subseteq runq_build
      BY <2>2, <3>2, <3>3
    <3>5. Wanted' \subseteq Wanted
      BY <1>2, <1>3, <3>4 DEF Wanted
    <3> QED BY <2>3, <3>5
  <2>6. Marked'
    BY <1>1, <1>2, <1>3, <2>3, <2>4, <2>5 DEF Marked, Marking, ClosedSet
  <2> QED BY <1>4, <1>6, <2>6 DEF Inv
<1> QED BY <1>7, <1>8

-----------------------------------------------------------------------------
(* Pruning *)

\* The queue becomes what is marked.
LEMMA PruningKeeps ==
  ASSUME Inv, Prune \/ Runonly
  PROVE  Inv'
<1>1. pc' \in {"runonly", "loops", "empty"} /\ UNCHANGED <<metadata, request, turn>>
  BY DEF Prune, Runonly, inputs, recursion
<1>2. runtaskentries' = Restrict(runtaskentries, runq_build')
  BY DEF Prune, Runonly
<1>3. runq_build' \subseteq Queue /\ ClosedSet(runq_build')
  <2>1. CASE Prune
    BY <2>1 DEF Prune, Inv, Marked, Marking
  <2>2. CASE Runonly
    <3>1. ClosedSet(Queue)
      BY <2>2 DEF Runonly, Inv, Marked, Resolving, Marking
    <3>2. {t \in Queue : Name[t] \in request.runonly} \in SUBSET Queue
      OBVIOUS
    <3> QED BY <2>2, <3>1, <3>2, ActiveCloses DEF Runonly
  <2> QED BY <2>1, <2>2
<1>4. Queue' = runq_build' /\ \A t \in runq_build' : runtaskentries'[t] = runtaskentries[t]
  BY <1>2, <1>3 DEF Queue, Restrict
<1>5. Typed'
  <2>1. Queue' \subseteq Tasks
    BY <1>3, <1>4 DEF Inv, Typed
  <2>2. runtaskentries' \in [Queue' -> SUBSET Tasks]
    BY <1>2, <1>3, <1>4 DEF Restrict, Inv, Typed
  <2>3. pc' = "runonly" => request.runonly # {}
    BY DEF Prune, Runonly
  <2> QED BY <1>1, <2>1, <2>2, <2>3 DEF Inv, Typed, Resolving, Marking
<1>6. Marked'
  BY <1>1, <1>3, <1>4 DEF Marked, Resolving, Marking, ClosedSet
<1>7. RunallReached'
  <2> SUFFICES ASSUME pc' = "loops", request.runall # {}, request.runonly = {},
                      NEW t \in Tasks, Name[t] \in request.runall,
                      NEW x \in Queue', Recipe[x] = Recipe[t]
               PROVE  t \in Queue'
    BY <1>1 DEF RunallReached
  <2>1. pc = "prune" /\ runq_build' = runq_build
    <3>1. CASE Prune
      BY <3>1 DEF Prune
    <3>2. CASE Runonly
      BY <3>2 DEF Runonly, Inv, Typed
    <3> QED BY <3>1, <3>2
  <2> QED BY <1>4, <2>1 DEF Wanted, Inv, Marked, Typed, Marking
<1>8. Counted' /\ LoopsRefused'
  BY <1>1 DEF Counted, LoopsRefused, Checked
<1> QED BY <1>5, <1>6, <1>7, <1>8 DEF Inv

-----------------------------------------------------------------------------
(* Dependency loops *)

LEMMA QueueIsFinite ==
  ASSUME Inv
  PROVE  /\ IsFiniteSet(Queue)
         /\ \A X \in SUBSET Queue : IsFiniteSet(X) /\ Cardinality(X) \in Nat
                                      /\ (Cardinality(X) = 0 <=> X = {})
<1>1. IsFiniteSet(Queue)
  BY InputAssumption, FS_Subset DEF Inv, Typed
<1>2. ASSUME NEW X \in SUBSET Queue
      PROVE  IsFiniteSet(X) /\ Cardinality(X) \in Nat /\ (Cardinality(X) = 0 <=> X = {})
  BY <1>1, FS_Subset, FS_CardinalityType, FS_EmptySet
<1> QED BY <1>1, <1>2

LEMMA FindEndpointsKeeps ==
  ASSUME Inv, FindEndpoints
  PROVE  Inv'
<1>1. pc = "loops" /\ pc' \in {"circular", "weights"}
  BY DEF FindEndpoints
<1>2. UNCHANGED <<metadata, request, runtaskentries, turn, runq_build, runall_tids>>
  BY DEF FindEndpoints, inputs, recursion, asked
<1>3. Queue' = Queue /\ revdeps' = revdeps
  BY <1>2 DEF Queue, revdeps
<1>4. Typed' /\ Marked' /\ RunallReached'
  BY <1>1, <1>2, <1>3 DEF Inv, Typed, Marked, RunallReached, Resolving, Marking, ClosedSet
<1>5. \A t \in Queue : revdeps[t] \subseteq Queue
  BY DEF revdeps
<1>6. LoopsRefused'
  <2> SUFFICES ASSUME pc' = "circular"
               PROVE  Looped'
    BY <1>1 DEF LoopsRefused, Checked
  <2>1. PICK t \in Queue : revdeps[t] \cap runtaskentries[t] # {}
    BY DEF FindEndpoints
  <2>2. PICK u \in Queue : u \in revdeps[t] /\ u \in runtaskentries[t]
    BY <1>5, <2>1
  <2>3. t \in revdeps[u]
    BY <2>2 DEF revdeps
  <2>4. \A x \in {t, u} : revdeps[x] \cap {t, u} # {}
    BY <2>2, <2>3
  <2>5. {t, u} \in SUBSET Queue' /\ {t, u} # {} /\ \A x \in {t, u} : revdeps'[x] \cap {t, u} # {}
    BY <1>3, <2>4
  <2> QED BY <2>5 DEF Looped
<1>7. Counted'
  <2> SUFFICES ASSUME pc' = "weights" PROVE Counted'
    BY DEF Counted
  <2>1. deps_left' = [t \in Queue |-> Cardinality(revdeps[t])]
        /\ points' = {t \in Queue : revdeps[t] = {}}
    BY DEF FindEndpoints
  <2>2. Zero' = points' /\ Done' = {}
    BY <1>3, <1>5, <2>1, QueueIsFinite DEF Zero, Done
  <2>3. \A S \in SUBSET Queue : (Loop(S))' => S \cap Zero' = {}
    BY <1>3, <2>1, <2>2 DEF Loop
  <2>4. \A t \in Queue : deps_left'[t] = Cardinality(revdeps[t] \ Done')
    <3> SUFFICES ASSUME NEW t \in Queue
                 PROVE  deps_left'[t] = Cardinality(revdeps[t] \ Done')
      OBVIOUS
    <3>1. revdeps[t] \ Done' = revdeps[t]
      BY <2>2
    <3> QED BY <2>1, <3>1
  <2> QED BY <1>3, <2>2, <2>3, <2>4 DEF Counted
<1> QED BY <1>4, <1>6, <1>7 DEF Inv

LEMMA WeightsKeep ==
  ASSUME Inv, CalculateWeights
  PROVE  Inv'
<1>1. pc = "weights" /\ pc' \in {"weights", "circular", "setscene"}
  BY DEF CalculateWeights
<1>2. UNCHANGED <<metadata, request, runtaskentries, turn, runq_build, runall_tids>>
  BY DEF CalculateWeights, inputs, recursion, asked
<1>3. Queue' = Queue /\ revdeps' = revdeps
  BY <1>2 DEF Queue, revdeps
<1>4. Typed' /\ Marked' /\ RunallReached'
  BY <1>1, <1>2, <1>3
     DEF Inv, Typed, Marked, RunallReached, Resolving, Marking, Checked, ClosedSet
<1>5. \A t \in Queue : revdeps[t] \subseteq Queue
  BY DEF revdeps
<1>6. /\ points \subseteq Zero /\ Zero \subseteq Queue
      /\ \A t \in Queue : deps_left[t] = Cardinality(revdeps[t] \ Done)
      /\ \A S \in SUBSET Queue : Loop(S) => S \cap Zero = {}
  BY <1>1 DEF Inv, Counted, Zero
\* What is left of a task: its users that are not done yet, nor in this round
<1>7. \A t \in Queue : deps_left'[t] = Cardinality(revdeps[t] \ Zero)
  <2> SUFFICES ASSUME NEW t \in Queue
               PROVE  deps_left'[t] = Cardinality(revdeps[t] \ Zero)
    OBVIOUS
  <2> DEFINE U == revdeps[t] \ Done
             P == {p \in points : t \in runtaskentries[p]}
  <2>1. deps_left'[t] = deps_left[t] - Cardinality(P)
    BY DEF CalculateWeights
  <2>2. P = U \cap points
    BY <1>5, <1>6 DEF Done, revdeps
  <2>3. U \ P = revdeps[t] \ Zero
    BY <1>6, <2>2 DEF Done
  <2>4. IsFiniteSet(U)
    BY <1>5, QueueIsFinite
  <2>5. Cardinality(U \ P) = Cardinality(U) - Cardinality(U \cap P)
    BY <2>4, FS_Difference
  <2>6. U \cap P = P
    BY <2>2
  <2> QED BY <1>6, <2>1, <2>3, <2>5, <2>6
<1>8. \A t \in Queue : deps_left'[t] = 0 <=> revdeps[t] \subseteq Zero
  <2> SUFFICES ASSUME NEW t \in Queue
               PROVE  deps_left'[t] = 0 <=> revdeps[t] \subseteq Zero
    OBVIOUS
  <2>1. Cardinality(revdeps[t] \ Zero) = 0 <=> revdeps[t] \ Zero = {}
    BY <1>5, QueueIsFinite
  <2> QED BY <1>7, <2>1
<1>9. points' = {t \in Queue : t \notin Zero /\ deps_left'[t] = 0}
  <2>1. \A t \in Queue : deps_left[t] \in Nat
    <3> SUFFICES ASSUME NEW t \in Queue PROVE deps_left[t] \in Nat
      OBVIOUS
    <3>1. revdeps[t] \ Done \in SUBSET Queue
      BY <1>5
    <3>2. Cardinality(revdeps[t] \ Done) \in Nat
      BY <3>1, QueueIsFinite
    <3>3. deps_left[t] = Cardinality(revdeps[t] \ Done)
      BY <1>6
    <3> QED BY <3>2, <3>3
  <2>2. \A t \in Queue : deps_left[t] > 0 <=> t \notin Zero
    <3> SUFFICES ASSUME NEW t \in Queue PROVE deps_left[t] > 0 <=> t \notin Zero
      OBVIOUS
    <3>1. deps_left[t] \in Nat /\ (t \in Zero <=> deps_left[t] = 0)
      BY <2>1 DEF Zero
    <3> QED BY <3>1
  <2>3. points' = {t \in Queue : deps_left[t] > 0 /\ deps_left'[t] = 0}
    <3> DEFINE left == [t \in Queue |-> deps_left[t] -
                          Cardinality({p \in points : t \in runtaskentries[p]})]
    <3>1. deps_left' = left /\ points' = {t \in Queue : deps_left[t] > 0 /\ left[t] = 0}
      BY DEF CalculateWeights
    <3> HIDE DEF left
    <3> QED BY <3>1
  <2> QED BY <2>2, <2>3
<1>10. \A t \in Zero : deps_left'[t] = 0
  <2> SUFFICES ASSUME NEW t \in Zero PROVE deps_left'[t] = 0
    OBVIOUS
  <2>1. Cardinality(revdeps[t] \ Done) = 0
    BY <1>6 DEF Zero
  <2>2. revdeps[t] \subseteq Done
    BY <1>5, <1>6, <2>1, QueueIsFinite
  <2> QED BY <1>6, <1>8, <2>2 DEF Done
<1>11. Zero' = {t \in Queue : deps_left'[t] = 0} /\ Done' = Zero
  BY <1>3, <1>6, <1>9, <1>10 DEF Zero, Done
<1>12. \A S \in SUBSET Queue : Loop(S) => S \cap Zero' = {}
  BY <1>6, <1>8, <1>11 DEF Loop
<1>13. Counted'
  <2>1. points' \subseteq Zero'
    BY <1>9, <1>11
  <2>2. \A S \in SUBSET Queue : (Loop(S))' => S \cap Zero' = {}
    BY <1>3, <1>12 DEF Loop
  <2> QED BY <1>3, <1>7, <1>11, <2>1, <2>2 DEF Counted
<1>14. LoopsRefused'
  <2>1. CASE pc' = "weights"
    BY <2>1 DEF LoopsRefused, Checked
  <2>2. CASE pc' = "circular"
    <3> DEFINE S == {t \in Queue : deps_left'[t] # 0}
    <3>1. points' = {} /\ S # {}
      BY <2>2 DEF CalculateWeights
    <3>2. \A t \in S : revdeps[t] \cap S # {}
      BY <1>5, <1>8, <1>9, <3>1
    <3> QED BY <1>3, <2>2, <3>1, <3>2 DEF LoopsRefused, Looped, Checked
  <2>3. CASE pc' = "setscene"
    <3>1. \A t \in Queue : deps_left'[t] = 0
      BY <2>3 DEF CalculateWeights
    <3>2. ~Looped
      BY <1>11, <1>12, <3>1 DEF Looped, Loop
    <3> QED BY <1>3, <2>3, <3>2 DEF LoopsRefused, Looped, Checked
  <2> QED BY <1>1, <2>1, <2>2, <2>3
<1> QED BY <1>4, <1>13, <1>14 DEF Inv

-----------------------------------------------------------------------------
(* What comes after does not change the queue. *)

LEMMA CollapsingKeeps ==
  ASSUME Inv, StartPeeling \/ NextRound \/ CollectUnskippable \/ \E p \in Tasks : ProcessPoint(p)
  PROVE  Inv'
<1>1. pc \in Checked /\ pc' \in Checked
  BY DEF StartPeeling, NextRound, CollectUnskippable, ProcessPoint, Checked
<1>2. UNCHANGED <<metadata, request, runtaskentries, turn, runq_build, runall_tids>>
  BY DEF StartPeeling, NextRound, CollectUnskippable, ProcessPoint, inputs, recursion, asked
<1>3. Queue' = Queue /\ revdeps' = revdeps
  BY <1>2 DEF Queue, revdeps
<1>4. Typed' /\ Marked' /\ RunallReached'
  BY <1>1, <1>2, <1>3
     DEF Inv, Typed, Marked, RunallReached, Resolving, Marking, Checked, ClosedSet
<1>5. Counted' /\ LoopsRefused'
  BY <1>1, <1>3 DEF Inv, Counted, LoopsRefused, Looped, Checked
<1> QED BY <1>4, <1>5 DEF Inv

LEMMA Invariance == Spec => []Inv
<1>1. Inv /\ [Next]_vars => Inv'
  <2> SUFFICES ASSUME Inv, [Next]_vars PROVE Inv'
    OBVIOUS
  <2>1. CASE Next
    BY <2>1, ResolvingKeeps, MarkingKeeps, PruningKeeps, FindEndpointsKeeps, WeightsKeep,
       CollapsingKeeps DEF Next
  <2>2. CASE UNCHANGED vars
    <3>1. UNCHANGED <<pc, metadata, request, runtaskentries, turn, runq_build, runall_tids,
                      deps_left, points>>
      BY <2>2 DEF vars, inputs, recursion, asked
    <3>2. Typed' /\ RunallReached'
      BY <3>1 DEF Inv, Typed, RunallReached, Queue
    <3>3. Marked'
      BY <3>1 DEF Inv, Marked, Queue, ClosedSet, Active, Wanted
    <3>4. Queue' = Queue /\ revdeps' = revdeps
      BY <3>1 DEF Queue, revdeps
    <3>5. Zero' = Zero /\ Done' = Done /\ \A S : (Loop(S))' = Loop(S)
      BY <3>1, <3>4 DEF Zero, Done, Loop
    <3>6. Counted'
      BY <3>1, <3>4, <3>5 DEF Inv, Counted
    <3>7. LoopsRefused'
      BY <3>1, <3>4 DEF Inv, LoopsRefused, Looped
    <3> QED BY <3>2, <3>3, <3>6, <3>7 DEF Inv
  <2> QED BY <2>1, <2>2
<1> QED BY <1>1, StartsRight, PTL DEF Spec

-----------------------------------------------------------------------------
\* For all metadata and every request: the queue has all that its tasks depend
\* on, --runall reaches every recipe of the queue, and a queue is refused as
\* circular exactly when it has a dependency loop (RunQueueData.prepare and
\* calculate_task_weights).
THEOREM QueuePrepared == Spec => []QueueIsSound
<1>1. Inv => QueueIsSound
  <2> SUFFICES ASSUME Inv PROVE QueueIsSound
    OBVIOUS
  <2>1. Closed
    <3>1. CASE pc \in Resolving \cup Marking
      BY <3>1 DEF Inv, Typed, Closed
    <3>2. CASE pc \notin Resolving \cup Marking
      BY <3>2 DEF Inv, Marked, Closed, ClosedSet
    <3> QED BY <3>1, <3>2
  <2> QED BY <2>1 DEF Inv, QueueIsSound
<1> QED BY <1>1, Invariance, PTL

-----------------------------------------------------------------------------
(* Peeling *)

Peeling  == {"peel", "unskippable", "ready", "went badly wrong"}
Ordinary == Queue \ runq_setscene_tids

\* The tasks below a setscene task, down to the next setscene tasks
Sealed(X) == \A x \in X \ runq_setscene_tids : runtaskentries[x] \subseteq X
Covers(s) ==
  {d \in Queue : \A X \in SUBSET Queue : runtaskentries[s] \subseteq X /\ Sealed(X) => d \in X}

PeelTyped ==
  /\ runq_setscene_tids \subseteq Queue
  /\ DOMAIN endpoints \subseteq Queue
  /\ endpoints \in [DOMAIN endpoints -> SUBSET runq_setscene_tids]
  /\ DOMAIN newendpoints \subseteq Ordinary
  /\ newendpoints \in [DOMAIN newendpoints -> SUBSET runq_setscene_tids]
  /\ sq_revdeps \in [Queue -> SUBSET Ordinary]
  /\ \A d \in Queue : sq_revdeps[d] \subseteq revdeps[d]
  /\ sq_revdeps_squash \in [Queue -> SUBSET runq_setscene_tids]
  /\ sq_collated_deps \in [runq_setscene_tids -> SUBSET Ordinary]

\* Setscene task s has arrived at d for good; or it is about to.
Arrived(s, d) == IF d \in runq_setscene_tids THEN s \in sq_revdeps_squash[d]
                                             ELSE d \in sq_collated_deps[s]
Carried(s, d) == s \in sq_revdeps_squash[d] \/ (d \in DOMAIN endpoints /\ s \in endpoints[d])

\* Nothing goes where no path leads.
OnPaths ==
  \A s \in runq_setscene_tids, d \in Queue :
    Arrived(s, d) \/ Carried(s, d) => d \in Covers(s)

\* Everything goes on.  What the next round carries by a chain is also left
\* behind, or has arrived, so that it does no harm if one chain replaces another.
HandsOn ==
  /\ \A s \in runq_setscene_tids : \A d \in runtaskentries[s] : Arrived(s, d) \/ Carried(s, d)
  /\ \A s \in runq_setscene_tids, p \in Ordinary : \A d \in runtaskentries[p] :
       Arrived(s, p) => Arrived(s, d) \/ Carried(s, d)
  /\ \A d \in DOMAIN newendpoints : \A s \in newendpoints[d] :
       s \in sq_revdeps_squash[d] \/ Arrived(s, d)

\* An ordinary task that holds a setscene task, or holds up a task below it,
\* will be a point or waits for one of its users.
Waits ==
  \A t \in Ordinary :
    sq_revdeps_squash[t] # {} \/ (\E d \in Queue : t \in sq_revdeps[d]) =>
      t \in DOMAIN endpoints \cup DOMAIN newendpoints \/ sq_revdeps[t] # {}

Peeled ==
  pc \in Peeling =>
    /\ PeelTyped /\ OnPaths /\ HandsOn /\ Waits
    /\ pc # "peel" => DOMAIN endpoints = {} /\ DOMAIN newendpoints = {}

LEMMA CoversFacts ==
  ASSUME ClosedSet(Queue), NEW s \in Queue
  PROVE  /\ Covers(s) \subseteq Queue /\ runtaskentries[s] \subseteq Covers(s)
         /\ \A p \in Covers(s) \ runq_setscene_tids : runtaskentries[p] \subseteq Covers(s)
         /\ \A X \in SUBSET Queue : runtaskentries[s] \subseteq X /\ Sealed(X) => Covers(s) \subseteq X
<1>1. Covers(s) \subseteq Queue /\ runtaskentries[s] \subseteq Covers(s)
  BY DEF Covers, ClosedSet
<1>2. ASSUME NEW p \in Covers(s) \ runq_setscene_tids, NEW d \in runtaskentries[p]
      PROVE  d \in Covers(s)
  <2>1. d \in Queue
    BY <1>1 DEF ClosedSet
  <2>2. ASSUME NEW X \in SUBSET Queue, runtaskentries[s] \subseteq X, Sealed(X)
        PROVE  d \in X
    BY <2>2 DEF Covers, Sealed
  <2> QED BY <2>1, <2>2 DEF Covers
<1>3. \A X \in SUBSET Queue : runtaskentries[s] \subseteq X /\ Sealed(X) => Covers(s) \subseteq X
  BY DEF Covers
<1> QED BY <1>1, <1>2, <1>3

LEMMA PeelingQueue ==
  ASSUME Inv, pc \in Checked
  PROVE  /\ ClosedSet(Queue) /\ ~Looped
         /\ \A t \in Queue : revdeps[t] \subseteq Queue /\ runtaskentries[t] \subseteq Queue
         /\ \A t \in Queue : t \notin runtaskentries[t]
         /\ \A t \in Queue, u \in Queue : u \in revdeps[t] <=> t \in runtaskentries[u]
<1>1. ClosedSet(Queue) /\ ~Looped
  BY DEF Inv, Marked, LoopsRefused, Resolving, Marking, Checked
<1>2. \A t \in Queue : revdeps[t] \subseteq Queue /\ runtaskentries[t] \subseteq Queue
  BY <1>1 DEF revdeps, ClosedSet
<1>3. \A t \in Queue, u \in Queue : u \in revdeps[t] <=> t \in runtaskentries[u]
  BY DEF revdeps
<1>4. ASSUME NEW t \in Queue, t \in runtaskentries[t] PROVE FALSE
  <2>1. {t} \in SUBSET Queue /\ {t} # {} /\ \A x \in {t} : revdeps[x] \cap {t} # {}
    BY <1>3, <1>4
  <2> QED BY <1>1, <2>1 DEF Looped
<1> QED BY <1>1, <1>2, <1>3, <1>4

LEMMA StartPeelingPeels ==
  ASSUME Inv, StartPeeling
  PROVE  Peeled'
<1> DEFINE SS == runq_setscene_tids'
           users == [t \in Queue |-> revdeps[t] \cap SS]
           ends  == {t \in Queue \ SS : revdeps[t] = {}}
<1>1. pc = "setscene" /\ pc' = "peel" /\ SS \subseteq Queue
  BY DEF StartPeeling
<1>2. runtaskentries' = runtaskentries /\ Queue' = Queue /\ revdeps' = revdeps
  BY DEF StartPeeling, Queue, revdeps
<1>3. /\ endpoints' = [t \in ends \cup {u \in Queue : users[u] # {}} |-> users[t]]
      /\ sq_revdeps' = [t \in Queue |-> revdeps[t] \ users[t]]
      /\ newendpoints' = [t \in {} |-> {}]
      /\ sq_revdeps_squash' = [t \in Queue |-> {}]
      /\ sq_collated_deps' = [t \in SS |-> {}]
  BY DEF StartPeeling
<1>4. /\ ClosedSet(Queue)
      /\ \A t \in Queue : revdeps[t] \subseteq Queue /\ runtaskentries[t] \subseteq Queue
      /\ \A t \in Queue, u \in Queue : u \in revdeps[t] <=> t \in runtaskentries[u]
  BY <1>1, PeelingQueue DEF Checked
<1> HIDE DEF SS
<1>5. PeelTyped'
  BY <1>1, <1>2, <1>3, <1>4 DEF PeelTyped, Ordinary, SS
<1>6. \A s \in SS, d \in Queue : ~Arrived(s, d)'
  BY <1>3 DEF Arrived, SS
<1>7. \A s \in SS, d \in Queue : Carried(s, d)' <=> s \in revdeps[d]
  BY <1>3 DEF Carried
<1>8. (OnPaths /\ HandsOn)'
  <2>1. \A s \in SS : Covers(s)' \subseteq Queue /\ runtaskentries[s] \subseteq Covers(s)'
    BY <1>1, <1>2, <1>4 DEF Covers, ClosedSet
  <2>2. OnPaths'
    BY <1>1, <1>2, <1>4, <1>6, <1>7, <2>1 DEF OnPaths, SS
  <2>3. \A s \in SS : \A d \in runtaskentries[s] : Carried(s, d)'
    BY <1>1, <1>4, <1>7
  <2>4. DOMAIN newendpoints' = {}
    BY <1>3
  <2>5. \A s \in SS, p \in Ordinary' : ~Arrived(s, p)'
    BY <1>2, <1>6 DEF Ordinary
  <2> QED BY <1>2, <2>2, <2>3, <2>4, <2>5 DEF HandsOn, SS
<1>9. Waits'
  BY <1>1, <1>2, <1>3, <1>4 DEF Waits, Ordinary, SS
<1> QED BY <1>1, <1>5, <1>8, <1>9 DEF Peeled


\* A setscene task takes what has come to it.
LEMMA SetscenePointPeels ==
  ASSUME Inv, Peeled, NEW p \in Tasks, ProcessPoint(p), p \in runq_setscene_tids
  PROVE  Peeled'
<1>1. pc = "peel" /\ pc' = "peel" /\ p \in DOMAIN endpoints
  BY DEF ProcessPoint
<1>2. PeelTyped /\ OnPaths /\ HandsOn /\ Waits
  BY <1>1 DEF Peeled, Peeling
<1>3. UNCHANGED <<runtaskentries, runq_setscene_tids, newendpoints, sq_revdeps, sq_collated_deps>>
  BY DEF ProcessPoint
<1>4. /\ Queue' = Queue /\ revdeps' = revdeps /\ Ordinary' = Ordinary
      /\ \A s \in Queue : Covers(s)' = Covers(s)
  BY <1>3 DEF Queue, revdeps, Ordinary, Covers, Sealed
<1>5. /\ DOMAIN endpoints' = DOMAIN endpoints \ {p}
      /\ \A d \in DOMAIN endpoints' : endpoints'[d] = endpoints[d]
      /\ endpoints' \in [DOMAIN endpoints' -> SUBSET runq_setscene_tids]
  BY <1>2 DEF ProcessPoint, Restrict, PeelTyped
<1>6. /\ sq_revdeps_squash'[p] = endpoints[p] \cup sq_revdeps_squash[p]
      /\ \A d \in Queue \ {p} : sq_revdeps_squash'[d] = sq_revdeps_squash[d]
      /\ sq_revdeps_squash' \in [Queue -> SUBSET runq_setscene_tids]
  BY <1>1, <1>2 DEF ProcessPoint, PeelTyped
<1>7. PeelTyped'
  BY <1>2, <1>3, <1>4, <1>5, <1>6 DEF PeelTyped
<1>8. \A s \in runq_setscene_tids, d \in Queue :
        /\ Arrived(s, d) => Arrived(s, d)'
        /\ Carried(s, d) => Arrived(s, d)' \/ Carried(s, d)'
        /\ Arrived(s, d)' \/ Carried(s, d)' => Arrived(s, d) \/ Carried(s, d)
        /\ d \in Ordinary => (Arrived(s, d)' <=> Arrived(s, d))
  BY <1>1, <1>3, <1>5, <1>6 DEF Arrived, Carried, Ordinary
<1>9. OnPaths'
  BY <1>2, <1>3, <1>4, <1>8 DEF OnPaths, PeelTyped
<1>10. HandsOn'
  <2>1. /\ ClosedSet(Queue)
        /\ \A t \in Queue : runtaskentries[t] \subseteq Queue
    BY <1>1, PeelingQueue DEF Checked
  <2>2. \A d \in DOMAIN newendpoints : d \in Ordinary /\ d # p
    BY <1>2 DEF PeelTyped, Ordinary
  <2>3. \A s \in runq_setscene_tids : \A d \in runtaskentries[s] : Arrived(s, d)' \/ Carried(s, d)'
    BY <1>2, <1>8, <2>1 DEF HandsOn, PeelTyped
  <2>4. \A s \in runq_setscene_tids, q \in Ordinary : \A d \in runtaskentries[q] :
          Arrived(s, q)' => Arrived(s, d)' \/ Carried(s, d)'
    BY <1>2, <1>8, <2>1 DEF HandsOn, Ordinary
  <2>5. \A d \in DOMAIN newendpoints : \A s \in newendpoints[d] :
          s \in sq_revdeps_squash'[d] \/ Arrived(s, d)'
    BY <1>2, <1>6, <1>8, <2>2 DEF HandsOn, PeelTyped, Ordinary
  <2> QED BY <1>3, <1>4, <2>3, <2>4, <2>5 DEF HandsOn
<1>11. Waits'
  BY <1>2, <1>3, <1>4, <1>5, <1>6 DEF Waits, Ordinary
<1> QED BY <1>1, <1>7, <1>9, <1>10, <1>11 DEF Peeled

\* Any other task is covered by what has come to it, and hands it on.
LEMMA OrdinaryPointPeels ==
  ASSUME Inv, Peeled, NEW p \in Tasks, ProcessPoint(p), p \notin runq_setscene_tids
  PROVE  Peeled'
<1> DEFINE tasks == endpoints[p] \cup sq_revdeps_squash[p]
           freed == [d \in Queue |-> IF d \in runtaskentries[p] THEN sq_revdeps[d] \ {p}
                                                                ELSE sq_revdeps[d]]
           new   == Free(p, freed)
<1>1. pc = "peel" /\ pc' = "peel" /\ p \in DOMAIN endpoints
  BY DEF ProcessPoint
<1>2. PeelTyped /\ OnPaths /\ HandsOn /\ Waits
  BY <1>1 DEF Peeled, Peeling
<1>3. UNCHANGED <<runtaskentries, runq_setscene_tids>>
  BY DEF ProcessPoint
<1>4. /\ Queue' = Queue /\ revdeps' = revdeps /\ Ordinary' = Ordinary
      /\ \A s \in Queue : Covers(s)' = Covers(s)
  BY <1>3 DEF Queue, revdeps, Ordinary, Covers, Sealed
<1>5. /\ ClosedSet(Queue) /\ p \notin runtaskentries[p]
      /\ \A t \in Queue : runtaskentries[t] \subseteq Queue
      /\ \A t \in Queue, u \in Queue : u \in revdeps[t] <=> t \in runtaskentries[u]
      /\ p \in Ordinary
  BY <1>1, <1>2, PeelingQueue DEF Checked, PeelTyped, Ordinary
<1>6. /\ DOMAIN endpoints' = DOMAIN endpoints \ {p}
      /\ \A d \in DOMAIN endpoints' : endpoints'[d] = endpoints[d]
      /\ endpoints' \in [DOMAIN endpoints' -> SUBSET runq_setscene_tids]
  BY <1>2 DEF ProcessPoint, Restrict, PeelTyped
<1>7. tasks \subseteq runq_setscene_tids /\ endpoints[p] \subseteq tasks
  BY <1>1, <1>2, <1>5 DEF PeelTyped, Ordinary
<1>8. sq_revdeps_squash' = [d \in Queue |-> CASE d = p -> {}
                                   [] d \in runtaskentries[p] -> sq_revdeps_squash[d] \cup tasks
                                   [] OTHER -> sq_revdeps_squash[d]]
  BY DEF ProcessPoint
<1>9. sq_collated_deps' = [s \in runq_setscene_tids |->
                   IF s \in tasks THEN sq_collated_deps[s] \cup {p} ELSE sq_collated_deps[s]]
  BY DEF ProcessPoint
<1>10. sq_revdeps' = freed
  BY DEF ProcessPoint
<1>11. newendpoints' = [d \in DOMAIN newendpoints \cup new |->
                                 IF d \in new THEN endpoints[p] ELSE newendpoints[d]]
  BY DEF ProcessPoint
<1>12. \A d : d \in new <=> d \in runtaskentries[p] \ runq_setscene_tids /\ freed[d] = {}
  BY DEF Free
<1>13. new \subseteq Ordinary /\ new \subseteq runtaskentries[p]
  BY <1>5, <1>12 DEF Ordinary
<1> HIDE DEF tasks, freed, new
<1>14. /\ sq_revdeps_squash'[p] = {}
       /\ \A d \in runtaskentries[p] : sq_revdeps_squash'[d] = sq_revdeps_squash[d] \cup tasks
       /\ \A d \in Queue \ {p} : d \notin runtaskentries[p] => sq_revdeps_squash'[d] = sq_revdeps_squash[d]
       /\ sq_revdeps_squash' \in [Queue -> SUBSET runq_setscene_tids]
  BY <1>2, <1>5, <1>7, <1>8 DEF PeelTyped, Ordinary
<1>15. /\ \A s \in runq_setscene_tids, d \in Queue :
            d \in sq_collated_deps'[s] <=> d \in sq_collated_deps[s] \/ (d = p /\ s \in tasks)
       /\ sq_collated_deps' \in [runq_setscene_tids -> SUBSET Ordinary]
  BY <1>2, <1>5, <1>9 DEF PeelTyped, Ordinary
<1>16. /\ \A d \in Queue : sq_revdeps'[d] = sq_revdeps[d] \ {p}
       /\ sq_revdeps' \in [Queue -> SUBSET Ordinary]
       /\ \A d \in Queue : sq_revdeps'[d] \subseteq revdeps[d]
  BY <1>2, <1>5, <1>10 DEF PeelTyped, Ordinary, freed
<1>17. /\ DOMAIN newendpoints' = DOMAIN newendpoints \cup new
       /\ \A d \in new : newendpoints'[d] = endpoints[p]
       /\ \A d \in DOMAIN newendpoints \ new : newendpoints'[d] = newendpoints[d]
       /\ newendpoints' \in [DOMAIN newendpoints' -> SUBSET runq_setscene_tids]
  BY <1>1, <1>2, <1>11 DEF PeelTyped
<1>18. PeelTyped'
  BY <1>2, <1>3, <1>4, <1>6, <1>13, <1>14, <1>15, <1>16, <1>17 DEF PeelTyped
<1>19. \A s \in runq_setscene_tids, d \in Queue : Arrived(s, d) => Arrived(s, d)'
  BY <1>3, <1>5, <1>14, <1>15 DEF Arrived, Ordinary
<1>20. \A s \in runq_setscene_tids, d \in Queue :
         Carried(s, d) => Arrived(s, d)' \/ Carried(s, d)'
  <2> SUFFICES ASSUME NEW s \in runq_setscene_tids, NEW d \in Queue, Carried(s, d)
               PROVE  Arrived(s, d)' \/ Carried(s, d)'
    OBVIOUS
  <2>1. CASE d = p
    <3>1. s \in tasks
      BY <2>1 DEF Carried, tasks
    <3> QED BY <1>3, <1>5, <1>15, <2>1, <3>1 DEF Arrived, Ordinary
  <2>2. CASE d # p
    BY <1>6, <1>14, <2>2 DEF Carried
  <2> QED BY <2>1, <2>2
<1>21. \A s \in tasks : \A d \in runtaskentries[p] : Carried(s, d)'
  BY <1>14 DEF Carried
<1>22. \A s \in runq_setscene_tids, d \in Queue :
         Arrived(s, d)' \/ Carried(s, d)' =>
           \/ Arrived(s, d) \/ Carried(s, d)
           \/ s \in tasks /\ d \in runtaskentries[p]
  <2> SUFFICES ASSUME NEW s \in runq_setscene_tids, NEW d \in Queue, Arrived(s, d)' \/ Carried(s, d)',
                      ~(s \in tasks /\ d \in runtaskentries[p])
               PROVE  Arrived(s, d) \/ Carried(s, d)
    OBVIOUS
  <2>1. s \in sq_revdeps_squash'[d] => s \in sq_revdeps_squash[d]
    BY <1>14
  <2>2. d \in sq_collated_deps'[s] => d \in sq_collated_deps[s] \/ (d = p /\ s \in tasks)
    BY <1>15
  <2>3. s \in tasks => Carried(s, p)
    BY <1>1 DEF tasks, Carried
  <2>4. d \in DOMAIN endpoints' => d \in DOMAIN endpoints /\ endpoints'[d] = endpoints[d]
    BY <1>6
  <2> QED BY <1>3, <2>1, <2>2, <2>3, <2>4 DEF Arrived, Carried
<1>23. OnPaths'
  <2> SUFFICES ASSUME NEW s \in runq_setscene_tids, NEW d \in Queue, Arrived(s, d)' \/ Carried(s, d)'
               PROVE  d \in Covers(s)
    BY <1>2, <1>3, <1>4 DEF OnPaths, PeelTyped
  <2>1. CASE Arrived(s, d) \/ Carried(s, d)
    BY <1>2, <2>1 DEF OnPaths
  <2>2. CASE s \in tasks /\ d \in runtaskentries[p]
    <3>1. Carried(s, p)
      BY <1>1, <2>2 DEF Carried, tasks
    <3>2. p \in Covers(s) \ runq_setscene_tids
      BY <1>2, <1>5, <3>1 DEF OnPaths, Ordinary
    <3>3. s \in Queue
      BY <1>2 DEF PeelTyped
    <3> QED BY <1>5, <2>2, <3>2, <3>3, CoversFacts
  <2> QED BY <1>22, <2>1, <2>2
<1>24. HandsOn'
  <2>1. \A s \in runq_setscene_tids : \A d \in runtaskentries[s] : Arrived(s, d)' \/ Carried(s, d)'
    BY <1>2, <1>5, <1>19, <1>20 DEF HandsOn, PeelTyped
  <2>2. ASSUME NEW s \in runq_setscene_tids, NEW q \in Ordinary, NEW d \in runtaskentries[q],
               Arrived(s, q)'
        PROVE  Arrived(s, d)' \/ Carried(s, d)'
    <3>1. Arrived(s, q) \/ (q = p /\ s \in tasks)
      BY <1>3, <1>15, <2>2 DEF Arrived, Ordinary
    <3>2. d \in Queue
      BY <1>5 DEF Ordinary
    <3>3. CASE Arrived(s, q)
      BY <1>2, <1>19, <1>20, <3>2, <3>3 DEF HandsOn
    <3>4. CASE q = p /\ s \in tasks
      BY <1>21, <3>4
    <3> QED BY <3>1, <3>3, <3>4
  <2>3. ASSUME NEW d \in DOMAIN newendpoints', NEW s \in newendpoints'[d]
        PROVE  s \in sq_revdeps_squash'[d] \/ Arrived(s, d)'
    <3>1. CASE d \in new
      BY <1>7, <1>13, <1>14, <1>17, <3>1
    <3>2. CASE d \notin new
      <4>1. d \in DOMAIN newendpoints /\ s \in newendpoints[d] /\ d \in Queue /\ d \in Ordinary
        BY <1>2, <1>17, <3>2 DEF PeelTyped, Ordinary
      <4>2. s \in runq_setscene_tids
        BY <1>2, <4>1 DEF PeelTyped
      <4>3. CASE Arrived(s, d)
        BY <1>19, <4>1, <4>2, <4>3
      <4>4. CASE s \in sq_revdeps_squash[d] /\ d = p
        <5>1. s \in tasks
          BY <4>4 DEF tasks
        <5> QED BY <1>3, <1>5, <1>15, <4>1, <4>2, <4>4, <5>1 DEF Arrived, Ordinary
      <4>5. CASE s \in sq_revdeps_squash[d] /\ d # p
        BY <1>14, <4>1, <4>5
      <4> QED BY <1>2, <4>1, <4>3, <4>4, <4>5 DEF HandsOn
    <3> QED BY <3>1, <3>2
  <2> QED BY <1>3, <1>4, <2>1, <2>2, <2>3 DEF HandsOn
<1>25. Waits'
  <2> SUFFICES ASSUME NEW t \in Ordinary,
                      sq_revdeps_squash'[t] # {} \/ (\E d \in Queue : t \in sq_revdeps'[d]),
                      sq_revdeps'[t] = {}
               PROVE  t \in DOMAIN endpoints' \cup DOMAIN newendpoints'
    BY <1>3, <1>4 DEF Waits
  <2>1. t # p /\ t \in Queue
    BY <1>14, <1>16 DEF Ordinary
  <2>2. CASE t \in runtaskentries[p]
    <3>1. freed[t] = {}
      BY <1>10
    <3> QED BY <1>12, <1>17, <2>2, <3>1 DEF Ordinary
  <2>3. CASE t \notin runtaskentries[p]
    <3>1. p \notin sq_revdeps[t]
      BY <1>2, <1>5, <2>1, <2>3 DEF PeelTyped, Ordinary
    <3>2. sq_revdeps[t] = {}
      BY <1>16, <2>1, <3>1
    <3>3. sq_revdeps_squash[t] # {} \/ (\E d \in Queue : t \in sq_revdeps[d])
      BY <1>14, <1>16, <2>1, <2>3
    <3> QED BY <1>2, <1>6, <1>17, <2>1, <3>2, <3>3 DEF Waits
  <2> QED BY <2>2, <2>3
<1> QED BY <1>1, <1>18, <1>23, <1>24, <1>25 DEF Peeled


\* The points of the next round are those the chains have come to.
LEMMA NextRoundPeels ==
  ASSUME Inv, Peeled, NextRound
  PROVE  Peeled'
<1>1. pc = "peel" /\ pc' \in {"peel", "unskippable"} /\ DOMAIN endpoints = {}
  BY DEF NextRound
<1>2. PeelTyped /\ OnPaths /\ HandsOn /\ Waits
  BY <1>1 DEF Peeled, Peeling
<1>3. UNCHANGED <<runtaskentries, runq_setscene_tids, sq_revdeps, sq_revdeps_squash, sq_collated_deps>>
  BY DEF NextRound
<1>4. /\ Queue' = Queue /\ revdeps' = revdeps /\ Ordinary' = Ordinary
      /\ \A s \in Queue : Covers(s)' = Covers(s)
  BY <1>3 DEF Queue, revdeps, Ordinary, Covers, Sealed
<1>5. CASE newendpoints # endpoints /\ endpoints' = newendpoints /\ newendpoints' = endpoints /\ pc' = pc
  <2>1. PeelTyped'
    BY <1>1, <1>2, <1>3, <1>4, <1>5 DEF PeelTyped, Ordinary
  <2>2. \A s \in runq_setscene_tids, d \in Queue :
          /\ Arrived(s, d)' <=> Arrived(s, d)
          /\ Carried(s, d) => Carried(s, d)'
          /\ Carried(s, d)' => Carried(s, d) \/ Arrived(s, d)
    BY <1>1, <1>2, <1>3, <1>5 DEF Arrived, Carried, HandsOn
  <2>3. \A t \in Queue : runtaskentries[t] \subseteq Queue
    BY <1>1, PeelingQueue DEF Checked
  <2>4. OnPaths'
    BY <1>2, <1>3, <1>4, <2>2 DEF OnPaths, PeelTyped
  <2>5. HandsOn'
    BY <1>1, <1>2, <1>3, <1>4, <1>5, <2>2, <2>3 DEF HandsOn, PeelTyped, Ordinary
  <2>6. Waits'
    BY <1>2, <1>3, <1>4, <1>5 DEF Waits
  <2> QED BY <1>1, <1>5, <2>1, <2>4, <2>5, <2>6 DEF Peeled
<1>6. CASE newendpoints = endpoints /\ UNCHANGED <<endpoints, newendpoints>>
  <2>1. PeelTyped'
    BY <1>2, <1>3, <1>4, <1>6 DEF PeelTyped
  <2>2. OnPaths' /\ HandsOn'
    BY <1>2, <1>3, <1>4, <1>6 DEF OnPaths, HandsOn, Arrived, Carried, PeelTyped
  <2>3. Waits'
    BY <1>2, <1>3, <1>4, <1>6 DEF Waits
  <2> QED BY <1>1, <1>6, <2>1, <2>2, <2>3 DEF Peeled
<1> QED BY <1>5, <1>6 DEF NextRound

LEMMA OtherStepsPeel ==
  ASSUME Inv, Peeled, [Next]_vars
  PROVE  Peeled'
<1>1. CASE pc' \notin Peeling
  BY <1>1 DEF Peeled
<1>2. CASE StartPeeling
  BY <1>2, StartPeelingPeels
<1>3. CASE \E p \in Tasks : ProcessPoint(p)
  BY <1>3, SetscenePointPeels, OrdinaryPointPeels
<1>4. CASE NextRound
  BY <1>4, NextRoundPeels
<1>5. CASE CollectUnskippable \/ UNCHANGED vars
  <2>1. /\ pc = "peel" <=> pc' = "peel"
        /\ pc \in Peeling <=> pc' \in Peeling
    BY <1>5 DEF CollectUnskippable, vars, Peeling
  <2>2. UNCHANGED <<runtaskentries, peeling>>
    BY <1>5 DEF CollectUnskippable, vars
  <2>3. /\ Queue' = Queue /\ revdeps' = revdeps /\ Ordinary' = Ordinary
      /\ \A s \in Queue : Covers(s)' = Covers(s)
    BY <2>2 DEF Queue, revdeps, Ordinary, Covers, Sealed, peeling
  <2>4. PeelTyped => PeelTyped'
    BY <2>2, <2>3 DEF PeelTyped, peeling
  <2>5. PeelTyped /\ OnPaths => OnPaths'
    BY <2>2, <2>3 DEF OnPaths, Arrived, Carried, PeelTyped, peeling
  <2>6. HandsOn => HandsOn'
    BY <2>2, <2>3 DEF HandsOn, Arrived, Carried, peeling
  <2>7. Waits => Waits'
    BY <2>2, <2>3 DEF Waits, peeling
  <2> QED BY <2>1, <2>2, <2>4, <2>5, <2>6, <2>7 DEF Peeled, peeling
<1>6. CASE Next /\ pc' \in Peeling
  <2>1. ~(Collate \/ NextPass \/ (\E r \in Tasks : Recurse(r)) \/ MarkTargets \/ Runall \/ Prune
          \/ Runonly \/ FindEndpoints \/ CalculateWeights)
    BY <1>6 DEF Collate, NextPass, Recurse, MarkTargets, Runall, Prune, Runonly, FindEndpoints,
                CalculateWeights, Peeling
  <2> QED BY <1>2, <1>3, <1>4, <1>5, <1>6, <2>1 DEF Next
<1> QED BY <1>1, <1>5, <1>6

\* When there are no points left, nothing is held up: a task that is not done
\* would wait for one that is not done, and so on in a loop.
LEMMA NothingHeld ==
  ASSUME Inv, pc \in Checked, PeelTyped, Waits, DOMAIN endpoints = {}, DOMAIN newendpoints = {}
  PROVE  \A t \in Ordinary : sq_revdeps_squash[t] = {}
<1> DEFINE N == {t \in Ordinary : \E d \in Queue : t \in sq_revdeps[d]}
<1>1. \A t \in N : sq_revdeps[t] # {}
  BY DEF Waits
<1>2. \A t \in N : revdeps[t] \cap N # {}
  <2> SUFFICES ASSUME NEW t \in N PROVE revdeps[t] \cap N # {}
    OBVIOUS
  <2>1. PICK u : u \in sq_revdeps[t]
    BY <1>1
  <2>2. u \in Ordinary /\ u \in revdeps[t] /\ t \in Queue
    BY <2>1 DEF PeelTyped, Ordinary
  <2> QED BY <2>1, <2>2
<1>3. N = {}
  <2>1. N \subseteq Queue
    BY DEF Ordinary
  <2> HIDE DEF N
  <2> QED BY <1>2, <2>1, PeelingQueue DEF Looped
<1>4. \A t \in Ordinary : sq_revdeps[t] = {}
  <2> SUFFICES ASSUME NEW t \in Ordinary, NEW u \in sq_revdeps[t] PROVE FALSE
    OBVIOUS
  <2>1. u \in Ordinary /\ t \in Queue
    BY DEF PeelTyped, Ordinary
  <2> QED BY <1>3, <2>1
<1> QED BY <1>4 DEF Waits

\* What has arrived then is what the paths lead to.
LEMMA AllArrived ==
  ASSUME Inv, Peeled, pc \in Peeling, pc # "peel"
  PROVE  \A s \in runq_setscene_tids, d \in Queue : Arrived(s, d) <=> d \in Covers(s)
<1>1. PeelTyped /\ OnPaths /\ HandsOn /\ Waits /\ DOMAIN endpoints = {} /\ DOMAIN newendpoints = {}
  BY DEF Peeled
<1>2. pc \in Checked
  BY DEF Checked, Peeling
<1>3. \A s \in runq_setscene_tids, d \in Queue : Carried(s, d) => Arrived(s, d)
  BY <1>1, <1>2, NothingHeld DEF Carried, Arrived, Ordinary
<1>4. ClosedSet(Queue) /\ \A t \in Queue : runtaskentries[t] \subseteq Queue
  BY <1>2, PeelingQueue
<1> SUFFICES ASSUME NEW s \in runq_setscene_tids
             PROVE  \A d \in Queue : Arrived(s, d) <=> d \in Covers(s)
  OBVIOUS
<1> DEFINE X == {d \in Queue : Arrived(s, d)}
<1>5. s \in Queue
  BY <1>1 DEF PeelTyped
<1>6. runtaskentries[s] \subseteq X
  BY <1>1, <1>3, <1>4, <1>5 DEF HandsOn
<1>7. Sealed(X)
  BY <1>1, <1>3, <1>4 DEF HandsOn, Sealed, Ordinary
<1>8. Covers(s) \subseteq X
  <2> HIDE DEF X
  <2>1. X \in SUBSET Queue
    BY DEF X
  <2> QED BY <1>4, <1>5, <1>6, <1>7, <2>1, CoversFacts
<1>9. X \subseteq Covers(s)
  BY <1>1 DEF OnPaths
<1> QED BY <1>5, <1>8, <1>9, <1>4, CoversFacts


-----------------------------------------------------------------------------
(* Unskippable tasks *)

Collected == {"unskippable", "ready", "went badly wrong"}
Roots     == {t \in Queue : revdeps[t] = {}} \cup cantskip
Reached   == {d \in Queue : \A X \in SUBSET Queue : Roots \subseteq X /\ Sealed(X) => d \in X}
Loose(S)  == {t \in S \ runq_setscene_tids : runtaskentries[t] = {}}

\* The passes over the unskippable tasks add what is reached from the roots, until
\* they add nothing; none with nothing below it is forgotten.
Skips ==
  /\ pc \notin Collected => buildable = {}
  /\ pc \in Collected =>
       Roots \subseteq unskippable /\ unskippable \subseteq Reached /\ buildable \subseteq Loose(unskippable)
  /\ pc \in {"ready", "went badly wrong"} =>
       /\ Sealed(unskippable) /\ buildable = Loose(unskippable)
       /\ tasks_scenequeue_done = unskippable \ runq_setscene_tids
  /\ pc = "went badly wrong" => \E t \in Ordinary : sq_revdeps_squash[t] # {}

LEMMA ReachedFacts ==
  ASSUME ClosedSet(Queue)
  PROVE  /\ Roots \subseteq Reached /\ Reached \subseteq Queue /\ Sealed(Reached)
         /\ \A X \in SUBSET Queue : Roots \subseteq X /\ Sealed(X) => Reached \subseteq X
<1>1. Roots \subseteq Queue
  BY DEF Roots, cantskip
<1>2. Roots \subseteq Reached /\ Reached \subseteq Queue
  BY <1>1 DEF Reached
<1>3. Sealed(Reached)
  <2> SUFFICES ASSUME NEW p \in Reached \ runq_setscene_tids, NEW d \in runtaskentries[p]
               PROVE  d \in Reached
    BY DEF Sealed
  <2>1. d \in Queue
    BY <1>2 DEF ClosedSet
  <2>2. ASSUME NEW X \in SUBSET Queue, Roots \subseteq X, Sealed(X)
        PROVE  d \in X
    BY <2>2 DEF Reached, Sealed
  <2> QED BY <2>1, <2>2 DEF Reached
<1>4. \A X \in SUBSET Queue : Roots \subseteq X /\ Sealed(X) => Reached \subseteq X
  BY DEF Reached
<1> QED BY <1>2, <1>3, <1>4

LEMMA CollectSkips ==
  ASSUME Inv, Skips, CollectUnskippable
  PROVE  Skips'
<1> DEFINE ordinary == unskippable \ runq_setscene_tids
<1>1. pc = "unskippable" /\ pc' \in Collected
  BY DEF CollectUnskippable, Collected
<1>2. UNCHANGED <<runtaskentries, runq_setscene_tids, target_tids, sq_revdeps_squash>>
  BY DEF CollectUnskippable, asked, peeling
<1>3. /\ Queue' = Queue /\ Ordinary' = Ordinary /\ Roots' = Roots /\ Reached' = Reached
      /\ \A S : Sealed(S)' = Sealed(S) /\ Loose(S)' = Loose(S)
  BY <1>2 DEF Queue, Ordinary, revdeps, cantskip, Roots, Reached, Sealed, Loose
<1>4. unskippable' = unskippable \cup UNION {runtaskentries[t] : t \in ordinary}
      /\ buildable' = buildable \cup Loose(unskippable)
  BY DEF CollectUnskippable, Loose
<1>5. Roots \subseteq unskippable /\ unskippable \subseteq Reached /\ buildable \subseteq Loose(unskippable)
  BY <1>1 DEF Skips, Collected
<1>6. Sealed(Reached)
  BY <1>1, PeelingQueue, ReachedFacts DEF Checked
<1>7. \A t \in ordinary : runtaskentries[t] \subseteq Reached
  BY <1>5, <1>6 DEF Sealed
<1>8. /\ Roots \subseteq unskippable' /\ unskippable' \subseteq Reached
      /\ buildable' \subseteq Loose(unskippable')
  <2>1. unskippable \subseteq unskippable' /\ unskippable' \subseteq Reached
    BY <1>4, <1>5, <1>7
  <2> QED BY <1>4, <1>5, <2>1 DEF Loose
<1>9. ASSUME pc' # "unskippable"
      PROVE  /\ Sealed(unskippable') /\ buildable' = Loose(unskippable')
             /\ tasks_scenequeue_done' = unskippable' \ runq_setscene_tids
             /\ pc' = "went badly wrong" => \E t \in Ordinary : sq_revdeps_squash[t] # {}
  <2>1. /\ unskippable' = unskippable
        /\ tasks_scenequeue_done' = unskippable \ runq_setscene_tids
        /\ pc' = "went badly wrong" => \E t \in Ordinary : sq_revdeps_squash[t] # {}
    BY <1>1, <1>9 DEF CollectUnskippable, Ordinary
  <2>2. Sealed(unskippable)
    BY <1>4, <2>1 DEF Sealed
  <2> QED BY <1>4, <1>5, <2>1, <2>2
<1> QED BY <1>1, <1>2, <1>3, <1>8, <1>9 DEF Skips

LEMMA SkipsKept ==
  ASSUME Inv, Skips, [Next]_vars
  PROVE  Skips'
<1>1. CASE CollectUnskippable
  BY <1>1, CollectSkips
<1>2. CASE NextRound
  <2>1. UNCHANGED <<runtaskentries, runq_setscene_tids, target_tids, buildable>>
    BY <1>2 DEF NextRound, asked
  <2>2. /\ Queue' = Queue /\ Roots' = Roots /\ Reached' = Reached
        /\ \A S : Loose(S)' = Loose(S)
    BY <2>1 DEF Queue, revdeps, cantskip, Roots, Reached, Sealed, Loose
  <2>3. pc = "peel" /\ buildable = {} /\ Roots \subseteq Reached
    BY <1>2, PeelingQueue, ReachedFacts DEF NextRound, Skips, Collected, Checked
  <2>4. \/ pc' = "peel"
        \/ pc' = "unskippable" /\ unskippable' = Roots
    BY <1>2, <2>3 DEF NextRound, Roots
  <2> QED BY <2>1, <2>2, <2>3, <2>4 DEF Skips, Collected
<1>3. CASE UNCHANGED vars
  <2>1. UNCHANGED <<pc, runtaskentries, target_tids, runq_setscene_tids, sq_revdeps_squash, skipping>>
    BY <1>3 DEF vars, asked, peeling
  <2>2. /\ Queue' = Queue /\ Ordinary' = Ordinary /\ Roots' = Roots /\ Reached' = Reached
        /\ \A S : Sealed(S)' = Sealed(S) /\ Loose(S)' = Loose(S)
    BY <2>1 DEF Queue, Ordinary, revdeps, cantskip, Roots, Reached, Sealed, Loose
  <2> QED BY <2>1, <2>2 DEF Skips, skipping
<1>4. CASE Next /\ ~CollectUnskippable /\ ~NextRound
  <2>1. pc \notin Collected /\ pc' \notin Collected /\ buildable' = buildable
    BY <1>4 DEF Next, Collate, NextPass, Recurse, MarkTargets, Runall, Prune, Runonly, FindEndpoints,
                CalculateWeights, StartPeeling, ProcessPoint, Collected, skipping
  <2> QED BY <2>1 DEF Skips, Collected
<1> QED BY <1>1, <1>2, <1>3, <1>4

-----------------------------------------------------------------------------
(* The collapsed graph *)

\* The sets of TaskGraph are those named here.
LEMMA PathsAre ==
  ASSUME PeelTyped
  PROVE  /\ \A s \in runq_setscene_tids : Paths!Below[s] = Covers(s)
         /\ Paths!sq_covered_tasks = [s \in runq_setscene_tids |-> Covers(s) \ runq_setscene_tids]
         /\ Paths!sq_revdeps =
              [d \in runq_setscene_tids |-> {s \in runq_setscene_tids : d \in Covers(s)}]
         /\ Paths!unskippable = Reached
<1>1. \A s \in runq_setscene_tids : Paths!Below[s] = Covers(s)
  BY DEF Paths!Below, Paths!DownFrom, Paths!ClosedDown, Covers, Sealed
<1>2. Paths!sq_covered_tasks = [s \in runq_setscene_tids |-> Covers(s) \ runq_setscene_tids]
  BY <1>1 DEF Paths!sq_covered_tasks
<1>3. Paths!sq_revdeps = [d \in runq_setscene_tids |-> {s \in runq_setscene_tids : d \in Covers(s)}]
  BY <1>1 DEF Paths!sq_revdeps
<1>4. Paths!revdeps = revdeps
  BY DEF Paths!revdeps, revdeps
<1>5. Paths!cantskip = cantskip
  BY DEF Paths!cantskip, cantskip
<1>6. Paths!unskippable = Reached
  BY <1>4, <1>5 DEF Paths!unskippable, Paths!DownFrom, Paths!ClosedDown, Reached, Roots, Sealed
<1> QED BY <1>1, <1>2, <1>3, <1>6

LEMMA CollapsedRight ==
  ASSUME Inv, Peeled, Skips
  PROVE  CollapsedByPaths
<1>1. pc # "went badly wrong"
  BY NothingHeld DEF Skips, Peeled, Peeling, Checked
<1> SUFFICES ASSUME pc = "ready"
             PROVE  /\ sq_collated_deps = Paths!sq_covered_tasks
                    /\ Restrict(sq_revdeps_squash, runq_setscene_tids) = Paths!sq_revdeps
                    /\ unskippable = Paths!unskippable
                    /\ tasks_scenequeue_done = unskippable \ runq_setscene_tids
                    /\ buildable = {t \in tasks_scenequeue_done : runtaskentries[t] = {}}
  BY <1>1 DEF CollapsedByPaths
<1>2. PeelTyped /\ \A s \in runq_setscene_tids, d \in Queue : Arrived(s, d) <=> d \in Covers(s)
  BY AllArrived DEF Peeled, Peeling
<1>3. ClosedSet(Queue) /\ \A s \in runq_setscene_tids : Covers(s) \subseteq Queue
  BY <1>2, PeelingQueue, CoversFacts DEF Checked, PeelTyped
<1>4. \A s \in runq_setscene_tids : sq_collated_deps[s] = Covers(s) \ runq_setscene_tids
  BY <1>2, <1>3 DEF Arrived, PeelTyped, Ordinary
<1>5. sq_collated_deps = Paths!sq_covered_tasks
  BY <1>2, <1>4, PathsAre DEF PeelTyped
<1>6. \A d \in runq_setscene_tids :
        sq_revdeps_squash[d] = {s \in runq_setscene_tids : d \in Covers(s)}
  BY <1>2 DEF Arrived, PeelTyped
<1>7. Restrict(sq_revdeps_squash, runq_setscene_tids) = Paths!sq_revdeps
  BY <1>2, <1>6, PathsAre DEF Restrict, PeelTyped
<1>8. unskippable = Reached
  <2>1. Roots \subseteq unskippable /\ unskippable \subseteq Reached /\ Sealed(unskippable)
    BY DEF Skips, Collected
  <2>2. unskippable \in SUBSET Queue
    BY <1>3, <2>1, ReachedFacts
  <2> QED BY <1>3, <2>1, <2>2, ReachedFacts
<1>9. unskippable = Paths!unskippable
  BY <1>2, <1>8, PathsAre
<1>10. tasks_scenequeue_done = unskippable \ runq_setscene_tids
       /\ buildable = {t \in tasks_scenequeue_done : runtaskentries[t] = {}}
  BY DEF Skips, Loose
<1> QED BY <1>5, <1>7, <1>9, <1>10

\* For every graph and every choice of setscene tasks, in whatever order points
\* are taken out of a round: peeling gives each setscene task what it covers and
\* those that need it, the passes over the unskippable tasks give what is
\* reached from the roots, and "went badly wrong" is never reached
\* (build_scenequeue_data, process_endpoints).
THEOREM CollapsedRightly == Spec => []CollapsedByPaths
<1>1. Init => Peeled /\ Skips
  BY DEF Init, Peeled, Skips, Peeling, Collected
<1>2. Inv /\ Peeled /\ Skips /\ [Next]_vars => (Peeled /\ Skips)'
  BY OtherStepsPeel, SkipsKept
<1>3. Inv /\ Peeled /\ Skips => CollapsedByPaths
  BY CollapsedRight
<1> QED BY <1>1, <1>2, <1>3, Invariance, PTL DEF Spec


\* What is handed on is a graph as TaskGraph, and the run queue on top of it,
\* assume it to be (GraphAssumption, QueueAssumption).
THEOREM GraphHandedOn ==
  Spec => [](pc = "ready" =>
    /\ IsFiniteSet(Queue) /\ runtaskentries \in [Queue -> SUBSET Queue]
    /\ runq_setscene_tids \subseteq Queue
    /\ \A S \in SUBSET Queue : S # {} => \E t \in S : \A r \in S : t \notin runtaskentries[r])
<1>1. Init => Peeled
  BY DEF Init, Peeled, Peeling
<1>2. Inv /\ Peeled /\ [Next]_vars => Peeled'
  BY OtherStepsPeel
<1>3. ASSUME Inv, Peeled, pc = "ready"
      PROVE  /\ IsFiniteSet(Queue) /\ runtaskentries \in [Queue -> SUBSET Queue]
             /\ runq_setscene_tids \subseteq Queue
             /\ \A S \in SUBSET Queue : S # {} => \E t \in S : \A r \in S : t \notin runtaskentries[r]
  <2>1. /\ ~Looped /\ \A t \in Queue : runtaskentries[t] \subseteq Queue
        /\ \A t \in Queue, u \in Queue : u \in revdeps[t] <=> t \in runtaskentries[u]
    BY <1>3, PeelingQueue DEF Checked
  <2>2. \A S \in SUBSET Queue : S # {} => \E t \in S : \A r \in S : t \notin runtaskentries[r]
    BY <2>1 DEF Looped
  <2> QED BY <1>3, <2>1, <2>2, QueueIsFinite DEF Peeled, Peeling, PeelTyped, Inv, Typed
<1> QED BY <1>1, <1>2, <1>3, Invariance, PTL DEF Spec

-----------------------------------------------------------------------------
(* Recursive dependencies *)

Recipes(x) == {Recipe[y] : y \in Below(x)}

\* What a dependency hands on
Handed(p) == {Recipe[p]} \cup Recipes(p)

LEMMA BelowFacts ==
  ASSUME metadata \in Metadata, NEW x \in Tasks
  PROVE  /\ Below(x) \subseteq Tasks /\ metadata.depends[x] \subseteq Below(x)
         /\ \A y \in Below(x) : metadata.depends[y] \subseteq Below(x)
         /\ \A X \in SUBSET Tasks :
              metadata.depends[x] \subseteq X /\ (\A y \in X : metadata.depends[y] \subseteq X)
                => Below(x) \subseteq X
<1>1. \A t \in Tasks : metadata.depends[t] \subseteq Tasks
  BY InputAssumption
<1>2. Below(x) \subseteq Tasks /\ metadata.depends[x] \subseteq Below(x)
  BY <1>1 DEF Below
<1>3. ASSUME NEW y \in Below(x), NEW t \in metadata.depends[y] PROVE t \in Below(x)
  <2>1. t \in Tasks
    BY <1>1, <1>2
  <2>2. ASSUME NEW X \in SUBSET Tasks, metadata.depends[x] \subseteq X,
               \A z \in X : metadata.depends[z] \subseteq X
        PROVE  t \in X
    BY <2>2 DEF Below
  <2> QED BY <2>1, <2>2 DEF Below
<1> QED BY <1>2, <1>3 DEF Below

\* The recipes below a task are those of its dependencies and those below them.
LEMMA RecipesUnfold ==
  ASSUME metadata \in Metadata, NEW x \in Tasks
  PROVE  Recipes(x) = UNION {Handed(p) : p \in metadata.depends[x]}
<1> DEFINE X == metadata.depends[x] \cup UNION {Below(p) : p \in metadata.depends[x]}
<1>1. \A t \in Tasks : metadata.depends[t] \subseteq Tasks
  BY InputAssumption
<1>2. X \subseteq Below(x)
  <2>1. ASSUME NEW p \in metadata.depends[x] PROVE Below(p) \subseteq Below(x)
    <3>1. p \in Tasks /\ p \in Below(x) /\ metadata.depends[p] \subseteq Below(x)
      BY <1>1, BelowFacts
    <3>2. Below(x) \in SUBSET Tasks /\ \A y \in Below(x) : metadata.depends[y] \subseteq Below(x)
      BY BelowFacts
    <3> QED BY <3>1, <3>2, BelowFacts
  <2> QED BY <2>1, BelowFacts
<1>3. X \in SUBSET Tasks /\ \A y \in X : metadata.depends[y] \subseteq X
  <2>1. \A p \in metadata.depends[x] :
          /\ Below(p) \subseteq Tasks /\ metadata.depends[p] \subseteq Below(p)
          /\ \A y \in Below(p) : metadata.depends[y] \subseteq Below(p)
    BY <1>1, BelowFacts
  <2> QED BY <1>1, <2>1
<1>4. Below(x) = X
  <2> HIDE DEF X
  <2>1. metadata.depends[x] \subseteq X
    BY DEF X
  <2> QED BY <1>2, <1>3, <2>1, BelowFacts
<1> QED BY <1>4 DEF Recipes, Handed

\* Where every task depends on another one, one is below itself.
LEMMA LoopFound ==
  ASSUME metadata \in Metadata, NEW S \in SUBSET Tasks, S # {},
         \A t \in S : metadata.depends[t] \cap S # {}
  PROVE  \E t \in Tasks : t \in Below(t)
<1> DEFINE Endless(X) == X # {} /\ \A t \in X : metadata.depends[t] \cap X # {}
           Loops == {X \in SUBSET S : Endless(X)}
           R == StrictSubsetOrdering(S)
<1>1. \A X \in SUBSET S : IsFiniteSet(X)
  BY InputAssumption, FS_Subset
<1>2. Loops \subseteq FiniteSubsetsOf(S) /\ Loops # {}
  BY <1>1 DEF FiniteSubsetsOf
<1>3. IsWellFoundedOn(R, FiniteSubsetsOf(S))
  BY FS_StrictSubsetOrderingWellFounded
<1>4. \E X \in Loops : \A Y \in Loops : <<Y, X>> \notin R
  <2> HIDE DEF Loops, R
  <2> QED BY <1>2, <1>3, WFMin
<1>5. PICK X \in Loops : \A Y \in Loops : <<Y, X>> \notin R
  BY <1>4
<1>6. PICK t \in X : TRUE
  BY <1>5
<1> DEFINE Y == X \cap Below(t)
<1>7. t \in Tasks /\ X \subseteq Tasks
  BY <1>5, <1>6
<1>8. Y \in Loops
  <2>1. metadata.depends[t] \subseteq Below(t) /\ \A y \in Below(t) : metadata.depends[y] \subseteq Below(t)
    BY <1>7, BelowFacts
  <2> QED BY <1>5, <1>6, <2>1
<1>9. Y = X
  BY <1>5, <1>8 DEF StrictSubsetOrdering
<1> QED BY <1>6, <1>7, <1>9

-----------------------------------------------------------------------------
(* Collating *)

Walked   == {t \in Tasks : deps[t] = {}} \ points
LoopFree == \A x \in Tasks : x \notin Below(x)

\* A task has been handed the recipes of the dependencies that were walked by, and
\* all that are below them; the walk only misses tasks above a loop.
Collated ==
  /\ pc = "collate" =>
       /\ deps \in [Tasks -> SUBSET Tasks] /\ DOMAIN cumulativedeps = Tasks
       /\ points \subseteq {t \in Tasks : deps[t] = {}}
       /\ cumulativedeps = [t \in Tasks |-> cumulativedeps[t]]
       /\ \A t \in Tasks : deps[t] = metadata.depends[t] \ Walked
       /\ \A t \in Tasks : cumulativedeps[t] =
            UNION {Handed(p) : p \in metadata.depends[t] \cap Walked}
  /\ pc = "recurse" /\ LoopFree => \A t \in Tasks : cumulativedeps[t] = Recipes(t)

LEMMA InitCollated == Init => Collated
<1> SUFFICES ASSUME Init PROVE Collated
  OBVIOUS
<1>1. Walked = {}
  BY DEF Init, Walked
<1>2. metadata.depends \in [Tasks -> SUBSET Tasks]
  BY InputAssumption DEF Init
<1> QED BY <1>1, <1>2 DEF Init, Collated

LEMMA CollateStep ==
  ASSUME Inv, Collated, Collate
  PROVE  Collated'
<1>1. pc = "collate" /\ metadata \in Metadata /\ metadata' = metadata
  BY DEF Collate, inputs, Inv, Typed
<1>2. \A t \in Tasks : Below(t)' = Below(t) /\ Recipes(t)' = Recipes(t) /\ Handed(t)' = Handed(t)
  BY <1>1 DEF Below, Recipes, Handed
<1>3. \A t \in Tasks : metadata.depends[t] \subseteq Tasks
  BY <1>1, InputAssumption
<1>4. /\ deps \in [Tasks -> SUBSET Tasks] /\ DOMAIN cumulativedeps = Tasks
      /\ points \subseteq {t \in Tasks : deps[t] = {}}
      /\ \A t \in Tasks : deps[t] = metadata.depends[t] \ Walked
      /\ \A t \in Tasks : cumulativedeps[t] =
           UNION {Handed(p) : p \in metadata.depends[t] \cap Walked}
  BY <1>1 DEF Collated
<1>5. \A t \in Tasks : deps[t] = {} => cumulativedeps[t] = Recipes(t)
  <2> SUFFICES ASSUME NEW t \in Tasks, deps[t] = {} PROVE cumulativedeps[t] = Recipes(t)
    OBVIOUS
  <2>1. metadata.depends[t] \cap Walked = metadata.depends[t]
    BY <1>4
  <2> QED BY <1>1, <1>4, <2>1, RecipesUnfold
<1>6. CASE points = {} /\ pc' = "recurse" /\ UNCHANGED <<deps, cumulativedeps, points>>
  <2> DEFINE N == {t \in Tasks : deps[t] # {}}
  <2>1. \A t \in N : metadata.depends[t] \cap N # {}
    BY <1>3, <1>4, <1>6 DEF Walked
  <2>2. N # {} => ~LoopFree
    <3> HIDE DEF N
    <3>1. N \in SUBSET Tasks
      BY DEF N
    <3> QED BY <1>1, <2>1, <3>1, LoopFound DEF LoopFree
  <2>3. LoopFree' <=> LoopFree
    BY <1>2 DEF LoopFree
  <2> QED BY <1>2, <1>5, <1>6, <2>2, <2>3 DEF Collated
<1>7. CASE points # {} /\ pc' = pc
  <2>1. /\ deps' = [t \in Tasks |-> deps[t] \ points]
        /\ cumulativedeps' = [t \in Tasks |-> cumulativedeps[t] \cup
             UNION {{Recipe[p]} \cup cumulativedeps[p] : p \in points \cap metadata.depends[t]}]
        /\ points' = {t \in Tasks : deps[t] # {} /\ deps'[t] = {}}
    BY <1>7 DEF Collate
  <2>2. Walked' = Walked \cup points
    BY <1>4, <2>1 DEF Walked
  <2>3. \A t \in Tasks : deps'[t] = metadata.depends[t] \ Walked'
    BY <1>4, <2>1, <2>2
  <2>4. ASSUME NEW t \in Tasks
        PROVE  cumulativedeps'[t] =
                 UNION {Handed(p) : p \in metadata.depends[t] \cap Walked'}
    <3>1. \A p \in points : {Recipe[p]} \cup cumulativedeps[p] = Handed(p)
      BY <1>4, <1>5 DEF Handed
    <3>2. \A x : x \in cumulativedeps'[t] <=>
            \/ x \in cumulativedeps[t]
            \/ \E p \in points \cap metadata.depends[t] : x \in Handed(p)
      BY <2>1, <3>1
    <3>3. \A x : x \in cumulativedeps[t] <=>
            \E p \in metadata.depends[t] \cap Walked : x \in Handed(p)
      BY <1>4
    <3> DEFINE W == metadata.depends[t] \cap Walked'
    <3>4. W = (metadata.depends[t] \cap Walked) \cup (points \cap metadata.depends[t])
      BY <2>2
    <3> HIDE DEF W
    <3>5. \A x : x \in cumulativedeps'[t] <=> \E p \in W : x \in Handed(p)
      BY <3>2, <3>3, <3>4
    <3>6. cumulativedeps'[t] = UNION {Handed(p) : p \in W}
      BY <3>5
    <3> QED BY <3>6 DEF W
  <2>5. deps' \in [Tasks -> SUBSET Tasks] /\ points' \subseteq {t \in Tasks : deps'[t] = {}}
    BY <1>4, <2>1
  <2>6. DOMAIN cumulativedeps' = Tasks /\ cumulativedeps' = [t \in Tasks |-> cumulativedeps'[t]]
    BY <2>1
  <2> QED BY <1>1, <1>2, <1>3, <1>7, <2>3, <2>4, <2>5, <2>6 DEF Collated
<1> QED BY <1>6, <1>7 DEF Collate


-----------------------------------------------------------------------------
(* The passes over the recursive tasks *)

BelowAll  == [x \in Tasks |-> Below(x)]
Total(r)  == runtaskentries[r] \cup metadata.recideps[r] \cup
               UNION {runtaskentries[x] : x \in metadata.recideps[r]}
Widened(r) == runtaskentries[r] \cup
  {t \in Tasks \ {r} : Recipe[t] \in UNION {cumulativedeps[x] : x \in Total(r)} /\ Named(r, t)}
Resolved(r) == Widened(r) \cup FromOthers(r, Widened(r))

\* Dependencies that are complete, have those of the recipes, and have every task
\* depend on itself that does so now
Candidate(E) ==
  /\ E \in [Tasks -> SUBSET Tasks]
  /\ \A t \in Tasks : metadata.depends[t] \subseteq E[t]
  /\ \A t \in Tasks : t \in runtaskentries[t] => t \in E[t]
  /\ Complete(E, BelowAll)

\* In a pass that has added nothing, the tasks that had their turn depend on all
\* they should; and nothing was ever added that need not be.
Recursed ==
  pc \in {"collate", "recurse"} =>
    /\ \A t \in Tasks : metadata.depends[t] \subseteq runtaskentries[t]
    /\ ~extradeps => \A r \in (DOMAIN metadata.recursive) \ turn : Resolved(r) = runtaskentries[r]
    /\ pc = "collate" => runtaskentries = metadata.depends /\ turn = DOMAIN metadata.recursive
    /\ LoopFree => \A E : Candidate(E) => \A t \in Tasks : runtaskentries[t] \subseteq E[t]

LEMMA InitRecursed == Init => Recursed
  BY DEF Init, Recursed, Candidate

\* What a turn adds every complete set of dependencies has.
LEMMA ResolvedIsNeeded ==
  ASSUME metadata \in Metadata, runtaskentries \in [Tasks -> SUBSET Tasks],
         NEW r \in DOMAIN metadata.recursive, NEW E \in [Tasks -> SUBSET Tasks],
         \A t \in Tasks : runtaskentries[t] \subseteq E[t],
         \A t \in Tasks : cumulativedeps[t] = Recipes(t),
         Complete(E, BelowAll)
  PROVE  Resolved(r) \ {r} \subseteq E[r]
<1>1. /\ r \in Tasks /\ metadata.recideps[r] \subseteq Tasks
      /\ DOMAIN metadata.recursive \subseteq Tasks
  BY InputAssumption
<1>2. Total(r) \subseteq Tasks
      /\ Total(r) \subseteq E[r] \cup metadata.recideps[r] \cup UNION {E[i] : i \in metadata.recideps[r]}
  BY <1>1 DEF Total
<1>3. Widened(r) \subseteq E[r]
  <2> SUFFICES ASSUME NEW t \in Tasks \ {r}, Named(r, t), NEW x \in Total(r), Recipe[t] \in cumulativedeps[x]
               PROVE  t \in E[r]
    BY <1>1 DEF Widened
  <2>1. Recipe[t] \in {Recipe[y] : y \in BelowAll[x]}
    BY <1>2 DEF Recipes, BelowAll
  <2>2. x \in E[r] \cup metadata.recideps[r] \cup UNION {E[i] : i \in metadata.recideps[r]}
    BY <1>2
  <2> QED BY <2>1, <2>2 DEF Complete
<1>4. FromOthers(r, Widened(r)) \ {r} \subseteq E[r]
  <2> SUFFICES ASSUME NEW x \in (Widened(r) \cap DOMAIN metadata.recursive) \ {r},
                      NEW t \in runtaskentries[x] \ {r}, Named(r, t)
               PROVE  t \in E[r]
    BY DEF FromOthers
  <2>1. x \in E[r] \cap DOMAIN metadata.recursive /\ x \in Tasks
    BY <1>1, <1>3
  <2>2. t \in E[x] /\ t \in Tasks /\ t # r
    BY <2>1
  <2> QED BY <2>1, <2>2 DEF Complete
<1> QED BY <1>3, <1>4 DEF Resolved

LEMMA RecurseStep ==
  ASSUME Inv, Collated, Recursed, NEW r \in Tasks, Recurse(r)
  PROVE  Recursed'
<1>1. pc = "recurse" /\ r \in turn /\ pc' = pc
      /\ UNCHANGED <<metadata, cumulativedeps>>
  BY DEF Recurse, inputs
<1>2. /\ metadata \in Metadata /\ runtaskentries \in [Tasks -> SUBSET Tasks]
      /\ r \in DOMAIN metadata.recursive
  BY <1>1 DEF Inv, Typed, Resolving
<1>3. runtaskentries' = [runtaskentries EXCEPT ![r] = Resolved(r)]
  BY DEF Recurse, Resolved, Widened, Total
<1>4. extradeps' = (extradeps \/ runtaskentries' # runtaskentries) /\ turn' = turn \ {r}
  BY DEF Recurse
<1>5. LoopFree' = LoopFree /\ BelowAll' = BelowAll /\ \A E : Complete(E, BelowAll)' = Complete(E, BelowAll)
  BY <1>1 DEF LoopFree, BelowAll, Below, Complete, Named
<1>6. runtaskentries[r] \subseteq Resolved(r)
  BY DEF Resolved, Widened
<1>7. \A t \in Tasks : metadata.depends[t] \subseteq runtaskentries'[t]
  BY <1>1, <1>2, <1>3, <1>6 DEF Recursed
<1>8. ASSUME ~extradeps', NEW q \in (DOMAIN metadata.recursive) \ turn'
      PROVE  Resolved(q)' = runtaskentries'[q]
  <2>1. ~extradeps /\ runtaskentries' = runtaskentries
    BY <1>4, <1>8
  <2>2. Resolved(q)' = Resolved(q)
    BY <1>1, <2>1 DEF Resolved, Widened, Total, FromOthers, Named
  <2>3. CASE q = r
    BY <1>2, <1>3, <2>1, <2>2, <2>3
  <2>4. CASE q # r
    BY <1>1, <1>4, <1>8, <2>1, <2>2, <2>4 DEF Recursed
  <2> QED BY <2>3, <2>4
<1>9. ASSUME LoopFree, NEW E, Candidate(E)'
      PROVE  \A t \in Tasks : runtaskentries'[t] \subseteq E[t]
  <2>1. /\ E \in [Tasks -> SUBSET Tasks] /\ Complete(E, BelowAll)
        /\ \A t \in Tasks : metadata.depends[t] \subseteq E[t]
        /\ \A t \in Tasks : t \in runtaskentries'[t] => t \in E[t]
    BY <1>1, <1>5, <1>9 DEF Candidate
  <2>2. \A t \in Tasks : t \in runtaskentries[t] => t \in E[t]
    BY <1>2, <1>3, <1>6, <2>1
  <2>3. Candidate(E)
    BY <2>1, <2>2 DEF Candidate
  <2>4. \A t \in Tasks : runtaskentries[t] \subseteq E[t]
    BY <1>1, <1>9, <2>3 DEF Recursed
  <2>5. \A t \in Tasks : cumulativedeps[t] = Recipes(t)
    BY <1>1, <1>9 DEF Collated
  <2>6. Resolved(r) \ {r} \subseteq E[r]
    BY <1>2, <2>1, <2>4, <2>5, ResolvedIsNeeded
  <2>7. r \in Resolved(r) => r \in E[r]
    BY <1>2, <1>3, <2>1
  <2> QED BY <1>2, <1>3, <2>4, <2>6, <2>7
<1> QED BY <1>1, <1>5, <1>7, <1>8, <1>9 DEF Recursed

LEMMA RecursionKept ==
  ASSUME Inv, Collated, Recursed, [Next]_vars
  PROVE  (Collated /\ Recursed)'
<1>1. CASE Collate
  <2>1. /\ pc = "collate" /\ pc' \in {"collate", "recurse"}
        /\ UNCHANGED <<metadata, runtaskentries, turn, extradeps>>
    BY <1>1 DEF Collate, inputs
  <2>2. LoopFree' = LoopFree /\ BelowAll' = BelowAll /\ \A E : Candidate(E)' = Candidate(E)
    BY <2>1 DEF LoopFree, BelowAll, Below, Candidate, Complete, Named
  <2>3. Recursed'
    BY <2>1, <2>2 DEF Recursed
  <2> QED BY <1>1, <2>3, CollateStep
<1>2. CASE \E r \in Tasks : Recurse(r)
  <2>1. PICK r \in Tasks : Recurse(r)
    BY <1>2
  <2>2. pc = "recurse" /\ pc' = pc /\ UNCHANGED <<metadata, cumulativedeps>>
    BY <2>1 DEF Recurse, inputs
  <2>3. LoopFree' = LoopFree /\ \A t \in Tasks : Recipes(t)' = Recipes(t)
    BY <2>2 DEF LoopFree, Recipes, Below
  <2>4. Collated'
    BY <2>2, <2>3 DEF Collated
  <2> QED BY <2>1, <2>4, RecurseStep
<1>3. CASE NextPass
  <2>1. pc = "recurse" /\ UNCHANGED <<metadata, cumulativedeps>>
    BY <1>3 DEF NextPass, inputs
  <2>2. CASE pc' = "recurse"
    <3>1. turn' = DOMAIN metadata.recursive /\ runtaskentries' = runtaskentries
      BY <1>3, <2>1, <2>2 DEF NextPass
    <3>2. LoopFree' = LoopFree /\ \A E : Candidate(E)' = Candidate(E)
      BY <2>1, <3>1 DEF LoopFree, BelowAll, Below, Candidate, Complete, Named
    <3>3. Recursed'
      BY <2>1, <2>2, <3>1, <3>2 DEF Recursed
    <3>4. Collated'
      BY <2>1, <2>2 DEF Collated, LoopFree, Below, Recipes
    <3> QED BY <3>3, <3>4
  <2>3. CASE pc' = "targets"
    BY <2>3 DEF Collated, Recursed
  <2> QED BY <1>3, <2>2, <2>3, <2>1 DEF NextPass
<1>4. CASE UNCHANGED vars
  <2>1. UNCHANGED <<pc, metadata, runtaskentries, deps, cumulativedeps, turn, extradeps, points>>
    BY <1>4 DEF vars, inputs, recursion
  <2>2. /\ LoopFree' = LoopFree /\ BelowAll' = BelowAll /\ \A E : Candidate(E)' = Candidate(E)
        /\ \A r : Resolved(r)' = Resolved(r)
    BY <2>1 DEF LoopFree, BelowAll, Below, Candidate, Complete, Named, Resolved, Widened, Total, FromOthers
  <2>3. Recursed'
    BY <2>1, <2>2 DEF Recursed
  <2>4. Walked' = Walked /\ \A t : Recipes(t)' = Recipes(t) /\ Handed(t)' = Handed(t)
    BY <2>1 DEF Walked, Recipes, Handed, Below
  <2>5. Collated'
    BY <2>1, <2>2, <2>4 DEF Collated
  <2> QED BY <2>3, <2>5
<1>5. CASE Next /\ ~Collate /\ ~NextPass /\ ~(\E r \in Tasks : Recurse(r))
  <2>1. pc' \notin {"collate", "recurse"}
    BY <1>5 DEF Next, MarkTargets, Runall, Prune, Runonly, FindEndpoints, CalculateWeights,
                StartPeeling, ProcessPoint, NextRound, CollectUnskippable
  <2> QED BY <2>1 DEF Collated, Recursed
<1> QED BY <1>1, <1>2, <1>3, <1>4, <1>5

\* Of recipes without loops, whatever the order of the turns: recursive
\* dependencies come out as all that recrdeptask asks for, and no other
\* (RunQueueData.prepare, 832-921).
THEOREM RecursionResolved == Spec => []RecursionIsLeast
<1>1. ASSUME Inv, Collated, Recursed PROVE RecursionIsLeast
  <2> SUFFICES ASSUME pc = "recurse", turn = {}, ~extradeps, LoopFree
               PROVE  /\ Complete(runtaskentries, BelowAll)
                      /\ \A P \in SUBSET Added(runtaskentries) :
                           Complete(Without(runtaskentries, P), BelowAll) => P = {}
    BY DEF RecursionIsLeast, BelowAll, LoopFree
  <2>1. /\ metadata \in Metadata /\ runtaskentries \in [Tasks -> SUBSET Tasks]
        /\ DOMAIN metadata.recursive \subseteq Tasks
    BY <1>1, InputAssumption DEF Inv, Typed, Resolving
  <2>2. \A t \in Tasks : cumulativedeps[t] = Recipes(t)
    BY <1>1 DEF Collated
  <2>3. \A r \in DOMAIN metadata.recursive : Resolved(r) = runtaskentries[r]
    BY <1>1 DEF Recursed
  <2>4. Complete(runtaskentries, BelowAll)
    <3> SUFFICES ASSUME NEW r \in DOMAIN metadata.recursive, NEW t \in Tasks, t # r, Named(r, t)
                 PROVE
           /\ (\E x \in Total(r) : Recipe[t] \in {Recipe[y] : y \in BelowAll[x]}) => t \in runtaskentries[r]
           /\ (\E x \in runtaskentries[r] \cap DOMAIN metadata.recursive : t \in runtaskentries[x])
                => t \in runtaskentries[r]
      BY DEF Complete, Total
    <3>1. Total(r) \subseteq Tasks
      BY <2>1, InputAssumption DEF Total
    <3>2. ASSUME NEW x \in Total(r), Recipe[t] \in {Recipe[y] : y \in BelowAll[x]}
          PROVE  t \in runtaskentries[r]
      <4>1. Recipe[t] \in cumulativedeps[x]
        BY <2>2, <3>1, <3>2 DEF Recipes, BelowAll
      <4>2. t \in Widened(r)
        BY <4>1 DEF Widened
      <4> QED BY <2>3, <4>2 DEF Resolved
    <3>3. ASSUME NEW x \in runtaskentries[r] \cap DOMAIN metadata.recursive, t \in runtaskentries[x], x # r
          PROVE  t \in runtaskentries[r]
      <4>1. x \in Widened(r)
        BY DEF Widened
      <4>2. t \in FromOthers(r, Widened(r))
        BY <3>3, <4>1 DEF FromOthers
      <4> QED BY <2>3, <4>2 DEF Resolved
    <3> QED BY <3>2, <3>3
  <2>5. ASSUME NEW P \in SUBSET Added(runtaskentries), Complete(Without(runtaskentries, P), BelowAll)
        PROVE  P = {}
    <3> DEFINE E == Without(runtaskentries, P)
    <3>1. E \in [Tasks -> SUBSET Tasks]
          /\ \A t \in Tasks : E[t] = runtaskentries[t] \ {u \in Tasks : <<t, u>> \in P}
      BY <2>1 DEF Without
    <3>2. \A t \in Tasks, u \in Tasks :
            <<t, u>> \in P => u \in runtaskentries[t] /\ u \notin metadata.depends[t] /\ u # t
      BY DEF Added
    <3>3. \A t \in Tasks : metadata.depends[t] \subseteq runtaskentries[t]
      BY <1>1 DEF Recursed
    <3>4. /\ \A t \in Tasks : metadata.depends[t] \subseteq E[t]
          /\ \A t \in Tasks : t \in runtaskentries[t] => t \in E[t]
      BY <2>1, <3>1, <3>2, <3>3
    <3>5. Candidate(E)
      BY <2>5, <3>1, <3>4 DEF Candidate
    <3>6. \A t \in Tasks : runtaskentries[t] \subseteq E[t]
      BY <1>1, <3>5 DEF Recursed
    <3>7. \A p \in P : \E t \in Tasks, u \in Tasks : p = <<t, u>>
      BY DEF Added
    <3> HIDE DEF E
    <3> QED BY <3>1, <3>2, <3>6, <3>7
  <2> QED BY <2>4, <2>5
<1>2. Init => Collated /\ Recursed
  BY InitCollated, InitRecursed
<1>3. Inv /\ Collated /\ Recursed /\ [Next]_vars => (Collated /\ Recursed)'
  BY RecursionKept
<1> QED BY <1>1, <1>2, <1>3, Invariance, PTL DEF Spec
=============================================================================
