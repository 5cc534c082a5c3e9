----------------------------- MODULE QueueData -----------------------------
(***************************************************************************)
(* RunQueueData.prepare and build_scenequeue_data: from the dependencies   *)
(* of the recipes to the graph of setscene tasks that RunQueue runs.       *)
(*                                                                         *)
(* The recursive dependencies (recrdeptask) are resolved.  The tasks that  *)
(* were asked for are marked with all they depend on, the rest is pruned   *)
(* (again for --runall and --runonly), and a queue with a dependency loop  *)
(* is refused.  The graph is then collapsed by peeling it from the ends    *)
(* that nothing depends on and from what setscene tasks depend on.  Where  *)
(* the code walks through a dictionary or set, the order is any.           *)
(*                                                                         *)
(* Not modelled: the other kinds of dependency (step A, up to line 825),   *)
(* and targets without provider or task, which are left out or refused.    *)
(***************************************************************************)
EXTENDS Naturals, FiniteSets, Functions

CONSTANTS
  Tasks,
  Recipe, Name, \* of a task
  Metadata,     \* what the recipes may say: depends of every task, recursive (the
                \* names in recrdeptask) and recideps (the tasks in recideptask) of some
  Requests,     \* [targets, parents : sets of tasks, runall, runonly : sets of names]
  Restorable    \* the sets of tasks that may have a setscene function

\* No task depends on itself (line 825).  A target is in parents when it was
\* asked for as "task-": not it, but what it depends on.
ASSUME InputAssumption ==
  /\ IsFiniteSet(Tasks)
  /\ \A m \in Metadata :
       /\ m.depends \in [Tasks -> SUBSET Tasks]
       /\ \A t \in Tasks : t \notin m.depends[t]
       /\ DOMAIN m.recursive \subseteq Tasks
       /\ m.recideps \in [DOMAIN m.recursive -> SUBSET Tasks]
  /\ \A r \in Requests : r.parents \subseteq r.targets /\ r.targets \subseteq Tasks
  /\ \A S \in Restorable : S \subseteq Tasks

VARIABLES
  pc, metadata, request,
  runtaskentries,             \* the dependencies (depends) of each task of the queue
  deps, cumulativedeps,       \* for the recursive dependencies
  turn, extradeps,            \* recursive tasks left in this pass; whether any was added
  runq_build,                 \* tasks marked as active
  target_tids, runall_tids,
  deps_left,                  \* of calculate_task_weights
  points,                     \* the endpoints of this round, there and for cumulativedeps
  runq_setscene_tids,
  endpoints, newendpoints, sq_revdeps, sq_revdeps_squash, sq_collated_deps,
  unskippable, buildable, tasks_scenequeue_done

inputs    == <<metadata, request>>
recursion == <<deps, cumulativedeps, turn, extradeps>>
asked     == <<target_tids, runall_tids>>
peeling   == <<runq_setscene_tids, endpoints, newendpoints, sq_revdeps,
               sq_revdeps_squash, sq_collated_deps>>
skipping  == <<unskippable, buildable, tasks_scenequeue_done>>
vars == <<pc, inputs, runtaskentries, recursion, runq_build, asked, deps_left, points,
          peeling, skipping>>

Queue == DOMAIN runtaskentries

-----------------------------------------------------------------------------
(* Recursive dependencies *)

\* One round of the walk up from the tasks without dependencies: a task below
\* others hands them its recipe, and the recipes below it.
Collate ==
  /\ pc = "collate"
  /\ \/ points = {} /\ pc' = "recurse" /\ UNCHANGED <<deps, cumulativedeps, points>>
     \/ /\ points # {}
        /\ deps' = [t \in Tasks |-> deps[t] \ points]
        /\ cumulativedeps' = [t \in Tasks |-> cumulativedeps[t] \cup
             UNION {{Recipe[p]} \cup cumulativedeps[p] : p \in points \cap metadata.depends[t]}]
        /\ points' = {t \in Tasks : deps[t] # {} /\ deps'[t] = {}}
        /\ UNCHANGED pc
  /\ UNCHANGED <<inputs, runtaskentries, turn, extradeps, runq_build, asked, deps_left,
                 peeling, skipping>>

Named(r, t) == Name[t] \in metadata.recursive[r]

NoneFromOthers(r, D) == {}  \* mutant: only recipes found by cumulativedeps

\* What r takes over from the recursive tasks in D
FromOthers(r, D) ==
  {t \in UNION {runtaskentries[x] : x \in (D \cap DOMAIN metadata.recursive) \ {r}} : Named(r, t)}

\* The turn of r: it depends on the tasks so named of every recipe below its
\* dependencies, and below those of its recideptask tasks, and on what other
\* recursive tasks among its dependencies depend on.
Recurse(r) ==
  /\ pc = "recurse" /\ r \in turn
  /\ LET total == runtaskentries[r] \cup metadata.recideps[r] \cup
                    UNION {runtaskentries[x] : x \in metadata.recideps[r]}
         below == UNION {cumulativedeps[x] : x \in total}
         D     == runtaskentries[r] \cup
                    {t \in Tasks \ {r} : Recipe[t] \in below /\ Named(r, t)}
     IN runtaskentries' = [runtaskentries EXCEPT ![r] = D \cup FromOthers(r, D)]
  /\ extradeps' = (extradeps \/ runtaskentries' # runtaskentries)
  /\ turn' = turn \ {r}
  /\ UNCHANGED <<pc, inputs, deps, cumulativedeps, runq_build, asked, deps_left, points,
                 peeling, skipping>>

\* recursivetasksselfref: recursive tasks that name themselves
SelfReferring == {r \in DOMAIN metadata.recursive : Named(r, r)}

Unreferred(D) ==
  [t \in Tasks |-> IF t \in SelfReferring THEN D[t] \ SelfReferring ELSE D[t]]

\* Passes are made until one adds nothing; at last the references of
\* self-referring tasks to each other are removed.
NextPass ==
  /\ pc = "recurse" /\ turn = {}
  /\ \/ /\ extradeps
        /\ extradeps' = FALSE /\ turn' = DOMAIN metadata.recursive
        /\ UNCHANGED <<pc, runtaskentries>>
     \/ /\ ~extradeps
        /\ runtaskentries' = Unreferred(runtaskentries)
        /\ pc' = "targets"
        /\ UNCHANGED <<extradeps, turn>>
  /\ UNCHANGED <<inputs, deps, cumulativedeps, runq_build, asked, deps_left, points, peeling,
                 skipping>>

-----------------------------------------------------------------------------
(* Marking and pruning *)

\* mark_active of every task in S
Active(S) ==
  {t \in Queue : \A X \in SUBSET Queue :
     S \subseteq X /\ (\A x \in X : runtaskentries[x] \subseteq X) => t \in X}

MarkTargets ==
  /\ pc = "targets"
  /\ pc' = IF request.runall = {} THEN "prune" ELSE "runall"
  /\ target_tids' = request.targets
  /\ runq_build' = Active((request.targets \ request.parents) \cup
                            UNION {runtaskentries[t] : t \in request.parents})
  /\ UNCHANGED <<inputs, runtaskentries, recursion, runall_tids, deps_left, points, peeling,
                 skipping>>

\* The tasks that --runall names, of the recipes that have a marked task
Wanted == {t \in Queue : Name[t] \in request.runall /\
                           \E x \in runq_build : Recipe[x] = Recipe[t]}

NothingAdded(W) == TRUE   \* mutant: recipes that only now joined are not looked at
NoneLeft(W)     == W = {} \* mutant: goes on while there is anything to add

\* Nothing more was added: the last pass.
AllKnown(W) == W \subseteq runall_tids

Runall ==
  /\ pc = "runall"
  /\ pc' = IF AllKnown(Wanted) THEN "prune" ELSE "runall"
  /\ runall_tids' = Wanted
  /\ target_tids' = target_tids \cup Wanted
  /\ runq_build' = Active(Wanted)
  /\ UNCHANGED <<inputs, runtaskentries, recursion, deps_left, points, peeling, skipping>>

\* An empty queue is refused.
Prune ==
  /\ pc = "prune"
  /\ runtaskentries' = Restrict(runtaskentries, runq_build)
  /\ pc' = IF runq_build = {} THEN "empty"
           ELSE IF request.runonly # {} THEN "runonly" ELSE "loops"
  /\ UNCHANGED <<inputs, recursion, runq_build, asked, deps_left, points, peeling, skipping>>

Runonly ==
  /\ pc = "runonly"
  /\ runq_build' = Active({t \in Queue : Name[t] \in request.runonly})
  /\ runtaskentries' = Restrict(runtaskentries, runq_build')
  /\ pc' = IF runq_build' = {} THEN "empty" ELSE "loops"
  /\ UNCHANGED <<inputs, recursion, asked, deps_left, points, peeling, skipping>>

-----------------------------------------------------------------------------
(* Dependency loops *)

revdeps == [t \in Queue |-> {r \in Queue : t \in runtaskentries[r]}]

\* Loops of one or two tasks are seen at once; a queue without an end goes on
\* and is refused with the longer ones.
FindEndpoints ==
  /\ pc = "loops"
  /\ pc' = IF \E t \in Queue : revdeps[t] \cap runtaskentries[t] # {}
             THEN "circular" ELSE "weights"
  /\ points' = {t \in Queue : revdeps[t] = {}}
  /\ deps_left' = [t \in Queue |-> Cardinality(revdeps[t])]
  /\ UNCHANGED <<inputs, runtaskentries, recursion, runq_build, asked, peeling, skipping>>

\* One round of calculate_task_weights.  The weights only order the tasks that
\* are ready; what matters here is that every task is reached from an end.
\* (task_done of a task says that it was in points: that deps_left is zero.)
CalculateWeights ==
  /\ pc = "weights"
  /\ LET left == [t \in Queue |-> deps_left[t] -
                     Cardinality({p \in points : t \in runtaskentries[p]})]
     IN /\ deps_left' = left
        /\ points' = {t \in Queue : deps_left[t] > 0 /\ left[t] = 0}
        /\ pc' = IF points' # {} THEN "weights"
                 ELSE IF \E t \in Queue : left[t] # 0 THEN "circular" ELSE "setscene"
  /\ UNCHANGED <<inputs, runtaskentries, recursion, runq_build, asked, peeling, skipping>>

-----------------------------------------------------------------------------
(* build_scenequeue_data *)

cantskip == (target_tids \ runq_setscene_tids) \cap Queue

\* What setscene tasks depend on starts a chain of its own, which carries them.
StartPeeling ==
  /\ pc = "setscene" /\ pc' = "peel"
  /\ \E S \in Restorable : runq_setscene_tids' = S \cap Queue
  /\ LET users == [t \in Queue |-> revdeps[t] \cap runq_setscene_tids']
         ends  == {t \in Queue \ runq_setscene_tids' : revdeps[t] = {}}
     IN /\ endpoints' = [t \in ends \cup {u \in Queue : users[u] # {}} |-> users[t]]
        /\ sq_revdeps' = [t \in Queue |-> revdeps[t] \ users[t]]
  /\ newendpoints' = [t \in {} |-> {}]
  /\ sq_revdeps_squash' = [t \in Queue |-> {}]
  /\ sq_collated_deps' = [t \in runq_setscene_tids' |-> {}]
  /\ UNCHANGED <<inputs, runtaskentries, recursion, runq_build, asked, deps_left, points, skipping>>

FreedOnce(p, freed) ==    \* mutant: a task is followed only once its last user is
  {d \in runtaskentries[p] \ runq_setscene_tids : sq_revdeps[d] # {} /\ freed[d] = {}}

\* The dependencies of the point p that nothing keeps any more, as freed
\* says: also those that were followed before.
Free(p, freed) == {d \in runtaskentries[p] \ runq_setscene_tids : freed[d] = {}}

\* One point of process_endpoints, with the setscene tasks it carries: those of
\* the chain it came by, and those left here by others.  A setscene task keeps
\* them; any other task is covered by them and hands them on to what it
\* depends on, but the chain (newendpoints) goes on with its own only.
ProcessPoint(p) ==
  /\ pc = "peel" /\ p \in DOMAIN endpoints
  /\ LET tasks == endpoints[p] \cup sq_revdeps_squash[p]
         freed == [d \in Queue |-> IF d \in runtaskentries[p] THEN sq_revdeps[d] \ {p}
                                                              ELSE sq_revdeps[d]]
         new   == Free(p, freed)
     IN \/ /\ p \in runq_setscene_tids
           /\ sq_revdeps_squash' = [sq_revdeps_squash EXCEPT ![p] = tasks]
           /\ UNCHANGED <<newendpoints, sq_revdeps, sq_collated_deps>>
        \/ /\ p \notin runq_setscene_tids
           /\ sq_collated_deps' =
                [s \in runq_setscene_tids |->
                   IF s \in tasks THEN sq_collated_deps[s] \cup {p} ELSE sq_collated_deps[s]]
           /\ sq_revdeps' = freed
           /\ sq_revdeps_squash' =
                [d \in Queue |-> CASE d = p -> {}
                                   [] d \in runtaskentries[p] -> sq_revdeps_squash[d] \cup tasks
                                   [] OTHER -> sq_revdeps_squash[d]]
           /\ newendpoints' = [d \in DOMAIN newendpoints \cup new |->
                                 IF d \in new THEN endpoints[p] ELSE newendpoints[d]]
  /\ endpoints' = Restrict(endpoints, DOMAIN endpoints \ {p})
  /\ UNCHANGED <<pc, inputs, runtaskentries, recursion, runq_build, asked, deps_left, points,
                 runq_setscene_tids, skipping>>

\* The next round of process_endpoints; after the last one the tasks that
\* cannot be skipped are collected.
NextRound ==
  /\ pc = "peel" /\ endpoints = [t \in {} |-> {}]
  /\ \/ /\ newendpoints # endpoints
        /\ endpoints' = newendpoints /\ newendpoints' = endpoints
        /\ UNCHANGED <<pc, unskippable>>
     \/ /\ newendpoints = endpoints
        /\ pc' = "unskippable"
        /\ unskippable' = {t \in Queue : revdeps[t] = {}} \cup cantskip
        /\ UNCHANGED <<endpoints, newendpoints>>
  /\ UNCHANGED <<inputs, runtaskentries, recursion, runq_build, asked, deps_left, points,
                 runq_setscene_tids, sq_revdeps, sq_revdeps_squash, sq_collated_deps,
                 buildable, tasks_scenequeue_done>>

\* One pass over the unskippable tasks: what the ordinary ones depend on cannot
\* be skipped either, and those that depend on nothing can be built.  After
\* the last pass every set of setscene tasks must have come to rest at one.
CollectUnskippable ==
  /\ pc = "unskippable"
  /\ LET ordinary == unskippable \ runq_setscene_tids
     IN /\ unskippable' = unskippable \cup UNION {runtaskentries[t] : t \in ordinary}
        /\ buildable' = buildable \cup {t \in ordinary : runtaskentries[t] = {}}
  /\ \/ unskippable' # unskippable /\ UNCHANGED <<pc, tasks_scenequeue_done>>
     \/ /\ unskippable' = unskippable
        /\ tasks_scenequeue_done' = unskippable \ runq_setscene_tids
        /\ pc' = IF \E t \in Queue \ runq_setscene_tids : sq_revdeps_squash[t] # {}
                   THEN "went badly wrong" ELSE "ready"
  /\ UNCHANGED <<inputs, runtaskentries, recursion, runq_build, asked, deps_left, points, peeling>>

-----------------------------------------------------------------------------

Init ==
  /\ pc = "collate"
  /\ metadata \in Metadata /\ request \in Requests
  /\ runtaskentries = metadata.depends /\ deps = metadata.depends
  /\ cumulativedeps = [t \in Tasks |-> {}]
  /\ points = {t \in Tasks : deps[t] = {}}
  /\ turn = DOMAIN metadata.recursive /\ extradeps = FALSE
  /\ runq_build = {} /\ target_tids = {} /\ runall_tids = {}
  /\ deps_left = [t \in {} |-> 0]
  /\ runq_setscene_tids = {}
  /\ endpoints = [t \in {} |-> {}] /\ newendpoints = [t \in {} |-> {}]
  /\ sq_revdeps = [t \in {} |-> {}] /\ sq_revdeps_squash = [t \in {} |-> {}]
  /\ sq_collated_deps = [t \in {} |-> {}]
  /\ unskippable = {} /\ buildable = {} /\ tasks_scenequeue_done = {}

Next ==
  \/ Collate \/ NextPass
  \/ \E r \in Tasks : Recurse(r)
  \/ MarkTargets \/ Runall \/ Prune \/ Runonly
  \/ FindEndpoints \/ CalculateWeights
  \/ StartPeeling \/ NextRound \/ CollectUnskippable
  \/ \E p \in Tasks : ProcessPoint(p)

\* prepare runs to its end without waiting for anyone.
Spec == Init /\ [][Next]_vars /\ WF_vars(Next)

-----------------------------------------------------------------------------
(* Properties *)

\* The tasks below x, as the recipes say
Below(x) ==
  {t \in Tasks : \A X \in SUBSET Tasks :
     metadata.depends[x] \subseteq X /\ (\A y \in X : metadata.depends[y] \subseteq X) => t \in X}

\* In D a recursive task depends on the tasks it names of the recipes below its
\* dependencies, and of those that recursive tasks among these depend on.
Complete(D, below) ==
  \A r \in DOMAIN metadata.recursive, t \in Tasks : t # r /\ Named(r, t) =>
    /\ (\E x \in D[r] \cup metadata.recideps[r] \cup UNION {D[i] : i \in metadata.recideps[r]} :
          Recipe[t] \in {Recipe[y] : y \in below[x]}) => t \in D[r]
    /\ (\E x \in D[r] \cap DOMAIN metadata.recursive : t \in D[x]) => t \in D[r]

Added(D)      == {p \in Tasks \X Tasks : p[2] \in D[p[1]] \ (metadata.depends[p[1]] \cup {p[1]})}
Without(D, P) == [t \in Tasks |-> D[t] \ {u \in Tasks : <<t, u>> \in P}]

\* Whatever the order in which recursive tasks have their turns, the same
\* dependencies come out: all that recrdeptask asks for, and no other (step A,
\* 832-921).  Only for recipes without loops: a task in a loop hands nothing on
\* in Collate, though self-referring tasks may be in one.
RecursionIsLeast ==
  pc = "recurse" /\ turn = {} /\ ~extradeps =>
    LET below == [x \in Tasks |-> Below(x)]
    IN \/ \E x \in Tasks : x \in below[x]
       \/ /\ Complete(runtaskentries, below)
          /\ \A P \in SUBSET Added(runtaskentries) :
               Complete(Without(runtaskentries, P), below) => P = {}

\* Some tasks are each used by one of them.
Looped == \E S \in SUBSET Queue : S # {} /\ \A t \in S : revdeps[t] \cap S # {}

Closed == \A t \in Queue : runtaskentries[t] \subseteq Queue

RunallReached ==
  pc = "loops" /\ request.runall # {} /\ request.runonly = {} =>
    \A t \in Tasks : Name[t] \in request.runall /\ (\E x \in Queue : Recipe[x] = Recipe[t])
                       => t \in Queue

LoopsRefused ==
  /\ pc = "circular" => Looped
  /\ pc \in {"setscene", "peel", "unskippable", "ready", "went badly wrong"} => ~Looped

\* The queue has all that its tasks depend on (mark_active, 939); --runall
\* reaches every recipe of the queue, those too that come in by what it adds
\* (1015); and exactly the queues with a dependency loop are refused as
\* circular (1107, calculate_task_weights 595).
QueueIsSound == Closed /\ RunallReached /\ LoopsRefused

Paths == INSTANCE TaskGraph WITH
  Tasks <- Queue, Depends <- runtaskentries, Setscene <- runq_setscene_tids,
  Targets <- target_tids \cap Queue

\* Whatever the order, peeling gives the setscene graph that the run queue
\* relies on: what a setscene task covers and what it needs are the tasks on
\* the paths below it up to the next setscene task.  And the check of the
\* code that nothing went badly wrong never fails (build_scenequeue_data).
CollapsedByPaths ==
  /\ pc # "went badly wrong"
  /\ pc = "ready" =>
       /\ sq_collated_deps = Paths!sq_covered_tasks
       /\ Restrict(sq_revdeps_squash, runq_setscene_tids) = Paths!sq_revdeps
       /\ unskippable = Paths!unskippable
       /\ tasks_scenequeue_done = unskippable \ runq_setscene_tids
       /\ buildable = {t \in tasks_scenequeue_done : runtaskentries[t] = {}}

\* The loops of the preparation end, on circular graphs too.
Ends == <>(pc \in {"ready", "empty", "circular"})
=============================================================================
