--------------------------- MODULE RunQueueProofs ---------------------------
(***************************************************************************)
(* Proofs about RunQueue, for every task graph, every number of threads    *)
(* and every choice the scheduler and the workers make: the type           *)
(* invariant, AfterDependencies, DecidedOnce, the order of hard            *)
(* dependencies, NumberThreads, SceneExcludesReal, InputsPresent, and      *)
(* SlotBound for all builds but those that go on after a forbidden task.   *)
(* In the second half, how a build ends: that it waits for its processes,  *)
(* that its result is honest, that a failure stops no more than it has to, *)
(* and that the sanity checks of the code never fire.  These are about     *)
(* builds in which no task is forbidden (BB_SETSCENE_ENFORCE):             *)
(* stats.active counts one too few after one.                              *)
(***************************************************************************)
EXTENDS RunQueue, FiniteSetTheorems, TLAPS

\* What can be started, was started: all its dependencies are complete.
Ready ==
  \A t \in runq_buildable \cup runq_running : Depends[t] \subseteq runq_complete

\* A setscene task that starts or is decided is marked as running, and never
\* selected again.  It starts when its hard dependencies are decided, and fails
\* with the first of them that fails.
Underway ==
  /\ sq_live \cup Decided \subseteq sq_running
  /\ sq_live \cap Decided = {}
  /\ \A t \in sq_live : HardDeps[t] \subseteq Decided
  /\ \A t \in Setscene \ Decided : HardDeps[t] \cap scenequeue_notcovered = {}

\* A setscene task is decided once.
Decisions == StampedScene \subseteq scenequeue_covered /\ Underway /\ DecidedOnce

\* stats.active counts the processes of ordinary tasks.
Counted ==
  /\ runq_complete \cup failed_tids \subseteq runq_running
  /\ active = Cardinality(Executing)

\* After a forbidden task the count is wrong, but a build that stops at the
\* first failure starts nothing any more.
Over == state # "Running" /\ phase \in {"return", "drain", "stopped"}

Slots == Forbidden = {} \/ halt => SlotBound /\ (Counted \/ Over)

-----------------------------------------------------------------------------
(* Types *)

LEMMA GraphType ==
  /\ Setscene \subseteq Tasks
  /\ \A S : UpClosure(S) \subseteq Tasks
  /\ \A s \in Setscene : sq_covered_tasks[s] \subseteq Tasks /\ sq_deps[s] \subseteq Setscene
  /\ \A t \in Tasks : revdeps[t] \subseteq Tasks
  BY GraphAssumption
  DEF UpClosure, sq_covered_tasks, sq_deps, Below, DownFrom, revdeps

LEMMA UpdateType ==
  ASSUME TypeOK, NEW S \in SUBSET Setscene, scenequeue_updatecounters(S)
  PROVE  /\ sq_buildable' \subseteq Setscene
         /\ tasks_scenequeue_done' \subseteq Tasks
         /\ sq_harddep_deferred' \subseteq Setscene
         /\ holdoff_need_update' \in BOOLEAN
  BY GraphType DEF TypeOK, scenequeue_updatecounters

LEMMA FailsType == \A t : FailsWith(t, Decided) \subseteq Setscene
  BY DEF FailsWith

LEMMA DecideType ==
  ASSUME TypeOK, NEW t \in Setscene, sq_task_skip(t) \/ sq_task_failoutright(t)
  PROVE  /\ sq_buildable' \subseteq Setscene /\ sq_running' \subseteq Setscene
         /\ scenequeue_covered' \subseteq Setscene /\ scenequeue_notcovered' \subseteq Setscene
         /\ tasks_scenequeue_done' \subseteq Tasks /\ holdoff_need_update' \in BOOLEAN
         /\ sq_harddep_deferred' \subseteq Setscene
  <1>1. CASE sq_task_skip(t)
    <2>1. {t} \in SUBSET Setscene /\ scenequeue_updatecounters({t})
      BY <1>1 DEF sq_task_skip
    <2> QED BY <1>1, <2>1, UpdateType DEF TypeOK, sq_task_skip
  <1>2. CASE sq_task_failoutright(t)
    <2>1. FailsWith(t, Decided) \in SUBSET Setscene /\ scenequeue_updatecounters(FailsWith(t, Decided))
      BY <1>2, FailsType DEF sq_task_failoutright
    <2> QED BY <1>2, <2>1, UpdateType DEF TypeOK, sq_task_failoutright
  <1> QED BY <1>1, <1>2

DeferredType ==
  /\ DOMAIN sq_deferred \subseteq Setscene
  /\ sq_deferred \in [DOMAIN sq_deferred -> Setscene]
  /\ \A t \in DOMAIN sq_deferred : sq_deferred[t] # t

LEMMA RestrictType ==
  ASSUME TypeOK, NEW S,
         sq_deferred' = Restrict(sq_deferred, DOMAIN sq_deferred \ S)
  PROVE  DeferredType'
  BY DEF TypeOK, DeferredType, Restrict

LEMMA ReleaseType ==
  ASSUME TypeOK, NEW t \in Tasks, ReleaseDeferred(t)
  PROVE  /\ DeferredType' /\ outrightfail' \subseteq Setscene
         /\ sq_buildable' \subseteq Setscene /\ sq_running' \subseteq Setscene
         /\ scenequeue_covered' \subseteq Setscene /\ scenequeue_notcovered' \subseteq Setscene
         /\ tasks_scenequeue_done' \subseteq Tasks /\ holdoff_need_update' \in BOOLEAN
         /\ sq_harddep_deferred' \subseteq Setscene
  <1> DEFINE waiting == {u \in DOMAIN sq_deferred : sq_deferred[u] = t}
  <1>1. CASE UNCHANGED <<defer, decide>>
    BY <1>1 DEF TypeOK, DeferredType, defer, decide
  <1>2. CASE ~UNCHANGED <<defer, decide>>
    <2>1. PICK f \in waiting :
            /\ sq_deferred' = [u \in DOMAIN sq_deferred \ {f} |->
                                 IF u \in waiting THEN f ELSE sq_deferred[u]]
            /\ \/ f \in stamped /\ sq_task_skip(f) /\ outrightfail' = outrightfail \ {f}
               \/ /\ f \notin stamped /\ UNCHANGED decide
                  /\ \/ outrightfail' = outrightfail \ {f}
                     \/ f \notin Decided /\ outrightfail' = outrightfail \cup {f}
      BY <1>2 DEF ReleaseDeferred
    <2>2. f \in Setscene
      BY <2>1 DEF TypeOK
    <2>3. DeferredType'
      BY <2>1, <2>2 DEF TypeOK, DeferredType
    <2>4. CASE sq_task_skip(f)
      BY <2>1, <2>2, <2>3, <2>4, DecideType DEF TypeOK
    <2>5. CASE UNCHANGED decide
      BY <2>1, <2>2, <2>3, <2>5 DEF TypeOK, decide
    <2> QED BY <2>1, <2>4, <2>5
  <1> QED BY <1>1, <1>2

LEMMA InitType == Init => TypeOK
  <1> SUFFICES ASSUME Init PROVE TypeOK
    OBVIOUS
  <1>1. sq_deferred \in [DOMAIN sq_deferred -> Setscene] /\ DOMAIN sq_deferred \subseteq Setscene
        /\ \A t \in DOMAIN sq_deferred : sq_deferred[t] # t
    BY RunAssumption DEF Init
  <1>2. runq_buildable \subseteq Tasks /\ tasks_scenequeue_done \subseteq Tasks
    BY GraphType DEF Init, unskippable, DownFrom
  <1>3. sq_buildable \subseteq Setscene /\ sq_running \subseteq Setscene
        /\ scenequeue_covered \subseteq Setscene /\ outrightfail \subseteq Setscene
    BY DEF Init, StampedScene
  <1>4. stamped \subseteq Tasks /\ halt \in BOOLEAN /\ active \in Int /\ sqdone \in BOOLEAN
    BY RunAssumption DEF Init
  <1> QED BY <1>1, <1>2, <1>3, <1>4 DEF Init, TypeOK, Phases

LEMMA CompleteType ==
  ASSUME TypeOK, NEW t \in Tasks, NEW bld \in SUBSET Tasks, task_completeoutright(t, bld)
  PROVE  runq_buildable' \subseteq Tasks /\ runq_complete' \subseteq Tasks
  BY GraphType DEF TypeOK, task_completeoutright

LEMMA ServerTaskType ==
  ASSUME TypeOK, NEW t \in Tasks,
         TaskForbidden(t) \/ task_skip(t) \/ TaskStart(t)
  PROVE  TypeOK'
  <1>1. CASE TaskForbidden(t)
    <2>1. active' \in Int
      BY <1>1, RunAssumption DEF TypeOK, TaskForbidden, task_fail
    <2> QED BY <1>1, <2>1 DEF TypeOK, TaskForbidden, task_fail, Phases, build, sceneq, decide,
               defer, cover
  <1>2. CASE task_skip(t)
    <2>1. runq_buildable' \subseteq Tasks /\ runq_complete' \subseteq Tasks
      <3>1. task_completeoutright(t, runq_buildable \cup {t})
        BY <1>2 DEF task_skip
      <3>2. runq_buildable \cup {t} \in SUBSET Tasks
        BY DEF TypeOK
      <3> QED BY <3>1, <3>2, CompleteType
    <2>2. ReleaseDeferred(t)
      BY <1>2 DEF task_skip, task_completeoutright
    <2> HIDE DEF ReleaseDeferred
    <2> QED BY <1>2, <2>1, <2>2, ReleaseType
            DEF TypeOK, DeferredType, task_skip, Phases, build, cover
  <1>3. CASE TaskStart(t)
    BY <1>3 DEF TypeOK, TaskStart, Phases, build, sceneq, decide, defer, cover
  <1> QED BY <1>1, <1>2, <1>3

LEMMA ServerSceneType ==
  ASSUME TypeOK, NEW t \in Tasks,
         SceneUnneeded(t) \/ SceneHardDefer(t) \/ SceneUnavailable(t) \/ SceneStart(t)
  PROVE  TypeOK'
  <1>0. t \in Setscene
    BY DEF TypeOK, SceneUnneeded, SceneHardDefer, SceneUnavailable, SceneStart, SearchScene,
       Selectable
  <1>1. CASE SceneHardDefer(t)
    <2>1. HardDeps[t] \subseteq Setscene
      BY <1>0, RunAssumption
    <2> QED BY <1>0, <1>1, <2>1 DEF TypeOK, SceneHardDefer, Phases, build, runq, defer, cover
  <1>2. CASE SceneUnneeded(t)
    BY <1>0, <1>2, DecideType, RestrictType
    DEF TypeOK, DeferredType, SceneUnneeded, Phases, build, runq, cover
  <1>3. CASE SceneUnavailable(t)
    BY <1>0, <1>3, DecideType, RestrictType
    DEF TypeOK, DeferredType, SceneUnavailable, Phases, build, runq, cover
  <1>4. CASE SceneStart(t)
    BY <1>0, <1>4, RestrictType
    DEF TypeOK, DeferredType, SceneStart, Phases, build, runq, cover
  <1> QED BY <1>1, <1>2, <1>3, <1>4

LEMMA ExitType ==
  ASSUME TypeOK, NEW t \in Tasks, WorkerExit(t)
  PROVE  TypeOK'
  <1>1. CASE SceneExit(t)
    <2>1. t \in Setscene
      BY <1>1 DEF SceneExit, TypeOK
    <2>2. CASE sq_task_failoutright(t) /\ UNCHANGED restored
      BY <1>1, <2>1, <2>2, DecideType DEF TypeOK, SceneExit, build, runq, defer, cover
    <2>3. CASE /\ scenequeue_covered' = scenequeue_covered \cup {t}
               /\ restored' = restored \cup {t}
               /\ UNCHANGED <<scenequeue_notcovered, sq_running, state>>
               /\ scenequeue_updatecounters({t})
      <3>1. {t} \in SUBSET Setscene
        BY <2>1
      <3> QED BY <1>1, <2>1, <2>3, <3>1, UpdateType DEF TypeOK, SceneExit, build, runq, defer, cover
    <2> QED BY <1>1, <2>2, <2>3 DEF SceneExit
  <1>2. CASE TaskExit(t)
    <2>1. CASE task_completeoutright(t, runq_buildable) /\ active' = active - 1
               /\ runq_tasksrun' = runq_tasksrun \cup {t} /\ UNCHANGED <<failed_tids, state>>
      <3>1. runq_buildable' \subseteq Tasks /\ runq_complete' \subseteq Tasks
        BY <2>1, CompleteType DEF TypeOK
      <3>2. ReleaseDeferred(t)
        BY <2>1 DEF task_completeoutright
      <3>3. active' \in Int /\ runq_tasksrun' \subseteq Tasks
        BY <2>1 DEF TypeOK
      <3> QED BY <1>2, <2>1, <3>1, <3>2, <3>3, ReleaseType
              DEF TypeOK, DeferredType, TaskExit, build, cover
    <2>2. CASE task_fail(t, active - 1)
               /\ UNCHANGED <<runq_buildable, runq_complete, runq_tasksrun, decide, defer>>
      BY <1>2, <2>2 DEF TypeOK, TaskExit, task_fail, build, cover, decide, defer
    <2> QED BY <1>2, <2>1, <2>2 DEF TaskExit
  <1> QED BY <1>1, <1>2 DEF WorkerExit

LEMMA HoldoffType ==
  ASSUME TypeOK, update_holdofftasks
  PROVE  TypeOK'
  <1>1. Covered \subseteq Tasks /\ NotCovered \subseteq Tasks
    BY DEF TypeOK, Covered, NotCovered
  <1>2. Held \subseteq Tasks
    BY GraphType DEF Held
  <1>3. runq_buildable' \subseteq Tasks /\ tasks_covered' \subseteq Tasks
        /\ tasks_notcovered' \subseteq Tasks /\ holdoff_tasks' \subseteq Tasks
    BY <1>1, <1>2 DEF TypeOK, update_holdofftasks, cover
  <1> QED BY <1>3 DEF TypeOK, update_holdofftasks, Phases, build, defer

LEMMA SmallStepType ==
  ASSUME TypeOK,
         \/ ReadDone \/ DrainDone \/ SceneNone \/ CheckSceneQueue \/ TaskNone \/ TailRead
         \/ ForceDeferred \/ EndOfQueue \/ NextCall \/ finish \/ Stop \/ Interrupt
  PROVE  TypeOK'
  <1>1. CASE ReadDone \/ DrainDone \/ SceneNone \/ TaskNone \/ TailRead \/ NextCall \/ Stop
    BY <1>1 DEF TypeOK, Phases, ReadDone, DrainDone, SceneNone, TaskNone, TailRead, NextCall, Stop,
       build, runq, sceneq, decide, defer, cover
  <1>2. CASE CheckSceneQueue
    BY <1>2 DEF TypeOK, Phases, CheckSceneQueue, build, runq, decide, defer, cover
  <1>3. CASE ForceDeferred
    <2>1. DeferredType'
      BY <1>3, RestrictType DEF ForceDeferred
    <2> QED BY <1>3, <2>1 DEF TypeOK, DeferredType, Phases, ForceDeferred, build, runq, decide, cover
  <1>4. CASE EndOfQueue \/ finish \/ Interrupt
    BY <1>4 DEF TypeOK, Phases, EndOfQueue, finish, Interrupt, Result, build, runq, sceneq, decide,
       defer, cover
  <1> QED BY <1>1, <1>2, <1>3, <1>4

LEMMA StepType == TypeOK /\ [Next]_vars => TypeOK'
  <1> SUFFICES ASSUME TypeOK, [Next]_vars PROVE TypeOK'
    OBVIOUS
  <1>1. CASE UNCHANGED vars
    BY <1>1 DEF TypeOK, vars, build, runq, sceneq, decide, defer, cover
  <1>2. CASE Next
    BY <1>2, ServerTaskType, ServerSceneType, ExitType, HoldoffType, SmallStepType
    DEF Next, Server, Execute
  <1> QED BY <1>1, <1>2

\* Every handler of the run queue keeps its sets to the tasks they are for,
\* and never defers a setscene task after itself.
THEOREM TypeCorrect == Spec => []TypeOK
  <1>1. Init => TypeOK
    BY InitType
  <1>2. TypeOK /\ [Next]_vars => TypeOK'
    BY StepType
  <1> QED BY <1>1, <1>2, PTL DEF Spec

-----------------------------------------------------------------------------
(* Ordinary tasks start after their dependencies *)

\* The steps that touch neither set are many, and all alike.
LEMMA RunUnchanged ==
  ASSUME Next, ~(\E t \in Tasks : TaskExit(t) \/ task_skip(t) \/ TaskStart(t)),
         ~update_holdofftasks
  PROVE  UNCHANGED <<runq_buildable, runq_running, runq_complete>>
  <1>1. CASE \E t \in Tasks : SceneExit(t)
    BY <1>1 DEF SceneExit, runq
  <1>2. CASE \E t \in Tasks : \/ SceneUnneeded(t) \/ SceneHardDefer(t) \/ SceneUnavailable(t)
                             \/ SceneStart(t)
    BY <1>2 DEF SceneUnneeded, SceneHardDefer, SceneUnavailable, SceneStart, runq
  <1>3. CASE \E t \in Tasks : TaskForbidden(t)
    BY <1>3 DEF TaskForbidden
  <1>4. CASE \/ ReadDone \/ DrainDone \/ SceneNone \/ CheckSceneQueue \/ TaskNone \/ TailRead
             \/ ForceDeferred \/ EndOfQueue \/ NextCall \/ finish \/ Stop \/ Interrupt
    BY <1>4 DEF ReadDone, DrainDone, SceneNone, CheckSceneQueue, TaskNone, TailRead, ForceDeferred,
       EndOfQueue, NextCall, finish, Stop, Interrupt, runq
  <1> QED BY <1>1, <1>2, <1>3, <1>4 DEF Next, Server, Execute, WorkerExit

LEMMA CompleteReady ==
  ASSUME TypeOK, Ready, NEW t \in Tasks, NEW bld \in SUBSET Tasks,
         task_completeoutright(t, bld),
         bld \cup runq_running' \subseteq runq_buildable \cup runq_running
  PROVE  Ready'
  BY DEF Ready, task_completeoutright

LEMMA InitReady == Init => Ready
  BY DEF Init, Ready

LEMMA StepReady == TypeOK /\ Ready /\ [Next]_vars => Ready'
  <1> SUFFICES ASSUME TypeOK, Ready, [Next]_vars PROVE Ready'
    OBVIOUS
  <1>1. CASE UNCHANGED <<runq_buildable, runq_running, runq_complete>>
    BY <1>1 DEF Ready
  <1>2. CASE \E t \in Tasks : TaskExit(t)
    <2>1. PICK t \in Tasks : TaskExit(t)
      BY <1>2
    <2>2. CASE task_completeoutright(t, runq_buildable)
      BY <2>1, <2>2, CompleteReady DEF TaskExit, TypeOK
    <2>3. CASE ~task_completeoutright(t, runq_buildable)
      BY <2>1, <2>3, <1>1 DEF TaskExit
    <2> QED BY <2>2, <2>3
  <1>3. CASE \E t \in Tasks : task_skip(t)
    <2>1. PICK t \in Tasks : task_skip(t)
      BY <1>3
    <2>2. t \in runq_buildable
      BY <2>1 DEF task_skip, SearchTask, Candidates
    <2>3. task_completeoutright(t, runq_buildable \cup {t}) /\ runq_running' = runq_running \cup {t}
      BY <2>1 DEF task_skip
    <2> QED BY <2>2, <2>3, CompleteReady DEF TypeOK
  <1>4. CASE \E t \in Tasks : TaskStart(t)
    BY <1>4 DEF Ready, TaskStart, SearchTask, Candidates
  <1>5. CASE update_holdofftasks
    BY <1>5 DEF Ready, update_holdofftasks
  <1>6. CASE UNCHANGED vars
    BY <1>1, <1>6 DEF vars, runq
  <1> QED BY <1>1, <1>2, <1>3, <1>4, <1>5, <1>6, RunUnchanged

\* Whatever made a task buildable, it only runs when everything it depends on
\* is complete.
THEOREM DependenciesFirst == Spec => []AfterDependencies
  <1>1. Init => TypeOK /\ Ready
    BY InitType, InitReady
  <1>2. TypeOK /\ Ready /\ [Next]_vars => (TypeOK /\ Ready)'
    BY StepType, StepReady
  <1>3. TypeOK /\ Ready => AfterDependencies
    BY DEF Ready, AfterDependencies, Executing
  <1> QED BY <1>1, <1>2, <1>3, PTL DEF Spec

-----------------------------------------------------------------------------
(* Setscene tasks are decided once *)

\* What fails with an undecided task has not started, is closed under hard
\* dependencies, and was not decided.
LEMMA FailsFacts ==
  ASSUME Underway, NEW t \in Setscene, t \notin Decided
  PROVE  /\ t \in FailsWith(t, Decided)
         /\ FailsWith(t, Decided) \cap Decided = {}
         /\ FailsWith(t, Decided) \cap sq_live \subseteq {t}
         /\ \A u \in Setscene \ Decided : HardDeps[u] \cap FailsWith(t, Decided) # {} => u \in FailsWith(t, Decided)
  <1> DEFINE X == {t} \cup (Setscene \ (Decided \cup sq_live))
  <1>1. X \in SUBSET Setscene /\ t \in X
    OBVIOUS
  <1>2. FailClosed(X, Decided)
    <2> SUFFICES ASSUME NEW u \in Setscene \ Decided, HardDeps[u] \cap X # {} PROVE u \in X
      BY DEF FailClosed
    <2>1. ~(HardDeps[u] \subseteq Decided)
      OBVIOUS
    <2> QED BY <2>1 DEF Underway
  <1>3. FailsWith(t, Decided) \subseteq X
    BY <1>1, <1>2 DEF FailsWith
  <1>4. t \in FailsWith(t, Decided)
    BY DEF FailsWith
  <1>5. ASSUME NEW u \in Setscene \ Decided, HardDeps[u] \cap FailsWith(t, Decided) # {}
        PROVE  u \in FailsWith(t, Decided)
    BY <1>5 DEF FailsWith, FailClosed
  <1> QED BY <1>3, <1>4, <1>5

LEMMA SkipUnderway ==
  ASSUME Underway, NEW t, t \notin sq_live, sq_task_skip(t), UNCHANGED sq_live
  PROVE  Underway'
  BY DEF Underway, Decided, sq_task_skip

\* sq_live may lose the task that fails.
LEMMA FailUnderway ==
  ASSUME Underway, NEW t \in Setscene, t \notin Decided, sq_task_failoutright(t),
         sq_live' = sq_live \ {t}
  PROVE  Underway'
  <1> DEFINE F == FailsWith(t, Decided)
  <1>1. /\ F \cap Decided = {} /\ F \cap sq_live \subseteq {t}
        /\ \A u \in Setscene \ Decided : HardDeps[u] \cap F # {} => u \in F
    BY FailsFacts
  <1>2. /\ sq_running' = sq_running \cup F
        /\ scenequeue_notcovered' = scenequeue_notcovered \cup F
        /\ scenequeue_covered' = scenequeue_covered
    BY DEF sq_task_failoutright
  <1>3. Decided' = Decided \cup F
    BY <1>2 DEF Decided
  <1> HIDE DEF F
  <1>4. (sq_live \cup Decided \subseteq sq_running)' /\ (sq_live \cap Decided = {})'
    BY <1>1, <1>2, <1>3 DEF Underway
  <1>5. \A u \in sq_live' : HardDeps[u] \subseteq Decided'
    BY <1>3 DEF Underway
  <1>6. \A u \in Setscene \ Decided' : HardDeps[u] \cap scenequeue_notcovered' = {}
    BY <1>1, <1>2, <1>3 DEF Underway
  <1> QED BY <1>4, <1>5, <1>6 DEF Underway

LEMMA SkipStep ==
  ASSUME Decisions, NEW t, t \notin sq_running, sq_task_skip(t), UNCHANGED <<sq_live, stamped>>
  PROVE  Decisions'
  <1>1. Underway'
    BY SkipUnderway DEF Decisions, Underway
  <1> QED BY <1>1 DEF Decisions, Underway, DecidedOnce, Decided, StampedScene, sq_task_skip

LEMMA FailStep ==
  ASSUME Decisions, NEW t \in Setscene, t \notin Decided, sq_task_failoutright(t),
         stamped' = stamped, sq_live' = sq_live \ {t}
  PROVE  Decisions'
  <1>1. Underway'
    BY FailUnderway DEF Decisions
  <1>2. FailsWith(t, Decided) \cap Decided = {}
    BY FailsFacts DEF Decisions
  <1> QED BY <1>1, <1>2 DEF Decisions, DecidedOnce, Decided, StampedScene, sq_task_failoutright

\* A released task whose stamp is current was covered from the start.
LEMMA ReleaseStep ==
  ASSUME TypeOK, Decisions, NEW t \in Tasks, ReleaseDeferred(t), UNCHANGED <<sq_live, stamped>>
  PROVE  Decisions'
  <1>1. CASE UNCHANGED decide
    BY <1>1 DEF Decisions, Underway, DecidedOnce, Decided, StampedScene, decide
  <1>2. CASE \E f \in DOMAIN sq_deferred : f \in stamped /\ sq_task_skip(f)
    <2>1. PICK f \in DOMAIN sq_deferred : f \in stamped /\ sq_task_skip(f)
      BY <1>2
    <2>2. f \in scenequeue_covered
      BY <2>1 DEF TypeOK, Decisions, Underway, StampedScene
    <2> QED BY <2>1, <2>2 DEF Decisions, Underway, DecidedOnce, Decided, StampedScene, sq_task_skip
  <1> QED BY <1>1, <1>2 DEF ReleaseDeferred

LEMMA DecideUnchanged ==
  ASSUME Next, ~(\E t \in Tasks : \/ SceneExit(t) \/ TaskExit(t) \/ task_skip(t)
                                 \/ SceneUnneeded(t) \/ SceneUnavailable(t) \/ SceneStart(t))
  PROVE  UNCHANGED <<stamped, sq_running, sq_live, scenequeue_covered, scenequeue_notcovered>>
  <1>1. CASE \E t \in Tasks : TaskForbidden(t) \/ TaskStart(t) \/ SceneHardDefer(t)
    BY <1>1 DEF TaskForbidden, TaskStart, SceneHardDefer, build, sceneq, decide
  <1>2. CASE update_holdofftasks
    BY <1>2 DEF update_holdofftasks, build
  <1>3. CASE \/ ReadDone \/ DrainDone \/ SceneNone \/ CheckSceneQueue \/ TaskNone \/ TailRead
             \/ ForceDeferred \/ EndOfQueue \/ NextCall \/ finish \/ Stop \/ Interrupt
    BY <1>3 DEF ReadDone, DrainDone, SceneNone, CheckSceneQueue, TaskNone, TailRead, ForceDeferred,
       EndOfQueue, NextCall, finish, Stop, Interrupt, build, sceneq, decide
  <1> QED BY <1>1, <1>2, <1>3 DEF Next, Server, Execute, WorkerExit

LEMMA InitDecisions == Init => Decisions
  BY DEF Init, Decisions, Underway, DecidedOnce, Decided, StampedScene

LEMMA StepDecisions == TypeOK /\ Decisions /\ [Next]_vars => Decisions'
  <1> SUFFICES ASSUME TypeOK, Decisions, [Next]_vars PROVE Decisions'
    OBVIOUS
  <1>1. CASE UNCHANGED <<stamped, sq_running, sq_live, scenequeue_covered, scenequeue_notcovered>>
    BY <1>1 DEF Decisions, Underway, DecidedOnce, Decided, StampedScene
  <1>2. CASE \E t \in Tasks : SceneExit(t)
    <2>1. PICK t \in Tasks : SceneExit(t)
      BY <1>2
    <2>2. t \in Setscene /\ t \notin Decided
      BY <2>1 DEF SceneExit, TypeOK, Decisions, Underway
    <2>3. CASE sq_task_failoutright(t)
      BY <2>1, <2>2, <2>3, FailStep DEF SceneExit, build
    <2>4. CASE ~sq_task_failoutright(t)
      BY <2>1, <2>2, <2>4 DEF SceneExit, build, Decisions, Underway, DecidedOnce, Decided, StampedScene
    <2> QED BY <2>3, <2>4
  <1>3. CASE \E t \in Tasks : TaskExit(t)
    <2>1. PICK t \in Tasks : TaskExit(t)
      BY <1>3
    <2>2. CASE task_completeoutright(t, runq_buildable)
      BY <2>1, <2>2, ReleaseStep DEF TaskExit, task_completeoutright, build
    <2>3. CASE ~task_completeoutright(t, runq_buildable)
      BY <1>1, <2>1, <2>3 DEF TaskExit, build, decide
    <2> QED BY <2>2, <2>3
  <1>4. CASE \E t \in Tasks : task_skip(t)
    BY <1>4, ReleaseStep DEF task_skip, task_completeoutright, build
  <1>5. CASE \E t \in Tasks : SceneUnneeded(t) \/ SceneUnavailable(t)
    <2>1. PICK t \in Tasks : SceneUnneeded(t) \/ SceneUnavailable(t)
      BY <1>5
    <2>2. t \in Setscene /\ t \notin sq_running /\ t \notin Decided /\ t \notin sq_live
          /\ UNCHANGED <<sq_live, stamped>>
      BY <2>1 DEF SceneUnneeded, SceneUnavailable, SearchScene, Selectable, build, TypeOK, Decisions, Underway
    <2>3. CASE SceneUnneeded(t)
      BY <2>2, <2>3, SkipStep DEF SceneUnneeded
    <2>4. CASE SceneUnavailable(t)
      BY <2>2, <2>4, FailStep DEF SceneUnavailable
    <2> QED BY <2>1, <2>3, <2>4
  <1>6. CASE \E t \in Tasks : SceneStart(t)
    BY <1>6 DEF SceneStart, SearchScene, Selectable, build, Decisions, Underway, DecidedOnce, Decided,
       StampedScene
  <1>7. CASE UNCHANGED vars
    BY <1>1, <1>7 DEF vars, sceneq, decide, build
  <1> QED BY <1>1, <1>2, <1>3, <1>4, <1>5, <1>6, <1>7, DecideUnchanged

\* No setscene task ends up both covered and not covered, in whatever order
\* its stamp, its deferral, its exit code and a skip are seen.
THEOREM NeverBoth == Spec => []DecidedOnce
  <1>1. Init => TypeOK /\ Decisions
    BY InitType, InitDecisions
  <1>2. TypeOK /\ Decisions /\ [Next]_vars => (TypeOK /\ Decisions)'
    BY StepType, StepDecisions
  <1>3. Decisions => DecidedOnce
    BY DEF Decisions, Underway
  <1> QED BY <1>1, <1>2, <1>3, PTL DEF Spec

\* A setscene task runs only when each of its hard dependencies was covered,
\* whichever of them failed, fail together or were set aside before it.
THEOREM HardDependenciesFirst == Spec => [](\A t \in sq_live : HardDeps[t] \subseteq scenequeue_covered)
  <1>1. Init => TypeOK /\ Decisions
    BY InitType, InitDecisions
  <1>2. TypeOK /\ Decisions /\ [Next]_vars => (TypeOK /\ Decisions)'
    BY StepType, StepDecisions
  <1>3. TypeOK /\ Decisions => \A t \in sq_live : HardDeps[t] \subseteq scenequeue_covered
    BY DEF TypeOK, Decisions, Underway, Decided
  <1> QED BY <1>1, <1>2, <1>3, PTL DEF Spec

-----------------------------------------------------------------------------
(* Counting processes *)

LEMMA FiniteTypes ==
  ASSUME TypeOK
  PROVE  /\ IsFiniteSet(Executing) /\ IsFiniteSet(sq_live)
         /\ IsFiniteSet(Executing \cap Limited)
         /\ Cardinality(Executing) \in Nat /\ Cardinality(sq_live) \in Nat
         /\ Cardinality(Executing \cap Limited) \in Nat
  <1>1. Executing \subseteq Tasks /\ sq_live \subseteq Tasks
    BY GraphAssumption DEF TypeOK, Executing
  <1>2. IsFiniteSet(Tasks)
    BY GraphAssumption
  <1>3. IsFiniteSet(Executing) /\ IsFiniteSet(sq_live) /\ IsFiniteSet(Executing \cap Limited)
    BY <1>1, <1>2, FS_Subset
  <1> QED BY <1>3, FS_CardinalityType

\* Only TaskStart adds a process of an ordinary task.
LEMMA ExecutingShrinks ==
  ASSUME [Next]_vars, ~(\E t \in Tasks : TaskStart(t))
  PROVE  Executing' \subseteq Executing
  <1>1. CASE \E t \in Tasks : TaskExit(t)
    BY <1>1 DEF TaskExit, Executing, task_completeoutright, task_fail
  <1>2. CASE \E t \in Tasks : task_skip(t)
    BY <1>2 DEF task_skip, Executing, task_completeoutright
  <1>3. CASE \E t \in Tasks : TaskForbidden(t)
    BY <1>3 DEF TaskForbidden, Executing, task_fail
  <1>4. CASE update_holdofftasks
    BY <1>4 DEF update_holdofftasks, Executing
  <1>5. CASE \E t \in Tasks : \/ SceneExit(t) \/ SceneUnneeded(t) \/ SceneHardDefer(t)
                             \/ SceneUnavailable(t) \/ SceneStart(t)
    BY <1>5 DEF SceneExit, SceneUnneeded, SceneHardDefer, SceneUnavailable, SceneStart, runq,
       Executing
  <1>6. CASE \/ ReadDone \/ DrainDone \/ SceneNone \/ CheckSceneQueue \/ TaskNone \/ TailRead
             \/ ForceDeferred \/ EndOfQueue \/ NextCall \/ finish \/ Stop \/ Interrupt
    BY <1>6 DEF ReadDone, DrainDone, SceneNone, CheckSceneQueue, TaskNone, TailRead, ForceDeferred,
       EndOfQueue, NextCall, finish, Stop, Interrupt, runq, Executing
  <1>7. CASE UNCHANGED vars
    BY <1>7 DEF vars, runq, Executing
  <1> QED BY <1>1, <1>2, <1>3, <1>4, <1>5, <1>6, <1>7 DEF Next, Server, Execute, WorkerExit

LEMMA StartExecuting ==
  ASSUME NEW t \in Tasks, TaskStart(t)
  PROVE  Executing' \subseteq Executing \cup {t}
  BY DEF TaskStart, Executing

LEMMA InitNumberThreads == Init => NumberThreads
  <1>1. Init => Executing = {}
    BY DEF Init, Executing
  <1>2. Init => Executing \cap Limited = {}
    BY <1>1
  <1>3. Cardinality({}) = 0 /\ 0 <= LimitedTo
    BY FS_EmptySet, RunAssumption
  <1> QED BY <1>2, <1>3 DEF NumberThreads

LEMMA StepNumberThreads == TypeOK /\ NumberThreads /\ [Next]_vars => NumberThreads'
  <1> SUFFICES ASSUME TypeOK, NumberThreads, [Next]_vars PROVE NumberThreads'
    OBVIOUS
  <1> DEFINE Before == Executing \cap Limited
             After  == Executing' \cap Limited
  <1>1. IsFiniteSet(Before) /\ Cardinality(Before) \in Nat
    BY FiniteTypes
  <1>2. Cardinality(Before) <= LimitedTo /\ LimitedTo \in Nat
    BY RunAssumption DEF NumberThreads
  <1>3. CASE After \subseteq Before
    <2>1. Cardinality(After) <= Cardinality(Before) /\ IsFiniteSet(After)
      BY <1>1, <1>3, FS_Subset
    <2>2. Cardinality(After) \in Nat
      BY <2>1, FS_CardinalityType
    <2>3. Cardinality(After) <= LimitedTo
      BY <1>1, <1>2, <2>1, <2>2
    <2> QED BY <2>3 DEF NumberThreads
  <1>4. ASSUME NEW t \in Tasks, TaskStart(t), t \in Limited
        PROVE  NumberThreads'
    <2> DEFINE Named == (runq_running \ runq_complete) \cap Limited
    <2>1. ~(Cardinality(Named) >= LimitedTo)
      BY <1>4 DEF TaskStart, SearchTask, Candidates, skip_buildable
    <2>2. IsFiniteSet(Named) /\ Cardinality(Named) \in Nat
      BY FS_Subset, FS_CardinalityType, GraphAssumption DEF TypeOK
    <2>3. Before \subseteq Named
      BY DEF Executing
    <2>4. Cardinality(Before) <= Cardinality(Named)
      BY <2>2, <2>3, FS_Subset
    <2>5. After \subseteq Before \cup {t}
      BY <1>4, StartExecuting
    <2>6. IsFiniteSet(Before \cup {t}) /\ Cardinality(Before \cup {t}) \in Nat
          /\ Cardinality(Before \cup {t}) <= Cardinality(Before) + 1
      <3>1. IsFiniteSet(Before \cup {t})
            /\ Cardinality(Before \cup {t}) =
                 IF t \in Before THEN Cardinality(Before) ELSE Cardinality(Before) + 1
        BY <1>1, FS_AddElement
      <3>2. Cardinality(Before \cup {t}) \in Nat
        BY <3>1, FS_CardinalityType
      <3> QED BY <1>1, <3>1, <3>2
    <2>7. Cardinality(After) <= Cardinality(Before \cup {t}) /\ Cardinality(After) \in Nat
      <3>1. IsFiniteSet(After) /\ Cardinality(After) <= Cardinality(Before \cup {t})
        BY <2>5, <2>6, FS_Subset
      <3> QED BY <3>1, FS_CardinalityType
    <2>8. Cardinality(After) <= LimitedTo
      BY <1>1, <1>2, <2>1, <2>2, <2>4, <2>6, <2>7
    <2> QED BY <2>8 DEF NumberThreads
  <1>5. CASE ~(\E t \in Tasks : TaskStart(t) /\ t \in Limited)
    <2>1. After \subseteq Before
      BY <1>5, ExecutingShrinks, StartExecuting
    <2> QED BY <2>1, <1>3
  <1> QED BY <1>4, <1>5

\* next_buildable_task keeps every task name to its number_threads flag.
THEOREM FlagRespected == Spec => []NumberThreads
  <1>1. Init => TypeOK /\ NumberThreads
    BY InitType, InitNumberThreads
  <1>2. TypeOK /\ NumberThreads /\ [Next]_vars => (TypeOK /\ NumberThreads)'
    BY StepType, StepNumberThreads
  <1> QED BY <1>1, <1>2, PTL DEF Spec

-----------------------------------------------------------------------------
(* The slots: every task is allowed to run, or the build stops when not *)

LEMMA InitSlots == Init => Slots
  <1>1. Init => Executing = {} /\ sq_live = {}
    BY DEF Init, Executing
  <1>2. Cardinality({}) = 0 /\ 0 <= NumberTasks
    BY FS_EmptySet, RunAssumption
  <1>3. Init => SlotBound
    BY <1>1, <1>2 DEF SlotBound
  <1> QED BY <1>1, <1>2, <1>3 DEF Init, Slots, Counted

\* A process ends: there is one less.
LEMMA ExitSlots ==
  ASSUME TypeOK, SlotBound, Counted, NEW t \in Tasks, TaskExit(t)
  PROVE  (SlotBound /\ Counted)'
  <1>1. runq_complete' \cup failed_tids' \subseteq runq_running'
        /\ Executing' = Executing \ {t} /\ active' = active - 1 /\ sq_live' = sq_live
        /\ t \in Executing
    BY DEF Counted, TaskExit, task_completeoutright, task_fail, Executing
  <1>2. Cardinality(Executing') = Cardinality(Executing) - 1
    BY <1>1, FiniteTypes, FS_RemoveElement
  <1>3. SlotBound'
    BY <1>1, <1>2, FiniteTypes, RunAssumption DEF SlotBound
  <1> QED BY <1>1, <1>2, <1>3 DEF Counted

LEMMA StartSlots ==
  ASSUME TypeOK, SlotBound, Counted, NEW t \in Tasks, TaskStart(t)
  PROVE  (SlotBound /\ Counted)'
  <1>1. runq_complete' \cup failed_tids' \subseteq runq_running' /\ active' = active + 1
        /\ sq_live' = sq_live
    BY DEF Counted, TaskStart, sceneq
  <1>2. Executing' = Executing \cup {t} /\ t \notin Executing
    BY DEF Counted, TaskStart, SearchTask, Candidates, Executing
  <1>3. Cardinality(Executing') = Cardinality(Executing) + 1
    BY <1>2, FiniteTypes, FS_AddElement
  <1>4. active + Cardinality(sq_live) < NumberTasks /\ active = Cardinality(Executing)
    BY DEF Counted, TaskStart, SearchTask, can_start_task
  <1> QED BY <1>1, <1>3, <1>4, FiniteTypes, RunAssumption DEF Counted, SlotBound

LEMMA SceneStartSlots ==
  ASSUME TypeOK, SlotBound, Counted, NEW t \in Tasks, SceneStart(t)
  PROVE  (SlotBound /\ Counted)'
  <1>1. UNCHANGED <<runq_running, runq_complete, failed_tids, active>> /\ Executing' = Executing
        /\ sq_live' = sq_live \cup {t} /\ active + Cardinality(sq_live) < NumberTasks
    BY DEF SceneStart, SearchScene, can_start_task, runq, Executing
  <1>2. Cardinality(sq_live') <= Cardinality(sq_live) + 1 /\ Cardinality(sq_live') \in Nat
    <2>1. IsFiniteSet(sq_live \cup {t})
          /\ Cardinality(sq_live \cup {t}) =
               IF t \in sq_live THEN Cardinality(sq_live) ELSE Cardinality(sq_live) + 1
      BY FiniteTypes, FS_AddElement
    <2>2. Cardinality(sq_live \cup {t}) \in Nat
      BY <2>1, FS_CardinalityType
    <2> QED BY <1>1, <2>1, <2>2, FiniteTypes
  <1>3. SlotBound'
    BY <1>1, <1>2, FiniteTypes, RunAssumption DEF Counted, SlotBound
  <1> QED BY <1>1, <1>3 DEF Counted

\* Fewer processes of either kind
LEMMA FewerSlots ==
  ASSUME TypeOK, SlotBound, Executing' \subseteq Executing, sq_live' \subseteq sq_live
  PROVE  SlotBound'
  <1>1. IsFiniteSet(Executing') /\ Cardinality(Executing') <= Cardinality(Executing)
    BY FiniteTypes, FS_Subset
  <1>2. IsFiniteSet(sq_live') /\ Cardinality(sq_live') <= Cardinality(sq_live)
    BY FiniteTypes, FS_Subset
  <1>3. Cardinality(Executing') \in Nat /\ Cardinality(sq_live') \in Nat
    BY <1>1, <1>2, FS_CardinalityType
  <1> QED BY <1>1, <1>2, <1>3, FiniteTypes, RunAssumption DEF SlotBound

LEMMA SceneExitSlots ==
  ASSUME TypeOK, SlotBound, Counted, NEW t \in Tasks, SceneExit(t)
  PROVE  (SlotBound /\ Counted)'
  <1>1. UNCHANGED <<runq_running, runq_complete, failed_tids, active>> /\ Executing' = Executing
        /\ sq_live' \subseteq sq_live
    BY DEF SceneExit, runq, Executing
  <1> QED BY <1>1, FewerSlots DEF Counted

\* Skipped tasks take no slot.
LEMMA OtherSlots ==
  ASSUME SlotBound, Counted, [Next]_vars,
         ~(\E t \in Tasks : \/ TaskExit(t) \/ TaskStart(t) \/ SceneStart(t) \/ SceneExit(t)
                          \/ TaskForbidden(t))
  PROVE  (SlotBound /\ Counted)'
  <1>1. CASE UNCHANGED <<runq_running, runq_complete, failed_tids, active, sq_live>>
    BY <1>1 DEF Counted, SlotBound, Executing
  <1>2. CASE \E t \in Tasks : task_skip(t)
    <2>1. UNCHANGED <<failed_tids, active, sq_live>> /\ Executing' = Executing
          /\ runq_complete' \subseteq runq_running' /\ runq_running \subseteq runq_running'
      BY <1>2 DEF task_skip, task_completeoutright, Executing, SearchTask, Candidates, Counted
    <2> QED BY <2>1 DEF Counted, SlotBound
  <1>3. CASE \E t \in Tasks : SceneUnneeded(t) \/ SceneHardDefer(t) \/ SceneUnavailable(t)
    BY <1>1, <1>3 DEF SceneUnneeded, SceneHardDefer, SceneUnavailable, runq
  <1>4. CASE update_holdofftasks
    BY <1>1, <1>4 DEF update_holdofftasks
  <1>5. CASE \/ ReadDone \/ DrainDone \/ SceneNone \/ CheckSceneQueue \/ TaskNone \/ TailRead
             \/ ForceDeferred \/ EndOfQueue \/ NextCall \/ finish \/ Stop \/ Interrupt
    BY <1>1, <1>5 DEF ReadDone, DrainDone, SceneNone, CheckSceneQueue, TaskNone, TailRead,
       ForceDeferred, EndOfQueue, NextCall, finish, Stop, Interrupt, runq, sceneq
  <1>6. CASE UNCHANGED vars
    BY <1>1, <1>6 DEF vars, runq, sceneq
  <1> QED BY <1>2, <1>3, <1>4, <1>5, <1>6 DEF Next, Server, Execute, WorkerExit

\* A forbidden task: the count is one short, and the build is over.
LEMMA ForbiddenSlots ==
  ASSUME SlotBound, halt, NEW t \in Tasks, TaskForbidden(t)
  PROVE  (SlotBound /\ Over)'
  <1>1. state' = "CleanUp" /\ phase' = "return"
    BY DEF TaskForbidden, task_fail
  <1>2. sq_live' = sq_live /\ runq_running' = runq_running /\ runq_complete' = runq_complete
    BY DEF TaskForbidden, sceneq
  <1>3. Executing' = Executing
    BY Z3 DEF TaskForbidden, task_fail, Executing, SearchTask, Candidates
  <1> QED BY <1>1, <1>2, <1>3 DEF SlotBound, Over

\* Once over, exit codes are read and finish is called; nothing starts.
LEMMA OverSlots ==
  ASSUME TypeOK, SlotBound, Over, [Next]_vars
  PROVE  (SlotBound /\ Over)'
  <1>1. \/ \E t \in Tasks : WorkerExit(t)
        \/ DrainDone \/ finish \/ Stop \/ Interrupt \/ UNCHANGED vars
    BY DEF Over, Next, Server, Execute, SceneUnneeded, SceneHardDefer, SceneUnavailable, SceneStart,
       SearchScene,
       TaskForbidden, task_skip, TaskStart, SearchTask, ReadDone, SceneNone, update_holdofftasks,
       CheckSceneQueue, TaskNone, TailRead, ForceDeferred, EndOfQueue, NextCall
  <1>2. CASE \E t \in Tasks : SceneExit(t)
    <2>1. Over' /\ sq_live' \subseteq sq_live /\ Executing' \subseteq Executing
      BY <1>2 DEF SceneExit, Over, runq, Executing
    <2> QED BY <2>1, FewerSlots
  <1>3. CASE \E t \in Tasks : TaskExit(t)
    <2>1. Over' /\ sq_live' = sq_live /\ Executing' \subseteq Executing
      BY <1>3 DEF TaskExit, Over, Executing, task_completeoutright, task_fail
    <2> QED BY <2>1, FewerSlots
  <1>4. CASE DrainDone \/ finish \/ Stop \/ Interrupt \/ UNCHANGED vars
    <2>1. sq_live' = sq_live /\ Executing' = Executing
      BY <1>4 DEF DrainDone, finish, Stop, Interrupt, vars, runq, sceneq, Executing
    <2>2. Over'
      BY <1>4 DEF DrainDone, finish, Stop, Interrupt, vars, Over, Result
    <2> QED BY <2>1, <2>2 DEF SlotBound
  <1> QED BY <1>1, <1>2, <1>3, <1>4 DEF WorkerExit

LEMMA BuildFixed == [Next]_vars => UNCHANGED <<halt, stamped>>
  <1> SUFFICES ASSUME [Next]_vars PROVE UNCHANGED <<halt, stamped>>
    OBVIOUS
  <1>1. CASE \E t \in Tasks : \/ SceneExit(t) \/ TaskExit(t) \/ SceneUnneeded(t)
                             \/ SceneHardDefer(t) \/ SceneUnavailable(t) \/ SceneStart(t) \/ TaskForbidden(t)
                             \/ task_skip(t) \/ TaskStart(t)
    BY <1>1 DEF SceneExit, TaskExit, SceneUnneeded, SceneHardDefer, SceneUnavailable, SceneStart,
       TaskForbidden, task_skip, TaskStart, build
  <1>2. CASE \/ ReadDone \/ DrainDone \/ SceneNone \/ update_holdofftasks \/ CheckSceneQueue
             \/ TaskNone \/ TailRead \/ ForceDeferred \/ EndOfQueue \/ NextCall \/ finish \/ Stop
             \/ Interrupt
    BY <1>2 DEF ReadDone, DrainDone, SceneNone, update_holdofftasks, CheckSceneQueue, TaskNone,
       TailRead, ForceDeferred, EndOfQueue, NextCall, finish, Stop, Interrupt, build
  <1>3. CASE UNCHANGED vars
    BY <1>3 DEF vars, build
  <1> QED BY <1>1, <1>2, <1>3 DEF Next, Server, Execute, WorkerExit

LEMMA StepSlots == TypeOK /\ Slots /\ [Next]_vars => Slots'
  <1> SUFFICES ASSUME TypeOK, SlotBound, Counted \/ Over, [Next]_vars, Forbidden = {} \/ halt
               PROVE  (SlotBound /\ (Counted \/ Over))'
    BY BuildFixed DEF Slots
  <1>1. CASE Over
    BY <1>1, OverSlots
  <1>2. CASE Counted
    <2>1. CASE \E t \in Tasks : TaskForbidden(t)
      <3>1. Forbidden # {}
        BY <2>1 DEF TaskForbidden
      <3> QED BY <2>1, <3>1, ForbiddenSlots
    <2>2. CASE ~(\E t \in Tasks : TaskForbidden(t))
      BY <1>2, <2>2, ExitSlots, StartSlots, SceneStartSlots, SceneExitSlots, OtherSlots
    <2> QED BY <2>1, <2>2
  <1> QED BY <1>1, <1>2

\* Ordinary and setscene processes together never exceed BB_NUMBER_THREADS,
\* unless a build that goes on after failures meets a task that
\* BB_SETSCENE_ENFORCE forbids to run.
THEOREM SlotsRespected == Spec => [](Forbidden = {} \/ halt => SlotBound)
  <1>1. Init => TypeOK /\ Slots
    BY InitType, InitSlots
  <1>2. TypeOK /\ Slots /\ [Next]_vars => (TypeOK /\ Slots)'
    BY StepType, StepSlots
  <1>3. TypeOK /\ Slots => (Forbidden = {} \/ halt => SlotBound)
    BY DEF Slots
  <1> QED BY <1>1, <1>2, <1>3, PTL DEF Spec

-----------------------------------------------------------------------------
(* Setscene tasks and the tasks they cover *)

\* holdoff_tasks is out of date between two calls of update_holdofftasks, but
\* only ever too large; and nothing that should be held is running.
Holding ==
  /\ tasks_covered \cup tasks_notcovered # {} => Held \subseteq holdoff_tasks
  /\ Executing \cap Held = {}

\* Decisions and completed tasks stay.
LEMMA NothingUndone ==
  ASSUME [Next]_vars
  PROVE  /\ scenequeue_covered \subseteq scenequeue_covered'
         /\ scenequeue_notcovered \subseteq scenequeue_notcovered'
         /\ Decided \subseteq Decided'
         /\ runq_complete \subseteq runq_complete'
  <1>1. CASE UNCHANGED <<scenequeue_covered, scenequeue_notcovered, runq_complete>>
    BY <1>1 DEF Decided
  <1>2. ASSUME NEW t \in Tasks, ReleaseDeferred(t)
        PROVE  /\ scenequeue_covered \subseteq scenequeue_covered'
               /\ scenequeue_notcovered \subseteq scenequeue_notcovered'
               /\ Decided \subseteq Decided'
    BY <1>2 DEF ReleaseDeferred, decide, sq_task_skip, Decided
  <1>3. CASE \E t \in Tasks : SceneExit(t)
    BY <1>3 DEF SceneExit, sq_task_failoutright, runq, Decided
  <1>4. CASE \E t \in Tasks : TaskExit(t)
    <2>1. PICK t \in Tasks : TaskExit(t)
      BY <1>4
    <2>2. CASE task_completeoutright(t, runq_buildable)
      BY <1>2, <2>2 DEF task_completeoutright
    <2>3. CASE ~task_completeoutright(t, runq_buildable)
      BY <1>1, <2>1, <2>3 DEF TaskExit, decide
    <2> QED BY <2>2, <2>3
  <1>5. CASE \E t \in Tasks : task_skip(t)
    BY <1>2, <1>5 DEF task_skip, task_completeoutright
  <1>6. CASE \E t \in Tasks : SceneUnneeded(t) \/ SceneUnavailable(t)
    BY <1>6 DEF SceneUnneeded, SceneUnavailable, sq_task_skip, sq_task_failoutright, runq, Decided
  <1>7. CASE \E t \in Tasks : SceneStart(t) \/ TaskStart(t)
    BY <1>1, <1>7 DEF SceneStart, TaskStart, sceneq, decide, runq
  <1>8. CASE update_holdofftasks
    BY <1>1, <1>8 DEF update_holdofftasks
  <1>9. CASE UNCHANGED vars
    BY <1>1, <1>9 DEF vars, runq, sceneq, decide
  <1> QED BY <1>1, <1>3, <1>4, <1>5, <1>6, <1>7, <1>8, <1>9, DecideUnchanged, RunUnchanged

LEMMA HeldShrinks ==
  ASSUME [Next]_vars
  PROVE  Held' \subseteq Held
  BY NothingUndone DEF Held

LEMMA CoverUnchanged ==
  ASSUME [Next]_vars, ~update_holdofftasks
  PROVE  UNCHANGED cover
  <1>1. CASE \E t \in Tasks : SceneExit(t) \/ TaskExit(t) \/ task_skip(t)
    BY <1>1 DEF SceneExit, TaskExit, task_skip
  <1>2. CASE \E t \in Tasks : SceneUnneeded(t) \/ SceneHardDefer(t) \/ SceneUnavailable(t)
                             \/ SceneStart(t)
    BY <1>2 DEF SceneUnneeded, SceneHardDefer, SceneUnavailable, SceneStart
  <1>3. CASE \E t \in Tasks : TaskForbidden(t) \/ TaskStart(t)
    BY <1>3 DEF TaskForbidden, TaskStart, sceneq
  <1>4. CASE \/ ReadDone \/ DrainDone \/ SceneNone \/ CheckSceneQueue \/ TaskNone \/ TailRead
             \/ ForceDeferred \/ EndOfQueue \/ NextCall \/ finish \/ Stop \/ Interrupt
    BY <1>4 DEF ReadDone, DrainDone, SceneNone, CheckSceneQueue, TaskNone, TailRead, ForceDeferred,
       EndOfQueue, NextCall, finish, Stop, Interrupt, sceneq
  <1>5. CASE UNCHANGED vars
    BY <1>5 DEF vars, sceneq
  <1> QED BY <1>1, <1>2, <1>3, <1>4, <1>5 DEF Next, Server, Execute, WorkerExit

LEMMA InitHolding == Init => Holding
  BY DEF Init, Holding, Held, Executing

LEMMA StepHolding == Holding /\ [Next]_vars => Holding'
  <1> SUFFICES ASSUME Holding, [Next]_vars PROVE Holding'
    OBVIOUS
  <1>1. (tasks_covered \cup tasks_notcovered # {} => Held \subseteq holdoff_tasks)'
    <2>1. CASE update_holdofftasks /\ holdoff_need_update
      <3>1. holdoff_tasks' = Held
        BY <2>1 DEF update_holdofftasks
      <3> QED BY <3>1, HeldShrinks
    <2>2. CASE ~(update_holdofftasks /\ holdoff_need_update)
      <3>1. UNCHANGED <<tasks_covered, tasks_notcovered, holdoff_tasks>>
        BY <2>2, CoverUnchanged DEF update_holdofftasks, cover
      <3> QED BY <3>1, HeldShrinks DEF Holding
    <2> QED BY <2>1, <2>2
  <1>2. (Executing \cap Held = {})'
    <2>1. CASE \E t \in Tasks : TaskStart(t)
      <3>1. PICK t \in Tasks : TaskStart(t)
        BY <2>1
      <3>2. t \notin holdoff_tasks /\ t \in tasks_covered \cup tasks_notcovered
        BY <3>1 DEF TaskStart, SearchTask, Candidates
      <3>3. t \notin Held
        BY <3>2 DEF Holding
      <3> QED BY <3>1, <3>3, StartExecuting, HeldShrinks DEF Holding
    <2>2. CASE ~(\E t \in Tasks : TaskStart(t))
      BY <2>2, ExecutingShrinks, HeldShrinks DEF Holding
    <2> QED BY <2>1, <2>2
  <1> QED BY <1>1, <1>2 DEF Holding

\* While a setscene task unpacks its output, neither its ordinary task nor one
\* it covers is running: what was started was not held when it started, and
\* from then on no setscene task over it can start any more.
THEOREM SceneKeepsApart == Spec => []SceneExcludesReal
  <1>1. Init => TypeOK /\ Decisions /\ Holding
    BY InitType, InitDecisions, InitHolding
  <1>2. TypeOK /\ Decisions /\ Holding /\ [Next]_vars => (TypeOK /\ Decisions /\ Holding)'
    BY StepType, StepDecisions, StepHolding
  <1>3. TypeOK /\ Decisions /\ Holding => SceneExcludesReal
    <2> SUFFICES ASSUME TypeOK, Decisions, Holding, NEW s \in sq_live
                 PROVE  (sq_covered_tasks[s] \cup {s}) \cap Executing = {}
      BY DEF SceneExcludesReal
    <2>1. s \in Setscene \ Decided
      BY DEF TypeOK, Decisions, Underway
    <2>2. {s} \cup (sq_covered_tasks[s] \ runq_complete) \subseteq Held
      BY <2>1 DEF Held
    <2> QED BY <2>2 DEF Holding, Executing
  <1> QED BY <1>1, <1>2, <1>3, PTL DEF Spec

-----------------------------------------------------------------------------
(* What a task needs was made *)

\* Tasks that have to run or be unpacked: NotCovered, as soon as it is known.
MustRun ==
  scenequeue_notcovered \cup cantskip \cup (unskippable \ Setscene)
    \cup UNION {sq_covered_tasks[s] : s \in scenequeue_notcovered}

\* A setscene task that was skipped, and not for its stamp, was not needed; and
\* an ordinary task that was skipped as covered has only covered tasks above.
Unneeded ==
  \A d \in scenequeue_covered \ (stamped \cup restored) :
    d \notin unskippable /\ sq_revdeps[d] \subseteq scenequeue_covered

Skipped ==
  \A d \in runq_complete \ runq_tasksrun :
    \/ d \in scenequeue_covered
    \/ /\ d \notin Setscene \cup unskippable
       /\ \A s \in Setscene : d \in sq_covered_tasks[s] => s \in scenequeue_covered

\* From update_holdofftasks to the end of a call nothing is decided.
UpToDate ==
  /\ ~holdoff_need_update => tasks_covered = Covered /\ tasks_notcovered = NotCovered
  /\ phase \in {"sqcheck", "task", "tail"} => ~holdoff_need_update

Needs ==
  /\ runq_complete \subseteq runq_running
  /\ Executing \subseteq MustRun
  /\ Unneeded /\ Skipped
  /\ UpToDate

LEMMA DownFacts ==
  ASSUME NEW S \in SUBSET Tasks
  PROVE  /\ S \subseteq DownFrom(S) /\ DownFrom(S) \subseteq Tasks
         /\ \A x \in DownFrom(S) \ Setscene : Depends[x] \subseteq DownFrom(S)
  BY GraphAssumption DEF DownFrom, ClosedDown

LEMMA BelowFacts ==
  ASSUME NEW s \in Setscene
  PROVE  /\ Below[s] \subseteq Tasks
         /\ Depends[s] \subseteq Below[s]
         /\ \A x \in Below[s] \ Setscene : Depends[x] \subseteq Below[s]
  <1>1. Depends[s] \in SUBSET Tasks /\ Below[s] = DownFrom(Depends[s])
    BY GraphAssumption DEF Below
  <1> QED BY <1>1, DownFacts

LEMMA UnskippableFacts ==
  /\ cantskip \subseteq unskippable
  /\ {t \in Tasks : revdeps[t] = {}} \subseteq unskippable
  /\ unskippable \subseteq Tasks
  /\ \A x \in unskippable \ Setscene : Depends[x] \subseteq unskippable
  <1>1. {t \in Tasks : revdeps[t] = {}} \cup cantskip \in SUBSET Tasks
    BY GraphAssumption DEF cantskip
  <1> QED BY <1>1, DownFacts DEF unskippable

\* What a task that must run depends on is no setscene task that is not needed,
\* and no ordinary task with only covered tasks above.
LEMMA MustRunNeeds ==
  ASSUME TypeOK, DecidedOnce, NEW t \in MustRun, NEW d \in Depends[t]
  PROVE  /\ d \in Setscene => d \in unskippable \/ ~(sq_revdeps[d] \subseteq scenequeue_covered)
         /\ d \notin Setscene => \/ d \in unskippable
                                \/ \E s \in Setscene : /\ d \in sq_covered_tasks[s]
                                                       /\ s \notin scenequeue_covered
  <1>1. CASE t \in unskippable \ Setscene
    BY <1>1, UnskippableFacts
  <1>2. CASE t \in cantskip
    BY <1>1, <1>2, UnskippableFacts DEF cantskip
  <1>3. ASSUME NEW s \in scenequeue_notcovered, d \in Below[s]
        PROVE  /\ d \in Setscene => ~(sq_revdeps[d] \subseteq scenequeue_covered)
               /\ d \notin Setscene => d \in sq_covered_tasks[s]
               /\ s \in Setscene \ scenequeue_covered
    BY <1>3 DEF TypeOK, DecidedOnce, sq_revdeps, sq_covered_tasks
  <1>4. CASE t \in scenequeue_notcovered
    <2>1. d \in Below[t]
      BY <1>4, BelowFacts DEF TypeOK
    <2> QED BY <1>3, <1>4, <2>1
  <1>5. ASSUME NEW s \in scenequeue_notcovered, t \in sq_covered_tasks[s]
        PROVE  d \in Below[s]
    BY <1>5, BelowFacts DEF TypeOK, sq_covered_tasks
  <1> QED BY <1>1, <1>2, <1>3, <1>4, <1>5 DEF MustRun

LEMMA NeedsMade ==
  ASSUME TypeOK, Ready, DecidedOnce, Needs
  PROVE  \A t \in Executing : Depends[t] \subseteq Made
  <1> SUFFICES ASSUME NEW t \in Executing, NEW d \in Depends[t], d \notin Made PROVE FALSE
    OBVIOUS
  <1>1. t \in MustRun /\ d \in runq_complete
    BY DEF Needs, Ready, Executing
  <1>2. CASE d \in scenequeue_covered
    <2>1. d \in Setscene /\ d \notin stamped \cup restored
      BY <1>2 DEF TypeOK, Made
    <2> QED BY <1>1, <1>2, <2>1, MustRunNeeds DEF Needs, Unneeded
  <1>3. CASE d \notin scenequeue_covered
    BY <1>1, <1>3, MustRunNeeds DEF Needs, Skipped, Made
  <1> QED BY <1>2, <1>3

\* A setscene task waits for its hard dependencies; those are not skipped as
\* unneeded if they are dependencies in the graph as well.
HardDepsAreDeps == \A t \in Setscene : HardDeps[t] \subseteq sq_deps[t] \cup unskippable

LEMMA HardDepsMade ==
  ASSUME TypeOK, Underway, Needs, HardDepsAreDeps
  PROVE  \A t \in sq_live : HardDeps[t] \subseteq Made
  <1> SUFFICES ASSUME NEW t \in sq_live, NEW d \in HardDeps[t], d \notin Made PROVE FALSE
    OBVIOUS
  <1>1. t \in Setscene \ Decided
    BY DEF TypeOK, Underway
  <1>2. d \in scenequeue_covered \ (stamped \cup restored)
    BY <1>1 DEF Underway, Decided, Made
  <1>3. d \notin unskippable /\ t \notin sq_revdeps[d] /\ d \in Setscene
    BY <1>1, <1>2 DEF Needs, Unneeded, Decided, TypeOK
  <1>4. d \in Below[t]
    BY <1>1, <1>3 DEF HardDepsAreDeps, sq_deps
  <1> QED BY <1>1, <1>3, <1>4 DEF sq_revdeps

LEMMA InitNeeds == Init => Needs
  BY DEF Init, Needs, Executing, Unneeded, Skipped, UpToDate, StampedScene

\* Steps after which decisions are to be looked at again.
LEMMA DecidedMarked ==
  ASSUME [Next]_vars, ~holdoff_need_update'
  PROVE  UNCHANGED <<scenequeue_covered, scenequeue_notcovered, tasks_scenequeue_done>>
  <1>1. ASSUME NEW t \in Tasks, ReleaseDeferred(t) PROVE UNCHANGED decide
    BY <1>1 DEF ReleaseDeferred, sq_task_skip, scenequeue_updatecounters
  <1>2. CASE \E t \in Tasks : SceneExit(t)
    BY <1>2 DEF SceneExit, sq_task_failoutright, scenequeue_updatecounters
  <1>3. CASE \E t \in Tasks : TaskExit(t)
    <2>1. PICK t \in Tasks : TaskExit(t)
      BY <1>3
    <2>2. UNCHANGED decide
      BY <1>1, <2>1 DEF TaskExit, task_completeoutright
    <2> QED BY <2>2 DEF decide
  <1>4. CASE \E t \in Tasks : task_skip(t)
    BY <1>1, <1>4 DEF task_skip, task_completeoutright, decide
  <1>5. CASE \E t \in Tasks : SceneUnneeded(t) \/ SceneUnavailable(t)
    BY <1>5 DEF SceneUnneeded, SceneUnavailable, sq_task_skip, sq_task_failoutright,
       scenequeue_updatecounters
  <1>6. CASE \E t \in Tasks : SceneStart(t) \/ SceneHardDefer(t)
    BY <1>6 DEF SceneStart, SceneHardDefer
  <1>7. CASE \E t \in Tasks : TaskStart(t) \/ TaskForbidden(t)
    BY <1>7 DEF TaskStart, TaskForbidden, sceneq, decide
  <1>8. CASE update_holdofftasks
    BY <1>8 DEF update_holdofftasks
  <1>9. CASE \/ ReadDone \/ DrainDone \/ SceneNone \/ CheckSceneQueue \/ TaskNone \/ TailRead
             \/ ForceDeferred \/ EndOfQueue \/ NextCall \/ finish \/ Stop \/ Interrupt
    BY <1>9 DEF ReadDone, DrainDone, SceneNone, CheckSceneQueue, TaskNone, TailRead, ForceDeferred,
       EndOfQueue, NextCall, finish, Stop, Interrupt, sceneq, decide
  <1>10. CASE UNCHANGED vars
    BY <1>10 DEF vars, sceneq, decide
  <1> QED BY <1>2, <1>3, <1>4, <1>5, <1>6, <1>7, <1>8, <1>9, <1>10
          DEF Next, Server, Execute, WorkerExit

\* Once the decisions are to be looked at again, update_holdofftasks does it.
LEMMA NeedStays ==
  ASSUME [Next]_vars, ~update_holdofftasks, holdoff_need_update
  PROVE  holdoff_need_update'
  <1>1. ASSUME NEW t \in Tasks, ReleaseDeferred(t) PROVE holdoff_need_update'
    BY <1>1 DEF ReleaseDeferred, sq_task_skip, scenequeue_updatecounters, decide
  <1>2. CASE \E t \in Tasks : SceneExit(t)
    BY <1>2 DEF SceneExit, sq_task_failoutright, scenequeue_updatecounters
  <1>3. CASE \E t \in Tasks : TaskExit(t)
    BY <1>1, <1>3 DEF TaskExit, task_completeoutright, decide
  <1>4. CASE \E t \in Tasks : task_skip(t)
    BY <1>1, <1>4 DEF task_skip, task_completeoutright
  <1>5. CASE \E t \in Tasks : SceneUnneeded(t) \/ SceneUnavailable(t)
    BY <1>5 DEF SceneUnneeded, SceneUnavailable, sq_task_skip, sq_task_failoutright,
       scenequeue_updatecounters
  <1>6. CASE \E t \in Tasks : SceneStart(t) \/ SceneHardDefer(t)
    BY <1>6 DEF SceneStart, SceneHardDefer
  <1>7. CASE \E t \in Tasks : TaskStart(t) \/ TaskForbidden(t)
    BY <1>7 DEF TaskStart, TaskForbidden, sceneq, decide
  <1>9. CASE \/ ReadDone \/ DrainDone \/ SceneNone \/ CheckSceneQueue \/ TaskNone \/ TailRead
             \/ ForceDeferred \/ EndOfQueue \/ NextCall \/ finish \/ Stop \/ Interrupt
    BY <1>9 DEF ReadDone, DrainDone, SceneNone, CheckSceneQueue, TaskNone, TailRead, ForceDeferred,
       EndOfQueue, NextCall, finish, Stop, Interrupt, sceneq, decide
  <1>10. CASE UNCHANGED vars
    BY <1>10 DEF vars, sceneq, decide
  <1> QED BY <1>2, <1>3, <1>4, <1>5, <1>6, <1>7, <1>9, <1>10
          DEF Next, Server, Execute, WorkerExit

LEMMA PhaseUpToDate ==
  ASSUME phase \in {"sqcheck", "task", "tail"} => ~holdoff_need_update, [Next]_vars,
         phase' \in {"sqcheck", "task", "tail"}
  PROVE  ~holdoff_need_update'
  <1>1. \/ update_holdofftasks \/ CheckSceneQueue \/ TaskNone
        \/ \E t \in Tasks : TaskStart(t)
        \/ UNCHANGED vars
    BY DEF Next, Server, Execute, WorkerExit, SceneExit, TaskExit, SceneUnneeded, SceneHardDefer,
       SceneUnavailable, SceneStart, TaskForbidden, task_skip, ReadDone, DrainDone, SceneNone,
       TailRead, ForceDeferred, EndOfQueue, NextCall, finish, Stop, Interrupt
  <1>2. CASE update_holdofftasks
    BY <1>2 DEF update_holdofftasks
  <1>3. CASE \/ CheckSceneQueue \/ TaskNone \/ \E t \in Tasks : TaskStart(t)
    BY <1>3 DEF CheckSceneQueue, TaskNone, TaskStart, SearchTask, sceneq, decide
  <1>4. CASE UNCHANGED vars
    BY <1>4 DEF vars, sceneq, decide
  <1> QED BY <1>1, <1>2, <1>3, <1>4

LEMMA StepUpToDate == UpToDate /\ [Next]_vars => UpToDate'
  <1> SUFFICES ASSUME UpToDate, [Next]_vars PROVE UpToDate'
    OBVIOUS
  <1>1. ASSUME ~holdoff_need_update'
        PROVE  tasks_covered' = Covered' /\ tasks_notcovered' = NotCovered'
    <2>1. Covered' = Covered /\ NotCovered' = NotCovered
      BY <1>1, DecidedMarked DEF Covered, NotCovered
    <2>2. CASE update_holdofftasks
      BY <2>1, <2>2 DEF update_holdofftasks, UpToDate, cover
    <2>3. CASE ~update_holdofftasks
      <3>1. UNCHANGED <<tasks_covered, tasks_notcovered>>
        BY <2>3, CoverUnchanged DEF cover
      <3>2. ~holdoff_need_update
        BY <1>1, <2>3, NeedStays
      <3> QED BY <2>1, <3>1, <3>2 DEF UpToDate
    <2> QED BY <2>2, <2>3
  <1>2. (phase \in {"sqcheck", "task", "tail"} => ~holdoff_need_update)'
    BY PhaseUpToDate DEF UpToDate
  <1> QED BY <1>1, <1>2 DEF UpToDate

\* A covered setscene task was stamped, has unpacked its output, or was not
\* needed when it was skipped.
LEMMA NewlyCovered ==
  ASSUME [Next]_vars
  PROVE  /\ UNCHANGED stamped
         /\ restored \subseteq restored' /\ runq_tasksrun \subseteq runq_tasksrun'
         /\ scenequeue_covered \subseteq scenequeue_covered'
         /\ scenequeue_notcovered \subseteq scenequeue_notcovered'
         /\ \A d \in scenequeue_covered' \ scenequeue_covered :
              d \in stamped \cup restored' \/ MayBeUnneeded(d)
  <1>1. CASE UNCHANGED <<stamped, restored, runq_tasksrun, scenequeue_covered,
                         scenequeue_notcovered>>
    BY <1>1
  <1>2. ASSUME NEW t \in Tasks, ReleaseDeferred(t)
        PROVE  /\ UNCHANGED scenequeue_notcovered
               /\ scenequeue_covered \subseteq scenequeue_covered'
               /\ scenequeue_covered' \subseteq scenequeue_covered \cup stamped
    <2>1. CASE UNCHANGED decide
      BY <2>1 DEF decide
    <2>2. CASE \E f \in DOMAIN sq_deferred : f \in stamped /\ sq_task_skip(f)
      BY <2>2 DEF sq_task_skip
    <2> QED BY <1>2, <2>1, <2>2 DEF ReleaseDeferred
  <1>3. CASE \E t \in Tasks : SceneExit(t)
    BY <1>3 DEF SceneExit, sq_task_failoutright, build, runq
  <1>4. CASE \E t \in Tasks : TaskExit(t)
    <2>1. PICK t \in Tasks : TaskExit(t)
      BY <1>4
    <2>2. CASE task_completeoutright(t, runq_buildable) /\ runq_tasksrun' = runq_tasksrun \cup {t}
      BY <1>2, <2>1, <2>2 DEF TaskExit, task_completeoutright, build
    <2>3. CASE UNCHANGED <<runq_tasksrun, decide>>
      BY <2>1, <2>3 DEF TaskExit, build, decide
    <2> QED BY <2>1, <2>2, <2>3 DEF TaskExit
  <1>5. CASE \E t \in Tasks : task_skip(t)
    BY <1>2, <1>5 DEF task_skip, task_completeoutright, build
  <1>6. CASE \E t \in Tasks : SceneUnneeded(t)
    BY <1>6 DEF SceneUnneeded, sq_task_skip, build, runq
  <1>7. CASE \E t \in Tasks : SceneUnavailable(t)
    BY <1>7 DEF SceneUnavailable, sq_task_failoutright, build, runq
  <1>8. CASE \E t \in Tasks : SceneStart(t) \/ SceneHardDefer(t)
    BY <1>8 DEF SceneStart, SceneHardDefer, build, runq
  <1>9. CASE \E t \in Tasks : TaskStart(t) \/ TaskForbidden(t)
    BY <1>9 DEF TaskStart, TaskForbidden, sceneq, decide, build
  <1>10. CASE \/ ReadDone \/ DrainDone \/ SceneNone \/ CheckSceneQueue \/ TaskNone \/ TailRead
              \/ ForceDeferred \/ EndOfQueue \/ NextCall \/ finish \/ Stop \/ Interrupt
              \/ update_holdofftasks
    BY <1>10 DEF ReadDone, DrainDone, SceneNone, CheckSceneQueue, TaskNone, TailRead,
       ForceDeferred, EndOfQueue, NextCall, finish, Stop, Interrupt, update_holdofftasks,
       sceneq, decide, build, runq
  <1>11. CASE UNCHANGED vars
    BY <1>11 DEF vars, sceneq, decide, build, runq
  <1> QED BY <1>3, <1>4, <1>5, <1>6, <1>7, <1>8, <1>9, <1>10, <1>11
          DEF Next, Server, Execute, WorkerExit

\* A completed task was run or has a stamp, or is skipped now as covered.
LEMMA NewlyComplete ==
  ASSUME [Next]_vars
  PROVE  \A d \in runq_complete' \ runq_complete :
           d \in runq_tasksrun' \/ (task_skip(d) /\ d \in tasks_covered)
  <1>1. CASE \E t \in Tasks : TaskExit(t)
    BY <1>1 DEF TaskExit, task_completeoutright
  <1>2. CASE \E t \in Tasks : task_skip(t)
    BY <1>2 DEF task_skip, task_completeoutright
  <1>3. CASE UNCHANGED runq_complete
    BY <1>3
  <1>4. CASE \E t \in Tasks : TaskStart(t)
    BY <1>3, <1>4 DEF TaskStart
  <1>5. CASE update_holdofftasks \/ UNCHANGED vars
    BY <1>3, <1>5 DEF update_holdofftasks, vars, runq
  <1> QED BY <1>1, <1>2, <1>3, <1>4, <1>5, RunUnchanged

LEMMA StepUnneeded ==
  ASSUME Unneeded, [Next]_vars
  PROVE  Unneeded'
  <1> SUFFICES ASSUME NEW d \in scenequeue_covered', d \notin stamped' \cup restored'
               PROVE  d \notin unskippable /\ sq_revdeps[d] \subseteq scenequeue_covered'
    BY DEF Unneeded
  <1>1. CASE d \in scenequeue_covered
    BY <1>1, NewlyCovered DEF Unneeded
  <1>2. CASE d \notin scenequeue_covered
    BY <1>2, NewlyCovered DEF MayBeUnneeded
  <1> QED BY <1>1, <1>2

HoldsOff == phase = "task" /\ tasks_covered # {} => Held \subseteq holdoff_tasks

\* What is skipped as covered has only covered tasks above: those that are not
\* decided hold it off, and it would be below one that is not covered.
LEMMA SkipCovered ==
  ASSUME TypeOK, HoldsOff, Needs, NEW d \in Tasks, task_skip(d), d \in tasks_covered
  PROVE  \/ d \in scenequeue_covered
         \/ /\ d \notin Setscene \cup unskippable
            /\ \A s \in Setscene : d \in sq_covered_tasks[s] => s \in scenequeue_covered
  <1>1. d \notin runq_complete /\ d \notin holdoff_tasks /\ phase = "task"
    BY DEF task_skip, SearchTask, Candidates, Needs
  <1>2. d \in Covered
    BY <1>1 DEF Needs, UpToDate
  <1>3. d \notin MustRun
    BY <1>2 DEF Covered, NotCovered, MustRun
  <1>4. d \notin Held
    BY <1>1 DEF HoldsOff
  <1>5. CASE d \in Setscene
    BY <1>2, <1>5 DEF Covered, TypeOK, sq_covered_tasks
  <1>6. CASE d \notin Setscene
    <2>1. d \notin unskippable
      BY <1>3, <1>6 DEF MustRun
    <2>2. ASSUME NEW s \in Setscene, d \in sq_covered_tasks[s] PROVE s \in scenequeue_covered
      <3>1. s \in Decided
        BY <1>1, <1>4, <2>2 DEF Held
      <3>2. s \notin scenequeue_notcovered
        BY <1>3, <2>2 DEF MustRun
      <3> QED BY <3>1, <3>2 DEF Decided
    <2> QED BY <1>6, <2>1, <2>2
  <1> QED BY <1>5, <1>6

LEMMA StepSkipped ==
  ASSUME TypeOK, HoldsOff, Needs, [Next]_vars
  PROVE  Skipped'
  <1> SUFFICES ASSUME NEW d \in runq_complete', d \notin runq_tasksrun'
               PROVE  \/ d \in scenequeue_covered'
                      \/ /\ d \notin Setscene \cup unskippable
                         /\ \A s \in Setscene :
                              d \in sq_covered_tasks[s] => s \in scenequeue_covered'
    BY DEF Skipped
  <1>1. runq_tasksrun \subseteq runq_tasksrun'
    BY NewlyCovered
  <1>2. scenequeue_covered \subseteq scenequeue_covered'
    BY NewlyCovered
  <1>3. CASE d \in runq_complete
    BY <1>1, <1>2, <1>3 DEF Needs, Skipped
  <1>4. CASE d \notin runq_complete
    <2>1. task_skip(d) /\ d \in tasks_covered /\ d \in Tasks
      BY <1>1, <1>4, NewlyComplete DEF TypeOK
    <2> QED BY <1>2, <2>1, SkipCovered
  <1> QED BY <1>3, <1>4

LEMMA StepComplete ==
  ASSUME runq_complete \subseteq runq_running, [Next]_vars
  PROVE  (runq_complete \subseteq runq_running)'
  <1>1. CASE \E t \in Tasks : TaskExit(t)
    BY <1>1 DEF TaskExit, task_completeoutright, Executing
  <1>2. CASE \E t \in Tasks : task_skip(t)
    BY <1>2 DEF task_skip, task_completeoutright
  <1>3. CASE \E t \in Tasks : TaskStart(t)
    BY <1>3 DEF TaskStart
  <1>4. CASE UNCHANGED <<runq_running, runq_complete>>
    BY <1>4
  <1>5. CASE update_holdofftasks \/ UNCHANGED vars
    BY <1>5 DEF update_holdofftasks, vars, runq
  <1> QED BY <1>1, <1>2, <1>3, <1>4, <1>5, RunUnchanged

LEMMA StepNeeds ==
  ASSUME TypeOK, HoldsOff, Needs, [Next]_vars
  PROVE  Needs'
  <1>1. Unneeded' /\ Skipped' /\ UpToDate'
    BY StepUnneeded, StepSkipped, StepUpToDate DEF Needs
  <1>2. (runq_complete \subseteq runq_running)'
    BY StepComplete DEF Needs
  <1>3. MustRun \subseteq MustRun'
    BY NewlyCovered DEF MustRun
  <1>4. ASSUME NEW t \in Tasks, TaskStart(t) PROVE t \in MustRun
    <2>1. t \in tasks_notcovered /\ phase = "task"
      BY <1>4 DEF TaskStart, SearchTask, Candidates
    <2> QED BY <2>1 DEF Needs, UpToDate, NotCovered, MustRun
  <1>5. (Executing \subseteq MustRun)'
    BY <1>3, <1>4, ExecutingShrinks, StartExecuting DEF Needs
  <1> QED BY <1>1, <1>2, <1>5 DEF Needs

\* What a task depends on was made before it runs: no task is skipped as
\* covered that one not covered depends on, and no setscene task is skipped as
\* unneeded that one that runs depends on.  Setscene tasks find their hard
\* dependencies unpacked, if these are dependencies in the graph as well.
\* (runqueue.py:2113-2228, 2319-2357)
THEOREM InputsAreMade ==
  Spec => [](/\ \A t \in Executing : Depends[t] \subseteq Made
             /\ HardDepsAreDeps => InputsPresent)
  <1> DEFINE I == TypeOK /\ Ready /\ Decisions /\ Holding /\ Needs
  <1>1. Init => I
    BY InitType, InitReady, InitDecisions, InitHolding, InitNeeds
  <1>2. I /\ [Next]_vars => I'
    <2>1. Holding => HoldsOff
      BY DEF Holding, HoldsOff
    <2> QED BY <2>1, StepType, StepReady, StepDecisions, StepHolding, StepNeeds
  <1>3. I => /\ \A t \in Executing : Depends[t] \subseteq Made
             /\ HardDepsAreDeps => InputsPresent
    BY NeedsMade, HardDepsMade DEF InputsPresent, Decisions
  <1> QED BY <1>1, <1>2, <1>3, PTL DEF Spec

-----------------------------------------------------------------------------
(* The graphs *)

\* QueueAssumption gives every set of tasks one that no other depends on; as
\* there are finitely many, there is also one that depends on no other.
LEMMA FirstTask ==
  ASSUME NEW S \in SUBSET Tasks, S # {}
  PROVE  \E t \in S : Depends[t] \cap S = {}
  <1> DEFINE Endless(X) == X # {} /\ \A x \in X : Depends[x] \cap X # {}
             Loops == {X \in SUBSET S : Endless(X)}
             R == StrictSubsetOrdering(S)
  <1> SUFFICES ASSUME Endless(S) PROVE FALSE
    OBVIOUS
  <1>1. \A X \in SUBSET S : IsFiniteSet(X)
    BY GraphAssumption, FS_Subset
  <1>2. Loops \subseteq FiniteSubsetsOf(S) /\ Loops # {}
    BY <1>1 DEF FiniteSubsetsOf
  <1>3. IsWellFoundedOn(R, FiniteSubsetsOf(S))
    BY FS_StrictSubsetOrderingWellFounded
  <1>4. \E X \in Loops : \A Y \in Loops : <<Y, X>> \notin R
    <2> HIDE DEF Loops, R
    <2> QED BY <1>2, <1>3, WFMin
  <1>5. PICK X \in Loops : \A Y \in Loops : <<Y, X>> \notin R
    BY <1>4
  <1>6. PICK t \in X : \A r \in X : t \notin Depends[r]
    BY <1>5, QueueAssumption
  <1>7. X \ {t} \in Loops
    BY <1>5, <1>6
  <1>8. <<X \ {t}, X>> \in R
    BY <1>5, <1>6 DEF StrictSubsetOrdering
  <1> QED BY <1>5, <1>7, <1>8

\* Nor can setscene tasks need one another in a loop of the collapsed graph.
LEMMA LastScene ==
  ASSUME NEW U \in SUBSET Setscene, U # {}
  PROVE  \E u \in U : sq_revdeps[u] \cap U = {}
  <1> DEFINE S == U \cup UNION {sq_covered_tasks[u] : u \in U}
  <1>1. S \in SUBSET Tasks /\ S # {}
    BY GraphType
  <1>2. PICK t \in S : \A r \in S : t \notin Depends[r]
    BY <1>1, QueueAssumption
  <1>3. ASSUME NEW r \in U PROVE t \notin Below[r]
    <2> DEFINE X == Below[r] \ {t}
    <2>1. X \in SUBSET Tasks /\ Depends[r] \subseteq X
      BY <1>2, BelowFacts
    <2>2. ClosedDown(X)
      <3> SUFFICES ASSUME NEW x \in X \ Setscene PROVE Depends[x] \subseteq X
        BY DEF ClosedDown
      <3>1. x \in S
        BY DEF sq_covered_tasks
      <3> QED BY <1>2, <3>1, BelowFacts
    <2>3. DownFrom(Depends[r]) \subseteq X
      BY <2>1, <2>2 DEF DownFrom
    <2> QED BY <2>3 DEF Below
  <1>4. t \in U
    BY <1>3 DEF sq_covered_tasks
  <1>5. sq_revdeps[t] \cap U = {}
    BY <1>3, <1>4 DEF sq_revdeps
  <1> QED BY <1>4, <1>5

LEMMA UpFacts ==
  ASSUME NEW S \in SUBSET Tasks
  PROVE  S \subseteq UpClosure(S) /\ UpClosure(S) \subseteq Tasks /\ ClosedUp(UpClosure(S))
  BY DEF UpClosure, ClosedUp

\* Every task is an endpoint, has a user that is no setscene task, or is below
\* one that is; so when all setscene tasks are decided all are reached.
LEMMA AllReached ==
  ASSUME NEW X \in SUBSET Tasks, ClosedUp(X), Setscene \subseteq X, unskippable \ Setscene \subseteq X
  PROVE  X = Tasks
  <1> SUFFICES ASSUME Tasks \ X # {} PROVE FALSE
    OBVIOUS
  <1>1. PICK t \in Tasks \ X : \A r \in Tasks \ X : t \notin Depends[r]
    BY QueueAssumption
  <1>2. revdeps[t] \subseteq X
    BY <1>1 DEF revdeps
  <1>3. revdeps[t] # {}
    BY <1>1, UnskippableFacts
  <1> QED BY <1>1, <1>2, <1>3 DEF ClosedUp

LEMMA AllCovered ==
  ASSUME TypeOK, Setscene \subseteq Decided
  PROVE  Tasks \subseteq MustRun \cup scenequeue_covered
                          \cup UNION {sq_covered_tasks[s] : s \in scenequeue_covered}
  <1> DEFINE X == MustRun \cup scenequeue_covered
                   \cup UNION {sq_covered_tasks[s] : s \in scenequeue_covered}
  <1> SUFFICES ASSUME Tasks \ X # {} PROVE FALSE
    OBVIOUS
  <1>1. PICK t \in Tasks \ X : \A r \in Tasks \ X : t \notin Depends[r]
    BY QueueAssumption
  <1>2. t \notin Setscene
    BY <1>1 DEF MustRun, Decided
  <1>3. revdeps[t] # {}
    BY <1>1, <1>2, UnskippableFacts DEF MustRun
  <1>4. PICK r \in Tasks : t \in Depends[r]
    BY <1>1, <1>3 DEF revdeps
  <1>5. r \in X
    BY <1>1, <1>4
  <1>6. ASSUME NEW s \in Setscene, t \in Below[s] PROVE FALSE
    <2>1. t \in sq_covered_tasks[s]
      BY <1>2, <1>6 DEF sq_covered_tasks
    <2> QED BY <1>1, <2>1 DEF MustRun, Decided
  <1>7. CASE r \in Setscene
    BY <1>4, <1>6, <1>7, BelowFacts
  <1>8. CASE r \in unskippable \ Setscene
    BY <1>1, <1>2, <1>4, <1>8, UnskippableFacts DEF MustRun
  <1>9. CASE \E s \in Setscene : r \in sq_covered_tasks[s]
    BY <1>4, <1>6, <1>9, BelowFacts DEF sq_covered_tasks
  <1>10. r \in Setscene \/ r \in unskippable \ Setscene
         \/ \E s \in Setscene : r \in sq_covered_tasks[s]
    BY <1>5, UnskippableFacts DEF MustRun, TypeOK, cantskip
  <1> QED BY <1>7, <1>8, <1>9, <1>10

-----------------------------------------------------------------------------
(* The setscene queue *)

\* What can be looked at next, and why what is set aside was: it waits for a
\* hard dependency that is not decided and cannot be skipped any more.  What is
\* decided has reached all that can be decided with it.
Queued ==
  /\ Decided \subseteq sq_buildable
  /\ sq_running \subseteq sq_live \cup Decided
  /\ \A s \in Setscene : sq_revdeps[s] \subseteq Decided => s \in sq_buildable
  /\ sq_needed_harddeps \subseteq sq_buildable
  /\ \A t \in sq_harddep_deferred :
       ~(HardDeps[t] \subseteq Decided) /\ HardDeps[t] \subseteq sq_needed_harddeps
  /\ (unskippable \ Setscene) \cup Decided \subseteq tasks_scenequeue_done
  /\ Setscene \subseteq Decided => ClosedUp(tasks_scenequeue_done)

LEMMA UpdateQueued ==
  ASSUME TypeOK, Queued, NEW S \in SUBSET Setscene,
         scenequeue_updatecounters(S), UNCHANGED sq_needed_harddeps,
         Decided' = Decided \cup S, sq_running' \subseteq sq_live' \cup Decided'
  PROVE  Queued'
  <1>1. Decided' = scenequeue_covered' \cup scenequeue_notcovered'
    BY DEF Decided
  <1>2. sq_buildable \cup S \subseteq sq_buildable'
    BY DEF scenequeue_updatecounters
  <1>3. ASSUME NEW s \in Setscene, sq_revdeps[s] \subseteq Decided', s \notin sq_buildable
        PROVE  s \in sq_buildable'
    <2>1. PICK r \in S : r \in sq_revdeps[s]
      BY <1>3 DEF Queued
    <2>2. s \in sq_deps[r]
      BY <2>1 DEF sq_revdeps, sq_deps
    <2> QED BY <1>1, <1>3, <2>1, <2>2 DEF scenequeue_updatecounters
  <1>4. \A t \in sq_harddep_deferred' :
          t \in sq_harddep_deferred /\ ~(HardDeps[t] \subseteq Decided')
    BY <1>1 DEF scenequeue_updatecounters
  <1>5. (unskippable \ Setscene) \cup Decided' \subseteq tasks_scenequeue_done'
        /\ ClosedUp(tasks_scenequeue_done')
    <2>1. tasks_scenequeue_done \cup S \in SUBSET Tasks
      BY GraphAssumption DEF TypeOK
    <2>2. tasks_scenequeue_done' = UpClosure(tasks_scenequeue_done \cup S)
      BY DEF scenequeue_updatecounters
    <2> QED BY <2>1, <2>2, UpFacts DEF Queued
  <1>6. Decided' \subseteq sq_buildable' /\ sq_needed_harddeps' \subseteq sq_buildable'
    BY <1>2 DEF Queued
  <1>7. \A s \in Setscene : sq_revdeps[s] \subseteq Decided' => s \in sq_buildable'
    BY <1>2, <1>3
  <1>8. \A t \in sq_harddep_deferred' : HardDeps[t] \subseteq sq_needed_harddeps'
    BY <1>4 DEF Queued
  <1> QED BY <1>4, <1>5, <1>6, <1>7, <1>8 DEF Queued, ClosedUp

LEMMA SkipQueued ==
  ASSUME TypeOK, Queued, NEW t \in Setscene, sq_task_skip(t),
         UNCHANGED <<sq_live, sq_needed_harddeps>>
  PROVE  Queued'
  <1>1. {t} \in SUBSET Setscene /\ scenequeue_updatecounters({t}) /\ Decided' = Decided \cup {t}
        /\ sq_running' = sq_running \cup {t}
    BY DEF sq_task_skip, Decided
  <1> QED BY <1>1, UpdateQueued DEF Queued

LEMMA FailQueued ==
  ASSUME TypeOK, Underway, Queued, NEW t \in Setscene, t \notin Decided, sq_task_failoutright(t),
         sq_live' = sq_live \ {t}, UNCHANGED sq_needed_harddeps
  PROVE  Queued'
  <1> DEFINE F == FailsWith(t, Decided)
  <1>1. F \in SUBSET Setscene /\ t \in F
    BY FailsType, FailsFacts
  <1>2. scenequeue_updatecounters(F) /\ Decided' = Decided \cup F /\ sq_running' = sq_running \cup F
    BY DEF sq_task_failoutright, Decided
  <1> HIDE DEF F
  <1>3. sq_running' \subseteq sq_live' \cup Decided'
    BY <1>1, <1>2 DEF Queued
  <1> QED BY <1>1, <1>2, <1>3, UpdateQueued

queued == <<sq_buildable, sq_running, sq_live, scenequeue_covered, scenequeue_notcovered,
            tasks_scenequeue_done, sq_needed_harddeps, sq_harddep_deferred>>

LEMMA ReleaseQueued ==
  ASSUME TypeOK, Queued, NEW t \in Tasks, ReleaseDeferred(t),
         UNCHANGED <<sq_live, sq_needed_harddeps>>
  PROVE  Queued'
  <1>1. CASE UNCHANGED decide
    BY <1>1 DEF Queued, Decided, decide, ClosedUp
  <1>2. CASE \E f \in DOMAIN sq_deferred : f \in stamped /\ sq_task_skip(f)
    BY <1>2, SkipQueued DEF TypeOK
  <1> QED BY <1>1, <1>2 DEF ReleaseDeferred

LEMMA QueuedUnchanged ==
  ASSUME Next, ~(\E t \in Tasks : \/ SceneExit(t) \/ TaskExit(t) \/ task_skip(t)
                                 \/ SceneUnneeded(t) \/ SceneUnavailable(t) \/ SceneStart(t)
                                 \/ SceneHardDefer(t))
  PROVE  UNCHANGED queued
  <1>1. CASE \E t \in Tasks : TaskForbidden(t) \/ TaskStart(t)
    BY <1>1 DEF TaskForbidden, TaskStart, sceneq, decide, queued
  <1>2. CASE update_holdofftasks
    BY <1>2 DEF update_holdofftasks, queued
  <1>3. CASE \/ ReadDone \/ DrainDone \/ SceneNone \/ CheckSceneQueue \/ TaskNone \/ TailRead
             \/ ForceDeferred \/ EndOfQueue \/ NextCall \/ finish \/ Stop \/ Interrupt
    BY <1>3 DEF ReadDone, DrainDone, SceneNone, CheckSceneQueue, TaskNone, TailRead, ForceDeferred,
       EndOfQueue, NextCall, finish, Stop, Interrupt, sceneq, decide, queued
  <1> QED BY <1>1, <1>2, <1>3 DEF Next, Server, Execute, WorkerExit

LEMMA InitQueued == Init => Queued
  <1> SUFFICES ASSUME Init PROVE Queued
    OBVIOUS
  <1>1. Decided = StampedScene
    BY DEF Init, Decided
  <1>2. (unskippable \ Setscene) \cup StampedScene \in SUBSET Tasks
    BY UnskippableFacts, GraphAssumption DEF StampedScene
  <1>3. (unskippable \ Setscene) \cup Decided \subseteq tasks_scenequeue_done
        /\ ClosedUp(tasks_scenequeue_done)
    BY <1>1, <1>2, UpFacts DEF Init
  <1> QED BY <1>1, <1>3 DEF Init, Queued

LEMMA StepQueued == TypeOK /\ Underway /\ Queued /\ [Next]_vars => Queued'
  <1> SUFFICES ASSUME TypeOK, Underway, Queued, [Next]_vars PROVE Queued'
    OBVIOUS
  <1>1. CASE UNCHANGED queued
    BY <1>1 DEF Queued, Decided, ClosedUp, queued
  <1>2. CASE \E t \in Tasks : SceneExit(t)
    <2>1. PICK t \in Tasks : SceneExit(t)
      BY <1>2
    <2>2. t \in Setscene /\ t \notin Decided /\ sq_live' = sq_live \ {t}
          /\ UNCHANGED sq_needed_harddeps
      BY <2>1 DEF SceneExit, TypeOK, Underway
    <2>3. CASE sq_task_failoutright(t)
      BY <2>2, <2>3, FailQueued
    <2>4. CASE ~sq_task_failoutright(t)
      <3>1. {t} \in SUBSET Setscene /\ scenequeue_updatecounters({t})
            /\ Decided' = Decided \cup {t} /\ sq_running' = sq_running
        BY <2>1, <2>2, <2>4 DEF SceneExit, Decided
      <3>2. sq_running' \subseteq sq_live' \cup Decided'
        BY <2>2, <3>1 DEF Queued
      <3> QED BY <2>2, <3>1, <3>2, UpdateQueued
    <2> QED BY <2>3, <2>4
  <1>3. CASE \E t \in Tasks : TaskExit(t)
    <2>1. PICK t \in Tasks : TaskExit(t)
      BY <1>3
    <2>2. CASE task_completeoutright(t, runq_buildable)
      BY <2>1, <2>2, ReleaseQueued DEF TaskExit, task_completeoutright
    <2>3. CASE ~task_completeoutright(t, runq_buildable)
      BY <1>1, <2>1, <2>3 DEF TaskExit, decide, queued
    <2> QED BY <2>2, <2>3
  <1>4. CASE \E t \in Tasks : task_skip(t)
    BY <1>4, ReleaseQueued DEF task_skip, task_completeoutright
  <1>5. CASE \E t \in Tasks : SceneUnneeded(t) \/ SceneUnavailable(t)
    <2>1. PICK t \in Tasks : SceneUnneeded(t) \/ SceneUnavailable(t)
      BY <1>5
    <2>2. t \in Setscene /\ t \notin sq_running /\ t \notin Decided /\ t \notin sq_live
          /\ UNCHANGED <<sq_live, sq_needed_harddeps>>
      BY <2>1 DEF SceneUnneeded, SceneUnavailable, SearchScene, Selectable, TypeOK, Underway
    <2>3. CASE SceneUnneeded(t)
      BY <2>2, <2>3, SkipQueued DEF SceneUnneeded
    <2>4. CASE SceneUnavailable(t)
      BY <2>2, <2>4, FailQueued DEF SceneUnavailable
    <2> QED BY <2>1, <2>3, <2>4
  <1>6. CASE \E t \in Tasks : SceneStart(t)
    BY <1>6 DEF SceneStart, Queued, Decided, ClosedUp
  <1>7. CASE \E t \in Tasks : SceneHardDefer(t)
    BY <1>7 DEF SceneHardDefer, Queued, Decided, ClosedUp
  <1>8. CASE UNCHANGED vars
    BY <1>1, <1>8 DEF vars, sceneq, decide, queued
  <1> QED BY <1>1, <1>2, <1>3, <1>4, <1>5, <1>6, <1>7, <1>8, QueuedUnchanged

\* Hard dependencies do not form a loop.
HardDepsEnd == \A S \in SUBSET Setscene : S # {} => \E t \in S : HardDeps[t] \cap S = {}

\* When nothing runs, nothing is deferred and nothing can be selected, all is
\* decided: of the tasks that were set aside one waits for no other of them.
LEMMA SceneQueueEnds ==
  ASSUME TypeOK, Underway, Queued, HardDepsEnd,
         sq_live = {}, sq_deferred = <<>>, Selectable = {}
  PROVE  Setscene \subseteq Decided
  <1> DEFINE U == Setscene \ Decided
  <1> SUFFICES ASSUME U # {} PROVE FALSE
    OBVIOUS
  <1>1. sq_buildable \cap U \subseteq sq_harddep_deferred
    BY DEF Selectable, Waits, Queued
  <1>2. PICK u \in U : sq_revdeps[u] \cap U = {}
    BY LastScene
  <1>3. u \in sq_buildable
    BY <1>2 DEF Queued, sq_revdeps
  <1> DEFINE H == sq_buildable \cap U
  <1>4. PICK t \in H : HardDeps[t] \cap H = {}
    BY <1>3 DEF HardDepsEnd
  <1>5. PICK d \in HardDeps[t] : d \notin Decided /\ d \in sq_buildable
    BY <1>1, <1>4 DEF Queued
  <1>6. d \in Setscene
    BY <1>5 DEF TypeOK
  <1> QED BY <1>4, <1>5, <1>6

-----------------------------------------------------------------------------
(* From setscene to ordinary tasks *)

Free == {t \in Covered \cup NotCovered : Depends[t] \subseteq runq_complete}

\* After update_holdofftasks every task that it lets run and that has nothing to
\* wait for is buildable; what it holds off was held when decisions were last
\* looked at.
Released ==
  /\ runq_running \subseteq runq_buildable
  /\ ~holdoff_need_update => /\ Free \subseteq runq_buildable
                             /\ Held \subseteq holdoff_tasks
                             /\ Setscene \subseteq Decided => holdoff_tasks = {}
  /\ sqdone => Setscene \subseteq Decided

\* What is complete now makes what waited for it buildable.
LEMMA CompleteFree ==
  ASSUME TypeOK, NEW t \in Tasks, NEW bld \in SUBSET Tasks, task_completeoutright(t, bld),
         runq_running' \subseteq bld, runq_buildable \subseteq bld, Free \subseteq runq_buildable,
         UNCHANGED <<scenequeue_covered, scenequeue_notcovered, tasks_scenequeue_done>>
  PROVE  Free' \subseteq runq_buildable'
  <1>1. Covered' = Covered /\ NotCovered' = NotCovered
    BY DEF Covered, NotCovered
  <1>2. Covered \cup NotCovered \subseteq Tasks
    BY DEF TypeOK, Covered, NotCovered
  <1>3. /\ runq_complete' = runq_complete \cup {t}
        /\ bld \subseteq runq_buildable'
        /\ {r \in revdeps[t] \ runq_running' : Depends[r] \subseteq runq_complete'}
             \subseteq runq_buildable'
    BY DEF task_completeoutright
  <1> SUFFICES ASSUME NEW r \in Free', r \notin runq_buildable' PROVE FALSE
    OBVIOUS
  <1>4. r \in Covered \cup NotCovered /\ Depends[r] \subseteq runq_complete'
    BY <1>1 DEF Free
  <1>5. t \in Depends[r]
    BY <1>3, <1>4 DEF Free
  <1>6. r \in revdeps[t] \ runq_running'
    BY <1>2, <1>3, <1>4, <1>5 DEF revdeps
  <1> QED BY <1>3, <1>4, <1>6

LEMMA InitReleased == Init => Released
  BY DEF Init, Released

LEMMA StepRunning ==
  ASSUME Released, [Next]_vars
  PROVE  /\ runq_running' \subseteq runq_buildable'
         /\ runq_buildable \subseteq runq_buildable'
  <1>1. CASE UNCHANGED <<runq_running, runq_buildable>>
    BY <1>1 DEF Released
  <1>2. CASE \E t \in Tasks : TaskExit(t)
    BY <1>2 DEF TaskExit, task_completeoutright, Released
  <1>3. CASE \E t \in Tasks : task_skip(t)
    BY <1>3 DEF task_skip, task_completeoutright, Released
  <1>4. CASE \E t \in Tasks : TaskStart(t)
    BY <1>4 DEF TaskStart, SearchTask, Candidates, Released
  <1>5. CASE update_holdofftasks
    BY <1>5 DEF update_holdofftasks, Released
  <1>6. CASE UNCHANGED vars
    BY <1>1, <1>6 DEF vars, runq
  <1> QED BY <1>1, <1>2, <1>3, <1>4, <1>5, <1>6, RunUnchanged

LEMMA StepFree ==
  ASSUME TypeOK, Released, [Next]_vars, ~holdoff_need_update'
  PROVE  Free' \subseteq runq_buildable'
  <1>1. UNCHANGED <<scenequeue_covered, scenequeue_notcovered, tasks_scenequeue_done>>
    BY DecidedMarked
  <1>2. Covered' = Covered /\ NotCovered' = NotCovered
    BY <1>1 DEF Covered, NotCovered
  <1>3. CASE update_holdofftasks
    <2>1. runq_complete' = runq_complete /\ Free' = Free
      BY <1>2, <1>3 DEF update_holdofftasks, Free
    <2> QED BY <1>3, <2>1 DEF update_holdofftasks, Released, Free
  <1>4. CASE ~update_holdofftasks
    <2>1. Free \subseteq runq_buildable
      BY <1>4, NeedStays DEF Released
    <2>2. CASE UNCHANGED runq_complete
      BY <1>2, <2>1, <2>2, StepRunning DEF Free
    <2>3. CASE \E t \in Tasks : TaskExit(t)
      <3>1. PICK t \in Tasks : TaskExit(t)
        BY <2>3
      <3>2. CASE task_completeoutright(t, runq_buildable)
        <4>1. runq_running' \subseteq runq_buildable /\ runq_buildable \in SUBSET Tasks
          BY <3>1 DEF TaskExit, Released, TypeOK
        <4> QED BY <1>1, <2>1, <3>2, <4>1, CompleteFree
      <3>3. CASE ~task_completeoutright(t, runq_buildable)
        BY <2>2, <3>1, <3>3 DEF TaskExit
      <3> QED BY <3>2, <3>3
    <2>4. CASE \E t \in Tasks : task_skip(t)
      <3>1. PICK t \in Tasks : task_skip(t)
        BY <2>4
      <3>2. /\ task_completeoutright(t, runq_buildable \cup {t})
            /\ runq_running' \subseteq runq_buildable \cup {t}
            /\ runq_buildable \cup {t} \in SUBSET Tasks
        BY <3>1 DEF task_skip, Released, TypeOK
      <3> QED BY <1>1, <2>1, <3>2, CompleteFree
    <2>5. CASE (\E t \in Tasks : TaskStart(t)) \/ UNCHANGED vars
      BY <2>2, <2>5 DEF TaskStart, vars, runq
    <2> QED BY <1>4, <2>2, <2>3, <2>4, <2>5, RunUnchanged
  <1> QED BY <1>3, <1>4

LEMMA StepHeld ==
  ASSUME Released, [Next]_vars, ~holdoff_need_update'
  PROVE  /\ Held' \subseteq holdoff_tasks'
         /\ Setscene \subseteq Decided' => holdoff_tasks' = {}
  <1>1. Decided' = Decided /\ Held' \subseteq Held
    BY DecidedMarked, HeldShrinks DEF Decided
  <1>2. CASE update_holdofftasks /\ holdoff_need_update
    <2>1. holdoff_tasks' = Held
      BY <1>2 DEF update_holdofftasks
    <2> QED BY <1>1, <2>1 DEF Held
  <1>3. CASE ~(update_holdofftasks /\ holdoff_need_update)
    <2>1. holdoff_tasks' = holdoff_tasks /\ ~holdoff_need_update
      BY <1>3, CoverUnchanged, NeedStays DEF update_holdofftasks, cover
    <2> QED BY <1>1, <2>1 DEF Released
  <1> QED BY <1>2, <1>3

LEMMA SqdoneUnchanged ==
  ASSUME [Next]_vars, ~CheckSceneQueue
  PROVE  UNCHANGED sqdone
  <1>1. CASE \E t \in Tasks : SceneExit(t) \/ TaskExit(t) \/ task_skip(t)
    BY <1>1 DEF SceneExit, TaskExit, task_skip
  <1>2. CASE \E t \in Tasks : SceneUnneeded(t) \/ SceneHardDefer(t) \/ SceneUnavailable(t)
                             \/ SceneStart(t)
    BY <1>2 DEF SceneUnneeded, SceneHardDefer, SceneUnavailable, SceneStart
  <1>3. CASE \E t \in Tasks : TaskForbidden(t) \/ TaskStart(t)
    BY <1>3 DEF TaskForbidden, TaskStart, sceneq
  <1>4. CASE \/ ReadDone \/ DrainDone \/ SceneNone \/ update_holdofftasks \/ TaskNone \/ TailRead
             \/ ForceDeferred \/ EndOfQueue \/ NextCall \/ finish \/ Stop \/ Interrupt
    BY <1>4 DEF ReadDone, DrainDone, SceneNone, update_holdofftasks, TaskNone, TailRead,
       ForceDeferred, EndOfQueue, NextCall, finish, Stop, Interrupt, sceneq
  <1>5. CASE UNCHANGED vars
    BY <1>5 DEF vars, sceneq
  <1> QED BY <1>1, <1>2, <1>3, <1>4, <1>5 DEF Next, Server, Execute, WorkerExit

LEMMA StepReleased == TypeOK /\ Released /\ [Next]_vars => Released'
  <1> SUFFICES ASSUME TypeOK, Released, [Next]_vars PROVE Released'
    OBVIOUS
  <1>1. sqdone' => Setscene \subseteq Decided'
    <2>1. CASE CheckSceneQueue
      <3>1. sqdone' => sqdone \/ Setscene \subseteq Decided
        BY <2>1 DEF CheckSceneQueue, summarise_scenequeue_errors
      <3> QED BY <3>1, NothingUndone DEF Released
    <2>2. CASE ~CheckSceneQueue
      BY <2>2, SqdoneUnchanged, NothingUndone DEF Released
    <2> QED BY <2>1, <2>2
  <1> QED BY <1>1, StepRunning, StepFree, StepHeld DEF Released

\* When nothing is held off any more and the decisions were looked at, the
\* sanity checks of summarise_scenequeue_errors find nothing to say.
LEMMA NoSceneErrors ==
  ASSUME TypeOK, Underway, Queued, Released, UpToDate,
         ~holdoff_need_update, sq_deferred = <<>>, holdoff_tasks = {}
  PROVE  /\ ~summarise_scenequeue_errors
         /\ Setscene \subseteq Decided
         /\ Tasks \subseteq tasks_covered \cup tasks_notcovered
         /\ Free = {t \in Tasks : Depends[t] \subseteq runq_complete}
  <1>1. Setscene \subseteq Decided
    BY DEF Released, Held
  <1>2. tasks_scenequeue_done = Tasks
    <2>1. Setscene \subseteq tasks_scenequeue_done /\ unskippable \ Setscene \subseteq tasks_scenequeue_done
      BY <1>1 DEF Queued
    <2> QED BY <1>1, <2>1, AllReached DEF Queued, TypeOK
  <1>3. Tasks \subseteq Covered \cup NotCovered /\ Covered \cup NotCovered \subseteq Tasks
    BY <1>1, <1>2, AllCovered DEF Covered, NotCovered, MustRun
  <1>4. Tasks \subseteq tasks_covered \cup tasks_notcovered
    BY <1>3 DEF UpToDate
  <1>5. Free = {t \in Tasks : Depends[t] \subseteq runq_complete}
    BY <1>3 DEF Free
  <1>6. \A t \in Tasks : Depends[t] = {} => t \in runq_buildable
    BY <1>5 DEF Released
  <1>7. Setscene \subseteq Decided \cap sq_buildable \cap sq_running
    BY <1>1 DEF Queued, Underway
  <1> QED BY <1>1, <1>2, <1>4, <1>5, <1>6, <1>7 DEF summarise_scenequeue_errors

-----------------------------------------------------------------------------
(* Nothing is left over when the queue ends *)

LEMMA StepCounted ==
  ASSUME Forbidden = {}, TypeOK, SlotBound, Counted, [Next]_vars
  PROVE  (SlotBound /\ Counted)'
  <1>1. ~(\E t \in Tasks : TaskForbidden(t))
    BY DEF TaskForbidden
  <1> QED BY <1>1, ExitSlots, StartSlots, SceneStartSlots, SceneExitSlots, OtherSlots

LEMMA NothingRuns ==
  ASSUME TypeOK, Counted, active + Cardinality(sq_live) <= 0
  PROVE  Executing = {} /\ sq_live = {} /\ active = 0
  <1>1. Cardinality(Executing) \in Nat /\ Cardinality(sq_live) \in Nat
    BY FiniteTypes
  <1>2. Cardinality(Executing) = 0 /\ Cardinality(sq_live) = 0 /\ active = 0
    BY <1>1 DEF Counted
  <1> QED BY <1>2, FiniteTypes, FS_EmptySet

LEMMA NothingActiveRuns ==
  ASSUME TypeOK, Counted, NothingActive
  PROVE  Executing = {} /\ sq_live = {} /\ active = 0 /\ can_start_task(sq_live, active)
  <1>1. Cardinality(sq_live) = 0
    BY FS_EmptySet DEF NothingActive
  <1>2. Executing = {} /\ sq_live = {} /\ active = 0
    BY <1>1, NothingRuns DEF NothingActive, TypeOK
  <1> QED BY <1>1, <1>2, RunAssumption DEF can_start_task

\* With nothing active the searches of a call stop only when they found nothing.
Searched ==
  /\ phase \in {"holdoff", "sqcheck", "task", "tail"} /\ NothingActive =>
       sqdone \/ Selectable = {}
  /\ phase = "tail" /\ NothingActive => Candidates = {}

LEMMA InitSearched == Init => Searched
  BY DEF Init, Searched

\* The steps to a phase after the search for a setscene task
LEMMA AfterSearch ==
  ASSUME [Next]_vars, phase' \in {"holdoff", "sqcheck", "task", "tail"}
  PROVE  \/ SceneNone \/ update_holdofftasks \/ CheckSceneQueue \/ TaskNone
         \/ \E t \in Tasks : SceneStart(t) \/ TaskStart(t)
         \/ UNCHANGED vars
  BY DEF Next, Server, Execute, WorkerExit, SceneExit, TaskExit, SceneUnneeded, SceneHardDefer,
     SceneUnavailable, TaskForbidden, task_skip, ReadDone, DrainDone,
     TailRead, ForceDeferred, EndOfQueue, NextCall, finish, Stop, Interrupt

LEMMA StepSearched ==
  ASSUME TypeOK, Counted, Counted', TypeOK', Searched, [Next]_vars
  PROVE  Searched'
  <1> SUFFICES ASSUME phase' \in {"holdoff", "sqcheck", "task", "tail"}, NothingActive'
               PROVE  /\ (sqdone \/ Selectable = {})'
                      /\ phase' = "tail" => Candidates' = {}
    BY DEF Searched
  <1>1. CASE SceneNone
    <2>1. NothingActive /\ UNCHANGED <<sqdone, Selectable>>
      BY <1>1 DEF SceneNone, NothingActive, runq, sceneq, decide, defer, Selectable, Waits
    <2> QED BY <1>1, <2>1, NothingActiveRuns DEF SceneNone
  <1>2. CASE update_holdofftasks
    BY <1>2 DEF update_holdofftasks, Searched, NothingActive, defer, Selectable, Waits
  <1>3. CASE CheckSceneQueue
    BY <1>3 DEF CheckSceneQueue, Searched, NothingActive, runq, decide, defer, Selectable, Waits
  <1>4. CASE TaskNone
    <2>1. NothingActive /\ UNCHANGED <<sqdone, Selectable, Candidates>>
      BY <1>4 DEF TaskNone, NothingActive, runq, sceneq, decide, defer, cover, Selectable, Waits,
         Candidates, skip_buildable
    <2>2. Candidates = {}
      BY <1>4, <2>1, NothingActiveRuns DEF TaskNone
    <2> QED BY <1>4, <2>1, <2>2 DEF TaskNone, Searched
  <1>5. CASE \E t \in Tasks : SceneStart(t)
    BY <1>5 DEF SceneStart, NothingActive
  <1>6. CASE \E t \in Tasks : TaskStart(t)
    <2>1. active \in Nat /\ active' = active + 1
      BY <1>6, FiniteTypes DEF TaskStart, Counted
    <2> QED BY <2>1 DEF NothingActive
  <1>7. CASE UNCHANGED vars
    BY <1>7 DEF vars, Searched, NothingActive, runq, sceneq, decide, defer, cover, Selectable,
       Waits, Candidates, skip_buildable
  <1> QED BY <1>1, <1>2, <1>3, <1>4, <1>5, <1>6, <1>7, AfterSearch

\* A task that could run and did not is one of a name whose number_threads is
\* used up by failed tasks.
Stuck == \A t \in Tasks \ runq_complete : t \in failed_tids \/ ~(Depends[t] \subseteq runq_complete)

FlagIsFree == Cardinality(failed_tids \cap Limited) < LimitedTo

LEMMA QueueEnds ==
  ASSUME TypeOK, Underway, Queued, Released, UpToDate, Counted, Searched, HardDepsEnd,
         EndOfQueue
  PROVE  /\ ~summarise_scenequeue_errors
         /\ FlagIsFree => Stuck
         /\ failed_tids = {} => NeverRan = {}
  <1>1. phase = "tail" /\ NothingActive /\ sq_deferred = <<>> /\ ~holdoff_need_update
    BY DEF EndOfQueue, UpToDate
  <1>2. Executing = {} /\ sq_live = {} /\ Candidates = {}
    BY <1>1, NothingActiveRuns DEF Searched
  <1>3. Setscene \subseteq Decided
    BY <1>1, <1>2, SceneQueueEnds DEF Searched, Released
  <1>4. holdoff_tasks = {}
    BY <1>1, <1>3 DEF Released
  <1>5. /\ ~summarise_scenequeue_errors
        /\ Tasks \subseteq tasks_covered \cup tasks_notcovered
        /\ {t \in Tasks : Depends[t] \subseteq runq_complete} \subseteq runq_buildable
    BY <1>1, <1>4, NoSceneErrors DEF Released
  <1>6. runq_running \ runq_complete \subseteq failed_tids
    BY <1>2 DEF Executing
  <1>7. runq_complete \subseteq runq_running /\ runq_running \subseteq runq_buildable
    BY DEF Counted, Released
  <1>8. FlagIsFree => Stuck
    <2> SUFFICES ASSUME FlagIsFree, NEW t \in Tasks \ runq_complete, t \notin failed_tids,
                        Depends[t] \subseteq runq_complete
                 PROVE  FALSE
      BY DEF Stuck
    <2>1. t \in runq_buildable \ runq_running
      BY <1>5, <1>6
    <2>2. (runq_running \ runq_complete) \cap Limited \subseteq failed_tids \cap Limited
      BY <1>6
    <2>3. IsFiniteSet(failed_tids \cap Limited)
      BY GraphAssumption, FS_Subset DEF TypeOK
    <2>4. /\ Cardinality((runq_running \ runq_complete) \cap Limited) \in Nat
          /\ Cardinality((runq_running \ runq_complete) \cap Limited)
               <= Cardinality(failed_tids \cap Limited)
          /\ Cardinality(failed_tids \cap Limited) \in Nat
      BY <2>2, <2>3, FS_Subset, FS_CardinalityType
    <2>5. skip_buildable = {}
      BY <2>4, RunAssumption DEF skip_buildable, FlagIsFree
    <2> QED BY <1>2, <1>4, <1>5, <2>1, <2>5 DEF Candidates
  <1>9. failed_tids = {} => NeverRan = {}
    <2> SUFFICES ASSUME failed_tids = {}, NeverRan # {} PROVE FALSE
      OBVIOUS
    <2>1. FlagIsFree
      <3>1. failed_tids \cap Limited = {}
        OBVIOUS
      <3> QED BY <3>1, FS_EmptySet, RunAssumption DEF FlagIsFree
    <2>2. NeverRan = Tasks \ runq_complete
      BY <1>7 DEF NeverRan
    <2>3. PICK t \in Tasks \ runq_complete : Depends[t] \cap (Tasks \ runq_complete) = {}
      BY <2>2, FirstTask
    <2>4. Depends[t] \subseteq runq_complete
      BY <2>3, GraphAssumption
    <2> QED BY <1>8, <2>1, <2>3, <2>4 DEF Stuck
  <1> QED BY <1>5, <1>8, <1>9

-----------------------------------------------------------------------------
(* The end *)

Ended == state \in {"Failed", "Complete"}

\* Nothing runs at the end, and the result is honest.
Ends ==
  /\ Ended => phase \in {"return", "stopped"}
  /\ phase = "stopped" => Ended
  /\ state = "CleanUp" /\ interrupted = "no" => failed_tids # {} /\ halt
  /\ Ended /\ interrupted # "force" => Busy = {}
  /\ state = "Failed" /\ HardDepsEnd => failed_tids # {}
  /\ state = "Complete" /\ interrupted = "no" => failed_tids = {} /\ runq_complete = Tasks
  /\ Ended /\ interrupted = "no" /\ ~halt /\ HardDepsEnd /\ FlagIsFree => Stuck

LEMMA InitEnds == Init => Ends
  BY DEF Init, Ends, Ended

\* A build that has ended does nothing more.
LEMMA EndedStays ==
  ASSUME Ended, phase \in {"return", "stopped"}, [Next]_vars
  PROVE  Stop \/ UNCHANGED vars
  BY DEF Ended, Next, Server, Execute, WorkerExit, SceneExit, TaskExit, SceneUnneeded,
     SceneHardDefer, SceneUnavailable, SceneStart, SearchScene, TaskForbidden, task_skip, TaskStart,
     SearchTask, ReadDone, DrainDone, SceneNone, update_holdofftasks, CheckSceneQueue, TaskNone,
     TailRead, ForceDeferred, EndOfQueue, NextCall, finish, Interrupt

\* What a step does to the state of the build; only the fourth end it.
LEMMA StateSteps ==
  ASSUME Forbidden = {}, [Next]_vars
  PROVE  \/ UNCHANGED <<state, interrupted>> /\ failed_tids \subseteq failed_tids'
            /\ (phase' = "stopped" => phase = "stopped" \/ Stop)
         \/ /\ state' = "CleanUp" /\ halt /\ failed_tids' # {} /\ UNCHANGED interrupted
            /\ phase' # "stopped"
         \/ Interrupt
         \/ EndOfQueue \/ finish \/ CheckSceneQueue
  <1>1. CASE \E t \in Tasks : SceneExit(t)
    BY <1>1 DEF SceneExit, runq
  <1>2. CASE \E t \in Tasks : TaskExit(t)
    BY <1>2 DEF TaskExit, task_fail
  <1>3. CASE \E t \in Tasks : SceneUnneeded(t) \/ SceneHardDefer(t) \/ SceneUnavailable(t)
                             \/ SceneStart(t)
    BY <1>3 DEF SceneUnneeded, SceneHardDefer, SceneUnavailable, SceneStart, SearchScene, runq
  <1>4. CASE \E t \in Tasks : TaskForbidden(t) \/ task_skip(t) \/ TaskStart(t)
    BY <1>4 DEF TaskForbidden, task_skip, TaskStart
  <1>5. CASE \/ ReadDone \/ DrainDone \/ SceneNone \/ update_holdofftasks \/ TaskNone \/ TailRead
             \/ ForceDeferred \/ NextCall \/ Stop
    BY <1>5 DEF ReadDone, DrainDone, SceneNone, update_holdofftasks, TaskNone, TailRead,
       ForceDeferred, NextCall, Stop, runq
  <1>6. CASE UNCHANGED vars
    BY <1>6 DEF vars, runq
  <1> QED BY <1>1, <1>2, <1>3, <1>4, <1>5, <1>6 DEF Next, Server, Execute, WorkerExit

LEMMA StopEnds ==
  ASSUME Ends, Stop \/ UNCHANGED vars
  PROVE  Ends'
  <1>1. UNCHANGED <<state, interrupted, halt, failed_tids, runq_running, runq_complete, sq_live>>
        /\ (phase' = phase \/ (Ended /\ phase' = "stopped"))
    BY DEF Stop, Ended, vars, runq, sceneq, build
  <1> QED BY <1>1 DEF Ends, Ended, Busy, Executing, FlagIsFree, Stuck

\* EndOfQueue, finish and a forced stop end the build.
LEMMA FinalEnds ==
  ASSUME TypeOK, Underway, Queued, Released, UpToDate, Counted, Searched, Ends, ~Ended,
         EndOfQueue \/ finish \/ Interrupt
  PROVE  Ends'
  <1>1. UNCHANGED <<failed_tids, runq_running, runq_complete, sq_live, halt>>
    BY DEF EndOfQueue, finish, Interrupt, runq, sceneq, build
  <1>2. UNCHANGED <<Busy, FlagIsFree, Stuck>>
    BY <1>1 DEF Busy, Executing, FlagIsFree, Stuck
  <1>3. CASE EndOfQueue
    <2>1. /\ phase = "tail" /\ NothingActive /\ phase' = "return" /\ interrupted' = interrupted
          /\ state' \in {"Failed", "Complete"}
          /\ state' = "Failed" <=> failed_tids # {} \/ summarise_scenequeue_errors \/ NeverRan # {}
      BY <1>3 DEF EndOfQueue
    <2>2. Busy = {}
      BY <2>1, NothingActiveRuns DEF Busy
    <2>3. NeverRan = {} => runq_complete = Tasks
      BY DEF NeverRan, TypeOK
    <2>4. HardDepsEnd => /\ ~summarise_scenequeue_errors
                         /\ FlagIsFree => Stuck
                         /\ failed_tids = {} => NeverRan = {}
      BY <1>3, QueueEnds
    <2> QED BY <1>1, <1>2, <2>1, <2>2, <2>3, <2>4 DEF Ends, Ended
  <1>4. CASE finish
    <2>1. CASE UNCHANGED state
      BY <1>1, <1>4, <2>1 DEF finish, Ends, Ended
    <2>2. CASE ~UNCHANGED state
      <3>1. /\ phase' = "return" /\ interrupted' = interrupted /\ state = "CleanUp"
            /\ active + Cardinality(sq_live) <= 0 /\ state' = Result
        BY <1>4, <2>2 DEF finish
      <3>2. Busy = {}
        BY <3>1, NothingRuns DEF Busy
      <3> QED BY <1>1, <1>2, <3>1, <3>2 DEF Ends, Ended, Result
    <2> QED BY <2>1, <2>2
  <1>5. CASE Interrupt
    BY <1>1, <1>2, <1>5 DEF Interrupt, Ends, Ended, Result
  <1> QED BY <1>3, <1>4, <1>5

\* The first sanity check: CheckSceneQueue never fails the build.
LEMMA CheckPasses ==
  ASSUME TypeOK, Underway, Queued, Released, UpToDate, CheckSceneQueue
  PROVE  /\ UNCHANGED <<state, interrupted, failed_tids>>
         /\ phase' # "stopped"
  <1>1. ~(SceneQueueOver /\ summarise_scenequeue_errors)
    BY NoSceneErrors DEF CheckSceneQueue, SceneQueueOver, UpToDate
  <1> QED BY <1>1 DEF CheckSceneQueue, runq

LEMMA StepEnds ==
  ASSUME Forbidden = {}, TypeOK, Underway, Queued, Released, UpToDate, Counted, Searched, Ends,
         [Next]_vars
  PROVE  Ends'
  <1>1. CASE Ended
    BY <1>1, EndedStays, StopEnds DEF Ends
  <1>2. CASE ~Ended
    <2>1. CASE EndOfQueue \/ finish \/ Interrupt
      BY <1>2, <2>1, FinalEnds
    <2>2. CASE Stop
      BY <2>2, StopEnds
    <2>3. CASE ~(EndOfQueue \/ finish \/ Interrupt \/ Stop)
      <3>1. \/ /\ UNCHANGED <<state, interrupted>> /\ failed_tids \subseteq failed_tids'
               /\ (phase' = "stopped" => phase = "stopped")
            \/ /\ state' = "CleanUp" /\ halt /\ failed_tids' # {} /\ UNCHANGED interrupted
               /\ phase' # "stopped"
        BY <2>3, StateSteps, CheckPasses
      <3> QED BY <1>2, <3>1, BuildFixed DEF Ends, Ended
    <2> QED BY <2>1, <2>2, <2>3
  <1> QED BY <1>1, <1>2

-----------------------------------------------------------------------------
(* Theorems *)

Scheduling ==
  /\ TypeOK /\ Decisions /\ UpToDate /\ Queued /\ Released
  /\ Forbidden = {} => SlotBound /\ Counted /\ Searched /\ Ends

LEMMA InitScheduling == Init => Scheduling
  <1>1. Init => SlotBound /\ Counted
    <2> SUFFICES ASSUME Init PROVE SlotBound /\ Counted
      OBVIOUS
    <2>1. Executing = {} /\ sq_live = {} /\ active = 0
      BY DEF Init, Executing
    <2>2. Cardinality({}) = 0 /\ NumberTasks \in Nat
      BY FS_EmptySet, RunAssumption
    <2>3. SlotBound
      BY <2>1, <2>2 DEF SlotBound
    <2> QED BY <2>1, <2>2, <2>3 DEF Init, Counted
  <1> QED BY <1>1, InitType, InitDecisions, InitNeeds, InitQueued, InitReleased, InitSearched, InitEnds
          DEF Scheduling, Needs

LEMMA StepScheduling == Scheduling /\ [Next]_vars => Scheduling'
  <1> SUFFICES ASSUME Scheduling, [Next]_vars PROVE Scheduling'
    OBVIOUS
  <1>1. (TypeOK /\ Decisions /\ UpToDate /\ Queued /\ Released)'
    BY StepType, StepDecisions, StepUpToDate, StepQueued, StepReleased DEF Scheduling, Decisions
  <1>2. ASSUME Forbidden = {} PROVE (SlotBound /\ Counted /\ Searched /\ Ends)'
    <2>1. SlotBound' /\ Counted'
      BY <1>2, StepCounted DEF Scheduling
    <2> QED BY <1>1, <1>2, <2>1, StepSearched, StepEnds DEF Scheduling, Decisions
  <1> QED BY <1>1, <1>2 DEF Scheduling

\* A build that is not forced to stop ends when its last process has ended,
\* whether it is complete, stops at a failure or is shut down.
THEOREM WaitsForAll == Spec => [](Forbidden = {} => WaitsForProcesses)
  <1>1. Scheduling => (Forbidden = {} => WaitsForProcesses)
    BY DEF Scheduling, Ends, Ended, WaitsForProcesses
  <1> QED BY <1>1, InitScheduling, StepScheduling, PTL DEF Spec

\* If hard dependencies form no loop a build that ends as complete has done
\* everything, and one that ends as failed had a task that ran and failed: no
\* order of exit codes, stamps, deferrals and skips leaves a task behind.
THEOREM EndsHonestly == Spec => [](Forbidden = {} /\ HardDepsEnd => HonestEnd)
  <1>1. Scheduling => (Forbidden = {} /\ HardDepsEnd => HonestEnd)
    BY DEF Scheduling, Ends, Ended, Counted, HonestEnd
  <1> QED BY <1>1, InitScheduling, StepScheduling, PTL DEF Spec

\* With -k a build goes on until every task that is left has failed or waits
\* for one that is left, unless the failed tasks of a name with a number_threads
\* flag reach its value.
THEOREM GoesOn == Spec => [](Forbidden = {} /\ HardDepsEnd /\ FlagIsFree => KeepsGoing)
  <1>1. Scheduling => (Forbidden = {} /\ HardDepsEnd /\ FlagIsFree => KeepsGoing)
    BY DEF Scheduling, Ends, Ended, Stuck, KeepsGoing
  <1> QED BY <1>1, InitScheduling, StepScheduling, PTL DEF Spec

=============================================================================
