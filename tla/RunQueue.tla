------------------------------ MODULE RunQueue ------------------------------
(***************************************************************************)
(* RunQueueExecute: the scheduler of a BitBake build.                      *)
(*                                                                         *)
(* The server calls _execute_runqueue again and again.  One call reads     *)
(* exit codes from the worker pipes, decides or starts at most one         *)
(* setscene task, recomputes which ordinary tasks are covered, not covered *)
(* or held off, and starts or skips at most one ordinary task.  Worker     *)
(* processes end at any time, with or without success.                     *)
(*                                                                         *)
(* phase is the place in the call:                                         *)
(*   read     -> scene -> holdoff -> sqcheck -> task -> tail -> (drain) -> *)
(*   return   -> read ... or stopped                                       *)
(*                                                                         *)
(* Hash changes during the build are in HashMigration.  Not modelled:      *)
(* noexec tasks and fakeroot workers.                                      *)
(***************************************************************************)
EXTENDS TaskGraph, Integers, FiniteSets, Functions

CONSTANTS
  NumberTasks,  \* BB_NUMBER_THREADS
  Leader,       \* sqdata.hashes: the first setscene task with the hash of t
  HardDeps,     \* sq_harddeps_rev: what the metadata makes setscene task t wait for
  Halts,        \* whether builds stop at the first failure (no -k): a set of BOOLEANs
  Forbidden,    \* tasks BB_SETSCENE_ENFORCE forbids to run; {} if it is not set
  Limited,      \* the tasks of one name that has a number_threads flag
  LimitedTo,    \* and the value of the flag
  MaxDebt       \* bound: stats.active is not counted below -MaxDebt

ASSUME RunAssumption ==
  /\ NumberTasks \in Nat \ {0}
  /\ Leader \in [Setscene -> Setscene]
  /\ \A t \in Setscene : Leader[Leader[t]] = Leader[t]
  /\ HardDeps \in [Setscene -> SUBSET Setscene]
  /\ Halts \subseteq BOOLEAN
  /\ Forbidden \subseteq Tasks
  /\ Limited \subseteq Tasks /\ LimitedTo \in Nat \ {0}
  /\ MaxDebt \in Nat

VARIABLES
  state, phase,
  \* the build, chosen at the start
  stamped,                 \* tasks whose stamp is current
  halt,                    \* taskData.halt
  \* ordinary tasks
  runq_buildable, runq_running, runq_complete, runq_tasksrun,
  failed_tids, active,     \* active is stats.active
  \* setscene tasks
  sq_buildable, sq_running, sq_live, scenequeue_covered, scenequeue_notcovered,
  sq_deferred, outrightfail, sqdone,
  sq_needed_harddeps, sq_harddep_deferred,
  \* from setscene to ordinary tasks
  tasks_scenequeue_done, tasks_covered, tasks_notcovered, holdoff_tasks,
  holdoff_need_update,
  interrupted,             \* history: the user stopped the build
  restored                 \* history: setscene tasks that ran with success

build  == <<stamped, halt>>
runq   == <<runq_buildable, runq_running, runq_complete, runq_tasksrun, failed_tids, active>>
decide == <<sq_buildable, sq_running, scenequeue_covered, scenequeue_notcovered,
            tasks_scenequeue_done, holdoff_need_update, sq_harddep_deferred>>
defer  == <<sq_deferred, outrightfail>>
cover  == <<tasks_covered, tasks_notcovered, holdoff_tasks>>
sceneq == <<decide, defer, sq_needed_harddeps, sq_live, sqdone, cover, restored>>
vars   == <<state, phase, build, runq, sceneq, interrupted>>

\* Ordinary tasks with a process
Executing == runq_running \ (runq_complete \cup failed_tids)

OneTooMany(live, act) == act + Cardinality(live) <= NumberTasks   \* mutant: off by one

can_start_task(live, act) == act + Cardinality(live) < NumberTasks

Decided == scenequeue_covered \cup scenequeue_notcovered

-----------------------------------------------------------------------------
(* Deciding a setscene task, and what follows from it *)

\* S: the setscene tasks decided in this step
scenequeue_updatecounters(S) ==
  /\ sq_buildable' = sq_buildable \cup S \cup
       {d \in UNION {sq_deps[t] : t \in S} :
          sq_revdeps[d] \subseteq scenequeue_covered' \cup scenequeue_notcovered'}
  /\ tasks_scenequeue_done' = UpClosure(tasks_scenequeue_done \cup S)
  /\ sq_harddep_deferred' = {d \in sq_harddep_deferred :
       ~(HardDeps[d] \subseteq scenequeue_covered' \cup scenequeue_notcovered')}
  /\ holdoff_need_update' = TRUE

sq_task_skip(t) ==
  /\ sq_running' = sq_running \cup {t}
  /\ scenequeue_covered' = scenequeue_covered \cup {t}
  /\ UNCHANGED scenequeue_notcovered
  /\ scenequeue_updatecounters({t})

\* X holds what fails with the tasks in it: the undecided tasks with a hard
\* dependency on one.
FailClosed(X, decided) ==
  \A u \in Setscene \ decided : HardDeps[u] \cap X # {} => u \in X

FailsAlone(t, decided) == {t}    \* mutant: what has a hard dependency on t does not fail

FailsWith(t, decided) ==
  {d \in Setscene : \A X \in SUBSET Setscene : t \in X /\ FailClosed(X, decided) => d \in X}

\* Not covered, and so marked as running though some of them never ran
sq_task_failoutright(t) ==
  LET failing == FailsWith(t, Decided) IN
  /\ sq_running' = sq_running \cup failing
  /\ scenequeue_notcovered' = scenequeue_notcovered \cup failing
  /\ UNCHANGED scenequeue_covered
  /\ scenequeue_updatecounters(failing)

-----------------------------------------------------------------------------
(* Ordinary tasks *)


ReleaseUndeleted(t) ==    \* mutant: the released task is not taken out of sq_deferred
  LET waiting == {u \in DOMAIN sq_deferred : sq_deferred[u] = t} IN
  /\ \/ waiting = {} /\ UNCHANGED sq_deferred
     \/ \E f \in waiting :
          sq_deferred' = [u \in DOMAIN sq_deferred |->
                            IF u \in waiting THEN f ELSE sq_deferred[u]]
  /\ UNCHANGED <<outrightfail, decide>>

\* When t is complete one of the setscene tasks deferred until then is
\* released, the others are deferred after that one, and update_scenequeue_data
\* looks again for its stamp and its shared state object.
ReleaseDeferred(t) ==
  LET waiting == {u \in DOMAIN sq_deferred : sq_deferred[u] = t} IN
  \/ waiting = {} /\ UNCHANGED <<defer, decide>>
  \/ \E f \in waiting :
       /\ sq_deferred' = [u \in DOMAIN sq_deferred \ {f} |->
                            IF u \in waiting THEN f ELSE sq_deferred[u]]
       /\ \/ f \in stamped /\ sq_task_skip(f) /\ outrightfail' = outrightfail \ {f}
          \/ /\ f \notin stamped /\ UNCHANGED decide
             /\ \/ outrightfail' = outrightfail \ {f}
                \/ f \notin Decided /\ outrightfail' = outrightfail \cup {f}

CompleteWithoutCheck(t, bld) ==  \* mutant: one complete dependency is enough
  /\ runq_complete' = runq_complete \cup {t}
  /\ runq_buildable' = bld \cup (revdeps[t] \ runq_running')
  /\ ReleaseDeferred(t)

\* bld is runq_buildable with the additions of the caller
task_completeoutright(t, bld) ==
  /\ runq_complete' = runq_complete \cup {t}
  /\ runq_buildable' = bld \cup {r \in revdeps[t] \ runq_running' :
                                   Depends[r] \subseteq runq_complete'}
  /\ ReleaseDeferred(t)

\* stats.taskFailed, failed_tids.append, and the end of the build without -k
task_fail(t, act) ==
  /\ active' = act
  /\ failed_tids' = failed_tids \cup {t}
  /\ state' = IF halt THEN "CleanUp" ELSE state

-----------------------------------------------------------------------------
(* runqueue_process_waitpid: the exit code of a worker process is read *)

SceneExit(t) ==
  /\ phase \in {"read", "drain"}
  /\ t \in sq_live
  /\ sq_live' = sq_live \ {t}
  /\ \/ /\ scenequeue_covered' = scenequeue_covered \cup {t}
        /\ restored' = restored \cup {t}
        /\ UNCHANGED <<scenequeue_notcovered, sq_running, state>>
        /\ scenequeue_updatecounters({t})
     \/ /\ sq_task_failoutright(t)
        /\ state' = IF t \in Forbidden THEN "CleanUp" ELSE state
        /\ UNCHANGED restored
  /\ UNCHANGED <<phase, build, runq, defer, sq_needed_harddeps, sqdone, cover, interrupted>>

TaskExit(t) ==
  /\ phase \in {"read", "drain"}
  /\ t \in Executing
  /\ UNCHANGED runq_running
  /\ \/ /\ active' = active - 1
        /\ task_completeoutright(t, runq_buildable)
        /\ runq_tasksrun' = runq_tasksrun \cup {t}
        /\ UNCHANGED <<failed_tids, state>>
     \/ /\ task_fail(t, active - 1)
        /\ UNCHANGED <<runq_buildable, runq_complete, runq_tasksrun, decide, defer>>
  /\ UNCHANGED <<phase, build, sq_needed_harddeps, sq_live, sqdone, cover, restored, interrupted>>

\* The pipes have been read; what arrives later is read later.
ReadDone ==
  /\ phase = "read" /\ phase' = "scene"
  /\ UNCHANGED <<state, build, runq, sceneq, interrupted>>

DrainDone ==
  /\ phase = "drain" /\ phase' = "return"
  /\ UNCHANGED <<state, build, runq, sceneq, interrupted>>

-----------------------------------------------------------------------------
(* execute: the setscene task *)

Waits(t) == t \in DOMAIN sq_deferred /\ sq_deferred[t] \notin runq_complete

\* The setscene tasks the search of execute stops at, in any order
Selectable ==
  {t \in sq_buildable \ (sq_running \cup sq_harddep_deferred) : ~Waits(t)}

SearchScene(t) ==
  /\ phase = "scene"
  /\ ~sqdone /\ can_start_task(sq_live, active)
  /\ t \in Selectable

\* All setscene tasks that need t are covered; the metadata's depvalidate
\* function is asked last and may say either.
MayBeUnneeded(t) ==
  /\ t \notin unskippable \cup sq_needed_harddeps
  /\ sq_revdeps[t] # {} /\ sq_revdeps[t] \subseteq scenequeue_covered
  /\ t \notin Targets

SceneUnneeded(t) ==
  /\ SearchScene(t)
  /\ MayBeUnneeded(t)
  /\ sq_task_skip(t)
  /\ sq_deferred' = Restrict(sq_deferred, DOMAIN sq_deferred \ {t})
  /\ phase' = "return"
  /\ UNCHANGED <<state, build, runq, outrightfail, sq_needed_harddeps, sq_live, sqdone, cover,
                 restored, interrupted>>

\* The hard dependencies of t come first: they become buildable and cannot be
\* skipped as unneeded, and t is set aside until all are decided.  The search
\* goes on when that was done before.
SceneHardDefer(t) ==
  /\ SearchScene(t)
  /\ ~(HardDeps[t] \subseteq Decided)
  /\ sq_buildable' = sq_buildable \cup (HardDeps[t] \ sq_needed_harddeps)
  /\ sq_needed_harddeps' = sq_needed_harddeps \cup HardDeps[t]
  /\ sq_harddep_deferred' = sq_harddep_deferred \cup {t}
  /\ phase' = IF HardDeps[t] \subseteq sq_needed_harddeps THEN "scene" ELSE "return"
  /\ UNCHANGED <<state, build, runq, sq_running, scenequeue_covered, scenequeue_notcovered,
                 tasks_scenequeue_done, holdoff_need_update, defer, sq_live, sqdone, cover,
                 restored, interrupted>>

\* No shared state object: known from the start, or found out now for a task
\* that is still in sq_deferred though what it waited for is complete.
SceneUnavailable(t) ==
  /\ SearchScene(t)
  /\ HardDeps[t] \subseteq Decided
  /\ t \in outrightfail \cup DOMAIN sq_deferred
  /\ sq_task_failoutright(t)
  /\ sq_deferred' = Restrict(sq_deferred, DOMAIN sq_deferred \ {t})
  /\ phase' = "return"
  /\ UNCHANGED <<state, build, runq, outrightfail, sq_needed_harddeps, sq_live, sqdone, cover,
                 restored, interrupted>>

StartNotRunning(t) ==     \* mutant: sq_running.add is missing
  /\ SearchScene(t)
  /\ HardDeps[t] \subseteq Decided
  /\ t \notin outrightfail
  /\ sq_deferred' = Restrict(sq_deferred, DOMAIN sq_deferred \ {t})
  /\ sq_live' = sq_live \cup {t}
  /\ phase' = IF can_start_task(sq_live', active) THEN "return" ELSE "holdoff"
  /\ UNCHANGED <<state, build, runq, decide, outrightfail, sq_needed_harddeps, sqdone, cover,
                 restored, interrupted>>

SceneStart(t) ==
  /\ SearchScene(t)
  /\ HardDeps[t] \subseteq Decided
  /\ t \notin outrightfail
  /\ sq_deferred' = Restrict(sq_deferred, DOMAIN sq_deferred \ {t})
  /\ sq_running' = sq_running \cup {t}
  /\ sq_live' = sq_live \cup {t}
  /\ phase' = IF can_start_task(sq_live', active) THEN "return" ELSE "holdoff"
  /\ UNCHANGED <<state, build, runq, sq_buildable, scenequeue_covered, scenequeue_notcovered,
                 tasks_scenequeue_done, holdoff_need_update, sq_harddep_deferred, outrightfail,
                 sq_needed_harddeps, sqdone, cover, restored, interrupted>>

SceneNone ==
  /\ phase = "scene" /\ phase' = "holdoff"
  /\ sqdone \/ ~can_start_task(sq_live, active) \/ Selectable = {}
  /\ UNCHANGED <<state, build, runq, sceneq, interrupted>>

-----------------------------------------------------------------------------
(* execute: from setscene tasks to ordinary tasks *)

\* A task below a setscene task that is not covered is not covered, even if it
\* is also below one that is.
NotCovered ==
  (scenequeue_notcovered \cup cantskip \cup (unskippable \ Setscene)
     \cup UNION {sq_covered_tasks[s] : s \in scenequeue_notcovered})
  \cap tasks_scenequeue_done

Covered ==
  ((scenequeue_covered \cup UNION {sq_covered_tasks[s] : s \in scenequeue_covered})
     \ NotCovered) \cap tasks_scenequeue_done

\* Undecided setscene tasks, and what they cover and is not complete
Held ==
  (Setscene \ Decided)
    \cup UNION {sq_covered_tasks[s] \ runq_complete : s \in Setscene \ Decided}

update_holdofftasks ==
  /\ phase = "holdoff" /\ phase' = "sqcheck"
  /\ \/ ~holdoff_need_update /\ UNCHANGED <<runq_buildable, cover>>
     \/ /\ holdoff_need_update
        /\ runq_buildable' = runq_buildable \cup
             {t \in NotCovered \cup Covered : Depends[t] \subseteq runq_complete}
        /\ tasks_covered' = Covered
        /\ tasks_notcovered' = NotCovered
        /\ holdoff_tasks' = Held
  /\ holdoff_need_update' = FALSE
  /\ UNCHANGED <<state, build, runq_running, runq_complete, runq_tasksrun, failed_tids, active,
                 sq_buildable, sq_running, scenequeue_covered, scenequeue_notcovered,
                 tasks_scenequeue_done, defer, sq_needed_harddeps, sq_harddep_deferred, sq_live,
                 sqdone, restored, interrupted>>

summarise_scenequeue_errors ==
  \/ sq_deferred # <<>>
  \/ holdoff_tasks # {}
  \/ ~(Setscene \subseteq Decided \cap sq_buildable \cap sq_running)
  \/ ~(Tasks \subseteq (tasks_covered \cup tasks_notcovered) \cap tasks_scenequeue_done)
  \/ \E t \in Tasks : Depends[t] = {} /\ t \notin runq_buildable

SceneQueueOver == sq_live = {} /\ ~sqdone /\ sq_deferred = <<>> /\ holdoff_tasks = {}

CheckSceneQueue ==
  /\ phase = "sqcheck"
  /\ \/ ~SceneQueueOver /\ phase' = "task" /\ UNCHANGED <<state, sqdone>>
     \/ /\ SceneQueueOver /\ summarise_scenequeue_errors
        /\ state' = "Failed" /\ phase' = "return" /\ UNCHANGED sqdone
     \/ /\ SceneQueueOver /\ ~summarise_scenequeue_errors
        /\ sqdone' = TRUE /\ phase' = "task" /\ UNCHANGED state
  /\ UNCHANGED <<build, runq, decide, defer, sq_needed_harddeps, sq_live, cover, restored,
                 interrupted>>

-----------------------------------------------------------------------------
(* execute: the ordinary task *)

\* The tasks whose number_threads is reached.  A task that failed still counts.
skip_buildable ==
  IF Cardinality((runq_running \ runq_complete) \cap Limited) >= LimitedTo
    THEN Limited ELSE {}

\* next_buildable_task: which of these is tried first is up to the scheduler
Candidates ==
  ((runq_buildable \ (runq_running \cup holdoff_tasks \cup skip_buildable))
     \cap (tasks_covered \cup tasks_notcovered))

SearchTask(t) ==
  /\ phase = "task"
  /\ can_start_task(sq_live, active)
  /\ t \in Candidates

\* BB_SETSCENE_ENFORCE: the task should not have to run.
TaskForbidden(t) ==
  /\ SearchTask(t)
  /\ t \in Forbidden \ (tasks_covered \cup stamped)
  /\ task_fail(t, IF active > -MaxDebt THEN active - 1 ELSE active)
  /\ phase' = "return"
  /\ UNCHANGED <<build, runq_buildable, runq_running, runq_complete, runq_tasksrun, sceneq,
                 interrupted>>

task_skip(t) ==
  /\ SearchTask(t)
  /\ t \in tasks_covered \cup stamped
  /\ runq_running' = runq_running \cup {t}
  /\ task_completeoutright(t, runq_buildable \cup {t})
  /\ runq_tasksrun' = IF t \in tasks_covered THEN runq_tasksrun ELSE runq_tasksrun \cup {t}
  /\ phase' = "return"
  /\ UNCHANGED <<state, build, failed_tids, active, sq_needed_harddeps, sq_live, sqdone, cover,
                 restored, interrupted>>

TaskStart(t) ==
  /\ SearchTask(t)
  /\ t \notin tasks_covered \cup stamped \cup Forbidden
  /\ runq_running' = runq_running \cup {t}
  /\ active' = active + 1
  /\ phase' = IF can_start_task(sq_live, active') THEN "return" ELSE "tail"
  /\ UNCHANGED <<state, build, runq_buildable, runq_complete, runq_tasksrun, failed_tids, sceneq,
                 interrupted>>

\* Nothing to start, or the scheduler holds back while something is active
\* (exceeds_max_pressure).
TaskNone ==
  /\ phase = "task" /\ phase' = "tail"
  /\ Candidates = {} \/ ~can_start_task(sq_live, active) \/ active # 0
  /\ UNCHANGED <<state, build, runq, sceneq, interrupted>>

NothingActive == active <= 0 /\ sq_live = {}

TailRead ==
  /\ phase = "tail" /\ ~NothingActive
  /\ phase' = "drain"
  /\ UNCHANGED <<state, build, runq, sceneq, interrupted>>

NeverForce == FALSE /\ UNCHANGED vars      \* mutant: deferred tasks are not forced

\* "Runqueue deadlocked on deferred tasks": let one of them go.
ForceDeferred ==
  /\ phase = "tail" /\ NothingActive
  /\ sq_deferred # <<>>
  /\ \E t \in DOMAIN sq_deferred :
       sq_deferred' = Restrict(sq_deferred, DOMAIN sq_deferred \ {t})
  /\ phase' = "return"
  /\ UNCHANGED <<state, build, runq, decide, outrightfail, sq_needed_harddeps, sq_live, sqdone,
                 cover, restored, interrupted>>

NeverRan == Tasks \ (runq_buildable \cap runq_running \cap runq_complete)

EndIgnoresFailures ==     \* mutant: the result does not depend on failed_tids
  /\ phase = "tail" /\ NothingActive /\ sq_deferred = <<>>
  /\ state' = "Complete" /\ phase' = "return"
  /\ UNCHANGED <<build, runq, sceneq, interrupted>>

EndBeforeForcing ==       \* mutant: deferred tasks do not stop the end
  /\ phase = "tail" /\ NothingActive
  /\ state' = IF failed_tids # {} \/ summarise_scenequeue_errors \/ NeverRan # {}
                THEN "Failed" ELSE "Complete"
  /\ phase' = "return"
  /\ UNCHANGED <<build, runq, sceneq, interrupted>>

EndOfQueue ==
  /\ phase = "tail" /\ NothingActive
  /\ sq_deferred = <<>>
  /\ state' = IF failed_tids # {} \/ summarise_scenequeue_errors \/ NeverRan # {}
                THEN "Failed" ELSE "Complete"
  /\ phase' = "return"
  /\ UNCHANGED <<build, runq, sceneq, interrupted>>

-----------------------------------------------------------------------------
(* Between calls *)

NextCall ==
  /\ phase = "return" /\ state = "Running"
  /\ phase' = "read"
  /\ UNCHANGED <<state, build, runq, sceneq, interrupted>>

Result == IF failed_tids # {} THEN "Failed" ELSE "Complete"

FinishIgnoresScene ==     \* mutant: only ordinary tasks are waited for
  /\ phase = "return" /\ state = "CleanUp"
  /\ \/ active > 0 /\ phase' = "drain" /\ UNCHANGED state
     \/ active <= 0 /\ phase' = "return" /\ state' = Result
  /\ UNCHANGED <<build, runq, sceneq, interrupted>>

\* Wait for what still runs, then stop.
finish ==
  /\ phase = "return" /\ state = "CleanUp"
  /\ \/ active + Cardinality(sq_live) > 0 /\ phase' = "drain" /\ UNCHANGED state
     \/ active + Cardinality(sq_live) <= 0 /\ phase' = "return" /\ state' = Result
  /\ UNCHANGED <<build, runq, sceneq, interrupted>>

Stop ==
  /\ phase = "return" /\ state \in {"Failed", "Complete"}
  /\ phase' = "stopped"
  /\ UNCHANGED <<state, build, runq, sceneq, interrupted>>

\* finish_runqueue, when the user asks for a shutdown: gently, then by force
Interrupt ==
  /\ phase = "return" /\ state \in {"Running", "CleanUp"}
  /\ \/ interrupted = "no" /\ interrupted' = "shutdown" /\ state' = "CleanUp"
     \/ interrupted # "force" /\ interrupted' = "force" /\ state' = Result
  /\ UNCHANGED <<phase, build, runq, sceneq>>

-----------------------------------------------------------------------------

StampedScene == Setscene \cap stamped

Init ==
  /\ state = "Running" /\ phase = "read" /\ interrupted = "no"
  /\ stamped \in SUBSET Tasks
  /\ halt \in Halts
  /\ runq_buildable = {t \in unskippable \ Setscene : Depends[t] = {}}
  /\ runq_running = {} /\ runq_complete = {} /\ runq_tasksrun = {}
  /\ failed_tids = {} /\ active = 0
  /\ sq_live = {} /\ restored = {}
  /\ sq_needed_harddeps = {} /\ sq_harddep_deferred = {}
  /\ sq_running = StampedScene /\ scenequeue_covered = StampedScene
  /\ scenequeue_notcovered = {}
  /\ sq_buildable = {t \in Setscene : sq_revdeps[t] \subseteq StampedScene} \cup StampedScene
  /\ sq_deferred = [t \in {u \in Setscene : Leader[u] # u} |-> Leader[t]]
  /\ outrightfail \in SUBSET ((Setscene \ stamped) \ DOMAIN sq_deferred)
  /\ sqdone = (Setscene = {})
  /\ tasks_scenequeue_done = UpClosure((unskippable \ Setscene) \cup StampedScene)
  /\ tasks_covered = {}
  /\ tasks_notcovered = IF Setscene = {} THEN Tasks ELSE {}
  /\ holdoff_tasks = {}
  /\ holdoff_need_update = TRUE

\* The steps of a call that do not look at reported hashes
Execute ==
  \/ \E t \in Tasks : \/ SceneUnneeded(t) \/ SceneHardDefer(t) \/ SceneUnavailable(t)
                      \/ SceneStart(t)
                      \/ TaskForbidden(t) \/ task_skip(t) \/ TaskStart(t)
  \/ DrainDone \/ SceneNone \/ update_holdofftasks
  \/ TaskNone \/ TailRead \/ ForceDeferred \/ EndOfQueue
  \/ NextCall \/ finish \/ Stop

Server == Execute \/ ReadDone \/ CheckSceneQueue

WorkerExit(t) == SceneExit(t) \/ TaskExit(t)

Next == Server \/ (\E t \in Tasks : WorkerExit(t)) \/ Interrupt

Spec == Init /\ [][Next]_vars

\* The main loop keeps calling; every process ends, and its exit code is in
\* the pipe at every later read until it is read.
Fairness == WF_vars(Server) /\ \A t \in Tasks : SF_vars(WorkerExit(t))

FairSpec == Spec /\ Fairness

-----------------------------------------------------------------------------
(* Properties *)

Phases == {"read", "scene", "holdoff", "sqcheck", "task", "tail", "drain", "return", "stopped"}

\* The sets hold the kind of tasks they are for, and no task is deferred after
\* itself.
TypeOK ==
  /\ state \in {"Running", "CleanUp", "Failed", "Complete"}
  /\ phase \in Phases
  /\ interrupted \in {"no", "shutdown", "force"}
  /\ stamped \subseteq Tasks /\ halt \in BOOLEAN
  /\ runq_buildable \subseteq Tasks /\ runq_running \subseteq Tasks
  /\ runq_complete \subseteq Tasks /\ runq_tasksrun \subseteq Tasks
  /\ failed_tids \subseteq Tasks /\ active \in Int
  /\ sq_buildable \subseteq Setscene /\ sq_running \subseteq Setscene
  /\ sq_live \subseteq Setscene /\ restored \subseteq Setscene
  /\ scenequeue_covered \subseteq Setscene /\ scenequeue_notcovered \subseteq Setscene
  /\ DOMAIN sq_deferred \subseteq Setscene
  /\ sq_deferred \in [DOMAIN sq_deferred -> Setscene]
  /\ \A t \in DOMAIN sq_deferred : sq_deferred[t] # t
  /\ sq_needed_harddeps \subseteq Setscene /\ sq_harddep_deferred \subseteq Setscene
  /\ outrightfail \subseteq Setscene /\ sqdone \in BOOLEAN
  /\ tasks_scenequeue_done \subseteq Tasks
  /\ tasks_covered \subseteq Tasks /\ tasks_notcovered \subseteq Tasks
  /\ holdoff_tasks \subseteq Tasks /\ holdoff_need_update \in BOOLEAN

Busy == Executing \cup sq_live

\* A task whose output is there: it ran, its stamp was current, or its setscene
\* task unpacked it.  Being merely marked as covered is not enough.
Made == runq_tasksrun \cup stamped \cup restored

\* A task only runs when everything it depends on was really made, whichever
\* of them were skipped as covered or as not needed, and a setscene task only
\* when its hard dependencies were (update_holdofftasks, check_dependencies,
\* task_skip, execute: "as it is a hard dependency").
InputsPresent ==
  /\ \A t \in Executing : Depends[t] \subseteq Made
  /\ \A t \in sq_live : HardDeps[t] \subseteq Made

\* A task only runs after everything it depends on is complete, though three
\* handlers make tasks buildable and the build goes on after a failure
\* (task_completeoutright, update_holdofftasks, RunQueueExecute.__init__).
AfterDependencies == \A t \in Executing : Depends[t] \subseteq runq_complete

\* "If covered tasks are running, need to wait for them to complete": while a
\* setscene task unpacks its output, neither its ordinary task nor one it
\* covers is running.
SceneExcludesReal ==
  \A s \in sq_live : (sq_covered_tasks[s] \cup {s}) \cap Executing = {}


\* There are never more processes than BB_NUMBER_THREADS.
SlotBound == Cardinality(Executing) + Cardinality(sq_live) <= NumberTasks

\* At most number_threads tasks of that name run at one time.
NumberThreads == Cardinality(Executing \cap Limited) <= LimitedTo

\* "No task should end up in both covered and uncovered, that is a bug."
DecidedOnce == scenequeue_covered \cap scenequeue_notcovered = {}

\* A build that ends as complete, and was not stopped by the user, has every
\* task complete and no failure.  It ends as failed only because a task ran and
\* failed, or may not run: the sanity checks of execute never fire.
HonestEnd ==
  /\ state = "Complete" /\ interrupted = "no" => runq_complete = Tasks /\ failed_tids = {}
  /\ state = "Failed" => failed_tids # {} /\ failed_tids \subseteq runq_running \cup Forbidden

\* Unless it is forced to stop, the build ends when no process is running.
WaitsForProcesses ==
  state \in {"Failed", "Complete"} /\ interrupted # "force" => Busy = {}

\* -k: "While the target that failed and anything depending on it cannot be
\* built, as much as possible will be built before stopping."
KeepsGoing ==
  phase = "stopped" /\ ~halt /\ interrupted = "no" =>
    \A t \in Tasks \ runq_complete : t \in failed_tids \/ ~(Depends[t] \subseteq runq_complete)

\* Every build ends.
Terminates == <>(phase = "stopped")
=============================================================================
