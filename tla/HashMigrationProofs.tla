------------------------ MODULE HashMigrationProofs ------------------------
(***************************************************************************)
(* Proofs about HashMigration, for every task graph, every set of tasks    *)
(* that report their output and every answer of the hash equivalence       *)
(* server.  Most steps are those of the run queue, and keep what           *)
(* RunQueueProofs shows that they keep; what is left is                    *)
(* process_possible_migrations, which takes decisions back while other     *)
(* tasks run.                                                              *)
(***************************************************************************)
EXTENDS HashMigration, RunQueueProofs

MTypeOK ==
  /\ TypeOK
  /\ unihash \in [Tasks -> Nat]
  /\ updated_taskhash_queue \subseteq Reporting
  /\ pending_migrations \subseteq Setscene

\* check_scenequeue is left alone while a report waits.
LeftAlone ==
  /\ phase = "sqcheck" /\ phase' = "task"
  /\ UNCHANGED <<state, build, runq, sceneq, interrupted>>

\* M is decided again: it is neither running nor below a running task's
\* setscene task, and of what is covered only what waited since it was not.
Migrates(M) ==
  /\ M \cap (runq_running \cup sq_live) = {}
  /\ \A t \in M : ~Blocked(t)
  /\ M \cap scenequeue_covered \subseteq pending_migrations
  /\ pending_migrations' \cap (M \cup runq_running \cup sq_live) = {}
  /\ \A t \in pending_migrations' :
       Blocked(t) /\ (t \in scenequeue_covered => t \in pending_migrations)
  /\ failed_tids \subseteq failed_tids' /\ failed_tids' \subseteq failed_tids \cup M
  /\ \/ M # {} /\ Redecide(M) /\ holdoff_need_update'
     \/ /\ M = {}
        /\ UNCHANGED <<sq_buildable, sq_running, scenequeue_covered, scenequeue_notcovered,
                       tasks_scenequeue_done, defer, sqdone>>
        /\ holdoff_need_update => holdoff_need_update'
  /\ \/ sq_needed_harddeps' = {} /\ sq_harddep_deferred' = {}
     \/ M = {} /\ UNCHANGED <<sq_needed_harddeps, sq_harddep_deferred>>

-----------------------------------------------------------------------------
(* Steps *)

LEMMA MSteps ==
  ASSUME [MNext]_mvars
  PROVE  /\ [Next]_vars \/ LeftAlone \/ process_possible_migrations
         /\ \/ UNCHANGED hashes
            \/ UNCHANGED vars /\ \E t \in Tasks : ReportRead(t)
            \/ process_possible_migrations
  <1>1. CASE UNCHANGED mvars
    BY <1>1 DEF mvars
  <1>2. CASE Execute /\ UNCHANGED hashes
    BY <1>2 DEF Next, Server
  <1>3. CASE ReadAll
    BY <1>3 DEF ReadAll, Next, Server
  <1>4. CASE CheckQueues
    BY <1>4 DEF CheckQueues, Next, Server, LeftAlone
  <1>5. CASE \E t \in Tasks : ReportRead(t)
    BY <1>5 DEF ReportRead, vars
  <1>6. CASE (\E t \in Tasks : WorkerExit(t)) /\ UNCHANGED hashes
    BY <1>6 DEF Next
  <1>7. CASE Interrupt /\ UNCHANGED hashes
    BY <1>7 DEF Next
  <1> QED BY <1>1, <1>2, <1>3, <1>4, <1>5, <1>6, <1>7 DEF MNext

LEMMA GraphTypes ==
  /\ Reporting \subseteq Setscene /\ Setscene \subseteq Tasks
  /\ \A s : \A C \in NewHashes(s) : C \subseteq Tasks
  BY GraphAssumption, ReportingAssumption DEF NewHashes

LEMMA Migration ==
  ASSUME MTypeOK, process_possible_migrations
  PROVE  \E M \in SUBSET Setscene : Migrates(M)
  <1> DEFINE reported == updated_taskhash_queue \ Unfinished
             source   == Rehashed(reported)
  <1>1. PICK C \in NewHashes(source) :
          LET changed == C \ Kept
              pending == (pending_migrations \cup (changed \cap Setscene))
                           \ (runq_running \cup sq_live)
              M       == {t \in pending : ~Blocked(t)}
          IN
          /\ pending_migrations' = pending \ M
          /\ failed_tids' = failed_tids \cup {t \in M : NeedsRerun(t)}
          /\ \/ M # {} /\ Redecide(M)
             \/ M = {} /\ UNCHANGED <<sq_buildable, sq_running, scenequeue_covered,
                                      scenequeue_notcovered, tasks_scenequeue_done, defer, sqdone>>
          /\ IF changed # {} \/ M # {}
               THEN sq_needed_harddeps' = {} /\ sq_harddep_deferred' = {}
                      /\ holdoff_need_update' = TRUE
               ELSE UNCHANGED <<sq_needed_harddeps, sq_harddep_deferred, holdoff_need_update>>
    BY DEF process_possible_migrations
  <1> DEFINE changed == C \ Kept
             pending == (pending_migrations \cup (changed \cap Setscene))
                           \ (runq_running \cup sq_live)
             M       == {t \in pending : ~Blocked(t)}
  <1>2. M \in SUBSET Setscene /\ M \subseteq pending
    BY DEF MTypeOK
  <1>3. /\ pending \cap (runq_running \cup sq_live) = {}
        /\ pending \cap scenequeue_covered \subseteq pending_migrations
    BY DEF Kept
  <1>4. pending_migrations' = pending \ M /\ \A t \in M : ~Blocked(t)
    BY <1>1
  <1>5. \A t \in pending \ M : Blocked(t)
    OBVIOUS
  <1>6. failed_tids \subseteq failed_tids' /\ failed_tids' \subseteq failed_tids \cup M
    BY <1>1
  <1>7. /\ \/ M # {} /\ Redecide(M) /\ holdoff_need_update'
           \/ /\ M = {}
              /\ UNCHANGED <<sq_buildable, sq_running, scenequeue_covered, scenequeue_notcovered,
                             tasks_scenequeue_done, defer, sqdone>>
              /\ holdoff_need_update => holdoff_need_update'
        /\ \/ sq_needed_harddeps' = {} /\ sq_harddep_deferred' = {}
           \/ M = {} /\ UNCHANGED <<sq_needed_harddeps, sq_harddep_deferred>>
    BY <1>1
  <1> HIDE DEF M, pending, changed
  <1>8. Migrates(M)
    BY <1>2, <1>3, <1>4, <1>5, <1>6, <1>7 DEF Migrates
  <1> QED BY <1>2, <1>8

-----------------------------------------------------------------------------

(* Types *)

\* What fails with a task of M that is decided again
LEMMA AgainType ==
  ASSUME NEW M \in SUBSET Setscene, NEW d
  PROVE  UNION {FailsWith(t, d) : t \in {u \in M : HardFail(u, M)}} \subseteq Setscene
  BY DEF FailsWith

LEMMA RedecideType ==
  ASSUME TypeOK, NEW M \in SUBSET Setscene, Redecide(M)
  PROVE  /\ DeferredType' /\ outrightfail' \subseteq Setscene
         /\ sq_buildable' \subseteq Setscene /\ sq_running' \subseteq Setscene
         /\ scenequeue_covered' \subseteq Setscene /\ scenequeue_notcovered' \subseteq Setscene
         /\ tasks_scenequeue_done' \subseteq Tasks /\ sqdone' \in BOOLEAN
  <1> DEFINE skipped == M \cap stamped'
             failing == UNION {FailsWith(t, (Decided \ M) \cup skipped) : t \in {u \in M : HardFail(u, M)}}
             again   == skipped \cup failing
             left    == tasks_scenequeue_done \ Undone(M)
  <1>1. again \subseteq Setscene /\ failing \subseteq Setscene
    BY AgainType
  <1>2. scenequeue_covered' \subseteq Setscene /\ scenequeue_notcovered' \subseteq Setscene
        /\ sq_running' \subseteq Setscene
    BY <1>1 DEF Redecide, TypeOK
  <1>3. sq_buildable' \subseteq Setscene
    <2>1. UNION {sq_deps[t] : t \in again} \subseteq Setscene
      BY <1>1, GraphType
    <2>2. Rebuildable(M) \subseteq Setscene
      BY DEF Rebuildable
    <2> QED BY <1>1, <2>1, <2>2 DEF Redecide, TypeOK
  <1>4. tasks_scenequeue_done' \subseteq Tasks
    <2>1. tasks_scenequeue_done' = left \/ tasks_scenequeue_done' = UpClosure(left \cup again)
      BY DEF Redecide
    <2>2. left \subseteq Tasks
      BY DEF TypeOK
    <2> QED BY <2>1, <2>2, GraphType
  <1>5. DeferredType'
    <2>1. PICK D \in SUBSET {t \in M : Leader[t] # t} :
            sq_deferred' = [t \in DOMAIN sq_deferred \cup D |->
                              IF t \in D THEN Leader[t] ELSE sq_deferred[t]]
      BY DEF Redecide
    <2>2. DOMAIN sq_deferred' = DOMAIN sq_deferred \cup D
      BY <2>1
    <2>3. \A t \in DOMAIN sq_deferred' : sq_deferred'[t] \in Setscene /\ sq_deferred'[t] # t
      BY <2>1, RunAssumption DEF TypeOK
    <2> QED BY <2>1, <2>2, <2>3 DEF DeferredType, TypeOK
  <1>6. outrightfail' \subseteq Setscene /\ sqdone' \in BOOLEAN
    BY DEF Redecide, TypeOK
  <1> QED BY <1>2, <1>3, <1>4, <1>5, <1>6

LEMMA MigrationStamps ==
  ASSUME MTypeOK, process_possible_migrations
  PROVE  /\ stamped' \subseteq Tasks /\ stamped \cap Kept \subseteq stamped'
         /\ unihash' \in [Tasks -> Nat]
         /\ state' \in {state, "CleanUp"}
         /\ sq_needed_harddeps' \subseteq Setscene /\ sq_harddep_deferred' \subseteq Setscene
         /\ holdoff_need_update' \in BOOLEAN
         /\ updated_taskhash_queue' \subseteq updated_taskhash_queue
         /\ phase = "read" /\ phase' = "scene"
         /\ UNCHANGED <<halt, runq_buildable, runq_running, runq_complete, runq_tasksrun, active,
                        sq_live, cover, restored, interrupted>>
  <1> DEFINE reported == updated_taskhash_queue \ Unfinished
             source   == Rehashed(reported)
  <1>1. PICK C \in NewHashes(source) :
          LET changed == C \ Kept
              pending == (pending_migrations \cup (changed \cap Setscene))
                           \ (runq_running \cup sq_live)
              M       == {t \in pending : ~Blocked(t)}
              renamed == (changed \cup (source \ reported)) \ Kept
          IN
          /\ unihash' = [t \in Tasks |-> IF t \in source \cup changed THEN unihash[t] + 1
                                                                      ELSE unihash[t]]
          /\ \E S \in SUBSET renamed : stamped' = (stamped \ renamed) \cup S
          /\ state' = IF \E t \in M : NeedsRerun(t) THEN "CleanUp" ELSE state
          /\ IF changed # {} \/ M # {}
               THEN sq_needed_harddeps' = {} /\ sq_harddep_deferred' = {}
                      /\ holdoff_need_update' = TRUE
               ELSE UNCHANGED <<sq_needed_harddeps, sq_harddep_deferred, holdoff_need_update>>
    BY DEF process_possible_migrations
  <1>2. C \subseteq Tasks
    BY GraphTypes
  <1>3. source \subseteq Tasks
    BY GraphTypes DEF Rehashed, MTypeOK, TypeOK
  <1>4. stamped' \subseteq Tasks /\ stamped \cap Kept \subseteq stamped'
    <2>1. /\ \E S \in SUBSET Tasks : stamped' \subseteq stamped \cup S
          /\ stamped \cap Kept \subseteq stamped'
      <3>1. (((C \ Kept) \cup (source \ reported)) \ Kept) \subseteq Tasks
        BY <1>2, <1>3
      <3> HIDE DEF source, reported
      <3> QED BY <1>1, <3>1
    <2> QED BY <2>1 DEF MTypeOK, TypeOK
  <1>5. unihash' \in [Tasks -> Nat]
    <2>1. \A t \in Tasks : unihash[t] \in Nat /\ unihash[t] + 1 \in Nat
      BY DEF MTypeOK
    <2>2. PICK H : unihash' = [t \in Tasks |-> IF t \in H THEN unihash[t] + 1 ELSE unihash[t]]
      BY <1>1
    <2> QED BY <2>1, <2>2
  <1>6. state' \in {state, "CleanUp"}
    BY <1>1
  <1>7. sq_needed_harddeps' \subseteq Setscene /\ sq_harddep_deferred' \subseteq Setscene
        /\ holdoff_need_update' \in BOOLEAN
    BY <1>1 DEF MTypeOK, TypeOK
  <1>8. /\ updated_taskhash_queue' \subseteq updated_taskhash_queue
        /\ phase = "read" /\ phase' = "scene"
        /\ UNCHANGED <<halt, runq_buildable, runq_running, runq_complete, runq_tasksrun, active,
                       sq_live, cover, restored, interrupted>>
    BY DEF process_possible_migrations
  <1> QED BY <1>4, <1>5, <1>6, <1>7, <1>8

LEMMA MigrationType ==
  ASSUME MTypeOK, process_possible_migrations
  PROVE  MTypeOK'
  <1>1. PICK M \in SUBSET Setscene : Migrates(M)
    BY Migration
  <1>2. /\ DeferredType' /\ outrightfail' \subseteq Setscene
        /\ sq_buildable' \subseteq Setscene /\ sq_running' \subseteq Setscene
        /\ scenequeue_covered' \subseteq Setscene /\ scenequeue_notcovered' \subseteq Setscene
        /\ tasks_scenequeue_done' \subseteq Tasks /\ sqdone' \in BOOLEAN
    <2>1. CASE Redecide(M)
      BY <2>1, RedecideType DEF MTypeOK
    <2>2. CASE UNCHANGED <<sq_buildable, sq_running, scenequeue_covered, scenequeue_notcovered,
                           tasks_scenequeue_done, defer, sqdone>>
      BY <2>2 DEF MTypeOK, TypeOK, DeferredType, defer
    <2> QED BY <1>1, <2>1, <2>2 DEF Migrates
  <1>3. failed_tids' \subseteq Tasks
    BY <1>1, GraphTypes DEF Migrates, MTypeOK, TypeOK
  <1>4. pending_migrations' \subseteq Setscene
    BY DEF process_possible_migrations, MTypeOK
  <1>5. TypeOK'
    BY <1>2, <1>3, MigrationStamps DEF MTypeOK, TypeOK, DeferredType, Phases, cover
  <1> QED BY <1>4, <1>5, MigrationStamps DEF MTypeOK

LEMMA InitMType == MInit => MTypeOK
  BY InitType DEF MInit, MTypeOK

LEMMA StepMType == MTypeOK /\ [MNext]_mvars => MTypeOK'
  <1> SUFFICES ASSUME MTypeOK, [MNext]_mvars PROVE MTypeOK'
    OBVIOUS
  <1>1. CASE process_possible_migrations
    BY <1>1, MigrationType
  <1>2. CASE ~process_possible_migrations
    <2>1. TypeOK'
      <3>1. CASE [Next]_vars
        BY <3>1, StepType DEF MTypeOK
      <3>2. CASE LeftAlone
        BY <3>2 DEF LeftAlone, MTypeOK, TypeOK, Phases, build, runq, sceneq, decide, defer, cover
      <3> QED BY <1>2, <3>1, <3>2, MSteps
    <2>2. CASE UNCHANGED hashes
      BY <2>1, <2>2 DEF MTypeOK, hashes
    <2>3. CASE \E t \in Tasks : ReportRead(t)
      BY <2>1, <2>3 DEF MTypeOK, ReportRead
    <2> QED BY <1>2, <2>2, <2>3, MSteps
  <1> QED BY <1>1, <1>2

-----------------------------------------------------------------------------

(* What the steps of the run queue do, in more detail *)

FewerDeferred ==
  \A u \in DOMAIN sq_deferred' : u \in DOMAIN sq_deferred /\ sq_deferred'[u] = sq_deferred[u]

LEMMA RestrictFewer ==
  ASSUME NEW S, sq_deferred' = Restrict(sq_deferred, DOMAIN sq_deferred \ S)
  PROVE  FewerDeferred /\ DOMAIN sq_deferred' \cap S = {}
  BY DEF FewerDeferred, Restrict

\* Only the completion of a task defers others anew.
LEMMA DeferredSteps ==
  ASSUME [Next]_vars
  PROVE  \/ FewerDeferred /\ UNCHANGED runq_complete
         \/ \E t \in Tasks : runq_complete' = runq_complete \cup {t} /\ ReleaseDeferred(t)
  <1>1. CASE UNCHANGED <<sq_deferred, runq_complete>>
    BY <1>1 DEF FewerDeferred
  <1>2. CASE \E t \in Tasks : TaskExit(t) \/ task_skip(t)
    BY <1>1, <1>2 DEF TaskExit, task_skip, task_completeoutright, defer
  <1>3. CASE \E t \in Tasks : SceneUnneeded(t) \/ SceneUnavailable(t) \/ SceneStart(t)
    BY <1>3, RestrictFewer DEF SceneUnneeded, SceneUnavailable, SceneStart, runq
  <1>4. CASE \E t \in Tasks : \/ SceneExit(t) \/ SceneHardDefer(t) \/ TaskForbidden(t)
                             \/ TaskStart(t)
    BY <1>1, <1>4 DEF SceneExit, SceneHardDefer, TaskForbidden, TaskStart, sceneq, defer, runq
  <1>5. CASE ForceDeferred
    BY <1>5, RestrictFewer DEF ForceDeferred, runq
  <1>6. CASE \/ ReadDone \/ DrainDone \/ SceneNone \/ update_holdofftasks \/ CheckSceneQueue
             \/ TaskNone \/ TailRead \/ EndOfQueue \/ NextCall \/ finish \/ Stop \/ Interrupt
             \/ UNCHANGED vars
    BY <1>1, <1>6 DEF ReadDone, DrainDone, SceneNone, update_holdofftasks, CheckSceneQueue,
       TaskNone, TailRead, EndOfQueue, NextCall, finish, Stop, Interrupt, vars, sceneq, defer, runq
  <1> QED BY <1>2, <1>3, <1>4, <1>5, <1>6 DEF Next, Server, Execute, WorkerExit

LEMMA DeferredShrinks ==
  ASSUME [Next]_vars
  PROVE  DOMAIN sq_deferred' \subseteq DOMAIN sq_deferred
  <1>1. CASE FewerDeferred
    BY <1>1 DEF FewerDeferred
  <1>2. ASSUME NEW t \in Tasks, ReleaseDeferred(t)
        PROVE  DOMAIN sq_deferred' \subseteq DOMAIN sq_deferred
    BY <1>2 DEF ReleaseDeferred, defer
  <1> QED BY <1>1, <1>2, DeferredSteps

\* Only SceneStart adds a process of a setscene task, and that is not deferred.
LEMMA LiveShrinks ==
  ASSUME [Next]_vars
  PROVE  \/ sq_live' \subseteq sq_live
         \/ \E t \in Tasks : SceneStart(t) /\ sq_live' = sq_live \cup {t} /\ t \notin DOMAIN sq_deferred'
  <1>1. CASE UNCHANGED sq_live
    BY <1>1
  <1>2. CASE \E t \in Tasks : SceneExit(t)
    BY <1>2 DEF SceneExit
  <1>3. CASE \E t \in Tasks : SceneStart(t)
    BY <1>3, RestrictFewer DEF SceneStart
  <1>4. CASE \E t \in Tasks : \/ TaskExit(t) \/ task_skip(t) \/ SceneUnneeded(t)
                             \/ SceneUnavailable(t)
    BY <1>1, <1>4 DEF TaskExit, task_skip, SceneUnneeded, SceneUnavailable
  <1>5. CASE ~\E t \in Tasks : \/ TaskExit(t) \/ task_skip(t) \/ SceneUnneeded(t)
                              \/ SceneUnavailable(t) \/ SceneExit(t) \/ SceneStart(t)
    BY <1>1, <1>5, DecideUnchanged DEF vars, sceneq
  <1> QED BY <1>2, <1>3, <1>4, <1>5

\* Only TaskStart leaves a task unfinished.
LEMMA UnfinishedShrinks ==
  ASSUME [Next]_vars
  PROVE  \/ Unfinished' \subseteq Unfinished
         \/ \E t \in Tasks : TaskStart(t) /\ Unfinished' \subseteq Unfinished \cup {t}
  <1>1. CASE UNCHANGED <<runq_running, runq_complete>>
    BY <1>1 DEF Unfinished
  <1>2. CASE \E t \in Tasks : TaskExit(t)
    BY <1>2 DEF TaskExit, task_completeoutright, Unfinished
  <1>3. CASE \E t \in Tasks : task_skip(t)
    BY <1>3 DEF task_skip, task_completeoutright, Unfinished
  <1>4. CASE \E t \in Tasks : TaskStart(t)
    BY <1>4 DEF TaskStart, Unfinished
  <1>5. CASE update_holdofftasks \/ UNCHANGED vars
    BY <1>1, <1>5 DEF update_holdofftasks, vars, runq
  <1> QED BY <1>1, <1>2, <1>3, <1>4, <1>5, RunUnchanged

-----------------------------------------------------------------------------
(* Setscene tasks that are decided again *)

\* As without hash changes; a deferred task is not live, and what waits to be
\* decided again was not covered.
MUnderway ==
  /\ Underway
  /\ DOMAIN sq_deferred \cap sq_live = {}
  /\ pending_migrations \subseteq scenequeue_notcovered

MHolding ==
  /\ ~holdoff_need_update => Held \subseteq holdoff_tasks
  /\ phase \in {"sqcheck", "task", "tail"} => ~holdoff_need_update
  /\ Unfinished \cap Held = {}

LEMMA ReleaseUnderway ==
  ASSUME TypeOK, Underway, DOMAIN sq_deferred \cap sq_live = {},
         NEW t \in Tasks, ReleaseDeferred(t), UNCHANGED sq_live
  PROVE  Underway'
  <1>1. CASE UNCHANGED decide
    BY <1>1 DEF Underway, Decided, decide
  <1>2. CASE \E f \in DOMAIN sq_deferred : sq_task_skip(f)
    BY <1>2, SkipUnderway
  <1> QED BY <1>1, <1>2 DEF ReleaseDeferred

LEMMA StepUnderway ==
  ASSUME TypeOK, Underway, DOMAIN sq_deferred \cap sq_live = {}, [Next]_vars
  PROVE  Underway'
  <1>1. CASE UNCHANGED <<sq_running, sq_live, scenequeue_covered, scenequeue_notcovered>>
    BY <1>1 DEF Underway, Decided
  <1>2. CASE \E t \in Tasks : SceneExit(t)
    <2>1. PICK t \in Tasks : SceneExit(t)
      BY <1>2
    <2>2. t \in Setscene /\ t \notin Decided
      BY <2>1 DEF SceneExit, TypeOK, Underway
    <2>3. CASE sq_task_failoutright(t)
      BY <2>1, <2>2, <2>3, FailUnderway DEF SceneExit
    <2>4. CASE ~sq_task_failoutright(t)
      BY <2>1, <2>2, <2>4 DEF SceneExit, Underway, Decided
    <2> QED BY <2>3, <2>4
  <1>3. CASE \E t \in Tasks : TaskExit(t)
    BY <1>1, <1>3, ReleaseUnderway DEF TaskExit, task_completeoutright, decide
  <1>4. CASE \E t \in Tasks : task_skip(t)
    BY <1>4, ReleaseUnderway DEF task_skip, task_completeoutright
  <1>5. CASE \E t \in Tasks : SceneUnneeded(t) \/ SceneUnavailable(t)
    <2>1. PICK t \in Tasks : SceneUnneeded(t) \/ SceneUnavailable(t)
      BY <1>5
    <2>2. t \in Setscene /\ t \notin Decided /\ t \notin sq_live /\ UNCHANGED sq_live
      BY <2>1 DEF SceneUnneeded, SceneUnavailable, SearchScene, Selectable, TypeOK, Underway
    <2>3. CASE SceneUnneeded(t)
      BY <2>2, <2>3, SkipUnderway DEF SceneUnneeded
    <2>4. CASE SceneUnavailable(t)
      BY <2>2, <2>4, FailUnderway DEF SceneUnavailable
    <2> QED BY <2>1, <2>3, <2>4
  <1>6. CASE \E t \in Tasks : SceneStart(t)
    BY <1>6 DEF SceneStart, SearchScene, Selectable, Underway, Decided
  <1>7. CASE UNCHANGED vars
    BY <1>1, <1>7 DEF vars, sceneq, decide
  <1> QED BY <1>1, <1>2, <1>3, <1>4, <1>5, <1>6, <1>7, DecideUnchanged

-----------------------------------------------------------------------------

\* A task without hard dependencies fails with no other.
LEMMA FreeFromFailing ==
  ASSUME NEW d, NEW t \in Setscene, NEW u \in Setscene, HardDeps[u] = {}, u \in FailsWith(t, d)
  PROVE  u = t
  <1> SUFFICES ASSUME u # t PROVE FALSE
    OBVIOUS
  <1>1. FailClosed(Setscene \ {u}, d) /\ t \in Setscene \ {u}
    BY DEF FailClosed
  <1> QED BY <1>1 DEF FailsWith

\* What fails again was not decided, and is not running: the hard dependencies
\* of a task that runs are covered, and stay so.
LEMMA RedecideFacts ==
  ASSUME MTypeOK, MUnderway, NEW M \in SUBSET Setscene, Migrates(M), Redecide(M)
  PROVE  \E F \in SUBSET Setscene :
           /\ scenequeue_covered' = (scenequeue_covered \ M) \cup (M \cap stamped')
           /\ scenequeue_notcovered' = (scenequeue_notcovered \ M) \cup F
           /\ sq_running' = (sq_running \ M) \cup (M \cap stamped') \cup F
           /\ F \cap (sq_live \cup (Decided \ M)) = {}
           /\ \A t \in M : HardFail(t, M) => t \in F
           /\ \A u \in Setscene : HardDeps[u] = {} => u \notin F
           /\ \A u \in Setscene \ Decided' : HardDeps[u] \cap F = {}
  <1> DEFINE skipped == M \cap stamped'
             decided == (Decided \ M) \cup skipped
             F       == UNION {FailsWith(t, decided) : t \in {u \in M : HardFail(u, M)}}
  <1>1. F \in SUBSET Setscene
    BY AgainType
  <1>2. /\ scenequeue_covered' = (scenequeue_covered \ M) \cup skipped
        /\ scenequeue_notcovered' = (scenequeue_notcovered \ M) \cup F
        /\ sq_running' = (sq_running \ M) \cup (skipped \cup F)
    BY DEF Redecide
  <1>3. Decided' = decided \cup F
    BY <1>2 DEF Decided
  <1>4. \A u \in sq_live : HardDeps[u] \subseteq Decided \ M
    <2> SUFFICES ASSUME NEW u \in sq_live, NEW h \in HardDeps[u], h \in M PROVE FALSE
      BY DEF MUnderway, Underway
    <2>1. u \in Setscene \ Decided
      BY DEF MTypeOK, TypeOK, MUnderway, Underway
    <2>2. h \in Decided /\ h \notin scenequeue_notcovered
      BY <2>1 DEF MUnderway, Underway
    <2>3. h \in scenequeue_covered /\ h \notin pending_migrations
      BY <2>2 DEF MUnderway, Decided
    <2> QED BY <2>3 DEF Migrates
  <1>5. ASSUME NEW t \in M
        PROVE  FailsWith(t, decided) \cap (sq_live \cup (Decided \ M)) = {}
    <2> DEFINE X == {t} \cup (Setscene \ (sq_live \cup (Decided \ M)))
    <2>1. t \notin sq_live /\ X \in SUBSET Setscene
      BY DEF Migrates
    <2>2. FailClosed(X, decided)
      <3> SUFFICES ASSUME NEW u \in Setscene \ decided, HardDeps[u] \cap X # {} PROVE u \in X
        BY DEF FailClosed
      <3>1. u \notin sq_live
        BY <1>4
      <3> QED BY <3>1
    <2>3. FailsWith(t, decided) \subseteq X
      BY <2>1, <2>2 DEF FailsWith
    <2> QED BY <2>1, <2>3
  <1>6. F \cap (sq_live \cup (Decided \ M)) = {}
    BY <1>5
  <1>7. \A t \in M : HardFail(t, M) => t \in F
    BY DEF FailsWith
  <1>8. \A u \in Setscene \ Decided' : HardDeps[u] \cap F = {}
    <2> SUFFICES ASSUME NEW u \in Setscene \ Decided', NEW h \in HardDeps[u], h \in F PROVE FALSE
      OBVIOUS
    <2>1. PICK t \in M : HardFail(t, M) /\ h \in FailsWith(t, decided)
      OBVIOUS
    <2>2. u \in Setscene \ decided
      BY <1>3
    <2>3. u \in FailsWith(t, decided)
      BY <2>1, <2>2 DEF FailsWith, FailClosed
    <2> QED BY <1>3, <2>1, <2>3
  <1>9. \A u \in Setscene : HardDeps[u] = {} => u \notin F
    <2> SUFFICES ASSUME NEW u \in Setscene, HardDeps[u] = {},
                        NEW t \in M, HardFail(t, M), u \in FailsWith(t, decided)
                 PROVE  FALSE
      OBVIOUS
    <2>1. u # t
      BY DEF HardFail
    <2> QED BY <2>1, FreeFromFailing
  <1> HIDE DEF F, decided
  <1> QED BY <1>1, <1>2, <1>6, <1>7, <1>8, <1>9

\* Decisions other than those on M stay.
LEMMA OtherDecisions ==
  ASSUME MTypeOK, MUnderway, NEW M \in SUBSET Setscene, Migrates(M)
  PROVE  Decided \ M \subseteq Decided'
  <1>1. CASE Redecide(M)
    BY <1>1, RedecideFacts DEF Decided
  <1>2. CASE UNCHANGED <<scenequeue_covered, scenequeue_notcovered>>
    BY <1>2 DEF Decided
  <1> QED BY <1>1, <1>2 DEF Migrates

LEMMA MigrationHolding ==
  ASSUME MTypeOK, MUnderway, MHolding, process_possible_migrations
  PROVE  MHolding'
  <1>1. PICK M \in SUBSET Setscene : Migrates(M)
    BY Migration
  <1>2. /\ phase' = "scene" /\ UNCHANGED <<runq_running, runq_complete, sq_live, cover>>
    BY MigrationStamps
  <1>3. Unfinished' = Unfinished
    BY <1>2 DEF Unfinished
  <1>4. (Unfinished \cap Held = {})'
    <2> SUFFICES ASSUME NEW x \in Unfinished, x \in Held' PROVE FALSE
      BY <1>3
    <2>1. PICK s \in Setscene \ Decided' : x = s \/ x \in sq_covered_tasks[s] \ runq_complete
      BY <1>2 DEF Held
    <2>2. CASE s \notin Decided
      <3>1. x \in Held
        BY <2>1, <2>2 DEF Held
      <3> QED BY <3>1 DEF MHolding
    <2>3. CASE s \in Decided
      <3>1. s \in M
        BY <1>1, <2>1, <2>3, OtherDecisions
      <3>2. s \notin runq_running /\ sq_covered_tasks[s] \cap Unfinished = {}
        BY <1>1, <3>1 DEF Migrates, Blocked
      <3> QED BY <2>1, <3>2 DEF Unfinished
    <2> QED BY <2>2, <2>3
  <1>5. (~holdoff_need_update => Held \subseteq holdoff_tasks)'
    <2> SUFFICES ASSUME ~holdoff_need_update' PROVE Held' \subseteq holdoff_tasks'
      OBVIOUS
    <2>1. /\ UNCHANGED <<scenequeue_covered, scenequeue_notcovered>>
          /\ ~holdoff_need_update
      BY <1>1 DEF Migrates
    <2>2. Held' = Held
      BY <1>2, <2>1 DEF Held, Decided
    <2> QED BY <1>2, <2>1, <2>2 DEF MHolding, cover
  <1> QED BY <1>2, <1>4, <1>5 DEF MHolding

LEMMA MigrationUnderway ==
  ASSUME MTypeOK, MUnderway, MHolding, process_possible_migrations
  PROVE  MUnderway'
  <1>1. PICK M \in SUBSET Setscene : Migrates(M)
    BY Migration
  <1>2. UNCHANGED <<sq_live, runq_running, runq_complete>>
    BY MigrationStamps
  <1>3. pending_migrations' \cap M = {} /\ pending_migrations' \subseteq scenequeue_notcovered
    <2> SUFFICES ASSUME NEW t \in pending_migrations' PROVE t \notin M /\ t \in scenequeue_notcovered
      OBVIOUS
    <2>1. t \in Setscene /\ t \notin M /\ Blocked(t)
          /\ (t \in scenequeue_covered => t \in pending_migrations)
      BY <1>1, MigrationType DEF Migrates, MTypeOK
    <2>2. PICK x \in sq_covered_tasks[t] : x \in Unfinished
      BY <2>1 DEF Blocked
    <2>3. t \in Decided
      BY <2>1, <2>2 DEF MHolding, Held, Unfinished
    <2> QED BY <2>1, <2>3 DEF MUnderway, Decided
  <1>4. CASE ~Redecide(M)
    <2>1. UNCHANGED <<sq_running, scenequeue_covered, scenequeue_notcovered, sq_deferred>>
      BY <1>1, <1>4 DEF Migrates, defer
    <2> QED BY <1>2, <1>3, <2>1 DEF MUnderway, Underway, Decided
  <1>5. CASE Redecide(M)
    <2>1. PICK F \in SUBSET Setscene :
            /\ scenequeue_covered' = (scenequeue_covered \ M) \cup (M \cap stamped')
            /\ scenequeue_notcovered' = (scenequeue_notcovered \ M) \cup F
            /\ sq_running' = (sq_running \ M) \cup (M \cap stamped') \cup F
            /\ F \cap (sq_live \cup (Decided \ M)) = {}
            /\ \A t \in M : HardFail(t, M) => t \in F
            /\ \A u \in Setscene \ Decided' : HardDeps[u] \cap F = {}
      BY <1>1, <1>5, RedecideFacts
    <2>2. Decided' = (Decided \ M) \cup (M \cap stamped') \cup F
      BY <2>1 DEF Decided
    <2>3. M \cap sq_live = {}
      BY <1>1 DEF Migrates
    <2>4. (sq_live \cup Decided \subseteq sq_running)' /\ (sq_live \cap Decided = {})'
      BY <1>2, <2>1, <2>2, <2>3 DEF MUnderway, Underway
    <2>5. \A t \in sq_live' : HardDeps[t] \subseteq Decided'
      <3> SUFFICES ASSUME NEW t \in sq_live, NEW h \in HardDeps[t] PROVE h \in Decided'
        BY <1>2
      <3>1. t \in Setscene \ Decided
        BY DEF MTypeOK, TypeOK, MUnderway, Underway
      <3>2. h \in Decided /\ h \notin scenequeue_notcovered
        BY <3>1 DEF MUnderway, Underway
      <3>3. h \notin M
        BY <1>1, <3>2 DEF MUnderway, Migrates, Decided
      <3> QED BY <2>2, <3>2, <3>3
    <2>6. \A u \in Setscene \ Decided' : HardDeps[u] \cap scenequeue_notcovered' = {}
      <3> SUFFICES ASSUME NEW u \in Setscene \ Decided'
                   PROVE  HardDeps[u] \cap (scenequeue_notcovered \ M) = {}
        BY <2>1
      <3>1. CASE u \in M
        BY <2>1, <2>2, <3>1 DEF HardFail
      <3>2. CASE u \notin M
        <4>1. u \notin Decided
          BY <2>2, <3>2
        <4> QED BY <4>1 DEF MUnderway, Underway
      <3> QED BY <3>1, <3>2
    <2>7. (DOMAIN sq_deferred \cap sq_live = {})'
      <3>1. DOMAIN sq_deferred' \subseteq DOMAIN sq_deferred \cup M
        BY <1>5 DEF Redecide
      <3> QED BY <1>2, <2>3, <3>1 DEF MUnderway
    <2> QED BY <1>3, <2>1, <2>4, <2>5, <2>6, <2>7 DEF MUnderway, Underway
  <1> QED BY <1>4, <1>5

LEMMA StepMUnderway ==
  ASSUME MTypeOK, MUnderway, MHolding, [MNext]_mvars
  PROVE  MUnderway'
  <1>1. CASE process_possible_migrations
    BY <1>1, MigrationUnderway
  <1>2. CASE ~process_possible_migrations
    <2>1. UNCHANGED pending_migrations
      BY <1>2, MSteps DEF hashes, ReportRead
    <2>2. CASE [Next]_vars
      <3>1. Underway'
        BY <2>2, StepUnderway DEF MTypeOK, MUnderway
      <3>2. (DOMAIN sq_deferred \cap sq_live = {})'
        BY <2>2, DeferredShrinks, LiveShrinks DEF MUnderway
      <3> QED BY <2>1, <2>2, <3>1, <3>2, NothingUndone DEF MUnderway
    <2>3. CASE LeftAlone
      BY <2>1, <2>3 DEF LeftAlone, sceneq, decide, defer, MUnderway, Underway, Decided
    <2> QED BY <1>2, <2>2, <2>3, MSteps
  <1> QED BY <1>1, <1>2

LEMMA StepMHolding ==
  ASSUME MTypeOK, MUnderway, MHolding, [MNext]_mvars
  PROVE  MHolding'
  <1>1. CASE process_possible_migrations
    BY <1>1, MigrationHolding
  <1>2. CASE LeftAlone
    BY <1>2 DEF LeftAlone, MHolding, Held, Decided, Unfinished, runq, sceneq, decide, cover
  <1>3. CASE [Next]_vars
    <2>1. (~holdoff_need_update => Held \subseteq holdoff_tasks)'
      <3>1. CASE update_holdofftasks
        BY <1>3, <3>1, HeldShrinks DEF update_holdofftasks, MHolding, cover
      <3>2. CASE ~update_holdofftasks
        BY <1>3, <3>2, HeldShrinks, NeedStays, CoverUnchanged DEF MHolding, cover
      <3> QED BY <3>1, <3>2
    <2>2. (phase \in {"sqcheck", "task", "tail"} => ~holdoff_need_update)'
      BY <1>3, PhaseUpToDate DEF MHolding
    <2>3. (Unfinished \cap Held = {})'
      <3>1. ASSUME NEW t \in Tasks, TaskStart(t) PROVE t \notin Held
        BY <3>1 DEF TaskStart, SearchTask, Candidates, MHolding
      <3> QED BY <1>3, <3>1, HeldShrinks, UnfinishedShrinks DEF MHolding
    <2> QED BY <2>1, <2>2, <2>3 DEF MHolding
  <1> QED BY <1>1, <1>2, <1>3, MSteps

Migrating == MTypeOK /\ MUnderway /\ MHolding

LEMMA InitMigrating == MInit => Migrating
  <1> SUFFICES ASSUME MInit PROVE Migrating
    OBVIOUS
  <1>1. MTypeOK /\ Decisions
    BY InitMType, InitDecisions DEF MInit
  <1>2. sq_live = {} /\ runq_running = {} /\ pending_migrations = {} /\ phase = "read"
        /\ holdoff_need_update
    BY DEF MInit, Init
  <1> QED BY <1>1, <1>2 DEF Migrating, MUnderway, MHolding, Decisions, Unfinished

LEMMA StepMigrating == Migrating /\ [MNext]_mvars => Migrating'
  BY StepMType, StepMUnderway, StepMHolding DEF Migrating

\* Decisions are taken back while tasks run, and still no setscene task unpacks
\* its output while its ordinary task or one it covers is running:
\* process_possible_migrations waits for those, and what it makes undecided is
\* held from the same call on.
THEOREM MigrationKeepsApart == MSpec => []SceneExcludesReal
  <1>1. Migrating => SceneExcludesReal
    <2> SUFFICES ASSUME Migrating, NEW s \in sq_live
                 PROVE  (sq_covered_tasks[s] \cup {s}) \cap Executing = {}
      BY DEF SceneExcludesReal
    <2>1. s \in Setscene \ Decided
      BY DEF Migrating, MTypeOK, TypeOK, MUnderway, Underway
    <2>2. {s} \cup (sq_covered_tasks[s] \ runq_complete) \subseteq Held
      BY <2>1 DEF Held
    <2> QED BY <2>2 DEF Migrating, MHolding, Executing, Unfinished
  <1> QED BY <1>1, InitMigrating, StepMigrating, PTL DEF MSpec

\* A setscene task that is running finds its hard dependencies covered, though
\* decisions are taken back: none of theirs is.
THEOREM MigrationHardDependencies ==
  MSpec => [](\A t \in sq_live : HardDeps[t] \subseteq scenequeue_covered)
  <1>1. Migrating => \A t \in sq_live : HardDeps[t] \subseteq scenequeue_covered
    BY DEF Migrating, MTypeOK, TypeOK, MUnderway, Underway, Decided
  <1> QED BY <1>1, InitMigrating, StepMigrating, PTL DEF MSpec

-----------------------------------------------------------------------------

(* The slots *)

\* A task that "needs to rerun" is failed though it has no process: stats.active
\* counts the processes, or too many.
MCounted == active >= Cardinality(Executing)

MSlots == Forbidden = {} \/ halt => SlotBound /\ (MCounted \/ Over)

LEMMA ActiveUnchanged ==
  ASSUME [Next]_vars, ~(\E t \in Tasks : TaskExit(t) \/ TaskStart(t) \/ TaskForbidden(t))
  PROVE  active' = active
  <1>1. CASE \E t \in Tasks : \/ SceneExit(t) \/ SceneUnneeded(t) \/ SceneHardDefer(t)
                             \/ SceneUnavailable(t) \/ SceneStart(t) \/ task_skip(t)
    BY <1>1 DEF SceneExit, SceneUnneeded, SceneHardDefer, SceneUnavailable, SceneStart, task_skip,
       runq
  <1>2. CASE \/ ReadDone \/ DrainDone \/ SceneNone \/ update_holdofftasks \/ CheckSceneQueue
             \/ TaskNone \/ TailRead \/ ForceDeferred \/ EndOfQueue \/ NextCall \/ finish \/ Stop
             \/ Interrupt
    BY <1>2 DEF ReadDone, DrainDone, SceneNone, update_holdofftasks, CheckSceneQueue, TaskNone,
       TailRead, ForceDeferred, EndOfQueue, NextCall, finish, Stop, Interrupt, runq
  <1>3. CASE UNCHANGED vars
    BY <1>3 DEF vars, runq
  <1> QED BY <1>1, <1>2, <1>3 DEF Next, Server, Execute, WorkerExit

\* A process more or less of an ordinary task
LEMMA ExecutingCounts ==
  ASSUME TypeOK
  PROVE  /\ Executing' \subseteq Executing =>
              Cardinality(Executing') \in Nat /\ Cardinality(Executing') <= Cardinality(Executing)
         /\ \A t \in Executing : Executing' = Executing \ {t} =>
              Cardinality(Executing') = Cardinality(Executing) - 1
         /\ \A t : Executing' \subseteq Executing \cup {t} =>
              Cardinality(Executing') \in Nat /\ Cardinality(Executing') <= Cardinality(Executing) + 1
  <1>1. IsFiniteSet(Executing) /\ Cardinality(Executing) \in Nat
    BY FiniteTypes
  <1>2. ASSUME Executing' \subseteq Executing
        PROVE  Cardinality(Executing') \in Nat /\ Cardinality(Executing') <= Cardinality(Executing)
    <2>1. IsFiniteSet(Executing') /\ Cardinality(Executing') <= Cardinality(Executing)
      BY <1>1, <1>2, FS_Subset
    <2> QED BY <2>1, FS_CardinalityType
  <1>3. ASSUME NEW t \in Executing, Executing' = Executing \ {t}
        PROVE  Cardinality(Executing') = Cardinality(Executing) - 1
    BY <1>1, <1>3, FS_RemoveElement
  <1>4. ASSUME NEW t, Executing' \subseteq Executing \cup {t}
        PROVE  Cardinality(Executing') \in Nat /\ Cardinality(Executing') <= Cardinality(Executing) + 1
    <2> DEFINE More == Executing \cup {t}
    <2>1. IsFiniteSet(More)
          /\ Cardinality(More) = IF t \in Executing THEN Cardinality(Executing)
                                                    ELSE Cardinality(Executing) + 1
      BY <1>1, FS_AddElement
    <2>2. IsFiniteSet(Executing') /\ Cardinality(Executing') <= Cardinality(More)
      BY <1>4, <2>1, FS_Subset
    <2>3. Cardinality(Executing') \in Nat /\ Cardinality(More) \in Nat
      BY <2>1, <2>2, FS_CardinalityType
    <2> HIDE DEF More
    <2> QED BY <1>1, <2>1, <2>2, <2>3
  <1> QED BY <1>2, <1>3, <1>4

LEMMA StepMCounted ==
  ASSUME TypeOK, SlotBound, MCounted, [Next]_vars, ~(\E t \in Tasks : TaskForbidden(t))
  PROVE  (SlotBound /\ MCounted)'
  <1>1. active \in Int /\ Cardinality(Executing) \in Nat /\ Cardinality(sq_live) \in Nat
        /\ NumberTasks \in Nat
    BY FiniteTypes, RunAssumption DEF TypeOK
  <1>2. CASE \E t \in Tasks : TaskExit(t)
    <2>1. PICK t \in Tasks : TaskExit(t)
      BY <1>2
    <2>2. t \in Executing /\ Executing' = Executing \ {t} /\ active' = active - 1
          /\ sq_live' = sq_live
      BY <2>1 DEF TaskExit, task_completeoutright, task_fail, Executing
    <2>3. Cardinality(Executing') = Cardinality(Executing) - 1
      BY <2>2, ExecutingCounts
    <2> QED BY <1>1, <2>2, <2>3, FewerSlots DEF MCounted
  <1>3. CASE \E t \in Tasks : TaskStart(t)
    <2>1. PICK t \in Tasks : TaskStart(t)
      BY <1>3
    <2>2. /\ active' = active + 1 /\ sq_live' = sq_live
          /\ active + Cardinality(sq_live) < NumberTasks
          /\ Executing' \subseteq Executing \cup {t}
      BY <2>1, StartExecuting DEF TaskStart, SearchTask, can_start_task, sceneq
    <2>3. Cardinality(Executing') \in Nat /\ Cardinality(Executing') <= Cardinality(Executing) + 1
      BY <2>2, ExecutingCounts
    <2> QED BY <1>1, <2>2, <2>3 DEF SlotBound, MCounted
  <1>4. CASE ~(\E t \in Tasks : TaskExit(t) \/ TaskStart(t))
    <2>1. active' = active /\ Executing' \subseteq Executing
      BY <1>4, ActiveUnchanged, ExecutingShrinks
    <2>2. Cardinality(Executing') \in Nat /\ Cardinality(Executing') <= Cardinality(Executing)
      BY <2>1, ExecutingCounts
    <2>3. MCounted'
      BY <1>1, <2>1, <2>2 DEF MCounted
    <2>4. CASE sq_live' \subseteq sq_live
      BY <2>1, <2>3, <2>4, FewerSlots
    <2>5. CASE \E t \in Tasks : SceneStart(t) /\ sq_live' = sq_live \cup {t}
      <3>1. PICK t \in Tasks : SceneStart(t) /\ sq_live' = sq_live \cup {t}
        BY <2>5
      <3>2. active + Cardinality(sq_live) < NumberTasks
        BY <3>1 DEF SceneStart, SearchScene, can_start_task
      <3>3. Cardinality(sq_live') <= Cardinality(sq_live) + 1 /\ Cardinality(sq_live') \in Nat
        <4>1. IsFiniteSet(sq_live \cup {t})
              /\ Cardinality(sq_live \cup {t}) =
                   IF t \in sq_live THEN Cardinality(sq_live) ELSE Cardinality(sq_live) + 1
          BY FiniteTypes, FS_AddElement
        <4>2. Cardinality(sq_live \cup {t}) \in Nat
          BY <4>1, FS_CardinalityType
        <4> QED BY <1>1, <3>1, <4>1, <4>2
      <3> QED BY <1>1, <2>2, <2>3, <3>2, <3>3 DEF SlotBound, MCounted
    <2> QED BY <2>4, <2>5, LiveShrinks
  <1> QED BY <1>2, <1>3, <1>4

LEMMA InitMSlots == MInit => MSlots
  <1> SUFFICES ASSUME MInit PROVE MSlots
    OBVIOUS
  <1>1. Executing = {} /\ sq_live = {} /\ active = 0
    BY DEF MInit, Init, Executing
  <1>2. Cardinality({}) = 0 /\ 0 <= NumberTasks
    BY FS_EmptySet, RunAssumption
  <1> QED BY <1>1, <1>2 DEF MSlots, SlotBound, MCounted

LEMMA StepMSlots == MTypeOK /\ MSlots /\ [MNext]_mvars => MSlots'
  <1> SUFFICES ASSUME MTypeOK, MSlots, [MNext]_mvars PROVE MSlots'
    OBVIOUS
  <1>1. CASE process_possible_migrations
    <2>1. PICK M \in SUBSET Setscene : Migrates(M)
      BY <1>1, Migration
    <2>2. /\ phase = "read" /\ UNCHANGED <<halt, runq_running, runq_complete, active, sq_live>>
      BY <1>1, MigrationStamps
    <2>3. Executing' = Executing
      BY <2>1, <2>2 DEF Migrates, Executing
    <2> QED BY <2>2, <2>3 DEF MSlots, SlotBound, MCounted, Over
  <1>2. CASE LeftAlone
    BY <1>2 DEF LeftAlone, MSlots, SlotBound, MCounted, Over, Executing, build, runq, sceneq
  <1>3. CASE [Next]_vars
    <2> SUFFICES ASSUME Forbidden = {} \/ halt, SlotBound, MCounted \/ Over
                 PROVE  (SlotBound /\ (MCounted \/ Over))'
      BY <1>3, BuildFixed DEF MSlots
    <2>1. CASE Over
      BY <1>3, <2>1, OverSlots DEF MTypeOK
    <2>2. CASE MCounted /\ \E t \in Tasks : TaskForbidden(t)
      <3>1. Forbidden # {}
        BY <2>2 DEF TaskForbidden
      <3> QED BY <2>2, <3>1, ForbiddenSlots
    <2>3. CASE MCounted /\ ~(\E t \in Tasks : TaskForbidden(t))
      BY <1>3, <2>3, StepMCounted DEF MTypeOK
    <2> QED BY <2>1, <2>2, <2>3
  <1> QED BY <1>1, <1>2, <1>3, MSteps

\* The slots are respected while hashes change, too.  A task that would have
\* to run again makes stats.active count too many, never too few.
THEOREM MigrationSlots == MSpec => [](Forbidden = {} \/ halt => SlotBound)
  <1>1. MInit => MTypeOK /\ MSlots
    BY InitMType, InitMSlots
  <1>2. MTypeOK /\ MSlots /\ [MNext]_mvars => (MTypeOK /\ MSlots)'
    BY StepMType, StepMSlots
  <1>3. MTypeOK /\ MSlots => (Forbidden = {} \/ halt => SlotBound)
    BY DEF MSlots
  <1> QED BY <1>1, <1>2, <1>3, PTL DEF MSpec

-----------------------------------------------------------------------------

(* Hashes change in time *)

Search == {"scene", "holdoff", "sqcheck", "task", "tail"}

\* A report is about a task that was running when it was read; until it has been
\* handled nothing that depends on the task is started, because reports of
\* complete tasks are handled before the next search.
Reports ==
  /\ runq_complete \subseteq runq_running
  /\ updated_taskhash_queue \subseteq runq_running
  /\ \A d \in updated_taskhash_queue, t \in runq_running : d \notin Depends[t]
  /\ phase \in Search => updated_taskhash_queue \cap runq_complete = {}

LEMMA SearchSteps ==
  ASSUME [Next]_vars, phase' \in Search
  PROVE  ReadDone \/ (phase \in Search /\ UNCHANGED runq_complete)
  <1>1. CASE \E t \in Tasks : \/ SceneExit(t) \/ TaskExit(t) \/ task_skip(t) \/ TaskForbidden(t)
    BY <1>1 DEF SceneExit, TaskExit, task_skip, TaskForbidden, Search
  <1>2. CASE \E t \in Tasks : \/ SceneUnneeded(t) \/ SceneHardDefer(t) \/ SceneUnavailable(t)
                             \/ SceneStart(t) \/ TaskStart(t)
    BY <1>2 DEF SceneUnneeded, SceneHardDefer, SceneUnavailable, SceneStart, TaskStart, SearchScene,
       SearchTask, Search, runq
  <1>3. CASE \/ DrainDone \/ TailRead \/ ForceDeferred \/ EndOfQueue \/ NextCall \/ finish
             \/ Stop \/ Interrupt
    BY <1>3 DEF DrainDone, TailRead, ForceDeferred, EndOfQueue, NextCall, finish, Stop, Interrupt,
       Search
  <1>4. CASE SceneNone \/ update_holdofftasks \/ CheckSceneQueue \/ TaskNone
    BY <1>4 DEF SceneNone, update_holdofftasks, CheckSceneQueue, TaskNone, Search, runq
  <1>5. CASE UNCHANGED vars
    BY <1>5 DEF vars, runq
  <1> QED BY <1>1, <1>2, <1>3, <1>4, <1>5 DEF Next, Server, Execute, WorkerExit

\* No report is left when the search begins without process_possible_migrations.
LEMMA ReadEmpty ==
  ASSUME [MNext]_mvars, ReadDone, ~process_possible_migrations
  PROVE  updated_taskhash_queue = {}
  <1>1. phase = "read" /\ phase' = "scene"
    BY DEF ReadDone
  <1>2. ~UNCHANGED mvars
    BY <1>1 DEF mvars, vars
  <1>3. ~Execute
    BY <1>1 DEF Execute, SceneUnneeded, SceneHardDefer, SceneUnavailable, SceneStart, SearchScene,
       TaskForbidden, task_skip, TaskStart, SearchTask, DrainDone, SceneNone, update_holdofftasks,
       TaskNone, TailRead, ForceDeferred, EndOfQueue, NextCall, finish, Stop
  <1>4. ~CheckQueues /\ ~(\E t \in Tasks : ReportRead(t)) /\ ~(\E t \in Tasks : WorkerExit(t))
        /\ ~Interrupt
    BY <1>1 DEF CheckQueues, CheckSceneQueue, ReportRead, vars, WorkerExit, SceneExit, TaskExit,
       Interrupt
  <1>5. ReadAll
    BY <1>2, <1>3, <1>4 DEF MNext
  <1> QED BY <1>5 DEF ReadAll

LEMMA RunningGrows ==
  ASSUME [Next]_vars
  PROVE  \/ UNCHANGED runq_running
         \/ \E t \in Tasks : /\ runq_running' = runq_running \cup {t}
                             /\ t \in runq_buildable /\ phase = "task"
  <1>1. CASE UNCHANGED runq_running
    BY <1>1
  <1>2. CASE \E t \in Tasks : TaskExit(t)
    BY <1>2 DEF TaskExit
  <1>3. CASE \E t \in Tasks : task_skip(t) \/ TaskStart(t)
    BY <1>3 DEF task_skip, TaskStart, SearchTask, Candidates
  <1>4. CASE update_holdofftasks \/ UNCHANGED vars
    BY <1>1, <1>4 DEF update_holdofftasks, vars, runq
  <1> QED BY <1>1, <1>2, <1>3, <1>4, RunUnchanged

LEMMA InitReports == MInit => Reports
  BY DEF MInit, Init, Reports

LEMMA StepMReady == MTypeOK /\ Ready /\ [MNext]_mvars => Ready'
  <1> SUFFICES ASSUME MTypeOK, Ready, [MNext]_mvars PROVE Ready'
    OBVIOUS
  <1>1. CASE process_possible_migrations
    BY <1>1, MigrationStamps DEF Ready
  <1>2. CASE LeftAlone
    BY <1>2 DEF LeftAlone, Ready, runq
  <1> QED BY <1>1, <1>2, MSteps, StepReady DEF MTypeOK

LEMMA StepReports == MTypeOK /\ Ready /\ Reports /\ [MNext]_mvars => Reports'
  <1> SUFFICES ASSUME MTypeOK, Ready, Reports, [MNext]_mvars PROVE Reports'
    OBVIOUS
  <1>1. CASE process_possible_migrations
    <2>1. UNCHANGED <<runq_running, runq_complete>>
      BY <1>1, MigrationStamps
    <2>2. updated_taskhash_queue' = updated_taskhash_queue \cap Unfinished
      BY <1>1 DEF process_possible_migrations
    <2> QED BY <2>1, <2>2 DEF Reports, Unfinished
  <1>2. CASE UNCHANGED vars /\ \E t \in Tasks : ReportRead(t)
    <2>1. PICK t \in Tasks : ReportRead(t)
      BY <1>2
    <2>2. t \in Executing /\ phase \notin Search /\ updated_taskhash_queue' = updated_taskhash_queue \cup {t}
          /\ UNCHANGED <<runq_running, runq_complete, phase>>
      BY <1>2, <2>1 DEF ReportRead, Search, vars, runq
    <2>3. \A r \in runq_running : t \notin Depends[r]
      BY <2>2 DEF Ready, Executing
    <2> QED BY <2>2, <2>3 DEF Reports, Executing
  <1>3. CASE UNCHANGED hashes /\ LeftAlone
    BY <1>3 DEF LeftAlone, hashes, Reports, runq, Search
  <1>4. CASE UNCHANGED hashes /\ [Next]_vars /\ ~process_possible_migrations
    <2>1. (runq_complete \subseteq runq_running)' /\ runq_running \subseteq runq_running'
      BY <1>4, StepComplete, RunningGrows DEF Reports
    <2>2. ASSUME NEW d \in updated_taskhash_queue, NEW t \in runq_running', d \in Depends[t]
          PROVE  FALSE
      <3>1. t \in runq_buildable /\ phase = "task"
        BY <1>4, <2>2, RunningGrows DEF Reports
      <3>2. d \in runq_complete
        BY <2>2, <3>1 DEF Ready
      <3> QED BY <3>1, <3>2 DEF Reports, Search
    <2>3. ASSUME phase' \in Search PROVE updated_taskhash_queue \cap runq_complete' = {}
      BY <1>4, <2>3, SearchSteps, ReadEmpty DEF Reports
    <2> QED BY <1>4, <2>1, <2>2, <2>3 DEF hashes, Reports
  <1> QED BY <1>1, <1>2, <1>3, <1>4, MSteps

\* "Ordinary tasks start after their dependencies" holds, too.
THEOREM MigrationDependencies == MSpec => []AfterDependencies
  <1>1. MInit => MTypeOK /\ Ready
    BY InitMType, InitReady DEF MInit
  <1>2. MTypeOK /\ Ready /\ [MNext]_mvars => (MTypeOK /\ Ready)'
    BY StepMType, StepMReady
  <1>3. Ready => AfterDependencies
    BY DEF Ready, AfterDependencies, Executing
  <1> QED BY <1>1, <1>2, <1>3, PTL DEF MSpec

-----------------------------------------------------------------------------

(* Deferred setscene tasks that may report *)

\* The code hands the new hash of a reported task to those deferred after it.
\* If a deferred task could fail with a hard dependency, its ordinary task
\* could run and report while others are deferred after it again.
FollowersFree == \A t \in Reporting : Leader[t] # t => HardDeps[t] = {}

\* Such a task stays undecided, or is covered for its stamp, until it is not
\* deferred any more: its ordinary task does not run.  So no task is deferred
\* after one that was reported and is complete.
Followers ==
  /\ \A t \in DOMAIN sq_deferred : Leader[t] # t
  /\ \A t \in DOMAIN sq_deferred \cap Reporting :
       /\ t \notin scenequeue_notcovered \cup Unfinished \cup updated_taskhash_queue
       /\ t \in scenequeue_covered => t \in stamped
  /\ \A u \in DOMAIN sq_deferred :
       sq_deferred[u] \notin updated_taskhash_queue \cap runq_complete

LEMMA InitFollowers == MInit => Followers
  BY DEF MInit, Init, Followers, Unfinished, StampedScene

\* The decisions of a step, on tasks that stay deferred
LEMMA DeferredDecisions ==
  ASSUME MTypeOK, MUnderway, FollowersFree, Followers, [Next]_vars,
         NEW u \in DOMAIN sq_deferred' \cap Reporting
  PROVE  u \notin scenequeue_notcovered' /\ (u \in scenequeue_covered' => u \in stamped)
  <1>1. u \in DOMAIN sq_deferred /\ HardDeps[u] = {} /\ u \in Setscene
    BY DeferredShrinks, GraphTypes DEF Followers, FollowersFree
  <1>2. u \notin sq_live
    BY <1>1 DEF MUnderway
  <1>3. CASE UNCHANGED <<scenequeue_covered, scenequeue_notcovered>>
    BY <1>1, <1>3 DEF Followers
  <1>4. ASSUME NEW t \in Setscene, t # u, sq_task_failoutright(t)
        PROVE  u \notin scenequeue_notcovered' /\ (u \in scenequeue_covered' => u \in stamped)
    BY <1>1, <1>4, FreeFromFailing DEF sq_task_failoutright, Followers
  <1>5. ASSUME NEW t \in Tasks, ReleaseDeferred(t)
        PROVE  u \notin scenequeue_notcovered' /\ (u \in scenequeue_covered' => u \in stamped)
    BY <1>1, <1>3, <1>5 DEF ReleaseDeferred, decide, sq_task_skip, Followers
  <1>6. CASE \E t \in Tasks : SceneExit(t)
    BY <1>1, <1>2, <1>4, <1>6 DEF SceneExit, Followers, MTypeOK, TypeOK
  <1>7. CASE \E t \in Tasks : TaskExit(t)
    BY <1>3, <1>5, <1>7 DEF TaskExit, task_completeoutright, decide
  <1>8. CASE \E t \in Tasks : task_skip(t)
    BY <1>5, <1>8 DEF task_skip, task_completeoutright
  <1>9. CASE \E t \in Tasks : SceneUnneeded(t)
    BY <1>1, <1>9, RestrictFewer DEF SceneUnneeded, sq_task_skip, Followers
  <1>10. CASE \E t \in Tasks : SceneUnavailable(t)
    <2>1. PICK t \in Tasks : SceneUnavailable(t)
      BY <1>10
    <2>2. t \in Setscene /\ t # u /\ sq_task_failoutright(t)
      BY <2>1, RestrictFewer DEF SceneUnavailable, SearchScene, Selectable, MTypeOK, TypeOK
    <2> QED BY <1>4, <2>2
  <1>11. CASE \E t \in Tasks : SceneStart(t)
    BY <1>3, <1>11 DEF SceneStart
  <1>12. CASE UNCHANGED vars
    BY <1>3, <1>12 DEF vars, sceneq, decide
  <1> QED BY <1>3, <1>6, <1>7, <1>8, <1>9, <1>10, <1>11, <1>12, DecideUnchanged

\* A task that is deferred and may report is not started.
LEMMA DeferredNotStarted ==
  ASSUME MTypeOK, MHolding, Followers, NEW t \in DOMAIN sq_deferred \cap Reporting, TaskStart(t)
  PROVE  FALSE
  <1>1. t \in Setscene /\ t \notin scenequeue_notcovered /\ t \notin stamped
    BY GraphTypes DEF Followers, TaskStart
  <1>2. t \in Setscene \ Decided
    BY <1>1 DEF Followers, Decided
  <1>3. t \in Held
    BY <1>2 DEF Held
  <1> QED BY <1>3 DEF MHolding, TaskStart, SearchTask, Candidates

LEMMA RunFollowers ==
  ASSUME MTypeOK, MUnderway, MHolding, Reports, FollowersFree, Followers, [Next]_vars,
         UNCHANGED updated_taskhash_queue
  PROVE  Followers'
  <1>1. DOMAIN sq_deferred' \subseteq DOMAIN sq_deferred /\ stamped' = stamped
    BY DeferredShrinks, BuildFixed
  <1>2. \A t \in DOMAIN sq_deferred' \cap Reporting : t \notin Unfinished'
    BY <1>1, UnfinishedShrinks, DeferredNotStarted DEF Followers
  <1>3. ASSUME NEW u \in DOMAIN sq_deferred'
        PROVE  sq_deferred'[u] \notin updated_taskhash_queue \cap runq_complete'
    <2>1. CASE FewerDeferred /\ UNCHANGED runq_complete
      BY <1>3, <2>1 DEF FewerDeferred, Followers
    <2>2. CASE \E t \in Tasks : runq_complete' = runq_complete \cup {t} /\ ReleaseDeferred(t)
      <3>1. PICK t \in Tasks : runq_complete' = runq_complete \cup {t} /\ ReleaseDeferred(t)
        BY <2>2
      <3> DEFINE waiting == {x \in DOMAIN sq_deferred : sq_deferred[x] = t}
      <3>2. CASE waiting = {} /\ UNCHANGED sq_deferred
        BY <1>3, <3>1, <3>2 DEF Followers
      <3>3. CASE \E f \in waiting :
                   sq_deferred' = [x \in DOMAIN sq_deferred \ {f} |->
                                     IF x \in waiting THEN f ELSE sq_deferred[x]]
        <4>1. PICK f \in waiting :
                sq_deferred' = [x \in DOMAIN sq_deferred \ {f} |->
                                  IF x \in waiting THEN f ELSE sq_deferred[x]]
          BY <3>3
        <4>2. f \in DOMAIN sq_deferred /\ f \notin updated_taskhash_queue
          BY DEF Followers, MTypeOK
        <4>3. CASE u \in waiting
          BY <1>3, <4>1, <4>2, <4>3
        <4>4. CASE u \notin waiting
          <5>1. u \in DOMAIN sq_deferred /\ sq_deferred'[u] = sq_deferred[u] /\ sq_deferred[u] # t
            BY <1>3, <4>1, <4>4
          <5> QED BY <3>1, <5>1 DEF Followers
        <4> QED BY <4>3, <4>4
      <3> QED BY <3>1, <3>2, <3>3 DEF ReleaseDeferred, defer
    <2> QED BY <2>1, <2>2, DeferredSteps
  <1> QED BY <1>1, <1>2, <1>3, DeferredDecisions DEF Followers

LEMMA MigrationFollowers ==
  ASSUME MTypeOK, MUnderway, Reports, FollowersFree, Followers, process_possible_migrations
  PROVE  Followers'
  <1>1. PICK M \in SUBSET Setscene : Migrates(M)
    BY Migration
  <1>2. UNCHANGED <<runq_running, runq_complete>> /\ stamped \cap scenequeue_covered \subseteq stamped'
    BY MigrationStamps DEF Kept
  <1>3. Unfinished' = Unfinished
    BY <1>2 DEF Unfinished
  <1>4. updated_taskhash_queue' = updated_taskhash_queue \cap Unfinished
    BY DEF process_possible_migrations
  <1>5. \A u \in DOMAIN sq_deferred' :
          sq_deferred'[u] \notin updated_taskhash_queue' \cap runq_complete'
    BY <1>2, <1>4 DEF Unfinished
  <1>6. CASE ~Redecide(M)
    BY <1>1, <1>2, <1>3, <1>4, <1>5, <1>6 DEF Migrates, defer, Followers
  <1>7. CASE Redecide(M)
    <2>1. PICK F \in SUBSET Setscene :
            /\ scenequeue_covered' = (scenequeue_covered \ M) \cup (M \cap stamped')
            /\ scenequeue_notcovered' = (scenequeue_notcovered \ M) \cup F
            /\ \A u \in Setscene : HardDeps[u] = {} => u \notin F
      BY <1>1, <1>7, RedecideFacts
    <2>2. \A t \in DOMAIN sq_deferred' : t \in DOMAIN sq_deferred \/ (t \in M /\ Leader[t] # t)
      BY <1>7 DEF Redecide
    <2>3. \A t \in DOMAIN sq_deferred' : Leader[t] # t
      BY <2>2 DEF Followers
    <2>4. ASSUME NEW t \in DOMAIN sq_deferred' \cap Reporting
          PROVE  /\ t \notin scenequeue_notcovered' \cup Unfinished' \cup updated_taskhash_queue'
                 /\ t \in scenequeue_covered' => t \in stamped'
      <3>1. t \notin F
        BY <2>1, <2>3, GraphTypes DEF FollowersFree
      <3>2. CASE t \in M
        <4>1. t \notin runq_running
          BY <1>1, <3>2 DEF Migrates
        <4> QED BY <1>3, <1>4, <2>1, <3>1, <3>2, <4>1 DEF Unfinished
      <3>3. CASE t \notin M
        <4>1. t \in DOMAIN sq_deferred
          BY <2>2, <3>3
        <4> QED BY <1>2, <1>3, <1>4, <2>1, <3>1, <3>3, <4>1 DEF Followers
      <3> QED BY <3>2, <3>3
    <2> QED BY <1>5, <2>3, <2>4 DEF Followers
  <1> QED BY <1>6, <1>7

LEMMA StepFollowers ==
  ASSUME Migrating, Reports, FollowersFree, Followers, [MNext]_mvars
  PROVE  Followers'
  <1>1. CASE process_possible_migrations
    BY <1>1, MigrationFollowers DEF Migrating
  <1>2. CASE UNCHANGED vars /\ \E t \in Tasks : ReportRead(t)
    <2>1. PICK t \in Tasks : ReportRead(t)
      BY <1>2
    <2>2. /\ t \in (Unfinished \cap Reporting) \ runq_complete
          /\ updated_taskhash_queue' = updated_taskhash_queue \cup {t}
          /\ UNCHANGED <<sq_deferred, scenequeue_covered, scenequeue_notcovered, stamped>>
          /\ UNCHANGED <<runq_running, runq_complete>>
      BY <1>2, <2>1 DEF ReportRead, Executing, Unfinished, vars, sceneq, decide, defer, runq, build
    <2> QED BY <2>2 DEF Followers, Unfinished
  <1>3. CASE UNCHANGED hashes /\ LeftAlone
    BY <1>3 DEF LeftAlone, hashes, Followers, Unfinished, sceneq, decide, defer, runq, build
  <1>4. CASE UNCHANGED hashes /\ [Next]_vars
    BY <1>4, RunFollowers DEF hashes, Migrating
  <1> QED BY <1>1, <1>2, <1>3, <1>4, MSteps

InTime ==
  \A t \in Tasks \ Rehashed(updated_taskhash_queue) :
    unihash'[t] # unihash[t] => t \notin runq_running \cup sq_live \cup scenequeue_covered

\* The dependencies of a task that runs are complete.  If it got a new hash,
\* the lowest such task would get it from one that was reported, and nothing
\* above that one was started.
LEMMA ChangesInTime ==
  ASSUME Migrating, Ready, Reports, Followers, [MNext]_mvars
  PROVE  InTime
  <1>1. CASE ~process_possible_migrations
    BY <1>1, MSteps DEF hashes, ReportRead, InTime
  <1>2. CASE process_possible_migrations
    <2> DEFINE reported == updated_taskhash_queue \ Unfinished
               source   == Rehashed(reported)
    <2>1. PICK C \in NewHashes(source) :
            unihash' = [t \in Tasks |-> IF t \in source \cup (C \ Kept) THEN unihash[t] + 1
                                                                      ELSE unihash[t]]
      BY <1>2 DEF process_possible_migrations
    <2>2. C \subseteq Tasks /\ \A t \in C : Depends[t] \cap (source \cup C) # {}
      BY DEF NewHashes
    <2>3. source \subseteq Rehashed(updated_taskhash_queue)
      BY DEF Rehashed
    <2>4. \A t \in runq_running : Depends[t] \cap source = {}
      <3> SUFFICES ASSUME NEW t \in runq_running, NEW d \in Depends[t], d \in source PROVE FALSE
        OBVIOUS
      <3>1. d \notin reported
        BY DEF Reports
      <3>2. d \in DOMAIN sq_deferred /\ sq_deferred[d] \in reported
        BY <3>1 DEF Rehashed
      <3>3. sq_deferred[d] \in updated_taskhash_queue \cap runq_complete
        BY <3>2 DEF Reports, Unfinished
      <3> QED BY <3>2, <3>3 DEF Followers
    <2>5. C \cap runq_running = {}
      <3> SUFFICES ASSUME C \cap runq_running # {} PROVE FALSE
        OBVIOUS
      <3>1. C \cap runq_running \in SUBSET Tasks
        BY <2>2
      <3>2. PICK t \in C \cap runq_running : Depends[t] \cap (C \cap runq_running) = {}
        BY <3>1, FirstTask
      <3>3. PICK d \in Depends[t] : d \in C
        BY <2>2, <2>4
      <3>4. d \in runq_running
        BY DEF Ready, Reports
      <3> QED BY <3>2, <3>3, <3>4
    <2> SUFFICES ASSUME NEW t \in Tasks, t \notin Rehashed(updated_taskhash_queue),
                        unihash'[t] # unihash[t]
                 PROVE  t \notin runq_running \cup sq_live \cup scenequeue_covered
      BY DEF InTime
    <2>6. t \in C \ Kept
      BY <2>1, <2>3
    <2> QED BY <2>5, <2>6 DEF Kept
  <1> QED BY <1>1, <1>2

\* Whatever the server answers, in whatever order reports and exit codes are
\* read: when process_possible_migrations changes hashes, no task that has one
\* of them from below is running or was run or restored.
THEOREM RehashedBeforeUse == ASSUME FollowersFree PROVE MSpec => RehashedInTime
  <1> DEFINE I == Migrating /\ Ready /\ Reports /\ Followers
  <1>1. MInit => I
    BY InitMigrating, InitReady, InitReports, InitFollowers DEF MInit
  <1>2. I /\ [MNext]_mvars => I'
    BY StepMigrating, StepMReady, StepReports, StepFollowers DEF Migrating
  <1>3. I /\ [MNext]_mvars => InTime
    BY ChangesInTime
  <1> QED BY <1>1, <1>2, <1>3, PTL DEF MSpec, RehashedInTime, InTime

-----------------------------------------------------------------------------
(* What a task needs was made *)

\* A setscene task that is decided again was not covered, unless it was both
\* covered and not covered.
LEMMA MigrationCovers ==
  ASSUME MTypeOK, MUnderway, DecidedOnce, process_possible_migrations
  PROVE  \E M \in SUBSET Setscene :
           /\ M \cap runq_running = {}
           /\ \A t \in M : sq_covered_tasks[t] \cap Unfinished = {}
           /\ failed_tids \subseteq failed_tids'
           /\ scenequeue_covered \subseteq scenequeue_covered'
           /\ scenequeue_covered' \subseteq scenequeue_covered \cup stamped'
           /\ scenequeue_notcovered \ M \subseteq scenequeue_notcovered'
           /\ ~holdoff_need_update' =>
                /\ ~holdoff_need_update
                /\ UNCHANGED <<scenequeue_covered, scenequeue_notcovered, tasks_scenequeue_done>>
  <1>1. PICK M \in SUBSET Setscene : Migrates(M)
    BY Migration
  <1>2. /\ M \cap runq_running = {} /\ failed_tids \subseteq failed_tids'
        /\ \A t \in M : sq_covered_tasks[t] \cap Unfinished = {}
    BY <1>1 DEF Migrates, Blocked
  <1>3. CASE Redecide(M) /\ holdoff_need_update'
    <2>1. M \cap scenequeue_covered = {}
      BY <1>1 DEF Migrates, MUnderway, DecidedOnce
    <2>2. PICK F \in SUBSET Setscene :
            /\ scenequeue_covered' = (scenequeue_covered \ M) \cup (M \cap stamped')
            /\ scenequeue_notcovered' = (scenequeue_notcovered \ M) \cup F
      BY <1>1, <1>3, RedecideFacts
    <2> QED BY <1>2, <1>3, <2>1, <2>2
  <1>4. CASE ~(Redecide(M) /\ holdoff_need_update')
    BY <1>1, <1>2, <1>4 DEF Migrates
  <1> QED BY <1>3, <1>4

LEMMA MigrationNeeds ==
  ASSUME MTypeOK, MUnderway, DecidedOnce, Needs, process_possible_migrations
  PROVE  Needs'
  <1>1. PICK M \in SUBSET Setscene :
           /\ M \cap runq_running = {}
           /\ \A t \in M : sq_covered_tasks[t] \cap Unfinished = {}
           /\ failed_tids \subseteq failed_tids'
           /\ scenequeue_covered \subseteq scenequeue_covered'
           /\ scenequeue_covered' \subseteq scenequeue_covered \cup stamped'
           /\ scenequeue_notcovered \ M \subseteq scenequeue_notcovered'
           /\ ~holdoff_need_update' =>
                /\ ~holdoff_need_update
                /\ UNCHANGED <<scenequeue_covered, scenequeue_notcovered, tasks_scenequeue_done>>
    BY MigrationCovers
  <1>2. /\ stamped \cap scenequeue_covered \subseteq stamped' /\ phase' = "scene"
        /\ UNCHANGED <<runq_running, runq_complete, runq_tasksrun, cover, restored>>
    BY MigrationStamps DEF Kept
  <1>3. Unneeded'
    <2> SUFFICES ASSUME NEW d \in scenequeue_covered', d \notin stamped' \cup restored'
                 PROVE  d \notin unskippable /\ sq_revdeps[d] \subseteq scenequeue_covered'
      BY DEF Unneeded
    <2>1. d \in scenequeue_covered \ (stamped \cup restored)
      BY <1>1, <1>2
    <2> QED BY <1>1, <2>1 DEF Needs, Unneeded
  <1>4. Skipped'
    BY <1>1, <1>2 DEF Needs, Skipped
  <1>5. UpToDate'
    <2> SUFFICES ASSUME ~holdoff_need_update'
                 PROVE  tasks_covered' = Covered' /\ tasks_notcovered' = NotCovered'
      BY <1>2 DEF UpToDate
    <2>1. Covered' = Covered /\ NotCovered' = NotCovered
      BY <1>1 DEF Covered, NotCovered
    <2> QED BY <1>1, <1>2, <2>1 DEF Needs, UpToDate, cover
  <1>6. (Executing \subseteq MustRun)'
    <2> SUFFICES ASSUME NEW t \in Executing' PROVE t \in MustRun'
      OBVIOUS
    <2>1. t \in Executing /\ t \in Unfinished /\ t \in runq_running
      BY <1>1, <1>2 DEF Executing, Unfinished
    <2>2. t \in MustRun
      BY <2>1 DEF Needs
    <2>3. CASE t \in scenequeue_notcovered \cup cantskip \cup (unskippable \ Setscene)
      BY <1>1, <2>1, <2>3 DEF MustRun
    <2>4. CASE \E s \in scenequeue_notcovered : t \in sq_covered_tasks[s]
      BY <1>1, <2>1, <2>4 DEF MustRun
    <2> QED BY <2>2, <2>3, <2>4 DEF MustRun
  <1> QED BY <1>2, <1>3, <1>4, <1>5, <1>6 DEF Needs

LEMMA StepMNeeds == Migrating /\ DecidedOnce /\ Needs /\ [MNext]_mvars => Needs'
  <1> SUFFICES ASSUME Migrating, DecidedOnce, Needs, [MNext]_mvars PROVE Needs'
    OBVIOUS
  <1>1. CASE process_possible_migrations
    BY <1>1, MigrationNeeds DEF Migrating
  <1>2. CASE LeftAlone
    BY <1>2 DEF LeftAlone, Needs, Executing, MustRun, Unneeded, Skipped, UpToDate, Covered,
       NotCovered, build, runq, sceneq, decide, cover
  <1>3. CASE [Next]_vars
    <2>1. HoldsOff
      BY DEF Migrating, MHolding, HoldsOff
    <2> QED BY <1>3, <2>1, StepNeeds DEF Migrating, MTypeOK
  <1> QED BY <1>1, <1>2, <1>3, MSteps

\* A task finds what it depends on although setscene tasks are decided again
\* below tasks that run, as long as none was both covered and not covered: what
\* was covered stays so, and what is not covered any more has nothing running.
\* (process_possible_migrations, update_holdofftasks)
THEOREM MigrationInputs ==
  MSpec /\ []DecidedOnce =>
    [](/\ \A t \in Executing : Depends[t] \subseteq Made
       /\ HardDepsAreDeps => InputsPresent)
  <1> DEFINE I == Migrating /\ Ready /\ Needs
  <1>1. MInit => I
    BY InitMigrating, InitReady, InitNeeds DEF MInit
  <1>2. I /\ DecidedOnce /\ [MNext]_mvars => I'
    BY StepMigrating, StepMReady, StepMNeeds DEF Migrating
  <1> DEFINE P == /\ \A t \in Executing : Depends[t] \subseteq Made
                  /\ HardDepsAreDeps => InputsPresent
  <1>3. I /\ DecidedOnce => P
    BY NeedsMade, HardDepsMade DEF InputsPresent, Migrating, MTypeOK, MUnderway
  <1> HIDE DEF I, P
  <1>4. MSpec /\ []DecidedOnce => []P
    BY <1>1, <1>2, <1>3, PTL DEF MSpec
  <1> QED BY <1>4 DEF P

\* A task that was skipped is below no setscene task that is decided again: it
\* would have to "rerun", and the build would be over.
Reruns == process_possible_migrations => UNCHANGED <<failed_tids, state>>

LEMMA NeverReruns ==
  ASSUME MTypeOK, MUnderway, DecidedOnce, Needs, process_possible_migrations
  PROVE  UNCHANGED <<failed_tids, state>>
  <1>1. PICK M \in SUBSET Setscene :
          /\ failed_tids' = failed_tids \cup {t \in M : NeedsRerun(t)}
          /\ state' = IF \E t \in M : NeedsRerun(t) THEN "CleanUp" ELSE state
          /\ M \cap scenequeue_covered = {}
    <2> DEFINE reported == updated_taskhash_queue \ Unfinished
               source   == Rehashed(reported)
    <2>1. PICK C \in NewHashes(source) :
            LET changed == C \ Kept
                pending == (pending_migrations \cup (changed \cap Setscene))
                             \ (runq_running \cup sq_live)
                M       == {t \in pending : ~Blocked(t)}
            IN
            /\ failed_tids' = failed_tids \cup {t \in M : NeedsRerun(t)}
            /\ state' = IF \E t \in M : NeedsRerun(t) THEN "CleanUp" ELSE state
      BY DEF process_possible_migrations
    <2> DEFINE changed == C \ Kept
               pending == (pending_migrations \cup (changed \cap Setscene))
                             \ (runq_running \cup sq_live)
               M       == {t \in pending : ~Blocked(t)}
    <2>2. M \in SUBSET Setscene
      BY DEF MTypeOK
    <2>3. M \cap scenequeue_covered = {}
      BY DEF Kept, MUnderway, DecidedOnce
    <2>4. /\ failed_tids' = failed_tids \cup {t \in M : NeedsRerun(t)}
          /\ state' = IF \E t \in M : NeedsRerun(t) THEN "CleanUp" ELSE state
      BY <2>1
    <2> HIDE DEF M
    <2> QED BY <2>2, <2>3, <2>4
  <1>2. \A t \in M : ~NeedsRerun(t)
    <2> SUFFICES ASSUME NEW t \in M, NEW d \in sq_covered_tasks[t],
                        d \in runq_complete \ runq_tasksrun
                 PROVE  FALSE
      BY DEF NeedsRerun
    <2>1. t \in Setscene \ scenequeue_covered /\ d \notin Setscene
      BY <1>1 DEF sq_covered_tasks
    <2> QED BY <2>1 DEF Needs, Skipped, MTypeOK, TypeOK
  <1> QED BY <1>1, <1>2

\* "marked as completed but now needing to rerun" is not reached: what was
\* skipped as covered is only below setscene tasks that stay covered.
\* (runqueue.py:2674-2679)
THEOREM NothingReruns == MSpec /\ []DecidedOnce => [][Reruns]_mvars
  <1> DEFINE I == Migrating /\ Ready /\ Needs
  <1>1. MInit => I
    BY InitMigrating, InitReady, InitNeeds DEF MInit
  <1>2. I /\ DecidedOnce /\ [MNext]_mvars => I'
    BY StepMigrating, StepMReady, StepMNeeds DEF Migrating
  <1>3. I /\ DecidedOnce => Reruns
    BY NeverReruns DEF Reruns, Migrating
  <1> HIDE DEF I
  <1> QED BY <1>1, <1>2, <1>3, PTL DEF MSpec

\* Without hard dependencies nothing fails but what could not be restored, and
\* that is deferred no longer.
Once == DecidedOnce /\ DOMAIN sq_deferred \cap scenequeue_notcovered = {}

NoHardDeps == \A t \in Setscene : HardDeps[t] = {}

LEMMA FailsOnItsOwn ==
  ASSUME NoHardDeps, NEW t \in Setscene, NEW d
  PROVE  FailsWith(t, d) \subseteq {t}
  <1>1. \A u \in FailsWith(t, d) : u \in Setscene
    BY DEF FailsWith
  <1> QED BY <1>1, FreeFromFailing DEF NoHardDeps

LEMMA ReleaseOnce ==
  ASSUME Once, NEW t \in Tasks, ReleaseDeferred(t)
  PROVE  Once'
  <1>1. DOMAIN sq_deferred' \subseteq DOMAIN sq_deferred
    BY DEF ReleaseDeferred, defer
  <1>2. CASE UNCHANGED decide
    BY <1>1, <1>2 DEF Once, DecidedOnce, decide
  <1>3. CASE \E f \in DOMAIN sq_deferred : sq_task_skip(f)
    BY <1>1, <1>3 DEF Once, DecidedOnce, sq_task_skip
  <1> QED BY <1>2, <1>3 DEF ReleaseDeferred

LEMMA StepOnce ==
  ASSUME MTypeOK, MUnderway, NoHardDeps, Once, [Next]_vars
  PROVE  Once'
  <1>1. DOMAIN sq_deferred' \subseteq DOMAIN sq_deferred
    BY DeferredShrinks
  <1>2. CASE UNCHANGED <<scenequeue_covered, scenequeue_notcovered>>
    BY <1>1, <1>2 DEF Once, DecidedOnce
  <1>3. CASE \E t \in Tasks : SceneExit(t)
    <2>1. PICK t \in Tasks : SceneExit(t)
      BY <1>3
    <2>2. t \in Setscene /\ t \notin Decided /\ t \notin DOMAIN sq_deferred
      BY <2>1 DEF SceneExit, MTypeOK, TypeOK, MUnderway, Underway
    <2>3. CASE sq_task_failoutright(t)
      BY <1>1, <2>2, <2>3, FailsOnItsOwn DEF sq_task_failoutright, Once, DecidedOnce, Decided
    <2>4. CASE ~sq_task_failoutright(t)
      BY <1>1, <2>1, <2>2, <2>4 DEF SceneExit, Once, DecidedOnce, Decided
    <2> QED BY <2>3, <2>4
  <1>4. CASE \E t \in Tasks : TaskExit(t)
    BY <1>2, <1>4, ReleaseOnce DEF TaskExit, task_completeoutright, decide
  <1>5. CASE \E t \in Tasks : task_skip(t)
    BY <1>5, ReleaseOnce DEF task_skip, task_completeoutright
  <1>6. CASE \E t \in Tasks : SceneUnneeded(t) \/ SceneUnavailable(t)
    <2>1. PICK t \in Tasks : SceneUnneeded(t) \/ SceneUnavailable(t)
      BY <1>6
    <2>2. t \in Setscene /\ t \notin Decided /\ t \notin DOMAIN sq_deferred'
      BY <2>1, RestrictFewer DEF SceneUnneeded, SceneUnavailable, SearchScene, Selectable, MTypeOK,
         TypeOK, MUnderway, Underway
    <2>3. CASE SceneUnneeded(t)
      BY <1>1, <2>2, <2>3 DEF SceneUnneeded, sq_task_skip, Once, DecidedOnce, Decided
    <2>4. CASE SceneUnavailable(t)
      BY <1>1, <2>2, <2>4, FailsOnItsOwn DEF SceneUnavailable, sq_task_failoutright, Once,
         DecidedOnce, Decided
    <2> QED BY <2>1, <2>3, <2>4
  <1>7. CASE \E t \in Tasks : SceneStart(t)
    BY <1>2, <1>7 DEF SceneStart
  <1>8. CASE UNCHANGED vars
    BY <1>2, <1>8 DEF vars, sceneq, decide
  <1> QED BY <1>2, <1>3, <1>4, <1>5, <1>6, <1>7, <1>8, DecideUnchanged

LEMMA MigrationOnce ==
  ASSUME MTypeOK, MUnderway, NoHardDeps, Once, process_possible_migrations
  PROVE  Once'
  <1>1. PICK M \in SUBSET Setscene : Migrates(M)
    BY Migration
  <1>2. CASE Redecide(M)
    <2>1. DOMAIN sq_deferred' \subseteq DOMAIN sq_deferred \cup M
      BY <1>2 DEF Redecide
    <2>2. PICK F \in SUBSET Setscene :
            /\ scenequeue_covered' = (scenequeue_covered \ M) \cup (M \cap stamped')
            /\ scenequeue_notcovered' = (scenequeue_notcovered \ M) \cup F
            /\ \A u \in Setscene : HardDeps[u] = {} => u \notin F
      BY <1>1, <1>2, RedecideFacts
    <2>3. F = {}
      BY <2>2 DEF NoHardDeps
    <2> QED BY <2>1, <2>2, <2>3 DEF Once, DecidedOnce
  <1>3. CASE UNCHANGED <<scenequeue_covered, scenequeue_notcovered, defer>>
    BY <1>3 DEF Once, DecidedOnce, defer
  <1> QED BY <1>1, <1>2, <1>3 DEF Migrates

LEMMA StepMOnce == NoHardDeps /\ Migrating /\ Once /\ [MNext]_mvars => Once'
  <1>1. ASSUME Once, LeftAlone PROVE Once'
    BY <1>1 DEF LeftAlone, Once, DecidedOnce, sceneq, decide, defer
  <1> QED BY <1>1, MSteps, StepOnce, MigrationOnce DEF Migrating

\* "No task should end up in both covered and uncovered, that is a bug"
\* (runqueue.py:2153): so it is if no setscene task has hard dependencies, and
\* then tasks find their inputs, whatever is decided again.
THEOREM MigrationDecidesOnce ==
  ASSUME NoHardDeps PROVE MSpec => [](DecidedOnce /\ InputsPresent)
  <1> DEFINE I == Migrating /\ Ready /\ Needs /\ Once
  <1>1. MInit => I
    <2>1. Init => Once
      <3>1. Init => scenequeue_notcovered = {}
        BY DEF Init
      <3> QED BY <3>1 DEF Once, DecidedOnce
    <2> QED BY <2>1, InitMigrating, InitReady, InitNeeds DEF MInit
  <1>2. I /\ [MNext]_mvars => I'
    BY StepMigrating, StepMReady, StepMNeeds, StepMOnce DEF Migrating, Once
  <1>3. I => DecidedOnce /\ InputsPresent
    <2>1. I => DecidedOnce /\ \A t \in Executing : Depends[t] \subseteq Made
      BY NeedsMade DEF Migrating, MTypeOK, MUnderway, Once
    <2>2. I => \A t \in sq_live : HardDeps[t] = {}
      BY DEF NoHardDeps, Migrating, MTypeOK, TypeOK
    <2> QED BY <2>1, <2>2 DEF InputsPresent
  <1> QED BY <1>1, <1>2, <1>3, PTL DEF MSpec

-----------------------------------------------------------------------------
(* How a build ends *)

\* What is not decided any more is buildable if all that needs it is decided;
\* what has been reached from other decisions stays reached.
LEMMA RedecideQueued ==
  ASSUME TypeOK, Queued, NEW M \in SUBSET Setscene, M # {}, Redecide(M),
         sq_needed_harddeps' = {}, sq_harddep_deferred' = {}, UNCHANGED sq_live,
         M \cap sq_live = {}
  PROVE  Queued'
  <1> DEFINE skipped == M \cap stamped'
             failing == UNION {FailsWith(t, (Decided \ M) \cup skipped) : t \in {u \in M : HardFail(u, M)}}
             again   == skipped \cup failing
             left    == tasks_scenequeue_done \ Undone(M)
  <1>1. again \in SUBSET Setscene
    BY AgainType
  <1>2. /\ scenequeue_covered' = (scenequeue_covered \ M) \cup skipped
        /\ scenequeue_notcovered' = (scenequeue_notcovered \ M) \cup failing
        /\ sq_running' = (sq_running \ M) \cup again
        /\ sq_buildable' = (sq_buildable \ M) \cup Rebuildable(M) \cup again \cup
             {d \in UNION {sq_deps[t] : t \in again} :
                sq_revdeps[d] \subseteq scenequeue_covered' \cup scenequeue_notcovered'}
        /\ tasks_scenequeue_done' = IF again = {} THEN left ELSE UpClosure(left \cup again)
    BY DEF Redecide
  <1>3. Decided' = (Decided \ M) \cup again
    BY <1>2 DEF Decided
  <1>4. \A t \in M : HardFail(t, M) => t \in again
    BY DEF FailsWith
  <1>5. left \subseteq Tasks /\ again \subseteq Tasks
    BY <1>1, GraphType DEF TypeOK
  <1>6. (unskippable \ Setscene) \cup (Decided \ M) \subseteq left
    <2>1. \A t \in M : sq_covered_tasks[t] \cap Setscene = {}
      BY DEF sq_covered_tasks
    <2>2. Decided \ M \subseteq Setscene
      BY DEF TypeOK, Decided
    <2>3. ASSUME NEW x \in (unskippable \ Setscene) \cup (Decided \ M)
          PROVE  x \notin Undone(M)
      <3>1. x \notin M /\ (x \in Setscene \/ x \in unskippable)
        BY <2>2, <2>3
      <3>2. CASE x \in Setscene
        <4>1. \A t \in M : x \notin sq_covered_tasks[t]
          BY <2>1, <3>2
        <4> QED BY <3>1, <4>1 DEF Undone
      <3>3. CASE x \in unskippable
        BY <3>1, <3>3 DEF Undone
      <3> QED BY <3>1, <3>2, <3>3
    <2>4. (unskippable \ Setscene) \cup (Decided \ M) \subseteq tasks_scenequeue_done
      BY DEF Queued
    <2> QED BY <2>3, <2>4
  <1> HIDE DEF skipped, failing, again, left
  <1>7. (Decided \subseteq sq_buildable)'
    BY <1>2, <1>3 DEF Queued
  <1>8. (sq_running \subseteq sq_live \cup Decided)'
    BY <1>2, <1>3 DEF Queued
  <1>9. ASSUME NEW s \in Setscene, sq_revdeps[s] \subseteq Decided'
        PROVE  s \in sq_buildable'
    <2>1. CASE \E r \in again : r \in sq_revdeps[s]
      <3>1. PICK r \in again : r \in sq_revdeps[s]
        BY <2>1
      <3>2. s \in sq_deps[r] /\ r \in Setscene
        BY <1>1, <3>1 DEF sq_revdeps, sq_deps
      <3>3. sq_revdeps[s] \subseteq scenequeue_covered' \cup scenequeue_notcovered'
        BY <1>9 DEF Decided
      <3> QED BY <1>2, <3>2, <3>3
    <2>2. CASE sq_revdeps[s] \cap again = {}
      <3>1. sq_revdeps[s] \subseteq Decided \ M
        BY <1>3, <1>9, <2>2
      <3>2. CASE s \in M
        BY <1>2, <1>4, <3>1, <3>2 DEF Rebuildable
      <3>3. CASE s \notin M
        BY <1>2, <3>1, <3>3 DEF Queued
      <3> QED BY <3>2, <3>3
    <2> QED BY <2>1, <2>2
  <1>10. /\ ((unskippable \ Setscene) \cup Decided \subseteq tasks_scenequeue_done)'
         /\ (Setscene \subseteq Decided => ClosedUp(tasks_scenequeue_done))'
    <2>1. CASE again = {}
      <3>1. ~(Setscene \subseteq Decided')
        BY <1>3, <2>1
      <3> QED BY <1>2, <1>3, <1>6, <2>1, <3>1
    <2>2. CASE again # {}
      <3>1. tasks_scenequeue_done' = UpClosure(left \cup again) /\ left \cup again \in SUBSET Tasks
        BY <1>2, <1>5, <2>2
      <3>2. /\ left \cup again \subseteq tasks_scenequeue_done'
            /\ ClosedUp(tasks_scenequeue_done')
        BY <3>1, UpFacts
      <3> QED BY <1>3, <1>6, <3>2 DEF ClosedUp
    <2> QED BY <2>1, <2>2
  <1> QED BY <1>7, <1>8, <1>9, <1>10 DEF Queued

LEMMA MigrationQueued ==
  ASSUME MTypeOK, Queued, process_possible_migrations
  PROVE  Queued'
  <1>1. PICK M \in SUBSET Setscene : Migrates(M)
    BY Migration
  <1>2. UNCHANGED sq_live
    BY MigrationStamps
  <1>3. CASE M # {} /\ Redecide(M)
    BY <1>1, <1>2, <1>3, RedecideQueued DEF Migrates, MTypeOK
  <1>4. CASE UNCHANGED <<sq_buildable, sq_running, scenequeue_covered, scenequeue_notcovered,
                         tasks_scenequeue_done>>
    BY <1>1, <1>2, <1>4 DEF Migrates, Queued, Decided, ClosedUp
  <1> QED BY <1>1, <1>3, <1>4 DEF Migrates

LEMMA MigrationReleased ==
  ASSUME MTypeOK, Released, process_possible_migrations
  PROVE  Released'
  <1>1. PICK M \in SUBSET Setscene : Migrates(M)
    BY Migration
  <1>2. UNCHANGED <<runq_running, runq_buildable, runq_complete, cover>>
    BY MigrationStamps
  <1>3. CASE Redecide(M) /\ holdoff_need_update'
    BY <1>2, <1>3 DEF Redecide, Released
  <1>4. CASE /\ UNCHANGED <<scenequeue_covered, scenequeue_notcovered, tasks_scenequeue_done, sqdone>>
             /\ holdoff_need_update => holdoff_need_update'
    <2>1. Decided' = Decided /\ Held' = Held
      BY <1>2, <1>4 DEF Decided, Held
    <2>2. Free' = Free
      BY <1>2, <1>4 DEF Free, Covered, NotCovered
    <2> QED BY <1>2, <1>4, <2>1, <2>2 DEF Released, cover
  <1> QED BY <1>1, <1>3, <1>4 DEF Migrates

\* Reports are read and hashes are changed in the middle of a build.
LEMMA MigrationEnds ==
  ASSUME MTypeOK, SlotBound, Counted, Searched, Ends,
         process_possible_migrations, UNCHANGED <<failed_tids, state>>
  PROVE  (SlotBound /\ Counted /\ Searched /\ Ends)'
  <1>1. /\ phase = "read" /\ phase' = "scene"
        /\ UNCHANGED <<halt, runq_running, runq_complete, active, sq_live, interrupted>>
    BY MigrationStamps
  <1>2. Executing' = Executing
    BY <1>1 DEF Executing
  <1>3. (SlotBound /\ Counted)'
    BY <1>1, <1>2 DEF SlotBound, Counted
  <1>4. Searched'
    BY <1>1 DEF Searched
  <1>5. Ends'
    BY <1>1 DEF Ends, Ended
  <1> QED BY <1>3, <1>4, <1>5

LEMMA LeftAloneEnds ==
  ASSUME LeftAlone
  PROVE  /\ Queued => Queued'
         /\ Released => Released'
         /\ SlotBound /\ Counted => (SlotBound /\ Counted)'
         /\ Searched => Searched'
         /\ Ends => Ends'
  <1>1. Queued => Queued'
    BY DEF LeftAlone, sceneq, decide, Queued, Decided, ClosedUp
  <1>2. Released => Released'
    BY DEF LeftAlone, runq, sceneq, decide, cover, Released, Free, Covered, NotCovered, Held, Decided
  <1>3. SlotBound /\ Counted => (SlotBound /\ Counted)'
    BY DEF LeftAlone, runq, sceneq, SlotBound, Counted, Executing
  <1>4. Searched => Searched'
    <2> SUFFICES ASSUME Searched PROVE Searched'
      OBVIOUS
    <2>1. phase = "sqcheck" /\ phase' = "task"
      BY DEF LeftAlone
    <2>2. UNCHANGED <<sqdone, NothingActive, Selectable>>
      BY DEF LeftAlone, runq, sceneq, decide, defer, NothingActive, Selectable, Waits
    <2>3. NothingActive' => NothingActive
      BY <2>2
    <2>4. sqdone \/ Selectable = {} => (sqdone \/ Selectable = {})'
      BY <2>2
    <2>5. phase' # "tail"
      BY <2>1
    <2>6. NothingActive => sqdone \/ Selectable = {}
      BY <2>1 DEF Searched
    <2> QED BY <2>3, <2>4, <2>5, <2>6 DEF Searched
  <1>5. Ends => Ends'
    <2>1. /\ phase = "sqcheck" /\ phase' = "task"
          /\ UNCHANGED <<state, interrupted, failed_tids, halt>>
      BY DEF LeftAlone, build, runq
    <2> QED BY <2>1 DEF Ends, Ended
  <1> QED BY <1>1, <1>2, <1>3, <1>4, <1>5

MScheduling ==
  /\ Migrating /\ Ready /\ Needs /\ Queued /\ Released
  /\ Forbidden = {} => SlotBound /\ Counted /\ Searched /\ Ends

LEMMA InitMScheduling == MInit => MScheduling
  BY InitMigrating, InitReady, InitScheduling, InitNeeds DEF MInit, MScheduling, Scheduling

LEMMA StepMScheduling == MScheduling /\ DecidedOnce /\ [MNext]_mvars => MScheduling'
  <1> SUFFICES ASSUME MScheduling, DecidedOnce, [MNext]_mvars PROVE MScheduling'
    OBVIOUS
  <1>1. (Migrating /\ Ready /\ Needs)'
    BY StepMigrating, StepMReady, StepMNeeds DEF MScheduling, Migrating
  <1>2. MTypeOK /\ MTypeOK' /\ TypeOK /\ TypeOK' /\ Underway /\ UpToDate
    BY <1>1 DEF MScheduling, Migrating, MTypeOK, MUnderway, Needs
  <1>3. CASE process_possible_migrations
    <2>1. UNCHANGED <<failed_tids, state>>
      BY <1>3, NeverReruns DEF MScheduling, Migrating
    <2>2. Queued' /\ Released'
      BY <1>2, <1>3, MigrationQueued, MigrationReleased DEF MScheduling
    <2>3. Forbidden = {} => (SlotBound /\ Counted /\ Searched /\ Ends)'
      BY <1>2, <1>3, <2>1, MigrationEnds DEF MScheduling
    <2> QED BY <1>1, <2>2, <2>3 DEF MScheduling
  <1>4. CASE LeftAlone
    BY <1>1, <1>4, LeftAloneEnds DEF MScheduling
  <1>5. CASE [Next]_vars
    <2>1. Queued' /\ Released'
      BY <1>2, <1>5, StepQueued, StepReleased DEF MScheduling
    <2>2. Forbidden = {} => (SlotBound /\ Counted)'
      BY <1>2, <1>5, StepCounted DEF MScheduling
    <2>3. Forbidden = {} => (Searched /\ Ends)'
      BY <1>2, <1>5, <2>2, StepSearched, StepEnds DEF MScheduling
    <2> QED BY <1>1, <2>1, <2>2, <2>3 DEF MScheduling
  <1> QED BY <1>3, <1>4, <1>5, MSteps

\* A build in which hashes change ends as honestly as one in which they do not:
\* setscene tasks that are decided again are decided in the end, and what they
\* cover is built or covered, in whatever order reports, exit codes and
\* migrations come; with -k all is built that can be.
\* (process_possible_migrations, check_scenequeue, summarise_scenequeue_errors)
THEOREM MigrationEndsHonestly ==
  MSpec /\ []DecidedOnce =>
    [](Forbidden = {} => /\ WaitsForProcesses
                         /\ HardDepsEnd => HonestEnd
                         /\ HardDepsEnd /\ FlagIsFree => KeepsGoing)
  <1> DEFINE P == Forbidden = {} => /\ WaitsForProcesses
                                    /\ HardDepsEnd => HonestEnd
                                    /\ HardDepsEnd /\ FlagIsFree => KeepsGoing
  <1>1. MScheduling => P
    BY DEF MScheduling, Ends, Ended, Counted, Stuck, WaitsForProcesses, HonestEnd, KeepsGoing
  <1> HIDE DEF P
  <1>2. MSpec /\ []DecidedOnce => []P
    BY <1>1, InitMScheduling, StepMScheduling, PTL DEF MSpec
  <1> QED BY <1>2 DEF P

=============================================================================
