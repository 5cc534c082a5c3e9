--------------------------- MODULE HashMigration ---------------------------
(***************************************************************************)
(* Hash equivalence during a build: the run queue of RunQueue, and         *)
(* process_possible_migrations.                                            *)
(*                                                                         *)
(* A task that has been built reports its output to the hash equivalence   *)
(* server, and may be told that the same output is known under another     *)
(* unihash.  The tasks above it are then rehashed, and a setscene task     *)
(* that gets a new hash is decided again: an object for the new hash may   *)
(* exist.                                                                  *)
(*                                                                         *)
(* A unihash is the number of times it changed.  What the server answers   *)
(* for a new taskhash, and which stamps and objects exist for a new hash,  *)
(* is chosen freely.                                                       *)
(***************************************************************************)
EXTENDS RunQueue

CONSTANT Reporting        \* setscene tasks whose output may turn out to be known

ASSUME ReportingAssumption == Reporting \subseteq Setscene

VARIABLES
  unihash,                \* runtaskentries[t].unihash
  updated_taskhash_queue, \* reports that were read from the workers
  pending_migrations      \* setscene tasks with a new hash, not yet decided again

hashes == <<unihash, updated_taskhash_queue, pending_migrations>>
mvars  == <<vars, hashes>>

\* The worker of t sends the new unihash before the exit code of t.
ReportRead(t) ==
  /\ phase \in {"read", "drain"}
  /\ t \in (Executing \cap Reporting) \ updated_taskhash_queue
  /\ updated_taskhash_queue' = updated_taskhash_queue \cup {t}
  /\ UNCHANGED <<vars, unihash, pending_migrations>>

-----------------------------------------------------------------------------
(* Which hashes change *)

Unfinished == runq_running \ runq_complete

\* Tasks deferred after a task have its hash, and take over the new one.
Rehashed(reported) ==
  reported \cup {u \in DOMAIN sq_deferred : sq_deferred[u] \in reported}

\* The setscene tasks that keep their hash, and are reported to the server as
\* equivalent to the new one
Kept == scenequeue_covered \cup sq_live

\* C: the tasks for which a new hash was computed, by following the
\* dependencies upwards.  The hash of an ordinary task follows those below it;
\* that of a setscene task is what the server answers.  Below a kept task the
\* server may agree, and then nothing changes.
NewHashes(source) ==
  {C \in SUBSET Tasks :
     /\ \A t \in C : Depends[t] \cap (source \cup C) # {}
     /\ \A t \in Tasks \ Setscene :
          Depends[t] \cap (source \cup (C \ Kept)) # {} => t \in C}

-----------------------------------------------------------------------------
(* Deciding setscene tasks again *)

NeverBlocked(t) == FALSE  \* mutant: a running task that t covers does not matter

\* "Check no tasks this covers are running": t waits for them.
Blocked(t) == sq_covered_tasks[t] \cap Unfinished # {}

\* "marked as completed but now needing to rerun"
NeedsRerun(t) == sq_covered_tasks[t] \cap (runq_complete \ runq_tasksrun) # {}

\* What is done again with the setscene tasks in M: these, and what they cover
\* and was not complete.
Undone(M) ==
  M \cup ((UNION {sq_covered_tasks[t] : t \in M}) \ (runq_complete \cup unskippable))

\* A hard dependency that was not restored
HardFail(t, M) == HardDeps[t] \cap (scenequeue_notcovered \ M) # {}

\* Buildable again: everything above is decided, and no hard dependency failed.
Rebuildable(M) ==
  {t \in M : \/ sq_revdeps[t] = {}
             \/ /\ ~HardFail(t, M)
                /\ sq_revdeps[t] \subseteq Decided \ M}

\* The decisions on M are taken back; those with a current stamp for the new
\* hash are skipped again, and those with a failed hard dependency fail again.
Redecide(M) ==
  LET skipped == M \cap stamped'
      failing == UNION {FailsWith(t, (Decided \ M) \cup skipped) : t \in {u \in M : HardFail(u, M)}}
      again   == skipped \cup failing
      left    == tasks_scenequeue_done \ Undone(M)
  IN
  /\ scenequeue_covered' = (scenequeue_covered \ M) \cup skipped
  /\ scenequeue_notcovered' = (scenequeue_notcovered \ M) \cup failing
  /\ sq_running' = (sq_running \ M) \cup again
  /\ sq_buildable' = (sq_buildable \ M) \cup Rebuildable(M) \cup again \cup
       {d \in UNION {sq_deps[t] : t \in again} :
          sq_revdeps[d] \subseteq scenequeue_covered' \cup scenequeue_notcovered'}
  /\ tasks_scenequeue_done' = IF again = {} THEN left ELSE UpClosure(left \cup again)
  /\ \E D \in SUBSET {t \in M : Leader[t] # t} :
       sq_deferred' = [t \in DOMAIN sq_deferred \cup D |->
                         IF t \in D THEN Leader[t] ELSE sq_deferred[t]]
  /\ \E O \in SUBSET (M \ (again \cup DOMAIN sq_deferred')) :
       outrightfail' = (outrightfail \ M) \cup O
  /\ sqdone' = FALSE

-----------------------------------------------------------------------------

\* The handler stops in the middle when a task needs to run again.  What it
\* does to the others then is not modelled: HonestEnd says it never gets there.
process_possible_migrations ==
  /\ phase = "read" /\ phase' = "scene"
  /\ updated_taskhash_queue # {} \/ pending_migrations # {}
  /\ LET reported == updated_taskhash_queue \ Unfinished
         source   == Rehashed(reported)
     IN
     /\ updated_taskhash_queue' = updated_taskhash_queue \ reported
     /\ \E C \in NewHashes(source) :
          LET changed == C \ Kept
              pending == (pending_migrations \cup (changed \cap Setscene))
                           \ (runq_running \cup sq_live)
              M       == {t \in pending : ~Blocked(t)}
              renamed == (changed \cup (source \ reported)) \ Kept
          IN
          /\ unihash' = [t \in Tasks |-> IF t \in source \cup changed THEN unihash[t] + 1
                                                                      ELSE unihash[t]]
          /\ \E S \in SUBSET renamed : stamped' = (stamped \ renamed) \cup S
          /\ pending_migrations' = pending \ M
          /\ failed_tids' = failed_tids \cup {t \in M : NeedsRerun(t)}
          /\ state' = IF \E t \in M : NeedsRerun(t) THEN "CleanUp" ELSE state
          /\ \/ M # {} /\ Redecide(M)
             \/ M = {} /\ UNCHANGED <<sq_buildable, sq_running, scenequeue_covered,
                                      scenequeue_notcovered, tasks_scenequeue_done, defer, sqdone>>
          /\ IF changed # {} \/ M # {}
               THEN sq_needed_harddeps' = {} /\ sq_harddep_deferred' = {}
                      /\ holdoff_need_update' = TRUE
               ELSE UNCHANGED <<sq_needed_harddeps, sq_harddep_deferred, holdoff_need_update>>
  /\ UNCHANGED <<halt, runq_buildable, runq_running, runq_complete, runq_tasksrun, active,
                 sq_live, cover, restored, interrupted>>

ReadAllAnyway == ReadDone /\ UNCHANGED hashes   \* mutant: reports are looked at when convenient

\* Nothing to migrate
ReadAll ==
  /\ updated_taskhash_queue = {} /\ pending_migrations = {}
  /\ ReadDone
  /\ UNCHANGED hashes

\* The scene queue is not over while a report waits for its task.
CheckQueues ==
  /\ \/ updated_taskhash_queue = {} /\ CheckSceneQueue
     \/ /\ updated_taskhash_queue # {}
        /\ phase = "sqcheck" /\ phase' = "task"
        /\ UNCHANGED <<state, build, runq, sceneq, interrupted>>
  /\ UNCHANGED hashes

MInit ==
  /\ Init
  /\ unihash = [t \in Tasks |-> 0]
  /\ updated_taskhash_queue = {} /\ pending_migrations = {}

MNext ==
  \/ Execute /\ UNCHANGED hashes
  \/ ReadAll \/ process_possible_migrations \/ CheckQueues
  \/ \E t \in Tasks : ReportRead(t)
  \/ (\E t \in Tasks : WorkerExit(t)) /\ UNCHANGED hashes
  \/ Interrupt /\ UNCHANGED hashes

MSpec == MInit /\ [][MNext]_mvars

-----------------------------------------------------------------------------
(* Properties *)

\* Reports are handled before anything that depends on them is started: but for
\* the reporting task itself no task that runs or ran, and no setscene task
\* that runs or was restored, gets another hash.
RehashedInTime ==
  [][\A t \in Tasks \ Rehashed(updated_taskhash_queue) :
       unihash'[t] # unihash[t] => t \notin runq_running \cup sq_live \cup scenequeue_covered]_mvars
=============================================================================
