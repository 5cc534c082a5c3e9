------------------------------- MODULE Worker -------------------------------
(***************************************************************************)
(* bitbake-worker and the cooker's end of its two pipes.                   *)
(*                                                                         *)
(* The cooker writes commands to the worker's stdin; the worker's main     *)
(* thread forks a process per task, reads the pipe of each, reaps them and *)
(* queues what they said and how they ended; a second thread writes the    *)
(* queue to stdout, which the cooker reads (runQueuePipe).  A message is a *)
(* unit here: the framing in bytes and half a message at the end of a      *)
(* process that is killed carry nothing.                                   *)
(***************************************************************************)
EXTENDS Naturals, Sequences, FiniteSets, SequencesExt

CONSTANTS
  Tasks,        \* what the run queue may ask for, each once
  Events,       \* the events a task fires, in order
  Capacity,     \* commands that fit in stdin, messages that fit in stdout
  MaxFaults     \* processes killed and forks that fail in one behaviour

ASSUME CapacityAssumption == Capacity \in Nat \ {0}
ASSUME MaxFaultsAssumption == MaxFaults \in Nat

Run(t)    == [op |-> "runtask", task |-> t]
FinishNow == [op |-> "finishnow"]
Quit      == [op |-> "quit"]

\* How a process ends: by itself, or by the SIGTERM of finishnow.
Statuses == {"exited", "terminated"}

VARIABLES
  build,    \* RunQueue.state: "running", "stopped" (finish_now was called),
            \* "teardown", "done"; or the cooker is "dead"
  asked,    \* the tasks in runq_running and sq_live: started for the run queue
  got,      \* what the cooker was told of each task, in order
  outbox,   \* what it is about to write to the worker: commands
  stdin,    \* the pipe to the worker
  closed,   \* the write end of that pipe is closed
  stdout,   \* the pipe to the cooker: [task, what], an event or a status
  main,     \* what the main thread of the worker does
  input,    \* BitbakeWorker.queue: commands read
  ready,    \* the task pipes select found readable
  pids,     \* build_pids, in order of insertion
  doomed,   \* the rest of build_pids in handle_finishnow
  dying,    \* it was called from sigterm_exception
  out,      \* worker_queue and worker_queue_int: messages to be written
  proc,     \* the process of each task: "none", "forked", "up", "term" (has SIGTERM
            \* pending), "zombie", "gone", or "orphan" (its worker is gone)
  said,     \* history: the events it fired and how it ended
  pipe,     \* its pipe to the worker
  faults

cooker == <<build, asked, got, outbox>>
pipes  == <<stdin, closed, stdout>>
loop   == <<main, input, ready, pids, doomed, dying>>
kids   == <<proc, said, pipe>>
vars   == <<cooker, pipes, loop, out, kids, faults>>

Init ==
  /\ build = "running" /\ asked = {} /\ got = [t \in Tasks |-> <<>>] /\ outbox = <<>>
  /\ stdin = <<>> /\ closed = FALSE /\ stdout = <<>>
  /\ main = "select" /\ input = <<>> /\ ready = {} /\ pids = <<>>
  /\ doomed = <<>> /\ dying = FALSE /\ out = <<>>
  /\ proc = [t \in Tasks |-> "none"] /\ said = [t \in Tasks |-> <<>>]
  /\ pipe = [t \in Tasks |-> <<>>]
  /\ faults = 0

Down     == main \in {"ended", "killed"}
Ended(t) == got[t] # <<>> /\ Last(got[t]) \in Statuses

-----------------------------------------------------------------------------
(* The task processes.                                                     *)

\* Until it has called os.setsid a process is in no group of its own, and
\* kill(-pid) misses it.
Setsid(t) ==
  /\ proc[t] = "forked" /\ proc' = [proc EXCEPT ![t] = "up"]
  /\ UNCHANGED <<cooker, pipes, loop, out, said, pipe, faults>>

Fire(t) ==
  /\ proc[t] = "up" /\ Len(said[t]) < Len(Events)
  /\ LET event == Events[Len(said[t]) + 1] IN
       /\ said' = [said EXCEPT ![t] = Append(@, event)]
       /\ pipe' = [pipe EXCEPT ![t] = Append(@, event)]
  /\ UNCHANGED <<cooker, pipes, loop, out, proc, faults>>

Exit(t) ==
  /\ proc[t] \in {"up", "term"}
  /\ said' = [said EXCEPT ![t] =
                Append(@, IF proc[t] = "up" THEN "exited" ELSE "terminated")]
  /\ proc' = [proc EXCEPT ![t] = "zombie"]
  /\ UNCHANGED <<cooker, pipes, loop, out, pipe, faults>>

\* The end of the worker reaches its processes as their PR_SET_PDEATHSIG; one
\* that has not asked for the signal yet runs on.
Abandoned == [t \in Tasks |-> CASE proc[t] = "none"   -> "none"
                                [] proc[t] = "forked" -> "orphan"
                                [] OTHER              -> "gone"]

-----------------------------------------------------------------------------
(* The worker's main thread: one pass of serve is select, at most one      *)
(* command of each kind in a fixed order, the readable task pipes, and all *)
(* processes that have ended.                                              *)

Messages(t) == [i \in DOMAIN pipe[t] |-> [task |-> t, what |-> pipe[t][i]]]

\* runQueueWorkerPipe.read
ReadPipe(t) ==
  /\ out' = out \o Messages(t) /\ pipe' = [pipe EXCEPT ![t] = <<>>]

\* select also returns every second; a pass that finds nothing changes nothing.
Select ==
  /\ main = "select"
  /\ \/ stdin # <<>> \/ closed \/ input # <<>>
     \/ \E t \in Range(pids) : pipe[t] # <<>> \/ proc[t] = "zombie"
  /\ ready' = {t \in Range(pids) : pipe[t] # <<>>}
  /\ IF stdin = <<>> /\ closed
     THEN main' = "kill" /\ dying' = TRUE /\ doomed' = pids
     ELSE main' = "items" /\ UNCHANGED <<dying, doomed>>
  /\ input' = input \o stdin /\ stdin' = <<>>
  /\ UNCHANGED <<cooker, closed, stdout, pids, out, kids, faults>>

NextIs(op) == input # <<>> /\ Head(input).op = op

HandleRuntask ==
  /\ main = "items" /\ NextIs("runtask")
  /\ LET t == Head(input).task IN
       /\ proc' = [proc EXCEPT ![t] = "forked"]
       /\ pids' = Append(pids, t)
  /\ input' = Tail(input) /\ main' = "late"
  /\ UNCHANGED <<cooker, pipes, ready, doomed, dying, out, said, pipe, faults>>

\* os.fork fails: sys.exit(1), and the second thread writes what is queued.
ForkFails ==
  /\ main = "items" /\ NextIs("runtask")
  /\ faults < MaxFaults /\ faults' = faults + 1
  /\ main' = "join"
  /\ UNCHANGED <<cooker, pipes, input, ready, pids, doomed, dying, out, kids>>

HandleFinishNow ==
  /\ main \in {"items", "late"} /\ NextIs("finishnow")
  /\ input' = Tail(input) /\ doomed' = pids /\ main' = "kill"
  /\ UNCHANGED <<cooker, pipes, ready, pids, dying, out, kids, faults>>

\* One round of its loop: SIGTERM to the group of a process, and waitpid(-1),
\* which takes any process that has ended.  A process whose group does not
\* exist is passed over without waiting.
Kill ==
  /\ main = "kill" /\ doomed # <<>>
  /\ LET t == Head(doomed) IN
       IF proc[t] \in {"forked", "gone"}
       THEN doomed' = Tail(doomed) /\ UNCHANGED <<main, proc>>
       ELSE /\ main' = "wait" /\ UNCHANGED doomed
            /\ proc' = [proc EXCEPT ![t] = IF @ = "up" THEN "term" ELSE @]
  /\ UNCHANGED <<cooker, pipes, input, ready, pids, dying, out, said, pipe, faults>>

WaitAny ==
  /\ main = "wait"
  /\ \E t \in Tasks : proc[t] = "zombie" /\ proc' = [proc EXCEPT ![t] = "gone"]
  /\ doomed' = Tail(doomed) /\ main' = "kill"
  /\ UNCHANGED <<cooker, pipes, input, ready, pids, dying, out, said, pipe, faults>>

\* All pipes are read once more.
KilledAll ==
  /\ main = "kill" /\ doomed = <<>>
  /\ main' = "drain" /\ doomed' = pids
  /\ UNCHANGED <<cooker, pipes, input, ready, pids, dying, out, kids, faults>>

ReadLast ==
  /\ main = "drain" /\ doomed # <<>>
  /\ ReadPipe(Head(doomed)) /\ doomed' = Tail(doomed)
  /\ UNCHANGED <<cooker, pipes, main, input, ready, pids, dying, proc, said, faults>>

\* sigterm_exception then kills the worker, with what is still queued.
Finished ==
  /\ main = "drain" /\ doomed = <<>>
  /\ IF dying THEN main' = "killed" /\ out' = <<>> /\ proc' = Abandoned
              ELSE main' = "last" /\ UNCHANGED <<out, proc>>
  /\ UNCHANGED <<cooker, pipes, input, ready, pids, doomed, dying, said, pipe, faults>>

HandleQuit ==
  /\ main \in {"items", "late", "last"} /\ NextIs("quit")
  /\ main' = "join" /\ input' = Tail(input)
  /\ UNCHANGED <<cooker, pipes, ready, pids, doomed, dying, out, kids, faults>>

\* No command of a kind that is still to come in this pass is at the head.
NothingToHandle ==
  \/ main = "items" /\ input = <<>>
  \/ main = "late" /\ ~NextIs("finishnow") /\ ~NextIs("quit")
  \/ main = "last" /\ ~NextIs("quit")

\* The pipes that select found readable are read in the order of build_pipes.
ReadReady ==
  /\ NothingToHandle \/ main = "pipes"
  /\ \E i \in DOMAIN pids :
       /\ pids[i] \in ready /\ \A j \in 1..(i - 1) : pids[j] \notin ready
       /\ ReadPipe(pids[i]) /\ ready' = ready \ {pids[i]}
  /\ main' = "pipes"
  /\ UNCHANGED <<cooker, pipes, input, pids, doomed, dying, proc, said, faults>>

ReadAll ==
  /\ NothingToHandle \/ main = "pipes"
  /\ ready = {} /\ main' = "reap"
  /\ UNCHANGED <<cooker, pipes, input, ready, pids, doomed, dying, out, kids, faults>>

\* mutant: the exit code is queued before the pipe is closed.
ReapBeforeClose ==
  /\ main = "reap"
  /\ \E i \in DOMAIN pids : LET t == pids[i] IN
       /\ proc[t] = "zombie" /\ proc' = [proc EXCEPT ![t] = "gone"]
       /\ out' = Append(out, [task |-> t, what |-> Last(said[t])]) \o Messages(t)
       /\ pipe' = [pipe EXCEPT ![t] = <<>>]
       /\ pids' = RemoveAt(pids, i)
  /\ UNCHANGED <<cooker, pipes, main, input, ready, doomed, dying, said, faults>>

\* process_waitpid: the pipe is read to its end before the exit code is queued.
Reap ==
  /\ main = "reap"
  /\ \E i \in DOMAIN pids : LET t == pids[i] IN
       /\ proc[t] = "zombie" /\ proc' = [proc EXCEPT ![t] = "gone"]
       /\ out' = out \o Append(Messages(t), [task |-> t, what |-> Last(said[t])])
       /\ pipe' = [pipe EXCEPT ![t] = <<>>]
       /\ pids' = RemoveAt(pids, i)
  /\ UNCHANGED <<cooker, pipes, main, input, ready, doomed, dying, said, faults>>

ReapedAll ==
  /\ main = "reap" /\ \A t \in Tasks : proc[t] # "zombie"
  /\ main' = "select"
  /\ UNCHANGED <<cooker, pipes, input, ready, pids, doomed, dying, out, kids, faults>>

\* worker_flush.  Without a reader each write fails with EPIPE and is repeated.
Flush ==
  /\ ~Down /\ out # <<>> /\ Len(stdout) < Capacity /\ build # "dead"
  /\ stdout' = Append(stdout, Head(out)) /\ out' = Tail(out)
  /\ UNCHANGED <<cooker, stdin, closed, loop, kids, faults>>

\* mutant: the main thread does not join the second one.
JoinNot ==
  /\ main = "join"
  /\ main' = "ended" /\ proc' = Abandoned /\ out' = <<>>
  /\ UNCHANGED <<cooker, pipes, input, ready, pids, doomed, dying, said, pipe, faults>>

\* The main thread has left serve and waits for the second to have written all.
Join ==
  /\ main = "join" /\ out = <<>>
  /\ main' = "ended" /\ proc' = Abandoned
  /\ UNCHANGED <<cooker, pipes, input, ready, pids, doomed, dying, out, said, pipe, faults>>

KillWorker ==
  /\ ~Down /\ faults < MaxFaults /\ faults' = faults + 1
  /\ main' = "killed" /\ out' = <<>> /\ proc' = Abandoned
  /\ UNCHANGED <<cooker, pipes, input, ready, pids, doomed, dying, said, pipe>>

-----------------------------------------------------------------------------
(* The cooker.  A write to the worker blocks while the pipe is full, and   *)
(* nothing else happens meanwhile.                                         *)

\* execute starts a task or a setscene task.
StartTask(t) ==
  /\ build = "running" /\ outbox = <<>> /\ t \notin asked
  /\ asked' = asked \cup {t} /\ outbox' = <<Run(t)>>
  /\ UNCHANGED <<build, got, pipes, loop, out, kids, faults>>

\* A forced shutdown; finish_now does not wait for what runs.
ForceStop ==
  /\ build = "running" /\ outbox = <<>>
  /\ build' = "stopped" /\ outbox' = <<FinishNow>>
  /\ UNCHANGED <<asked, got, pipes, loop, out, kids, faults>>

\* Complete, or stopped in whatever way: teardown_workers.  Its stdin is
\* closed right after the command.
Teardown ==
  /\ outbox = <<>>
  /\ \/ build = "stopped"
     \/ build = "running" /\ \A t \in asked : Ended(t)
  /\ build' = "teardown" /\ outbox' = <<Quit>>
  /\ UNCHANGED <<asked, got, pipes, loop, out, kids, faults>>

Write ==
  /\ outbox # <<>> /\ ~Down /\ Len(stdin) < Capacity
  /\ stdin' = Append(stdin, Head(outbox)) /\ outbox' = <<>>
  /\ closed' = (Head(outbox) = Quit)
  /\ UNCHANGED <<build, asked, got, stdout, loop, out, kids, faults>>

\* finish_now and _teardown_worker ignore it; for a task it ends the build.
BrokenPipe ==
  /\ outbox # <<>> /\ Down
  /\ outbox' = <<>>
  /\ build' = IF build = "running" THEN "stopped" ELSE build
  /\ UNCHANGED <<asked, got, pipes, loop, out, kids, faults>>

\* A message is handled: an event is fired, an exit code processed.  A read that
\* finds several is several in a row here.
Handle ==
  IF stdout = <<>> THEN UNCHANGED <<got, stdout>>
  ELSE LET m == Head(stdout) IN
         got' = [got EXCEPT ![m.task] = Append(@, m.what)] /\ stdout' = Tail(stdout)

\* mutant: read does not look whether the worker still runs.
ReadWithoutPoll ==
  /\ outbox = <<>> /\ build \in {"running", "stopped", "teardown"}
  /\ stdout # <<>> /\ Handle
  /\ UNCHANGED <<build, asked, outbox, stdin, closed, loop, out, kids, faults>>

\* runQueuePipe.read.  A worker that has ended unasked stops the build by
\* force (its finishnow goes nowhere); what it had written is still handled.
Read ==
  /\ outbox = <<>> /\ build \in {"running", "stopped", "teardown"}
  /\ \/ stdout # <<>>
     \/ Down /\ build = "running"
  /\ build' = IF Down /\ build = "running" THEN "stopped" ELSE build
  /\ Handle
  /\ UNCHANGED <<asked, outbox, stdin, closed, loop, out, kids, faults>>

\* The worker has ended, and the pipe was read to its end.
Done ==
  /\ build = "teardown" /\ outbox = <<>> /\ Down /\ stdout = <<>>
  /\ build' = "done"
  /\ UNCHANGED <<asked, got, outbox, pipes, loop, out, kids, faults>>

KillCooker ==
  /\ build \notin {"done", "dead"} /\ faults < MaxFaults /\ faults' = faults + 1
  /\ build' = "dead" /\ outbox' = <<>> /\ closed' = TRUE /\ stdout' = <<>>
  /\ UNCHANGED <<asked, got, stdin, loop, out, kids>>

-----------------------------------------------------------------------------
MainThread ==
  \/ Select \/ HandleRuntask \/ HandleFinishNow \/ Kill \/ WaitAny \/ KilledAll
  \/ ReadLast \/ Finished \/ HandleQuit \/ ReadReady \/ ReadAll \/ Reap \/ ReapedAll \/ Join

Process(t) == Setsid(t) \/ Fire(t) \/ Exit(t)

RunQueueSteps ==
  \/ \E t \in Tasks : StartTask(t)
  \/ Teardown \/ Write \/ BrokenPipe \/ Read \/ Done

Next ==
  \/ MainThread \/ Flush
  \/ \E t \in Tasks : Process(t)
  \/ RunQueueSteps
  \/ ForceStop
  \/ ForkFails \/ KillWorker \/ KillCooker

Spec == Init /\ [][Next]_vars

\* Both threads, the cooker and every task process go on; SIGTERM and the end
\* of a task are not held up for ever.  Nobody has to stop the build.
FairSpec ==
  /\ Spec
  /\ WF_vars(MainThread) /\ WF_vars(Flush) /\ WF_vars(RunQueueSteps)
  /\ \A t \in Tasks : WF_vars(Process(t))

-----------------------------------------------------------------------------
\* What the cooker was told of a task is what its process did, in that order,
\* from the start and without repetition: no event overtakes another, and an
\* exit code arrives after every event (an event that came later would be fired
\* for a task the run queue has done with).  The pipe of a process is read
\* apart from its exit being noticed.
ToldInOrder == \A t \in Tasks : IsPrefix(got[t], said[t])

\* process_waitpid has taken the task off the table.
Reported(t) == proc[t] = "gone" /\ t \notin Range(pids)

\* When teardown has seen a worker end that left its loop by itself (told to
\* quit, or after a failed fork), the cooker has all that a reported task said,
\* to the exit code, although the worker had queued it in memory only and the
\* build may have been stopped by force.
NothingQueuedIsLost ==
  build = "done" /\ main = "ended" => \A t \in Tasks : Reported(t) => got[t] = said[t]

\* The main thread has left serve, so that nothing reads stdin, and the cooker
\* is writing a command, so that nothing reads stdout.
Contention == main = "join" /\ out # <<>> /\ outbox # <<>>

\* The main thread waits for the second, whose writes nobody will read.
Unread == main = "join" /\ out # <<>> /\ build = "dead"

\* Every build gets to its end, and the worker to its own: no exit code is
\* missed, the two ends do not wait for each other with both pipes full, a
\* worker that dies is noticed, teardown sees the worker end, and a worker
\* without a cooker ends too.  Two cases are left out, in which they hang: after
\* a failed fork, and if the cooker is killed while a worker that was told to
\* quit has something to write.
BothEnd == <>[](\/ build \in {"done", "dead"} /\ Down
               \/ Contention
               \/ Unread)

=============================================================================
