------------------------------ MODULE LockFile ------------------------------
(***************************************************************************)
(* lib/bb/utils.py: lockfile() and unlockfile(), the lock that decides     *)
(* which process may run the server of a build directory.  A lock file is  *)
(* created when it is missing and removed by its last holder, so the lock  *)
(* is flock() on an inode that may no longer be the file on disk: lockfile *)
(* keeps it only after comparing the two inodes.  A lock belongs to an open*)
(* file, which a fork shares.                                              *)
(***************************************************************************)
EXTENDS Naturals

CONSTANTS
  Procs,
  Inodes,
  None

ASSUME NoInode == None \notin Inodes

VARIABLES
  disk,     \* inode of the lock file on disk, None if there is no such file
  fd,       \* inode of the lock file that the process has open
  at,       \* how far the process is in lockfile() or unlockfile()
  held      \* the processes that share the locked open file of an inode

lockvars == <<disk, fd, at, held>>

LockInit ==
  /\ disk \in Inodes \cup {None}
  /\ fd = [p \in Procs |-> None]
  /\ at = [p \in Procs |-> "out"]
  /\ held = [i \in Inodes |-> {}]

\* An inode is in use while it is on disk or open somewhere.
Unused == {i \in Inodes : i # disk /\ \A p \in Procs : fd[p] # i}

\* open(name, 'a+')
Open(p) ==
  /\ at[p] = "out"
  /\ \/ disk # None /\ disk' = disk
     \/ disk = None /\ disk' = (CHOOSE i \in Unused : TRUE) /\ Unused # {}
  /\ fd' = [fd EXCEPT ![p] = disk']
  /\ at' = [at EXCEPT ![p] = "opened"]
  /\ held' = held

Forget(p) ==
  /\ fd' = [fd EXCEPT ![p] = None]
  /\ at' = [at EXCEPT ![p] = "out"]
  /\ held' = [i \in Inodes |-> held[i] \ {p}]

\* fcntl.flock(fileno, LOCK_EX | LOCK_NB) fails.
Refused(p) ==
  /\ at[p] = "opened"
  /\ held[fd[p]] # {}
  /\ Forget(p)
  /\ UNCHANGED disk

AcquireAny(p) ==      \* mutant: the inodes are not compared
  /\ at[p] = "opened"
  /\ held[fd[p]] = {}
  /\ held' = [held EXCEPT ![fd[p]] = {p}]
  /\ at' = [at EXCEPT ![p] = "holds"]
  /\ UNCHANGED <<disk, fd>>

\* It succeeds, and the locked file is still the one on disk.  The comparison
\* is part of the step: while the file is locked, no other process removes it.
Acquire(p) ==
  /\ at[p] = "opened"
  /\ held[fd[p]] = {} /\ disk = fd[p]
  /\ held' = [held EXCEPT ![fd[p]] = {p}]
  /\ at' = [at EXCEPT ![p] = "holds"]
  /\ UNCHANGED <<disk, fd>>

\* It succeeds on a file that another process has removed since it was opened.
Stale(p) ==
  /\ at[p] = "opened"
  /\ held[fd[p]] = {} /\ disk # fd[p]
  /\ Forget(p)
  /\ UNCHANGED disk

\* fork(): the child has the same open file.
Share(p, q) ==
  /\ at[p] = "holds"
  /\ at[q] = "out"
  /\ fd' = [fd EXCEPT ![q] = fd[p]]
  /\ at' = [at EXCEPT ![q] = "holds"]
  /\ held' = [held EXCEPT ![fd[p]] = @ \cup {q}]
  /\ UNCHANGED disk

\* The process closes the file, or ends: the lock is kept by those it shares
\* it with, and the file stays on disk.
Close(p) ==
  /\ at[p] # "out"
  /\ Forget(p)
  /\ UNCHANGED disk

\* unlockfile(): it removes the file first and unlocks it then.  It is called
\* only by a process that has never shared its lock.
Unlink(p) ==
  /\ at[p] = "holds"
  /\ held[fd[p]] = {p}
  /\ disk' = None
  /\ at' = [at EXCEPT ![p] = "unlinked"]
  /\ UNCHANGED <<fd, held>>

Unlock(p) ==
  /\ at[p] = "unlinked"
  /\ Forget(p)
  /\ UNCHANGED disk

Lock(p) == Open(p) \/ Refused(p) \/ Acquire(p) \/ Stale(p)
UnlockFile(p) == Unlink(p) \/ Unlock(p)

LockNext ==
  \E p \in Procs :
    \/ Lock(p) \/ UnlockFile(p) \/ Close(p)
    \/ \E q \in Procs : Share(p, q)

LockSpec == LockInit /\ [][LockNext]_lockvars

-----------------------------------------------------------------------------
LockTypeOK ==
  /\ disk \in Inodes \cup {None}
  /\ fd \in [Procs -> Inodes \cup {None}]
  /\ at \in [Procs -> {"out", "opened", "holds", "unlinked"}]
  /\ held \in [Inodes -> SUBSET Procs]

\* Whoever holds the lock holds it on the file that is on disk, where all
\* others look for it: a removed file that is created again is not a second
\* lock.  (lockfile, utils.py:482-500)
LockOnDisk == \A p \in Procs : at[p] = "holds" => disk = fd[p] /\ p \in held[fd[p]]

\* Two processes hold the lock only if they share the open file.
OneOpenFile ==
  \A p, q \in Procs : at[p] = "holds" /\ at[q] = "holds" => fd[p] = fd[q]
=============================================================================
