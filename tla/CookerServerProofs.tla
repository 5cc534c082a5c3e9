------------------------- MODULE CookerServerProofs -------------------------
(***************************************************************************)
(* Proofs about LockFile and CookerServer, for any number of clients,      *)
(* servers, attempts and faults: the lock that a process holds is the one  *)
(* on disk, there is never a second server in a build directory, the       *)
(* socket file of the one that listens is its own, both files are removed  *)
(* in the end, and a client that was answered is served until it leaves.   *)
(***************************************************************************)
EXTENDS CookerServer, TLAPS

-----------------------------------------------------------------------------
(* The lock file *)

\* The open files, the locks and the positions in lockfile() agree.
LockInv ==
  /\ LockTypeOK
  /\ \A p \in Procs : at[p] = "out" <=> fd[p] = None
  /\ \A i \in Inodes, p \in Procs :
       p \in held[i] <=> at[p] \in {"holds", "unlinked"} /\ fd[p] = i
  /\ \A p \in Procs : at[p] = "holds" => disk = fd[p]

LEMMA ForgetKeepsInv ==
  ASSUME NEW p \in Procs, LockInv, at[p] # "out", Forget(p), UNCHANGED disk
  PROVE  LockInv'
  BY NoInode DEF LockInv, LockTypeOK, Forget

LEMMA OpenKeepsInv ==
  ASSUME NEW p \in Procs, LockInv, Open(p)
  PROVE  LockInv'
  <1>1. disk' \in Inodes
    BY NoInode DEF Open, Unused, LockInv, LockTypeOK
  <1>2. \A q \in Procs : at[q] = "holds" => disk' = disk
    BY NoInode DEF Open, LockInv, LockTypeOK
  <1> QED BY <1>1, <1>2, NoInode DEF LockInv, LockTypeOK, Open

LEMMA AcquireKeepsInv ==
  ASSUME NEW p \in Procs, LockInv, Acquire(p)
  PROVE  LockInv'
  BY NoInode DEF LockInv, LockTypeOK, Acquire

LEMMA ShareKeepsInv ==
  ASSUME NEW p \in Procs, NEW q \in Procs, LockInv, Share(p, q)
  PROVE  LockInv'
  BY NoInode DEF LockInv, LockTypeOK, Share

LEMMA UnlinkKeepsInv ==
  ASSUME NEW p \in Procs, LockInv, Unlink(p)
  PROVE  LockInv'
  <1>1. \A q \in Procs : at[q] = "holds" => q = p
    BY NoInode DEF LockInv, LockTypeOK, Unlink
  <1> QED BY <1>1, NoInode DEF LockInv, LockTypeOK, Unlink

LEMMA LockStepKeepsInv ==
  ASSUME LockInv, LockNext
  PROVE  LockInv'
  <1>1. PICK p \in Procs : \/ Lock(p) \/ UnlockFile(p) \/ Close(p)
                           \/ \E q \in Procs : Share(p, q)
    BY DEF LockNext
  <1>2. CASE Open(p)
    BY <1>2, OpenKeepsInv
  <1>3. CASE Acquire(p)
    BY <1>3, AcquireKeepsInv
  <1>4. CASE Refused(p) \/ Stale(p) \/ Close(p) \/ Unlock(p)
    BY <1>4, ForgetKeepsInv DEF Refused, Stale, Close, Unlock
  <1>5. CASE Unlink(p)
    BY <1>5, UnlinkKeepsInv
  <1>6. CASE \E q \in Procs : Share(p, q)
    BY <1>6, ShareKeepsInv
  <1> QED BY <1>1, <1>2, <1>3, <1>4, <1>5, <1>6 DEF Lock, UnlockFile

LEMMA LockInitHolds == LockInit => LockInv
  BY NoInode DEF LockInit, LockInv, LockTypeOK

\* Whoever holds the lock holds it on the lock file on disk, and two that hold
\* it share the open file: lockfile() and unlockfile() exclude each other for
\* any processes that use them (utils.py:482-530).
THEOREM LockIsOnDisk == LockSpec => [](LockOnDisk /\ OneOpenFile)
  <1>1. LockInv /\ [LockNext]_lockvars => LockInv'
    <2> SUFFICES ASSUME LockInv, [LockNext]_lockvars PROVE LockInv'
      OBVIOUS
    <2>1. CASE LockNext
      BY <2>1, LockStepKeepsInv
    <2>2. CASE UNCHANGED lockvars
      BY <2>2 DEF LockInv, LockTypeOK, lockvars
    <2> QED BY <2>1, <2>2
  <1>2. LockInv => LockOnDisk /\ OneOpenFile
    BY NoInode DEF LockInv, LockTypeOK, LockOnDisk, OneOpenFile
  <1> QED BY <1>1, <1>2, LockInitHolds, PTL DEF LockSpec

-----------------------------------------------------------------------------
(* Records: what EXCEPT leaves of a client or a server *)

IsClient(r) == "pc" \in DOMAIN r

IsServer(r) == "pc" \in DOMAIN r

Records ==
  /\ client = [c \in Clients |-> client[c]] /\ \A c \in Clients : IsClient(client[c])
  /\ server = [s \in Servers |-> server[s]] /\ \A s \in Servers : IsServer(server[s])

\* Only the server s changes, and it comes to one of the given points.
ServerGoes(s, pcs) ==
  /\ server' = [t \in Servers |-> server'[t]]
  /\ \A t \in Servers : IsServer(server'[t])
  /\ server'[s].pc \in pcs
  /\ \A t \in Servers \ {s} : server'[t] = server[t]

ClientGoes(c, pcs) ==
  /\ client' = [d \in Clients |-> client'[d]]
  /\ \A d \in Clients : IsClient(client'[d])
  /\ client'[c].pc \in pcs
  /\ \A d \in Clients \ {c} : client'[d] = client[d]

LEMMA MovesServer ==
  ASSUME NEW s \in Servers, NEW pc, Records, Moves(s, pc)
  PROVE  ServerGoes(s, {pc})
  BY DEF Records, Moves, ServerGoes, IsServer

LEMMA EndsServer ==
  ASSUME NEW s \in Servers, Records, Ends(s)
  PROVE  ServerGoes(s, {"off"})
  BY DEF Records, Ends, ServerGoes, IsServer, NoServer

LEMMA SelectServer ==
  ASSUME NEW s \in Servers, Records, Select(s)
  PROVE  ServerGoes(s, {"loop", "control", "command"})
  <1>1. PICK ready \in SUBSET Readable(s) \ {{}} :
          LET new == IF "sock" \in ready THEN server[s].backlog ELSE <<>>
              first == server[s].control = NoConn /\ new # <<>>
          IN server' = [server EXCEPT ![s].ready = ready, ![s].pc = Then(ready),
                          ![s].backlog = IF "sock" \in ready THEN <<>> ELSE @,
                          ![s].control = IF first THEN Head(new) ELSE @,
                          ![s].queue = @ \o (IF first THEN Tail(new) ELSE new)]
    BY DEF Select
  <1> DEFINE new == IF "sock" \in ready THEN server[s].backlog ELSE <<>>
             first == server[s].control = NoConn /\ new # <<>>
             left == IF "sock" \in ready THEN <<>> ELSE server[s].backlog
             control == IF first THEN Head(new) ELSE server[s].control
             queue == server[s].queue \o (IF first THEN Tail(new) ELSE new)
             part == Then(ready)
  <1>2. server' = [server EXCEPT ![s].ready = ready, ![s].pc = part, ![s].backlog = left,
                     ![s].control = control, ![s].queue = queue]
    BY <1>1
  <1>3. part \in {"loop", "control", "command"}
    BY DEF Then
  <1> HIDE DEF left, control, queue, part
  <1>5. server' = [t \in Servers |-> server'[t]] /\ \A t \in Servers \ {s} : server'[t] = server[t]
    BY <1>2 DEF Records
  <1>6. IsServer(server'[s]) /\ server'[s].pc = part
    BY <1>2 DEF Records, IsServer
  <1> QED BY <1>3, <1>5, <1>6 DEF Records, ServerGoes

LEMMA DisconnectedServer ==
  ASSUME NEW s \in Servers, NEW stuck \in BOOLEAN, Records, Disconnected(s, stuck)
  PROVE  ServerGoes(s, {"loop"})
  <1> DEFINE r == server[s]
             quit == r.quit \/ (stuck /\ r.ui # NoConn)
             next == r.queue # <<>> /\ ~quit
             control == IF next THEN Last(r.queue) ELSE NoConn
             queue == IF next THEN Front(r.queue) ELSE r.queue
             over == quit \/ (~next /\ timeout = "none" /\ r.backlog = <<>>)
             none == NoConn
  <1>1. server' = [server EXCEPT ![s].pc = "loop", ![s].ui = none, ![s].pending = "nothing",
                     ![s].ready = {}, ![s].control = control, ![s].queue = queue,
                     ![s].quit = over]
    BY DEF Disconnected
  <1> HIDE DEF control, queue, over, none
  <1>3. server' = [t \in Servers |-> server'[t]] /\ \A t \in Servers \ {s} : server'[t] = server[t]
    BY <1>1 DEF Records
  <1>4. IsServer(server'[s]) /\ server'[s].pc = "loop"
    BY <1>1 DEF Records, IsServer
  <1> QED BY <1>3, <1>4 DEF Records, ServerGoes

LEMMA GoesClient ==
  ASSUME NEW c \in Clients, NEW pc, Records, Goes(c, pc)
  PROVE  ClientGoes(c, {pc})
  BY DEF Records, Goes, ClientGoes, IsClient

LEMMA AgainClient ==
  ASSUME NEW c \in Clients, Records, Again(c)
  PROVE  ClientGoes(c, {"lock", "failed"})
  BY DEF Records, Again, Settles, NewClient, ClientGoes, IsClient

-----------------------------------------------------------------------------
(* One server *)

\* A client that has the lock and has started nothing has it alone; a server
\* holds the lock until it closes it; and no two servers share one, because
\* the only lock that a server inherits is the lock of such a client.
Inv ==
  /\ LockInv
  /\ Records
  /\ \A c \in Clients :
       client[c].pc = "locked" => at[c] \in {"holds", "unlinked"} /\ held[fd[c]] = {c}
  /\ \A s \in Servers : server[s].pc \in HoldsLock => at[s] = "holds"
  /\ \A s, t \in Servers : at[s] = "holds" /\ at[t] = "holds" => s = t

\* A step of p in lockfile(), unlockfile() or close(), or none.
LockStep(p) == Lock(p) \/ UnlockFile(p) \/ Close(p) \/ UNCHANGED lockvars

LEMMA LockStepIsLocal ==
  ASSUME NEW p \in Procs, LockInv, LockStep(p), NEW q \in Procs, p # q
  PROVE  /\ at'[q] = at[q] /\ fd'[q] = fd[q]
         /\ at[q] \in {"holds", "unlinked"} /\ held[fd[q]] = {q} => held'[fd[q]] = {q}
  BY NoInode DEF LockInv, LockTypeOK, LockStep, Lock, UnlockFile, Open, Refused, Acquire,
     Stale, Close, Unlink, Unlock, Forget, lockvars

LEMMA LockStepHolds ==
  ASSUME NEW p \in Procs, LockInv, LockStep(p), at[p] # "holds", at'[p] = "holds",
         NEW q \in Procs
  PROVE  at[q] # "holds"
  BY NoInode DEF LockInv, LockTypeOK, LockStep, Lock, UnlockFile, Open, Refused, Acquire,
     Stale, Close, Unlink, Unlock, Forget, lockvars

LEMMA LockStepInv ==
  ASSUME NEW p \in Procs, LockInv, LockStep(p)
  PROVE  LockInv'
  <1>1. CASE UNCHANGED lockvars
    BY <1>1 DEF LockInv, LockTypeOK, lockvars
  <1>2. CASE Lock(p) \/ UnlockFile(p) \/ Close(p)
    BY <1>2, LockStepKeepsInv DEF LockNext
  <1> QED BY <1>1, <1>2 DEF LockStep

\* A step of one server: it may give up the lock only when it leaves HoldsLock.
LEMMA ServerStepKeepsInv ==
  ASSUME Inv, NEW s \in Servers, NEW pcs, LockStep(s), ServerGoes(s, pcs),
         client' = [c \in Clients |-> client'[c]],
         \A c \in Clients : IsClient(client'[c]),
         \A c \in Clients : client'[c].pc = "locked" => client[c].pc = "locked",
         server'[s].pc \in HoldsLock => at'[s] = "holds"
  PROVE  Inv'
  <1> USE ProcsAssumption
  <1>1. LockInv'
    BY LockStepInv DEF Inv
  <1>2. Records'
    BY DEF Records, ServerGoes
  <1>3. ASSUME NEW c \in Clients, client'[c].pc = "locked"
        PROVE  at'[c] \in {"holds", "unlinked"} /\ held'[fd'[c]] = {c}
    <2>1. at[c] \in {"holds", "unlinked"} /\ held[fd[c]] = {c} /\ c # s
      BY <1>3 DEF Inv
    <2> QED BY <2>1, LockStepIsLocal DEF Inv
  <1>4. \A t \in Servers : server'[t].pc \in HoldsLock => at'[t] = "holds"
    BY LockStepIsLocal DEF Inv, ServerGoes
  <1>5. ASSUME NEW t \in Servers, NEW u \in Servers, at'[t] = "holds", at'[u] = "holds"
        PROVE  t = u
    <2>1. CASE at[s] # "holds" /\ at'[s] = "holds"
      BY <1>5, <2>1, LockStepIsLocal, LockStepHolds DEF Inv
    <2>2. CASE at[s] = "holds" \/ at'[s] # "holds"
      BY <1>5, <2>2, LockStepIsLocal DEF Inv
    <2> QED BY <2>1, <2>2
  <1> QED BY <1>1, <1>2, <1>3, <1>4, <1>5 DEF Inv

\* A step of one client that starts no server.
LEMMA ClientStepKeepsInv ==
  ASSUME Inv, NEW c \in Clients, NEW pcs, LockStep(c), ClientGoes(c, pcs),
         server' = [s \in Servers |-> server'[s]],
         \A s \in Servers : IsServer(server'[s]) /\ server'[s].pc = server[s].pc,
         client'[c].pc = "locked" => at'[c] \in {"holds", "unlinked"} /\ held'[fd'[c]] = {c}
  PROVE  Inv'
  <1> USE ProcsAssumption
  <1>1. LockInv'
    BY LockStepInv DEF Inv
  <1>2. Records'
    BY DEF Records, ClientGoes
  <1>3. ASSUME NEW d \in Clients, client'[d].pc = "locked"
        PROVE  at'[d] \in {"holds", "unlinked"} /\ held'[fd'[d]] = {d}
    <2>1. CASE d = c
      BY <1>3, <2>1
    <2>2. CASE d # c
      <3>1. at[d] \in {"holds", "unlinked"} /\ held[fd[d]] = {d}
        BY <1>3, <2>2 DEF Inv, ClientGoes
      <3>2. LockInv /\ c \in Procs /\ d \in Procs
        BY DEF Inv
      <3>3. /\ at'[d] = at[d] /\ fd'[d] = fd[d]
            /\ held'[fd[d]] = {d}
        BY <2>2, <3>1, <3>2, LockStepIsLocal
      <3> QED BY <3>1, <3>3
    <2> QED BY <2>1, <2>2
  <1>4. \A s \in Servers : at'[s] = at[s]
    BY LockStepIsLocal DEF Inv
  <1> QED BY <1>1, <1>2, <1>3, <1>4 DEF Inv

LEMMA SettlesClient ==
  ASSUME NEW c \in Clients, NEW pc, Records, Settles(c, pc)
  PROVE  ClientGoes(c, {pc})
  BY DEF Records, Settles, NewClient, ClientGoes, IsClient

LEMMA ClientKeepsInv ==
  ASSUME Inv, NEW c \in Clients, ClientStep(c)
  PROVE  Inv'
  <1> USE ProcsAssumption
  <1>a. Records /\ LockInv /\ c \in Procs
    BY DEF Inv
  <1>b. UNCHANGED server =>
          /\ server' = [s \in Servers |-> server'[s]]
          /\ \A s \in Servers : IsServer(server'[s]) /\ server'[s].pc = server[s].pc
    BY <1>a DEF Records
  <1>1. CASE TryLock(c)
    <2>1. CASE Open(c) /\ UNCHANGED client
      <3>1. ClientGoes(c, {"lock"})
        BY <1>1, <1>a, <2>1 DEF TryLock, Records, ClientGoes
      <3>2. LockStep(c) /\ client'[c].pc # "locked"
        BY <2>1, <3>1 DEF LockStep, Lock, ClientGoes
      <3> QED BY <1>1, <1>b, <3>1, <3>2, ClientStepKeepsInv DEF TryLock
    <2>2. CASE Acquire(c) /\ Goes(c, "locked")
      <3>1. ClientGoes(c, {"locked"})
        BY <1>a, <2>2, GoesClient
      <3>2. LockStep(c)
        BY <2>2 DEF LockStep, Lock
      <3>3. at'[c] = "holds" /\ held'[fd'[c]] = {c}
        BY <1>a, <2>2, NoInode DEF Acquire, LockInv, LockTypeOK
      <3> QED BY <1>1, <1>b, <3>1, <3>2, <3>3, ClientStepKeepsInv DEF TryLock
    <2>3. CASE (Refused(c) \/ Stale(c)) /\ Goes(c, "nolock")
      <3>1. ClientGoes(c, {"nolock"})
        BY <1>a, <2>3, GoesClient
      <3>2. LockStep(c) /\ client'[c].pc # "locked"
        BY <2>3, <3>1 DEF LockStep, Lock, ClientGoes
      <3> QED BY <1>1, <1>b, <3>1, <3>2, ClientStepKeepsInv DEF TryLock
    <2> QED BY <1>1, <2>1, <2>2, <2>3 DEF TryLock
  <1>2. CASE GiveBack(c)
    <2>1. CASE Unlink(c) /\ UNCHANGED client
      <3>1. ClientGoes(c, {"locked"}) /\ LockStep(c)
        BY <1>2, <1>a, <2>1 DEF GiveBack, Records, ClientGoes, LockStep, UnlockFile
      <3>2. at'[c] = "unlinked" /\ held'[fd'[c]] = {c}
        BY <1>a, <2>1 DEF Unlink, LockInv, LockTypeOK
      <3> QED BY <1>2, <1>b, <3>1, <3>2, ClientStepKeepsInv DEF GiveBack
    <2>2. CASE Unlock(c) /\ Again(c)
      <3>1. ClientGoes(c, {"lock", "failed"})
        BY <1>a, <2>2, AgainClient
      <3>2. LockStep(c) /\ client'[c].pc # "locked"
        BY <2>2, <3>1 DEF LockStep, UnlockFile, ClientGoes
      <3> QED BY <1>2, <1>b, <3>1, <3>2, ClientStepKeepsInv DEF GiveBack
    <2> QED BY <1>2, <2>1, <2>2 DEF GiveBack
  <1>3. CASE StartServer(c)
    <2>1. PICK s \in FreePlaces : /\ Share(c, s)
                                 /\ client' = [client EXCEPT ![c].pc = "forked", ![c].srv = s]
                                 /\ server' = [server EXCEPT ![s] = [NoServer EXCEPT !.pc = "exec"]]
      BY <1>3 DEF StartServer
    <2>2. s \in Servers /\ s \in Procs /\ s # c
      BY <2>1 DEF FreePlaces
    <2>3. at[c] = "holds" /\ at[s] = "out" /\ held[fd[c]] = {c} /\ disk = fd[c]
      BY <1>3, <1>a, <2>1 DEF StartServer, Inv, Share, LockInv
    <2>4. LockInv'
      BY <1>a, <2>1, <2>2, ShareKeepsInv
    <2>5. ClientGoes(c, {"forked"})
      BY <1>a, <2>1 DEF Records, ClientGoes, IsClient
    <2>6. ServerGoes(s, {"exec"})
      BY <1>a, <2>1, <2>2 DEF Records, ServerGoes, IsServer, NoServer
    <2>7. Records'
      BY <2>5, <2>6 DEF Records, ClientGoes, ServerGoes
    <2>8. \A q \in Procs \ {s} : at'[q] = at[q] /\ fd'[q] = fd[q]
      BY <1>a, <2>1, <2>2 DEF Share, LockInv, LockTypeOK
    <2>9. at'[s] = "holds"
      BY <1>a, <2>1, <2>2 DEF Share, LockInv, LockTypeOK
    <2>10. ASSUME NEW d \in Clients, client'[d].pc = "locked"
           PROVE  at'[d] \in {"holds", "unlinked"} /\ held'[fd'[d]] = {d}
      <3>1. d # c /\ client[d].pc = "locked"
        BY <2>5, <2>10 DEF ClientGoes
      <3>2. at[d] \in {"holds", "unlinked"} /\ held[fd[d]] = {d} /\ d # s /\ d \in Procs
        BY <2>2, <3>1 DEF Inv
      <3>3. fd[d] # fd[c]
        BY <2>3, <3>1, <3>2
      <3>4. held'[fd[d]] = held[fd[d]]
        BY <1>a, <2>1, <3>2, <3>3 DEF Share, LockInv, LockTypeOK
      <3> QED BY <2>8, <3>2, <3>4
    <2>11. \A t \in Servers : at[t] # "holds"
      BY <1>a, <2>3 DEF LockInv, LockTypeOK
    <2>12. \A t \in Servers : server'[t].pc \in HoldsLock => at'[t] = "holds"
      BY <2>6, <2>8, <2>9 DEF Inv, ServerGoes
    <2>13. \A t, u \in Servers : at'[t] = "holds" /\ at'[u] = "holds" => t = u
      BY <2>8, <2>11
    <2> QED BY <2>4, <2>7, <2>10, <2>12, <2>13 DEF Inv
  <1>4. CASE NoLock(c)
    <2>1. ClientGoes(c, {"connect", "lock"})
      BY <1>4, <1>a DEF NoLock, Records, ClientGoes, IsClient
    <2>2. LockStep(c) /\ client'[c].pc # "locked"
      BY <1>4, <2>1 DEF NoLock, LockStep, ClientGoes
    <2> QED BY <1>4, <1>b, <2>1, <2>2, ClientStepKeepsInv DEF NoLock
  <1>5. CASE Poll(c)
    <2>1. ClientGoes(c, {"lock"})
      BY <1>5, <1>a, GoesClient DEF Poll
    <2>2. LockStep(c) /\ client'[c].pc # "locked"
      BY <1>5, <2>1 DEF Poll, LockStep, ClientGoes
    <2> QED BY <1>5, <1>b, <2>1, <2>2, ClientStepKeepsInv DEF Poll
  <1>6. CASE StopPolling(c) \/ ServerNotStarted(c) \/ NotConnected(c) \/ ConnectionEnds(c)
    <2>1. Again(c) /\ UNCHANGED <<lockvars, server>>
      BY <1>6 DEF StopPolling, ServerNotStarted, NotConnected, ConnectionEnds
    <2>2. ClientGoes(c, {"lock", "failed"})
      BY <1>a, <2>1, AgainClient
    <2>3. LockStep(c) /\ client'[c].pc # "locked"
      BY <2>1, <2>2 DEF LockStep, ClientGoes
    <2> QED BY <1>b, <2>1, <2>2, <2>3, ClientStepKeepsInv
  <1>7. CASE CloseLock(c)
    <2>1. ClientGoes(c, {"starting"})
      BY <1>7, <1>a, GoesClient DEF CloseLock
    <2>2. LockStep(c) /\ client'[c].pc # "locked"
      BY <1>7, <2>1 DEF CloseLock, LockStep, ClientGoes
    <2> QED BY <1>7, <1>b, <2>1, <2>2, ClientStepKeepsInv DEF CloseLock
  <1>8. CASE ServerStarted(c)
    <2>1. ClientGoes(c, {"connect"})
      BY <1>8, <1>a DEF ServerStarted, Records, ClientGoes, IsClient
    <2>2. LockStep(c) /\ client'[c].pc # "locked"
      BY <1>8, <2>1 DEF ServerStarted, LockStep, ClientGoes
    <2>3. /\ server' = [s \in Servers |-> server'[s]]
          /\ \A s \in Servers : IsServer(server'[s]) /\ server'[s].pc = server[s].pc
      BY <1>8, <1>a DEF ServerStarted, Records, IsServer
    <2> QED BY <2>1, <2>2, <2>3, ClientStepKeepsInv
  <1>9. CASE Connect(c)
    <2>1. ClientGoes(c, {"connected"})
      BY <1>9, <1>a DEF Connect, Records, ClientGoes, IsClient
    <2>2. LockStep(c) /\ client'[c].pc # "locked"
      BY <1>9, <2>1 DEF Connect, LockStep, ClientGoes
    <2>3. /\ server' = [s \in Servers |-> server'[s]]
          /\ \A s \in Servers : IsServer(server'[s]) /\ server'[s].pc = server[s].pc
      BY <1>9, <1>a DEF Connect, Records, IsServer
    <2> QED BY <2>1, <2>2, <2>3, ClientStepKeepsInv
  <1>10. CASE SendFds(c)
    <2>1. ClientGoes(c, {"waiting"})
      BY <1>10, <1>a, GoesClient DEF SendFds
    <2>2. LockStep(c) /\ client'[c].pc # "locked"
      BY <1>10, <2>1 DEF SendFds, LockStep, ClientGoes
    <2> QED BY <1>10, <1>b, <2>1, <2>2, ClientStepKeepsInv DEF SendFds
  <1>11. CASE Leave(c) \/ Killed(c)
    <2>1. Settles(c, "done") /\ UNCHANGED <<lockvars, server>>
      BY <1>11 DEF Leave, Killed
    <2>2. ClientGoes(c, {"done"})
      BY <1>a, <2>1, SettlesClient
    <2>3. LockStep(c) /\ client'[c].pc # "locked"
      BY <2>1, <2>2 DEF LockStep, ClientGoes
    <2> QED BY <1>b, <2>1, <2>2, <2>3, ClientStepKeepsInv
  <1>12. CASE KillServer(c)
    <2>1. ClientGoes(c, {"killing"})
      BY <1>12, <1>a, GoesClient DEF KillServer
    <2>2. LockStep(c) /\ client'[c].pc # "locked"
      BY <1>12, <2>1 DEF KillServer, LockStep, ClientGoes
    <2>3. /\ server' = [s \in Servers |-> server'[s]]
          /\ \A s \in Servers : IsServer(server'[s]) /\ server'[s].pc = server[s].pc
      BY <1>12, <1>a DEF KillServer, Records, IsServer
    <2> QED BY <2>1, <2>2, <2>3, ClientStepKeepsInv
  <1> QED BY <1>1, <1>2, <1>3, <1>4, <1>5, <1>6, <1>7, <1>8, <1>9, <1>10, <1>11, <1>12
          DEF ClientStep

LEMMA ServerKeepsInv ==
  ASSUME Inv, NEW s \in Servers, ServerStep(s)
  PROVE  Inv'
  <1> USE ProcsAssumption
  <1>a. Records /\ LockInv /\ s \in Procs
    BY DEF Inv
  <1>b. UNCHANGED client =>
          /\ client' = [c \in Clients |-> client'[c]]
          /\ \A c \in Clients : IsClient(client'[c])
          /\ \A c \in Clients : client'[c].pc = "locked" => client[c].pc = "locked"
    BY <1>a DEF Records
  <1>c. server[s].pc \in HoldsLock /\ UNCHANGED lockvars => at'[s] = "holds" /\ LockStep(s)
    BY DEF Inv, LockStep, lockvars
  <1>1. CASE Bind(s) \/ Listen(s)
    <2>1. \E pc : Moves(s, pc)
      BY <1>1 DEF Bind, Listen
    <2>2. \E pc : ServerGoes(s, {pc})
      BY <1>a, <2>1, MovesServer
    <2>3. server[s].pc \in HoldsLock /\ UNCHANGED <<lockvars, client>>
      BY <1>1 DEF Bind, Listen, HoldsLock, Listening
    <2> QED BY <1>b, <1>c, <2>2, <2>3, ServerStepKeepsInv
  <1>2. CASE Started(s)
    <2>1. ServerGoes(s, {"loop"})
      BY <1>2, <1>a DEF Started, Records, ServerGoes, IsServer
    <2>2. server[s].pc \in HoldsLock /\ UNCHANGED <<lockvars, client>>
      BY <1>2 DEF Started, HoldsLock, Listening
    <2> QED BY <1>b, <1>c, <2>1, <2>2, ServerStepKeepsInv
  <1>3. CASE Select(s)
    <2>1. ServerGoes(s, {"loop", "control", "command"})
      BY <1>3, <1>a, SelectServer
    <2>2. server[s].pc \in HoldsLock /\ UNCHANGED <<lockvars, client>>
      BY <1>3 DEF Select, HoldsLock, Listening
    <2> QED BY <1>b, <1>c, <2>1, <2>2, ServerStepKeepsInv
  <1>4. CASE Control(s)
    <2>1. \E pcs : ServerGoes(s, pcs)
      <3>1. CASE server[s].control \in sent
        <4> DEFINE part == Then(server[s].ready \ {"controllersock"})
                   ui == server[s].control
        <4>1. server' = [server EXCEPT ![s].pc = part, ![s].ready = {}, ![s].ui = ui,
                           ![s].pending = "setFeatures", ![s].hadui = TRUE]
          BY <1>4, <3>1 DEF Control
        <4> HIDE DEF part, ui
        <4>2. ServerGoes(s, {part})
          BY <1>a, <4>1 DEF Records, ServerGoes, IsServer
        <4> QED BY <4>2
      <3>2. CASE server[s].control \notin sent
        BY <1>4, <1>a, <3>2, DisconnectedServer DEF Control
      <3> QED BY <3>1, <3>2
    <2>2. server[s].pc \in HoldsLock /\ UNCHANGED <<lockvars, client>>
      BY <1>4 DEF Control, HoldsLock, Listening
    <2> QED BY <1>b, <1>c, <2>1, <2>2, ServerStepKeepsInv
  <1>5. CASE Command(s)
    <2>1. \E pcs : ServerGoes(s, pcs)
      <3>1. CASE server[s].pending = "setFeatures"
        <4>1. ServerGoes(s, {"loop"})
          BY <1>5, <1>a, <3>1 DEF Command, Records, ServerGoes, IsServer
        <4> QED BY <4>1
      <3>2. CASE server[s].pending = "terminateServer"
        <4>1. ServerGoes(s, {"loop"})
          BY <1>5, <1>a, <3>2 DEF Command, Records, ServerGoes, IsServer
        <4> QED BY <4>1
      <3>3. CASE server[s].pending = "nothing"
        BY <1>5, <1>a, <3>3, DisconnectedServer DEF Command
      <3> QED BY <1>5, <3>1, <3>2, <3>3 DEF Command
    <2>2. server[s].pc \in HoldsLock /\ UNCHANGED lockvars
      BY <1>5 DEF Command, HoldsLock, Listening
    <2>3. /\ client' = [c \in Clients |-> client'[c]]
          /\ \A c \in Clients : IsClient(client'[c])
          /\ \A c \in Clients : client'[c].pc = "locked" => client[c].pc = "locked"
      <3>1. CASE UNCHANGED client
        BY <1>b, <3>1
      <3>2. CASE Goes(server[s].ui[1], "served")
        BY <1>a, <3>2 DEF Records, Goes, IsClient
      <3> QED BY <1>5, <3>1, <3>2 DEF Command
    <2> QED BY <1>c, <2>1, <2>2, <2>3, ServerStepKeepsInv
  <1>6. CASE TimedOut(s)
    <2>1. ServerGoes(s, {"loop"})
      BY <1>6, <1>a DEF TimedOut, Records, ServerGoes, IsServer
    <2>2. server[s].pc \in HoldsLock /\ UNCHANGED <<lockvars, client>>
      BY <1>6 DEF TimedOut, HoldsLock, Listening
    <2> QED BY <1>b, <1>c, <2>1, <2>2, ServerStepKeepsInv
  <1>7. CASE UnlinkSocket(s)
    <2>1. ServerGoes(s, {"closed"})
      BY <1>7, <1>a DEF UnlinkSocket, Records, ServerGoes, IsServer, NoServer
    <2>2. server[s].pc \in HoldsLock /\ UNCHANGED <<lockvars, client>>
      BY <1>7 DEF UnlinkSocket, HoldsLock, Listening
    <2> QED BY <1>b, <1>c, <2>1, <2>2, ServerStepKeepsInv
  <1>8. CASE ReleaseLock(s)
    <2>1. ServerGoes(s, {"released"}) /\ LockStep(s) /\ UNCHANGED client
      BY <1>8, <1>a, MovesServer DEF ReleaseLock, LockStep
    <2>2. server'[s].pc \notin HoldsLock
      BY <2>1 DEF ServerGoes, HoldsLock, Listening
    <2> QED BY <1>b, <2>1, <2>2, ServerStepKeepsInv
  <1>9. CASE LockFileGone(s) \/ Relock(s) \/ RemoveLock(s)
    <2>1. LockStep(s) /\ UNCHANGED client
      BY <1>9 DEF LockFileGone, Relock, RemoveLock, LockStep, Lock, UnlockFile
    <2>2. server[s].pc \in {"released", "relocked"}
      BY <1>9 DEF LockFileGone, Relock, RemoveLock
    <2>3. UNCHANGED server \/ Ends(s) \/ Moves(s, "relocked")
      BY <1>9 DEF LockFileGone, Relock, RemoveLock
    <2>4. ServerGoes(s, {"released", "relocked", "off"})
      <3>1. CASE UNCHANGED server
        BY <1>a, <2>2, <3>1 DEF Records, ServerGoes
      <3>2. CASE Ends(s)
        BY <1>a, <3>2, EndsServer DEF ServerGoes
      <3>3. CASE Moves(s, "relocked")
        BY <1>a, <3>3, MovesServer DEF ServerGoes
      <3> QED BY <2>3, <3>1, <3>2, <3>3
    <2>5. server'[s].pc \notin HoldsLock
      BY <2>4 DEF ServerGoes, HoldsLock, Listening
    <2> QED BY <1>b, <2>1, <2>4, <2>5, ServerStepKeepsInv
  <1> QED BY <1>1, <1>2, <1>3, <1>4, <1>5, <1>6, <1>7, <1>8, <1>9 DEF ServerStep

LEMMA FaultKeepsInv ==
  ASSUME Inv, Fault
  PROVE  Inv'
  <1> USE ProcsAssumption
  <1>a. Records /\ LockInv
    BY DEF Inv
  <1>b. UNCHANGED client =>
          /\ client' = [c \in Clients |-> client'[c]]
          /\ \A c \in Clients : IsClient(client'[c])
          /\ \A c \in Clients : client'[c].pc = "locked" => client[c].pc = "locked"
    BY <1>a DEF Records
  <1>c. UNCHANGED server =>
          /\ server' = [s \in Servers |-> server'[s]]
          /\ \A s \in Servers : IsServer(server'[s]) /\ server'[s].pc = server[s].pc
    BY <1>a DEF Records
  <1>1. ASSUME NEW s \in Servers, KillProcess(s) PROVE Inv'
    <2>1. LockStep(s) /\ UNCHANGED client
      BY <1>1 DEF KillProcess, LosesLock, LockStep
    <2>2. ServerGoes(s, {"off"})
      BY <1>1, <1>a, EndsServer DEF KillProcess
    <2>3. server'[s].pc \notin HoldsLock
      BY <2>2 DEF ServerGoes, HoldsLock, Listening
    <2> QED BY <1>b, <2>1, <2>2, <2>3, ServerStepKeepsInv
  <1>2. ASSUME NEW s \in Servers, IdleThreadDies(s) PROVE Inv'
    <2>1. ServerGoes(s, {"loop", "control", "command"})
      BY <1>2, <1>a DEF IdleThreadDies, Records, ServerGoes, IsServer
    <2>2. server[s].pc \in HoldsLock /\ UNCHANGED <<lockvars, client>>
      BY <1>2 DEF IdleThreadDies, HoldsLock, Listening
    <2>3. at'[s] = "holds" /\ LockStep(s)
      BY <2>2 DEF Inv, LockStep, lockvars
    <2> QED BY <1>b, <2>1, <2>2, <2>3, ServerStepKeepsInv
  <1>3. ASSUME NEW c \in Clients, KillClient(c) PROVE Inv'
    <2>1. LockStep(c) /\ UNCHANGED server
      BY <1>3 DEF KillClient, LosesLock, LockStep
    <2>2. ClientGoes(c, {"failed"})
      BY <1>3, <1>a, SettlesClient DEF KillClient
    <2>3. client'[c].pc # "locked"
      BY <2>2 DEF ClientGoes
    <2> QED BY <1>c, <2>1, <2>2, <2>3, ClientStepKeepsInv
  <1>4. ASSUME NEW c \in Clients, TooSlow(c) PROVE Inv'
    <2>1. LockStep(c) /\ UNCHANGED server
      BY <1>4 DEF TooSlow, LockStep
    <2>2. ClientGoes(c, {"lock", "failed"})
      BY <1>4, <1>a, AgainClient DEF TooSlow
    <2>3. client'[c].pc # "locked"
      BY <2>2 DEF ClientGoes
    <2> QED BY <1>c, <2>1, <2>2, <2>3, ClientStepKeepsInv
  <1> QED BY <1>1, <1>2, <1>3, <1>4 DEF Fault

LEMMA InitInv == Init => Inv
  <1> SUFFICES ASSUME Init PROVE Inv
    OBVIOUS
  <1> USE ProcsAssumption
  <1>1. LockInv
    BY LockInitHolds DEF Init
  <1>2. Records
    BY DEF Init, Records, IsClient, IsServer, NewClient, NoServer
  <1>3. \A c \in Clients : client[c].pc = "lock"
    BY DEF Init, NewClient
  <1>4. \A s \in Servers : server[s].pc = "off" /\ at[s] = "out"
    BY DEF Init, NoServer, LockInit
  <1>5. \A s \in Servers : server[s].pc \notin HoldsLock
    BY <1>4 DEF HoldsLock, Listening
  <1> QED BY <1>1, <1>2, <1>3, <1>4, <1>5 DEF Inv

\* There is never a second server in a build directory, however clients start
\* servers, give up and are killed, and however servers end: from its exec()
\* to lock.close() a server is the only one.  (process.py:572-690, 326-395)
THEOREM NoSecondServer == Spec => []OneServer
  <1>1. Inv /\ [Next]_vars => Inv'
    <2> SUFFICES ASSUME Inv, [Next]_vars PROVE Inv'
      OBVIOUS
    <2>1. CASE Next
      BY <2>1, FaultKeepsInv, ClientKeepsInv, ServerKeepsInv DEF Next
    <2>2. CASE UNCHANGED vars
      BY <2>2 DEF vars, lockvars, Inv, LockInv, LockTypeOK, Records
    <2> QED BY <2>1, <2>2
  <1>2. Inv => OneServer
    BY DEF Inv, OneServer
  <1> QED BY <1>1, <1>2, InitInv, PTL DEF Spec

-----------------------------------------------------------------------------
(* The socket file *)

Reached == {"bound"} \cup Listening

\* A server whose socket has a name is the one that is found by it.
SocketInv == \A s \in Servers : server[s].pc \in Reached => socket = s

LEMMA OthersStand ==
  ASSUME SocketInv, UNCHANGED socket,
         \A s \in Servers : server'[s].pc \in Reached => server[s].pc \in Reached
  PROVE  SocketInv'
  BY DEF SocketInv

LEMMA ServerStands ==
  ASSUME SocketInv, UNCHANGED socket, NEW s \in Servers, NEW pcs, ServerGoes(s, pcs),
         server[s].pc \in Reached \/ pcs \cap Reached = {}
  PROVE  SocketInv'
  <1>1. \A t \in Servers : server'[t].pc \in Reached => server[t].pc \in Reached
    BY DEF ServerGoes
  <1> QED BY <1>1, OthersStand

\* The others are not reached while s holds the lock.
LEMMA Alone ==
  ASSUME OneServer, NEW s \in Servers, server[s].pc \in HoldsLock,
         NEW pcs, ServerGoes(s, pcs)
  PROVE  \A t \in Servers \ {s} : server'[t].pc \notin Reached
  BY DEF OneServer, ServerGoes, HoldsLock, Reached

LEMMA ClientKeepsSocket ==
  ASSUME Inv, SocketInv, NEW c \in Clients, ClientStep(c)
  PROVE  SocketInv'
  <1>a. Records
    BY DEF Inv
  <1>1. UNCHANGED socket
    BY DEF ClientStep, TryLock, NoLock, Poll, StopPolling, GiveBack, StartServer, CloseLock,
           ServerStarted, ServerNotStarted, Connect, NotConnected, SendFds,
           ConnectionEnds, Leave, KillServer, Killed
  <1>2. CASE StartServer(c)
    <2>1. PICK s \in Servers : server' = [server EXCEPT ![s] = [NoServer EXCEPT !.pc = "exec"]]
      BY <1>2 DEF StartServer, FreePlaces
    <2>2. ServerGoes(s, {"exec"})
      BY <1>a, <2>1 DEF Records, ServerGoes, IsServer, NoServer
    <2> QED BY <1>1, <2>2, ServerStands DEF Reached, Listening
  <1>3. CASE ServerStarted(c) \/ Connect(c) \/ KillServer(c)
    <2>1. \A s \in Servers : server'[s].pc = server[s].pc
      <3>1. CASE ServerStarted(c)
        BY <1>a, <3>1 DEF ServerStarted, Records, IsServer
      <3>2. CASE Connect(c)
        BY <1>a, <3>2 DEF Connect, Records, IsServer
      <3>3. CASE KillServer(c)
        BY <1>a, <3>3 DEF KillServer, Records, IsServer
      <3> QED BY <1>3, <3>1, <3>2, <3>3
    <2> QED BY <1>1, <2>1, OthersStand
  <1>4. CASE \/ TryLock(c) \/ NoLock(c) \/ Poll(c) \/ StopPolling(c) \/ GiveBack(c)
             \/ CloseLock(c) \/ ServerNotStarted(c) \/ NotConnected(c) \/ SendFds(c)
             \/ ConnectionEnds(c) \/ Leave(c) \/ Killed(c)
    <2>1. CASE TryLock(c) \/ GiveBack(c)
      BY <1>1, <2>1, OthersStand DEF TryLock, GiveBack
    <2>2. CASE NoLock(c) \/ Poll(c) \/ StopPolling(c) \/ CloseLock(c) \/ ServerNotStarted(c)
      BY <1>1, <2>2, OthersStand DEF NoLock, Poll, StopPolling, CloseLock, ServerNotStarted
    <2>3. CASE \/ NotConnected(c) \/ SendFds(c) \/ ConnectionEnds(c) \/ Leave(c)
               \/ Killed(c)
      BY <1>1, <2>3, OthersStand DEF NotConnected, SendFds, ConnectionEnds, Leave, Killed
    <2> QED BY <1>4, <2>1, <2>2, <2>3
  <1> QED BY <1>2, <1>3, <1>4 DEF ClientStep

LEMMA ServerKeepsSocket ==
  ASSUME Inv, SocketInv, NEW s \in Servers, ServerStep(s)
  PROVE  SocketInv'
  <1>a. Records /\ OneServer
    BY DEF Inv, OneServer
  <1>1. CASE Bind(s)
    <2>1. ServerGoes(s, {"bound"}) /\ server[s].pc \in HoldsLock /\ socket' = s
      BY <1>1, <1>a, MovesServer DEF Bind, HoldsLock
    <2>2. \A t \in Servers \ {s} : server'[t].pc \notin Reached
      BY <1>a, <2>1, Alone
    <2> QED BY <2>1, <2>2 DEF SocketInv
  <1>2. CASE UnlinkSocket(s)
    <2>1. ServerGoes(s, {"closed"}) /\ server[s].pc \in HoldsLock
      BY <1>2, <1>a
      DEF UnlinkSocket, Records, ServerGoes, IsServer, NoServer, HoldsLock, Listening
    <2>2. \A t \in Servers \ {s} : server'[t].pc \notin Reached
      BY <1>a, <2>1, Alone
    <2>3. server'[s].pc \notin Reached
      BY <2>1 DEF ServerGoes, Reached, Listening
    <2> QED BY <2>2, <2>3 DEF SocketInv
  <1>3. CASE \/ Listen(s) \/ Started(s) \/ Select(s) \/ Control(s) \/ Command(s)
             \/ TimedOut(s)
    <2>1. server[s].pc \in Reached /\ UNCHANGED socket
      BY <1>3 DEF Listen, Started, Select, Control, Command, TimedOut, Reached, Listening
    <2>2. \A t \in Servers \ {s} : server'[t] = server[t]
      BY <1>3, <1>a
      DEF Listen, Moves, Started, Select, Control, Disconnected, Command, TimedOut, Records
    <2>3. \A t \in Servers : server'[t].pc \in Reached => server[t].pc \in Reached
      BY <2>1, <2>2
    <2> QED BY <2>1, <2>3, OthersStand
  <1>4. CASE ReleaseLock(s)
    <2>1. ServerGoes(s, {"released"}) /\ UNCHANGED socket
      BY <1>4, <1>a, MovesServer DEF ReleaseLock
    <2> QED BY <2>1, ServerStands DEF Reached, Listening
  <1>5. CASE LockFileGone(s) \/ Relock(s) \/ RemoveLock(s)
    <2>1. UNCHANGED socket
      BY <1>5 DEF LockFileGone, Relock, RemoveLock
    <2>2. UNCHANGED server \/ Ends(s) \/ Moves(s, "relocked")
      BY <1>5 DEF LockFileGone, Relock, RemoveLock
    <2>3. CASE UNCHANGED server
      BY <2>1, <2>3, OthersStand
    <2>4. CASE Ends(s)
      <3>1. ServerGoes(s, {"off"})
        BY <1>a, <2>4, EndsServer
      <3> QED BY <2>1, <3>1, ServerStands DEF Reached, Listening
    <2>5. CASE Moves(s, "relocked")
      <3>1. ServerGoes(s, {"relocked"})
        BY <1>a, <2>5, MovesServer
      <3> QED BY <2>1, <3>1, ServerStands DEF Reached, Listening
    <2> QED BY <2>2, <2>3, <2>4, <2>5
  <1> QED BY <1>1, <1>2, <1>3, <1>4, <1>5 DEF ServerStep

LEMMA FaultKeepsSocket ==
  ASSUME Inv, SocketInv, Fault
  PROVE  SocketInv'
  <1>a. Records
    BY DEF Inv
  <1>1. UNCHANGED socket
    BY DEF Fault, KillProcess, IdleThreadDies, KillClient, TooSlow
  <1>2. ASSUME NEW s \in Servers, KillProcess(s) PROVE SocketInv'
    <2>1. ServerGoes(s, {"off"})
      BY <1>2, <1>a, EndsServer DEF KillProcess
    <2> QED BY <1>1, <2>1, ServerStands DEF Reached, Listening
  <1>3. ASSUME NEW s \in Servers, IdleThreadDies(s) PROVE SocketInv'
    <2>1. \A t \in Servers : server'[t].pc = server[t].pc
      BY <1>3, <1>a DEF IdleThreadDies, Records, IsServer
    <2> QED BY <1>1, <2>1, OthersStand
  <1>4. CASE UNCHANGED server
    BY <1>1, <1>4, OthersStand
  <1> QED BY <1>2, <1>3, <1>4 DEF Fault, KillClient, TooSlow

\* Clients reach the server that runs: no other server, ending, starting or
\* killed, removes or replaces the socket file of one that listens.
\* (process.py:334-339, 658-667)
THEOREM SocketIsItsOwn == Spec => []SocketStands
  <1>1. Init => SocketInv
    BY DEF Init, NoServer, SocketInv, Reached, Listening
  <1>2. Inv /\ SocketInv /\ [Next]_vars => (Inv /\ SocketInv)'
    <2> SUFFICES ASSUME Inv, SocketInv, [Next]_vars PROVE Inv' /\ SocketInv'
      OBVIOUS
    <2>1. CASE Next
      BY <2>1, FaultKeepsInv, ClientKeepsInv, ServerKeepsInv,
         FaultKeepsSocket, ClientKeepsSocket, ServerKeepsSocket DEF Next
    <2>2. CASE UNCHANGED vars
      BY <2>2 DEF vars, lockvars, Inv, LockInv, LockTypeOK, Records, SocketInv
    <2> QED BY <2>1, <2>2
  <1>3. SocketInv => SocketStands
    BY DEF SocketInv, SocketStands, Reached
  <1> QED BY <1>1, <1>2, <1>3, InitInv, PTL DEF Spec

-----------------------------------------------------------------------------
(* Types *)

ClientPcs == {"lock", "locked", "nolock", "forked", "starting", "connect", "connected",
              "waiting", "served", "killing", "done", "failed"}

ServerPcs == {"off", "exec", "bound", "listening", "loop", "control", "command",
              "closed", "released", "relocked"}

ClientRecord ==
  [pc : ClientPcs, tries : Nat, srv : Servers \cup {None}, poll : BOOLEAN]

ServerRecord ==
  [pc : ServerPcs, quit : BOOLEAN, said : BOOLEAN, backlog : Seq(Conns),
   control : Conns \cup {NoConn}, queue : Seq(Conns), ui : Conns \cup {NoConn},
   pending : {"nothing", "setFeatures", "terminateServer"},
   ready : SUBSET {"sock", "controllersock", "command_channel"}, hadui : BOOLEAN]

\* A client that goes on has attempts left, and a connection is one to a server.
Typed ==
  /\ client \in [Clients -> ClientRecord]
  /\ server \in [Servers -> ServerRecord]
  /\ socket \in Servers \cup {None}
  /\ sent \subseteq Conns
  /\ faults \in Nat
  /\ \A c \in Clients : /\ client[c].pc \notin Settled => client[c].tries > 0
                        /\ client[c].pc \in Connected => client[c].srv \in Servers

\* The client c, and no other, comes to pc.
ClientTo(c, pc, tries, srv) ==
  /\ client' \in [Clients -> ClientRecord]
  /\ client'[c].pc = pc /\ client'[c].tries = tries /\ client'[c].srv = srv
  /\ \A d \in Clients \ {c} : client'[d] = client[d]

\* Only s changes.
ServerTo(s, r) ==
  /\ r \in ServerRecord
  /\ server' = [server EXCEPT ![s] = r]

LEMMA GoesTo ==
  ASSUME Typed, NEW c \in Clients, NEW pc \in ClientPcs, Goes(c, pc)
  PROVE  ClientTo(c, pc, client[c].tries, client[c].srv)
  BY DEF Typed, Goes, ClientTo, ClientRecord

LEMMA SettlesTo ==
  ASSUME Typed, NEW c \in Clients, NEW pc \in Settled, Settles(c, pc)
  PROVE  ClientTo(c, pc, 0, None)
  <1> DEFINE r == [NewClient(0) EXCEPT !.pc = pc]
  <1>1. r \in ClientRecord /\ r.pc = pc /\ r.tries = 0 /\ r.srv = None
    BY DEF NewClient, ClientRecord, ClientPcs, Settled
  <1>2. client' = [client EXCEPT ![c] = r]
    BY DEF Settles
  <1> HIDE DEF r
  <1> QED BY <1>1, <1>2 DEF Typed, ClientTo

\* An attempt that fails leaves the client with one less, or without any.
LEMMA AgainTo ==
  ASSUME Typed, NEW c \in Clients, client[c].pc \notin Settled, Again(c)
  PROVE  \/ ClientTo(c, "lock", client[c].tries - 1, None) /\ client[c].tries - 1 > 0
         \/ ClientTo(c, "failed", 0, None)
  <1>1. CASE client[c].tries - 1 = 0
    <2>1. Settles(c, "failed") /\ "failed" \in Settled
      BY <1>1 DEF Again, Settled
    <2> QED BY <2>1, SettlesTo
  <1>2. CASE client[c].tries - 1 # 0
    <2> DEFINE r == NewClient(client[c].tries - 1)
    <2>1. client' = [client EXCEPT ![c] = r]
      BY <1>2 DEF Again
    <2>a. client[c].tries \in Nat /\ client[c].tries > 0
      <3>1. client[c] \in ClientRecord
        BY DEF Typed
      <3> QED BY <3>1 DEF Typed, ClientRecord
    <2>2. client[c].tries - 1 \in Nat /\ client[c].tries - 1 > 0
      BY <1>2, <2>a
    <2>3. r \in ClientRecord /\ r.pc = "lock" /\ r.tries = client[c].tries - 1 /\ r.srv = None
      BY <2>2 DEF ClientRecord, ClientPcs, NewClient
    <2> HIDE DEF r
    <2>4. ClientTo(c, "lock", client[c].tries - 1, None)
      BY <2>1, <2>3 DEF Typed, ClientTo
    <2> QED BY <2>2, <2>4
  <1> QED BY <1>1, <1>2

-----------------------------------------------------------------------------
(* What a step does to a server *)

\* What connections s has, and what it knows of them, stay as they are.
Quiet(s, r) ==
  /\ r.backlog = server[s].backlog /\ r.control = server[s].control
  /\ r.queue = server[s].queue /\ r.ui = server[s].ui
  /\ r.pending = server[s].pending /\ r.hadui = server[s].hadui

LEMMA MovesTo ==
  ASSUME Typed, NEW s \in Servers, NEW pc \in ServerPcs, Moves(s, pc)
  PROVE  \E r : ServerTo(s, r) /\ Quiet(s, r) /\ r.pc = pc /\ r.quit = server[s].quit
  <1> DEFINE r == [server[s] EXCEPT !.pc = pc]
  <1>1. server[s] \in ServerRecord
    BY DEF Typed
  <1>2. server' = [server EXCEPT ![s] = r]
    BY DEF Moves
  <1>3. r \in ServerRecord /\ r.pc = pc /\ r.quit = server[s].quit /\ Quiet(s, r)
    BY <1>1 DEF ServerRecord, Quiet
  <1> QED BY <1>2, <1>3 DEF ServerTo

LEMMA NoneIsServer == NoServer \in ServerRecord
  BY DEF NoServer, ServerRecord, ServerPcs, NoConn

LEMMA EndsTo ==
  ASSUME Typed, NEW s \in Servers, Ends(s)
  PROVE  \E r : /\ ServerTo(s, r) /\ r.pc = "off" /\ r.quit = FALSE
               /\ r.backlog = <<>> /\ r.queue = <<>> /\ r.control = NoConn /\ r.ui = NoConn
  <1> DEFINE r == [NoServer EXCEPT !.said = server[s].said]
  <1>1. r \in ServerRecord
    BY NoneIsServer DEF Typed, ServerRecord
  <1>2. /\ r.pc = "off" /\ r.quit = FALSE
        /\ r.backlog = <<>> /\ r.queue = <<>> /\ r.control = NoConn /\ r.ui = NoConn
    BY DEF NoServer
  <1> QED BY <1>1, <1>2 DEF Ends, ServerTo

LEMMA JoinedSet ==
  ASSUME NEW S, NEW a \in Seq(S), NEW b \in Seq(S)
  PROVE  ToSet(a \o b) \subseteq ToSet(a) \cup ToSet(b)
  <1> SUFFICES ASSUME NEW i \in 1..Len(a \o b)
               PROVE  (a \o b)[i] \in ToSet(a) \cup ToSet(b)
    BY DEF ToSet
  <1>1. CASE i <= Len(a)
    BY <1>1 DEF ToSet
  <1>2. CASE i > Len(a)
    <2>1. i - Len(a) \in 1..Len(b) /\ (a \o b)[i] = b[i - Len(a)]
      BY <1>2
    <2> QED BY <2>1 DEF ToSet
  <1> QED BY <1>1, <1>2

\* The connections that come in are queued behind the present one, if any.
LEMMA SelectTo ==
  ASSUME Typed, NEW s \in Servers, Select(s)
  PROVE  \E r, ready :
           /\ ServerTo(s, r) /\ ready \in SUBSET Readable(s)
           /\ r.pc = Then(ready) /\ r.pc \in {"loop", "control", "command"}
           /\ r.quit = server[s].quit
           /\ r.ui = server[s].ui /\ r.pending = server[s].pending
           /\ r.hadui = server[s].hadui
           /\ server[s].control # NoConn => r.control = server[s].control
           /\ r.control \in ToSet(server[s].backlog) \cup {server[s].control}
           /\ ToSet(r.backlog) \subseteq ToSet(server[s].backlog)
           /\ ToSet(r.queue) \subseteq ToSet(server[s].backlog) \cup ToSet(server[s].queue)
  <1>1. PICK ready \in SUBSET Readable(s) \ {{}} :
          LET new == IF "sock" \in ready THEN server[s].backlog ELSE <<>>
              first == server[s].control = NoConn /\ new # <<>>
          IN server' = [server EXCEPT ![s].ready = ready, ![s].pc = Then(ready),
                          ![s].backlog = IF "sock" \in ready THEN <<>> ELSE @,
                          ![s].control = IF first THEN Head(new) ELSE @,
                          ![s].queue = @ \o (IF first THEN Tail(new) ELSE new)]
    BY DEF Select
  <1> DEFINE old == server[s]
             new == IF "sock" \in ready THEN old.backlog ELSE <<>>
             first == old.control = NoConn /\ new # <<>>
             left == IF "sock" \in ready THEN <<>> ELSE old.backlog
             control == IF first THEN Head(new) ELSE old.control
             more == IF first THEN Tail(new) ELSE new
             queue == old.queue \o more
             part == Then(ready)
             r == [old EXCEPT !.ready = ready, !.pc = part, !.backlog = left,
                     !.control = control, !.queue = queue]
  <1>2. server' = [server EXCEPT ![s] = r]
    BY <1>1
  <1>3. old \in ServerRecord
    BY DEF Typed
  <1>4. /\ old.backlog \in Seq(Conns) /\ old.queue \in Seq(Conns)
        /\ old.control \in Conns \cup {NoConn}
    BY <1>3 DEF ServerRecord
  <1>5. new \in Seq(Conns) /\ ToSet(new) \subseteq ToSet(old.backlog)
    BY <1>4 DEF ToSet
  <1>6. left \in Seq(Conns) /\ ToSet(left) \subseteq ToSet(old.backlog)
    BY <1>4 DEF ToSet
  <1>7. more \in Seq(Conns) /\ ToSet(more) \subseteq ToSet(new)
    BY <1>5 DEF ToSet
  <1>8. /\ control \in Conns \cup {NoConn}
        /\ control \in ToSet(old.backlog) \cup {old.control}
        /\ old.control # NoConn => control = old.control
    <2>1. CASE first
      <3>1. Head(new) \in Conns /\ Head(new) \in ToSet(new)
        BY <1>5, <2>1 DEF ToSet
      <3> QED BY <2>1, <3>1, <1>5
    <2>2. CASE ~first
      BY <2>2, <1>4
    <2> QED BY <2>1, <2>2
  <1>9. queue \in Seq(Conns) /\ ToSet(queue) \subseteq ToSet(old.queue) \cup ToSet(old.backlog)
    <2>1. queue \in Seq(Conns)
      BY <1>4, <1>7
    <2>2. ToSet(queue) \subseteq ToSet(old.queue) \cup ToSet(more)
      BY <1>4, <1>7, JoinedSet
    <2> QED BY <2>1, <2>2, <1>7, <1>5
  <1>10. part \in {"loop", "control", "command"}
    BY DEF Then
  <1>11. ready \subseteq {"sock", "controllersock", "command_channel"}
    BY DEF Readable
  <1> HIDE DEF new, first, left, control, more, queue
  <1>12. r \in ServerRecord
    BY <1>3, <1>6, <1>8, <1>9, <1>10, <1>11 DEF ServerRecord, ServerPcs
  <1>13. /\ r.pc = part /\ r.quit = old.quit /\ r.ui = old.ui /\ r.pending = old.pending
         /\ r.hadui = old.hadui /\ r.control = control /\ r.backlog = left /\ r.queue = queue
    BY <1>3 DEF ServerRecord
  <1>14. ServerTo(s, r)
    BY <1>2, <1>12 DEF ServerTo
  <1> HIDE DEF r, part
  <1>15. part = Then(ready)
    BY DEF part
  <1> QED BY <1>6, <1>8, <1>9, <1>10, <1>13, <1>14, <1>15

\* The client queued last is the next one.
LEMMA DisconnectedTo ==
  ASSUME Typed, NEW s \in Servers, NEW stuck \in BOOLEAN, Disconnected(s, stuck)
  PROVE  \E r :
           /\ ServerTo(s, r) /\ r.pc = "loop"
           /\ r.ui = NoConn /\ r.pending = "nothing"
           /\ r.control \in ToSet(server[s].queue) \cup {NoConn}
           /\ r.backlog = server[s].backlog
           /\ ToSet(r.queue) \subseteq ToSet(server[s].queue)
  <1> DEFINE old == server[s]
             quit == old.quit \/ (stuck /\ old.ui # NoConn)
             next == old.queue # <<>> /\ ~quit
             control == IF next THEN Last(old.queue) ELSE NoConn
             queue == IF next THEN Front(old.queue) ELSE old.queue
             over == quit \/ (~next /\ timeout = "none" /\ old.backlog = <<>>)
             none == NoConn
             r == [old EXCEPT !.pc = "loop", !.ui = none, !.pending = "nothing",
                     !.ready = {}, !.control = control, !.queue = queue, !.quit = over]
  <1>1. server' = [server EXCEPT ![s] = r]
    BY DEF Disconnected
  <1>2. old \in ServerRecord
    BY DEF Typed
  <1>3. /\ old.backlog \in Seq(Conns) /\ old.queue \in Seq(Conns)
        /\ old.quit \in BOOLEAN
    BY <1>2 DEF ServerRecord
  <1>4. control \in ToSet(old.queue) \cup {NoConn} /\ control \in Conns \cup {NoConn}
    BY <1>3 DEF ToSet, Last
  <1>5. queue \in Seq(Conns) /\ ToSet(queue) \subseteq ToSet(old.queue)
    <2>1. CASE next
      <3>1. Front(old.queue) \in Seq(Conns) /\ Len(Front(old.queue)) = Len(old.queue) - 1
        BY <1>3, <2>1 DEF Front
      <3>2. \A i \in 1..Len(Front(old.queue)) : Front(old.queue)[i] = old.queue[i]
        BY <1>3, <2>1 DEF Front
      <3>3. ToSet(Front(old.queue)) \subseteq ToSet(old.queue)
        BY <1>3, <3>1, <3>2 DEF ToSet
      <3> QED BY <2>1, <3>1, <3>3
    <2>2. CASE ~next
      BY <2>2, <1>3
    <2> QED BY <2>1, <2>2
  <1>6. over \in BOOLEAN
    BY <1>3
  <1>7. none = NoConn /\ none \in Conns \cup {NoConn}
    OBVIOUS
  <1> HIDE DEF quit, next, control, queue, over, none
  <1>8. r \in ServerRecord
    BY <1>2, <1>4, <1>5, <1>6, <1>7 DEF ServerRecord, ServerPcs
  <1>9. /\ r.pc = "loop" /\ r.ui = none /\ r.pending = "nothing" /\ r.control = control
        /\ r.backlog = old.backlog /\ r.queue = queue
    BY <1>2 DEF ServerRecord
  <1> HIDE DEF r
  <1>10. ServerTo(s, r)
    BY <1>1, <1>8 DEF ServerTo
  <1> QED BY <1>4, <1>5, <1>7, <1>9, <1>10

\* Three pipes make the connection the one that is served.
LEMMA ReceivedTo ==
  ASSUME Typed, NEW s \in Servers, Control(s), server[s].control \in sent
  PROVE  \E r :
           /\ ServerTo(s, r) /\ r.pc \in {"loop", "command"}
           /\ r.quit = server[s].quit
           /\ r.ui = server[s].control /\ r.pending = "setFeatures" /\ r.hadui = TRUE
           /\ r.control = server[s].control
           /\ r.backlog = server[s].backlog /\ r.queue = server[s].queue
  <1> DEFINE old == server[s]
             part == Then(old.ready \ {"controllersock"})
             ui == old.control
             r == [old EXCEPT !.pc = part, !.ready = {}, !.ui = ui,
                              !.pending = "setFeatures", !.hadui = TRUE]
  <1>1. server' = [server EXCEPT ![s] = r]
    BY DEF Control
  <1>2. old \in ServerRecord
    BY DEF Typed
  <1>3. part \in {"loop", "command"}
    BY DEF Then
  <1>4. ui \in Conns \cup {NoConn} /\ ui = server[s].control
    BY <1>2 DEF ServerRecord
  <1> HIDE DEF part, ui
  <1>5. r \in ServerRecord
    BY <1>2, <1>3, <1>4 DEF ServerRecord, ServerPcs
  <1>6. /\ r.pc = part /\ r.quit = old.quit /\ r.ui = ui /\ r.pending = "setFeatures"
        /\ r.hadui = TRUE /\ r.control = old.control /\ r.backlog = old.backlog
        /\ r.queue = old.queue
    BY <1>2 DEF ServerRecord
  <1> HIDE DEF r
  <1>7. ServerTo(s, r)
    BY <1>1, <1>5 DEF ServerTo
  <1> QED BY <1>3, <1>4, <1>6, <1>7

LEMMA UnlinkSocketTo ==
  ASSUME Typed, NEW s \in Servers, UnlinkSocket(s)
  PROVE  \E r :
           /\ ServerTo(s, r) /\ r.pc = "closed" /\ r.quit = FALSE
           /\ r.ui = server[s].ui /\ r.control = server[s].control
           /\ r.pending = "nothing" /\ r.backlog = <<>> /\ r.queue = server[s].queue
  <1> DEFINE old == server[s]
             r == [NoServer EXCEPT !.pc = "closed", !.said = old.said, !.ui = old.ui,
                     !.control = old.control, !.queue = old.queue]
  <1>1. server' = [server EXCEPT ![s] = r]
    BY DEF UnlinkSocket
  <1>2. old \in ServerRecord
    BY DEF Typed
  <1>3. r \in ServerRecord
    BY <1>2, NoneIsServer DEF ServerRecord, ServerPcs
  <1>4. /\ r.pc = "closed" /\ r.quit = FALSE /\ r.ui = old.ui /\ r.control = old.control
        /\ r.pending = "nothing" /\ r.backlog = <<>> /\ r.queue = old.queue
    BY DEF NoServer
  <1> HIDE DEF r
  <1>5. ServerTo(s, r)
    BY <1>1, <1>3 DEF ServerTo
  <1> QED BY <1>4, <1>5

\* The other steps of a server leave its connections alone.
LEMMA QuietTo ==
  ASSUME Typed, NEW s \in Servers,
         \/ Bind(s) \/ Listen(s) \/ Started(s) \/ TimedOut(s) \/ ReleaseLock(s)
         \/ IdleThreadDies(s) \/ (Relock(s) /\ Moves(s, "relocked"))
  PROVE  \E r :
           /\ ServerTo(s, r) /\ Quiet(s, r)
           /\ \/ server[s].pc = "exec" /\ r.pc = "bound"
              \/ server[s].pc = "bound" /\ r.pc = "listening"
              \/ server[s].pc = "listening" /\ r.pc = "loop"
              \/ server[s].pc = "closed" /\ r.pc = "released"
              \/ server[s].pc = "released" /\ r.pc = "relocked"
              \/ server[s].pc \in {"loop", "control", "command"} /\ r.pc = server[s].pc
           /\ r.quit = server[s].quit \/ TimedOut(s) \/ IdleThreadDies(s)
  <1>0. server[s] \in ServerRecord
    BY DEF Typed
  <1>1. CASE Bind(s) \/ Listen(s) \/ ReleaseLock(s) \/ (Relock(s) /\ Moves(s, "relocked"))
    <2>1. PICK pc \in {"bound", "listening", "released", "relocked"} :
            /\ Moves(s, pc)
            /\ \/ server[s].pc = "exec" /\ pc = "bound"
               \/ server[s].pc = "bound" /\ pc = "listening"
               \/ server[s].pc = "closed" /\ pc = "released"
               \/ server[s].pc = "released" /\ pc = "relocked"
      BY <1>1 DEF Bind, Listen, ReleaseLock, Relock
    <2>2. pc \in ServerPcs
      BY DEF ServerPcs
    <2> QED BY <2>1, <2>2, MovesTo
  <1>2. CASE Started(s)
    <2> DEFINE r == [server[s] EXCEPT !.pc = "loop", !.said = TRUE]
    <2>1. server' = [server EXCEPT ![s] = r] /\ server[s].pc = "listening"
      BY <1>2 DEF Started
    <2>2. r \in ServerRecord /\ r.pc = "loop" /\ r.quit = server[s].quit /\ Quiet(s, r)
      BY <1>0 DEF ServerRecord, ServerPcs, Quiet
    <2> QED BY <2>1, <2>2 DEF ServerTo
  <1>3. CASE TimedOut(s) \/ IdleThreadDies(s)
    <2> DEFINE r == [server[s] EXCEPT !.quit = TRUE]
    <2>1. server' = [server EXCEPT ![s] = r] /\ server[s].pc \in {"loop", "control", "command"}
      BY <1>3 DEF TimedOut, IdleThreadDies
    <2>2. r \in ServerRecord /\ r.pc = server[s].pc /\ Quiet(s, r)
      BY <1>0 DEF ServerRecord, ServerPcs, Quiet
    <2> QED BY <1>3, <2>1, <2>2 DEF ServerTo
  <1> QED BY <1>1, <1>2, <1>3

\* A command is taken; the last one ends the server.
LEMMA CommandTo ==
  ASSUME Typed, NEW s \in Servers, Command(s), server[s].pending # "nothing"
  PROVE  \E r :
           /\ ServerTo(s, r) /\ r.pc = "loop"
           /\ r.backlog = server[s].backlog /\ r.control = server[s].control
           /\ r.queue = server[s].queue /\ r.ui = server[s].ui /\ r.hadui = server[s].hadui
           /\ \/ server[s].pending = "setFeatures" /\ r.pending = "nothing"
                 /\ r.quit = server[s].quit
              \/ server[s].pending = "terminateServer" /\ r.pending = server[s].pending
  <1>0. server[s] \in ServerRecord
    BY DEF Typed
  <1>1. CASE server[s].pending = "setFeatures"
    <2> DEFINE r == [server[s] EXCEPT !.pc = "loop", !.ready = {}, !.pending = "nothing"]
    <2>1. server' = [server EXCEPT ![s] = r]
      BY <1>1 DEF Command
    <2>2. /\ r \in ServerRecord /\ r.pc = "loop" /\ r.quit = server[s].quit
          /\ r.pending = "nothing"
          /\ r.backlog = server[s].backlog /\ r.control = server[s].control
          /\ r.queue = server[s].queue /\ r.ui = server[s].ui /\ r.hadui = server[s].hadui
      BY <1>0 DEF ServerRecord, ServerPcs
    <2> QED BY <1>1, <2>1, <2>2 DEF ServerTo
  <1>2. CASE server[s].pending = "terminateServer"
    <2> DEFINE r == [server[s] EXCEPT !.pc = "loop", !.ready = {}, !.quit = TRUE]
    <2>1. server' = [server EXCEPT ![s] = r]
      BY <1>2 DEF Command
    <2>2. /\ r \in ServerRecord /\ r.pc = "loop"
          /\ r.pending = server[s].pending
          /\ r.backlog = server[s].backlog /\ r.control = server[s].control
          /\ r.queue = server[s].queue /\ r.ui = server[s].ui /\ r.hadui = server[s].hadui
      BY <1>0 DEF ServerRecord, ServerPcs
    <2> QED BY <1>2, <2>1, <2>2 DEF ServerTo
  <1> QED BY <1>0, <1>1, <1>2 DEF ServerRecord

-----------------------------------------------------------------------------
(* What a step of a client does *)

\* The client makes another attempt, or no more.
GivesUp(c) ==
  \E n \in Nat :
    /\ n < client[c].tries
    /\ \/ ClientTo(c, "lock", n, None) /\ n > 0
       \/ \E pc \in Settled : ClientTo(c, pc, n, None)

\* The client goes on with its attempt.
GoesOn(c) ==
  /\ client[c].pc \notin Settled
  /\ \E pc \in ClientPcs \ Settled, srv \in Servers \cup {None} :
       /\ ClientTo(c, pc, client[c].tries, srv)
       /\ client[c].pc \in Connected => pc \in Connected /\ srv = client[c].srv
       /\ pc \in Connected => srv \in Servers
       /\ pc \in {"connected", "served"} => Connect(c)
       /\ pc = "forked" => StartServer(c)

LEMMA SettlesGivesUp ==
  ASSUME Typed, NEW c \in Clients, NEW pc \in Settled, client[c].pc \notin Settled,
         Settles(c, pc)
  PROVE  GivesUp(c)
  <1>1. ClientTo(c, pc, 0, None)
    BY SettlesTo
  <1>2. client[c].tries > 0
    BY DEF Typed
  <1> QED BY <1>1, <1>2 DEF GivesUp

LEMMA AgainGivesUp ==
  ASSUME Typed, NEW c \in Clients, client[c].pc \notin Settled, Again(c)
  PROVE  GivesUp(c)
  <1>0. client[c] \in ClientRecord /\ client[c].tries > 0
    BY DEF Typed
  <1>1. client[c].tries \in Nat
    BY <1>0 DEF ClientRecord
  <1>2. CASE ClientTo(c, "failed", 0, None)
    BY <1>0, <1>2 DEF GivesUp, Settled
  <1>3. CASE ClientTo(c, "lock", client[c].tries - 1, None) /\ client[c].tries - 1 > 0
    <2>1. client[c].tries - 1 \in Nat /\ client[c].tries - 1 < client[c].tries
      BY <1>1, <1>3
    <2> QED BY <1>3, <2>1 DEF GivesUp
  <1> QED BY <1>2, <1>3, AgainTo

LEMMA GoesGoesOn ==
  ASSUME Typed, NEW c \in Clients, NEW pc \in ClientPcs \ Settled,
         client[c].pc \notin Settled, Goes(c, pc),
         pc \notin {"connected", "served", "forked"},
         client[c].pc \in Connected <=> pc \in Connected
  PROVE  GoesOn(c)
  <1>1. ClientTo(c, pc, client[c].tries, client[c].srv)
    BY GoesTo
  <1>2. client[c].srv \in Servers \cup {None}
    BY DEF Typed, ClientRecord
  <1>3. pc \in Connected => client[c].srv \in Servers
    BY DEF Typed
  <1> QED BY <1>1, <1>2, <1>3 DEF GoesOn

LEMMA ClientMoves ==
  ASSUME Typed, NEW c \in Clients, ClientStep(c)
  PROVE  UNCHANGED client \/ GivesUp(c) \/ GoesOn(c)
  <1>0. client[c] \in ClientRecord /\ client[c].tries \in Nat
    BY DEF Typed, ClientRecord
  <1> USE DEF Settled, Connected, ClientPcs
  <1>1. CASE TryLock(c)
    <2>1. CASE UNCHANGED client
      BY <2>1
    <2>2. CASE Goes(c, "locked")
      BY <1>1, <2>2, GoesGoesOn DEF TryLock
    <2>3. CASE Goes(c, "nolock")
      BY <1>1, <2>3, GoesGoesOn DEF TryLock
    <2> QED BY <1>1, <2>1, <2>2, <2>3 DEF TryLock
  <1>2. CASE NoLock(c)
    <2>1. CASE socket # None
      <3>1. Goes(c, "connect")
        BY <1>2, <2>1 DEF NoLock, Goes
      <3> QED BY <1>2, <3>1, GoesGoesOn DEF NoLock
    <2>2. CASE socket = None
      <3> DEFINE r == [client[c] EXCEPT !.poll = TRUE, !.pc = "lock"]
      <3>1. client' = [client EXCEPT ![c] = r]
        BY <1>2, <2>2 DEF NoLock
      <3>2. /\ r \in ClientRecord /\ r.pc = "lock" /\ r.tries = client[c].tries
            /\ r.srv = client[c].srv /\ client[c].srv \in Servers \cup {None}
        BY <1>0 DEF ClientRecord
      <3> HIDE DEF r
      <3>3. ClientTo(c, "lock", client[c].tries, client[c].srv)
        BY <3>1, <3>2 DEF ClientTo, Typed
      <3>4. client[c].pc = "nolock"
        BY <1>2 DEF NoLock
      <3> QED BY <3>2, <3>3, <3>4 DEF GoesOn
    <2> QED BY <2>1, <2>2
  <1>3. CASE Poll(c)
    BY <1>3, GoesGoesOn DEF Poll
  <1>4. CASE StopPolling(c) \/ ServerNotStarted(c) \/ NotConnected(c) \/ ConnectionEnds(c)
    <2>1. Again(c) /\ client[c].pc \notin Settled
      BY <1>4 DEF StopPolling, ServerNotStarted, NotConnected, ConnectionEnds
    <2> QED BY <2>1, AgainGivesUp
  <1>5. CASE GiveBack(c)
    <2>1. client[c].pc \notin Settled
      BY <1>5 DEF GiveBack
    <2> QED BY <1>5, <2>1, AgainGivesUp DEF GiveBack
  <1>6. CASE StartServer(c)
    <2> DEFINE s == CHOOSE s \in FreePlaces : TRUE
               r == [client[c] EXCEPT !.pc = "forked", !.srv = s]
    <2>1. client' = [client EXCEPT ![c] = r] /\ s \in Servers /\ client[c].pc = "locked"
      <3>1. s \in FreePlaces
        BY <1>6 DEF StartServer
      <3> QED BY <1>6, <3>1 DEF StartServer, FreePlaces
    <2> HIDE DEF s
    <2>2. r \in ClientRecord /\ r.pc = "forked" /\ r.tries = client[c].tries /\ r.srv = s
      BY <1>0, <2>1 DEF ClientRecord
    <2> HIDE DEF r
    <2>3. ClientTo(c, "forked", client[c].tries, s)
      BY <2>1, <2>2 DEF ClientTo, Typed
    <2> QED BY <1>6, <2>1, <2>3 DEF GoesOn
  <1>7. CASE CloseLock(c)
    BY <1>7, GoesGoesOn DEF CloseLock
  <1>8. CASE ServerStarted(c)
    <2> DEFINE r == [client[c] EXCEPT !.pc = "connect", !.srv = None]
    <2>1. client' = [client EXCEPT ![c] = r] /\ client[c].pc = "starting"
      BY <1>8 DEF ServerStarted
    <2>2. r \in ClientRecord /\ r.pc = "connect" /\ r.tries = client[c].tries /\ r.srv = None
      BY <1>0 DEF ClientRecord
    <2> HIDE DEF r
    <2>3. ClientTo(c, "connect", client[c].tries, None)
      BY <2>1, <2>2 DEF ClientTo, Typed
    <2> QED BY <2>1, <2>3 DEF GoesOn
  <1>9. CASE Connect(c)
    <2> DEFINE r == [client[c] EXCEPT !.pc = "connected", !.srv = socket]
    <2>1. /\ client' = [client EXCEPT ![c] = r] /\ client[c].pc = "connect"
          /\ socket \in Servers
      BY <1>9 DEF Connect, Accepts, Typed
    <2>2. r \in ClientRecord /\ r.pc = "connected" /\ r.tries = client[c].tries /\ r.srv = socket
      BY <1>0, <2>1 DEF ClientRecord
    <2> HIDE DEF r
    <2>3. ClientTo(c, "connected", client[c].tries, socket)
      BY <2>1, <2>2 DEF ClientTo, Typed
    <2> QED BY <1>9, <2>1, <2>3 DEF GoesOn
  <1>10. CASE SendFds(c)
    BY <1>10, GoesGoesOn DEF SendFds
  <1>11. CASE Leave(c) \/ Killed(c)
    BY <1>11, SettlesGivesUp DEF Leave, Killed
  <1>12. CASE KillServer(c)
    BY <1>12, GoesGoesOn DEF KillServer
  <1> QED BY <1>1, <1>2, <1>3, <1>4, <1>5, <1>6, <1>7, <1>8, <1>9, <1>10, <1>11, <1>12
      DEF ClientStep

\* Four steps of a client change a server.
LEMMA StartTo ==
  ASSUME Typed, NEW c \in Clients, StartServer(c)
  PROVE  \E s \in Servers : \E r :
           /\ s \in FreePlaces /\ ServerTo(s, r) /\ r.pc = "exec" /\ r.quit = FALSE
           /\ r.backlog = <<>> /\ r.queue = <<>> /\ r.control = NoConn /\ r.ui = NoConn
           /\ Share(c, s) /\ client'[c].srv = s
  <1> DEFINE s == CHOOSE s \in FreePlaces : TRUE
             r == [NoServer EXCEPT !.pc = "exec"]
  <1>1. s \in FreePlaces /\ s \in Servers
    BY DEF StartServer, FreePlaces
  <1>2. /\ server' = [server EXCEPT ![s] = r] /\ Share(c, s)
        /\ client' = [client EXCEPT ![c].pc = "forked", ![c].srv = s]
    BY DEF StartServer
  <1> HIDE DEF s
  <1>3. /\ r \in ServerRecord /\ r.pc = "exec" /\ r.quit = FALSE
        /\ r.backlog = <<>> /\ r.queue = <<>> /\ r.control = NoConn /\ r.ui = NoConn
    BY NoneIsServer DEF NoServer, ServerRecord, ServerPcs
  <1>4. client'[c].srv = s
    BY <1>1, <1>2 DEF Typed, ClientRecord
  <1> QED BY <1>1, <1>2, <1>3, <1>4 DEF ServerTo

LEMMA StartedTo ==
  ASSUME Typed, NEW c \in Clients, ServerStarted(c)
  PROVE  UNCHANGED server \/ \E s \in Servers : \E r :
           ServerTo(s, r) /\ Quiet(s, r) /\ r.pc = server[s].pc /\ r.quit = server[s].quit
  <1> DEFINE s == client[c].srv
             r == [server[s] EXCEPT !.said = FALSE]
  <1>1. server' = [server EXCEPT ![s] = r]
    BY DEF ServerStarted
  <1>2. CASE s \notin Servers
    BY <1>1, <1>2 DEF Typed
  <1>3. CASE s \in Servers
    <2>1. server[s] \in ServerRecord
      BY <1>3 DEF Typed
    <2>2. r \in ServerRecord /\ r.pc = server[s].pc /\ Quiet(s, r) /\ r.quit = server[s].quit
      BY <2>1 DEF ServerRecord, Quiet
    <2> QED BY <1>1, <1>3, <2>2 DEF ServerTo
  <1> QED BY <1>2, <1>3

LEMMA ConnectTo ==
  ASSUME Typed, NEW c \in Clients, Connect(c)
  PROVE  \E r :
           /\ socket \in Servers /\ server[socket].pc \in Listening
           /\ ServerTo(socket, r) /\ r.pc = server[socket].pc /\ r.quit = server[socket].quit
           /\ r.control = server[socket].control /\ r.queue = server[socket].queue
           /\ r.ui = server[socket].ui /\ r.pending = server[socket].pending
           /\ r.hadui = server[socket].hadui
           /\ ToSet(r.backlog) \subseteq ToSet(server[socket].backlog) \cup {Conn(c)}
  <1> DEFINE k == Conn(c)
             backlog == Append(server[socket].backlog, k)
             r == [server[socket] EXCEPT !.backlog = backlog]
  <1>1. server' = [server EXCEPT ![socket] = r]
    BY DEF Connect
  <1>2. socket \in Servers /\ server[socket].pc \in Listening
    BY DEF Connect, Accepts, Typed
  <1>3. server[socket] \in ServerRecord /\ server[socket].backlog \in Seq(Conns)
    BY <1>2 DEF Typed, ServerRecord
  <1>4. k \in Conns
    BY DEF Typed, ClientRecord, Conn, Conns
  <1> HIDE DEF k
  <1>5. backlog \in Seq(Conns) /\ ToSet(backlog) \subseteq ToSet(server[socket].backlog) \cup {k}
    <2>1. backlog \in Seq(Conns) /\ Len(backlog) = Len(server[socket].backlog) + 1
      BY <1>3, <1>4
    <2>2. \A i \in 1..Len(backlog) : backlog[i] = IF i <= Len(server[socket].backlog)
                                                  THEN server[socket].backlog[i] ELSE k
      BY <1>3, <1>4
    <2> QED BY <1>3, <2>1, <2>2 DEF ToSet
  <1> HIDE DEF backlog
  <1>6. /\ r \in ServerRecord /\ r.pc = server[socket].pc /\ r.quit = server[socket].quit
        /\ r.control = server[socket].control /\ r.queue = server[socket].queue
        /\ r.ui = server[socket].ui /\ r.pending = server[socket].pending
        /\ r.hadui = server[socket].hadui /\ r.backlog = backlog
    BY <1>3, <1>5 DEF ServerRecord
  <1> HIDE DEF r
  <1>7. ServerTo(socket, r)
    BY <1>1, <1>6 DEF ServerTo
  <1> QED BY <1>2, <1>5, <1>6, <1>7 DEF k

LEMMA KillTo ==
  ASSUME Typed, NEW c \in Clients, KillServer(c)
  PROVE  UNCHANGED server \/ \E s \in Servers : \E r :
           /\ client[c].pc = "served" /\ client[c].srv = s
           /\ ServerTo(s, r) /\ r.pc = server[s].pc /\ r.quit = server[s].quit
           /\ r.control = server[s].control /\ r.queue = server[s].queue
           /\ r.ui = server[s].ui /\ r.pending = "terminateServer"
           /\ r.hadui = server[s].hadui /\ r.backlog = server[s].backlog
  <1> DEFINE s == client[c].srv
             r == [server[s] EXCEPT !.pending = "terminateServer"]
  <1>1. server' = [server EXCEPT ![s] = r] /\ client[c].pc = "served"
    BY DEF KillServer
  <1>2. CASE s \notin Servers
    BY <1>1, <1>2 DEF Typed
  <1>3. CASE s \in Servers
    <2>1. server[s] \in ServerRecord
      BY <1>3 DEF Typed
    <2>2. /\ r \in ServerRecord /\ r.pc = server[s].pc /\ r.quit = server[s].quit
          /\ r.control = server[s].control /\ r.queue = server[s].queue
          /\ r.ui = server[s].ui /\ r.pending = "terminateServer"
          /\ r.hadui = server[s].hadui /\ r.backlog = server[s].backlog
      BY <2>1 DEF ServerRecord
    <2> QED BY <1>1, <1>3, <2>2 DEF ServerTo
  <1> QED BY <1>2, <1>3

-----------------------------------------------------------------------------
(* Types are kept *)

LEMMA StepIsOfClient ==
  ASSUME Typed, NEW c \in Clients, UNCHANGED client \/ GivesUp(c) \/ GoesOn(c)
  PROVE  /\ client' \in [Clients -> ClientRecord]
         /\ \A d \in Clients : /\ client'[d].pc \notin Settled => client'[d].tries > 0
                               /\ client'[d].pc \in Connected => client'[d].srv \in Servers
  BY DEF Typed, GivesUp, GoesOn, ClientTo, Settled, Connected

LEMMA StepOfServer ==
  ASSUME Typed, NEW s \in Servers, ServerStep(s)
  PROVE  UNCHANGED server \/ \E r : ServerTo(s, r)
  <1>1. CASE Bind(s) \/ Listen(s) \/ Started(s) \/ TimedOut(s) \/ ReleaseLock(s)
    BY <1>1, QuietTo
  <1>2. CASE Select(s)
    BY <1>2, SelectTo
  <1>3. CASE Control(s)
    <2>1. CASE server[s].control \in sent
      BY <1>3, <2>1, ReceivedTo
    <2>2. CASE server[s].control \notin sent
      BY <1>3, <2>2, DisconnectedTo DEF Control
    <2> QED BY <2>1, <2>2
  <1>4. CASE Command(s)
    <2>1. CASE server[s].pending # "nothing"
      BY <1>4, <2>1, CommandTo
    <2>2. CASE server[s].pending = "nothing"
      BY <1>4, <2>2, DisconnectedTo DEF Command
    <2> QED BY <2>1, <2>2
  <1>5. CASE UnlinkSocket(s)
    BY <1>5, UnlinkSocketTo
  <1>6. CASE LockFileGone(s) \/ RemoveLock(s)
    BY <1>6, EndsTo DEF LockFileGone, RemoveLock
  <1>7. CASE Relock(s)
    BY <1>7, EndsTo, QuietTo DEF Relock
  <1> QED BY <1>1, <1>2, <1>3, <1>4, <1>5, <1>6, <1>7 DEF ServerStep

LEMMA StepOfClient ==
  ASSUME Typed, NEW c \in Clients, ClientStep(c)
  PROVE  UNCHANGED server \/ \E s \in Servers : \E r : ServerTo(s, r)
  <1>1. CASE StartServer(c)
    BY <1>1, StartTo
  <1>2. CASE ServerStarted(c)
    BY <1>2, StartedTo
  <1>3. CASE Connect(c)
    BY <1>3, ConnectTo
  <1>4. CASE KillServer(c)
    BY <1>4, KillTo
  <1>5. CASE UNCHANGED server
    BY <1>5
  <1> QED BY <1>1, <1>2, <1>3, <1>4, <1>5
      DEF ClientStep, TryLock, NoLock, Poll, StopPolling, GiveBack, CloseLock,
          ServerNotStarted, NotConnected, SendFds, ConnectionEnds, Leave, Killed

LEMMA ServerTyped ==
  ASSUME Typed, UNCHANGED server \/ \E s \in Servers : \E r : ServerTo(s, r)
  PROVE  server' \in [Servers -> ServerRecord]
  BY DEF Typed, ServerTo

\* What Command does to a client: the user interface of s is answered.
LEMMA AnswersTo ==
  ASSUME Typed, NEW s \in Servers, Command(s), ~UNCHANGED client
  PROVE  \E c \in Clients :
           /\ server[s].ui = Conn(c) /\ IsOpen(s, server[s].ui)
           /\ server[s].pending = "setFeatures"
           /\ client[c].srv = s /\ client[c].pc \in Connected
           /\ ClientTo(c, "served", client[c].tries, s)
  <1> DEFINE k == server[s].ui
             c == k[1]
  <1>1. IsOpen(s, k) /\ Goes(c, "served") /\ server[s].pending = "setFeatures"
    BY DEF Command
  <1>2. k \in Conns
    BY <1>1 DEF Typed, ServerRecord, IsOpen
  <1>3. c \in Clients
    BY <1>2 DEF Conns
  <1>4. k = Conn(c) /\ client[c].srv = s /\ client[c].pc \in Connected
    BY <1>1 DEF IsOpen
  <1> HIDE DEF c, k
  <1>5. ClientTo(c, "served", client[c].tries, s)
    BY <1>1, <1>3, <1>4, GoesTo DEF ClientPcs
  <1> QED BY <1>1, <1>3, <1>4, <1>5 DEF k

LEMMA TypedStep ==
  ASSUME Typed, Next
  PROVE  Typed'
  <1> USE DEF Settled
  <1>1. ASSUME NEW c \in Clients, ClientStep(c), UNCHANGED faults PROVE Typed'
    <2>1. /\ client' \in [Clients -> ClientRecord]
          /\ \A d \in Clients : /\ client'[d].pc \notin Settled => client'[d].tries > 0
                                /\ client'[d].pc \in Connected => client'[d].srv \in Servers
      BY <1>1, ClientMoves, StepIsOfClient
    <2>2. server' \in [Servers -> ServerRecord]
      BY <1>1, StepOfClient, ServerTyped
    <2>3. UNCHANGED socket
      BY <1>1
      DEF ClientStep, TryLock, NoLock, Poll, StopPolling, GiveBack, StartServer, CloseLock,
          ServerStarted, ServerNotStarted, Connect, NotConnected, SendFds,
          ConnectionEnds, Leave, KillServer, Killed
    <2>4. sent' \subseteq sent \cup {Conn(c)}
      BY <1>1
      DEF ClientStep, TryLock, NoLock, Poll, StopPolling, GiveBack, StartServer, CloseLock,
          ServerStarted, ServerNotStarted, Connect, NotConnected, SendFds,
          ConnectionEnds, Leave, KillServer, Killed
    <2>5. Conn(c) \in Conns
      BY DEF Typed, ClientRecord, Conn, Conns
    <2> QED BY <1>1, <2>1, <2>2, <2>3, <2>4, <2>5 DEF Typed
  <1>2. ASSUME NEW s \in Servers, ServerStep(s), UNCHANGED faults PROVE Typed'
    <2>1. /\ client' \in [Clients -> ClientRecord]
          /\ \A d \in Clients : /\ client'[d].pc \notin Settled => client'[d].tries > 0
                                /\ client'[d].pc \in Connected => client'[d].srv \in Servers
      <3>1. CASE UNCHANGED client
        BY <3>1 DEF Typed
      <3>2. CASE Command(s) /\ ~UNCHANGED client
        <4>1. PICK c \in Clients : /\ ClientTo(c, "served", client[c].tries, s)
                                  /\ client[c].pc \in Connected
          BY <3>2, AnswersTo
        <4> QED BY <4>1 DEF Typed, ClientTo, Connected
      <3> QED BY <1>2, <3>1, <3>2
          DEF ServerStep, Bind, Listen, Started, Select, Control, TimedOut, UnlinkSocket,
              ReleaseLock, LockFileGone, Relock, RemoveLock
    <2>2. server' \in [Servers -> ServerRecord]
      BY <1>2, StepOfServer, ServerTyped
    <2>3. socket' \in {socket, s, None}
      BY <1>2
      DEF ServerStep, Bind, Listen, Started, Select, Control, Command, TimedOut, UnlinkSocket,
          ReleaseLock, LockFileGone, Relock, RemoveLock
    <2>4. sent' \subseteq sent
      BY <1>2
      DEF ServerStep, Bind, Listen, Started, Select, Control, Command, TimedOut, UnlinkSocket,
          ReleaseLock, LockFileGone, Relock, RemoveLock, Ends
    <2> QED BY <1>2, <2>1, <2>2, <2>3, <2>4 DEF Typed
  <1>3. CASE Fault
    <2>1. faults' \in Nat /\ UNCHANGED socket /\ sent' \subseteq sent
      BY <1>3 DEF Fault, KillProcess, IdleThreadDies, KillClient, TooSlow, Typed, Ends
    <2>2. ASSUME NEW s \in Servers, KillProcess(s) \/ IdleThreadDies(s) PROVE Typed'
      <3>1. UNCHANGED client /\ \E r : ServerTo(s, r)
        BY <2>2, EndsTo, QuietTo DEF KillProcess, IdleThreadDies
      <3> QED BY <2>1, <3>1, ServerTyped DEF Typed
    <2>3. ASSUME NEW c \in Clients, KillClient(c) \/ TooSlow(c) PROVE Typed'
      <3>1. UNCHANGED server /\ GivesUp(c)
        BY <2>3, SettlesGivesUp, AgainGivesUp DEF KillClient, TooSlow
      <3> QED BY <2>1, <3>1, StepIsOfClient DEF Typed
    <2> QED BY <1>3, <2>2, <2>3 DEF Fault
  <1>4. \A c \in Clients : ClientStep(c) => UNCHANGED faults
    BY DEF ClientStep, TryLock, NoLock, Poll, StopPolling, GiveBack, StartServer, CloseLock,
          ServerStarted, ServerNotStarted, Connect, NotConnected, SendFds,
          ConnectionEnds, Leave, KillServer, Killed
  <1>5. \A s \in Servers : ServerStep(s) => UNCHANGED faults
    BY DEF ServerStep, Bind, Listen, Started, Select, Control, Command, TimedOut, UnlinkSocket,
          ReleaseLock, LockFileGone, Relock, RemoveLock
  <1> QED BY <1>1, <1>2, <1>3, <1>4, <1>5 DEF Next

LEMMA InitTyped ==
  ASSUME Init
  PROVE  Typed
  <1>1. \A c \in Clients : NewClient(Retries[c]) \in ClientRecord /\ Retries[c] > 0
    BY RetriesAssumption DEF NewClient, ClientRecord, ClientPcs
  <1>2. \A c \in Clients : client[c] = NewClient(Retries[c])
    BY DEF Init
  <1>3. ASSUME NEW c \in Clients PROVE client[c].tries > 0
    <2>1. client[c] = NewClient(Retries[c])
      BY <1>2
    <2>2. NewClient(Retries[c]).tries = Retries[c]
      BY DEF NewClient
    <2> QED BY <1>1, <2>1, <2>2
  <1>4. \A c \in Clients : client[c].pc = "lock"
    BY DEF Init, NewClient
  <1> QED BY <1>1, <1>3, <1>4, NoneIsServer DEF Init, Typed, Connected

-----------------------------------------------------------------------------
(* Nothing is left behind *)

\* A file that is removed while it is locked does not come back.
NotBack == \A p \in Procs : at[p] = "unlinked" => disk # fd[p]

\* Only at these points a process has the lock file open.
Handles ==
  /\ \A c \in Clients : at[c] # "out" => client[c].pc \in {"lock", "locked", "forked"}
  /\ \A s \in Servers : at[s] # "out" => server[s].pc \in HoldsLock \cup {"released", "relocked"}

\* The process has yet to remove the lock file that is on disk.
Removes(p) ==
  \/ fd[p] = disk /\ at[p] \in {"opened", "holds"}
  \/ p \in Servers /\ server[p].pc = "released" /\ at[p] = "out"

LockRemoved == disk # None => \E p \in Procs : Removes(p)

SocketRemoved == socket # None => server[socket].pc \in Reached

\* A server does not end before its client has closed the lock.
StartsWithLock ==
  \A c \in Clients : client[c].pc = "forked" =>
    /\ client[c].srv \in Servers
    /\ server[client[c].srv].pc \in {"exec", "bound", "listening"}

Tidy == LockRemoved /\ SocketRemoved /\ StartsWithLock

CleanInv == NotBack /\ Handles /\ (faults = 0 => Tidy)

LEMMA NotBackKept ==
  ASSUME LockInv, NotBack, NEW p \in Procs, LockStep(p) \/ \E q \in Procs : Share(p, q)
  PROVE  NotBack'
  BY NoInode
  DEF NotBack, LockInv, LockTypeOK, LockStep, Lock, UnlockFile, Open, Refused, Acquire,
      Stale, Close, Unlink, Unlock, Forget, Share, Unused, lockvars

\* Whoever is refused leaves the file to the one that holds its lock.
LEMMA RefusedLeaves ==
  ASSUME LockInv, NotBack, NEW p \in Procs, Refused(p), Removes(p)
  PROVE  \E q \in Procs \ {p} : Removes(q)
  <1>1. at[p] = "opened" /\ fd[p] = disk /\ fd[p] \in Inodes /\ held[fd[p]] # {}
    BY DEF Refused, Removes, LockInv, LockTypeOK
  <1>2. PICK q \in Procs : q \in held[fd[p]]
    BY <1>1 DEF LockInv, LockTypeOK
  <1>3. at[q] \in {"holds", "unlinked"} /\ fd[q] = disk
    BY <1>1, <1>2 DEF LockInv
  <1> QED BY <1>1, <1>3 DEF NotBack, Removes

LEMMA StillRemoved ==
  ASSUME LockInv, LockRemoved, NEW p \in Procs, LockStep(p),
         \A s \in Servers \ {p} : server'[s].pc = server[s].pc,
         disk' # None /\ Removes(p) => Removes(p)' \/ \E q \in Procs \ {p} : Removes(q)
  PROVE  LockRemoved'
  <1> SUFFICES ASSUME disk' # None PROVE \E q \in Procs : Removes(q)'
    BY DEF LockRemoved
  <1>1. CASE disk' # disk
    <2>1. Open(p)
      BY <1>1 DEF LockStep, Lock, UnlockFile, Refused, Acquire, Stale, Close, Unlink, Unlock,
                  lockvars
    <2>2. fd'[p] = disk' /\ at'[p] = "opened"
      BY <2>1 DEF Open, LockInv, LockTypeOK
    <2> QED BY <2>2 DEF Removes
  <1>2. CASE disk' = disk
    <2>1. \A q \in Procs \ {p} : Removes(q) => Removes(q)'
      <3> SUFFICES ASSUME NEW q \in Procs \ {p}, Removes(q) PROVE Removes(q)'
        OBVIOUS
      <3>1. at'[q] = at[q] /\ fd'[q] = fd[q]
        BY LockStepIsLocal
      <3> QED BY <1>2, <3>1 DEF Removes
    <2>2. PICK q \in Procs : Removes(q)
      BY <1>2 DEF LockRemoved
    <2> QED BY <2>1, <2>2
  <1> QED BY <1>1, <1>2

\* A step of a client that leaves the points of the servers as they are.
LEMMA ClientKeepsTidy ==
  ASSUME Inv, Typed, Tidy, NEW c \in Clients, LockStep(c), UNCHANGED socket,
         \A d \in Clients : client'[d].pc = "forked" => client'[d] = client[d],
         \A s \in Servers : server'[s].pc = server[s].pc,
         disk' # None /\ Removes(c) => Removes(c)' \/ \E q \in Procs \ {c} : Removes(q)
  PROVE  Tidy'
  <1>1. LockRemoved'
    BY StillRemoved, ProcsAssumption DEF Inv, Tidy
  <1>2. SocketRemoved'
    BY DEF Tidy, SocketRemoved, Typed
  <1>3. StartsWithLock'
    BY DEF Tidy, StartsWithLock
  <1> QED BY <1>1, <1>2, <1>3 DEF Tidy

LEMMA ClientKeepsHandles ==
  ASSUME Inv, Handles, NEW c \in Clients, LockStep(c),
         \A d \in Clients \ {c} : client'[d].pc = client[d].pc,
         \A s \in Servers : server'[s].pc = server[s].pc,
         at'[c] # "out" => client'[c].pc \in {"lock", "locked", "forked"}
  PROVE  Handles'
  <1>1. \A q \in Procs \ {c} : at'[q] = at[q]
    BY LockStepIsLocal, ProcsAssumption DEF Inv
  <1> QED BY <1>1, ProcsAssumption DEF Handles

LEMMA ServerKeepsHandles ==
  ASSUME Inv, Handles, NEW s \in Servers, LockStep(s),
         \A c \in Clients : at[c] # "out" => client'[c].pc = client[c].pc,
         \A t \in Servers \ {s} : server'[t].pc = server[t].pc,
         at'[s] # "out" => server'[s].pc \in HoldsLock \cup {"released", "relocked"}
  PROVE  Handles'
  <1>1. \A q \in Procs \ {s} : at'[q] = at[q]
    BY LockStepIsLocal, ProcsAssumption DEF Inv
  <1> QED BY <1>1, ProcsAssumption DEF Handles

LEMMA ClientLeavesPcs ==
  ASSUME Typed, NEW c \in Clients, ClientStep(c), ~StartServer(c)
  PROVE  /\ \A s \in Servers : server'[s].pc = server[s].pc
         /\ \A d \in Clients \ {c} : client'[d].pc = client[d].pc
         /\ \A d \in Clients : client'[d].pc = "forked" => client'[d] = client[d]
  <1>1. \A s \in Servers : server'[s].pc = server[s].pc
    <2>1. CASE ServerStarted(c)
      BY <2>1, StartedTo DEF ServerTo, Typed
    <2>2. CASE Connect(c)
      BY <2>2, ConnectTo DEF ServerTo, Typed
    <2>3. CASE KillServer(c)
      BY <2>3, KillTo DEF ServerTo, Typed
    <2>4. CASE UNCHANGED server
      BY <2>4
    <2> QED BY <2>1, <2>2, <2>3, <2>4
        DEF ClientStep, TryLock, NoLock, Poll, StopPolling, GiveBack, CloseLock,
            ServerNotStarted, NotConnected, SendFds, ConnectionEnds, Leave, Killed
  <1>2. CASE UNCHANGED client
    BY <1>1, <1>2
  <1>3. CASE GivesUp(c)
    BY <1>1, <1>3 DEF GivesUp, ClientTo, Settled
  <1>4. CASE GoesOn(c)
    BY <1>1, <1>4 DEF GoesOn, ClientTo
  <1> QED BY <1>2, <1>3, <1>4, ClientMoves

LEMMA ClientKeepsClean ==
  ASSUME Inv, Typed, CleanInv, NEW c \in Clients, ClientStep(c)
  PROVE  CleanInv'
  <1> USE ProcsAssumption
  <1>a. LockInv /\ NotBack /\ Handles /\ c \in Procs /\ c \notin Servers
    BY DEF Inv, CleanInv
  <1>b. UNCHANGED <<faults, socket>>
    BY DEF ClientStep, TryLock, NoLock, Poll, StopPolling, GiveBack, StartServer, CloseLock,
           ServerStarted, ServerNotStarted, Connect, NotConnected, SendFds,
           ConnectionEnds, Leave, KillServer, Killed
  <1>1. CASE StartServer(c)
    <2>1. PICK s \in Servers : \E r :
            /\ s \in FreePlaces /\ ServerTo(s, r) /\ r.pc = "exec"
            /\ Share(c, s) /\ client'[c].srv = s
      BY <1>1, StartTo
    <2>2. /\ s \in Procs /\ server[s].pc = "off" /\ server'[s].pc = "exec"
          /\ \A t \in Servers \ {s} : server'[t] = server[t]
          /\ socket # s
      BY <2>1 DEF FreePlaces, ServerTo, Typed
    <2>3. client[c].pc = "locked" /\ client'[c].pc = "forked" /\ client'[c].srv = s
          /\ \A d \in Clients \ {c} : client'[d] = client[d]
      BY <1>1, <2>1 DEF StartServer, Typed, ClientRecord
    <2>4. /\ at[c] = "holds" /\ at'[c] = "holds" /\ at'[s] = "holds"
          /\ UNCHANGED disk
          /\ \A q \in Procs \ {s} : at'[q] = at[q] /\ fd'[q] = fd[q]
      BY <1>a, <2>1, <2>2 DEF Share, LockInv, LockTypeOK
    <2>5. NotBack'
      BY <1>a, <2>1, <2>2, NotBackKept
    <2>6. Handles'
      BY <1>a, <2>2, <2>3, <2>4 DEF Handles, HoldsLock
    <2>7. ASSUME faults' = 0 PROVE Tidy'
      <3>0. Tidy
        BY <1>b, <2>7 DEF CleanInv
      <3>1. LockRemoved'
        <4>1. Removes(c)'
          BY <1>a, <2>4 DEF Removes, LockInv
        <4> QED BY <1>a, <4>1 DEF LockRemoved
      <3>2. SocketRemoved'
        BY <1>b, <2>2, <3>0 DEF Tidy, SocketRemoved, Typed
      <3>3. StartsWithLock'
        BY <2>2, <2>3, <3>0 DEF Tidy, StartsWithLock
      <3> QED BY <3>1, <3>2, <3>3 DEF Tidy
    <2> QED BY <2>5, <2>6, <2>7 DEF CleanInv
  <1>2. CASE ~StartServer(c)
    <2>1. LockStep(c)
      BY <1>2
      DEF LockStep, Lock, UnlockFile, ClientStep, TryLock, NoLock, Poll, StopPolling, GiveBack,
          CloseLock, ServerStarted, ServerNotStarted, Connect, NotConnected, SendFds,
          ConnectionEnds, Leave, KillServer, Killed
    <2>2. /\ \A s \in Servers : server'[s].pc = server[s].pc
          /\ \A d \in Clients \ {c} : client'[d].pc = client[d].pc
          /\ \A d \in Clients : client'[d].pc = "forked" => client'[d] = client[d]
      BY <1>2, ClientLeavesPcs
    <2>3. NotBack'
      BY <1>a, <2>1, NotBackKept
    <2>4. \/ TryLock(c) \/ GiveBack(c) \/ CloseLock(c)
          \/ UNCHANGED lockvars /\ client[c].pc \notin {"lock", "locked", "forked"}
      BY <1>2
      DEF ClientStep, TryLock, NoLock, Poll, StopPolling, GiveBack,
          CloseLock, ServerStarted, ServerNotStarted, Connect, NotConnected, SendFds,
          ConnectionEnds, Leave, KillServer, Killed
    <2>5. at'[c] # "out" => client'[c].pc \in {"lock", "locked", "forked"}
      <3>1. CASE TryLock(c)
        <4>1. CASE Refused(c) \/ Stale(c)
          BY <1>a, <4>1 DEF Refused, Stale, Forget, LockInv, LockTypeOK
        <4>2. CASE UNCHANGED client \/ Goes(c, "locked")
          BY <3>1, <4>2 DEF TryLock, Goes, Typed, ClientRecord
        <4> QED BY <3>1, <4>1, <4>2 DEF TryLock
      <3>2. CASE GiveBack(c)
        <4>1. CASE Unlock(c)
          BY <1>a, <4>1 DEF Unlock, Forget, LockInv, LockTypeOK
        <4>2. CASE UNCHANGED client
          BY <3>2, <4>2 DEF GiveBack
        <4> QED BY <3>2, <4>1, <4>2 DEF GiveBack
      <3>3. CASE CloseLock(c)
        BY <1>a, <3>3 DEF CloseLock, Close, Forget, LockInv, LockTypeOK
      <3>4. CASE UNCHANGED lockvars /\ client[c].pc \notin {"lock", "locked", "forked"}
        BY <1>a, <3>4 DEF Handles, lockvars
      <3> QED BY <2>4, <3>1, <3>2, <3>3, <3>4
    <2>6. Handles'
      BY <1>a, <2>1, <2>2, <2>5, ClientKeepsHandles
    <2>7. ASSUME faults' = 0 PROVE Tidy'
      <3>0. Tidy
        BY <1>b, <2>7 DEF CleanInv
      <3>1. disk' # None /\ Removes(c) => Removes(c)' \/ \E q \in Procs \ {c} : Removes(q)
        <4>1. CASE TryLock(c)
          <5>1. CASE Open(c) \/ Stale(c)
            BY <1>a, <5>1 DEF Open, Stale, Removes
          <5>2. CASE Refused(c)
            BY <1>a, <5>2, RefusedLeaves
          <5>3. CASE Acquire(c)
            BY <1>a, <5>3 DEF Acquire, Removes, LockInv, LockTypeOK
          <5> QED BY <4>1, <5>1, <5>2, <5>3 DEF TryLock
        <4>2. CASE GiveBack(c)
          BY <1>a, <4>2 DEF GiveBack, Unlink, Unlock, Removes
        <4>3. CASE CloseLock(c)
          <5>1. client[c].srv \in Servers /\ server[client[c].srv].pc \in HoldsLock
            BY <3>0, <4>3 DEF CloseLock, Tidy, StartsWithLock, HoldsLock, Listening
          <5>2. at[client[c].srv] = "holds" /\ client[c].srv \in Procs \ {c}
            BY <5>1, <1>a DEF Inv
          <5>3. Removes(client[c].srv)
            BY <1>a, <5>2 DEF Removes, LockInv
          <5> QED BY <5>2, <5>3
        <4>4. CASE UNCHANGED lockvars
          BY <1>a, <4>4 DEF Removes, lockvars
        <4> QED BY <2>4, <4>1, <4>2, <4>3, <4>4
      <3> QED BY <1>b, <2>1, <2>2, <3>0, <3>1, ClientKeepsTidy
    <2> QED BY <2>3, <2>6, <2>7 DEF CleanInv
  <1> QED BY <1>1, <1>2

\* From where to where a step takes a server.
LEMMA ServerPath ==
  ASSUME Typed, NEW s \in Servers, ServerStep(s)
  PROVE  /\ \A t \in Servers \ {s} : server'[t] = server[t]
         /\ \/ Bind(s) /\ server[s].pc = "exec" /\ server'[s].pc = "bound"
            \/ Listen(s) /\ server[s].pc = "bound" /\ server'[s].pc = "listening"
            \/ Started(s) /\ server[s].pc = "listening" /\ server'[s].pc = "loop"
            \/ /\ Select(s) \/ Control(s) \/ Command(s) \/ TimedOut(s)
               /\ server[s].pc \in {"loop", "control", "command"}
               /\ server'[s].pc \in {"loop", "control", "command"}
            \/ UnlinkSocket(s) /\ server[s].pc = "loop" /\ server'[s].pc = "closed"
            \/ ReleaseLock(s) /\ server[s].pc = "closed" /\ server'[s].pc = "released"
            \/ LockFileGone(s) /\ server[s].pc = "released" /\ server'[s].pc = "off"
            \/ /\ Relock(s) /\ server[s].pc = "released"
               /\ \/ Open(s) /\ server'[s].pc = "released"
                  \/ Acquire(s) /\ server'[s].pc = "relocked"
                  \/ (Refused(s) \/ Stale(s)) /\ server'[s].pc = "off"
            \/ /\ RemoveLock(s) /\ server[s].pc = "relocked"
               /\ \/ Unlink(s) /\ server'[s].pc = "relocked"
                  \/ Unlock(s) /\ server'[s].pc = "off"
  <1>1. \A t \in Servers \ {s} : server'[t] = server[t]
    BY StepOfServer DEF ServerTo, Typed
  <1>2. CASE Bind(s) \/ Listen(s) \/ Started(s) \/ ReleaseLock(s)
    BY <1>1, <1>2, QuietTo DEF Bind, Listen, Started, ReleaseLock, ServerTo, Typed
  <1>3. CASE Select(s)
    BY <1>1, <1>3, SelectTo DEF Select, ServerTo, Typed
  <1>4. CASE Control(s)
    <2>1. server'[s].pc \in {"loop", "command"}
      <3>1. CASE server[s].control \in sent
        BY <1>4, <3>1, ReceivedTo DEF ServerTo, Typed
      <3>2. CASE server[s].control \notin sent
        BY <1>4, <3>2, DisconnectedTo DEF Control, ServerTo, Typed
      <3> QED BY <3>1, <3>2
    <2> QED BY <1>1, <1>4, <2>1 DEF Control
  <1>5. CASE Command(s)
    <2>1. server'[s].pc = "loop"
      <3>1. CASE server[s].pending # "nothing"
        BY <1>5, <3>1, CommandTo DEF ServerTo, Typed
      <3>2. CASE server[s].pending = "nothing"
        BY <1>5, <3>2, DisconnectedTo DEF Command, ServerTo, Typed
      <3> QED BY <3>1, <3>2
    <2> QED BY <1>1, <1>5, <2>1 DEF Command
  <1>6. CASE TimedOut(s)
    BY <1>1, <1>6, QuietTo DEF TimedOut, ServerTo, Typed
  <1>7. CASE UnlinkSocket(s)
    BY <1>1, <1>7, UnlinkSocketTo DEF UnlinkSocket, ServerTo, Typed
  <1>8. Ends(s) => server'[s].pc = "off"
    BY EndsTo DEF ServerTo, Typed
  <1>9. CASE LockFileGone(s) \/ RemoveLock(s)
    BY <1>1, <1>8, <1>9 DEF LockFileGone, RemoveLock
  <1>10. CASE Relock(s)
    <2>1. Moves(s, "relocked") => server'[s].pc = "relocked"
      BY MovesTo DEF ServerTo, Typed, ServerPcs
    <2> QED BY <1>1, <1>8, <1>10, <2>1 DEF Relock
  <1> QED BY <1>2, <1>3, <1>4, <1>5, <1>6, <1>7, <1>9, <1>10 DEF ServerStep

LEMMA ServerKeepsClean ==
  ASSUME Inv, Typed, CleanInv, NEW s \in Servers, ServerStep(s)
  PROVE  CleanInv'
  <1> USE ProcsAssumption
  <1>a. LockInv /\ NotBack /\ Handles /\ s \in Procs
    BY DEF Inv, CleanInv
  <1>b. LockStep(s) /\ UNCHANGED faults
    BY DEF LockStep, Lock, UnlockFile, ServerStep, Bind, Listen, Started, Select, Control,
           Command, TimedOut, UnlinkSocket, ReleaseLock, LockFileGone, Relock, RemoveLock
  <1>c. \A c \in Clients : client'[c] = client[c] \/
                             (client[c].pc \in Connected /\ client'[c].pc = "served")
    <2>1. CASE UNCHANGED client
      BY <2>1
    <2>2. CASE Command(s) /\ ~UNCHANGED client
      <3>1. PICK c \in Clients : /\ client[c].pc \in Connected
                                /\ ClientTo(c, "served", client[c].tries, s)
        BY <2>2, AnswersTo
      <3> QED BY <3>1 DEF ClientTo
    <2> QED BY <2>1, <2>2
        DEF ServerStep, Bind, Listen, Started, Select, Control, TimedOut, UnlinkSocket,
            ReleaseLock, LockFileGone, Relock, RemoveLock
  <1>1. NotBack'
    BY <1>a, <1>b, NotBackKept
  <1>2. Handles'
    <2>1. \A c \in Clients : at[c] # "out" => client'[c].pc = client[c].pc
      BY <1>a, <1>c DEF Handles, Connected
    <2>2. at'[s] # "out" => server'[s].pc \in HoldsLock \cup {"released", "relocked"}
      <3>1. (Refused(s) \/ Stale(s) \/ Unlock(s)) => at'[s] = "out"
        BY <1>a DEF Refused, Stale, Unlock, Forget, LockInv, LockTypeOK
      <3> QED BY <1>a, <3>1, ServerPath DEF LockFileGone, HoldsLock, Listening, lockvars
    <2>3. \A t \in Servers \ {s} : server'[t].pc = server[t].pc
      BY ServerPath
    <2> QED BY <1>a, <1>b, <2>1, <2>2, <2>3, ServerKeepsHandles
  <1>3. ASSUME faults' = 0 PROVE Tidy'
    <2>0. Tidy
      BY <1>b, <1>3 DEF CleanInv
    <2>1. LockRemoved'
      <3>1. disk' # None /\ Removes(s) => Removes(s)' \/ \E q \in Procs \ {s} : Removes(q)
        <4>1. CASE Relock(s)
          <5>1. CASE Open(s)
            BY <1>a, <5>1 DEF Open, Removes, LockInv, LockTypeOK
          <5>2. CASE Acquire(s)
            BY <1>a, <5>2 DEF Acquire, Removes, LockInv, LockTypeOK
          <5>3. CASE Refused(s)
            BY <1>a, <5>3, RefusedLeaves
          <5>4. CASE Stale(s)
            BY <1>a, <5>4 DEF Stale, Removes
          <5> QED BY <4>1, <5>1, <5>2, <5>3, <5>4 DEF Relock
        <4>2. CASE RemoveLock(s)
          BY <4>2 DEF RemoveLock, Unlink, Unlock, Removes
        <4>3. CASE ReleaseLock(s)
          <5>1. at'[s] = "out" /\ server'[s].pc = "released"
            BY <1>a, <4>3, ServerPath
            DEF ReleaseLock, Close, Forget, LockInv, LockTypeOK, Bind, Listen, Started, Select,
                Control, Command, TimedOut, UnlinkSocket, LockFileGone, Relock, RemoveLock
          <5> QED BY <5>1 DEF Removes
        <4>4. CASE LockFileGone(s)
          BY <4>4 DEF LockFileGone, lockvars
        <4>5. CASE UNCHANGED lockvars /\ server[s].pc # "released"
          BY <4>5 DEF lockvars, Removes
        <4> QED BY <4>1, <4>2, <4>3, <4>4, <4>5
            DEF ServerStep, Bind, Listen, Started, Select, Control, Command, TimedOut,
                UnlinkSocket
      <3> QED BY <1>a, <1>b, <2>0, <3>1, StillRemoved, ServerPath DEF Tidy
    <2>2. SocketRemoved'
      <3>1. CASE Bind(s)
        <4>1. server'[s].pc = "bound" /\ socket' = s
          BY <3>1, ServerPath
          DEF Bind, Listen, Started, Select, Control, Command, TimedOut, UnlinkSocket,
              ReleaseLock, LockFileGone, Relock, RemoveLock
        <4> QED BY <4>1 DEF SocketRemoved, Reached
      <3>2. CASE UnlinkSocket(s)
        BY <2>0, <3>2, ServerPath DEF Tidy, SocketRemoved, UnlinkSocket, Typed
      <3>3. CASE ~Bind(s) /\ ~UnlinkSocket(s)
        <4>1. UNCHANGED socket
          BY <3>3
          DEF ServerStep, Listen, Started, Select, Control, Command, TimedOut, ReleaseLock,
              LockFileGone, Relock, RemoveLock
        <4>2. server[s].pc \in Reached => server'[s].pc \in Reached
          BY <3>3, ServerPath DEF Reached, Listening
        <4> QED BY <2>0, <4>1, <4>2, ServerPath DEF Tidy, SocketRemoved, Typed
      <3> QED BY <3>1, <3>2, <3>3
    <2>3. StartsWithLock'
      <3>1. \A c \in Clients : client'[c].pc = "forked" => client'[c] = client[c]
        BY <1>c
      <3>2. ASSUME NEW c \in Clients, client[c].pc = "forked", client[c].srv = s
            PROVE  server'[s].pc \in {"exec", "bound", "listening"}
        <4>1. server[s].pc \in {"exec", "bound", "listening"}
          BY <2>0, <3>2 DEF Tidy, StartsWithLock
        <4>2. ~Started(s)
          BY <3>2 DEF Started
        <4> QED BY <4>1, <4>2, ServerPath
      <3> QED BY <2>0, <3>1, <3>2, ServerPath DEF Tidy, StartsWithLock
    <2> QED BY <2>1, <2>2, <2>3 DEF Tidy
  <1> QED BY <1>1, <1>2, <1>3 DEF CleanInv

LEMMA FaultKeepsClean ==
  ASSUME Inv, Typed, CleanInv, Fault
  PROVE  CleanInv'
  <1> USE ProcsAssumption
  <1>a. LockInv /\ NotBack /\ Handles /\ faults' # 0
    BY DEF Inv, CleanInv, Fault, Typed
  <1>1. ASSUME NEW s \in Servers, KillProcess(s) PROVE CleanInv'
    <2>1. LockStep(s) /\ UNCHANGED client
      BY <1>1 DEF KillProcess, LosesLock, LockStep
    <2>2. at'[s] = "out"
      BY <1>a, <1>1 DEF KillProcess, LosesLock, Close, Forget, LockInv, LockTypeOK, lockvars
    <2>3. \A t \in Servers \ {s} : server'[t].pc = server[t].pc
      BY <1>1, EndsTo DEF KillProcess, ServerTo, Typed
    <2> QED BY <1>a, <2>1, <2>2, <2>3, NotBackKept, ServerKeepsHandles DEF CleanInv
  <1>2. ASSUME NEW s \in Servers, IdleThreadDies(s) PROVE CleanInv'
    <2>1. UNCHANGED <<lockvars, client>>
      BY <1>2 DEF IdleThreadDies
    <2>2. \A t \in Servers : server'[t].pc = server[t].pc
      BY <1>2, QuietTo DEF IdleThreadDies, ServerTo, Typed
    <2> QED BY <1>a, <2>1, <2>2 DEF CleanInv, NotBack, Handles, lockvars
  <1>3. ASSUME NEW c \in Clients, KillClient(c) \/ TooSlow(c) PROVE CleanInv'
    <2>1. LockStep(c) /\ UNCHANGED server
      BY <1>3 DEF KillClient, TooSlow, LosesLock, LockStep
    <2>2. at'[c] = "out"
      <3>1. CASE KillClient(c)
        BY <1>a, <3>1 DEF KillClient, LosesLock, Close, Forget, LockInv, LockTypeOK, lockvars
      <3>2. CASE TooSlow(c)
        BY <1>a, <3>2 DEF TooSlow, Handles, lockvars
      <3> QED BY <1>3, <3>1, <3>2
    <2>3. \A d \in Clients \ {c} : client'[d].pc = client[d].pc
      BY <1>3 DEF KillClient, TooSlow, Settles, Again, Typed
    <2> QED BY <1>a, <2>1, <2>2, <2>3, NotBackKept, ClientKeepsHandles DEF CleanInv
  <1> QED BY <1>1, <1>2, <1>3 DEF Fault

\* Without faults nothing stays in the build directory when all have ended:
\* whenever the lock file or the socket file is on disk, somebody is on the way
\* to remove it, however starting clients and ending servers overlap.
\* (process.py:326-395, utils.py:482-530)
THEOREM AllIsTidiedUp == Spec => []CleanEnd
  <1>1. Init => Typed /\ CleanInv
    <2> SUFFICES ASSUME Init PROVE CleanInv
      BY InitTyped
    <2>1. \A c \in Clients : client[c].pc = "lock"
      BY DEF Init, NewClient
    <2> QED BY <2>1, ProcsAssumption
        DEF Init, LockInit, CleanInv, NotBack, Handles, Tidy, LockRemoved, SocketRemoved,
            StartsWithLock
  <1>2. Inv /\ Typed /\ CleanInv /\ [Next]_vars => (Inv /\ Typed /\ CleanInv)'
    <2> SUFFICES ASSUME Inv, Typed, CleanInv, [Next]_vars
                 PROVE  Inv' /\ Typed' /\ CleanInv'
      OBVIOUS
    <2>1. CASE Next
      BY <2>1, FaultKeepsInv, ClientKeepsInv, ServerKeepsInv, TypedStep,
         FaultKeepsClean, ClientKeepsClean, ServerKeepsClean DEF Next
    <2>2. CASE UNCHANGED vars
      BY <2>2
      DEF vars, lockvars, Inv, LockInv, LockTypeOK, Records, Typed, CleanInv, NotBack,
          Handles, Tidy, LockRemoved, Removes, SocketRemoved, StartsWithLock
    <2> QED BY <2>1, <2>2
  <1>3. Inv /\ Typed /\ CleanInv => CleanEnd
    <2> SUFFICES ASSUME Typed, CleanInv, faults = 0,
                        \A c \in Clients : client[c].pc \in Settled,
                        \A s \in Servers : server[s].pc = "off"
                 PROVE  disk = None /\ socket = None
      BY DEF CleanEnd
    <2>1. \A p \in Procs : at[p] = "out"
      BY ProcsAssumption DEF CleanInv, Handles, Settled, HoldsLock, Listening
    <2>2. disk = None
      BY <2>1 DEF CleanInv, Tidy, LockRemoved, Removes
    <2>3. socket = None
      BY DEF CleanInv, Tidy, SocketRemoved, Reached, Listening, Typed
    <2> QED BY <2>2, <2>3
  <1> QED BY <1>1, <1>2, <1>3, InitInv, PTL DEF Spec

-----------------------------------------------------------------------------
(* Connections *)

\* The connections that clients have made so far: an attempt that failed and
\* one that is connected have made theirs.
Made ==
  {k \in Conns : \/ k[2] > client[k[1]].tries
                 \/ k = Conn(k[1]) /\ client[k[1]].pc \in Connected}

\* What a server keeps was made, and made to it if the client still has it.
KeptOf(s) ==
  \A k \in Kept(s) \ {NoConn} :
    k \in Made /\ (k = Conn(k[1]) => client[k[1]].srv = s)

\* The connection that is served is the one whose pipes were received, and a
\* server that is about to hear its end has nothing to hear from an open one.
Minds(s) ==
  LET r == server[s] IN
  r.pc # "off" =>
    /\ r.ui # NoConn => r.ui = r.control /\ r.ui \notin sent
    /\ r.ui # NoConn => r.hadui \/ r.pc \in {"closed", "released", "relocked"}
    /\ r.pc = "control" /\ r.control \notin sent => ~IsOpen(s, r.control)
    /\ r.pc = "command" /\ r.pending = "nothing" => ~IsOpen(s, r.ui)

\* A client that has not sent its pipes is not served yet.
NotYet ==
  \A c \in Clients : client[c].pc = "connected" =>
    Conn(c) \notin sent /\ \A s \in Servers : server[s].ui # Conn(c)

\* A client that was answered is served, and nothing waits to be answered.
Answered ==
  \A c \in Clients : client[c].pc = "served" =>
    \A s \in Servers : s = client[c].srv /\ server[s].pc # "off" =>
      server[s].ui = Conn(c) /\ server[s].pending = "nothing"

ConnInv ==
  /\ sent \subseteq Made
  /\ \A s \in Servers : KeptOf(s) /\ Minds(s)
  /\ NotYet /\ Answered

\* Attempts count down, and one that is connected stays so until it is over.
Advance ==
  \A c \in Clients :
    \/ client'[c].tries < client[c].tries /\ client'[c].pc \notin Connected
    \/ /\ client'[c].tries = client[c].tries
       /\ client[c].pc \in Connected =>
            client'[c].pc \in Connected /\ client'[c].srv = client[c].srv

LEMMA NoConnIsNone == NoConn \notin Conns
  BY DEF NoConn, Conns

LEMMA ConnOfClient ==
  ASSUME NEW k \in Conns
  PROVE  k[1] \in Clients /\ k[2] \in Nat /\ k = <<k[1], k[2]>>
  BY DEF Conns

LEMMA MadeStays ==
  ASSUME Typed, Typed', Advance
  PROVE  Made \subseteq Made'
  <1> SUFFICES ASSUME NEW k \in Made PROVE k \in Made'
    OBVIOUS
  <1> DEFINE c == k[1]
  <1>1. k \in Conns /\ c \in Clients /\ k[2] \in Nat /\ k = <<c, k[2]>>
    BY ConnOfClient DEF Made
  <1>2. client[c].tries \in Nat /\ client'[c].tries \in Nat
    BY <1>1 DEF Typed, ClientRecord
  <1>3. k[2] > client[c].tries \/ (k[2] = client[c].tries /\ client[c].pc \in Connected)
    BY <1>1 DEF Made, Conn
  <1>4. k[2] > client'[c].tries \/ (k[2] = client'[c].tries /\ client'[c].pc \in Connected)
    BY <1>1, <1>2, <1>3 DEF Advance
  <1> QED BY <1>1, <1>4 DEF Made, Conn

\* A connection whose client has left it is not opened again.
LEMMA ClosedStays ==
  ASSUME Typed, Typed', Advance, NEW s \in Servers, NEW k \in Made, IsOpen(s, k)'
  PROVE  IsOpen(s, k)
  <1> DEFINE c == k[1]
  <1>1. k \in Conns /\ c \in Clients /\ k[2] \in Nat /\ k = <<c, k[2]>>
    BY ConnOfClient DEF Made
  <1>2. client[c].tries \in Nat /\ client'[c].tries \in Nat
    BY <1>1 DEF Typed, ClientRecord
  <1>3. k[2] > client[c].tries \/ (k[2] = client[c].tries /\ client[c].pc \in Connected)
    BY <1>1 DEF Made, Conn
  <1>4. k[2] = client'[c].tries /\ client'[c].pc \in Connected /\ client'[c].srv = s
    BY <1>1 DEF IsOpen, Conn
  <1>5. k[2] = client[c].tries /\ client[c].pc \in Connected /\ client[c].srv = s
    BY <1>1, <1>2, <1>3, <1>4 DEF Advance
  <1> QED BY <1>1, <1>5, NoConnIsNone DEF IsOpen, Conn

\* A connection that is not new keeps its place.
LEMMA KeptStays ==
  ASSUME Typed, Typed', Advance, NEW s \in Servers, KeptOf(s),
         NEW k \in Kept(s) \ {NoConn}
  PROVE  k \in Made' /\ (k = Conn(k[1])' => client'[k[1]].srv = s)
  <1> DEFINE c == k[1]
  <1>0. k \in Made /\ (k = Conn(k[1]) => client[k[1]].srv = s)
    BY Zenon DEF KeptOf
  <1>4. k \in Made'
    BY <1>0, MadeStays
  <1>1. k \in Conns /\ c \in Clients /\ k[2] \in Nat /\ k = <<c, k[2]>>
    BY <1>0, ConnOfClient DEF Made
  <1>2. client[c].tries \in Nat /\ client'[c].tries \in Nat
    BY <1>1 DEF Typed, ClientRecord
  <1>3. ASSUME k = Conn(c)' PROVE client'[c].srv = s
    <2>1. k[2] = client'[c].tries
      BY <1>1, <1>3 DEF Conn
    <2>2. k[2] > client[c].tries \/ (k[2] = client[c].tries /\ client[c].pc \in Connected)
      BY <1>0, <1>1 DEF Made, Conn
    <2>3. k[2] = client[c].tries /\ client[c].pc \in Connected
      BY <1>1, <1>2, <2>1, <2>2 DEF Advance
    <2>4. k = Conn(k[1])
      BY <1>1, <2>3 DEF Conn
    <2>5. client[c].srv = s
      BY <1>0, <2>4
    <2>6. ~(client'[c].tries < client[c].tries) /\ c \in Clients
      BY <1>1, <1>2, <2>1, <2>3
    <2> HIDE DEF c
    <2> QED BY <2>3, <2>5, <2>6 DEF Advance
  <1> QED BY <1>4, <1>3

\* A server that has what it had.
Known(t) ==
  /\ server'[t].control = server[t].control /\ server'[t].ui = server[t].ui
  /\ server'[t].hadui = server[t].hadui
  /\ server'[t].pending = "nothing" => server[t].pending = "nothing"

\* It goes to no point at which it is about to hear something.
Onward(t) ==
  server'[t].pc # "off" =>
    /\ server[t].pc # "off"
    /\ \/ server'[t].pc = server[t].pc
       \/ /\ server'[t].pc \notin {"control", "command"}
          /\ server[t].pc \in {"closed", "released", "relocked"} =>
               server'[t].pc \in {"closed", "released", "relocked"}

\* No pipes come that are not sent by a waiting client, and none get lost that
\* an open connection waits for.
SentFor(t) ==
  /\ \A k \in sent' \ sent : k # server[t].ui
  /\ \A k \in sent \ sent' : ~IsOpen(t, k)'

LEMMA MindsStays ==
  ASSUME Typed, Typed', Advance, ConnInv, NEW t \in Servers, Known(t), Onward(t), SentFor(t)
  PROVE  Minds(t)'
  <1> SUFFICES ASSUME server'[t].pc # "off" PROVE Minds(t)'
    BY DEF Minds
  <1>1. server[t].pc # "off" /\ Minds(t) /\ KeptOf(t)
    BY DEF Onward, ConnInv
  <1>2. \A k \in {server[t].control, server[t].ui} : IsOpen(t, k)' => IsOpen(t, k)
    <2> SUFFICES ASSUME NEW k \in {server[t].control, server[t].ui}, IsOpen(t, k)'
                 PROVE  IsOpen(t, k)
      OBVIOUS
    <2>1. k \in Kept(t) /\ k # NoConn
      BY DEF Kept, IsOpen
    <2>2. k \in Made
      BY <1>1, <2>1 DEF KeptOf
    <2> QED BY <2>2, ClosedStays
  <1>3. server'[t].ui # NoConn =>
          /\ server'[t].ui = server'[t].control /\ server'[t].ui \notin sent'
          /\ server'[t].hadui \/ server'[t].pc \in {"closed", "released", "relocked"}
    BY <1>1 DEF Minds, Known, Onward, SentFor
  <1>4. ASSUME server'[t].pc = "control", server'[t].control \notin sent'
        PROVE  ~IsOpen(t, server[t].control)'
    <2>1. server[t].pc = "control" /\ server'[t].control = server[t].control
      BY <1>4 DEF Onward, Known
    <2>2. CASE server[t].control \in sent
      BY <1>4, <2>1, <2>2 DEF SentFor, IsOpen
    <2>3. CASE server[t].control \notin sent
      <3>1. ~IsOpen(t, server[t].control)
        BY <1>1, <2>1, <2>3 DEF Minds
      <3> QED BY <1>2, <2>1, <3>1 DEF IsOpen
    <2> QED BY <2>2, <2>3
  <1>5. ASSUME server'[t].pc = "command", server'[t].pending = "nothing"
        PROVE  ~IsOpen(t, server[t].ui)'
    <2>1. /\ server[t].pc = "command" /\ server[t].pending = "nothing"
          /\ server'[t].ui = server[t].ui
      BY <1>5 DEF Onward, Known
    <2>2. ~IsOpen(t, server[t].ui)
      BY <1>1, <2>1 DEF Minds
    <2> QED BY <1>2, <2>1, <2>2 DEF IsOpen
  <1> QED BY <1>3, <1>4, <1>5 DEF Minds

LEMMA KeptSub ==
  ASSUME Typed, Typed', Advance, ConnInv, NEW s \in Servers,
         Kept(s)' \subseteq Kept(s) \cup {NoConn}
  PROVE  KeptOf(s)'
  <1>1. KeptOf(s)
    BY DEF ConnInv
  <1>2. \A k \in Kept(s)' \ {NoConn} : k \in Made' /\ (k = Conn(k[1])' => client'[k[1]].srv = s)
    BY <1>1, KeptStays
  <1> QED BY <1>2 DEF KeptOf

LEMMA KeptSame ==
  ASSUME NEW s \in Servers, server'[s] = server[s] \/ Quiet(s, server'[s])
  PROVE  Kept(s)' = Kept(s)
  BY DEF Kept, Quiet

\* A connection that s has is open at no other server.
LEMMA OneServes ==
  ASSUME Typed, Typed', Advance, ConnInv, NEW s \in Servers, NEW t \in Servers, s # t,
         sent' \subseteq sent, sent \ sent' \subseteq Kept(s)
  PROVE  SentFor(t)
  <1> SUFFICES ASSUME NEW k \in sent \ sent', IsOpen(t, k)' PROVE FALSE
    BY DEF SentFor
  <1>1. k \in Made /\ k \in Kept(s) /\ k # NoConn /\ KeptOf(s)
    BY DEF ConnInv, IsOpen
  <1>2. IsOpen(t, k)
    BY <1>1, ClosedStays
  <1> QED BY <1>1, <1>2 DEF IsOpen, KeptOf

\* The clients that are connected or served have been so before.
Before ==
  \A c \in Clients : client'[c].pc \in {"connected", "served"} => client'[c] = client[c]

\* What is left to show of a step that changes one server.
LEMMA OneChanges ==
  ASSUME Typed, Typed', Advance, ConnInv, NEW s \in Servers,
         \A t \in Servers \ {s} : server'[t] = server[t] /\ SentFor(t),
         sent' \subseteq Made',
         KeptOf(s)', Minds(s)', NotYet', Answered'
  PROVE  ConnInv'
  <1>1. ASSUME NEW t \in Servers \ {s} PROVE KeptOf(t)' /\ Minds(t)'
    <2>1. Known(t) /\ Onward(t)
      BY DEF Known, Onward
    <2>2. Kept(t)' \subseteq Kept(t) \cup {NoConn}
      BY KeptSame
    <2> QED BY <2>1, <2>2, MindsStays, KeptSub
  <1> QED BY <1>1 DEF ConnInv

\* A step that leaves every server what it had.
LEMMA AllQuiet ==
  ASSUME Typed, Typed', Advance, ConnInv, Before,
         \A t \in Servers : /\ server'[t] = server[t] \/ Quiet(t, server'[t])
                            /\ Onward(t) /\ SentFor(t),
         \A c \in Clients : client'[c].pc = "connected" => Conn(c) \notin sent' \ sent,
         sent' \subseteq Made'
  PROVE  ConnInv'
  <1>1. ASSUME NEW t \in Servers PROVE KeptOf(t)' /\ Minds(t)'
    <2>1. Known(t)
      BY DEF Known, Quiet
    <2>2. Kept(t)' \subseteq Kept(t) \cup {NoConn}
      BY KeptSame
    <2> QED BY <2>1, <2>2, MindsStays, KeptSub
  <1>2. \A t \in Servers : server'[t].ui = server[t].ui /\ server'[t].pending = server[t].pending
    BY DEF Quiet
  <1>3. NotYet'
    BY <1>2 DEF ConnInv, NotYet, Before, Conn
  <1>4. Answered'
    BY <1>2 DEF ConnInv, Answered, Before, Conn, Onward
  <1> QED BY <1>1, <1>3, <1>4 DEF ConnInv

LEMMA NoStepAdvances ==
  ASSUME UNCHANGED client
  PROVE  Advance /\ Before
  BY DEF Advance, Before

LEMMA ClientAdvances ==
  ASSUME Typed, NEW c \in Clients, UNCHANGED client \/ GivesUp(c) \/ GoesOn(c)
  PROVE  Advance
  <1>1. CASE UNCHANGED client
    BY <1>1, NoStepAdvances
  <1>2. CASE GivesUp(c)
    <2>1. PICK n \in Nat, pc \in {"lock"} \cup Settled :
            n < client[c].tries /\ ClientTo(c, pc, n, None)
      BY <1>2 DEF GivesUp
    <2> QED BY <2>1 DEF ClientTo, Advance, Settled, Connected
  <1>3. CASE GoesOn(c)
    <2>1. PICK pc \in ClientPcs \ Settled, srv \in Servers \cup {None} :
            /\ ClientTo(c, pc, client[c].tries, srv)
            /\ client[c].pc \in Connected => pc \in Connected /\ srv = client[c].srv
      BY <1>3 DEF GoesOn
    <2> QED BY <2>1 DEF ClientTo, Advance
  <1> QED BY <1>1, <1>2, <1>3

LEMMA ClientBefore ==
  ASSUME Typed, NEW c \in Clients, UNCHANGED client \/ GivesUp(c) \/ GoesOn(c), ~Connect(c)
  PROVE  Before
  BY DEF GivesUp, GoesOn, ClientTo, Before, Settled

\* Pipes that a client sends go to a server that does not serve it yet.
LEMMA SentByClient ==
  ASSUME Typed, ConnInv, NEW c \in Clients,
         UNCHANGED sent \/ (SendFds(c) /\ sent' = sent \cup {Conn(c)})
  PROVE  /\ \A t \in Servers : SentFor(t)
         /\ \A d \in Clients : client'[d].pc = "connected" => Conn(d) \notin sent' \ sent
         /\ Made \subseteq Made' => sent' \subseteq Made'
  <1>1. CASE UNCHANGED sent
    BY <1>1 DEF SentFor, ConnInv
  <1>2. CASE SendFds(c) /\ sent' = sent \cup {Conn(c)}
    <2>1. client[c].pc = "connected" /\ ClientTo(c, "waiting", client[c].tries, client[c].srv)
      BY <1>2, GoesTo DEF SendFds, ClientPcs
    <2>2. \A t \in Servers : SentFor(t)
      BY <1>2, <2>1 DEF SentFor, ConnInv, NotYet
    <2>3. ASSUME NEW d \in Clients, client'[d].pc = "connected" PROVE Conn(d) \notin sent' \ sent
      <3>1. d # c
        BY <2>1, <2>3 DEF ClientTo
      <3> QED BY <1>2, <3>1 DEF Conn
    <2>4. Conn(c) \in Made
      <3>1. Conn(c) \in Conns /\ Conn(c)[1] = c
        BY DEF Typed, ClientRecord, Conn, Conns
      <3> QED BY <2>1, <3>1 DEF Made, Connected
    <2> QED BY <1>2, <2>2, <2>3, <2>4 DEF ConnInv
  <1> QED BY <1>1, <1>2

LEMMA ClientKeepsConn ==
  ASSUME Typed, Typed', ConnInv, NEW c \in Clients, ClientStep(c)
  PROVE  ConnInv'
  <1>a. Advance /\ Made \subseteq Made' /\ (~Connect(c) => Before)
    BY ClientMoves, ClientAdvances, ClientBefore, MadeStays
  <1>b. UNCHANGED sent \/ (SendFds(c) /\ sent' = sent \cup {Conn(c)})
    BY DEF ClientStep, TryLock, NoLock, Poll, StopPolling, GiveBack, StartServer, CloseLock,
           ServerStarted, ServerNotStarted, Connect, NotConnected, SendFds,
           ConnectionEnds, Leave, KillServer, Killed
  <1>c. /\ \A t \in Servers : SentFor(t)
        /\ \A d \in Clients : client'[d].pc = "connected" => Conn(d) \notin sent' \ sent
        /\ sent' \subseteq Made'
    BY <1>a, <1>b, SentByClient
  <1>1. CASE StartServer(c)
    <2>1. PICK s \in Servers : \E r :
            /\ s \in FreePlaces /\ ServerTo(s, r) /\ r.pc = "exec"
            /\ r.backlog = <<>> /\ r.queue = <<>> /\ r.control = NoConn /\ r.ui = NoConn
            /\ client'[c].srv = s
      BY <1>1, StartTo
    <2>2. /\ server'[s].pc = "exec" /\ server'[s].backlog = <<>> /\ server'[s].queue = <<>>
          /\ server'[s].control = NoConn /\ server'[s].ui = NoConn
          /\ \A t \in Servers \ {s} : server'[t] = server[t]
      BY <2>1 DEF ServerTo, Typed
    <2>3. Before
      BY <1>a, <1>1 DEF StartServer, Connect
    <2>4. Kept(s)' = {NoConn}
      BY <2>2 DEF Kept, ToSet
    <2>5. KeptOf(s)' /\ Minds(s)'
      BY <2>2, <2>4 DEF KeptOf, Minds
    <2>6. NotYet'
      <3>1. \A d \in Clients : Conn(d)' # NoConn
        BY DEF Conn, NoConn
      <3> QED BY <1>c, <2>2, <2>3, <3>1 DEF ConnInv, NotYet, Before, Conn
    <2>7. Answered'
      <3> SUFFICES ASSUME NEW d \in Clients, client'[d].pc = "served", NEW t \in Servers,
                          t = client'[d].srv, server'[t].pc # "off"
                   PROVE  server'[t].ui = Conn(d)' /\ server'[t].pending = "nothing"
        BY DEF Answered
      <3>1. client'[d] = client[d] /\ t # s
        BY <2>1, <2>3 DEF Before, FreePlaces
      <3> QED BY <2>2, <3>1 DEF ConnInv, Answered, Conn
    <2> QED BY <1>a, <1>c, <2>2, <2>5, <2>6, <2>7, OneChanges
  <1>2. CASE Connect(c)
    <2>0. PICK s \in Servers : s = socket
      BY <1>2, ConnectTo
    <2>1. PICK r :
            /\ ServerTo(s, r) /\ r.pc = server[s].pc
            /\ r.control = server[s].control /\ r.queue = server[s].queue
            /\ r.ui = server[s].ui /\ r.pending = server[s].pending
            /\ r.hadui = server[s].hadui
            /\ ToSet(r.backlog) \subseteq ToSet(server[s].backlog) \cup {Conn(c)}
      BY <1>2, <2>0, ConnectTo
    <2>2. server'[s] = r /\ \A t \in Servers \ {s} : server'[t] = server[t]
      BY <2>1 DEF ServerTo, Typed
    <2>3. /\ client[c].pc = "connect" /\ client'[c].pc = "connected" /\ client'[c].srv = s
          /\ client'[c].tries = client[c].tries /\ UNCHANGED sent
          /\ \A d \in Clients \ {c} : client'[d] = client[d]
      BY <1>2, <2>0 DEF Connect, Typed, ClientRecord
    <2>4. Conn(c)' = Conn(c) /\ Conn(c)[1] = c /\ Conn(c) \in Conns
      BY <2>3 DEF Conn, Conns, Typed, ClientRecord
    <2>5. Conn(c) \in Made' /\ Conn(c) \notin Made
      <3>1. Conn(c) \in Made'
        BY <2>3, <2>4 DEF Made, Connected
      <3>2. Conn(c)[2] = client[c].tries /\ client[c].tries \in Nat
        BY DEF Conn, Typed, ClientRecord
      <3> QED BY <2>3, <2>4, <3>1, <3>2 DEF Made, Connected
    <2>6. KeptOf(s)'
      <3>1. Kept(s)' \subseteq Kept(s) \cup {Conn(c)}
        BY <2>1, <2>2 DEF Kept
      <3>2. ASSUME NEW k \in Kept(s)' \ {NoConn}
            PROVE  k \in Made' /\ (k = Conn(k[1])' => client'[k[1]].srv = s)
        <4>1. CASE k = Conn(c)
          BY <2>3, <2>4, <2>5, <4>1
        <4>2. CASE k \in Kept(s)
          BY <1>a, <2>1, <3>2, <4>2, KeptStays DEF ConnInv
        <4> QED BY <3>1, <4>1, <4>2
      <3> QED BY <3>2 DEF KeptOf
    <2>7. Minds(s)'
      BY <1>a, <1>c, <2>1, <2>2, MindsStays DEF Known, Onward
    <2>8. \A t \in Servers : server'[t].ui = server[t].ui /\ server'[t].pending = server[t].pending
                             /\ server'[t].pc = server[t].pc
      BY <2>1, <2>2
    <2>9. Conn(c) \notin sent /\ \A t \in Servers : server[t].ui # Conn(c)
      <3>1. \A t \in Servers : server[t].ui \in Kept(t)
        BY DEF Kept
      <3> QED BY <2>4, <2>5, <3>1, NoConnIsNone DEF ConnInv, KeptOf
    <2>10. NotYet'
      BY <2>3, <2>4, <2>8, <2>9 DEF ConnInv, NotYet, Conn
    <2>11. Answered'
      BY <2>3, <2>8 DEF ConnInv, Answered, Conn
    <2> QED BY <1>a, <1>c, <2>1, <2>2, <2>6, <2>7, <2>10, <2>11, OneChanges
  <1>3. CASE KillServer(c) /\ ~UNCHANGED server
    <2>1. PICK s \in Servers : \E r :
            /\ client[c].pc = "served" /\ client[c].srv = s
            /\ ServerTo(s, r) /\ r.pc = server[s].pc
            /\ r.control = server[s].control /\ r.queue = server[s].queue
            /\ r.ui = server[s].ui /\ r.pending = "terminateServer"
            /\ r.hadui = server[s].hadui /\ r.backlog = server[s].backlog
      BY <1>3, KillTo
    <2>2. /\ server'[s].pc = server[s].pc /\ server'[s].control = server[s].control
          /\ server'[s].queue = server[s].queue /\ server'[s].ui = server[s].ui
          /\ server'[s].pending = "terminateServer"
          /\ server'[s].hadui = server[s].hadui /\ server'[s].backlog = server[s].backlog
          /\ \A t \in Servers \ {s} : server'[t] = server[t]
      BY <2>1 DEF ServerTo, Typed
    <2>3. Before /\ client'[c].pc = "killing"
      <3>1. Goes(c, "killing") /\ client[c].pc # "connect"
        BY <1>3 DEF KillServer
      <3>2. client'[c].pc = "killing"
        BY <3>1, GoesTo DEF ClientTo, ClientPcs
      <3> QED BY <1>a, <3>1, <3>2 DEF Connect
    <2>4. Kept(s)' = Kept(s)
      BY <2>2 DEF Kept
    <2>5. KeptOf(s)'
      BY <1>a, <2>4, KeptSub
    <2>6. Minds(s)'
      BY <1>a, <1>c, <2>2, MindsStays DEF Known, Onward
    <2>7. \A t \in Servers : server'[t].ui = server[t].ui /\ server'[t].pc = server[t].pc
      BY <2>2
    <2>8. NotYet'
      BY <1>c, <2>3, <2>7 DEF ConnInv, NotYet, Before, Conn
    <2>9. Answered'
      <3> SUFFICES ASSUME NEW d \in Clients, client'[d].pc = "served", NEW t \in Servers,
                          t = client'[d].srv, server'[t].pc # "off"
                   PROVE  server'[t].ui = Conn(d)' /\ server'[t].pending = "nothing"
        BY DEF Answered
      <3>1. client'[d] = client[d] /\ d # c
        BY <2>3 DEF Before
      <3>2. server[t].ui = Conn(d) /\ server[t].pending = "nothing" /\ Conn(d)' = Conn(d)
        BY <2>7, <3>1 DEF ConnInv, Answered, Conn
      <3>3. t # s
        <4> SUFFICES ASSUME t = s PROVE FALSE
          OBVIOUS
        <4>1. server[s].ui = Conn(c)
          BY <2>1, <2>7 DEF ConnInv, Answered
        <4> QED BY <3>1, <3>2, <4>1 DEF Conn
      <3> QED BY <2>2, <3>2, <3>3
    <2> QED BY <1>a, <1>c, <2>2, <2>5, <2>6, <2>8, <2>9, OneChanges
  <1>4. CASE ~StartServer(c) /\ ~Connect(c) /\ (KillServer(c) => UNCHANGED server)
    <2>1. \A t \in Servers : (server'[t] = server[t] \/ Quiet(t, server'[t])) /\ Onward(t)
      <3>1. CASE UNCHANGED server
        BY <3>1 DEF Onward
      <3>2. CASE ServerStarted(c) /\ ~UNCHANGED server
        <4>1. PICK s \in Servers : \E r :
                ServerTo(s, r) /\ Quiet(s, r) /\ r.pc = server[s].pc
          BY <3>2, StartedTo
        <4>2. /\ Quiet(s, server'[s]) /\ server'[s].pc = server[s].pc
              /\ \A t \in Servers \ {s} : server'[t] = server[t]
          BY <4>1 DEF ServerTo, Typed
        <4> QED BY <4>2 DEF Onward
      <3> QED BY <1>4, <3>1, <3>2
          DEF ClientStep, TryLock, NoLock, Poll, StopPolling, GiveBack, CloseLock,
              ServerNotStarted, NotConnected, SendFds, ConnectionEnds, Leave, Killed
    <2> QED BY <1>a, <1>c, <1>4, <2>1, AllQuiet
  <1> QED BY <1>1, <1>2, <1>3, <1>4

\* The server hears the end of its connection only when the client has left it.
LEMMA NotServedAnyMore ==
  ASSUME Typed, ConnInv, NEW s \in Servers,
         \/ Control(s) /\ server[s].control \notin sent
         \/ Command(s) /\ server[s].pending = "nothing"
  PROVE  ~IsOpen(s, server[s].ui)
  BY DEF ConnInv, Minds, Control, Command, IsOpen

\* A step of s that is no step of a client keeps who is answered, if s does.
LEMMA ServedByOthers ==
  ASSUME ConnInv, UNCHANGED client, NEW s \in Servers,
         \A t \in Servers \ {s} : server'[t] = server[t],
         \A c \in Clients : client[c].pc = "served" /\ client[c].srv = s /\ server'[s].pc # "off" =>
           server'[s].ui = Conn(c) /\ server'[s].pending = "nothing"
  PROVE  Answered'
  BY DEF ConnInv, Answered, Conn

LEMMA NotYetByOthers ==
  ASSUME ConnInv, UNCHANGED client, NEW s \in Servers, sent' \subseteq sent,
         \A t \in Servers \ {s} : server'[t] = server[t],
         server'[s].ui \in {server[s].ui, NoConn} \cup sent
  PROVE  NotYet'
  BY DEF ConnInv, NotYet, Conn, NoConn

LEMMA EndsKeepsConn ==
  ASSUME Typed, Typed', ConnInv, NEW s \in Servers, Ends(s), UNCHANGED client
  PROVE  ConnInv'
  <1>a. Advance /\ Made \subseteq Made'
    BY NoStepAdvances, MadeStays
  <1>1. /\ server'[s].pc = "off" /\ server'[s].backlog = <<>> /\ server'[s].queue = <<>>
        /\ server'[s].control = NoConn /\ server'[s].ui = NoConn
        /\ \A t \in Servers \ {s} : server'[t] = server[t]
    BY EndsTo DEF ServerTo, Typed
  <1>2. sent' = sent \ Kept(s)
    BY DEF Ends
  <1>3. \A t \in Servers \ {s} : SentFor(t)
    BY <1>a, <1>2, OneServes
  <1>4. Kept(s)' = {NoConn}
    BY <1>1 DEF Kept, ToSet
  <1>5. KeptOf(s)' /\ Minds(s)'
    BY <1>1, <1>4 DEF KeptOf, Minds
  <1>6. NotYet'
    BY <1>1, <1>2, NotYetByOthers
  <1>7. Answered'
    BY <1>1, ServedByOthers
  <1> QED BY <1>a, <1>1, <1>2, <1>3, <1>5, <1>6, <1>7, OneChanges DEF ConnInv

LEMMA DisconnectedKeepsConn ==
  ASSUME Typed, Typed', ConnInv, NEW s \in Servers, NEW stuck \in BOOLEAN,
         Disconnected(s, stuck), UNCHANGED <<client, sent>>, ~IsOpen(s, server[s].ui),
         server[s].pc # "off"
  PROVE  ConnInv'
  <1>a. Advance /\ Made \subseteq Made'
    BY NoStepAdvances, MadeStays
  <1>1. /\ server'[s].pc = "loop" /\ server'[s].ui = NoConn
        /\ server'[s].control \in ToSet(server[s].queue) \cup {NoConn}
        /\ server'[s].backlog = server[s].backlog
        /\ ToSet(server'[s].queue) \subseteq ToSet(server[s].queue)
        /\ \A t \in Servers \ {s} : server'[t] = server[t]
    BY DisconnectedTo DEF ServerTo, Typed
  <1>2. \A t \in Servers : SentFor(t)
    BY DEF SentFor
  <1>3. Kept(s)' \subseteq Kept(s) \cup {NoConn}
    BY <1>1 DEF Kept
  <1>4. KeptOf(s)'
    BY <1>a, <1>3, KeptSub
  <1>5. Minds(s)'
    BY <1>1 DEF Minds
  <1>6. NotYet'
    BY <1>1, NotYetByOthers
  <1>7. Answered'
    <2>1. \A c \in Clients : ~(client[c].pc = "served" /\ client[c].srv = s)
      <3> SUFFICES ASSUME NEW c \in Clients, client[c].pc = "served", client[c].srv = s
                   PROVE  FALSE
        OBVIOUS
      <3>1. server[s].ui = Conn(c) /\ Conn(c)[1] = c /\ Conn(c) # NoConn
        BY NoConnIsNone DEF ConnInv, Answered, Conn, NoConn
      <3> QED BY <3>1 DEF IsOpen, Connected
    <2> QED BY <1>1, <2>1, ServedByOthers
  <1> QED BY <1>a, <1>1, <1>2, <1>4, <1>5, <1>6, <1>7, OneChanges DEF ConnInv

\* A step by which the servers keep what they have.
LEMMA QuietKeepsConn ==
  ASSUME Typed, Typed', ConnInv, UNCHANGED <<client, sent>>, NEW s \in Servers,
         \/ UNCHANGED server
         \/ Bind(s) \/ Listen(s) \/ Started(s) \/ TimedOut(s) \/ ReleaseLock(s)
         \/ IdleThreadDies(s) \/ (Relock(s) /\ Moves(s, "relocked"))
  PROVE  ConnInv'
  <1>a. Advance /\ Before /\ Made \subseteq Made'
    BY NoStepAdvances, MadeStays
  <1>1. \A t \in Servers : SentFor(t)
    BY DEF SentFor
  <1>2. \A t \in Servers : (server'[t] = server[t] \/ Quiet(t, server'[t])) /\ Onward(t)
    <2>1. CASE UNCHANGED server
      BY <2>1 DEF Onward
    <2>2. CASE ~UNCHANGED server
      <3>1. PICK r :
              /\ ServerTo(s, r) /\ Quiet(s, r)
              /\ \/ server[s].pc = "exec" /\ r.pc = "bound"
                 \/ server[s].pc = "bound" /\ r.pc = "listening"
                 \/ server[s].pc = "listening" /\ r.pc = "loop"
                 \/ server[s].pc = "closed" /\ r.pc = "released"
                 \/ server[s].pc = "released" /\ r.pc = "relocked"
                 \/ server[s].pc \in {"loop", "control", "command"} /\ r.pc = server[s].pc
        BY <2>2, QuietTo
      <3>2. server'[s] = r /\ \A t \in Servers \ {s} : server'[t] = server[t]
        BY <3>1 DEF ServerTo, Typed
      <3> QED BY <3>1, <3>2 DEF Onward
    <2> QED BY <2>1, <2>2
  <1>3. sent' \subseteq Made'
    BY <1>a DEF ConnInv
  <1> QED BY <1>a, <1>1, <1>2, <1>3, AllQuiet

LEMMA ServerKeepsConn ==
  ASSUME Typed, Typed', ConnInv, NEW s \in Servers, ServerStep(s)
  PROVE  ConnInv'
  <1>0. Minds(s) /\ KeptOf(s)
    BY DEF ConnInv
  <1>1. CASE \/ Bind(s) \/ Listen(s) \/ Started(s) \/ TimedOut(s) \/ ReleaseLock(s)
             \/ (Relock(s) /\ (UNCHANGED server \/ Moves(s, "relocked")) /\ UNCHANGED sent)
             \/ (RemoveLock(s) /\ UNCHANGED <<server, sent>>)
    <2>1. UNCHANGED <<client, sent>>
      BY <1>1 DEF Bind, Listen, Started, TimedOut, ReleaseLock, Relock, RemoveLock
    <2> QED BY <1>1, <2>1, QuietKeepsConn
  <1>2. CASE (LockFileGone(s) \/ Relock(s) \/ RemoveLock(s)) /\ Ends(s)
    <2>1. UNCHANGED client
      BY <1>2 DEF LockFileGone, Relock, RemoveLock
    <2> QED BY <1>2, <2>1, EndsKeepsConn
  <1>3. CASE Select(s)
    <2>a. UNCHANGED <<client, sent>> /\ Advance /\ Made \subseteq Made' /\ server[s].pc = "loop"
      BY <1>3, NoStepAdvances, MadeStays DEF Select
    <2>1. PICK ready \in SUBSET Readable(s) :
           /\ server'[s].pc = Then(ready)
           /\ server'[s].pc \in {"loop", "control", "command"}
           /\ server'[s].ui = server[s].ui /\ server'[s].pending = server[s].pending
           /\ server'[s].hadui = server[s].hadui
           /\ server[s].control # NoConn => server'[s].control = server[s].control
           /\ server'[s].control \in ToSet(server[s].backlog) \cup {server[s].control}
           /\ ToSet(server'[s].backlog) \subseteq ToSet(server[s].backlog)
           /\ ToSet(server'[s].queue) \subseteq ToSet(server[s].backlog) \cup ToSet(server[s].queue)
           /\ \A t \in Servers \ {s} : server'[t] = server[t]
      BY <1>3, SelectTo DEF ServerTo, Typed
    <2>2. \A t \in Servers : SentFor(t)
      BY <2>a DEF SentFor
    <2>3. Kept(s)' \subseteq Kept(s) \cup {NoConn}
      BY <2>1 DEF Kept
    <2>4. KeptOf(s)'
      BY <2>a, <2>3, KeptSub
    <2>5. Minds(s)'
      <3>1. server'[s].ui # NoConn =>
              /\ server'[s].ui = server'[s].control /\ server'[s].ui \notin sent'
              /\ server'[s].hadui
        BY <1>0, <2>a, <2>1 DEF Minds
      <3>2. ASSUME server'[s].pc = "control", server'[s].control \notin sent'
            PROVE  ~IsOpen(s, server[s].control)' /\ server'[s].control = server[s].control
        <4>1. "controllersock" \in Readable(s)
          BY <2>1, <3>2 DEF Then
        <4>2. server[s].control # NoConn /\ (server[s].control \in sent \/ ~IsOpen(s, server[s].control))
          BY <4>1 DEF Readable
        <4> QED BY <2>a, <2>1, <3>2, <4>2 DEF IsOpen, Conn
      <3>3. ASSUME server'[s].pc = "command", server'[s].pending = "nothing"
            PROVE  ~IsOpen(s, server[s].ui)'
        <4>1. "command_channel" \in Readable(s)
          BY <2>1, <3>3 DEF Then
        <4>2. ~IsOpen(s, server[s].ui)
          BY <2>1, <3>3, <4>1 DEF Readable
        <4> QED BY <2>a, <2>1, <4>2 DEF IsOpen, Conn
      <3> QED BY <3>1, <3>2, <3>3 DEF Minds
    <2>6. NotYet'
      BY <2>a, <2>1, NotYetByOthers
    <2>7. Answered'
      <3>1. \A c \in Clients : client[c].pc = "served" /\ client[c].srv = s =>
              server[s].ui = Conn(c) /\ server[s].pending = "nothing"
        BY <2>a DEF ConnInv, Answered
      <3> QED BY <2>a, <2>1, <3>1, ServedByOthers
    <2> QED BY <2>a, <2>1, <2>2, <2>4, <2>5, <2>6, <2>7, OneChanges DEF ConnInv
  <1>4. CASE Control(s) /\ server[s].control \in sent
    <2>a. /\ UNCHANGED client /\ Advance /\ Made \subseteq Made' /\ server[s].pc = "control"
          /\ sent' = sent \ {server[s].control}
      BY <1>4, NoStepAdvances, MadeStays DEF Control
    <2>1. /\ server'[s].pc \in {"loop", "command"}
          /\ server'[s].ui = server[s].control /\ server'[s].pending = "setFeatures"
          /\ server'[s].hadui = TRUE /\ server'[s].control = server[s].control
          /\ server'[s].backlog = server[s].backlog /\ server'[s].queue = server[s].queue
          /\ \A t \in Servers \ {s} : server'[t] = server[t]
      BY <1>4, ReceivedTo DEF ServerTo, Typed
    <2>2. \A t \in Servers \ {s} : SentFor(t)
      <3>1. server[s].control \in Kept(s)
        BY DEF Kept
      <3> QED BY <2>a, <3>1, OneServes
    <2>3. Kept(s)' \subseteq Kept(s) \cup {NoConn}
      BY <2>1 DEF Kept
    <2>4. KeptOf(s)'
      BY <2>a, <2>3, KeptSub
    <2>5. Minds(s)'
      BY <2>a, <2>1 DEF Minds
    <2>6. NotYet'
      BY <1>4, <2>a, <2>1, NotYetByOthers
    <2>7. Answered'
      <3>1. \A c \in Clients : ~(client[c].pc = "served" /\ client[c].srv = s)
        <4> SUFFICES ASSUME NEW c \in Clients, client[c].pc = "served", client[c].srv = s
                     PROVE  FALSE
          OBVIOUS
        <4>1. server[s].ui = Conn(c) /\ Conn(c) # NoConn
          BY <2>a DEF ConnInv, Answered, Conn, NoConn
        <4> QED BY <1>0, <1>4, <2>a, <4>1 DEF Minds
      <3> QED BY <2>a, <2>1, <3>1, ServedByOthers
    <2> QED BY <2>a, <2>1, <2>2, <2>4, <2>5, <2>6, <2>7, OneChanges DEF ConnInv
  <1>5. CASE \/ Control(s) /\ server[s].control \notin sent
             \/ Command(s) /\ server[s].pending = "nothing"
    <2>1. /\ \E stuck \in BOOLEAN : Disconnected(s, stuck)
          /\ UNCHANGED <<client, sent>> /\ server[s].pc # "off"
      BY <1>5 DEF Control, Command
    <2>2. ~IsOpen(s, server[s].ui)
      BY <1>5, NotServedAnyMore
    <2> QED BY <2>1, <2>2, DisconnectedKeepsConn
  <1>6. CASE Command(s) /\ server[s].pending # "nothing"
    <2>a. UNCHANGED sent /\ server[s].pc = "command"
      BY <1>6 DEF Command
    <2>b. /\ server'[s].pc = "loop"
          /\ server'[s].backlog = server[s].backlog /\ server'[s].control = server[s].control
          /\ server'[s].queue = server[s].queue /\ server'[s].ui = server[s].ui
          /\ server'[s].hadui = server[s].hadui
          /\ \/ server[s].pending = "setFeatures" /\ server'[s].pending = "nothing"
             \/ server[s].pending = "terminateServer" /\ server'[s].pending = server[s].pending
          /\ \A t \in Servers \ {s} : server'[t] = server[t]
      BY <1>6, CommandTo DEF ServerTo, Typed
    <2>c. \A t \in Servers : SentFor(t)
      BY <2>a DEF SentFor
    <2>d. Kept(s)' \subseteq Kept(s) \cup {NoConn}
      BY <2>b DEF Kept
    <2>e. Minds(s)'
      BY <1>0, <2>a, <2>b DEF Minds
    <2>f. \A c \in Clients : ~(client[c].pc = "served" /\ client[c].srv = s)
      BY <1>6, <2>a DEF ConnInv, Answered
    <2>1. CASE UNCHANGED client
      <3>1. Advance /\ Made \subseteq Made'
        BY <2>1, NoStepAdvances, MadeStays
      <3>2. KeptOf(s)'
        BY <2>d, <3>1, KeptSub
      <3>3. NotYet'
        BY <2>1, <2>a, <2>b, NotYetByOthers
      <3>4. Answered'
        BY <2>1, <2>b, <2>f, ServedByOthers
      <3> QED BY <2>a, <2>b, <2>c, <2>e, <3>1, <3>2, <3>3, <3>4, OneChanges DEF ConnInv
    <2>2. CASE ~UNCHANGED client
      <3>0. PICK c \in Clients :
              /\ server[s].ui = Conn(c)
              /\ server[s].pending = "setFeatures"
              /\ client[c].srv = s /\ client[c].pc \in Connected
              /\ ClientTo(c, "served", client[c].tries, s)
        BY <1>6, <2>2, AnswersTo
      <3>1. Advance
        BY <3>0 DEF Advance, ClientTo, Connected
      <3>2. Made \subseteq Made'
        BY <3>1, MadeStays
      <3>3. KeptOf(s)'
        BY <2>d, <3>1, KeptSub
      <3>4. NotYet'
        BY <2>a, <2>b, <3>0 DEF ConnInv, NotYet, ClientTo, Conn
      <3>5. Answered'
        <4> SUFFICES ASSUME NEW d \in Clients, client'[d].pc = "served", NEW t \in Servers,
                            t = client'[d].srv, server'[t].pc # "off"
                     PROVE  server'[t].ui = Conn(d)' /\ server'[t].pending = "nothing"
          BY DEF Answered
        <4>1. CASE d = c
          BY <2>b, <3>0, <4>1 DEF ClientTo, Conn
        <4>2. CASE d # c
          <5>1. client'[d] = client[d] /\ t # s
            BY <2>f, <3>0, <4>2 DEF ClientTo
          <5> QED BY <2>b, <5>1 DEF ConnInv, Answered, Conn
        <4> QED BY <4>1, <4>2
      <3> QED BY <2>a, <2>b, <2>c, <2>e, <3>1, <3>2, <3>3, <3>4, <3>5, OneChanges DEF ConnInv
    <2> QED BY <2>1, <2>2
  <1>7. CASE UnlinkSocket(s)
    <2>a. /\ UNCHANGED client /\ Advance /\ Made \subseteq Made' /\ server[s].pc = "loop"
          /\ sent' = sent \ ToSet(server[s].backlog)
      BY <1>7, NoStepAdvances, MadeStays DEF UnlinkSocket
    <2>1. /\ server'[s].pc = "closed"
          /\ server'[s].ui = server[s].ui /\ server'[s].control = server[s].control
          /\ server'[s].pending = "nothing" /\ server'[s].backlog = <<>>
          /\ server'[s].queue = server[s].queue
          /\ \A t \in Servers \ {s} : server'[t] = server[t]
      BY <1>7, UnlinkSocketTo DEF ServerTo, Typed
    <2>2. \A t \in Servers \ {s} : SentFor(t)
      <3>1. ToSet(server[s].backlog) \subseteq Kept(s)
        BY DEF Kept
      <3> QED BY <2>a, <3>1, OneServes
    <2>3. Kept(s)' \subseteq Kept(s) \cup {NoConn}
      BY <2>1 DEF Kept, ToSet
    <2>4. KeptOf(s)'
      BY <2>a, <2>3, KeptSub
    <2>5. Minds(s)'
      BY <1>0, <2>a, <2>1 DEF Minds
    <2>6. NotYet'
      BY <2>a, <2>1, NotYetByOthers
    <2>7. Answered'
      <3>1. \A c \in Clients : client[c].pc = "served" /\ client[c].srv = s =>
              server[s].ui = Conn(c)
        BY <2>a DEF ConnInv, Answered
      <3> QED BY <2>a, <2>1, <3>1, ServedByOthers
    <2> QED BY <2>a, <2>1, <2>2, <2>4, <2>5, <2>6, <2>7, OneChanges DEF ConnInv
  <1>8. \/ UNCHANGED <<server, sent>> \/ Ends(s) \/ ~RemoveLock(s)
    BY DEF RemoveLock
  <1>9. Relock(s) => \/ (UNCHANGED server \/ Moves(s, "relocked")) /\ UNCHANGED sent
                     \/ Ends(s)
    BY DEF Relock
  <1>10. LockFileGone(s) => Ends(s)
    BY DEF LockFileGone
  <1> QED BY <1>1, <1>2, <1>3, <1>4, <1>5, <1>6, <1>7, <1>8, <1>9, <1>10 DEF ServerStep

LEMMA FaultKeepsConn ==
  ASSUME Typed, Typed', ConnInv, Fault
  PROVE  ConnInv'
  <1>1. ASSUME NEW s \in Servers, KillProcess(s) PROVE ConnInv'
    BY <1>1, EndsKeepsConn DEF KillProcess
  <1>2. ASSUME NEW s \in Servers, IdleThreadDies(s) PROVE ConnInv'
    <2>1. UNCHANGED <<client, sent>>
      BY <1>2 DEF IdleThreadDies
    <2> QED BY <1>2, <2>1, QuietKeepsConn
  <1>3. ASSUME NEW c \in Clients, KillClient(c) \/ TooSlow(c) PROVE ConnInv'
    <2>1. UNCHANGED <<server, sent>> /\ GivesUp(c)
      BY <1>3, SettlesGivesUp, AgainGivesUp DEF KillClient, TooSlow, Settled
    <2>2. Advance /\ Made \subseteq Made'
      BY <2>1, ClientAdvances, MadeStays
    <2>3. Before
      BY <2>1 DEF GivesUp, ClientTo, Before, Settled
    <2>4. \A t \in Servers : server'[t] = server[t] /\ Onward(t) /\ SentFor(t)
      BY <2>1 DEF Onward, SentFor
    <2>5. sent' \subseteq Made'
      BY <2>1, <2>2 DEF ConnInv
    <2> QED BY <2>1, <2>2, <2>3, <2>4, <2>5, AllQuiet
  <1> QED BY <1>1, <1>2, <1>3 DEF Fault

LEMMA InitConn ==
  ASSUME Init
  PROVE  ConnInv
  <1>1. \A c \in Clients : client[c].pc = "lock"
    BY DEF Init, NewClient
  <1>2. \A s \in Servers :
          /\ server[s].pc = "off" /\ server[s].backlog = <<>> /\ server[s].queue = <<>>
          /\ server[s].control = NoConn /\ server[s].ui = NoConn
    BY DEF Init, NoServer
  <1>3. \A s \in Servers : Kept(s) = {NoConn}
    BY <1>2 DEF Kept, ToSet
  <1>4. \A s \in Servers : KeptOf(s) /\ Minds(s)
    BY <1>2, <1>3 DEF KeptOf, Minds
  <1>5. NotYet /\ Answered
    BY <1>1 DEF NotYet, Answered
  <1>6. sent \subseteq Made
    BY DEF Init
  <1> QED BY <1>4, <1>5, <1>6 DEF ConnInv

ConnsKept == Typed /\ ConnInv

LEMMA ConnsAreKept == Spec => []ConnsKept
  <1>1. Init => ConnsKept
    BY InitTyped, InitConn DEF ConnsKept
  <1>2. ConnsKept /\ [Next]_vars => ConnsKept'
    <2> SUFFICES ASSUME ConnsKept, [Next]_vars PROVE ConnsKept'
      OBVIOUS
    <2>1. CASE Next
      BY <2>1, TypedStep, FaultKeepsConn, ClientKeepsConn, ServerKeepsConn DEF Next, ConnsKept
    <2>2. CASE UNCHANGED vars
      <3>1. Typed'
        BY <2>2 DEF vars, ConnsKept, Typed
      <3>2. Advance /\ Before /\ Made \subseteq Made'
        BY <2>2, <3>1, NoStepAdvances, MadeStays DEF vars, ConnsKept
      <3>3. \A t \in Servers : server'[t] = server[t] /\ Onward(t) /\ SentFor(t)
        BY <2>2 DEF vars, Onward, SentFor
      <3>4. sent' \subseteq Made' /\ UNCHANGED sent
        BY <2>2, <3>2 DEF vars, ConnsKept, ConnInv
      <3> QED BY <3>1, <3>2, <3>3, <3>4, AllQuiet DEF ConnsKept
    <2> QED BY <2>1, <2>2
  <1> QED BY <1>1, <1>2, PTL DEF Spec

\* A client that was answered is the one the server takes commands from,
\* although connections of attempts that were given up are still queued, taken
\* up and dropped by the server, newest first.  (process.py:184-303)
THEOREM AnsweredIsServed == Spec => []ServedByServer
  <1>1. ConnsKept => ServedByServer
    <2> SUFFICES ASSUME ConnsKept, NEW c \in Clients,
                        client[c].pc = "served", server[client[c].srv].pc # "off"
                 PROVE  server[client[c].srv].ui = Conn(c)
      BY DEF ServedByServer
    <2>1. client[c].srv \in Servers
      BY DEF ConnsKept, Typed, Connected
    <2> QED BY <2>1 DEF ConnsKept, ConnInv, Answered
  <1> QED BY <1>1, ConnsAreKept, PTL

\* The steps that make a server decide to end.
LEMMA DecidesToEnd ==
  ASSUME Typed, ConnInv, Next, NEW s \in Servers,
         ~server[s].quit, server'[s].quit, IsOpen(s, server[s].ui)
  PROVE  server[s].pending = "terminateServer" \/ faults' > faults
  <1>0. Minds(s) /\ server[s].ui # NoConn
    BY DEF ConnInv, IsOpen
  <1>1. CASE Fault
    BY <1>1 DEF Fault, Typed
  <1>2. ASSUME NEW c \in Clients, ClientStep(c) PROVE FALSE
    <2>1. CASE StartServer(c)
      <3>1. PICK t \in Servers : \E r : ServerTo(t, r) /\ r.quit = FALSE
        BY <2>1, StartTo
      <3> QED BY <3>1 DEF ServerTo, Typed
    <2>2. CASE ServerStarted(c) /\ ~UNCHANGED server
      <3>1. PICK t \in Servers : \E r : ServerTo(t, r) /\ r.quit = server[t].quit
        BY <2>2, StartedTo
      <3> QED BY <3>1 DEF ServerTo, Typed
    <2>3. CASE Connect(c)
      BY <2>3, ConnectTo DEF ServerTo, Typed
    <2>4. CASE KillServer(c) /\ ~UNCHANGED server
      <3>1. PICK t \in Servers : \E r : ServerTo(t, r) /\ r.quit = server[t].quit
        BY <2>4, KillTo
      <3> QED BY <3>1 DEF ServerTo, Typed
    <2>5. CASE UNCHANGED server
      BY <2>5
    <2> QED BY <1>2, <2>1, <2>2, <2>3, <2>4, <2>5
        DEF ClientStep, TryLock, NoLock, Poll, StopPolling, GiveBack, CloseLock,
            ServerNotStarted, NotConnected, SendFds, ConnectionEnds, Leave, Killed
  <1>3. ASSUME NEW t \in Servers, ServerStep(t) PROVE server[s].pending = "terminateServer"
    <2>1. t = s
      BY <1>3, ServerPath
    <2>2. CASE TimedOut(s)
      BY <1>0, <2>2 DEF TimedOut, Minds
    <2>3. CASE Bind(s) \/ Listen(s) \/ Started(s) \/ ReleaseLock(s)
      <3>1. ~TimedOut(s) /\ ~IdleThreadDies(s)
        BY <2>3 DEF Bind, Listen, Started, ReleaseLock, TimedOut, IdleThreadDies
      <3> QED BY <2>3, <3>1, QuietTo DEF ServerTo, Typed
    <2>4. CASE Select(s)
      BY <2>4, SelectTo DEF ServerTo, Typed
    <2>5. CASE Control(s)
      <3>1. server[s].control \in sent
        BY <2>5, NotServedAnyMore
      <3> QED BY <2>5, <3>1, ReceivedTo DEF ServerTo, Typed
    <2>6. CASE Command(s)
      <3>1. server[s].pending # "nothing"
        BY <2>6, NotServedAnyMore
      <3> QED BY <2>6, <3>1, CommandTo DEF ServerTo, Typed
    <2>7. CASE UnlinkSocket(s)
      BY <2>7, UnlinkSocketTo DEF ServerTo, Typed
    <2>8. CASE LockFileGone(s) \/ Relock(s) \/ RemoveLock(s)
      <3>1. Ends(s) => server'[s].quit = FALSE
        BY EndsTo DEF ServerTo, Typed
      <3>2. Moves(s, "relocked") => server'[s].quit = server[s].quit
        BY MovesTo DEF ServerTo, Typed, ServerPcs
      <3> QED BY <2>8, <3>1, <3>2 DEF LockFileGone, Relock, RemoveLock
    <2> QED BY <1>3, <2>1, <2>2, <2>3, <2>4, <2>5, <2>6, <2>7, <2>8 DEF ServerStep
  <1> QED BY <1>1, <1>2, <1>3 DEF Next

\* A server that has a client does not decide to end, unless that client says
\* so or a fault ends it: neither the timeouts nor connections that break up
\* take it from the client.  (process.py:202-231, 271-281)
THEOREM ClientIsKept == Spec => KeepsClient
  <1>1. ConnsKept /\ [Next]_vars =>
          [\A s \in Servers :
             ~server[s].quit /\ server'[s].quit /\ IsOpen(s, server[s].ui)
               => server[s].pending = "terminateServer" \/ faults' > faults]_vars
    <2> SUFFICES ASSUME ConnsKept, Next, NEW s \in Servers,
                        ~server[s].quit, server'[s].quit, IsOpen(s, server[s].ui)
                 PROVE  server[s].pending = "terminateServer" \/ faults' > faults
      OBVIOUS
    <2> QED BY DecidesToEnd DEF ConnsKept
  <1> QED BY <1>1, ConnsAreKept, PTL DEF Spec, KeepsClient
=============================================================================
