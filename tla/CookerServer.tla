---------------------------- MODULE CookerServer ----------------------------
(***************************************************************************)
(* The bitbake server process (lib/bb/server/process.py), the clients that *)
(* connect to it or start it (setup_bitbake in lib/bb/main.py), and the    *)
(* lock file and the socket file by which they find each other.  Commands  *)
(* are left out except the first one of a client (setFeatures) and         *)
(* terminateServer; the xmlrpc server is not used.                         *)
(***************************************************************************)
EXTENDS LockFile, Sequences, SequencesExt

CONSTANTS
  Clients, Servers,    \* Servers: places for server processes, used again
  Retries,             \* attempts of each client, 8 in the code
  Backlog,             \* connections that listen(1) keeps
  Timeouts,            \* "none": ends with its last client, "some", "never"
  MaxFaults            \* bound: processes that are killed

ASSUME ProcsAssumption == Procs = Clients \cup Servers /\ Clients \cap Servers = {}

ASSUME RetriesAssumption == Retries \in [Clients -> Nat \ {0}]

VARIABLES
  socket,     \* the server whose socket file is on disk
  client,     \* [pc, tries, srv, poll]
  server,     \* [pc, quit, said, backlog, control, queue, ui, pending, ready, hadui]
  sent,       \* connections over which file descriptors are on their way
  timeout,    \* self.timeout of every server of this build directory
  faults

vars == <<lockvars, socket, client, server, sent, timeout, faults>>

NoConn == <<>>
Conns == Clients \X Nat

NewClient(n) == [pc |-> "lock", tries |-> n, srv |-> None, poll |-> FALSE]

\* A process that is not there, with no connection left.
NoServer ==
  [pc |-> "off", quit |-> FALSE, said |-> FALSE, backlog |-> <<>>, control |-> NoConn,
   queue |-> <<>>, ui |-> NoConn, pending |-> "nothing", ready |-> {}, hadui |-> FALSE]

Init ==
  /\ LockInit /\ disk = None
  /\ socket = None
  /\ client = [c \in Clients |-> NewClient(Retries[c])]
  /\ server = [s \in Servers |-> NoServer]
  /\ sent = {}
  /\ timeout \in Timeouts
  /\ faults = 0

-----------------------------------------------------------------------------
(* Connections *)

\* The connection of the client's present attempt.
Conn(c) == <<c, client[c].tries>>

Connected == {"connected", "waiting", "served", "killing"}

\* The client still has its end of connection k open.
IsOpen(s, k) ==
  k # NoConn /\ k = Conn(k[1]) /\ client[k[1]].srv = s /\ client[k[1]].pc \in Connected

Kept(s) ==
  ToSet(server[s].backlog) \cup ToSet(server[s].queue) \cup {server[s].control, server[s].ui}

\* The server has closed its end, or is gone.
Dropped(c) == Conn(c) \notin Kept(client[c].srv)

Goes(c, pc) == client' = [client EXCEPT ![c].pc = pc]
Moves(s, pc) == server' = [server EXCEPT ![s].pc = pc]

Settles(c, pc) == client' = [client EXCEPT ![c] = [NewClient(0) EXCEPT !.pc = pc]]

\* except (Exception, ...): one attempt less, and a new one from the start.
Again(c) ==
  LET left == client[c].tries - 1
  IN IF left = 0 THEN Settles(c, "failed")
                 ELSE client' = [client EXCEPT ![c] = NewClient(left)]

-----------------------------------------------------------------------------
(* Clients: setup_bitbake *)

\* lockBitbake()
TryLock(c) ==
  /\ client[c].pc = "lock"
  /\ \/ Open(c) /\ UNCHANGED client
     \/ Acquire(c) /\ Goes(c, "locked")
     \/ (Refused(c) \/ Stale(c)) /\ Goes(c, "nolock")
  /\ UNCHANGED <<socket, server, sent, timeout, faults>>

\* A server runs, or one is shutting down: the client connects if there is a
\* socket, and otherwise waits for the lock.
NoLock(c) ==
  /\ client[c].pc = "nolock" /\ ~client[c].poll
  /\ client' = IF socket # None THEN [client EXCEPT ![c].pc = "connect"]
                                ELSE [client EXCEPT ![c].poll = TRUE, ![c].pc = "lock"]
  /\ UNCHANGED <<lockvars, socket, server, sent, timeout, faults>>

Poll(c) ==
  /\ client[c].pc = "nolock" /\ client[c].poll
  /\ Goes(c, "lock")
  /\ UNCHANGED <<lockvars, socket, server, sent, timeout, faults>>

\* 50 times at most.
StopPolling(c) ==
  /\ client[c].pc = "nolock" /\ client[c].poll
  /\ Again(c)
  /\ UNCHANGED <<lockvars, socket, server, sent, timeout, faults>>

\* The lock was free at last: it is given back and the client starts again.
GiveBack(c) ==
  /\ client[c].pc = "locked" /\ client[c].poll
  /\ \/ Unlink(c) /\ UNCHANGED client
     \/ Unlock(c) /\ Again(c)
  /\ UNCHANGED <<socket, server, sent, timeout, faults>>

FreePlaces == {s \in Servers : /\ server[s].pc = "off" /\ at[s] = "out" /\ socket # s
                               /\ \A c \in Clients : client[c].srv # s}

\* BitBakeServer.__init__: the daemon keeps the client's lock.
StartServer(c) ==
  /\ client[c].pc = "locked" /\ ~client[c].poll
  /\ FreePlaces # {}
  /\ LET s == CHOOSE s \in FreePlaces : TRUE
     IN /\ Share(c, s)
        /\ client' = [client EXCEPT ![c].pc = "forked", ![c].srv = s]
        /\ server' = [server EXCEPT ![s] = [NoServer EXCEPT !.pc = "exec"]]
  /\ UNCHANGED <<socket, sent, timeout, faults>>

RemoveLockOfServer(c) ==      \* mutant: unlockfile(), not close()
  /\ client[c].pc = "forked"
  /\ disk' = None /\ Forget(c)
  /\ Goes(c, "starting")
  /\ UNCHANGED <<socket, server, sent, timeout, faults>>

CloseLock(c) ==
  /\ client[c].pc = "forked"
  /\ Close(c)
  /\ Goes(c, "starting")
  /\ UNCHANGED <<socket, server, sent, timeout, faults>>

\* "r" on the ready pipe, or its end.
ServerStarted(c) ==
  /\ client[c].pc = "starting"
  /\ server[client[c].srv].said
  /\ client' = [client EXCEPT ![c].pc = "connect", ![c].srv = None]
  /\ server' = [server EXCEPT ![client[c].srv].said = FALSE]
  /\ UNCHANGED <<lockvars, socket, sent, timeout, faults>>

ServerNotStarted(c) ==
  /\ client[c].pc = "starting"
  /\ server[client[c].srv].pc = "off" /\ ~server[client[c].srv].said
  /\ Again(c)
  /\ UNCHANGED <<lockvars, socket, server, sent, timeout, faults>>

Listening == {"listening", "loop", "control", "command"}

Accepts ==
  /\ socket # None
  /\ server[socket].pc \in Listening
  /\ Len(server[socket].backlog) < Backlog

\* connectProcessServer.  A connection to a full backlog waits for 10 seconds.
Connect(c) ==
  /\ client[c].pc = "connect"
  /\ Accepts
  /\ client' = [client EXCEPT ![c].pc = "connected", ![c].srv = socket]
  /\ server' = [server EXCEPT ![socket].backlog = Append(@, Conn(c))]
  /\ UNCHANGED <<lockvars, socket, sent, timeout, faults>>

NotConnected(c) ==
  /\ client[c].pc = "connect"
  /\ ~Accepts
  /\ Again(c)
  /\ UNCHANGED <<lockvars, socket, server, sent, timeout, faults>>

\* sendfds, and setFeatures in the command pipe.
SendFds(c) ==
  /\ client[c].pc = "connected" /\ ~Dropped(c)
  /\ Goes(c, "waiting")
  /\ sent' = sent \cup {Conn(c)}
  /\ UNCHANGED <<lockvars, socket, server, timeout, faults>>

\* The server went away, or serves another client for 60 seconds.
ConnectionEnds(c) ==
  /\ client[c].pc \in {"connected", "waiting"}
  /\ Dropped(c) \/ (client[c].pc = "waiting" /\ server[client[c].srv].control # Conn(c))
  /\ Again(c)
  /\ UNCHANGED <<lockvars, socket, server, sent, timeout, faults>>

\* The user interface ends, or finds its server dead.
Leave(c) ==
  /\ client[c].pc = "served"
  /\ Settles(c, "done")
  /\ UNCHANGED <<lockvars, socket, server, sent, timeout, faults>>

\* --kill-server: terminateServer(), and the connection is closed.
KillServer(c) ==
  /\ client[c].pc = "served" /\ ~Dropped(c)
  /\ Goes(c, "killing")
  /\ server' = [server EXCEPT ![client[c].srv].pending = "terminateServer"]
  /\ UNCHANGED <<lockvars, socket, sent, timeout, faults>>

Killed(c) ==
  /\ client[c].pc = "killing"
  /\ Settles(c, "done")
  /\ UNCHANGED <<lockvars, socket, server, sent, timeout, faults>>

ClientStep(c) ==
  \/ TryLock(c) \/ NoLock(c) \/ Poll(c) \/ StopPolling(c) \/ GiveBack(c)
  \/ StartServer(c) \/ CloseLock(c) \/ ServerStarted(c) \/ ServerNotStarted(c)
  \/ Connect(c) \/ NotConnected(c) \/ SendFds(c) \/ ConnectionEnds(c)
  \/ Leave(c) \/ KillServer(c) \/ Killed(c)

-----------------------------------------------------------------------------
(* A server: execServer and ProcessServer *)

\* execServer: a socket file that is left over is removed, and sock.bind()
\* creates another.
Bind(s) ==
  /\ server[s].pc = "exec"
  /\ socket' = s
  /\ Moves(s, "bound")
  /\ UNCHANGED <<lockvars, client, sent, timeout, faults>>

Listen(s) ==
  /\ server[s].pc = "bound"
  /\ Moves(s, "listening")
  /\ UNCHANGED <<lockvars, socket, client, sent, timeout, faults>>

\* BBCooker is made, which takes longer than the client's next statement,
\* lock.close(); "r" is sent, and main() enters its loop.
Started(s) ==
  /\ server[s].pc = "listening"
  /\ \A c \in Clients : client[c].pc = "forked" => client[c].srv # s
  /\ server' = [server EXCEPT ![s].pc = "loop", ![s].said = TRUE]
  /\ UNCHANGED <<lockvars, socket, client, sent, timeout, faults>>

\* What select() may find: connections, a message or the end of the connection
\* served, a command or the end of the command pipe.
Readable(s) ==
  LET r == server[s]
  IN {x \in {"sock", "controllersock", "command_channel"} :
       CASE x = "sock" -> r.backlog # <<>>
         [] x = "controllersock" ->
              r.control # NoConn /\ (r.control \in sent \/ ~IsOpen(s, r.control))
         [] x = "command_channel" ->
              r.ui # NoConn /\ (r.pending # "nothing" \/ ~IsOpen(s, r.ui))}

\* The next part of the loop that has something to do.
Then(parts) ==
  CASE "controllersock" \in parts -> "control"
    [] "command_channel" \in parts /\ "controllersock" \notin parts -> "command"
    [] OTHER -> "loop"

SelectNewest(s) ==      \* mutant: a new connection takes the place of the present one
  LET r == server[s]
  IN /\ r.pc = "loop" /\ ~r.quit
     /\ \E ready \in SUBSET Readable(s) \ {{}} :
          LET new == IF "sock" \in ready THEN r.backlog ELSE <<>>
              first == new # <<>>
          IN server' = [server EXCEPT ![s].ready = ready, ![s].pc = Then(ready),
                          ![s].backlog = IF "sock" \in ready THEN <<>> ELSE @,
                          ![s].control = IF first THEN Head(new) ELSE @,
                          ![s].queue = @ \o (IF first THEN Tail(new) ELSE new)]
     /\ UNCHANGED <<lockvars, socket, client, sent, timeout, faults>>

\* idle_commands, and the loop again, with the connections that have come in:
\* the first is served, or is to be, and the others are queued.  Some of what
\* is readable may have come after select() returned; a client closes its two
\* ends one after the other.
Select(s) ==
  LET r == server[s]
  IN /\ r.pc = "loop" /\ ~r.quit
     /\ \E ready \in SUBSET Readable(s) \ {{}} :
          LET new == IF "sock" \in ready THEN r.backlog ELSE <<>>
              first == r.control = NoConn /\ new # <<>>
          IN server' = [server EXCEPT ![s].ready = ready, ![s].pc = Then(ready),
                          ![s].backlog = IF "sock" \in ready THEN <<>> ELSE @,
                          ![s].control = IF first THEN Head(new) ELSE @,
                          ![s].queue = @ \o (IF first THEN Tail(new) ELSE new)]
     /\ UNCHANGED <<lockvars, socket, client, sent, timeout, faults>>

StaysForClient(s, stuck) ==      \* mutant: a server without clients waits for one
  LET r == server[s]
      next == r.queue # <<>>
  IN server' = [server EXCEPT
       ![s].pc = "loop", ![s].ui = NoConn, ![s].pending = "nothing", ![s].ready = {},
       ![s].control = IF next THEN Last(r.queue) ELSE NoConn,
       ![s].queue = IF next THEN Front(@) ELSE @,
       ![s].quit = r.quit \/ (stuck /\ r.ui # NoConn)]

\* disconnect_client(): the next client is the one queued last; without one,
\* and without a timeout, the server ends, unless a connection has come in
\* meanwhile.  A command that goes on for more than 30 seconds ends it too.
Disconnected(s, stuck) ==
  LET r == server[s]
      quit == r.quit \/ (stuck /\ r.ui # NoConn)
      next == r.queue # <<>> /\ ~quit
  IN server' = [server EXCEPT
       ![s].pc = "loop", ![s].ui = NoConn, ![s].pending = "nothing", ![s].ready = {},
       ![s].control = IF next THEN Last(r.queue) ELSE NoConn,
       ![s].queue = IF next THEN Front(@) ELSE @,
       ![s].quit = quit \/ (~next /\ timeout = "none" /\ r.backlog = <<>>)]

\* recvfds: the three pipes of the client, or the end of its connection.
Control(s) ==
  /\ server[s].pc = "control"
  /\ \/ /\ server[s].control \in sent
        /\ server' = [server EXCEPT ![s].pc = Then(server[s].ready \ {"controllersock"}), ![s].ready = {},
                         ![s].ui = server[s].control,
                         ![s].pending = "setFeatures", ![s].hadui = TRUE]
        /\ sent' = sent \ {server[s].control}
     \/ /\ server[s].control \notin sent
        /\ \E stuck \in BOOLEAN : Disconnected(s, stuck)
        /\ UNCHANGED sent
  /\ UNCHANGED <<lockvars, socket, client, timeout, faults>>

\* command_channel.get() and runCommand.
Command(s) ==
  LET r == server[s] IN
  /\ r.pc = "command"
  /\ \/ /\ r.pending = "setFeatures"
        /\ server' = [server EXCEPT ![s].pc = "loop", ![s].ready = {}, ![s].pending = "nothing"]
        /\ IF IsOpen(s, r.ui) THEN Goes(r.ui[1], "served") ELSE UNCHANGED client
     \/ /\ r.pending = "terminateServer"
        /\ server' = [server EXCEPT ![s].pc = "loop", ![s].ready = {}, ![s].quit = TRUE]
        /\ UNCHANGED client
     \/ /\ r.pending = "nothing"
        /\ \E stuck \in BOOLEAN : Disconnected(s, stuck)
        /\ UNCHANGED client
  /\ UNCHANGED <<lockvars, socket, sent, timeout, faults>>

TimedOutAnyway(s) ==      \* mutant: haveui is not looked at
  /\ server[s].pc = "loop" /\ ~server[s].quit
  /\ timeout # "never"
  /\ server' = [server EXCEPT ![s].quit = TRUE]
  /\ UNCHANGED <<lockvars, socket, client, sent, timeout, faults>>

\* No user interface for server_timeout, or none ever for maxuiwait: more time
\* than the client that started the server takes to hear that it runs.
TimedOut(s) ==
  /\ server[s].pc = "loop" /\ ~server[s].quit
  /\ \A c \in Clients : client[c].pc = "starting" => client[c].srv # s
  /\ \/ timeout = "some" /\ server[s].ui = NoConn
     \/ timeout = "none" /\ ~server[s].hadui
  /\ server' = [server EXCEPT ![s].quit = TRUE]
  /\ UNCHANGED <<lockvars, socket, client, sent, timeout, faults>>

\* The socket file is removed if it is the server's own, and the socket closed.
UnlinkSocket(s) ==
  /\ server[s].pc = "loop" /\ server[s].quit
  /\ socket' = IF socket = s THEN None ELSE socket
  /\ server' = [server EXCEPT ![s] = [NoServer EXCEPT !.pc = "closed", !.said = server[s].said,
                              !.ui = server[s].ui, !.control = server[s].control,
                              !.queue = server[s].queue]]
  /\ sent' = sent \ ToSet(server[s].backlog)
  /\ UNCHANGED <<lockvars, client, timeout, faults>>

\* lock.close()
ReleaseLock(s) ==
  /\ server[s].pc = "closed"
  /\ Close(s)
  /\ Moves(s, "released")
  /\ UNCHANGED <<socket, client, sent, timeout, faults>>

\* The process is gone, and with it its ends of all connections.
Ends(s) ==
  /\ server' = [server EXCEPT ![s] = [NoServer EXCEPT !.said = server[s].said]]
  /\ sent' = sent \ Kept(s)

\* The lock once more, to remove the lock file.  If the file is gone the
\* process ends, and if the lock is taken an exception ends it (startswith()
\* with a list, or no contents to look at).
LockFileGone(s) ==
  /\ server[s].pc = "released" /\ at[s] = "out"
  /\ disk = None
  /\ Ends(s)
  /\ UNCHANGED <<lockvars, socket, client, timeout, faults>>

Relock(s) ==
  /\ server[s].pc = "released"
  /\ \/ disk # None /\ Open(s) /\ UNCHANGED <<server, sent>>
     \/ Acquire(s) /\ Moves(s, "relocked") /\ UNCHANGED sent
     \/ (Refused(s) \/ Stale(s)) /\ Ends(s)
  /\ UNCHANGED <<socket, client, timeout, faults>>

LeaveLock(s) ==      \* mutant: the lock file stays
  /\ server[s].pc = "relocked"
  /\ Close(s) /\ Ends(s)
  /\ UNCHANGED <<socket, client, timeout, faults>>

RemoveLock(s) ==
  /\ server[s].pc = "relocked"
  /\ \/ Unlink(s) /\ UNCHANGED <<server, sent>>
     \/ Unlock(s) /\ Ends(s)
  /\ UNCHANGED <<socket, client, timeout, faults>>

ServerStep(s) ==
  \/ Bind(s) \/ Listen(s) \/ Started(s)
  \/ Select(s) \/ Control(s) \/ Command(s) \/ TimedOut(s)
  \/ UnlinkSocket(s) \/ ReleaseLock(s)
  \/ LockFileGone(s) \/ Relock(s) \/ RemoveLock(s)

-----------------------------------------------------------------------------
(* Faults: a process is killed, the cooker cannot be made (its process ends *)
(* like a killed one), the idle thread dies, or the server is too slow.     *)

LosesLock(p) == IF at[p] = "out" THEN UNCHANGED lockvars ELSE Close(p)

KillProcess(s) ==
  /\ server[s].pc # "off"
  /\ LosesLock(s) /\ Ends(s)
  /\ UNCHANGED <<socket, client, timeout>>

Settled == {"done", "failed"}

KillClient(c) ==
  /\ client[c].pc \notin Settled
  /\ LosesLock(c) /\ Settles(c, "failed")
  /\ UNCHANGED <<socket, server, sent, timeout>>

\* The server takes longer than 95 seconds to start, or than 60 to answer.
TooSlow(c) ==
  /\ client[c].pc \in {"starting", "waiting"}
  /\ Again(c)
  /\ UNCHANGED <<lockvars, socket, server, sent, timeout>>

IdleThreadDies(s) ==
  /\ server[s].pc \in {"loop", "control", "command"}
  /\ server' = [server EXCEPT ![s].quit = TRUE]
  /\ UNCHANGED <<lockvars, socket, client, sent, timeout>>

Fault ==
  /\ faults < MaxFaults
  /\ faults' = faults + 1
  /\ \/ \E s \in Servers : KillProcess(s) \/ IdleThreadDies(s)
     \/ \E c \in Clients : KillClient(c) \/ TooSlow(c)

Next == Fault \/ (\E c \in Clients : ClientStep(c)) \/ (\E s \in Servers : ServerStep(s))

\* Every process goes on; user interfaces end, and waits are bounded (60 s for
\* a reply, 50 attempts for the lock, the timeouts of the server).
Fairness ==
  /\ \A c \in Clients : WF_vars(ClientStep(c)) /\ SF_vars(StopPolling(c))
  /\ \A s \in Servers : WF_vars(ServerStep(s))

Spec == Init /\ [][Next]_vars /\ Fairness

-----------------------------------------------------------------------------
\* From its start until it closes the lock a server is the only one.
HoldsLock == {"exec", "bound", "closed"} \cup Listening

OneServer ==
  \A s, t \in Servers : server[s].pc \in HoldsLock /\ server[t].pc \in HoldsLock => s = t

\* A server that can be reached is reached: the socket file on disk is its own
\* from bind() to its end, whatever others remove.
SocketStands ==
  \A s \in Servers : server[s].pc \in Listening => socket = s

\* A client that was answered is the one the server takes commands from.
ServedByServer ==
  \A c \in Clients :
    client[c].pc = "served" /\ server[client[c].srv].pc # "off"
      => server[client[c].srv].ui = Conn(c)

\* Without faults, nothing stays on disk once all have ended.
CleanEnd ==
  /\ faults = 0
  /\ \A c \in Clients : client[c].pc \in Settled
  /\ \A s \in Servers : server[s].pc = "off"
  => disk = None /\ socket = None

\* A server does not decide to end while a client is being served, except by
\* that client or a fault.
KeepsClient ==
  [][\A s \in Servers :
       ~server[s].quit /\ server'[s].quit /\ IsOpen(s, server[s].ui)
         => server[s].pending = "terminateServer" \/ faults' > faults]_vars

\* All clients are done or give up, and then no server is left, unless it was
\* told to stay.
Ended ==
  /\ \A c \in Clients : client[c].pc \in Settled
  /\ timeout # "never" => \A s \in Servers : server[s].pc = "off"

EndsAtLast == <>[]Ended
=============================================================================
