---------------------------- MODULE SearchDaemon ----------------------------
(***************************************************************************)
(* The search daemon: the accept loop of become_daemon() and its           *)
(* handle_accept() (src/src/search_daemon.cpp), and search_thread::main()  *)
(* (src/src/search_thread.cpp) in the threads of the pool, module          *)
(* ThreadPool.  A task of the pool is the descriptor of a connection.      *)
(*                                                                         *)
(* The kernel is modelled by what the code relies on: queues of            *)
(* connections that listen() makes, descriptors that are reused once they  *)
(* are closed, and sockets that may lose what was written to them if they  *)
(* are closed with a linger time of zero.                                  *)
(***************************************************************************)
EXTENDS ThreadPool

CONSTANTS
  Acceptor,   \* the thread that runs become_daemon(): the pool's one caller
  Clients,    \* every client makes one connection
  Via,        \* Via[k]: the socket that client k connects to
  Sends,      \* Sends[k]: what it sends in time
  QueueSize   \* socket_queue_size

\* become_daemon() serves "tcp" before "unix".  A "good" line is one that
\* service_request() answers; a "bad" one has no arguments, too many, an option
\* error or a malformed query, or its client has left; "nothing" is no complete
\* line before the timeout.  A line of options that ask for nothing else and no
\* word, of which service_request() reads a null pointer, is none of these.
ASSUME DaemonAssumption ==
  /\ Callers = {Acceptor}
  /\ Blocking = {FALSE}
  /\ Via \in [Clients -> {"tcp", "unix"}]
  /\ Sends \in [Clients -> {"good", "bad", "nothing"}]
  /\ QueueSize \in Nat \ {0}
  /\ None \notin Clients \cup Tasks

VARIABLES
  backlog,   \* connections the kernel has queued on each socket
  apc,       \* where the acceptor is
  turn,      \* the socket whose turn it is
  ready,     \* rset, as select() left it
  fd,        \* handle_accept()'s argument
  client,    \* the client at the other end of each open descriptor, or None
  phase,     \* where each worker is in search_thread::main()
  status,    \* each client's connection
  reply      \* what was written to each client

daemonVars == <<backlog, apc, turn, ready, fd, client, phase, status, reply>>
acceptorVars == <<apc, turn, ready, fd>>
allVars == <<vars, daemonVars>>

-----------------------------------------------------------------------------

DaemonInit ==
  /\ Init
  /\ backlog = [socket \in {"tcp", "unix"} |-> <<>>]
  /\ apc = "select"
  /\ turn = "tcp"
  /\ ready = {}
  /\ fd = None
  /\ client = [f \in Tasks |-> None]
  /\ phase = [w \in Threads |-> "read"]
  /\ status = [k \in Clients |-> "away"]
  /\ reply = [k \in Clients |-> "nothing"]

Alive == apc # "exited"

-----------------------------------------------------------------------------
(* Clients and the kernel.                                                 *)

Connect(k) ==
  /\ status[k] = "away"
  /\ Len(backlog[Via[k]]) < QueueSize
  /\ backlog' = [backlog EXCEPT ![Via[k]] = Append(@, k)]
  /\ status' = [status EXCEPT ![k] = "waiting"]
  /\ UNCHANGED <<vars, acceptorVars, client, phase, reply>>

-----------------------------------------------------------------------------
(* become_daemon() and handle_accept().                                    *)

\* Mutant: the loop runs on past the last socket.
MoveOnPastLast ==
  \/ turn = "tcp" /\ turn' = "unix" /\ apc' = "accept"
  \/ turn = "unix" /\ turn' = "none" /\ apc' = "accept"

\* The next socket, or back to select().
MoveOn ==
  \/ turn = "tcp" /\ turn' = "unix" /\ apc' = "accept"
  \/ turn = "unix" /\ turn' = "tcp" /\ apc' = "select"

\* select() returns the sockets that have a connection to accept.
Select ==
  /\ apc = "select"
  /\ ready' = {socket \in {"tcp", "unix"} : backlog[socket] # <<>>}
  /\ ready' # {}
  /\ apc' = "accept"
  /\ UNCHANGED <<vars, backlog, turn, fd, client, phase, status, reply>>

\* ! FD_ISSET( fd, &rset )
Skip ==
  /\ apc = "accept"
  /\ turn \notin ready
  /\ MoveOn
  /\ UNCHANGED <<vars, backlog, ready, fd, client, phase, status, reply>>

\* accept() yields a descriptor that is not in use.
Accept(f) ==
  /\ apc = "accept"
  /\ turn \in ready
  /\ client[f] = None
  /\ fd' = f
  /\ client' = [client EXCEPT ![f] = Head(backlog[turn])]
  /\ status' = [status EXCEPT ![Head(backlog[turn])] = "open"]
  /\ backlog' = [backlog EXCEPT ![turn] = Tail(@)]
  /\ apc' = "dispatch"
  /\ UNCHANGED <<vars, turn, ready, phase, reply>>

\* accept() was interrupted: EINTR.
AcceptInterrupted ==
  /\ apc = "accept"
  /\ turn \in ready
  /\ MoveOn
  /\ UNCHANGED <<vars, backlog, ready, fd, client, phase, status, reply>>

\* The client left before it was accepted: ECONNABORTED.
AcceptAborted ==
  /\ apc = "accept"
  /\ turn \in ready
  /\ status' = [status EXCEPT ![Head(backlog[turn])] = "reset"]
  /\ backlog' = [backlog EXCEPT ![turn] = Tail(@)]
  /\ MoveOn
  /\ UNCHANGED <<vars, ready, fd, client, phase, reply>>

\* accept() fails for another reason, here that no descriptor is left: the
\* daemon exits, and the kernel resets what it leaves behind.
AcceptFails ==
  /\ apc = "accept"
  /\ turn \in ready
  /\ \A f \in Tasks : client[f] # None
  /\ apc' = "exited"
  /\ status' = [k \in Clients |-> IF status[k] \in {"waiting", "open"} THEN "reset"
                                                                     ELSE status[k]]
  /\ client' = [f \in Tasks |-> None]
  /\ backlog' = [socket \in {"tcp", "unix"} |-> <<>>]
  /\ UNCHANGED <<vars, turn, ready, fd, phase, reply>>

\* The pool is a static of handle_accept(), constructed by its first call.
Construct ==
  /\ apc = "dispatch"
  /\ \/ \E w \in Threads : InsertPrototype(w) \/ InsertInitial(w)
     \/ FinishConstruction
  /\ UNCHANGED daemonVars

\* Mutant: new_task() is called with "block".
HandOverBlocking ==
  /\ apc = "dispatch"
  /\ NewTask(Acceptor, fd, TRUE)
  /\ apc' = "new_task"
  /\ UNCHANGED <<backlog, turn, ready, fd, client, phase, status, reply>>

\* threads.new_task( fd )
HandOver ==
  /\ apc = "dispatch"
  /\ NewTask(Acceptor, fd, FALSE)
  /\ apc' = "new_task"
  /\ UNCHANGED <<backlog, turn, ready, fd, client, phase, status, reply>>

\* ... returned true.
HandedOver ==
  /\ apc = "new_task"
  /\ Push(Acceptor)
  /\ fd' = None
  /\ MoveOn
  /\ UNCHANGED <<backlog, ready, client, phase, status, reply>>

\* ... returned false ...
TurnedDown ==
  /\ apc = "new_task"
  /\ Refuse(Acceptor)
  /\ apc' = "refused"
  /\ UNCHANGED <<backlog, turn, ready, fd, client, phase, status, reply>>

\* Mutant: the refused connection is not closed.
ForgetRefused ==
  /\ apc = "refused"
  /\ fd' = None
  /\ MoveOn
  /\ UNCHANGED <<vars, backlog, ready, client, phase, status, reply>>

\* ... so reset_socket( fd ) and close( fd ).
CloseRefused ==
  /\ apc = "refused"
  /\ status' = [status EXCEPT ![client[fd]] = "reset"]
  /\ client' = [client EXCEPT ![fd] = None]
  /\ fd' = None
  /\ MoveOn
  /\ UNCHANGED <<vars, backlog, ready, phase, reply>>

-----------------------------------------------------------------------------
(* search_thread::main( fd ) in a worker.                                  *)

Served(w) == client[arg[w]]

\* timed_read_line() gets a line.
ReadLine(w) ==
  /\ wpc[w] = "main"
  /\ phase[w] = "read"
  /\ Sends[Served(w)] # "nothing"
  /\ phase' = [phase EXCEPT ![w] = "serve"]
  /\ UNCHANGED <<vars, backlog, acceptorVars, client, status, reply>>

\* ... or gives up: a timeout, an end of file until then, or an error.
GiveUp(w) ==
  /\ wpc[w] = "main"
  /\ phase[w] = "read"
  /\ phase' = [phase EXCEPT ![w] = "not ok"]
  /\ UNCHANGED <<vars, backlog, acceptorVars, client, status, reply>>

\* Mutant: ok keeps its initial value.
ServeNotOk(w) ==
  /\ wpc[w] = "main"
  /\ phase[w] = "serve"
  /\ reply' = [reply EXCEPT ![Served(w)] =
                 IF Sends[Served(w)] = "good" THEN "answer" ELSE "complaint"]
  /\ phase' = [phase EXCEPT ![w] = "not ok"]
  /\ UNCHANGED <<vars, backlog, acceptorVars, client, status>>

\* The line is split and the request serviced, or complained about.
Serve(w) ==
  /\ wpc[w] = "main"
  /\ phase[w] = "serve"
  /\ \/ /\ Sends[Served(w)] = "good"
        /\ reply' = [reply EXCEPT ![Served(w)] = "answer"]
        /\ phase' = [phase EXCEPT ![w] = "ok"]
     \/ /\ Sends[Served(w)] = "bad"
        /\ reply' = [reply EXCEPT ![Served(w)] = "complaint"]
        /\ phase' = [phase EXCEPT ![w] = "not ok"]
  /\ UNCHANGED <<vars, backlog, acceptorVars, client, status>>

\* Mutant: the descriptor is closed only after a request that was all right.
CloseAnswered(w) ==
  /\ phase[w] \in {"ok", "not ok"}
  /\ status' = [status EXCEPT ![Served(w)] = IF phase[w] = "ok" THEN "closed" ELSE @]
  /\ client' = [client EXCEPT ![arg[w]] = IF phase[w] = "ok" THEN None ELSE @]
  /\ phase' = [phase EXCEPT ![w] = "read"]
  /\ Perform(w)
  /\ UNCHANGED <<backlog, acceptorVars, reply>>

\* if ( !ok ) reset_socket( fd ); close( fd ), and main() returns.
Close(w) ==
  /\ phase[w] \in {"ok", "not ok"}
  /\ status' = [status EXCEPT ![Served(w)] = IF phase[w] = "ok" THEN "closed" ELSE "reset"]
  /\ client' = [client EXCEPT ![arg[w]] = None]
  /\ phase' = [phase EXCEPT ![w] = "read"]
  /\ Perform(w)
  /\ UNCHANGED <<backlog, acceptorVars, reply>>

-----------------------------------------------------------------------------

\* The steps of the pool that neither the acceptor nor main() takes.
InPool ==
  /\ \E w \in Threads :
       \/ LockQueue(w) \/ CheckSize(w) \/ Sleep(w)
       \/ TimeOut(w) \/ WakeSpuriously(w) \/ RelockQueue(w)
       \/ Dequeue(w) \/ MarkBusy(w) \/ MarkIdle(w)
       \/ Erase(w) \/ Exit(w)
  /\ UNCHANGED daemonVars

InNewTask ==
  /\ \/ FindAllBusy(Acceptor) \/ FindIdle(Acceptor) \/ Insert(Acceptor)
     \/ \E w \in Threads : Create(Acceptor, w)
  /\ UNCHANGED daemonVars

InMain(w) == ReadLine(w) \/ GiveUp(w) \/ Serve(w) \/ Close(w)

InAcceptLoop ==
  \/ Select \/ Skip \/ \E f \in Tasks : Accept(f)
  \/ AcceptInterrupted \/ AcceptAborted \/ AcceptFails
  \/ Construct \/ HandOver \/ HandedOver \/ TurnedDown \/ CloseRefused

DaemonNext ==
  /\ Alive
  /\ \/ InAcceptLoop
     \/ InNewTask
     \/ InPool
     \/ \E w \in Threads : InMain(w)
     \/ \E k \in Clients : Connect(k)

DaemonSpec == DaemonInit /\ [][DaemonNext]_allVars

=============================================================================
