-------------------------- MODULE SearchDaemonProps -------------------------
(***************************************************************************)
(* What the search daemon owes its clients.                                *)
(***************************************************************************)
EXTENDS SearchDaemon, ThreadPoolProps

-----------------------------------------------------------------------------

\* Every variable has its type.
DaemonTypeOK ==
  /\ backlog \in [{"tcp", "unix"} -> Seq(Clients)]
  /\ apc \in {"select", "accept", "dispatch", "new_task", "refused", "exited"}
  /\ turn \in {"tcp", "unix"}
  /\ ready \subseteq {"tcp", "unix"}
  /\ fd \in Tasks \cup {None}
  /\ client \in [Tasks -> Clients \cup {None}]
  /\ phase \in [Threads -> {"read", "serve", "ok", "not ok"}]
  /\ status \in [Clients -> {"away", "waiting", "open", "closed", "reset"}]
  /\ reply \in [Clients -> {"nothing", "answer", "complaint"}]

\* An open descriptor has one owner (the acceptor, new_task(), the queue or one
\* worker), and an owner's descriptor is open: none leaks, and none is closed
\* or written to when it may already belong to another client.
Held == Outstanding \cup (IF fd = None THEN {} ELSE {fd})

DescriptorsAccounted ==
  Alive =>
    /\ {f \in Tasks : client[f] # None} = Held
    /\ \A f, g \in Held : client[f] = client[g] => f = g
    /\ \A k \in Clients : status[k] = "open" <=> \E f \in Tasks : client[f] = k
    /\ apc # "new_task" => fd \notin Outstanding

\* A client whose request was answered is never reset, which would discard what
\* it has not read of the answer (unless the daemon exits under it).
AnswerNeverDiscarded ==
  Alive => \A k \in Clients : reply[k] = "answer" => status[k] # "reset"

\* search(1) promises: "If the number of threads reaches the maximum, subsequent
\* requests are queued until existing threads become available".  The code
\* resets and closes a connection new_task() refuses.
NoClientTurnedDown == apc # "refused"

-----------------------------------------------------------------------------
(* Why it cannot be: the inductive invariant.                              *)

\* The sockets that the acceptor has still to come to before it returns to
\* select()
Ahead ==
  IF apc = "accept"
  THEN {turn, "unix"}
  ELSE IF apc \in {"dispatch", "new_task", "refused"} /\ turn = "tcp" THEN {"unix"} ELSE {}

\* A socket that select() found ready stays so until its turn has come: nobody
\* else accepts.  handle_accept() has a descriptor from accept() until it
\* returns.
LoopInv ==
  /\ apc = "select" => turn = "tcp"
  /\ \A socket \in ready \cap Ahead : backlog[socket] # <<>>
  /\ fd # None <=> apc \in {"dispatch", "new_task", "refused"}

\* The acceptor is in new_task() exactly when the pool sees its call.
CallInv ==
  /\ apc = "new_task" <=> cpc[Acceptor] # "idle"
  /\ apc = "new_task" => call[Acceptor].task = fd

\* The kernel queues a connection once, on the socket of its client.
WaitingInv ==
  \A socket \in {"tcp", "unix"} :
    \A i \in 1..Len(backlog[socket]) :
      /\ status[backlog[socket][i]] = "waiting"
      /\ Via[backlog[socket][i]] = socket
      /\ \A j \in 1..Len(backlog[socket]) : backlog[socket][i] = backlog[socket][j] => i = j

\* A client that has its answer was closed in order, or is about to be, by a
\* thread whose "ok" is true.
AnsweredInv ==
  Alive =>
    \A k \in Clients :
      reply[k] = "answer" =>
        \/ status[k] = "closed"
        \/ \E w \in Threads : wpc[w] = "main" /\ phase[w] = "ok" /\ Served(w) = k

DaemonInv ==
  /\ DaemonTypeOK /\ LoopInv
  /\ CallInv /\ WaitingInv /\ DescriptorsAccounted /\ AnsweredInv

-----------------------------------------------------------------------------
(* Fairness.  The acceptor and the pool's threads run, mutexes are not     *)
(* withheld for ever, and accept() is not interrupted for ever; main()     *)
(* need not return.                                                        *)

InWorker(w) ==
  /\ Sleep(w) \/ Dequeue(w) \/ MarkBusy(w) \/ MarkIdle(w) \/ Exit(w)
  /\ UNCHANGED daemonVars

LockingWorker(w) ==
  /\ LockQueue(w) \/ RelockQueue(w) \/ CheckSize(w) \/ Erase(w)
  /\ UNCHANGED daemonVars

DaemonFairness ==
  /\ WF_allVars(InAcceptLoop \/ InNewTask)
  /\ SF_allVars(\E f \in Tasks : Accept(f))
  /\ SF_allVars(HandOver \/ HandedOver)
  /\ \A w \in Threads :
       /\ WF_allVars(Alive /\ InWorker(w))
       /\ SF_allVars(Alive /\ LockingWorker(w))

DaemonFairSpec == DaemonSpec /\ DaemonFairness

\* However long the threads take over their requests, the acceptor comes back
\* to select(): a client that does not send, or does not read, holds nobody up
\* but its own thread.
AcceptorComesBack == []<>(apc \in {"select", "exited"})

MainReturns == \A w \in Threads : WF_allVars(Alive /\ InMain(w))

\* If main() always returns, every client that connects is answered or reset in
\* the end, on either socket.
EveryClientIsDone ==
  MainReturns =>
    \A k \in Clients : status[k] = "waiting" ~> status[k] \in {"closed", "reset"}
=============================================================================
