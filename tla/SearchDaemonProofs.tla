------------------------- MODULE SearchDaemonProofs -------------------------
(***************************************************************************)
(* Proofs about SearchDaemon, for every set of clients, descriptors and    *)
(* threads: what the pool alone promises holds in the daemon as well, and  *)
(* with it what the daemon owes its clients.                               *)
(***************************************************************************)
EXTENDS SearchDaemonProps, ThreadPoolProofs

-----------------------------------------------------------------------------
(* The accept loop by itself.                                              *)

Sockets == {"tcp", "unix"}

\* One more connection in a queue, or its first one taken
LEMMA QueueFacts ==
  ASSUME NEW q \in Seq(Clients)
  PROVE  /\ \A k \in Clients : Append(q, k) \in Seq(Clients) /\ Append(q, k) # <<>>
         /\ q # <<>> => Head(q) \in Clients /\ Tail(q) \in Seq(Clients)
<1>1. ASSUME NEW k \in Clients PROVE Append(q, k) \in Seq(Clients) /\ Append(q, k) # <<>>
  <2>1. Append(q, k) \in Seq(Clients) /\ Len(Append(q, k)) = Len(q) + 1 /\ Len(q) \in Nat
    BY <1>1
  <2>2. Len(Append(q, k)) # Len(<<>>)
    BY <2>1
  <2> QED BY <2>1, <2>2
<1>2. q # <<>> => Head(q) \in Clients /\ Tail(q) \in Seq(Clients)
  OBVIOUS
<1> QED BY <1>1, <1>2

\* Every step of the daemon keeps its types and what the acceptor found ready.
LEMMA LoopStep == DaemonTypeOK /\ LoopInv /\ [DaemonNext]_allVars => DaemonTypeOK' /\ LoopInv'
<1> SUFFICES ASSUME DaemonTypeOK, LoopInv, [DaemonNext]_allVars
             PROVE  DaemonTypeOK' /\ LoopInv'
  OBVIOUS
<1> USE DaemonAssumption DEF DaemonTypeOK, LoopInv, Ahead, Alive, allVars, daemonVars,
        acceptorVars
<1>1. CASE UNCHANGED daemonVars
  BY <1>1
<1>2. CASE Select
  BY <1>2 DEF Select
<1>3. CASE Skip
  BY <1>3 DEF Skip, MoveOn
<1>4. ASSUME NEW f \in Tasks, Accept(f) PROVE DaemonTypeOK' /\ LoopInv'
  <2>1. backlog[turn] \in Seq(Clients) /\ backlog[turn] # <<>>
    BY <1>4 DEF Accept
  <2>2. Head(backlog[turn]) \in Clients /\ Tail(backlog[turn]) \in Seq(Clients)
    BY <2>1, QueueFacts
  <2>3. DaemonTypeOK'
    BY <1>4, <2>2 DEF Accept
  <2>4. LoopInv'
    BY <1>4 DEF Accept
  <2> QED BY <2>3, <2>4
<1>5. CASE AcceptInterrupted
  BY <1>5 DEF AcceptInterrupted, MoveOn
<1>6. CASE AcceptAborted
  <2>1. backlog[turn] \in Seq(Clients) /\ backlog[turn] # <<>>
    BY <1>6 DEF AcceptAborted
  <2>2. Head(backlog[turn]) \in Clients /\ Tail(backlog[turn]) \in Seq(Clients)
    BY <2>1, QueueFacts
  <2>3. DaemonTypeOK'
    BY <1>6, <2>2 DEF AcceptAborted, MoveOn
  <2>4. LoopInv'
    BY <1>6 DEF AcceptAborted, MoveOn
  <2> QED BY <2>3, <2>4
<1>7. CASE AcceptFails
  <2> DEFINE left(k) == IF status[k] \in {"waiting", "open"} THEN "reset" ELSE status[k]
  <2>1. /\ apc' = "exited" /\ UNCHANGED <<turn, ready, fd, phase, reply>>
        /\ status' = [k \in Clients |-> left(k)]
        /\ client' = [f \in Tasks |-> None]
        /\ backlog' = [socket \in Sockets |-> <<>>]
    BY <1>7 DEF AcceptFails, Sockets
  <2>2. status' \in [Clients -> {"away", "waiting", "open", "closed", "reset"}]
    <3>1. \A k \in Clients : left(k) \in {"away", "waiting", "open", "closed", "reset"}
      OBVIOUS
    <3> HIDE DEF left
    <3> QED BY <2>1, <3>1
  <2>3. backlog' \in [Sockets -> Seq(Clients)] /\ client' \in [Tasks -> Clients \cup {None}]
    <3> DEFINE nobody == <<>>
    <3>1. backlog' = [socket \in Sockets |-> nobody]
      BY Zenon, <2>1
    <3>2. nobody \in Seq(Clients)
      BY EmptySeq
    <3> HIDE DEF nobody
    <3>3. backlog' \in [Sockets -> Seq(Clients)]
      BY <3>1, <3>2
    <3>4. client' \in [Tasks -> Clients \cup {None}]
      BY <2>1
    <3> QED BY <3>3, <3>4
  <2>4. fd = None
    BY <1>7 DEF AcceptFails
  <2> QED BY <2>1, <2>2, <2>3, <2>4 DEF Sockets
<1>8. CASE HandOver
  BY <1>8 DEF HandOver
<1>9. CASE HandedOver
  BY <1>9 DEF HandedOver, MoveOn
<1>10. CASE TurnedDown
  BY <1>10 DEF TurnedDown
<1>11. CASE CloseRefused
  BY <1>11 DEF CloseRefused, MoveOn
<1>12. ASSUME NEW w \in Threads, ReadLine(w) PROVE DaemonTypeOK' /\ LoopInv'
  BY <1>12 DEF ReadLine
<1>13. ASSUME NEW w \in Threads, GiveUp(w) PROVE DaemonTypeOK' /\ LoopInv'
  BY <1>13 DEF GiveUp
<1>14. ASSUME NEW w \in Threads, Serve(w) PROVE DaemonTypeOK' /\ LoopInv'
  BY <1>14 DEF Serve
<1>15. ASSUME NEW w \in Threads, Close(w) PROVE DaemonTypeOK' /\ LoopInv'
  BY <1>15 DEF Close
<1>16. ASSUME NEW k \in Clients, Connect(k) PROVE DaemonTypeOK' /\ LoopInv'
  <2>1. backlog[Via[k]] \in Seq(Clients)
    OBVIOUS
  <2>2. Append(backlog[Via[k]], k) \in Seq(Clients) /\ Append(backlog[Via[k]], k) # <<>>
    BY <2>1, QueueFacts
  <2> QED BY <1>16, <2>2 DEF Connect
<1> QED
  BY <1>1, <1>2, <1>3, <1>4, <1>5, <1>6, <1>7, <1>8, <1>9, <1>10, <1>11, <1>12, <1>13,
     <1>14, <1>15, <1>16
     DEF DaemonNext, InAcceptLoop, Construct, InNewTask, InPool, InMain

\* ... and so does the first state.
LEMMA LoopInit == DaemonInit => DaemonTypeOK /\ LoopInv
BY DaemonAssumption DEF DaemonInit, DaemonTypeOK, LoopInv, Ahead

\* So the accept loop needs nothing of the pool to stay well-typed.
LEMMA LoopAlways == DaemonSpec => [](DaemonTypeOK /\ LoopInv)
BY LoopInit, LoopStep, PTL DEF DaemonSpec

-----------------------------------------------------------------------------
(* The daemon uses the pool as the pool's specification allows.            *)

\* A step of the daemon is a step of the pool or leaves the pool alone.
LEMMA PoolStep == DaemonTypeOK /\ LoopInv /\ [DaemonNext]_allVars => [Next]_vars
<1> SUFFICES ASSUME DaemonTypeOK, LoopInv, [DaemonNext]_allVars PROVE [Next]_vars
  OBVIOUS
<1> USE DaemonAssumption
<1>1. CASE UNCHANGED vars
  BY <1>1
<1>2. CASE Construct
  BY <1>2 DEF Construct, Next, WorkerStep
<1>3. CASE HandOver
  <2>1. fd \in Tasks
    BY <1>3 DEF HandOver, DaemonTypeOK, LoopInv
  <2>2. Acceptor \in Callers /\ FALSE \in Blocking /\ NewTask(Acceptor, fd, FALSE)
    BY <1>3 DEF HandOver
  <2>3. CallerStep(Acceptor)
    BY <2>1, <2>2 DEF CallerStep
  <2> QED BY <2>2, <2>3 DEF Next
<1>4. CASE HandedOver
  BY <1>4 DEF HandedOver, Next, CallerStep
<1>5. CASE TurnedDown
  BY <1>5 DEF TurnedDown, Next, CallerStep
<1>6. CASE InNewTask
  BY <1>6 DEF InNewTask, Next, CallerStep
<1>7. CASE InPool
  BY <1>7 DEF InPool, Next, WorkerStep
<1>8. ASSUME NEW w \in Threads, Close(w) PROVE Next
  BY <1>8 DEF Close, Next, WorkerStep
<1> QED
  BY <1>1, <1>2, <1>3, <1>4, <1>5, <1>6, <1>7, <1>8
     DEF DaemonNext, InAcceptLoop, InMain, Select, Skip, Accept, AcceptInterrupted,
         AcceptAborted, AcceptFails, CloseRefused, ReadLine, GiveUp, Serve, Connect,
         allVars

\* The pool in the daemon behaves as the pool: what is proved of every use of
\* the pool holds of this one.
THEOREM DaemonUsesPool == DaemonSpec => Spec
<1>1. DaemonInit => Init
  BY DEF DaemonInit
<1> QED BY <1>1, PoolStep, LoopAlways, PTL DEF DaemonSpec, Spec

\* So the daemon serves every connection that new_task() took, once and in the
\* order it was taken.
THEOREM DaemonServesInOrder == DaemonSpec => ServiceSpec
BY DaemonUsesPool, Refinement

-----------------------------------------------------------------------------
(* What the steps of the pool do to the connections it was given.          *)

InCall == {call[c].task : c \in {d \in Callers : cpc[d] # "idle"}}
Queued == {queue[i] : i \in 1..Len(queue)}

\* A thread that is in main() stays there, with its connection.
KeepsMains ==
  \A w \in Threads : wpc[w] = "main" => wpc'[w] = "main" /\ arg'[w] = arg[w]

\* The one call there can be
LEMMA CallFacts ==
  /\ InCall = IF cpc[Acceptor] = "idle" THEN {} ELSE {call[Acceptor].task}
  /\ InCall' = IF cpc'[Acceptor] = "idle" THEN {} ELSE {call'[Acceptor].task}
BY DaemonAssumption DEF InCall

\* Steps that keep the tasks where they are change neither the queue's nor the
\* threads' share of them.
LEMMA KeptTasks ==
  ASSUME KeepsTasks
  PROVE  Queued' = Queued /\ InHand' = InHand
<1>1. Queued' = Queued
  BY DEF KeepsTasks, Queued
<1>2. At(Performing)' = At(Performing) /\ \A w \in At(Performing) : arg'[w] = arg[w]
  BY DEF KeepsTasks, At
<1> QED BY <1>1, <1>2 DEF InHand

\* Waking a thread, as a push does, leaves the threads that have a task alone.
LEMMA PushFacts ==
  ASSUME IndInv, Push(Acceptor)
  PROVE  /\ Outstanding' = Outstanding /\ KeepsMains
         /\ cpc[Acceptor] # "idle" /\ cpc'[Acceptor] = "idle"
<1>1. \A w \in Threads : /\ wpc'[w] \in Performing <=> wpc[w] \in Performing
                         /\ wpc[w] = "main" => wpc'[w] = "main"
  BY DEF Push, SignalQueueNotEmpty, At, Sleeping, Performing, IndInv, TypeOK
<1>2. At(Performing)' = At(Performing) /\ arg' = arg /\ queue' = Append(queue, call[Acceptor].task)
  BY <1>1 DEF Push, At
<1>3. InHand' = InHand
  BY <1>2 DEF InHand
<1>4. cpc[Acceptor] = "push" /\ cpc'[Acceptor] = "idle"
  BY DaemonAssumption DEF Push, CallGoTo, IndInv, TypeOK
<1>5. Queued' = Queued \cup {call[Acceptor].task}
  <2>1. queue \in Seq(Tasks) /\ call[Acceptor].task \in Tasks
    BY <1>4, DaemonAssumption DEF IndInv, TypeOK, HeldInv
  <2> HIDE DEF IndInv
  <2>2. /\ Len(queue') = Len(queue) + 1 /\ Len(queue) \in Nat
        /\ \A i \in 1..Len(queue) : queue'[i] = queue[i]
        /\ queue'[Len(queue) + 1] = call[Acceptor].task
    BY <1>2, <2>1
  <2>3. 1..Len(queue') = 1..Len(queue) \cup {Len(queue) + 1}
    BY <2>2
  <2> QED BY <2>2, <2>3 DEF Queued
<1>6. InCall = {call[Acceptor].task} /\ InCall' = {}
  BY <1>4, CallFacts
<1> QED BY <1>1, <1>2, <1>3, <1>4, <1>5, <1>6 DEF KeepsMains, Outstanding, InCall, Queued, InHand

\* A thread that takes a task off the queue takes it into its hands.
LEMMA DequeueFacts ==
  ASSUME IndInv, NEW w \in Threads, Dequeue(w)
  PROVE  Outstanding' = Outstanding /\ KeepsMains /\ cpc' = cpc /\ call' = call
<1>1. /\ wpc[w] = "test" /\ queue # <<>> /\ queue' = Tail(queue) /\ queue \in Seq(Tasks)
      /\ GoTo(w, "mark_busy") /\ wpc \in [Threads -> Places]
      /\ arg' = [arg EXCEPT ![w] = Head(queue)] /\ cpc' = cpc /\ call' = call
      /\ arg \in [Threads -> Tasks \cup {None}]
  BY DEF Dequeue, IndInv, TypeOK, callerVars
<1>2. At(Performing)' = At(Performing) \cup {w} /\ w \notin At(Performing)
  <2>1. At(Performing)' = At(Performing) \cup {w}
    BY <1>1, AtGoTo DEF Performing
  <2> QED BY <1>1, <2>1 DEF At, Performing
<1>3. arg'[w] = Head(queue) /\ \A v \in At(Performing) : arg'[v] = arg[v]
  BY <1>1, <1>2 DEF At
<1>4. InHand' = InHand \cup {Head(queue)}
  BY <1>2, <1>3 DEF InHand
<1>5. Queued = Queued' \cup {Head(queue)}
  <2>1. /\ Len(queue') = Len(queue) - 1 /\ Len(queue) \in Nat \ {0}
        /\ \A i \in 1..Len(queue') : queue'[i] = queue[i + 1]
        /\ queue[1] = Head(queue)
    BY <1>1
  <2>2. ASSUME NEW x \in Queued PROVE x = Head(queue) \/ x \in Queued'
    <3>1. PICK j \in 1..Len(queue) : x = queue[j]
      BY DEF Queued
    <3>2. CASE j = 1
      BY <2>1, <3>1, <3>2
    <3>3. CASE j # 1
      <4>1. j - 1 \in 1..Len(queue') /\ (j - 1) + 1 = j
        BY <2>1, <3>3
      <4>2. queue'[j - 1] = x
        BY <2>1, <3>1, <4>1
      <4> QED BY <4>1, <4>2 DEF Queued
    <3> QED BY <3>2, <3>3
  <2>3. Head(queue) \in Queued
    <3>1. 1 \in 1..Len(queue)
      BY <2>1
    <3> QED BY <2>1, <3>1 DEF Queued
  <2>4. ASSUME NEW x \in Queued' PROVE x \in Queued
    <3>1. PICK i \in 1..Len(queue') : x = queue'[i]
      BY DEF Queued
    <3>2. i + 1 \in 1..Len(queue) /\ x = queue[i + 1]
      BY <2>1, <3>1
    <3> QED BY <3>2 DEF Queued
  <2> QED BY <2>2, <2>3, <2>4
<1>6. InCall' = InCall
  BY <1>1 DEF InCall
<1>7. KeepsMains
  BY <1>1 DEF KeepsMains, GoTo
<1> QED BY <1>1, <1>4, <1>5, <1>6, <1>7 DEF Outstanding, InCall, Queued, InHand

\* The steps that the pool takes by itself, and those of new_task() on the way
\* to its return, keep every connection where it is.
KeepsConnections ==
  /\ Outstanding' = Outstanding /\ KeepsMains
  /\ cpc'[Acceptor] = "idle" <=> cpc[Acceptor] = "idle"
  /\ cpc[Acceptor] # "idle" => call'[Acceptor].task = call[Acceptor].task

\* It is so: the only one of these steps that moves a task is the dequeuing.
LEMMA SilentFacts ==
  ASSUME IndInv, Construct \/ InNewTask \/ InPool
  PROVE  KeepsConnections
<1> DEFINE SameCall == /\ cpc'[Acceptor] = "idle" <=> cpc[Acceptor] = "idle"
                       /\ cpc[Acceptor] # "idle" =>
                            call'[Acceptor].task = call[Acceptor].task
<1>1. ASSUME KeepsTasks, KeepsMains, SameCall PROVE KeepsConnections
  <2>1. InCall' = InCall
    BY <1>1, CallFacts
  <2>2. Queued' = Queued /\ InHand' = InHand
    BY <1>1, KeptTasks
  <2> QED BY <1>1, <2>1, <2>2 DEF KeepsConnections, Outstanding, InCall, Queued, InHand
<1>2. CASE Construct
  <2>1. QuietStep
    BY <1>2 DEF Construct, QuietStep
  <2>2. KeepsMains /\ SameCall
    BY <1>2 DEF Construct, FinishConstruction, InsertPrototype, InsertInitial, GoTo,
       KeepsMains, workerVars, callerVars, IndInv, TypeOK
  <2> QED BY <1>1, <2>1, <2>2, QuietStepsKeepTasks
<1>3. CASE InNewTask
  <2> USE DaemonAssumption DEF IndInv, TypeOK
  <2>1. QuietStep
    BY <1>3 DEF InNewTask, QuietStep
  <2>2. ASSUME FindAllBusy(Acceptor) \/ FindIdle(Acceptor) PROVE KeepsMains /\ SameCall
    BY <2>2 DEF FindAllBusy, FindIdle, CallGoTo, KeepsMains, workerVars
  <2>3. ASSUME Insert(Acceptor) PROVE KeepsMains /\ SameCall
    BY <2>3 DEF Insert, CallGoTo, KeepsMains, workerVars
  <2>4. ASSUME NEW w \in Threads, Create(Acceptor, w) PROVE KeepsMains /\ SameCall
    <3>1. KeepsMains
      BY <2>4 DEF Create, GoTo, KeepsMains
    <3>2. SameCall
      BY <2>4 DEF Create, CallGoTo
    <3> QED BY <3>1, <3>2
  <2> HIDE DEF SameCall, IndInv, TypeOK
  <2> QED BY <1>1, <1>3, <2>1, <2>2, <2>3, <2>4, QuietStepsKeepTasks DEF InNewTask
<1>4. CASE InPool
  <2>1. PICK w \in Threads :
          \/ LockQueue(w) \/ CheckSize(w) \/ Sleep(w)
          \/ TimeOut(w) \/ WakeSpuriously(w) \/ RelockQueue(w)
          \/ Dequeue(w) \/ MarkBusy(w) \/ MarkIdle(w)
          \/ Erase(w) \/ Exit(w)
    BY <1>4 DEF InPool
  <2>2. CASE Dequeue(w)
    BY <2>2, DequeueFacts DEF KeepsConnections
  <2>3. CASE CheckSize(w)
    <3>1. QuietStep
      BY <2>3 DEF QuietStep
    <3>2. KeepsMains
      BY <2>3 DEF CheckSize, GoTo, KeepsMains, IndInv, TypeOK
    <3>3. SameCall
      BY <2>3, DaemonAssumption DEF CheckSize, SignalIdle, Blocked, IndInv, TypeOK
    <3> QED BY <1>1, <3>1, <3>2, <3>3, QuietStepsKeepTasks
  <2>4. CASE ~Dequeue(w) /\ ~CheckSize(w)
    <3>1. QuietStep
      BY <2>1, <2>4 DEF QuietStep
    <3>2. UNCHANGED callerVars
      BY <2>1, <2>4 DEF LockQueue, Sleep, TimeOut, WakeSpuriously, RelockQueue, MarkBusy,
         MarkIdle, Erase, Exit
    <3>3. KeepsMains
      BY <2>1, <2>4 DEF LockQueue, Sleep, TimeOut, WakeSpuriously, RelockQueue, MarkBusy,
         MarkIdle, Erase, Exit, GoTo, Sleeping, KeepsMains, IndInv, TypeOK
    <3> QED BY <1>1, <3>1, <3>2, <3>3, QuietStepsKeepTasks DEF callerVars
  <2> QED BY <2>2, <2>3, <2>4
<1> QED BY <1>2, <1>3, <1>4

\* new_task() takes the connection it is given ...
LEMMA NewTaskFacts ==
  ASSUME IndInv, NEW f \in Tasks, NewTask(Acceptor, f, FALSE)
  PROVE  /\ Outstanding' = Outstanding \cup {f} /\ KeepsMains
         /\ cpc'[Acceptor] # "idle" /\ call'[Acceptor].task = f
<1>1. /\ cpc[Acceptor] = "idle" /\ cpc'[Acceptor] = "check" /\ call'[Acceptor].task = f
      /\ wpc' = wpc /\ arg' = arg /\ queue' = queue
  BY DaemonAssumption DEF NewTask, CallGoTo, workerVars, IndInv, TypeOK
<1>2. InCall = {} /\ InCall' = {f}
  BY <1>1, CallFacts
<1>3. Queued' = Queued /\ InHand' = InHand
  BY <1>1 DEF Queued, InHand, At
<1> QED BY <1>1, <1>2, <1>3 DEF KeepsMains, Outstanding, InCall, Queued, InHand

\* ... and gives it back when it refuses it: nobody else has it.
LEMMA RefuseFacts ==
  ASSUME IndInv, OnePlace, Refuse(Acceptor)
  PROVE  /\ Outstanding' = Outstanding \ {call[Acceptor].task} /\ KeepsMains
         /\ cpc[Acceptor] # "idle" /\ cpc'[Acceptor] = "idle"
<1>1. /\ cpc[Acceptor] = "all_busy" /\ cpc'[Acceptor] = "idle"
      /\ wpc' = wpc /\ arg' = arg /\ queue' = queue
  BY DaemonAssumption DEF Refuse, CallGoTo, workerVars, IndInv, TypeOK
<1>2. InCall = {call[Acceptor].task} /\ InCall' = {}
  BY <1>1, CallFacts
<1>3. Queued' = Queued /\ InHand' = InHand
  BY <1>1 DEF Queued, InHand, At
<1>4. call[Acceptor].task \notin Queued \cup InHand
  BY <1>1, DaemonAssumption DEF OnePlace, Queued, InHand
<1> QED BY <1>1, <1>2, <1>3, <1>4 DEF KeepsMains, Outstanding, InCall, Queued, InHand

\* A connection in a thread's hands is one of the outstanding ones, and no
\* other thread's.
LEMMA MainFacts ==
  ASSUME IndInv, OnePlace, NEW w \in Threads, wpc[w] = "main"
  PROVE  /\ arg[w] \in Tasks /\ arg[w] \in Outstanding
         /\ \A v \in Threads : wpc[v] = "main" /\ arg[v] = arg[w] => v = w
         /\ cpc[Acceptor] # "idle" => call[Acceptor].task # arg[w]
<1>1. w \in At(Performing)
  BY DEF At, Performing
<1>2. arg[w] \in Tasks
  BY DEF IndInv, HeldInv, Performing
<1>3. arg[w] \in Outstanding
  BY <1>1 DEF Outstanding
<1>4. \A v \in Threads : wpc[v] = "main" /\ arg[v] = arg[w] => v = w
  BY <1>1 DEF OnePlace, At, Performing
<1>5. cpc[Acceptor] # "idle" => call[Acceptor].task # arg[w]
  BY <1>1, DaemonAssumption DEF OnePlace
<1> QED BY <1>2, <1>3, <1>4, <1>5

\* When main() returns, its connection is nobody's.
LEMMA PerformFacts ==
  ASSUME IndInv, OnePlace, NEW w \in Threads, Perform(w)
  PROVE  /\ Outstanding' = Outstanding \ {arg[w]}
         /\ \A v \in Threads \ {w} :
              wpc[v] = "main" => wpc'[v] = "main" /\ arg'[v] = arg[v]
         /\ cpc' = cpc /\ call' = call /\ wpc[w] = "main"
<1>1. /\ wpc[w] = "main" /\ queue' = queue /\ cpc' = cpc /\ call' = call
      /\ GoTo(w, "mark_idle") /\ arg' = [arg EXCEPT ![w] = None]
      /\ wpc \in [Threads -> Places] /\ arg \in [Threads -> Tasks \cup {None}]
  BY DEF Perform, callerVars, IndInv, TypeOK
<1>2. At(Performing)' = At(Performing) \ {w} /\ w \in At(Performing)
  <2>1. At(Performing)' = At(Performing) \ {w}
    BY <1>1, AtGoTo DEF Performing
  <2> QED BY <1>1, <2>1 DEF At, Performing
<1>3. \A v \in At(Performing) \ {w} : arg'[v] = arg[v] /\ arg[v] # arg[w]
  BY <1>1, <1>2 DEF OnePlace, At
<1>4. InHand' = InHand \ {arg[w]} /\ arg[w] \in InHand
  BY <1>2, <1>3 DEF InHand
<1>5. Queued' = Queued /\ InCall' = InCall
  BY <1>1 DEF Queued, InCall
<1>6. arg[w] \notin Queued \cup InCall
  BY <1>2 DEF OnePlace, Queued, InCall
<1>7. \A v \in Threads \ {w} : wpc[v] = "main" => wpc'[v] = "main" /\ arg'[v] = arg[v]
  BY <1>1 DEF GoTo
<1>8. /\ Outstanding = InCall \cup Queued \cup InHand
      /\ Outstanding' = InCall' \cup Queued' \cup InHand'
  BY DEF Outstanding, InCall, Queued, InHand
<1>9. Outstanding' = Outstanding \ {arg[w]}
  BY <1>4, <1>5, <1>6, <1>8
<1> QED BY <1>1, <1>7, <1>9

-----------------------------------------------------------------------------
(* The inductive invariant of the daemon, part by part.                    *)

\* Only new_task()'s own steps move the call, and the acceptor with it.
LEMMA CallStep ==
  IndInv /\ OnePlace /\ DaemonInv /\ [DaemonNext]_allVars => CallInv'
<1> SUFFICES ASSUME IndInv, OnePlace, DaemonInv, [DaemonNext]_allVars PROVE CallInv'
  OBVIOUS
<1> USE DEF CallInv
<1>1. CASE Construct \/ InNewTask \/ InPool
  <2>1. KeepsConnections
    BY <1>1, SilentFacts
  <2>2. UNCHANGED daemonVars
    BY <1>1 DEF Construct, InNewTask, InPool
  <2> QED BY <2>1, <2>2 DEF KeepsConnections, DaemonInv, daemonVars
<1>2. CASE HandOver
  <2>1. fd \in Tasks /\ NewTask(Acceptor, fd, FALSE) /\ fd' = fd /\ apc' = "new_task"
    BY <1>2 DEF HandOver, DaemonInv, DaemonTypeOK, LoopInv
  <2> QED BY <2>1, NewTaskFacts
<1>3. CASE HandedOver
  <2>1. Push(Acceptor) /\ apc' # "new_task"
    BY <1>3 DEF HandedOver, MoveOn
  <2> QED BY <2>1, PushFacts
<1>4. CASE TurnedDown
  <2>1. Refuse(Acceptor) /\ apc' # "new_task"
    BY <1>4 DEF TurnedDown
  <2> QED BY <2>1, RefuseFacts
<1>5. ASSUME NEW w \in Threads, Close(w) PROVE CallInv'
  <2>1. Perform(w) /\ apc' = apc /\ fd' = fd
    BY <1>5 DEF Close, acceptorVars
  <2> QED BY <2>1, PerformFacts DEF DaemonInv
<1>6. CASE UNCHANGED vars /\ ((apc # "new_task" /\ apc' # "new_task") \/ UNCHANGED acceptorVars)
  BY <1>6 DEF vars, callerVars, acceptorVars, DaemonInv
<1> QED
  BY <1>1, <1>2, <1>3, <1>4, <1>5, <1>6
     DEF DaemonNext, InAcceptLoop, InMain, Select, Skip, Accept, AcceptInterrupted,
         AcceptAborted, AcceptFails, CloseRefused, ReadLine, GiveUp, Serve, Connect, MoveOn,
         allVars, daemonVars, acceptorVars

\* Who is in the queues
LEMMA WaitingFacts ==
  ASSUME DaemonTypeOK, WaitingInv, NEW socket \in Sockets, NEW i \in 1..Len(backlog[socket])
  PROVE  /\ backlog[socket] \in Seq(Clients) /\ backlog[socket][i] \in Clients
         /\ status[backlog[socket][i]] = "waiting"
         /\ Via[backlog[socket][i]] = socket
         /\ \A j \in 1..Len(backlog[socket]) : backlog[socket][i] = backlog[socket][j] => i = j
<1>1. backlog[socket] \in Seq(Clients)
  BY DEF DaemonTypeOK, Sockets
<1>2. backlog[socket][i] \in Clients
  BY <1>1
<1> QED BY <1>1, <1>2 DEF WaitingInv, Sockets

\* The elements of a sequence without its first
LEMMA TailFacts ==
  ASSUME NEW q \in Seq(Clients), q # <<>>
  PROVE  /\ Len(q) \in Nat \ {0} /\ 1 \in 1..Len(q) /\ Len(Tail(q)) = Len(q) - 1
         /\ Head(q) = q[1]
         /\ \A i \in 1..Len(Tail(q)) : Tail(q)[i] = q[i + 1] /\ i + 1 \in 1..Len(q)
<1>1. Len(q) \in Nat \ {0} /\ Len(Tail(q)) = Len(q) - 1 /\ Head(q) = q[1]
  OBVIOUS
<1>2. ASSUME NEW i \in 1..Len(Tail(q)) PROVE Tail(q)[i] = q[i + 1] /\ i + 1 \in 1..Len(q)
  BY <1>1
<1> QED BY <1>1, <1>2

\* ... and with one more
LEMMA AppendFacts ==
  ASSUME NEW q \in Seq(Clients), NEW k \in Clients
  PROVE  /\ Len(q) \in Nat /\ Len(Append(q, k)) = Len(q) + 1 /\ Append(q, k)[Len(q) + 1] = k
         /\ \A i \in 1..Len(q) : Append(q, k)[i] = q[i]
OBVIOUS

\* The first of a queue leaves it.
LEMMA OneTaken ==
  ASSUME DaemonTypeOK, WaitingInv, backlog[turn] # <<>>, NEW x,
         backlog' = [backlog EXCEPT ![turn] = Tail(@)],
         status' = [status EXCEPT ![Head(backlog[turn])] = x]
  PROVE  WaitingInv'
<1> DEFINE q == backlog[turn]
<1>1. /\ q \in Seq(Clients) /\ Len(q) \in Nat \ {0} /\ turn \in Sockets
      /\ Len(Tail(q)) = Len(q) - 1 /\ Head(q) = q[1] /\ 1 \in 1..Len(q)
      /\ \A i \in 1..Len(Tail(q)) : Tail(q)[i] = q[i + 1] /\ i + 1 \in 1..Len(q) /\ i + 1 # 1
  <2>1. q \in Seq(Clients) /\ turn \in Sockets
    BY DEF DaemonTypeOK, Sockets
  <2> HIDE DEF q
  <2>2. q # <<>>
    BY DEF q
  <2>3. \A i \in 1..Len(Tail(q)) : i + 1 # 1
    BY <2>1, <2>2, TailFacts
  <2> QED BY <2>1, <2>2, <2>3, TailFacts
<1>2. \A socket \in Sockets : backlog'[socket] = IF socket = turn THEN Tail(q) ELSE backlog[socket]
  BY DEF DaemonTypeOK, Sockets
<1>3. \A k \in Clients : k # q[1] => status'[k] = status[k]
  BY <1>1 DEF DaemonTypeOK
<1>4. \A socket \in Sockets : \A i \in 1..Len(backlog[socket]) :
        /\ backlog[socket][i] \in Clients /\ status[backlog[socket][i]] = "waiting"
        /\ Via[backlog[socket][i]] = socket
        /\ \A j \in 1..Len(backlog[socket]) : backlog[socket][i] = backlog[socket][j] => i = j
  BY WaitingFacts
<1>5. ASSUME NEW socket \in Sockets, NEW i \in 1..Len(backlog'[socket])
      PROVE  /\ status'[backlog'[socket][i]] = "waiting"
             /\ Via[backlog'[socket][i]] = socket
             /\ \A j \in 1..Len(backlog'[socket]) :
                  backlog'[socket][i] = backlog'[socket][j] => i = j
  <2>1. CASE socket = turn
    <3>1. backlog'[socket] = Tail(q)
      BY <1>2, <2>1
    <3> HIDE DEF q
    <3>2. i + 1 \in 1..Len(q) /\ backlog'[socket][i] = q[i + 1] /\ q[i + 1] # q[1]
      BY <1>1, <1>4, <3>1 DEF q
    <3>3. \A j \in 1..Len(backlog'[socket]) : q[i + 1] = q[j + 1] => i = j
      <4> TAKE j \in 1..Len(backlog'[socket])
      <4>1. j + 1 \in 1..Len(q)
        BY <1>1, <3>1
      <4>2. q[i + 1] = q[j + 1] => i + 1 = j + 1
        BY <1>1, <1>4, <3>2, <4>1 DEF q
      <4> QED BY <4>2
    <3>4. \A j \in 1..Len(backlog'[socket]) : backlog'[socket][j] = q[j + 1]
      BY <1>1, <3>1
    <3>5. q[i + 1] \in Clients /\ status[q[i + 1]] = "waiting" /\ Via[q[i + 1]] = socket
      BY <1>1, <1>4, <2>1, <3>2 DEF q
    <3> QED BY <1>3, <3>2, <3>3, <3>4, <3>5
  <2>2. CASE socket # turn
    <3>1. backlog'[socket] = backlog[socket] /\ i \in 1..Len(backlog[socket])
      BY <1>2, <2>2
    <3>2. backlog[socket][i] # q[1]
      BY <1>1, <1>4, <2>2, <3>1
    <3> QED BY <1>3, <1>4, <3>1, <3>2
  <2> QED BY <2>1, <2>2
<1> QED BY <1>5 DEF WaitingInv, Sockets

\* A client that is not in a queue may change its state.
LEMMA OthersWait ==
  ASSUME DaemonTypeOK, WaitingInv, NEW k \in Clients, status[k] # "waiting", NEW x,
         backlog' = backlog, status' = [status EXCEPT ![k] = x]
  PROVE  WaitingInv'
<1>1. \A socket \in Sockets : \A i \in 1..Len(backlog[socket]) :
        /\ backlog[socket][i] \in Clients /\ backlog[socket][i] # k
        /\ status[backlog[socket][i]] = "waiting"
        /\ Via[backlog[socket][i]] = socket
        /\ \A j \in 1..Len(backlog[socket]) : backlog[socket][i] = backlog[socket][j] => i = j
  BY WaitingFacts
<1>2. \A j \in Clients : j # k => status'[j] = status[j]
  BY DEF DaemonTypeOK
<1> QED BY <1>1, <1>2 DEF WaitingInv, Sockets

\* A client that connects is the last of the queue of its socket.
LEMMA OneMoreWaits ==
  ASSUME DaemonTypeOK, WaitingInv, NEW k \in Clients, Connect(k)
  PROVE  WaitingInv'
<1> DEFINE q == backlog[Via[k]]
<1>1. /\ q \in Seq(Clients) /\ Len(q) \in Nat /\ Via[k] \in Sockets
      /\ Len(Append(q, k)) = Len(q) + 1 /\ Append(q, k)[Len(q) + 1] = k
      /\ \A i \in 1..Len(q) : Append(q, k)[i] = q[i]
  <2>1. Via[k] \in Sockets
    BY DaemonAssumption DEF Sockets
  <2>2. q \in Seq(Clients)
    BY <2>1 DEF DaemonTypeOK, Sockets
  <2> HIDE DEF q
  <2> QED BY <2>1, <2>2, AppendFacts
<1>2. \A socket \in Sockets :
        backlog'[socket] = IF socket = Via[k] THEN Append(q, k) ELSE backlog[socket]
  BY DEF Connect, DaemonTypeOK, Sockets
<1>3. \A j \in Clients : status'[j] = IF j = k THEN "waiting" ELSE status[j]
  BY DEF Connect, DaemonTypeOK
<1>4. \A socket \in Sockets : \A i \in 1..Len(backlog[socket]) :
        /\ backlog[socket][i] \in Clients /\ backlog[socket][i] # k
        /\ status[backlog[socket][i]] = "waiting"
        /\ Via[backlog[socket][i]] = socket
        /\ \A j \in 1..Len(backlog[socket]) : backlog[socket][i] = backlog[socket][j] => i = j
  BY WaitingFacts DEF Connect
<1>5. ASSUME NEW socket \in Sockets, NEW i \in 1..Len(backlog'[socket])
      PROVE  /\ status'[backlog'[socket][i]] = "waiting"
             /\ Via[backlog'[socket][i]] = socket
             /\ \A j \in 1..Len(backlog'[socket]) :
                  backlog'[socket][i] = backlog'[socket][j] => i = j
  <2>1. CASE socket = Via[k]
    <3>1. backlog'[socket] = Append(q, k) /\ q = backlog[socket]
      BY <1>2, <2>1
    <3> HIDE DEF q
    <3>2. 1..Len(backlog'[socket]) = 1..Len(q) \cup {Len(q) + 1}
      BY <1>1, <3>1
    <3>3. \A j \in 1..Len(q) : backlog'[socket][j] = q[j] /\ q[j] # k
      BY <1>1, <1>4, <3>1
    <3>4. backlog'[socket][Len(q) + 1] = k
      BY <1>1, <3>1
    <3> QED BY <1>3, <1>4, <2>1, <3>1, <3>2, <3>3, <3>4
  <2>2. CASE socket # Via[k]
    <3>1. backlog'[socket] = backlog[socket] /\ i \in 1..Len(backlog[socket])
      BY <1>2, <2>2
    <3> QED BY <1>3, <1>4, <3>1
  <2> QED BY <2>1, <2>2
<1> QED BY <1>5 DEF WaitingInv, Sockets

\* A descriptor in somebody's hands is open, and its client as well.
LEMMA HeldFacts ==
  ASSUME DaemonInv, Alive, NEW f \in Held
  PROVE  f \in Tasks /\ client[f] \in Clients /\ status[client[f]] = "open"
<1>1. f \in Tasks /\ client[f] # None
  BY DEF DaemonInv, DescriptorsAccounted
<1>2. client[f] \in Clients
  BY <1>1 DEF DaemonInv, DaemonTypeOK
<1> QED BY <1>1, <1>2 DEF DaemonInv, DescriptorsAccounted

\* The head of a queue waits.
LEMMA HeadFacts ==
  ASSUME DaemonInv, apc = "accept", turn \in ready
  PROVE  /\ backlog[turn] # <<>> /\ Head(backlog[turn]) \in Clients
         /\ status[Head(backlog[turn])] = "waiting"
<1>1. turn \in Sockets /\ backlog[turn] \in Seq(Clients) /\ backlog[turn] # <<>>
  BY DEF DaemonInv, DaemonTypeOK, LoopInv, Ahead, Sockets
<1>2. 1 \in 1..Len(backlog[turn]) /\ Head(backlog[turn]) = backlog[turn][1]
  BY <1>1, TailFacts
<1> QED BY <1>1, <1>2, WaitingFacts DEF DaemonInv

\* The queues of the kernel hold the clients that wait, whoever is closed.
LEMMA WaitingStep ==
  IndInv /\ OnePlace /\ DaemonInv /\ [DaemonNext]_allVars => WaitingInv'
<1> SUFFICES ASSUME IndInv, OnePlace, DaemonInv, [DaemonNext]_allVars PROVE WaitingInv'
  OBVIOUS
<1> USE DEF DaemonInv
<1>1. CASE UNCHANGED <<backlog, status>>
  BY <1>1 DEF WaitingInv
<1>2. ASSUME NEW f \in Tasks, Accept(f) PROVE WaitingInv'
  BY <1>2, HeadFacts, OneTaken DEF Accept
<1>3. CASE AcceptAborted
  BY <1>3, HeadFacts, OneTaken DEF AcceptAborted
<1>4. CASE AcceptFails
  <2>1. \A socket \in Sockets : backlog'[socket] = <<>>
    BY <1>4 DEF AcceptFails, Sockets
  <2>2. \A socket \in Sockets : Len(backlog'[socket]) = 0
    BY <2>1
  <2> QED BY <2>2 DEF WaitingInv, Sockets
<1>5. CASE CloseRefused /\ Alive
  <2>1. fd \in Held
    BY <1>5 DEF CloseRefused, Held, LoopInv
  <2> QED BY <1>5, <2>1, HeldFacts, OthersWait DEF CloseRefused
<1>6. ASSUME NEW w \in Threads, Close(w), Alive PROVE WaitingInv'
  <2>1. arg[w] \in Held
    BY <1>6, MainFacts DEF Close, Perform, Held
  <2> QED BY <1>6, <2>1, HeldFacts, OthersWait DEF Close, Served
<1>7. ASSUME NEW k \in Clients, Connect(k) PROVE WaitingInv'
  BY <1>7, OneMoreWaits
<1> QED
  BY <1>1, <1>2, <1>3, <1>4, <1>5, <1>6, <1>7
     DEF DaemonNext, InAcceptLoop, InMain, InPool, InNewTask, Construct, Select, Skip,
         AcceptInterrupted, HandOver, HandedOver, TurnedDown, ReadLine, GiveUp, Serve,
         allVars, daemonVars

\* Every open descriptor is held, by one holder, and has one client.
Accounted ==
  /\ {f \in Tasks : client[f] # None} = Held
  /\ \A f, g \in Held : client[f] = client[g] => f = g
  /\ \A k \in Clients : status[k] = "open" <=> \E f \in Tasks : client[f] = k

\* The same, descriptor by descriptor
LEMMA AccountedFacts ==
  ASSUME Accounted
  PROVE  /\ \A g : g \in Held <=> g \in Tasks /\ client[g] # None
         /\ \A g, h \in Held : client[g] = client[h] => g = h
         /\ \A k \in Clients : status[k] = "open" <=> \E g \in Tasks : client[g] = k
BY DEF Accounted

\* A new connection gets a descriptor that nobody holds.
LEMMA OneOpened ==
  ASSUME DaemonTypeOK, Accounted, NEW f \in Tasks, client[f] = None,
         NEW k \in Clients, status[k] # "open", Held' = Held \cup {f},
         client' = [client EXCEPT ![f] = k], status' = [status EXCEPT ![k] = "open"]
  PROVE  Accounted'
<1>1. /\ \A g \in Tasks : client'[g] = IF g = f THEN k ELSE client[g]
      /\ \A j \in Clients : status'[j] = IF j = k THEN "open" ELSE status[j]
  BY DEF DaemonTypeOK
<1>2. k # None
  BY DaemonAssumption
<1>3. \A g \in Tasks : client[g] # k
  BY DEF Accounted
<1>4. {g \in Tasks : client'[g] # None} = Held'
  BY <1>1, <1>2 DEF Accounted
<1>5. \A g, h \in Held' : client'[g] = client'[h] => g = h
  <2>1. \A g \in Held : g \in Tasks /\ g # f /\ client'[g] = client[g] /\ client[g] # k
    BY <1>1, <1>3, AccountedFacts
  <2>2. client'[f] = k
    BY <1>1
  <2> QED BY <2>1, <2>2, AccountedFacts
<1>6. \A j \in Clients : status'[j] = "open" <=> \E g \in Tasks : client'[g] = j
  <2> TAKE j \in Clients
  <2>1. CASE j = k
    <3>1. client'[f] = k
      BY <1>1
    <3> QED BY <1>1, <2>1, <3>1
  <2>2. CASE j # k
    <3>1. j # None
      BY DaemonAssumption
    <3>2. \A g \in Tasks : client'[g] = j <=> client[g] = j
      BY <1>1, <2>2, <3>1
    <3>3. status'[j] = status[j]
      BY <1>1, <2>2
    <3>4. status[j] = "open" <=> \E g \in Tasks : client[g] = j
      BY AccountedFacts
    <3> QED BY <3>2, <3>3, <3>4
  <2> QED BY <2>1, <2>2
<1> QED BY <1>4, <1>5, <1>6 DEF Accounted

\* A connection that is closed gives its descriptor back.
LEMMA OneClosed ==
  ASSUME DaemonTypeOK, Accounted, NEW f \in Held, NEW x \in {"closed", "reset"},
         Held' = Held \ {f},
         client' = [client EXCEPT ![f] = None], status' = [status EXCEPT ![client[f]] = x]
  PROVE  Accounted'
<1>1. f \in Tasks /\ client[f] \in Clients
  <2>1. f \in Tasks /\ client[f] # None
    BY AccountedFacts
  <2> QED BY <2>1 DEF DaemonTypeOK
<1>2. /\ \A g \in Tasks : client'[g] = IF g = f THEN None ELSE client[g]
      /\ \A j \in Clients : status'[j] = IF j = client[f] THEN x ELSE status[j]
  <2>1. DOMAIN client = Tasks /\ DOMAIN status = Clients
    BY DEF DaemonTypeOK
  <2>2. \A g \in Tasks : client'[g] = IF g = f THEN None ELSE client[g]
    BY <2>1
  <2>3. \A j \in Clients : status'[j] = IF j = client[f] THEN x ELSE status[j]
    BY <2>1
  <2> QED BY <2>2, <2>3
<1>3. \A g \in Tasks : client[g] = client[f] => g = f
  BY <1>1, DaemonAssumption DEF Accounted
<1>4. {g \in Tasks : client'[g] # None} = Held'
  <2>1. \A g : g \in Held' <=> g \in Tasks /\ client[g] # None /\ g # f
    BY AccountedFacts
  <2> QED BY <1>2, <2>1
<1>5. \A g, h \in Held' : client'[g] = client'[h] => g = h
  <2>1. \A g \in Held' : g \in Held /\ client'[g] = client[g]
    BY <1>2, AccountedFacts
  <2> QED BY <2>1, AccountedFacts
<1>6. \A j \in Clients : status'[j] = "open" <=> \E g \in Tasks : client'[g] = j
  <2> TAKE j \in Clients
  <2>1. j # None
    BY DaemonAssumption
  <2>2. CASE j = client[f]
    <3>1. status'[j] # "open"
      BY <1>2, <2>2
    <3>2. \A g \in Tasks : client'[g] # j
      BY <1>2, <1>3, <2>1, <2>2
    <3> QED BY <3>1, <3>2
  <2>3. CASE j # client[f]
    <3>1. \A g \in Tasks : client'[g] = j <=> client[g] = j
      BY <1>2, <2>1, <2>3
    <3>2. status'[j] = status[j]
      BY <1>2, <2>3
    <3>3. status[j] = "open" <=> \E g \in Tasks : client[g] = j
      BY AccountedFacts
    <3> QED BY <3>1, <3>2, <3>3
  <2> QED BY <2>2, <2>3
<1> QED BY <1>4, <1>5, <1>6 DEF Accounted

\* Nothing is opened or closed.
LEMMA SameOpen ==
  ASSUME DaemonTypeOK, Accounted, Held' = Held, client' = client,
         \A k \in Clients : status'[k] = "open" <=> status[k] = "open"
  PROVE  Accounted'
BY DEF Accounted

\* The pool's share of the descriptors is open, and the acceptor's is not in it
\* except while new_task() runs.
LEMMA ShareFacts ==
  ASSUME DaemonInv, Alive
  PROVE  /\ Held = Outstanding \cup (IF fd = None THEN {} ELSE {fd})
         /\ None \notin Outstanding /\ Outstanding \subseteq Tasks
         /\ apc = "new_task" => fd \in Outstanding
         /\ apc # "new_task" => fd \notin Outstanding
<1>1. Held = Outstanding \cup (IF fd = None THEN {} ELSE {fd})
  BY DEF Held
<1>2. Outstanding \subseteq Tasks
  BY <1>1 DEF DaemonInv, DescriptorsAccounted
<1>3. apc = "new_task" => fd \in Outstanding
  BY CallFacts DEF DaemonInv, CallInv, Outstanding, InCall
<1>4. apc # "new_task" => fd \notin Outstanding
  BY DEF DaemonInv, DescriptorsAccounted
<1> QED BY <1>1, <1>2, <1>3, <1>4, DaemonAssumption

\* Each step moves a descriptor from one holder to the next, opens one that
\* nobody holds, or closes one that has left its holder's hands.
LEMMA DescriptorsStep ==
  IndInv /\ OnePlace /\ DaemonInv /\ [DaemonNext]_allVars => DescriptorsAccounted'
<1> DEFINE Free == apc # "new_task" => fd \notin Outstanding
<1> SUFFICES ASSUME IndInv, OnePlace, DaemonInv, [DaemonNext]_allVars, Alive, Alive'
             PROVE  Accounted' /\ Free'
  BY DEF DaemonNext, DescriptorsAccounted, Accounted, Alive, allVars, daemonVars
<1>1. DaemonTypeOK /\ Accounted
  BY DEF DaemonInv, DescriptorsAccounted, Accounted
<1>2. Held' = Outstanding' \cup (IF fd' = None THEN {} ELSE {fd'})
  BY DEF Held
<1>3. UNCHANGED vars => Outstanding' = Outstanding
  BY DEF vars, Outstanding, At
<1> DEFINE Quiet == /\ Outstanding' = Outstanding /\ fd' = fd /\ client' = client
                    /\ \A k \in Clients : status'[k] = "open" <=> status[k] = "open"
                    /\ (apc' = "new_task") = (apc = "new_task")
<1>4. ASSUME Quiet PROVE Accounted' /\ Free'
  <2>1. Held' = Held
    BY <1>2, <1>4, ShareFacts
  <2>2. Accounted'
    BY <1>1, <1>4, <2>1, SameOpen
  <2> QED BY <1>4, <2>2, ShareFacts
<1>5. CASE Construct \/ InNewTask \/ InPool
  <2>1. KeepsConnections
    BY <1>5, SilentFacts
  <2>2. UNCHANGED daemonVars
    BY <1>5 DEF Construct, InNewTask, InPool
  <2>3. Quiet
    BY <2>1, <2>2 DEF KeepsConnections, daemonVars
  <2> QED BY <1>4, <2>3
<1>6. CASE Select \/ Skip \/ AcceptInterrupted
  <2>1. Quiet
    BY <1>3, <1>6 DEF Select, Skip, AcceptInterrupted, MoveOn
  <2> QED BY <1>4, <2>1
<1>7. ASSUME NEW f \in Tasks, Accept(f) PROVE Accounted' /\ Free'
  <2> DEFINE k == Head(backlog[turn])
  <2>1. /\ apc = "accept" /\ turn \in ready /\ client[f] = None /\ fd' = f
        /\ apc' = "dispatch" /\ UNCHANGED vars
        /\ client' = [client EXCEPT ![f] = k] /\ status' = [status EXCEPT ![k] = "open"]
    BY <1>7 DEF Accept
  <2>2. k \in Clients /\ status[k] = "waiting"
    BY <2>1, HeadFacts
  <2> HIDE DEF k
  <2>3. fd = None /\ f # None
    BY <2>1, DaemonAssumption DEF DaemonInv, LoopInv
  <2>4. f \notin Held
    BY <1>1, <2>1, AccountedFacts
  <2>5. Held' = Held \cup {f} /\ f \notin Outstanding'
    BY <1>2, <1>3, <2>1, <2>3, <2>4, ShareFacts
  <2>6. Accounted'
    BY <1>1, <2>1, <2>2, <2>5, OneOpened
  <2> QED BY <2>1, <2>5, <2>6
<1>8. CASE AcceptAborted
  <2> DEFINE k == Head(backlog[turn])
  <2>1. /\ apc = "accept" /\ turn \in ready /\ fd' = fd /\ client' = client
        /\ apc' # "new_task" /\ UNCHANGED vars /\ status' = [status EXCEPT ![k] = "reset"]
    BY <1>8 DEF AcceptAborted, MoveOn
  <2>2. k \in Clients /\ status[k] = "waiting"
    BY <2>1, HeadFacts
  <2> HIDE DEF k
  <2>3. Quiet
    BY <1>1, <1>3, <2>1, <2>2 DEF DaemonTypeOK
  <2> QED BY <1>4, <2>3
<1>9. CASE HandOver
  <2>1. /\ fd \in Tasks /\ NewTask(Acceptor, fd, FALSE) /\ apc' = "new_task"
        /\ UNCHANGED <<fd, client, status>> /\ fd # None
    BY <1>9 DEF HandOver, DaemonInv, DaemonTypeOK, LoopInv
  <2>2. Outstanding' = Outstanding \cup {fd}
    BY <2>1, NewTaskFacts
  <2>3. Held' = Held
    BY <1>2, <2>1, <2>2, ShareFacts
  <2>4. Accounted'
    BY <1>1, <2>1, <2>3, SameOpen
  <2> QED BY <2>1, <2>4
<1>10. CASE HandedOver
  <2>1. /\ Push(Acceptor) /\ apc = "new_task" /\ fd' = None /\ UNCHANGED <<client, status>>
    BY <1>10 DEF HandedOver
  <2>2. Outstanding' = Outstanding
    BY <2>1, PushFacts
  <2>3. Held' = Held
    BY <1>2, <2>1, <2>2, ShareFacts
  <2>4. Accounted'
    BY <1>1, <2>1, <2>3, SameOpen
  <2> QED BY <2>1, <2>2, <2>4, ShareFacts
<1>11. CASE TurnedDown
  <2>1. /\ Refuse(Acceptor) /\ apc = "new_task" /\ UNCHANGED <<fd, client, status>>
        /\ fd # None /\ call[Acceptor].task = fd
    BY <1>11 DEF TurnedDown, DaemonInv, LoopInv, CallInv
  <2>2. Outstanding' = Outstanding \ {fd}
    BY <2>1, RefuseFacts
  <2>3. Held' = Held
    BY <1>2, <2>1, <2>2, ShareFacts
  <2>4. Accounted'
    BY <1>1, <2>1, <2>3, SameOpen
  <2> QED BY <2>1, <2>2, <2>4
<1>12. CASE CloseRefused
  <2>1. /\ apc = "refused" /\ fd' = None /\ UNCHANGED vars /\ fd # None
        /\ client' = [client EXCEPT ![fd] = None]
        /\ status' = [status EXCEPT ![client[fd]] = "reset"]
    BY <1>12 DEF CloseRefused, DaemonInv, LoopInv
  <2>2. fd \in Held /\ Held' = Held \ {fd}
    BY <1>2, <1>3, <2>1, ShareFacts
  <2>3. Accounted'
    BY <1>1, <2>1, <2>2, OneClosed
  <2> QED BY <1>3, <2>1, <2>3, ShareFacts
<1>13. ASSUME NEW w \in Threads, ReadLine(w) \/ GiveUp(w) \/ Serve(w) PROVE Accounted' /\ Free'
  <2>1. UNCHANGED <<vars, acceptorVars, client, status>>
    BY <1>13 DEF ReadLine, GiveUp, Serve
  <2>2. Quiet
    BY <1>3, <2>1 DEF acceptorVars
  <2> QED BY <1>4, <2>2
<1>14. ASSUME NEW w \in Threads, Close(w) PROVE Accounted' /\ Free'
  <2> DEFINE f == arg[w]
             x == IF phase[w] = "ok" THEN "closed" ELSE "reset"
  <2>1. /\ Perform(w) /\ UNCHANGED <<apc, fd>>
        /\ client' = [client EXCEPT ![f] = None] /\ status' = [status EXCEPT ![client[f]] = x]
    BY <1>14 DEF Close, acceptorVars, Served
  <2>2. f \in Outstanding /\ f # fd
    <3>1. /\ wpc[w] = "main" /\ f \in Outstanding
          /\ cpc[Acceptor] # "idle" => call[Acceptor].task # f
      BY <2>1, PerformFacts, MainFacts
    <3>2. apc = "new_task" => f # fd
      BY <3>1 DEF DaemonInv, CallInv
    <3> QED BY <3>1, <3>2, ShareFacts
  <2>3. Outstanding' = Outstanding \ {f}
    BY <2>1, PerformFacts
  <2>4. x \in {"closed", "reset"}
    OBVIOUS
  <2> HIDE DEF f, x
  <2>5. Held' = Held \ {f} /\ f \in Held
    BY <1>2, <2>1, <2>2, <2>3, ShareFacts
  <2>6. Accounted'
    BY <1>1, <2>1, <2>4, <2>5, OneClosed
  <2> QED BY <2>1, <2>3, <2>6, ShareFacts
<1>15. ASSUME NEW k \in Clients, Connect(k) PROVE Accounted' /\ Free'
  <2>1. Quiet
    BY <1>1, <1>3, <1>15 DEF Connect, acceptorVars, DaemonTypeOK
  <2> QED BY <1>4, <2>1
<1>16. CASE UNCHANGED allVars
  <2>1. Quiet
    BY <1>3, <1>16 DEF allVars, daemonVars
  <2> QED BY <1>4, <2>1
<1>17. ~AcceptFails
  BY DEF AcceptFails, Alive
<1> HIDE DEF Free
<1> QED
  BY <1>5, <1>6, <1>7, <1>8, <1>9, <1>10, <1>11, <1>12, <1>13, <1>14, <1>15, <1>16, <1>17
     DEF DaemonNext, InAcceptLoop, InMain

\* Client k has its answer, and the thread that served it will close it in order.
AboutToClose(k) == \E w \in Threads : wpc[w] = "main" /\ phase[w] = "ok" /\ Served(w) = k

\* Whoever closes a connection, it is not one whose answer another thread has
\* just written: the descriptors differ.
LEMMA AnsweredStep ==
  IndInv /\ OnePlace /\ DaemonInv /\ [DaemonNext]_allVars => AnsweredInv'
<1> DEFINE Done == \A k \in Clients :
                     reply'[k] = "answer" => status'[k] = "closed" \/ AboutToClose(k)'
<1> SUFFICES ASSUME IndInv, OnePlace, DaemonInv, [DaemonNext]_allVars, Alive, Alive' PROVE Done
  BY DEF DaemonNext, AnsweredInv, AboutToClose, Alive, allVars, daemonVars
<1>1. \A k \in Clients : reply[k] = "answer" => status[k] = "closed" \/ AboutToClose(k)
  BY DEF DaemonInv, AnsweredInv, AboutToClose
<1>2. ASSUME NEW w \in Threads, wpc[w] = "main"
      PROVE  /\ arg[w] \in Tasks /\ arg[w] \in Held /\ Served(w) \in Clients
             /\ status[Served(w)] = "open"
  BY <1>2, MainFacts, ShareFacts, HeldFacts DEF Served
<1>3. \A k \in Clients : AboutToClose(k) => status[k] = "open"
  BY <1>2 DEF AboutToClose
\* A step that leaves the threads in main() and their clients alone
<1>4. ASSUME KeepsMains, UNCHANGED <<phase, reply>>,
             \A w \in Threads : wpc[w] = "main" => client'[arg[w]] = client[arg[w]],
             \A k \in Clients : status[k] = "closed" => status'[k] = "closed"
      PROVE  Done
  <2>1. \A w \in Threads : wpc[w] = "main" => wpc'[w] = "main" /\ Served(w)' = Served(w)
    BY <1>4 DEF KeepsMains, Served
  <2>2. \A k \in Clients : AboutToClose(k) => AboutToClose(k)'
    BY <1>4, <2>1 DEF AboutToClose
  <2> QED BY <1>1, <1>4, <2>2
<1>5. UNCHANGED vars => KeepsMains
  BY DEF vars, workerVars, KeepsMains
<1>6. CASE UNCHANGED <<client, status, phase, reply>> /\ KeepsMains
  BY <1>4, <1>6
<1>7. CASE Construct \/ InNewTask \/ InPool
  <2>1. KeepsMains
    BY <1>7, SilentFacts DEF KeepsConnections
  <2>2. UNCHANGED daemonVars
    BY <1>7 DEF Construct, InNewTask, InPool
  <2> QED BY <1>6, <2>1, <2>2 DEF daemonVars
<1>8. CASE HandOver \/ HandedOver \/ TurnedDown
  <2>1. ASSUME HandOver PROVE KeepsMains
    <3>1. fd \in Tasks /\ NewTask(Acceptor, fd, FALSE)
      BY <2>1 DEF HandOver, DaemonInv, DaemonTypeOK, LoopInv
    <3> QED BY <3>1, NewTaskFacts
  <2>2. ASSUME HandedOver PROVE KeepsMains
    BY <2>2, PushFacts DEF HandedOver
  <2>3. ASSUME TurnedDown PROVE KeepsMains
    BY <2>3, RefuseFacts DEF TurnedDown
  <2>4. UNCHANGED <<client, status, phase, reply>>
    BY <1>8 DEF HandOver, HandedOver, TurnedDown
  <2> QED BY <1>6, <1>8, <2>1, <2>2, <2>3, <2>4
<1>9. ASSUME NEW f \in Tasks, Accept(f) PROVE Done
  <2> DEFINE k == Head(backlog[turn])
  <2>1. /\ apc = "accept" /\ turn \in ready /\ client[f] = None
        /\ UNCHANGED <<vars, phase, reply>>
        /\ client' = [client EXCEPT ![f] = k] /\ status' = [status EXCEPT ![k] = "open"]
    BY <1>9 DEF Accept
  <2>2. k \in Clients /\ status[k] = "waiting"
    BY <2>1, HeadFacts
  <2> HIDE DEF k
  <2>3. \A j \in Clients : status[j] = "closed" => status'[j] = "closed"
    BY <2>1, <2>2 DEF DaemonInv, DaemonTypeOK
  <2>4. \A w \in Threads : wpc[w] = "main" => client'[arg[w]] = client[arg[w]]
    <3>1. \A w \in Threads : wpc[w] = "main" => arg[w] \in Tasks /\ client[arg[w]] # None
      BY <1>2, DaemonAssumption DEF Served
    <3> QED BY <2>1, <3>1 DEF DaemonInv, DaemonTypeOK
  <2> HIDE DEF Done
  <2> QED BY <1>4, <1>5, <2>1, <2>3, <2>4
<1>10. CASE AcceptAborted
  <2> DEFINE k == Head(backlog[turn])
  <2>1. /\ apc = "accept" /\ turn \in ready /\ UNCHANGED <<vars, client, phase, reply>>
        /\ status' = [status EXCEPT ![k] = "reset"]
    BY <1>10 DEF AcceptAborted
  <2>2. k \in Clients /\ status[k] = "waiting"
    BY <2>1, HeadFacts
  <2> HIDE DEF k
  <2>3. \A j \in Clients : status[j] = "closed" => status'[j] = "closed"
    BY <2>1, <2>2 DEF DaemonInv, DaemonTypeOK
  <2> HIDE DEF Done
  <2> QED BY <1>4, <1>5, <2>1, <2>3
<1>11. CASE CloseRefused
  <2>1. /\ apc = "refused" /\ fd # None /\ UNCHANGED <<vars, phase, reply>>
        /\ client' = [client EXCEPT ![fd] = None]
        /\ status' = [status EXCEPT ![client[fd]] = "reset"]
    BY <1>11 DEF CloseRefused, DaemonInv, LoopInv
  <2>2. fd \in Held /\ fd \notin Outstanding
    BY <2>1, ShareFacts
  <2>3. client[fd] \in Clients /\ status[client[fd]] = "open"
    BY <2>2, HeldFacts
  <2>4. \A j \in Clients : status[j] = "closed" => status'[j] = "closed"
    BY <2>1, <2>3 DEF DaemonInv, DaemonTypeOK
  <2>5. \A w \in Threads : wpc[w] = "main" => client'[arg[w]] = client[arg[w]]
    BY <2>1, <2>2, MainFacts DEF DaemonInv, DaemonTypeOK
  <2> HIDE DEF Done
  <2> QED BY <1>4, <1>5, <2>1, <2>4, <2>5
<1>12. ASSUME NEW w \in Threads, ReadLine(w) \/ GiveUp(w) PROVE Done
  <2>1. /\ phase[w] = "read" /\ UNCHANGED <<vars, client, status, reply>>
        /\ \A v \in Threads \ {w} : phase'[v] = phase[v]
    BY <1>12 DEF ReadLine, GiveUp, DaemonInv, DaemonTypeOK
  <2>2. \A v \in Threads : phase[v] = "ok" => phase'[v] = "ok"
    BY <2>1
  <2>3. wpc' = wpc /\ \A v : Served(v)' = Served(v)
    BY <2>1 DEF vars, workerVars, Served
  <2>4. \A k \in Clients : AboutToClose(k) => AboutToClose(k)'
    BY <2>2, <2>3 DEF AboutToClose
  <2> QED BY <1>1, <2>1, <2>4
<1>13. ASSUME NEW w \in Threads, Serve(w) PROVE Done
  <2>1. /\ wpc[w] = "main" /\ phase[w] = "serve" /\ UNCHANGED <<vars, client, status>>
        /\ \A v \in Threads \ {w} : phase'[v] = phase[v]
        /\ \A k \in Clients \ {Served(w)} : reply'[k] = reply[k]
    BY <1>13 DEF Serve, DaemonInv, DaemonTypeOK
  <2>2. Served(w) \in Clients
    BY <1>2, <2>1
  <2>3. reply'[Served(w)] = "answer" => phase'[w] = "ok"
    BY <1>13, <2>2 DEF Serve, DaemonInv, DaemonTypeOK
  <2>4. \A v \in Threads : phase[v] = "ok" => phase'[v] = "ok"
    BY <2>1
  <2>5. wpc' = wpc /\ \A v : Served(v)' = Served(v)
    BY <2>1 DEF vars, workerVars, Served
  <2>6. \A k \in Clients : AboutToClose(k) => AboutToClose(k)'
    BY <2>4, <2>5 DEF AboutToClose
  <2>7. ASSUME NEW k \in Clients, k = Served(w), reply'[k] = "answer" PROVE AboutToClose(k)'
    <3>1. wpc'[w] = "main" /\ phase'[w] = "ok" /\ Served(w)' = k
      BY <2>1, <2>3, <2>5, <2>7
    <3> QED BY <3>1 DEF AboutToClose
  <2>8. ASSUME NEW k \in Clients, reply'[k] = "answer"
        PROVE  status'[k] = "closed" \/ AboutToClose(k)'
    <3>1. CASE k = Served(w)
      BY <2>7, <2>8, <3>1
    <3>2. CASE k # Served(w)
      BY <1>1, <2>1, <2>6, <2>8, <3>2
    <3> QED BY <3>1, <3>2
  <2> QED BY <2>8
<1>14. ASSUME NEW w \in Threads, Close(w) PROVE Done
  <2>1. /\ Perform(w) /\ reply' = reply
        /\ client' = [client EXCEPT ![arg[w]] = None]
        /\ status' = [status EXCEPT ![Served(w)] = IF phase[w] = "ok" THEN "closed" ELSE "reset"]
        /\ phase' = [phase EXCEPT ![w] = "read"]
    BY <1>14 DEF Close
  <2>2. /\ wpc[w] = "main"
        /\ \A v \in Threads \ {w} : wpc[v] = "main" => wpc'[v] = "main" /\ arg'[v] = arg[v]
    BY <2>1, PerformFacts
  <2>3. Served(w) \in Clients /\ status[Served(w)] = "open"
    BY <1>2, <2>2
  <2>4. \A v \in Threads \ {w} : wpc[v] = "main" => arg[v] # arg[w] /\ arg[v] \in Tasks
    BY <2>2, MainFacts
  <2>5. \A v \in Threads \ {w} :
          wpc[v] = "main" => /\ wpc'[v] = "main" /\ phase'[v] = phase[v]
                             /\ Served(v)' = Served(v)
    <3> TAKE v \in Threads \ {w}
    <3> HAVE wpc[v] = "main"
    <3>1. wpc'[v] = "main" /\ arg'[v] = arg[v] /\ arg[v] # arg[w] /\ arg[v] \in Tasks
      BY <2>2, <2>4
    <3>2. client'[arg[v]] = client[arg[v]] /\ phase'[v] = phase[v]
      BY <2>1, <3>1 DEF DaemonInv, DaemonTypeOK
    <3> QED BY <3>1, <3>2 DEF Served
  <2>6. ASSUME NEW k \in Clients, AboutToClose(k)
        PROVE  status'[k] = "closed" \/ AboutToClose(k)'
    <3>1. PICK v \in Threads : wpc[v] = "main" /\ phase[v] = "ok" /\ Served(v) = k
      BY <2>6 DEF AboutToClose
    <3>2. CASE v = w
      BY <2>1, <2>3, <3>1, <3>2 DEF DaemonInv, DaemonTypeOK
    <3>3. CASE v # w
      BY <2>5, <3>1, <3>3 DEF AboutToClose
    <3> QED BY <3>2, <3>3
  <2>7. \A k \in Clients : status[k] = "closed" => status'[k] = "closed"
    BY <2>1, <2>3 DEF DaemonInv, DaemonTypeOK
  <2> QED BY <1>1, <2>1, <2>6, <2>7
<1>15. ASSUME NEW k \in Clients, Connect(k) PROVE Done
  <2>1. /\ UNCHANGED <<vars, client, phase, reply>> /\ status[k] = "away"
        /\ status' = [status EXCEPT ![k] = "waiting"]
    BY <1>15 DEF Connect
  <2>2. \A j \in Clients : status[j] = "closed" => status'[j] = "closed"
    BY <2>1 DEF DaemonInv, DaemonTypeOK
  <2> HIDE DEF Done
  <2> QED BY <1>4, <1>5, <2>1, <2>2
<1>16. CASE Select \/ Skip \/ AcceptInterrupted \/ UNCHANGED allVars
  <2>1. UNCHANGED <<vars, client, status, phase, reply>>
    BY <1>16 DEF Select, Skip, AcceptInterrupted, allVars, daemonVars
  <2> QED BY <1>5, <1>6, <2>1
<1>17. ~AcceptFails
  BY DEF AcceptFails, Alive
<1> HIDE DEF Done
<1> QED
  BY <1>7, <1>8, <1>9, <1>10, <1>11, <1>12, <1>13, <1>14, <1>15, <1>16, <1>17
     DEF DaemonNext, InAcceptLoop, InMain

-----------------------------------------------------------------------------
(* What the daemon owes its clients.                                       *)

\* It holds at first.
LEMMA DaemonInitInv == DaemonInit => DaemonInv
<1> SUFFICES ASSUME DaemonInit PROVE DaemonInv
  OBVIOUS
<1>1. DaemonTypeOK /\ LoopInv
  BY LoopInit
<1>2. CallInv
  BY DaemonAssumption DEF DaemonInit, Init, CallInv
<1>3. WaitingInv
  <2>1. \A socket \in Sockets : Len(backlog[socket]) = 0
    BY DEF DaemonInit, Sockets
  <2> QED BY <2>1 DEF WaitingInv, Sockets
<1>4. DescriptorsAccounted
  <2>1. InCall = {} /\ Queued = {} /\ InHand = {}
    BY DEF DaemonInit, Init, InCall, Queued, InHand, At, Performing
  <2>2. Outstanding = {} /\ fd = None
    BY <2>1 DEF DaemonInit, Outstanding, InCall, Queued, InHand
  <2>3. Held = {}
    BY <2>2 DEF Held
  <2> QED BY <2>2, <2>3, DaemonAssumption DEF DaemonInit, DescriptorsAccounted
<1>5. AnsweredInv
  BY DEF DaemonInit, AnsweredInv
<1> QED BY <1>1, <1>2, <1>3, <1>4, <1>5 DEF DaemonInv

\* The daemon's inductive invariant, which rests on that of its pool
THEOREM DaemonInductive == DaemonSpec => []DaemonInv
<1>1. DaemonSpec => []IndInv /\ []OnePlace
  BY DaemonUsesPool, Inductive, EachTaskInOnePlace, PTL
<1>2. IndInv /\ OnePlace /\ DaemonInv /\ [DaemonNext]_allVars => DaemonInv'
  BY LoopStep, CallStep, WaitingStep, DescriptorsStep, AnsweredStep DEF DaemonInv
<1> QED BY <1>1, <1>2, DaemonInitInv, PTL DEF DaemonSpec

\* Every variable of the daemon has its type.
THEOREM DaemonTypes == DaemonSpec => []DaemonTypeOK
<1>1. DaemonInv => DaemonTypeOK
  BY DEF DaemonInv
<1> QED BY DaemonInductive, <1>1, PTL

\* No descriptor leaks, and none is closed or written to once it may belong to
\* another client, however the pool's threads and the acceptor interleave.
THEOREM NoDescriptorLeaks == DaemonSpec => []DescriptorsAccounted
<1>1. DaemonInv => DescriptorsAccounted
  BY DEF DaemonInv
<1> QED BY DaemonInductive, <1>1, PTL

\* An answer that was written is never discarded by a reset.
THEOREM AnswersArrive == DaemonSpec => []AnswerNeverDiscarded
<1>1. ASSUME IndInv, OnePlace, DaemonInv, Alive, NEW k \in Clients, reply[k] = "answer"
      PROVE  status[k] # "reset"
  <2>1. CASE status[k] = "closed"
    BY <2>1
  <2>2. CASE status[k] # "closed"
    <3>1. PICK w \in Threads : wpc[w] = "main" /\ Served(w) = k
      BY <1>1, <2>2 DEF DaemonInv, AnsweredInv
    <3>2. arg[w] \in Held
      BY <1>1, <3>1, MainFacts, ShareFacts
    <3> QED BY <1>1, <3>1, <3>2, HeldFacts DEF Served
  <2> QED BY <2>1, <2>2
<1>2. IndInv /\ OnePlace /\ DaemonInv => AnswerNeverDiscarded
  BY <1>1 DEF AnswerNeverDiscarded
<1>3. DaemonSpec => []IndInv /\ []OnePlace
  BY DaemonUsesPool, Inductive, EachTaskInOnePlace, PTL
<1> QED BY DaemonInductive, <1>2, <1>3, PTL

=============================================================================
