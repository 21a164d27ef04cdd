-------------------------- MODULE ThreadPoolProps --------------------------
(***************************************************************************)
(* What the thread pool is to guarantee: types, invariants, the inductive  *)
(* invariant they follow from, what no step may do, liveness under the     *)
(* fairness of the scheduler, and the promise it implements.               *)
(***************************************************************************)
EXTENDS ThreadPool

-----------------------------------------------------------------------------
(* Types.                                                                  *)

CallPlaces == {"idle", "check", "all_busy", "insert", "blocked", "relock_threads", "push"}

\* Every variable has its type.
TypeOK ==
  /\ threads \in SUBSET Threads
  /\ t_lock \in Callers \cup {Constructor, None}
  /\ t_busy \in Nat
  /\ queue \in Seq(Tasks)
  /\ q_lock \in Threads \cup {None}
  /\ wpc \in [Threads -> Places]
  /\ timed_out \in [Threads -> BOOLEAN]
  /\ arg \in [Threads -> Tasks \cup {None}]
  /\ cpc \in [Callers -> CallPlaces]
  /\ call \in [Callers -> [task   : Tasks \cup {None},
                           block  : BOOLEAN,
                           thread : Threads \cup {None}]]

-----------------------------------------------------------------------------
(* What can never be.                                                      *)

Constructed == t_lock # Constructor

\* The pool never shrinks below min_threads_ and never grows above the larger
\* of its two limits.  A dying thread compares threads_.size() with the
\* minimum, lets t_lock_ go and takes it again to erase itself: only q_lock_,
\* held all along, keeps a second one from doing the same in between.
PoolSizeInBounds == Constructed => Size \in MinThreads..SizeLimit

\* new_task() tests t_busy_ == threads_.size() for equality, so a counter that
\* ever ran past the set's size would make a full pool look idle.  It cannot
\* where new_task() looks, although a thread marks itself busy after it left
\* the queue and may do so before it is in the set.
BusyNeverExceedsPool ==
  \A c \in Callers : cpc[c] = "check" => t_busy <= Size

\* When new_task() is about to clone *threads_.begin(), the set has a first
\* element, and none of its elements is being destroyed: create() on a thread
\* whose destructor has begun would be a call of a pure virtual function.
PrototypeIsAlive ==
  \A c \in Callers :
    cpc[c] = "all_busy" =>
      threads # {} /\ \A w \in threads : wpc[w] \notin {"none", "suicide", "exit"}

\* No wakeup is lost: while any thread sleeps in a wait on q_not_empty_, as
\* many threads as there are queued tasks are awake and on their way to the
\* queue.  (q_not_empty_ is signalled once per task, never broadcast.)
Fetching == {"lock_queue", "relock_queue", "test"}

NoWakeupLost ==
  At(Sleeping) # {} => Len(queue) <= Cardinality(At(Fetching))

\* No caller of new_task( arg, true ) waits on t_idle_ while all the pool
\* sleeps: a thread that will signal t_idle_ is still awake, or another caller
\* is about to give one of the sleepers work.
NoCallerStranded ==
  Blocked # {} =>
    \/ \E w \in threads : wpc[w] \in Fetching \cup Performing \cup CountedBusy
    \/ \E c \in Callers : cpc[c] \in {"relock_threads", "push"}

\* thread_pool.h promises that "the pool size grows dynamically when there are
\* more tasks in the queue than threads"; the code grows it when every thread
\* is counted busy, and a thread is not counted until some time after a task
\* was queued for it.
GrowsWhenBacklogged ==
  (\A c \in Callers : cpc[c] = "idle") /\ Len(queue) > Size => Size >= MaxThreads

-----------------------------------------------------------------------------
(* Why it cannot be: the inductive invariant.                              *)

Unborn == {"none", "new", "exit"}   \* not, or no longer, in the pool's set

LockInv ==
  /\ \A w \in Threads : wpc[w] \in HoldsQueue <=> q_lock = w
  /\ \A c \in Callers : cpc[c] \in {"check", "all_busy", "insert"} <=> t_lock = c

\* Until the constructor lets t_lock_ go there is no task, and no thread gets
\* further than to find the queue empty.
ConstructionInv ==
  /\ ~Constructed =>
       /\ queue = <<>>
       /\ \A w \in Threads : wpc[w] \notin CountedBusy \cup Performing
       /\ \A c \in Callers : cpc[c] = "idle"
       /\ Size <= MinThreads
  /\ \A w \in Threads : wpc[w] = "new" => ~Constructed /\ threads = {}
  /\ \A v, w \in Threads : wpc[v] = "new" /\ wpc[w] = "new" => v = w

\* The threads that run are those in the set and the one being inserted.
MemberInv ==
  /\ \A w \in threads : wpc[w] \notin Unborn
  /\ \A w \in Threads \ threads :
       wpc[w] \notin Unborn =>
         \E c \in Callers : cpc[c] = "insert" /\ call[c].thread = w
  /\ \A c \in Callers :
       cpc[c] = "insert" =>
         /\ Size < MaxThreads
         /\ call[c].thread \in Threads \ threads
         /\ wpc[call[c].thread] \in {"lock_queue", "test"} \cup Performing \cup CountedBusy

\* A thread that decided to die, or to sleep, saw an empty queue and a pool
\* above its minimum, and both stay so until it has done it.
DyingInv ==
  /\ \A w \in Threads :
       /\ wpc[w] = "suicide" => Size > MinThreads
       /\ wpc[w] \in HoldsQueue \ {"test"} => queue = <<>>
  /\ \A c \in Callers, w \in Threads : cpc[c] = "all_busy" => wpc[w] # "suicide"

CountInv == t_busy = Cardinality(At(CountedBusy))

\* Whoever has a task in hand has a real one.
HeldInv ==
  /\ \A w \in Threads : wpc[w] \in Performing => arg[w] \in Tasks
  /\ \A c \in Callers : cpc[c] # "idle" => call[c].task \in Tasks

IndInv ==
  /\ TypeOK
  /\ LockInv
  /\ HeldInv
  /\ ConstructionInv
  /\ MemberInv
  /\ DyingInv
  /\ CountInv
  /\ PoolSizeInBounds
  /\ NoWakeupLost

\* From the time new_task() found every thread busy until it lets t_lock_ go, no
\* thread of the pool goes to sleep or dies: it would need t_lock_ for either.
AwakeInv ==
  \A c \in Callers, w \in threads :
    cpc[c] = "all_busy" => wpc[w] \in CountedBusy \cup Performing \cup {"lock_queue", "test"}

\* A task is in one place: one caller's hands, one place of the queue, or one
\* worker's hands.
OnePlace ==
  /\ \A i, j \in 1..Len(queue) : queue[i] = queue[j] => i = j
  /\ \A v, w \in At(Performing) : arg[v] = arg[w] => v = w
  /\ \A w \in At(Performing), i \in 1..Len(queue) : arg[w] # queue[i]
  /\ \A c \in Callers :
       cpc[c] # "idle" =>
         /\ \A d \in Callers : cpc[d] # "idle" /\ call[c].task = call[d].task => c = d
         /\ \A i \in 1..Len(queue) : call[c].task # queue[i]
         /\ \A w \in At(Performing) : call[c].task # arg[w]

-----------------------------------------------------------------------------
(* What a step may never do.                                               *)

\* A thread leaves the pool's set only when it has no task, the queue is empty
\* and more than the minimum are in the set: the test made before the
\* destructor ran still holds when it erases the thread.
OnlySurplusThreadsDie ==
  [][\A w \in threads :
       w \notin threads' =>
         queue = <<>> /\ wpc[w] \notin Performing /\ Size > MinThreads]_vars

\* new_task() refuses a task, or blocks, only while no thread of the pool
\* sleeps: a thread may have finished its task since all_are_busy was computed,
\* but it cannot have gone to sleep without the t_lock_ that the caller holds.
RefusedOnlyWhenNoneSleeps ==
  [][\A c \in Callers :
       cpc[c] = "all_busy" /\ cpc'[c] \in {"idle", "blocked"} =>
         Size >= MaxThreads /\ threads \cap At(Sleeping) = {}]_vars

-----------------------------------------------------------------------------
(* Fairness.  A thread that can take a step is scheduled eventually (WF).  *)
(* A mutex that is free again and again is not withheld from one waiter    *)
(* for ever (SF on the steps that lock), a timed wait that is entered      *)
(* again and again does not always end early (SF on TimeOut), and main()   *)
(* returns: the daemon's limits reading by SocketTimeout.  Nobody has to   *)
(* call new_task(), and no wakeup has to be spurious.                      *)

Running(w) ==
  \/ InsertPrototype(w) \/ InsertInitial(w)
  \/ Sleep(w) \/ Dequeue(w) \/ MarkBusy(w) \/ Perform(w) \/ MarkIdle(w) \/ Exit(w)
Locking(w) == LockQueue(w) \/ RelockQueue(w) \/ CheckSize(w) \/ Erase(w)

Calling(c) ==
  \/ FindAllBusy(c) \/ FindIdle(c)
  \/ \E w \in Threads : Create(c, w)
  \/ Insert(c) \/ Block(c) \/ Refuse(c)
CallLocking(c) == Unblock(c) \/ Push(c)

Fairness ==
  /\ WF_vars(FinishConstruction)
  /\ \A w \in Threads :
       WF_vars(Running(w)) /\ SF_vars(Locking(w)) /\ SF_vars(TimeOut(w))
  /\ \A c \in Callers : WF_vars(Calling(c)) /\ SF_vars(CallLocking(c))

FairSpec == Spec /\ Fairness

\* Once new_task() is not called any more, the pool goes back to its original
\* size and stays there (thread_pool.h: "Threads will die off if idle past a
\* timeout and the pool will return to its original size").
ShrinksToMinimum ==
  <>[](\A c \in Callers : cpc[c] = "idle") => <>[](Size = MinThreads)

\* A call of new_task() returns, one that blocks included.
CallsReturn ==
  \A c \in Callers : cpc[c] # "idle" ~> cpc[c] = "idle"

-----------------------------------------------------------------------------
(* What the pool promises, module TaskService.                             *)

InHand == {arg[w] : w \in At(Performing)}

Service ==
  INSTANCE TaskService WITH
    Limit   <- SizeLimit,
    pending <- queue,
    running <- InHand

ServiceSpec     == Service!Spec
ServiceFairSpec == Service!FairSpec
=============================================================================
