----------------------------- MODULE ThreadPool -----------------------------
(***************************************************************************)
(* The thread pool of the search daemon, PJL::thread_pool                  *)
(* (src/src/pjl/thread_pool.{h,cpp}): worker threads that take tasks off a *)
(* shared queue, a pool that grows when every worker is busy, and surplus  *)
(* workers that delete themselves after an idle timeout.                   *)
(*                                                                         *)
(* The mutexes q_lock_ and t_lock_ are held across steps and kept as the   *)
(* variables q_lock and t_lock (their owner).  t_busy_lock_ only ever      *)
(* guards one read or one increment of t_busy_, so a critical section      *)
(* under it is one step; so is one under t_lock_ in which nothing else is  *)
(* locked or waited for.                                                   *)
(***************************************************************************)
EXTENDS Naturals, Sequences, FiniteSets

CONSTANTS
  Threads,      \* identities (addresses) a thread object can have
  Tasks,        \* what new_task() is given: file descriptors of connections
  Callers,      \* threads that call new_task()
  Constructor,  \* the thread that runs thread_pool::thread_pool()
  None,         \* no thread (the owner of an unlocked mutex), no task
  MinThreads,   \* min_threads_
  MaxThreads,   \* max_threads_
  Blocking      \* the values of new_task's "block" that callers pass

\* ThreadsMin is at least 1 (src/src/ThreadsMin.h); nothing relates it to
\* ThreadsMax.  At most one thread is between leaving the set and exiting, so
\* one address more than the set can hold is always enough.
ASSUME PoolAssumption ==
  /\ MinThreads \in Nat \ {0}
  /\ MaxThreads \in Nat
  /\ IsFiniteSet(Threads)
  /\ Cardinality(Threads) > MinThreads
  /\ Cardinality(Threads) > MaxThreads
  /\ None \notin Threads \cup Callers
  /\ Constructor \notin Callers \cup {None}
  /\ Blocking \subseteq BOOLEAN

VARIABLES
  threads,    \* threads_: the pool's set of threads
  t_lock,     \* owner of t_lock_, as it is held across steps
  t_busy,     \* t_busy_
  queue,      \* queue_
  q_lock,     \* owner of q_lock_
  wpc,        \* where each worker is in thread_pool_thread_main()
  timed_out,  \* each worker's result == ETIMEDOUT
  arg,        \* each worker's local arg
  cpc,        \* where each caller is in new_task()
  call        \* each caller's arguments, and the thread it is creating

vars == <<threads, t_lock, t_busy, queue, q_lock, wpc, timed_out, arg, cpc, call>>
workerVars == <<wpc, timed_out, arg>>
callerVars == <<cpc, call>>

-----------------------------------------------------------------------------
(* Places of a worker.                                                     *)

Sleeping    == {"waiting", "timed_waiting"}       \* in pthread_cond_(timed)wait
Performing  == {"mark_busy", "main"}              \* a task is in its hands
CountedBusy == {"main", "mark_idle"}              \* it is one of t_busy_
HoldsQueue  == {"test", "wait", "timed_wait", "suicide", "exit"}
Places      == {"none", "new", "lock_queue", "relock_queue", "mark_busy"}
                 \cup Sleeping \cup CountedBusy \cup HoldsQueue

At(places) == {w \in Threads : wpc[w] \in places}

Size     == Cardinality(threads)
\* Mutant: one idle thread is taken for none.
AllBusyButOne == t_busy + 1 >= Cardinality(threads)
\* Mutant: an inequality the wrong way round.
AllBusyAtMost == t_busy <= Cardinality(threads)

AllBusy  == t_busy = Size

\* Mutants: < for <=, and a pool that never shrinks.
SurplusAtMinimum == Size >= MinThreads
NoSurplus == FALSE

\* More threads exist than the minimum: the negation of the code's "no".
Surplus == Size > MinThreads

SizeLimit == IF MaxThreads < MinThreads THEN MinThreads ELSE MaxThreads

(* Tasks that were handed to new_task() and are not done: open connections. *)
Outstanding ==
  {call[c].task : c \in {d \in Callers : cpc[d] # "idle"}}
    \cup {queue[i] : i \in 1..Len(queue)}
    \cup {arg[w] : w \in At(Performing)}

\* Mutant: the signal is forgotten.
SignalNobody == UNCHANGED wpc

(* pthread_cond_signal: one thread that waits, if any does, stops waiting. *)
SignalQueueNotEmpty ==
  IF At(Sleeping) = {}
  THEN UNCHANGED wpc
  ELSE \E w \in At(Sleeping) : wpc' = [wpc EXCEPT ![w] = "relock_queue"]

Blocked == {c \in Callers : cpc[c] = "blocked"}

\* Mutant: the signal is forgotten.
SignalNoCaller == UNCHANGED cpc

SignalIdle ==
  IF Blocked = {}
  THEN UNCHANGED cpc
  ELSE \E c \in Blocked : cpc' = [cpc EXCEPT ![c] = "relock_threads"]

NoCall == [task |-> None, block |-> FALSE, thread |-> None]

GoTo(w, place) == wpc' = [wpc EXCEPT ![w] = place]

-----------------------------------------------------------------------------
(* The constructor.  The prototype's POSIX thread exists before the pool   *)
(* does and is kept off the pool's members by its run_lock_.               *)

Init ==
  /\ threads = {}
  /\ t_lock = Constructor
  /\ t_busy = 0
  /\ queue = <<>>
  /\ q_lock = None
  /\ \E prototype \in Threads :
       wpc = [w \in Threads |-> IF w = prototype THEN "new" ELSE "none"]
  /\ timed_out = [w \in Threads |-> FALSE]
  /\ arg = [w \in Threads |-> None]
  /\ cpc = [c \in Callers |-> "idle"]
  /\ call = [c \in Callers |-> NoCall]

\* threads_.insert( prototype ); prototype->run()
InsertPrototype(w) ==
  /\ t_lock = Constructor
  /\ wpc[w] = "new"
  /\ threads' = threads \cup {w}
  /\ GoTo(w, "lock_queue")
  /\ UNCHANGED <<t_lock, t_busy, queue, q_lock, timed_out, arg, callerVars>>

\* The rest of the initial threads: threads_.insert( prototype->create_and_run() )
InsertInitial(w) ==
  /\ t_lock = Constructor
  /\ threads # {}
  /\ Size < MinThreads
  /\ wpc[w] = "none"
  /\ threads' = threads \cup {w}
  /\ GoTo(w, "lock_queue")
  /\ UNCHANGED <<t_lock, t_busy, queue, q_lock, timed_out, arg, callerVars>>

\* The end of the constructor: from here on new_task() can be called.
FinishConstruction ==
  /\ t_lock = Constructor
  /\ Size >= MinThreads
  /\ t_lock' = None
  /\ UNCHANGED <<threads, t_busy, queue, q_lock, workerVars, callerVars>>

-----------------------------------------------------------------------------
(* thread_pool_thread_main().                                              *)

\* result = 0; MUTEX_LOCK( q_lock_ )
LockQueue(w) ==
  /\ wpc[w] = "lock_queue"
  /\ q_lock = None
  /\ q_lock' = w
  /\ timed_out' = [timed_out EXCEPT ![w] = FALSE]
  /\ GoTo(w, "test")
  /\ UNCHANGED <<threads, t_lock, t_busy, queue, arg, callerVars>>

\* The queue is empty: compare the pool's size with the minimum and signal
\* t_idle_ under t_lock_, then decide how to wait, or not to.
CheckSize(w) ==
  /\ wpc[w] = "test"
  /\ queue = <<>>
  /\ t_lock = None
  /\ SignalIdle
  /\ \/ ~Surplus /\ GoTo(w, "wait")
     \/ Surplus /\ timed_out[w] /\ GoTo(w, "suicide")
     \/ Surplus /\ ~timed_out[w] /\ GoTo(w, "timed_wait")
  /\ UNCHANGED <<threads, t_lock, t_busy, queue, q_lock, timed_out, arg, call>>

\* pthread_cond_wait() and pthread_cond_timedwait() release q_lock_ as the
\* thread starts to wait; either way the old result is overwritten.
Sleep(w) ==
  /\ \/ wpc[w] = "wait" /\ GoTo(w, "waiting")
     \/ wpc[w] = "timed_wait" /\ GoTo(w, "timed_waiting")
  /\ timed_out' = [timed_out EXCEPT ![w] = FALSE]
  /\ q_lock' = None
  /\ UNCHANGED <<threads, t_lock, t_busy, queue, arg, callerVars>>

\* pthread_cond_timedwait() returns ETIMEDOUT.
TimeOut(w) ==
  /\ wpc[w] = "timed_waiting"
  /\ timed_out' = [timed_out EXCEPT ![w] = TRUE]
  /\ GoTo(w, "relock_queue")
  /\ UNCHANGED <<threads, t_lock, t_busy, queue, q_lock, arg, callerVars>>

\* POSIX lets either wait return without a signal.
WakeSpuriously(w) ==
  /\ wpc[w] \in Sleeping
  /\ GoTo(w, "relock_queue")
  /\ UNCHANGED <<threads, t_lock, t_busy, queue, q_lock, timed_out, arg, callerVars>>

\* Mutant: the wait returns without the lock.
RelockNothing(w) ==
  /\ wpc[w] = "relock_queue"
  /\ GoTo(w, "test")
  /\ UNCHANGED <<threads, t_lock, t_busy, queue, q_lock, timed_out, arg, callerVars>>

\* The wait reacquires q_lock_ before it returns to the while loop.
RelockQueue(w) ==
  /\ wpc[w] = "relock_queue"
  /\ q_lock = None
  /\ q_lock' = w
  /\ GoTo(w, "test")
  /\ UNCHANGED <<threads, t_lock, t_busy, queue, timed_out, arg, callerVars>>

\* Mutant: the task is read and not popped.
DequeueNoPop(w) ==
  /\ wpc[w] = "test"
  /\ queue # <<>>
  /\ arg' = [arg EXCEPT ![w] = Head(queue)]
  /\ q_lock' = None
  /\ GoTo(w, "mark_busy")
  /\ UNCHANGED <<threads, t_lock, t_busy, queue, timed_out, callerVars>>

\* arg = queue_.front(); queue_.pop(); MUTEX_UNLOCK( q_lock_ )
Dequeue(w) ==
  /\ wpc[w] = "test"
  /\ queue # <<>>
  /\ arg' = [arg EXCEPT ![w] = Head(queue)]
  /\ queue' = Tail(queue)
  /\ q_lock' = None
  /\ GoTo(w, "mark_busy")
  /\ UNCHANGED <<threads, t_lock, t_busy, timed_out, callerVars>>

\* Mutant: the increment is forgotten.
MarkNotBusy(w) ==
  /\ wpc[w] = "mark_busy"
  /\ GoTo(w, "main")
  /\ UNCHANGED <<threads, t_lock, t_busy, queue, q_lock, timed_out, arg, callerVars>>

\* ++t_busy_, some time after the task left the queue.
MarkBusy(w) ==
  /\ wpc[w] = "mark_busy"
  /\ t_busy' = t_busy + 1
  /\ GoTo(w, "main")
  /\ UNCHANGED <<threads, t_lock, queue, q_lock, timed_out, arg, callerVars>>

\* t->main( arg ) returns.  The daemon's main() closes the descriptor last.
Perform(w) ==
  /\ wpc[w] = "main"
  /\ arg' = [arg EXCEPT ![w] = None]
  /\ GoTo(w, "mark_idle")
  /\ UNCHANGED <<threads, t_lock, t_busy, queue, q_lock, timed_out, callerVars>>

\* Mutant: the clean-up handler is not run.
MarkNotIdle(w) ==
  /\ wpc[w] = "mark_idle"
  /\ GoTo(w, "lock_queue")
  /\ UNCHANGED <<threads, t_lock, t_busy, queue, q_lock, timed_out, arg, callerVars>>

\* The clean-up handler thread_pool_decrement_busy().
MarkIdle(w) ==
  /\ wpc[w] = "mark_idle"
  /\ t_busy' = t_busy - 1
  /\ GoTo(w, "lock_queue")
  /\ UNCHANGED <<threads, t_lock, queue, q_lock, timed_out, arg, callerVars>>

\* Mutant: the dying thread stays in the set.
EraseNothing(w) ==
  /\ wpc[w] = "suicide"
  /\ t_lock = None
  /\ GoTo(w, "exit")
  /\ UNCHANGED <<threads, t_lock, t_busy, queue, q_lock, timed_out, arg, callerVars>>

\* "delete t": the destructor erases the thread from the pool under t_lock_,
\* with q_lock_ still held ...
Erase(w) ==
  /\ wpc[w] = "suicide"
  /\ t_lock = None
  /\ threads' = threads \ {w}
  /\ GoTo(w, "exit")
  /\ UNCHANGED <<t_lock, t_busy, queue, q_lock, timed_out, arg, callerVars>>

\* ... and pthread_exit(), although called from a destructor, is taken to end the
\* thread alone, and runs the clean-up handler that unlocks q_lock_.
Exit(w) ==
  /\ wpc[w] = "exit"
  /\ q_lock' = None
  /\ GoTo(w, "none")
  /\ UNCHANGED <<threads, t_lock, t_busy, queue, timed_out, arg, callerVars>>

-----------------------------------------------------------------------------
(* thread_pool::new_task().                                                *)

CallGoTo(c, place) == cpc' = [cpc EXCEPT ![c] = place]

\* MUTEX_LOCK( t_lock_ ).  A descriptor is not given twice while it is open.
NewTask(c, task, block) ==
  /\ cpc[c] = "idle"
  /\ task \notin Outstanding
  /\ t_lock = None
  /\ t_lock' = c
  /\ call' = [call EXCEPT ![c].task = task, ![c].block = block]
  /\ CallGoTo(c, "check")
  /\ UNCHANGED <<threads, t_busy, queue, q_lock, workerVars>>

\* all_are_busy = t_busy_ == threads_.size(): true, and only known to have been
\* true once t_busy_lock_ is unlocked ...
FindAllBusy(c) ==
  /\ cpc[c] = "check"
  /\ AllBusy
  /\ CallGoTo(c, "all_busy")
  /\ UNCHANGED <<threads, t_lock, t_busy, queue, q_lock, workerVars, call>>

\* ... or false: unlock t_lock_ and go on to queue the task.
FindIdle(c) ==
  /\ cpc[c] = "check"
  /\ ~AllBusy
  /\ t_lock' = None
  /\ CallGoTo(c, "push")
  /\ UNCHANGED <<threads, t_busy, queue, q_lock, workerVars, call>>

\* prototype->create_and_run(): the new thread runs before it is in threads_.
\* If it cannot be created the program exits: here it always can.
Create(c, w) ==
  /\ cpc[c] = "all_busy"
  /\ Size < MaxThreads
  /\ wpc[w] = "none"
  /\ GoTo(w, "lock_queue")
  /\ call' = [call EXCEPT ![c].thread = w]
  /\ CallGoTo(c, "insert")
  /\ UNCHANGED <<threads, t_lock, t_busy, queue, q_lock, timed_out, arg>>

\* threads_.insert( ... ); MUTEX_UNLOCK( t_lock_ )
Insert(c) ==
  /\ cpc[c] = "insert"
  /\ threads' = threads \cup {call[c].thread}
  /\ call' = [call EXCEPT ![c].thread = None]
  /\ t_lock' = None
  /\ CallGoTo(c, "push")
  /\ UNCHANGED <<t_busy, queue, q_lock, workerVars>>

\* The pool cannot grow: pthread_cond_wait( t_idle_, t_lock_ ), once ...
Block(c) ==
  /\ cpc[c] = "all_busy"
  /\ Size >= MaxThreads
  /\ call[c].block
  /\ t_lock' = None
  /\ CallGoTo(c, "blocked")
  /\ UNCHANGED <<threads, t_busy, queue, q_lock, workerVars, call>>

UnblockSpuriously(c) ==
  /\ cpc[c] = "blocked"
  /\ CallGoTo(c, "relock_threads")
  /\ UNCHANGED <<threads, t_lock, t_busy, queue, q_lock, workerVars, call>>

\* ... which reacquires t_lock_ only to unlock it.
Unblock(c) ==
  /\ cpc[c] = "relock_threads"
  /\ t_lock = None
  /\ CallGoTo(c, "push")
  /\ UNCHANGED <<threads, t_lock, t_busy, queue, q_lock, workerVars, call>>

\* ... or return false.
Refuse(c) ==
  /\ cpc[c] = "all_busy"
  /\ Size >= MaxThreads
  /\ ~call[c].block
  /\ t_lock' = None
  /\ call' = [call EXCEPT ![c] = NoCall]
  /\ CallGoTo(c, "idle")
  /\ UNCHANGED <<threads, t_busy, queue, q_lock, workerVars>>

\* Mutant: the task jumps the queue.
PushFront(c) ==
  /\ cpc[c] = "push"
  /\ q_lock = None
  /\ queue' = <<call[c].task>> \o queue
  /\ SignalQueueNotEmpty
  /\ call' = [call EXCEPT ![c] = NoCall]
  /\ CallGoTo(c, "idle")
  /\ UNCHANGED <<threads, t_lock, t_busy, q_lock, timed_out, arg>>

\* Under q_lock_: queue_.push( arg ) and signal q_not_empty_; return true.
Push(c) ==
  /\ cpc[c] = "push"
  /\ q_lock = None
  /\ queue' = Append(queue, call[c].task)
  /\ SignalQueueNotEmpty
  /\ call' = [call EXCEPT ![c] = NoCall]
  /\ CallGoTo(c, "idle")
  /\ UNCHANGED <<threads, t_lock, t_busy, q_lock, timed_out, arg>>

-----------------------------------------------------------------------------

WorkerStep(w) ==
  \/ InsertPrototype(w) \/ InsertInitial(w)
  \/ LockQueue(w) \/ CheckSize(w) \/ Sleep(w)
  \/ TimeOut(w) \/ WakeSpuriously(w) \/ RelockQueue(w)
  \/ Dequeue(w) \/ MarkBusy(w) \/ Perform(w) \/ MarkIdle(w)
  \/ Erase(w) \/ Exit(w)

CallerStep(c) ==
  \/ \E task \in Tasks, block \in Blocking : NewTask(c, task, block)
  \/ FindAllBusy(c) \/ FindIdle(c)
  \/ \E w \in Threads : Create(c, w)
  \/ Insert(c) \/ Block(c) \/ UnblockSpuriously(c) \/ Unblock(c)
  \/ Refuse(c) \/ Push(c)

Next ==
  \/ FinishConstruction
  \/ \E w \in Threads : WorkerStep(w)
  \/ \E c \in Callers : CallerStep(c)

Spec == Init /\ [][Next]_vars

=============================================================================
