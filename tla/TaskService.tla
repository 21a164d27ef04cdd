---------------------------- MODULE TaskService ----------------------------
(***************************************************************************)
(* What a thread pool promises its callers (the class comment of           *)
(* src/src/pjl/thread_pool.h): a task that was accepted is performed once, *)
(* in the order of acceptance, by one of a limited number of threads.      *)
(***************************************************************************)
EXTENDS Naturals, Sequences, FiniteSets

CONSTANTS
  Tasks,  \* everything a caller can hand over
  Limit   \* the most tasks that are ever performed at the same time

VARIABLES
  pending,  \* accepted tasks nobody has started, oldest first
  running   \* tasks being performed

serviceVars == <<pending, running>>

Init == pending = <<>> /\ running = {}

\* A task is handed over once until it is done.
Accept(task) ==
  /\ task \notin running
  /\ \A i \in 1..Len(pending) : pending[i] # task
  /\ pending' = Append(pending, task)
  /\ UNCHANGED running

Start ==
  /\ pending # <<>>
  /\ Cardinality(running) < Limit
  /\ running' = running \cup {Head(pending)}
  /\ pending' = Tail(pending)

Finish(task) ==
  /\ task \in running
  /\ running' = running \ {task}
  /\ UNCHANGED pending

Next ==
  \/ \E task \in Tasks : Accept(task)
  \/ Start
  \/ \E task \in Tasks : Finish(task)

Spec == Init /\ [][Next]_serviceVars

\* Accepted tasks are started and started ones are finished.
FairSpec ==
  /\ Spec
  /\ WF_serviceVars(Start)
  /\ \A task \in Tasks : WF_serviceVars(Finish(task))
=============================================================================
