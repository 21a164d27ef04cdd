-------------------------- MODULE ThreadPoolProofs --------------------------
(***************************************************************************)
(* Proofs about ThreadPool, for every number of threads, callers and tasks *)
(* and every pair of limits.                                               *)
(***************************************************************************)
EXTENDS ThreadPoolProps, FiniteSetTheorems, SequenceTheorems, TLAPS

-----------------------------------------------------------------------------
(* Counting the workers at a place.                                        *)

\* The workers at some places are finitely many.
LEMMA AtFinite ==
  ASSUME NEW places
  PROVE  IsFiniteSet(At(places)) /\ Cardinality(At(places)) \in Nat
BY PoolAssumption, FS_Subset, FS_CardinalityType DEF At

\* A worker that goes to a place joins the workers of every set of places that
\* has it, and leaves those of every other set.
LEMMA AtGoTo ==
  ASSUME wpc \in [Threads -> Places], NEW w \in Threads, NEW place, GoTo(w, place),
         NEW places
  PROVE  At(places)' = IF place \in places THEN At(places) \cup {w}
                                           ELSE At(places) \ {w}
BY DEF At, GoTo

\* So the count of the workers at some places changes by one or not at all.
LEMMA CountGoTo ==
  ASSUME wpc \in [Threads -> Places], NEW w \in Threads, NEW place, GoTo(w, place),
         NEW places
  PROVE  /\ Cardinality(At(places)) \in Nat
         /\ Cardinality(At(places)') =
              IF place \in places
              THEN IF wpc[w] \in places THEN Cardinality(At(places))
                                        ELSE Cardinality(At(places)) + 1
              ELSE IF wpc[w] \in places THEN Cardinality(At(places)) - 1
                                        ELSE Cardinality(At(places))
<1>1. IsFiniteSet(At(places)) /\ Cardinality(At(places)) \in Nat
  BY AtFinite
<1>2. w \in At(places) <=> wpc[w] \in places
  BY DEF At
<1>3. CASE place \in places
  BY <1>1, <1>2, <1>3, AtGoTo, FS_AddElement
<1>4. CASE place \notin places
  BY <1>1, <1>2, <1>4, AtGoTo, FS_RemoveElement
<1> QED BY <1>3, <1>4

\* The pool's set is finite; adding a thread to it and erasing one from it
\* change its size by one.
LEMMA SizeFacts ==
  ASSUME TypeOK
  PROVE  /\ IsFiniteSet(threads) /\ Size \in Nat
         /\ \A w : Cardinality(threads \cup {w}) = IF w \in threads THEN Size ELSE Size + 1
         /\ \A w : Cardinality(threads \ {w}) = IF w \in threads THEN Size - 1 ELSE Size
         /\ threads = {} <=> Size = 0
<1>1. IsFiniteSet(threads)
  BY PoolAssumption, FS_Subset DEF TypeOK
<1>2. Size \in Nat
  BY <1>1, FS_CardinalityType DEF Size
<1> QED BY <1>1, <1>2, FS_AddElement, FS_RemoveElement, FS_EmptySet DEF Size

\* Every step keeps the types.
LEMMA TypeStep == IndInv /\ [Next]_vars => TypeOK'
<1> SUFFICES ASSUME IndInv, [Next]_vars PROVE TypeOK'
  OBVIOUS
<1> USE PoolAssumption DEF IndInv, TypeOK, NoCall, Places, Sleeping,
        Performing, CountedBusy, HoldsQueue, CallPlaces, vars, workerVars,
        callerVars
<1>1. ASSUME FinishConstruction PROVE TypeOK'
  BY <1>1 DEF FinishConstruction
<1>2. ASSUME NEW w \in Threads, InsertPrototype(w) PROVE TypeOK'
  BY <1>2 DEF InsertPrototype, GoTo
<1>3. ASSUME NEW w \in Threads, InsertInitial(w) PROVE TypeOK'
  BY <1>3 DEF InsertInitial, GoTo
<1>4. ASSUME NEW w \in Threads, LockQueue(w) PROVE TypeOK'
  BY <1>4 DEF LockQueue, GoTo
<1>5. ASSUME NEW w \in Threads, CheckSize(w) PROVE TypeOK'
  BY <1>5 DEF CheckSize, Surplus, SignalIdle, GoTo
<1>6. ASSUME NEW w \in Threads, Sleep(w) PROVE TypeOK'
  BY <1>6 DEF Sleep, GoTo
<1>7. ASSUME NEW w \in Threads, TimeOut(w) PROVE TypeOK'
  BY <1>7 DEF TimeOut, GoTo
<1>8. ASSUME NEW w \in Threads, WakeSpuriously(w) PROVE TypeOK'
  BY <1>8 DEF WakeSpuriously, GoTo
<1>9. ASSUME NEW w \in Threads, RelockQueue(w) PROVE TypeOK'
  BY <1>9 DEF RelockQueue, GoTo
<1>10. ASSUME NEW w \in Threads, Dequeue(w) PROVE TypeOK'
  BY <1>10 DEF Dequeue, GoTo
<1>11. ASSUME NEW w \in Threads, MarkBusy(w) PROVE TypeOK'
  BY <1>11 DEF MarkBusy, GoTo
<1>12. ASSUME NEW w \in Threads, Perform(w) PROVE TypeOK'
  BY <1>12 DEF Perform, GoTo
<1>13. ASSUME NEW w \in Threads, MarkIdle(w) PROVE TypeOK'
  <2>1. wpc[w] \in CountedBusy
    BY <1>13 DEF MarkIdle
  <2>2. w \in At(CountedBusy) /\ IsFiniteSet(At(CountedBusy))
    BY <2>1, AtFinite DEF At
  <2>3. Cardinality(At(CountedBusy)) \in Nat \ {0}
    BY <2>2, FS_EmptySet, FS_CardinalityType
  <2>4. t_busy - 1 \in Nat
    BY <2>3 DEF CountInv
  <2> QED BY <1>13, <2>4 DEF MarkIdle, GoTo
<1>14. ASSUME NEW w \in Threads, Erase(w) PROVE TypeOK'
  BY <1>14 DEF Erase, GoTo
<1>15. ASSUME NEW w \in Threads, Exit(w) PROVE TypeOK'
  BY <1>15 DEF Exit, GoTo
<1>16. ASSUME NEW c \in Callers, NEW task \in Tasks, NEW block \in Blocking,
            NewTask(c, task, block)
     PROVE  TypeOK'
  <2>1. call[c] \in [task : Tasks \cup {None}, block : BOOLEAN, thread : Threads \cup {None}]
    OBVIOUS
  <2>2. call' = [call EXCEPT ![c] = [call[c] EXCEPT !.task = task, !.block = block]]
    BY <1>16 DEF NewTask
  <2>3. call' \in [Callers -> [task   : Tasks \cup {None},
                               block  : BOOLEAN,
                               thread : Threads \cup {None}]]
    BY <2>1, <2>2
  <2> QED BY <1>16, <2>3 DEF NewTask, CallGoTo
<1>17. ASSUME NEW c \in Callers, NEW w \in Threads, Create(c, w) PROVE TypeOK'
  <2>1. call' \in [Callers -> [task   : Tasks \cup {None},
                               block  : BOOLEAN,
                               thread : Threads \cup {None}]]
    <3>1. call[c] \in [task : Tasks \cup {None}, block : BOOLEAN, thread : Threads \cup {None}]
      OBVIOUS
    <3>2. [call[c] EXCEPT !.thread = w]
             \in [task : Tasks \cup {None}, block : BOOLEAN, thread : Threads \cup {None}]
      BY <3>1
    <3>3. call' = [call EXCEPT ![c] = [call[c] EXCEPT !.thread = w]]
      BY <1>17 DEF Create
    <3> QED BY <3>2, <3>3
  <2>2. wpc' \in [Threads -> Places] /\ cpc' \in [Callers -> CallPlaces]
    BY <1>17 DEF Create, GoTo, CallGoTo
  <2> QED BY <1>17, <2>1, <2>2 DEF Create
<1>18. ASSUME NEW c \in Callers, FindAllBusy(c) PROVE TypeOK'
  BY <1>18 DEF FindAllBusy, CallGoTo
<1>19. ASSUME NEW c \in Callers, FindIdle(c) PROVE TypeOK'
  BY <1>19 DEF FindIdle, CallGoTo
<1>20. ASSUME NEW c \in Callers, Insert(c) PROVE TypeOK'
  BY <1>20 DEF Insert, CallGoTo, MemberInv
<1>21. ASSUME NEW c \in Callers, Block(c) PROVE TypeOK'
  BY <1>21 DEF Block, CallGoTo
<1>22. ASSUME NEW c \in Callers, UnblockSpuriously(c) PROVE TypeOK'
  BY <1>22 DEF UnblockSpuriously, CallGoTo
<1>23. ASSUME NEW c \in Callers, Unblock(c) PROVE TypeOK'
  BY <1>23 DEF Unblock, CallGoTo
<1>24. ASSUME NEW c \in Callers, Refuse(c) PROVE TypeOK'
  BY <1>24 DEF Refuse, CallGoTo
<1>25. ASSUME NEW c \in Callers, Push(c) PROVE TypeOK'
  <2>1. call[c].task \in Tasks
    BY <1>25 DEF Push, HeldInv
  <2>2. queue' \in Seq(Tasks)
    BY <1>25, <2>1 DEF Push
  <2>3. wpc' \in [Threads -> Places]
    BY <1>25 DEF Push, SignalQueueNotEmpty, Places
  <2>4. call' = [call EXCEPT ![c] = NoCall]
    BY <1>25 DEF Push
  <2>5. NoCall \in [task : Tasks \cup {None}, block : BOOLEAN, thread : Threads \cup {None}]
    BY DEF NoCall
  <2>6. call' \in [Callers -> [task   : Tasks \cup {None},
                               block  : BOOLEAN,
                               thread : Threads \cup {None}]]
    BY <2>4, <2>5
  <2>7. cpc' \in [Callers -> CallPlaces]
    BY <1>25 DEF Push, CallGoTo, CallPlaces
  <2> QED BY <1>25, <2>2, <2>3, <2>6, <2>7 DEF Push
<1>26. CASE UNCHANGED vars
  BY <1>26
<1> QED
  BY <1>1, <1>2, <1>3, <1>4, <1>5, <1>6, <1>7, <1>8,
     <1>9, <1>10, <1>11, <1>12, <1>13, <1>14, <1>15, <1>16,
     <1>17, <1>18, <1>19, <1>20, <1>21, <1>22, <1>23, <1>24,
     <1>25, <1>26
     DEF Next, WorkerStep, CallerStep

\* Every step keeps the mutexes' owners where they belong.
LEMMA LockStep == IndInv /\ [Next]_vars => LockInv'
<1> SUFFICES ASSUME IndInv, [Next]_vars PROVE LockInv'
  OBVIOUS
<1> USE PoolAssumption DEF IndInv, TypeOK, LockInv, Constructed,
        ConstructionInv, At, Blocked, Places, Sleeping, Performing,
        CountedBusy, HoldsQueue, CallPlaces, vars, workerVars, callerVars
<1>1. ASSUME FinishConstruction PROVE LockInv'
  BY <1>1 DEF FinishConstruction
<1>2. ASSUME NEW w \in Threads, InsertPrototype(w) PROVE LockInv'
  BY <1>2 DEF InsertPrototype, GoTo
<1>3. ASSUME NEW w \in Threads, InsertInitial(w) PROVE LockInv'
  BY <1>3 DEF InsertInitial, GoTo
<1>4. ASSUME NEW w \in Threads, LockQueue(w) PROVE LockInv'
  BY <1>4 DEF LockQueue, GoTo
<1>5. ASSUME NEW w \in Threads, CheckSize(w) PROVE LockInv'
  BY <1>5 DEF CheckSize, Surplus, SignalIdle, GoTo
<1>6. ASSUME NEW w \in Threads, Sleep(w) PROVE LockInv'
  BY <1>6 DEF Sleep, GoTo
<1>7. ASSUME NEW w \in Threads, TimeOut(w) PROVE LockInv'
  BY <1>7 DEF TimeOut, GoTo
<1>8. ASSUME NEW w \in Threads, WakeSpuriously(w) PROVE LockInv'
  BY <1>8 DEF WakeSpuriously, GoTo
<1>9. ASSUME NEW w \in Threads, RelockQueue(w) PROVE LockInv'
  BY <1>9 DEF RelockQueue, GoTo
<1>10. ASSUME NEW w \in Threads, Dequeue(w) PROVE LockInv'
  BY <1>10 DEF Dequeue, GoTo
<1>11. ASSUME NEW w \in Threads, MarkBusy(w) PROVE LockInv'
  BY <1>11 DEF MarkBusy, GoTo
<1>12. ASSUME NEW w \in Threads, Perform(w) PROVE LockInv'
  BY <1>12 DEF Perform, GoTo
<1>13. ASSUME NEW w \in Threads, MarkIdle(w) PROVE LockInv'
  BY <1>13 DEF MarkIdle, GoTo
<1>14. ASSUME NEW w \in Threads, Erase(w) PROVE LockInv'
  BY <1>14 DEF Erase, GoTo
<1>15. ASSUME NEW w \in Threads, Exit(w) PROVE LockInv'
  BY <1>15 DEF Exit, GoTo
<1>16. ASSUME NEW c \in Callers, NEW task \in Tasks, NEW block \in Blocking,
            NewTask(c, task, block)
     PROVE  LockInv'
  BY <1>16 DEF NewTask, CallGoTo
<1>17. ASSUME NEW c \in Callers, NEW w \in Threads, Create(c, w) PROVE LockInv'
  BY <1>17 DEF Create, GoTo, CallGoTo
<1>18. ASSUME NEW c \in Callers, FindAllBusy(c) PROVE LockInv'
  BY <1>18 DEF FindAllBusy, CallGoTo
<1>19. ASSUME NEW c \in Callers, FindIdle(c) PROVE LockInv'
  BY <1>19 DEF FindIdle, CallGoTo
<1>20. ASSUME NEW c \in Callers, Insert(c) PROVE LockInv'
  BY <1>20 DEF Insert, CallGoTo
<1>21. ASSUME NEW c \in Callers, Block(c) PROVE LockInv'
  BY <1>21 DEF Block, CallGoTo
<1>22. ASSUME NEW c \in Callers, UnblockSpuriously(c) PROVE LockInv'
  BY <1>22 DEF UnblockSpuriously, CallGoTo
<1>23. ASSUME NEW c \in Callers, Unblock(c) PROVE LockInv'
  BY <1>23 DEF Unblock, CallGoTo
<1>24. ASSUME NEW c \in Callers, Refuse(c) PROVE LockInv'
  BY <1>24 DEF Refuse, CallGoTo
<1>25. ASSUME NEW c \in Callers, Push(c) PROVE LockInv'
  BY <1>25 DEF Push, SignalQueueNotEmpty, CallGoTo
<1>26. CASE UNCHANGED vars
  BY <1>26
<1> QED
  BY <1>1, <1>2, <1>3, <1>4, <1>5, <1>6, <1>7, <1>8,
     <1>9, <1>10, <1>11, <1>12, <1>13, <1>14, <1>15, <1>16,
     <1>17, <1>18, <1>19, <1>20, <1>21, <1>22, <1>23, <1>24,
     <1>25, <1>26
     DEF Next, WorkerStep, CallerStep

\* Every step leaves real tasks in the hands of those that have one.
LEMMA HeldStep == IndInv /\ [Next]_vars => HeldInv'
<1> SUFFICES ASSUME IndInv, [Next]_vars PROVE HeldInv'
  OBVIOUS
<1> USE PoolAssumption DEF IndInv, TypeOK, HeldInv, NoCall, At, Blocked,
        Places, Sleeping, Performing, CountedBusy, HoldsQueue, CallPlaces,
        vars, workerVars, callerVars
<1>1. ASSUME FinishConstruction PROVE HeldInv'
  BY <1>1 DEF FinishConstruction
<1>2. ASSUME NEW w \in Threads, InsertPrototype(w) PROVE HeldInv'
  BY <1>2 DEF InsertPrototype, GoTo
<1>3. ASSUME NEW w \in Threads, InsertInitial(w) PROVE HeldInv'
  BY <1>3 DEF InsertInitial, GoTo
<1>4. ASSUME NEW w \in Threads, LockQueue(w) PROVE HeldInv'
  BY <1>4 DEF LockQueue, GoTo
<1>5. ASSUME NEW w \in Threads, CheckSize(w) PROVE HeldInv'
  BY <1>5 DEF CheckSize, Surplus, SignalIdle, GoTo
<1>6. ASSUME NEW w \in Threads, Sleep(w) PROVE HeldInv'
  BY <1>6 DEF Sleep, GoTo
<1>7. ASSUME NEW w \in Threads, TimeOut(w) PROVE HeldInv'
  BY <1>7 DEF TimeOut, GoTo
<1>8. ASSUME NEW w \in Threads, WakeSpuriously(w) PROVE HeldInv'
  BY <1>8 DEF WakeSpuriously, GoTo
<1>9. ASSUME NEW w \in Threads, RelockQueue(w) PROVE HeldInv'
  BY <1>9 DEF RelockQueue, GoTo
<1>10. ASSUME NEW w \in Threads, Dequeue(w) PROVE HeldInv'
  <2>1. Head(queue) \in Tasks
    BY <1>10, HeadTailProperties DEF Dequeue
  <2> QED BY <1>10, <2>1 DEF Dequeue, GoTo
<1>11. ASSUME NEW w \in Threads, MarkBusy(w) PROVE HeldInv'
  BY <1>11 DEF MarkBusy, GoTo
<1>12. ASSUME NEW w \in Threads, Perform(w) PROVE HeldInv'
  BY <1>12 DEF Perform, GoTo
<1>13. ASSUME NEW w \in Threads, MarkIdle(w) PROVE HeldInv'
  BY <1>13 DEF MarkIdle, GoTo
<1>14. ASSUME NEW w \in Threads, Erase(w) PROVE HeldInv'
  BY <1>14 DEF Erase, GoTo
<1>15. ASSUME NEW w \in Threads, Exit(w) PROVE HeldInv'
  BY <1>15 DEF Exit, GoTo
<1>16. ASSUME NEW c \in Callers, NEW task \in Tasks, NEW block \in Blocking,
            NewTask(c, task, block)
     PROVE  HeldInv'
  BY <1>16 DEF NewTask, CallGoTo
<1>17. ASSUME NEW c \in Callers, NEW w \in Threads, Create(c, w) PROVE HeldInv'
  BY <1>17 DEF Create, GoTo, CallGoTo
<1>18. ASSUME NEW c \in Callers, FindAllBusy(c) PROVE HeldInv'
  BY <1>18 DEF FindAllBusy, CallGoTo
<1>19. ASSUME NEW c \in Callers, FindIdle(c) PROVE HeldInv'
  BY <1>19 DEF FindIdle, CallGoTo
<1>20. ASSUME NEW c \in Callers, Insert(c) PROVE HeldInv'
  BY <1>20 DEF Insert, CallGoTo
<1>21. ASSUME NEW c \in Callers, Block(c) PROVE HeldInv'
  BY <1>21 DEF Block, CallGoTo
<1>22. ASSUME NEW c \in Callers, UnblockSpuriously(c) PROVE HeldInv'
  BY <1>22 DEF UnblockSpuriously, CallGoTo
<1>23. ASSUME NEW c \in Callers, Unblock(c) PROVE HeldInv'
  BY <1>23 DEF Unblock, CallGoTo
<1>24. ASSUME NEW c \in Callers, Refuse(c) PROVE HeldInv'
  BY <1>24 DEF Refuse, CallGoTo
<1>25. ASSUME NEW c \in Callers, Push(c) PROVE HeldInv'
  BY <1>25 DEF Push, SignalQueueNotEmpty, CallGoTo
<1>26. CASE UNCHANGED vars
  BY <1>26
<1> QED
  BY <1>1, <1>2, <1>3, <1>4, <1>5, <1>6, <1>7, <1>8,
     <1>9, <1>10, <1>11, <1>12, <1>13, <1>14, <1>15, <1>16,
     <1>17, <1>18, <1>19, <1>20, <1>21, <1>22, <1>23, <1>24,
     <1>25, <1>26
     DEF Next, WorkerStep, CallerStep

\* Every step keeps tasks away from a pool under construction.
LEMMA ConstructionStep == IndInv /\ [Next]_vars => ConstructionInv'
<1> SUFFICES ASSUME IndInv, [Next]_vars PROVE ConstructionInv'
  OBVIOUS
<1> USE PoolAssumption, SizeFacts DEF IndInv, TypeOK, LockInv, Constructed,
        ConstructionInv, Size, NoCall, At, Blocked, Places, Sleeping,
        Performing, CountedBusy, HoldsQueue, CallPlaces, vars, workerVars,
        callerVars
<1>1. ASSUME FinishConstruction PROVE ConstructionInv'
  BY <1>1 DEF FinishConstruction
<1>2. ASSUME NEW w \in Threads, InsertPrototype(w) PROVE ConstructionInv'
  BY <1>2 DEF InsertPrototype, GoTo
<1>3. ASSUME NEW w \in Threads, InsertInitial(w) PROVE ConstructionInv'
  BY <1>3 DEF InsertInitial, GoTo
<1>4. ASSUME NEW w \in Threads, LockQueue(w) PROVE ConstructionInv'
  BY <1>4 DEF LockQueue, GoTo
<1>5. ASSUME NEW w \in Threads, CheckSize(w) PROVE ConstructionInv'
  BY <1>5 DEF CheckSize, Surplus, SignalIdle, GoTo
<1>6. ASSUME NEW w \in Threads, Sleep(w) PROVE ConstructionInv'
  BY <1>6 DEF Sleep, GoTo
<1>7. ASSUME NEW w \in Threads, TimeOut(w) PROVE ConstructionInv'
  BY <1>7 DEF TimeOut, GoTo
<1>8. ASSUME NEW w \in Threads, WakeSpuriously(w) PROVE ConstructionInv'
  BY <1>8 DEF WakeSpuriously, GoTo
<1>9. ASSUME NEW w \in Threads, RelockQueue(w) PROVE ConstructionInv'
  BY <1>9 DEF RelockQueue, GoTo
<1>10. ASSUME NEW w \in Threads, Dequeue(w) PROVE ConstructionInv'
  BY <1>10 DEF Dequeue, GoTo
<1>11. ASSUME NEW w \in Threads, MarkBusy(w) PROVE ConstructionInv'
  BY <1>11 DEF MarkBusy, GoTo
<1>12. ASSUME NEW w \in Threads, Perform(w) PROVE ConstructionInv'
  BY <1>12 DEF Perform, GoTo
<1>13. ASSUME NEW w \in Threads, MarkIdle(w) PROVE ConstructionInv'
  BY <1>13 DEF MarkIdle, GoTo
<1>14. ASSUME NEW w \in Threads, Erase(w) PROVE ConstructionInv'
  BY <1>14 DEF Erase, GoTo
<1>15. ASSUME NEW w \in Threads, Exit(w) PROVE ConstructionInv'
  BY <1>15 DEF Exit, GoTo
<1>16. ASSUME NEW c \in Callers, NEW task \in Tasks, NEW block \in Blocking,
            NewTask(c, task, block)
     PROVE  ConstructionInv'
  BY <1>16 DEF NewTask, CallGoTo
<1>17. ASSUME NEW c \in Callers, NEW w \in Threads, Create(c, w) PROVE ConstructionInv'
  BY <1>17 DEF Create, GoTo, CallGoTo
<1>18. ASSUME NEW c \in Callers, FindAllBusy(c) PROVE ConstructionInv'
  BY <1>18 DEF FindAllBusy, CallGoTo
<1>19. ASSUME NEW c \in Callers, FindIdle(c) PROVE ConstructionInv'
  BY <1>19 DEF FindIdle, CallGoTo
<1>20. ASSUME NEW c \in Callers, Insert(c) PROVE ConstructionInv'
  BY <1>20 DEF Insert, CallGoTo
<1>21. ASSUME NEW c \in Callers, Block(c) PROVE ConstructionInv'
  BY <1>21 DEF Block, CallGoTo
<1>22. ASSUME NEW c \in Callers, UnblockSpuriously(c) PROVE ConstructionInv'
  BY <1>22 DEF UnblockSpuriously, CallGoTo
<1>23. ASSUME NEW c \in Callers, Unblock(c) PROVE ConstructionInv'
  BY <1>23 DEF Unblock, CallGoTo
<1>24. ASSUME NEW c \in Callers, Refuse(c) PROVE ConstructionInv'
  BY <1>24 DEF Refuse, CallGoTo
<1>25. ASSUME NEW c \in Callers, Push(c) PROVE ConstructionInv'
  BY <1>25 DEF Push, SignalQueueNotEmpty, CallGoTo
<1>26. CASE UNCHANGED vars
  BY <1>26
<1> QED
  BY <1>1, <1>2, <1>3, <1>4, <1>5, <1>6, <1>7, <1>8,
     <1>9, <1>10, <1>11, <1>12, <1>13, <1>14, <1>15, <1>16,
     <1>17, <1>18, <1>19, <1>20, <1>21, <1>22, <1>23, <1>24,
     <1>25, <1>26
     DEF Next, WorkerStep, CallerStep

\* Every step keeps the pool's set that of the threads that run.
LEMMA MemberStep == IndInv /\ [Next]_vars => MemberInv'
<1> SUFFICES ASSUME IndInv, [Next]_vars PROVE MemberInv'
  OBVIOUS
<1> USE PoolAssumption, SizeFacts DEF IndInv, TypeOK, LockInv, Constructed,
        ConstructionInv, MemberInv, DyingInv, Size, Unborn, NoCall, At,
        Blocked, Places, Sleeping, Performing, CountedBusy, HoldsQueue,
        CallPlaces, vars, workerVars, callerVars
<1>1. ASSUME FinishConstruction PROVE MemberInv'
  BY <1>1 DEF FinishConstruction
<1>2. ASSUME NEW w \in Threads, InsertPrototype(w) PROVE MemberInv'
  BY <1>2 DEF InsertPrototype, GoTo
<1>3. ASSUME NEW w \in Threads, InsertInitial(w) PROVE MemberInv'
  BY <1>3 DEF InsertInitial, GoTo
<1>4. ASSUME NEW w \in Threads, LockQueue(w) PROVE MemberInv'
  BY <1>4 DEF LockQueue, GoTo
<1>5. ASSUME NEW w \in Threads, CheckSize(w) PROVE MemberInv'
  BY <1>5 DEF CheckSize, Surplus, SignalIdle, GoTo
<1>6. ASSUME NEW w \in Threads, Sleep(w) PROVE MemberInv'
  BY <1>6 DEF Sleep, GoTo
<1>7. ASSUME NEW w \in Threads, TimeOut(w) PROVE MemberInv'
  BY <1>7 DEF TimeOut, GoTo
<1>8. ASSUME NEW w \in Threads, WakeSpuriously(w) PROVE MemberInv'
  BY <1>8 DEF WakeSpuriously, GoTo
<1>9. ASSUME NEW w \in Threads, RelockQueue(w) PROVE MemberInv'
  BY <1>9 DEF RelockQueue, GoTo
<1>10. ASSUME NEW w \in Threads, Dequeue(w) PROVE MemberInv'
  BY <1>10 DEF Dequeue, GoTo
<1>11. ASSUME NEW w \in Threads, MarkBusy(w) PROVE MemberInv'
  BY <1>11 DEF MarkBusy, GoTo
<1>12. ASSUME NEW w \in Threads, Perform(w) PROVE MemberInv'
  BY <1>12 DEF Perform, GoTo
<1>13. ASSUME NEW w \in Threads, MarkIdle(w) PROVE MemberInv'
  BY <1>13 DEF MarkIdle, GoTo
<1>14. ASSUME NEW w \in Threads, Erase(w) PROVE MemberInv'
  BY <1>14 DEF Erase, GoTo
<1>15. ASSUME NEW w \in Threads, Exit(w) PROVE MemberInv'
  BY <1>15 DEF Exit, GoTo
<1>16. ASSUME NEW c \in Callers, NEW task \in Tasks, NEW block \in Blocking,
            NewTask(c, task, block)
     PROVE  MemberInv'
  BY <1>16 DEF NewTask, CallGoTo
<1>17. ASSUME NEW c \in Callers, NEW w \in Threads, Create(c, w) PROVE MemberInv'
  BY <1>17 DEF Create, GoTo, CallGoTo
<1>18. ASSUME NEW c \in Callers, FindAllBusy(c) PROVE MemberInv'
  BY <1>18 DEF FindAllBusy, CallGoTo
<1>19. ASSUME NEW c \in Callers, FindIdle(c) PROVE MemberInv'
  BY <1>19 DEF FindIdle, CallGoTo
<1>20. ASSUME NEW c \in Callers, Insert(c) PROVE MemberInv'
  BY <1>20 DEF Insert, CallGoTo
<1>21. ASSUME NEW c \in Callers, Block(c) PROVE MemberInv'
  BY <1>21 DEF Block, CallGoTo
<1>22. ASSUME NEW c \in Callers, UnblockSpuriously(c) PROVE MemberInv'
  BY <1>22 DEF UnblockSpuriously, CallGoTo
<1>23. ASSUME NEW c \in Callers, Unblock(c) PROVE MemberInv'
  BY <1>23 DEF Unblock, CallGoTo
<1>24. ASSUME NEW c \in Callers, Refuse(c) PROVE MemberInv'
  BY <1>24 DEF Refuse, CallGoTo
<1>25. ASSUME NEW c \in Callers, Push(c) PROVE MemberInv'
  <2>1. /\ threads' = threads
        /\ \A d \in Callers : cpc'[d] = "insert" => cpc[d] = "insert" /\ call'[d] = call[d]
        /\ \A d \in Callers : cpc[d] = "insert" => cpc'[d] = "insert" /\ call'[d] = call[d]
    BY <1>25 DEF Push, CallGoTo
  <2>2. \A w \in Threads : \/ wpc'[w] = wpc[w]
                           \/ wpc[w] \in Sleeping /\ wpc'[w] = "relock_queue"
    BY <1>25 DEF Push, SignalQueueNotEmpty
  <2>3. \A w \in threads' : wpc'[w] \notin Unborn
    BY <2>1, <2>2
  <2>4. ASSUME NEW w \in Threads \ threads', wpc'[w] \notin Unborn
        PROVE  \E d \in Callers : cpc'[d] = "insert" /\ call'[d].thread = w
    <3>1. PICK d \in Callers : cpc[d] = "insert" /\ call[d].thread = w
      BY <2>1, <2>2, <2>4
    <3> QED BY <2>1, <3>1
  <2>5. ASSUME NEW d \in Callers, cpc'[d] = "insert"
        PROVE  /\ Size' < MaxThreads
               /\ call'[d].thread \in Threads \ threads'
               /\ wpc'[call'[d].thread]
                    \in {"lock_queue", "test"} \cup Performing \cup CountedBusy
    <3>1. cpc[d] = "insert" /\ call'[d] = call[d]
      BY <2>1, <2>5
    <3> QED BY <2>1, <2>2, <3>1
  <2> QED BY <2>3, <2>4, <2>5
<1>26. CASE UNCHANGED vars
  BY <1>26
<1> QED
  BY <1>1, <1>2, <1>3, <1>4, <1>5, <1>6, <1>7, <1>8,
     <1>9, <1>10, <1>11, <1>12, <1>13, <1>14, <1>15, <1>16,
     <1>17, <1>18, <1>19, <1>20, <1>21, <1>22, <1>23, <1>24,
     <1>25, <1>26
     DEF Next, WorkerStep, CallerStep

\* Every step keeps the pool's size within its limits.
LEMMA SizeStep == IndInv /\ [Next]_vars => PoolSizeInBounds'
<1> SUFFICES ASSUME IndInv, [Next]_vars PROVE PoolSizeInBounds'
  OBVIOUS
<1> USE PoolAssumption, SizeFacts DEF IndInv, TypeOK, LockInv, Constructed,
        ConstructionInv, MemberInv, DyingInv, PoolSizeInBounds, SizeLimit,
        Size, At, Blocked, Places, Sleeping, Performing, CountedBusy,
        HoldsQueue, CallPlaces, vars, workerVars, callerVars
<1>1. ASSUME FinishConstruction PROVE PoolSizeInBounds'
  BY <1>1 DEF FinishConstruction
<1>2. ASSUME NEW w \in Threads, InsertPrototype(w) PROVE PoolSizeInBounds'
  BY <1>2 DEF InsertPrototype, GoTo
<1>3. ASSUME NEW w \in Threads, InsertInitial(w) PROVE PoolSizeInBounds'
  BY <1>3 DEF InsertInitial, GoTo
<1>4. ASSUME NEW w \in Threads, LockQueue(w) PROVE PoolSizeInBounds'
  BY <1>4 DEF LockQueue, GoTo
<1>5. ASSUME NEW w \in Threads, CheckSize(w) PROVE PoolSizeInBounds'
  BY <1>5 DEF CheckSize, Surplus, SignalIdle, GoTo
<1>6. ASSUME NEW w \in Threads, Sleep(w) PROVE PoolSizeInBounds'
  BY <1>6 DEF Sleep, GoTo
<1>7. ASSUME NEW w \in Threads, TimeOut(w) PROVE PoolSizeInBounds'
  BY <1>7 DEF TimeOut, GoTo
<1>8. ASSUME NEW w \in Threads, WakeSpuriously(w) PROVE PoolSizeInBounds'
  BY <1>8 DEF WakeSpuriously, GoTo
<1>9. ASSUME NEW w \in Threads, RelockQueue(w) PROVE PoolSizeInBounds'
  BY <1>9 DEF RelockQueue, GoTo
<1>10. ASSUME NEW w \in Threads, Dequeue(w) PROVE PoolSizeInBounds'
  BY <1>10 DEF Dequeue, GoTo
<1>11. ASSUME NEW w \in Threads, MarkBusy(w) PROVE PoolSizeInBounds'
  BY <1>11 DEF MarkBusy, GoTo
<1>12. ASSUME NEW w \in Threads, Perform(w) PROVE PoolSizeInBounds'
  BY <1>12 DEF Perform, GoTo
<1>13. ASSUME NEW w \in Threads, MarkIdle(w) PROVE PoolSizeInBounds'
  BY <1>13 DEF MarkIdle, GoTo
<1>14. ASSUME NEW w \in Threads, Erase(w) PROVE PoolSizeInBounds'
  BY <1>14 DEF Erase, GoTo
<1>15. ASSUME NEW w \in Threads, Exit(w) PROVE PoolSizeInBounds'
  BY <1>15 DEF Exit, GoTo
<1>16. ASSUME NEW c \in Callers, NEW task \in Tasks, NEW block \in Blocking,
            NewTask(c, task, block)
     PROVE  PoolSizeInBounds'
  BY <1>16 DEF NewTask, CallGoTo
<1>17. ASSUME NEW c \in Callers, NEW w \in Threads, Create(c, w) PROVE PoolSizeInBounds'
  BY <1>17 DEF Create, GoTo, CallGoTo
<1>18. ASSUME NEW c \in Callers, FindAllBusy(c) PROVE PoolSizeInBounds'
  BY <1>18 DEF FindAllBusy, CallGoTo
<1>19. ASSUME NEW c \in Callers, FindIdle(c) PROVE PoolSizeInBounds'
  BY <1>19 DEF FindIdle, CallGoTo
<1>20. ASSUME NEW c \in Callers, Insert(c) PROVE PoolSizeInBounds'
  <2>1. Size < MaxThreads /\ Size >= MinThreads
    BY <1>20 DEF Insert
  <2>2. Size' = Size + 1
    BY <1>20 DEF Insert
  <2> QED BY <1>20, <2>1, <2>2 DEF Insert, CallGoTo
<1>21. ASSUME NEW c \in Callers, Block(c) PROVE PoolSizeInBounds'
  BY <1>21 DEF Block, CallGoTo
<1>22. ASSUME NEW c \in Callers, UnblockSpuriously(c) PROVE PoolSizeInBounds'
  BY <1>22 DEF UnblockSpuriously, CallGoTo
<1>23. ASSUME NEW c \in Callers, Unblock(c) PROVE PoolSizeInBounds'
  BY <1>23 DEF Unblock, CallGoTo
<1>24. ASSUME NEW c \in Callers, Refuse(c) PROVE PoolSizeInBounds'
  BY <1>24 DEF Refuse, CallGoTo
<1>25. ASSUME NEW c \in Callers, Push(c) PROVE PoolSizeInBounds'
  BY <1>25 DEF Push, SignalQueueNotEmpty, CallGoTo
<1>26. CASE UNCHANGED vars
  BY <1>26
<1> QED
  BY <1>1, <1>2, <1>3, <1>4, <1>5, <1>6, <1>7, <1>8,
     <1>9, <1>10, <1>11, <1>12, <1>13, <1>14, <1>15, <1>16,
     <1>17, <1>18, <1>19, <1>20, <1>21, <1>22, <1>23, <1>24,
     <1>25, <1>26
     DEF Next, WorkerStep, CallerStep

\* A worker that goes from one place where it is not counted busy to another
LEMMA SameBusy ==
  ASSUME wpc \in [Threads -> Places], NEW w \in Threads, NEW place, GoTo(w, place),
         wpc[w] \notin {"main", "mark_idle"}, place \notin {"main", "mark_idle"}
  PROVE  Cardinality(At(CountedBusy)') = Cardinality(At(CountedBusy))
<1>1. At(CountedBusy)' = At(CountedBusy) \ {w}
  BY AtGoTo DEF CountedBusy
<1>2. w \notin At(CountedBusy)
  BY DEF At, CountedBusy
<1> QED BY <1>1, <1>2

\* Every step keeps t_busy_ the number of threads between its increment and
\* its decrement.
LEMMA CountStep == IndInv /\ [Next]_vars => CountInv'
<1> SUFFICES ASSUME IndInv, [Next]_vars PROVE CountInv'
  OBVIOUS
<1> USE PoolAssumption DEF IndInv, TypeOK, CountInv, vars, workerVars,
        callerVars
<1>1. ASSUME FinishConstruction PROVE CountInv'
  BY <1>1 DEF FinishConstruction, At
<1>2. ASSUME NEW w \in Threads, InsertPrototype(w) PROVE CountInv'
  <2>1. wpc[w] = "new" /\ GoTo(w, "lock_queue")
    BY <1>2 DEF InsertPrototype
  <2>2. Cardinality(At(CountedBusy)') = Cardinality(At(CountedBusy))
    BY <2>1, SameBusy
  <2> QED BY <1>2, <2>2, AtFinite DEF InsertPrototype
<1>3. ASSUME NEW w \in Threads, InsertInitial(w) PROVE CountInv'
  <2>1. wpc[w] = "none" /\ GoTo(w, "lock_queue")
    BY <1>3 DEF InsertInitial
  <2>2. Cardinality(At(CountedBusy)') = Cardinality(At(CountedBusy))
    BY <2>1, SameBusy
  <2> QED BY <1>3, <2>2, AtFinite DEF InsertInitial
<1>4. ASSUME NEW w \in Threads, LockQueue(w) PROVE CountInv'
  <2>1. wpc[w] = "lock_queue" /\ GoTo(w, "test")
    BY <1>4 DEF LockQueue
  <2>2. Cardinality(At(CountedBusy)') = Cardinality(At(CountedBusy))
    BY <2>1, SameBusy
  <2> QED BY <1>4, <2>2, AtFinite DEF LockQueue
<1>5. ASSUME NEW w \in Threads, CheckSize(w) PROVE CountInv'
  <2>1. PICK place \in {"wait", "suicide", "timed_wait"} : GoTo(w, place)
    BY <1>5 DEF CheckSize
  <2>2. wpc[w] = "test" /\ UNCHANGED t_busy
    BY <1>5 DEF CheckSize
  <2>3. Cardinality(At(CountedBusy)') = Cardinality(At(CountedBusy))
    BY <2>1, <2>2, SameBusy
  <2> QED BY <2>2, <2>3
<1>6. ASSUME NEW w \in Threads, Sleep(w) PROVE CountInv'
  <2>1. PICK place \in Sleeping : GoTo(w, place)
    BY <1>6 DEF Sleep, Sleeping
  <2>2. wpc[w] \in {"wait", "timed_wait"} /\ UNCHANGED t_busy
    BY <1>6 DEF Sleep
  <2>3. Cardinality(At(CountedBusy)') = Cardinality(At(CountedBusy))
    BY <2>1, <2>2, SameBusy DEF Sleeping
  <2> QED BY <2>2, <2>3
<1>7. ASSUME NEW w \in Threads, TimeOut(w) PROVE CountInv'
  <2>1. wpc[w] = "timed_waiting" /\ GoTo(w, "relock_queue")
    BY <1>7 DEF TimeOut
  <2>2. Cardinality(At(CountedBusy)') = Cardinality(At(CountedBusy))
    BY <2>1, SameBusy
  <2> QED BY <1>7, <2>2, AtFinite DEF TimeOut
<1>8. ASSUME NEW w \in Threads, WakeSpuriously(w) PROVE CountInv'
  <2>1. wpc[w] \in Sleeping /\ GoTo(w, "relock_queue")
    BY <1>8 DEF WakeSpuriously
  <2>2. Cardinality(At(CountedBusy)') = Cardinality(At(CountedBusy))
    BY <2>1, SameBusy DEF Sleeping
  <2> QED BY <1>8, <2>2 DEF WakeSpuriously
<1>9. ASSUME NEW w \in Threads, RelockQueue(w) PROVE CountInv'
  <2>1. wpc[w] = "relock_queue" /\ GoTo(w, "test")
    BY <1>9 DEF RelockQueue
  <2>2. Cardinality(At(CountedBusy)') = Cardinality(At(CountedBusy))
    BY <2>1, SameBusy
  <2> QED BY <1>9, <2>2, AtFinite DEF RelockQueue
<1>10. ASSUME NEW w \in Threads, Dequeue(w) PROVE CountInv'
  <2>1. wpc[w] = "test" /\ GoTo(w, "mark_busy")
    BY <1>10 DEF Dequeue
  <2>2. Cardinality(At(CountedBusy)') = Cardinality(At(CountedBusy))
    BY <2>1, SameBusy
  <2> QED BY <1>10, <2>2, AtFinite DEF Dequeue
<1>11. ASSUME NEW w \in Threads, MarkBusy(w) PROVE CountInv'
  <2>1. wpc[w] = "mark_busy" /\ GoTo(w, "main")
    BY <1>11 DEF MarkBusy
  <2>2. Cardinality(At(CountedBusy)') = Cardinality(At(CountedBusy)) + 1
    BY SMTT(60), <2>1, CountGoTo, AtFinite DEF CountedBusy
  <2> QED BY <1>11, <2>2, AtFinite DEF MarkBusy
<1>12. ASSUME NEW w \in Threads, Perform(w) PROVE CountInv'
  <2>1. wpc[w] = "main" /\ GoTo(w, "mark_idle")
    BY <1>12 DEF Perform
  <2>2. Cardinality(At(CountedBusy)') = Cardinality(At(CountedBusy))
    BY SMTT(60), <2>1, CountGoTo, AtFinite DEF CountedBusy
  <2> QED BY <1>12, <2>2, AtFinite DEF Perform
<1>13. ASSUME NEW w \in Threads, MarkIdle(w) PROVE CountInv'
  <2>1. wpc[w] = "mark_idle" /\ GoTo(w, "lock_queue")
    BY <1>13 DEF MarkIdle
  <2>2. Cardinality(At(CountedBusy)') = Cardinality(At(CountedBusy)) - 1
    BY SMTT(60), <2>1, CountGoTo, AtFinite DEF CountedBusy
  <2> QED BY <1>13, <2>2, AtFinite DEF MarkIdle
<1>14. ASSUME NEW w \in Threads, Erase(w) PROVE CountInv'
  <2>1. wpc[w] = "suicide" /\ GoTo(w, "exit")
    BY <1>14 DEF Erase
  <2>2. Cardinality(At(CountedBusy)') = Cardinality(At(CountedBusy))
    BY <2>1, SameBusy
  <2> QED BY <1>14, <2>2, AtFinite DEF Erase
<1>15. ASSUME NEW w \in Threads, Exit(w) PROVE CountInv'
  <2>1. wpc[w] = "exit" /\ GoTo(w, "none")
    BY <1>15 DEF Exit
  <2>2. Cardinality(At(CountedBusy)') = Cardinality(At(CountedBusy))
    BY <2>1, SameBusy
  <2> QED BY <1>15, <2>2, AtFinite DEF Exit
<1>16. ASSUME NEW c \in Callers, NEW task \in Tasks, NEW block \in Blocking,
            NewTask(c, task, block)
     PROVE  CountInv'
  BY <1>16 DEF NewTask, At
<1>17. ASSUME NEW c \in Callers, NEW w \in Threads, Create(c, w) PROVE CountInv'
  <2>1. wpc[w] = "none" /\ GoTo(w, "lock_queue") /\ UNCHANGED t_busy
    BY <1>17 DEF Create
  <2>2. Cardinality(At(CountedBusy)') = Cardinality(At(CountedBusy))
    BY <2>1, SameBusy
  <2> QED BY <2>1, <2>2
<1>18. ASSUME NEW c \in Callers, FindAllBusy(c) PROVE CountInv'
  BY <1>18 DEF FindAllBusy, At
<1>19. ASSUME NEW c \in Callers, FindIdle(c) PROVE CountInv'
  BY <1>19 DEF FindIdle, At
<1>20. ASSUME NEW c \in Callers, Insert(c) PROVE CountInv'
  BY <1>20 DEF Insert, At
<1>21. ASSUME NEW c \in Callers, Block(c) PROVE CountInv'
  BY <1>21 DEF Block, At
<1>22. ASSUME NEW c \in Callers, UnblockSpuriously(c) PROVE CountInv'
  BY <1>22 DEF UnblockSpuriously, At
<1>23. ASSUME NEW c \in Callers, Unblock(c) PROVE CountInv'
  BY <1>23 DEF Unblock, At
<1>24. ASSUME NEW c \in Callers, Refuse(c) PROVE CountInv'
  BY <1>24 DEF Refuse, At
<1>25. ASSUME NEW c \in Callers, Push(c) PROVE CountInv'
  <2>1. CASE UNCHANGED wpc
    BY <1>25, <2>1 DEF Push, At
  <2>2. ASSUME NEW w \in At(Sleeping), GoTo(w, "relock_queue") PROVE CountInv'
    <3>1. w \in Threads /\ wpc[w] \in Sleeping
      BY DEF At
    <3>2. Cardinality(At(CountedBusy)') = Cardinality(At(CountedBusy))
      BY <2>2, <3>1, SameBusy DEF Sleeping
    <3> QED BY <1>25, <3>2 DEF Push
  <2> QED BY <1>25, <2>1, <2>2 DEF Push, SignalQueueNotEmpty, GoTo
<1>26. CASE UNCHANGED vars
  BY <1>26 DEF At
<1> QED
  BY <1>1, <1>2, <1>3, <1>4, <1>5, <1>6, <1>7, <1>8,
     <1>9, <1>10, <1>11, <1>12, <1>13, <1>14, <1>15, <1>16,
     <1>17, <1>18, <1>19, <1>20, <1>21, <1>22, <1>23, <1>24,
     <1>25, <1>26
     DEF Next, WorkerStep, CallerStep

\* When new_task() finds t_busy_ equal to the set's size, every thread of the
\* set is counted busy.
LEMMA AllBusyMeansAll ==
  ASSUME IndInv, NEW c \in Callers, cpc[c] = "check", AllBusy
  PROVE  At(CountedBusy) = threads
<1>1. ASSUME NEW w \in At(CountedBusy) PROVE w \in threads
  <2>1. w \in Threads /\ wpc[w] \in CountedBusy
    BY DEF At
  <2>2. \A d \in Callers : cpc[d] # "insert"
    BY DEF IndInv, LockInv
  <2> QED BY <2>1, <2>2 DEF IndInv, MemberInv, Unborn, CountedBusy
<1>2. IsFiniteSet(threads)
  BY SizeFacts DEF IndInv
<1>3. Cardinality(threads) = Cardinality(At(CountedBusy))
  BY DEF IndInv, CountInv, AllBusy, Size
<1> QED BY <1>1, <1>2, <1>3, FS_Subset

\* Every step leaves a thread that dies a surplus one, and one that a caller
\* would clone alive.
LEMMA DyingStep == IndInv /\ [Next]_vars => DyingInv'
<1> SUFFICES ASSUME IndInv, [Next]_vars PROVE DyingInv'
  OBVIOUS
<1> USE PoolAssumption DEF IndInv, TypeOK, LockInv, DyingInv, Places,
        Sleeping, Performing, CountedBusy, HoldsQueue, CallPlaces, vars,
        workerVars, callerVars
<1>1. ASSUME FinishConstruction PROVE DyingInv'
  BY <1>1 DEF FinishConstruction, Size
<1>2. ASSUME NEW w \in Threads, InsertPrototype(w) PROVE DyingInv'
  BY <1>2, SizeFacts DEF InsertPrototype, GoTo, Size
<1>3. ASSUME NEW w \in Threads, InsertInitial(w) PROVE DyingInv'
  BY <1>3, SizeFacts DEF InsertInitial, GoTo, Size
<1>4. ASSUME NEW w \in Threads, LockQueue(w) PROVE DyingInv'
  BY <1>4 DEF LockQueue, GoTo, Size
<1>5. ASSUME NEW w \in Threads, CheckSize(w) PROVE DyingInv'
  <2>1. \A c \in Callers : cpc'[c] = "all_busy" => cpc[c] = "all_busy"
    BY <1>5 DEF CheckSize, SignalIdle, Blocked
  <2> QED BY <1>5, <2>1 DEF CheckSize, Surplus, GoTo, Size
<1>6. ASSUME NEW w \in Threads, Sleep(w) PROVE DyingInv'
  BY <1>6 DEF Sleep, GoTo, Size
<1>7. ASSUME NEW w \in Threads, TimeOut(w) PROVE DyingInv'
  BY <1>7 DEF TimeOut, GoTo, Size
<1>8. ASSUME NEW w \in Threads, WakeSpuriously(w) PROVE DyingInv'
  BY <1>8 DEF WakeSpuriously, GoTo, Size
<1>9. ASSUME NEW w \in Threads, RelockQueue(w) PROVE DyingInv'
  BY <1>9 DEF RelockQueue, GoTo, Size
<1>10. ASSUME NEW w \in Threads, Dequeue(w) PROVE DyingInv'
  BY <1>10 DEF Dequeue, GoTo, Size
<1>11. ASSUME NEW w \in Threads, MarkBusy(w) PROVE DyingInv'
  BY <1>11 DEF MarkBusy, GoTo, Size
<1>12. ASSUME NEW w \in Threads, Perform(w) PROVE DyingInv'
  BY <1>12 DEF Perform, GoTo, Size
<1>13. ASSUME NEW w \in Threads, MarkIdle(w) PROVE DyingInv'
  BY <1>13 DEF MarkIdle, GoTo, Size
<1>14. ASSUME NEW w \in Threads, Erase(w) PROVE DyingInv'
  BY <1>14 DEF Erase, GoTo, Size
<1>15. ASSUME NEW w \in Threads, Exit(w) PROVE DyingInv'
  BY <1>15 DEF Exit, GoTo, Size
<1>16. ASSUME NEW c \in Callers, NEW task \in Tasks, NEW block \in Blocking,
            NewTask(c, task, block)
     PROVE  DyingInv'
  BY <1>16 DEF NewTask, CallGoTo, Size
<1>17. ASSUME NEW c \in Callers, NEW w \in Threads, Create(c, w) PROVE DyingInv'
  BY <1>17 DEF Create, CallGoTo, GoTo, Size
<1>18. ASSUME NEW c \in Callers, FindAllBusy(c) PROVE DyingInv'
  <2>1. \A w \in threads : wpc[w] # "suicide"
    BY <1>18, AllBusyMeansAll DEF FindAllBusy, At
  <2>2. \A w \in Threads : wpc[w] # "suicide"
    BY <1>18, <2>1 DEF FindAllBusy, MemberInv, Unborn
  <2> QED BY <1>18, <2>2 DEF FindAllBusy, CallGoTo, Size
<1>19. ASSUME NEW c \in Callers, FindIdle(c) PROVE DyingInv'
  BY <1>19 DEF FindIdle, CallGoTo, Size
<1>20. ASSUME NEW c \in Callers, Insert(c) PROVE DyingInv'
  <2>1. Size' = Size + 1
    BY <1>20, SizeFacts DEF Insert, MemberInv, Size
  <2> QED BY <1>20, <2>1, SizeFacts DEF Insert, CallGoTo
<1>21. ASSUME NEW c \in Callers, Block(c) PROVE DyingInv'
  BY <1>21 DEF Block, CallGoTo, Size
<1>22. ASSUME NEW c \in Callers, UnblockSpuriously(c) PROVE DyingInv'
  BY <1>22 DEF UnblockSpuriously, CallGoTo, Size
<1>23. ASSUME NEW c \in Callers, Unblock(c) PROVE DyingInv'
  BY <1>23 DEF Unblock, CallGoTo, Size
<1>24. ASSUME NEW c \in Callers, Refuse(c) PROVE DyingInv'
  BY <1>24 DEF Refuse, CallGoTo, Size
<1>25. ASSUME NEW c \in Callers, Push(c) PROVE DyingInv'
  <2>1. \A w \in Threads : \/ wpc'[w] = wpc[w]
                           \/ wpc[w] \in Sleeping /\ wpc'[w] = "relock_queue"
    BY <1>25 DEF Push, SignalQueueNotEmpty, At
  <2>2. \A w \in Threads : wpc[w] \notin HoldsQueue
    BY <1>25 DEF Push
  <2>3. \A w \in Threads : wpc'[w] \notin HoldsQueue
    BY <2>1, <2>2
  <2> QED BY <2>3
<1>26. CASE UNCHANGED vars
  BY <1>26 DEF Size
<1> QED
  BY <1>1, <1>2, <1>3, <1>4, <1>5, <1>6, <1>7, <1>8,
     <1>9, <1>10, <1>11, <1>12, <1>13, <1>14, <1>15, <1>16,
     <1>17, <1>18, <1>19, <1>20, <1>21, <1>22, <1>23, <1>24,
     <1>25, <1>26
     DEF Next, WorkerStep, CallerStep

\* Every step leaves enough threads awake for the queued tasks.
LEMMA WakeStep == IndInv /\ [Next]_vars => NoWakeupLost'
<1> SUFFICES ASSUME IndInv, [Next]_vars PROVE NoWakeupLost'
  OBVIOUS
<1> USE PoolAssumption DEF IndInv, TypeOK, NoWakeupLost, vars, workerVars,
        callerVars
<1>1. ASSUME FinishConstruction PROVE NoWakeupLost'
  BY <1>1 DEF FinishConstruction, At
<1>2. ASSUME NEW w \in Threads, InsertPrototype(w) PROVE NoWakeupLost'
  <2>1. wpc[w] = "new" /\ GoTo(w, "lock_queue")
    BY <1>2 DEF InsertPrototype
  <2>2. Cardinality(At(Fetching)') = Cardinality(At(Fetching)) + 1
    BY <2>1, CountGoTo, AtFinite DEF Fetching
  <2>3. At(Sleeping)' = At(Sleeping) \ {w}
    BY <2>1, AtGoTo DEF Sleeping
  <2> QED BY <1>2, <2>2, <2>3, AtFinite, LenProperties DEF InsertPrototype
<1>3. ASSUME NEW w \in Threads, InsertInitial(w) PROVE NoWakeupLost'
  <2>1. wpc[w] = "none" /\ GoTo(w, "lock_queue")
    BY <1>3 DEF InsertInitial
  <2>2. Cardinality(At(Fetching)') = Cardinality(At(Fetching)) + 1
    BY <2>1, CountGoTo, AtFinite DEF Fetching
  <2>3. At(Sleeping)' = At(Sleeping) \ {w}
    BY <2>1, AtGoTo DEF Sleeping
  <2> QED BY <1>3, <2>2, <2>3, AtFinite, LenProperties DEF InsertInitial
<1>4. ASSUME NEW w \in Threads, LockQueue(w) PROVE NoWakeupLost'
  <2>1. wpc[w] = "lock_queue" /\ GoTo(w, "test")
    BY <1>4 DEF LockQueue
  <2>2. Cardinality(At(Fetching)') = Cardinality(At(Fetching))
    BY <2>1, CountGoTo, AtFinite DEF Fetching
  <2>3. At(Sleeping)' = At(Sleeping) \ {w}
    BY <2>1, AtGoTo DEF Sleeping
  <2> QED BY <1>4, <2>2, <2>3, AtFinite, LenProperties DEF LockQueue
<1>5. ASSUME NEW w \in Threads, CheckSize(w) PROVE NoWakeupLost'
  <2>1. queue' = <<>>
    BY <1>5, EmptySeq DEF CheckSize
  <2>2. Cardinality(At(Fetching)') \in Nat
    BY AtFinite, FS_Subset, FS_CardinalityType, PoolAssumption DEF At
  <2> QED BY <2>1, <2>2, EmptySeq
<1>6. ASSUME NEW w \in Threads, Sleep(w) PROVE NoWakeupLost'
  <2>1. queue' = <<>>
    BY <1>6, EmptySeq DEF Sleep, DyingInv, HoldsQueue
  <2>2. Cardinality(At(Fetching)') \in Nat
    BY AtFinite, FS_Subset, FS_CardinalityType, PoolAssumption DEF At
  <2> QED BY <2>1, <2>2, EmptySeq
<1>7. ASSUME NEW w \in Threads, TimeOut(w) PROVE NoWakeupLost'
  <2>1. wpc[w] = "timed_waiting" /\ GoTo(w, "relock_queue")
    BY <1>7 DEF TimeOut
  <2>2. Cardinality(At(Fetching)') = Cardinality(At(Fetching)) + 1
    BY <2>1, CountGoTo, AtFinite DEF Fetching
  <2>3. At(Sleeping)' = At(Sleeping) \ {w}
    BY <2>1, AtGoTo DEF Sleeping
  <2> QED BY <1>7, <2>2, <2>3, AtFinite, LenProperties DEF TimeOut
<1>8. ASSUME NEW w \in Threads, WakeSpuriously(w) PROVE NoWakeupLost'
  <2>1. wpc[w] \in Sleeping /\ GoTo(w, "relock_queue")
    BY <1>8 DEF WakeSpuriously
  <2>2. Cardinality(At(Fetching)') = Cardinality(At(Fetching)) + 1
    BY <2>1, CountGoTo, AtFinite DEF Fetching, Sleeping
  <2>3. At(Sleeping)' = At(Sleeping) \ {w}
    BY <2>1, AtGoTo DEF Sleeping
  <2> QED BY <1>8, <2>2, <2>3, AtFinite, LenProperties DEF WakeSpuriously
<1>9. ASSUME NEW w \in Threads, RelockQueue(w) PROVE NoWakeupLost'
  <2>1. wpc[w] = "relock_queue" /\ GoTo(w, "test")
    BY <1>9 DEF RelockQueue
  <2>2. Cardinality(At(Fetching)') = Cardinality(At(Fetching))
    BY <2>1, CountGoTo, AtFinite DEF Fetching
  <2>3. At(Sleeping)' = At(Sleeping) \ {w}
    BY <2>1, AtGoTo DEF Sleeping
  <2> QED BY <1>9, <2>2, <2>3, AtFinite, LenProperties DEF RelockQueue
<1>10. ASSUME NEW w \in Threads, Dequeue(w) PROVE NoWakeupLost'
  <2>1. wpc[w] = "test" /\ GoTo(w, "mark_busy")
    BY <1>10 DEF Dequeue
  <2>2. Cardinality(At(Fetching)') = Cardinality(At(Fetching)) - 1
    BY <2>1, CountGoTo, AtFinite DEF Fetching
  <2>3. At(Sleeping)' = At(Sleeping) \ {w}
    BY <2>1, AtGoTo DEF Sleeping
  <2>4. Len(queue') = Len(queue) - 1
    BY <1>10, HeadTailProperties DEF Dequeue
  <2>5. Len(queue) \in Nat /\ Cardinality(At(Fetching)) \in Nat
    BY AtFinite, LenProperties
  <2> QED BY <2>2, <2>3, <2>4, <2>5
<1>11. ASSUME NEW w \in Threads, MarkBusy(w) PROVE NoWakeupLost'
  <2>1. wpc[w] = "mark_busy" /\ GoTo(w, "main")
    BY <1>11 DEF MarkBusy
  <2>2. wpc[w] \notin Fetching /\ "main" \notin Fetching
    BY <2>1 DEF Fetching
  <2>3. Cardinality(At(Fetching)') = Cardinality(At(Fetching))
    BY <2>1, <2>2, CountGoTo
  <2>4. At(Sleeping)' = At(Sleeping) \ {w}
    BY <2>1, AtGoTo DEF Sleeping
  <2> QED BY <1>11, <2>3, <2>4, AtFinite, LenProperties DEF MarkBusy
<1>12. ASSUME NEW w \in Threads, Perform(w) PROVE NoWakeupLost'
  <2>1. wpc[w] = "main" /\ GoTo(w, "mark_idle")
    BY <1>12 DEF Perform
  <2>2. wpc[w] \notin Fetching /\ "mark_idle" \notin Fetching
    BY <2>1 DEF Fetching
  <2>3. Cardinality(At(Fetching)') = Cardinality(At(Fetching))
    BY <2>1, <2>2, CountGoTo
  <2>4. At(Sleeping)' = At(Sleeping) \ {w}
    BY <2>1, AtGoTo DEF Sleeping
  <2> QED BY <1>12, <2>3, <2>4, AtFinite, LenProperties DEF Perform
<1>13. ASSUME NEW w \in Threads, MarkIdle(w) PROVE NoWakeupLost'
  <2>1. wpc[w] = "mark_idle" /\ GoTo(w, "lock_queue")
    BY <1>13 DEF MarkIdle
  <2>2. Cardinality(At(Fetching)') = Cardinality(At(Fetching)) + 1
    BY <2>1, CountGoTo, AtFinite DEF Fetching
  <2>3. At(Sleeping)' = At(Sleeping) \ {w}
    BY <2>1, AtGoTo DEF Sleeping
  <2> QED BY <1>13, <2>2, <2>3, AtFinite, LenProperties DEF MarkIdle
<1>14. ASSUME NEW w \in Threads, Erase(w) PROVE NoWakeupLost'
  <2>1. wpc[w] = "suicide" /\ GoTo(w, "exit")
    BY <1>14 DEF Erase
  <2>2. wpc[w] \notin Fetching /\ "exit" \notin Fetching
    BY <2>1 DEF Fetching
  <2>3. Cardinality(At(Fetching)') = Cardinality(At(Fetching))
    BY <2>1, <2>2, CountGoTo
  <2>4. At(Sleeping)' = At(Sleeping) \ {w}
    BY <2>1, AtGoTo DEF Sleeping
  <2> QED BY <1>14, <2>3, <2>4, AtFinite, LenProperties DEF Erase
<1>15. ASSUME NEW w \in Threads, Exit(w) PROVE NoWakeupLost'
  <2>1. wpc[w] = "exit" /\ GoTo(w, "none")
    BY <1>15 DEF Exit
  <2>2. wpc[w] \notin Fetching /\ "none" \notin Fetching
    BY <2>1 DEF Fetching
  <2>3. Cardinality(At(Fetching)') = Cardinality(At(Fetching))
    BY <2>1, <2>2, CountGoTo
  <2>4. At(Sleeping)' = At(Sleeping) \ {w}
    BY <2>1, AtGoTo DEF Sleeping
  <2> QED BY <1>15, <2>3, <2>4, AtFinite, LenProperties DEF Exit
<1>16. ASSUME NEW c \in Callers, NEW task \in Tasks, NEW block \in Blocking,
            NewTask(c, task, block)
     PROVE  NoWakeupLost'
  BY <1>16 DEF NewTask, At
<1>17. ASSUME NEW c \in Callers, NEW w \in Threads, Create(c, w) PROVE NoWakeupLost'
  <2>1. wpc[w] = "none" /\ GoTo(w, "lock_queue") /\ UNCHANGED queue
    BY <1>17 DEF Create
  <2>2. Cardinality(At(Fetching)') = Cardinality(At(Fetching)) + 1
    BY <2>1, CountGoTo, AtFinite DEF Fetching
  <2>3. At(Sleeping)' = At(Sleeping) \ {w}
    BY SMTT(60), <2>1, AtGoTo DEF Sleeping
  <2> QED BY <2>1, <2>2, <2>3, AtFinite, LenProperties
<1>18. ASSUME NEW c \in Callers, FindAllBusy(c) PROVE NoWakeupLost'
  BY <1>18 DEF FindAllBusy, At
<1>19. ASSUME NEW c \in Callers, FindIdle(c) PROVE NoWakeupLost'
  BY <1>19 DEF FindIdle, At
<1>20. ASSUME NEW c \in Callers, Insert(c) PROVE NoWakeupLost'
  BY <1>20 DEF Insert, At
<1>21. ASSUME NEW c \in Callers, Block(c) PROVE NoWakeupLost'
  BY <1>21 DEF Block, At
<1>22. ASSUME NEW c \in Callers, UnblockSpuriously(c) PROVE NoWakeupLost'
  BY <1>22 DEF UnblockSpuriously, At
<1>23. ASSUME NEW c \in Callers, Unblock(c) PROVE NoWakeupLost'
  BY <1>23 DEF Unblock, At
<1>24. ASSUME NEW c \in Callers, Refuse(c) PROVE NoWakeupLost'
  BY <1>24 DEF Refuse, At
<1>25. ASSUME NEW c \in Callers, Push(c) PROVE NoWakeupLost'
  <2>1. Len(queue') = Len(queue) + 1
    BY <1>25 DEF Push, HeldInv
  <2>2. CASE At(Sleeping) = {}
    BY <1>25, <2>2 DEF Push, SignalQueueNotEmpty, At
  <2>3. ASSUME NEW w \in At(Sleeping), GoTo(w, "relock_queue") PROVE NoWakeupLost'
    <3>1. w \in Threads /\ wpc[w] \in Sleeping
      BY DEF At
    <3>2. Cardinality(At(Fetching)') = Cardinality(At(Fetching)) + 1
      BY <2>3, <3>1, CountGoTo, AtFinite DEF Fetching, Sleeping
    <3> QED BY <2>1, <2>3, <3>2, AtFinite, LenProperties
  <2> QED BY <1>25, <2>2, <2>3 DEF Push, SignalQueueNotEmpty, GoTo
<1>26. CASE UNCHANGED vars
  BY <1>26 DEF At
<1> QED
  BY <1>1, <1>2, <1>3, <1>4, <1>5, <1>6, <1>7, <1>8,
     <1>9, <1>10, <1>11, <1>12, <1>13, <1>14, <1>15, <1>16,
     <1>17, <1>18, <1>19, <1>20, <1>21, <1>22, <1>23, <1>24,
     <1>25, <1>26
     DEF Next, WorkerStep, CallerStep

-----------------------------------------------------------------------------
(* The theorems.                                                           *)

\* The pool under construction satisfies the inductive invariant.
LEMMA InitInd == Init => IndInv
<1> SUFFICES ASSUME Init PROVE IndInv
  OBVIOUS
<1> USE PoolAssumption DEF Init, Places, Sleeping, Performing, CountedBusy, HoldsQueue
<1>0. Size = 0
  BY FS_EmptySet DEF Size
<1>1. TypeOK
  BY DEF TypeOK, NoCall, CallPlaces
<1>2. LockInv /\ HeldInv
  BY DEF LockInv, HeldInv
<1>3. ConstructionInv /\ PoolSizeInBounds
  BY <1>0 DEF ConstructionInv, PoolSizeInBounds, Constructed
<1>4. MemberInv /\ DyingInv
  BY <1>0 DEF MemberInv, DyingInv, Unborn
<1>5. CountInv
  <2>1. At(CountedBusy) = {}
    BY DEF At
  <2> QED BY <2>1, FS_EmptySet DEF CountInv
<1>6. NoWakeupLost
  <2>1. At(Sleeping) = {}
    BY DEF At
  <2> QED BY <2>1 DEF NoWakeupLost
<1> QED BY <1>1, <1>2, <1>3, <1>4, <1>5, <1>6 DEF IndInv

\* The conjunction is inductive: each part needs others, all of them together
\* only themselves.
THEOREM Inductive == Spec => []IndInv
<1>1. IndInv /\ [Next]_vars => IndInv'
  BY TypeStep, LockStep, HeldStep, ConstructionStep, MemberStep, DyingStep,
     CountStep, SizeStep, WakeStep DEF IndInv
<1> QED BY InitInd, <1>1, PTL DEF Spec

\* Every reachable state is well typed.
THEOREM TypeCorrect == Spec => []TypeOK
<1>1. IndInv => TypeOK
  BY DEF IndInv
<1> QED BY Inductive, <1>1, PTL

\* The pool never leaves its bounds, whatever threads die and are created at
\* the same time.
THEOREM PoolSize == Spec => []PoolSizeInBounds
<1>1. IndInv => PoolSizeInBounds
  BY DEF IndInv
<1> QED BY Inductive, <1>1, PTL

\* No wakeup is lost.
THEOREM NoLostWakeup == Spec => []NoWakeupLost
<1>1. IndInv => NoWakeupLost
  BY DEF IndInv
<1> QED BY Inductive, <1>1, PTL

\* The equality test of new_task() sees every pool that is entirely busy:
\* t_busy_ does not run past threads_.size() where it is compared with it.
THEOREM BusyBounded == Spec => []BusyNeverExceedsPool
<1>1. ASSUME IndInv, NEW c \in Callers, cpc[c] = "check" PROVE t_busy <= Size
  <2>1. At(CountedBusy) \subseteq threads
    <3>1. ASSUME NEW w \in At(CountedBusy) PROVE w \in threads
      <4>1. w \in Threads /\ wpc[w] \in CountedBusy
        BY DEF At
      <4>2. \A d \in Callers : cpc[d] # "insert"
        BY <1>1 DEF IndInv, LockInv
      <4> QED BY <1>1, <4>1, <4>2 DEF IndInv, MemberInv, Unborn, CountedBusy
    <3> QED BY <3>1
  <2>2. IsFiniteSet(threads)
    BY <1>1, SizeFacts DEF IndInv
  <2> QED BY <1>1, <2>1, <2>2, FS_Subset DEF IndInv, CountInv, Size
<1>2. IndInv => BusyNeverExceedsPool
  BY <1>1 DEF BusyNeverExceedsPool
<1> QED BY Inductive, <1>2, PTL

\* new_task() always has a live thread to clone.
THEOREM PrototypeAlive == Spec => []PrototypeIsAlive
<1>1. ASSUME IndInv, NEW c \in Callers, cpc[c] = "all_busy"
      PROVE  threads # {} /\ \A w \in threads : wpc[w] \notin {"none", "suicide", "exit"}
  <2>1. Constructed
    BY <1>1, PoolAssumption DEF IndInv, LockInv, Constructed
  <2>2. threads # {}
    BY <1>1, <2>1, SizeFacts, PoolAssumption DEF IndInv, PoolSizeInBounds
  <2> QED BY <1>1, <2>2 DEF IndInv, TypeOK, MemberInv, DyingInv, Unborn
<1>2. IndInv => PrototypeIsAlive
  BY <1>1 DEF PrototypeIsAlive
<1> QED BY Inductive, <1>2, PTL

\* A thread leaves the set only as a surplus one with nothing to do.
THEOREM SurplusDeaths == Spec => OnlySurplusThreadsDie
<1>1. ASSUME IndInv, [Next]_vars, NEW w \in threads, w \notin threads'
      PROVE  queue = <<>> /\ wpc[w] \notin Performing /\ Size > MinThreads
  <2>1. PICK v \in Threads : Erase(v)
    BY <1>1 DEF vars, Next, WorkerStep, CallerStep, FinishConstruction, InsertPrototype,
       InsertInitial, LockQueue, CheckSize, Sleep, TimeOut, WakeSpuriously, RelockQueue,
       Dequeue, MarkBusy, Perform, MarkIdle, Exit, NewTask, FindAllBusy, FindIdle, Create,
       Insert, Block, UnblockSpuriously, Unblock, Refuse, Push
  <2>2. w = v /\ wpc[w] = "suicide" /\ w \in Threads
    BY <1>1, <2>1 DEF Erase, IndInv, TypeOK
  <2> QED BY <1>1, <2>2 DEF IndInv, DyingInv, HoldsQueue, Performing
<1>2. IndInv /\ [Next]_vars =>
        [\A w \in threads :
           w \notin threads' =>
             queue = <<>> /\ wpc[w] \notin Performing /\ Size > MinThreads]_vars
  BY <1>1
<1> QED BY Inductive, <1>2, PTL DEF Spec, OnlySurplusThreadsDie

-----------------------------------------------------------------------------
(* No task is lost or performed twice: the pool implements TaskService.    *)

\* Every step leaves each task in one place.
LEMMA OnePlaceStep == IndInv /\ OnePlace /\ [Next]_vars => OnePlace'
<1> SUFFICES ASSUME IndInv /\ OnePlace, [Next]_vars PROVE OnePlace'
  OBVIOUS
<1> USE PoolAssumption DEF IndInv, TypeOK, NoCall, At, Blocked, Places,
        Sleeping, Performing, CountedBusy, HoldsQueue, CallPlaces, vars,
        workerVars, callerVars, OnePlace
<1>1. ASSUME FinishConstruction PROVE OnePlace'
  BY <1>1 DEF FinishConstruction
<1>2. ASSUME NEW w \in Threads, InsertPrototype(w) PROVE OnePlace'
  BY <1>2 DEF InsertPrototype, GoTo
<1>3. ASSUME NEW w \in Threads, InsertInitial(w) PROVE OnePlace'
  BY <1>3 DEF InsertInitial, GoTo
<1>4. ASSUME NEW w \in Threads, LockQueue(w) PROVE OnePlace'
  BY <1>4 DEF LockQueue, GoTo
<1>5. ASSUME NEW w \in Threads, CheckSize(w) PROVE OnePlace'
  BY <1>5 DEF CheckSize, Surplus, SignalIdle, GoTo
<1>6. ASSUME NEW w \in Threads, Sleep(w) PROVE OnePlace'
  <2>1. \A v \in Threads : wpc'[v] \in Performing <=> wpc[v] \in Performing
    BY <1>6 DEF Sleep, GoTo
  <2>2. UNCHANGED <<queue, arg, cpc, call>>
    BY <1>6 DEF Sleep
  <2> QED BY <2>1, <2>2
<1>7. ASSUME NEW w \in Threads, TimeOut(w) PROVE OnePlace'
  BY <1>7 DEF TimeOut, GoTo
<1>8. ASSUME NEW w \in Threads, WakeSpuriously(w) PROVE OnePlace'
  BY <1>8 DEF WakeSpuriously, GoTo
<1>9. ASSUME NEW w \in Threads, RelockQueue(w) PROVE OnePlace'
  BY <1>9 DEF RelockQueue, GoTo
<1>10. ASSUME NEW w \in Threads, Dequeue(w) PROVE OnePlace'
  BY <1>10 DEF Dequeue, GoTo
<1>11. ASSUME NEW w \in Threads, MarkBusy(w) PROVE OnePlace'
  BY <1>11 DEF MarkBusy, GoTo
<1>12. ASSUME NEW w \in Threads, Perform(w) PROVE OnePlace'
  BY <1>12 DEF Perform, GoTo
<1>13. ASSUME NEW w \in Threads, MarkIdle(w) PROVE OnePlace'
  BY <1>13 DEF MarkIdle, GoTo
<1>14. ASSUME NEW w \in Threads, Erase(w) PROVE OnePlace'
  BY <1>14 DEF Erase, GoTo
<1>15. ASSUME NEW w \in Threads, Exit(w) PROVE OnePlace'
  BY <1>15 DEF Exit, GoTo
<1>16. ASSUME NEW c \in Callers, NEW task \in Tasks, NEW block \in Blocking,
            NewTask(c, task, block)
     PROVE  OnePlace'
  <2>1. /\ cpc' = [cpc EXCEPT ![c] = "check"] /\ cpc[c] = "idle"
        /\ \A d \in Callers : call'[d].task = IF d = c THEN task ELSE call[d].task
        /\ UNCHANGED <<queue, wpc, arg>>
    BY <1>16 DEF NewTask, CallGoTo
  <2>2. /\ \A d \in Callers : cpc[d] # "idle" => call[d].task # task
        /\ \A i \in 1..Len(queue) : queue[i] # task
        /\ \A w \in At(Performing) : arg[w] # task
    BY <1>16 DEF NewTask, Outstanding
  <2>3. \A d \in Callers : cpc'[d] # "idle" => cpc[d] # "idle" \/ d = c
    BY <2>1
  <2> QED BY <2>1, <2>2, <2>3
<1>17. ASSUME NEW c \in Callers, NEW w \in Threads, Create(c, w) PROVE OnePlace'
  BY <1>17 DEF Create, GoTo, CallGoTo
<1>18. ASSUME NEW c \in Callers, FindAllBusy(c) PROVE OnePlace'
  BY <1>18 DEF FindAllBusy, CallGoTo
<1>19. ASSUME NEW c \in Callers, FindIdle(c) PROVE OnePlace'
  BY <1>19 DEF FindIdle, CallGoTo
<1>20. ASSUME NEW c \in Callers, Insert(c) PROVE OnePlace'
  BY <1>20 DEF Insert, CallGoTo
<1>21. ASSUME NEW c \in Callers, Block(c) PROVE OnePlace'
  BY <1>21 DEF Block, CallGoTo
<1>22. ASSUME NEW c \in Callers, UnblockSpuriously(c) PROVE OnePlace'
  BY <1>22 DEF UnblockSpuriously, CallGoTo
<1>23. ASSUME NEW c \in Callers, Unblock(c) PROVE OnePlace'
  BY <1>23 DEF Unblock, CallGoTo
<1>24. ASSUME NEW c \in Callers, Refuse(c) PROVE OnePlace'
  BY <1>24 DEF Refuse, CallGoTo
<1>25. ASSUME NEW c \in Callers, Push(c) PROVE OnePlace'
  BY <1>25 DEF Push, SignalQueueNotEmpty, CallGoTo
<1>26. CASE UNCHANGED vars
  BY <1>26
<1> QED
  BY <1>1, <1>2, <1>3, <1>4, <1>5, <1>6, <1>7, <1>8,
     <1>9, <1>10, <1>11, <1>12, <1>13, <1>14, <1>15, <1>16,
     <1>17, <1>18, <1>19, <1>20, <1>21, <1>22, <1>23, <1>24,
     <1>25, <1>26
     DEF Next, WorkerStep, CallerStep

\* A task is in one place: with one caller, once in the queue, or with one thread.
THEOREM EachTaskInOnePlace == Spec => []OnePlace
<1>1. Init => OnePlace
  BY DEF Init, OnePlace, At, Performing
<1> QED BY InitInd, Inductive, <1>1, OnePlaceStep, PTL DEF Spec

\* A worker at the queue is not one of the pool's limit of threads that have a
\* task in hand, so there are fewer of those than the limit.
LEMMA RoomForOne ==
  ASSUME IndInv, NEW w \in Threads, wpc[w] = "test", queue # <<>>
  PROVE  Cardinality(InHand) < SizeLimit
<1>1. Constructed
  BY DEF IndInv, ConstructionInv
<1>2. PICK members : /\ IsFiniteSet(members)
                     /\ Cardinality(members) \in Nat /\ Cardinality(members) <= SizeLimit
                     /\ \A v \in Threads : wpc[v] \notin Unborn => v \in members
  <2>1. IsFiniteSet(threads) /\ Size \in Nat /\ Size <= SizeLimit
    BY <1>1, SizeFacts DEF IndInv, PoolSizeInBounds
  <2>2. CASE \E c \in Callers : cpc[c] = "insert"
    <3>1. PICK c \in Callers : cpc[c] = "insert"
      BY <2>2
    <3>2. \A d \in Callers : cpc[d] = "insert" => d = c
      BY <3>1 DEF IndInv, LockInv
    <3>3. \A v \in Threads : wpc[v] \notin Unborn => v \in threads \cup {call[c].thread}
      BY <3>1, <3>2 DEF IndInv, MemberInv
    <3>4. Size < MaxThreads
      BY <3>1 DEF IndInv, MemberInv
    <3>5. /\ IsFiniteSet(threads \cup {call[c].thread})
          /\ Cardinality(threads \cup {call[c].thread}) \in {Size, Size + 1}
      BY <2>1, FS_AddElement DEF Size
    <3>6. Cardinality(threads \cup {call[c].thread}) <= SizeLimit
      BY <2>1, <3>4, <3>5, PoolAssumption DEF SizeLimit
    <3> QED BY <2>1, <3>3, <3>5, <3>6
  <2>3. CASE \A c \in Callers : cpc[c] # "insert"
    <3>1. \A v \in Threads : wpc[v] \notin Unborn => v \in threads
      BY <2>3 DEF IndInv, MemberInv
    <3> QED BY <2>1, <3>1 DEF Size
  <2> QED BY <2>2, <2>3
<1>3. At(Performing) \subseteq members \ {w} /\ w \in members
  BY <1>2 DEF At, Performing, Unborn
<1>4. IsFiniteSet(members \ {w}) /\ Cardinality(members \ {w}) < SizeLimit
  <2>1. Cardinality(members \ {w}) = Cardinality(members) - 1
    BY <1>2, <1>3, FS_RemoveElement
  <2>2. SizeLimit \in Nat
    BY PoolAssumption DEF SizeLimit
  <2>3. IsFiniteSet(members \ {w})
    BY <1>2, FS_RemoveElement
  <2> QED BY <1>2, <2>1, <2>2, <2>3
<1>5. /\ IsFiniteSet(At(Performing))
      /\ Cardinality(At(Performing)) <= Cardinality(members \ {w})
  BY <1>3, <1>4, FS_Subset
<1>6. IsFiniteSet(InHand) /\ Cardinality(InHand) <= Cardinality(At(Performing))
  <2> DEFINE f == [v \in At(Performing) |-> arg[v]]
  <2>1. f \in Surjection(At(Performing), InHand)
    BY DEF Surjection, InHand
  <2> QED BY <2>1, <1>5, FS_Surjection
<1>7. /\ Cardinality(InHand) \in Nat /\ Cardinality(At(Performing)) \in Nat
      /\ Cardinality(members \ {w}) \in Nat /\ SizeLimit \in Nat
  BY <1>4, <1>5, <1>6, FS_CardinalityType, PoolAssumption DEF SizeLimit
<1> QED BY <1>4, <1>5, <1>6, <1>7

\* The steps of the pool that hand no task on.
KeepsTasks ==
  /\ queue' = queue
  /\ \A w \in Threads : wpc'[w] \in Performing <=> wpc[w] \in Performing
  /\ \A w \in At(Performing) : arg'[w] = arg[w]

QuietStep ==
  \/ FinishConstruction
  \/ \E w \in Threads :
       \/ InsertPrototype(w) \/ InsertInitial(w) \/ LockQueue(w) \/ CheckSize(w)
       \/ Sleep(w) \/ TimeOut(w) \/ WakeSpuriously(w) \/ RelockQueue(w)
       \/ MarkBusy(w) \/ MarkIdle(w) \/ Erase(w) \/ Exit(w)
  \/ \E c \in Callers :
       \/ \E task \in Tasks, block \in Blocking : NewTask(c, task, block)
       \/ FindAllBusy(c) \/ FindIdle(c) \/ \E w \in Threads : Create(c, w)
       \/ Insert(c) \/ Block(c) \/ UnblockSpuriously(c) \/ Unblock(c) \/ Refuse(c)
  \/ UNCHANGED vars

\* The steps that neither queue, take nor finish a task leave all of them as they are.
LEMMA QuietStepsKeepTasks == IndInv /\ QuietStep => KeepsTasks
<1> SUFFICES ASSUME IndInv, QuietStep PROVE KeepsTasks
  OBVIOUS
<1> USE DEF KeepsTasks, IndInv, TypeOK, At, Places, Sleeping, Performing, CountedBusy,
        HoldsQueue, vars, workerVars, callerVars
<1>1. ASSUME FinishConstruction PROVE KeepsTasks
  BY <1>1 DEF FinishConstruction
<1>2. ASSUME NEW w \in Threads, InsertPrototype(w) PROVE KeepsTasks
  BY <1>2 DEF InsertPrototype, GoTo
<1>3. ASSUME NEW w \in Threads, InsertInitial(w) PROVE KeepsTasks
  BY <1>3 DEF InsertInitial, GoTo
<1>4. ASSUME NEW w \in Threads, LockQueue(w) PROVE KeepsTasks
  BY <1>4 DEF LockQueue, GoTo
<1>5. ASSUME NEW w \in Threads, CheckSize(w) PROVE KeepsTasks
  BY <1>5 DEF CheckSize, GoTo
<1>6. ASSUME NEW w \in Threads, Sleep(w) PROVE KeepsTasks
  BY <1>6 DEF Sleep, GoTo
<1>7. ASSUME NEW w \in Threads, TimeOut(w) PROVE KeepsTasks
  BY <1>7 DEF TimeOut, GoTo
<1>8. ASSUME NEW w \in Threads, WakeSpuriously(w) PROVE KeepsTasks
  BY <1>8 DEF WakeSpuriously, GoTo
<1>9. ASSUME NEW w \in Threads, RelockQueue(w) PROVE KeepsTasks
  BY <1>9 DEF RelockQueue, GoTo
<1>10. ASSUME NEW w \in Threads, MarkBusy(w) PROVE KeepsTasks
  BY <1>10 DEF MarkBusy, GoTo
<1>11. ASSUME NEW w \in Threads, MarkIdle(w) PROVE KeepsTasks
  BY <1>11 DEF MarkIdle, GoTo
<1>12. ASSUME NEW w \in Threads, Erase(w) PROVE KeepsTasks
  BY <1>12 DEF Erase, GoTo
<1>13. ASSUME NEW w \in Threads, Exit(w) PROVE KeepsTasks
  BY <1>13 DEF Exit, GoTo
<1>14. ASSUME NEW c \in Callers, NEW task \in Tasks, NEW block \in Blocking,
            NewTask(c, task, block)
     PROVE  KeepsTasks
  BY <1>14 DEF NewTask
<1>15. ASSUME NEW c \in Callers, NEW w \in Threads, Create(c, w) PROVE KeepsTasks
  BY <1>15 DEF Create, GoTo
<1>16. ASSUME NEW c \in Callers, FindAllBusy(c) PROVE KeepsTasks
  BY <1>16 DEF FindAllBusy
<1>17. ASSUME NEW c \in Callers, FindIdle(c) PROVE KeepsTasks
  BY <1>17 DEF FindIdle
<1>18. ASSUME NEW c \in Callers, Insert(c) PROVE KeepsTasks
  BY <1>18 DEF Insert
<1>19. ASSUME NEW c \in Callers, Block(c) PROVE KeepsTasks
  BY <1>19 DEF Block
<1>20. ASSUME NEW c \in Callers, UnblockSpuriously(c) PROVE KeepsTasks
  BY <1>20 DEF UnblockSpuriously
<1>21. ASSUME NEW c \in Callers, Unblock(c) PROVE KeepsTasks
  BY <1>21 DEF Unblock
<1>22. ASSUME NEW c \in Callers, Refuse(c) PROVE KeepsTasks
  BY <1>22 DEF Refuse
<1>23. CASE UNCHANGED vars
  BY <1>23
<1> QED
  BY <1>1, <1>2, <1>3, <1>4, <1>5, <1>6, <1>7, <1>8, <1>9, <1>10, <1>11, <1>12,
     <1>13, <1>14, <1>15, <1>16, <1>17, <1>18, <1>19, <1>20, <1>21, <1>22, <1>23 DEF QuietStep

\* Each step of the pool is a step of TaskService or leaves its variables alone:
\* Push accepts a task, Dequeue starts one and the end of main() finishes it.
LEMMA ServiceStep == IndInv /\ OnePlace /\ [Next]_vars => [Service!Next]_Service!serviceVars
<1> SUFFICES ASSUME IndInv, OnePlace, [Next]_vars
             PROVE  [Service!Next]_Service!serviceVars
  OBVIOUS
<1>1. ASSUME KeepsTasks PROVE UNCHANGED Service!serviceVars
  <2>1. At(Performing)' = At(Performing) /\ \A w \in At(Performing) : arg'[w] = arg[w]
    BY <1>1 DEF KeepsTasks, At
  <2>2. InHand' = InHand
    BY <2>1 DEF InHand
  <2> QED BY <1>1, <2>2 DEF KeepsTasks, Service!serviceVars
<1>2. ASSUME NEW c \in Callers, Push(c) PROVE Service!Next
  <2>1. call[c].task \in Tasks
    BY <1>2 DEF Push, IndInv, HeldInv
  <2>2. \A w \in Threads : wpc'[w] \in Performing <=> wpc[w] \in Performing
    BY <1>2 DEF Push, SignalQueueNotEmpty, At, Sleeping, Performing, IndInv, TypeOK
  <2>3. At(Performing)' = At(Performing) /\ arg' = arg
    BY <1>2, <2>2 DEF Push, At
  <2>4. InHand' = InHand
    BY <2>3 DEF InHand
  <2>5. call[c].task \notin InHand /\ \A i \in 1..Len(queue) : queue[i] # call[c].task
    BY <1>2 DEF OnePlace, InHand, Push
  <2>6. Service!Accept(call[c].task)
    BY <1>2, <2>4, <2>5 DEF Push, Service!Accept
  <2> QED BY <2>1, <2>6 DEF Service!Next
<1>3. ASSUME NEW w \in Threads, Dequeue(w) PROVE Service!Next
  <2>1. wpc[w] = "test" /\ queue # <<>> /\ queue' = Tail(queue)
    BY <1>3 DEF Dequeue
  <2>2. Cardinality(InHand) < SizeLimit
    BY <2>1, RoomForOne
  <2>3. At(Performing)' = At(Performing) \cup {w} /\ w \notin At(Performing)
    <3>1. GoTo(w, "mark_busy") /\ wpc \in [Threads -> Places] /\ "mark_busy" \in Performing
      BY <1>3 DEF Dequeue, IndInv, TypeOK, Performing
    <3>2. At(Performing)' = At(Performing) \cup {w}
      BY <3>1, AtGoTo
    <3> QED BY <2>1, <3>2 DEF At, Performing
  <2>4. arg'[w] = Head(queue) /\ \A v \in At(Performing) : arg'[v] = arg[v]
    BY <1>3, <2>3 DEF Dequeue, IndInv, TypeOK, At
  <2>5. InHand' = InHand \cup {Head(queue)}
    BY <2>3, <2>4 DEF InHand
  <2>6. Service!Cardinality(InHand) = Cardinality(InHand)
    BY DEF Cardinality, Service!Cardinality, IsFiniteSet, Service!IsFiniteSet
  <2>7. Service!Start
    BY <2>1, <2>2, <2>5, <2>6 DEF Service!Start
  <2> QED BY <2>7 DEF Service!Next
<1>4. ASSUME NEW w \in Threads, Perform(w) PROVE Service!Next
  <2>1. w \in At(Performing) /\ queue' = queue /\ arg[w] \in Tasks
    BY <1>4 DEF Perform, At, Performing, IndInv, HeldInv
  <2>2. At(Performing)' = At(Performing) \ {w}
    BY <1>4, AtGoTo DEF Perform, Performing, IndInv, TypeOK
  <2>3. \A v \in At(Performing) \ {w} : arg'[v] = arg[v] /\ arg[v] # arg[w]
    BY <1>4, <2>1 DEF Perform, OnePlace, IndInv, TypeOK, At
  <2>4. InHand' = InHand \ {arg[w]} /\ arg[w] \in InHand
    BY <2>1, <2>2, <2>3 DEF InHand
  <2>5. Service!Finish(arg[w])
    BY <2>1, <2>4 DEF Service!Finish
  <2> QED BY <2>1, <2>5 DEF Service!Next
<1>5. CASE QuietStep
  BY <1>1, <1>5, QuietStepsKeepTasks
<1> QED
  BY <1>2, <1>3, <1>4, <1>5 DEF QuietStep, Next, WorkerStep, CallerStep

\* No task is lost, invented, reordered or performed twice, and no more are
\* performed at once than the pool's limit: the pool implements TaskService.
THEOREM Refinement == Spec => ServiceSpec
<1>1. Init => Service!Init
  <2>1. ASSUME Init PROVE At(Performing) = {}
    BY <2>1 DEF Init, At, Performing
  <2> QED BY <2>1 DEF Init, Service!Init, InHand
<1>2. Spec => []IndInv /\ []OnePlace
  BY Inductive, EachTaskInOnePlace
<1> QED BY <1>1, <1>2, ServiceStep, PTL DEF Spec, ServiceSpec, Service!Spec

-----------------------------------------------------------------------------
\* Every step keeps the threads of the pool awake while a caller decides what to
\* do about a pool that is entirely busy.
LEMMA AwakeStep == IndInv /\ AwakeInv /\ [Next]_vars => AwakeInv'
<1> DEFINE Awake == CountedBusy \cup Performing \cup {"lock_queue", "test"}
<1> SUFFICES ASSUME IndInv, AwakeInv, [Next]_vars,
                    NEW c \in Callers, NEW w \in threads', cpc'[c] = "all_busy"
             PROVE  wpc'[w] \in Awake
  BY DEF AwakeInv
\* The caller has just found every thread busy ...
<1>1. CASE cpc[c] # "all_busy"
  <2>1. FindAllBusy(c)
    <3>1. CASE UNCHANGED cpc
      BY <1>1, <3>1
    <3>2. ASSUME NEW v \in Threads, CheckSize(v) PROVE FALSE
      BY <1>1, <3>2 DEF CheckSize, SignalIdle, Blocked, IndInv, TypeOK
    <3>3. ASSUME NEW d \in Callers, CallerStep(d), d # c PROVE FALSE
      <4>1. \E place : CallGoTo(d, place)
        BY <3>3 DEF CallerStep, NewTask, FindAllBusy, FindIdle, Create, Insert, Block,
           UnblockSpuriously, Unblock, Refuse, Push
      <4> QED BY <1>1, <3>3, <4>1 DEF CallGoTo, IndInv, TypeOK
    <3>4. CASE CallerStep(c)
      <4>1. ASSUME NEW place, CallGoTo(c, place) PROVE place = "all_busy"
        BY <4>1 DEF CallGoTo, IndInv, TypeOK
      <4> QED BY <3>4, <4>1 DEF CallerStep, NewTask, FindIdle, Create, Insert, Block,
          UnblockSpuriously, Unblock, Refuse, Push
    <3> QED
      BY <3>1, <3>2, <3>3, <3>4 DEF Next, WorkerStep, FinishConstruction, InsertPrototype,
         InsertInitial, LockQueue, Sleep, TimeOut, WakeSpuriously, RelockQueue, Dequeue,
         MarkBusy, Perform, MarkIdle, Erase, Exit, callerVars, vars
  <2>2. At(CountedBusy) = threads
    BY <2>1, AllBusyMeansAll DEF FindAllBusy
  <2>3. w \in threads /\ wpc'[w] = wpc[w]
    BY <2>1 DEF FindAllBusy, workerVars
  <2> QED BY <2>2, <2>3 DEF At
\* ... or holds t_lock_ since it did.
<1>2. CASE cpc[c] = "all_busy"
  <2>1. t_lock = c /\ t_lock # None /\ t_lock # Constructor
    BY <1>2, PoolAssumption DEF IndInv, LockInv
  <2>2. \A d \in Callers : cpc[d] # "insert"
    BY <1>2, <2>1 DEF IndInv, LockInv
  <2>3. w \in threads
    BY <2>1, <2>2 DEF Next, WorkerStep, CallerStep, FinishConstruction, InsertPrototype,
       InsertInitial, LockQueue, CheckSize, Sleep, TimeOut, WakeSpuriously, RelockQueue,
       Dequeue, MarkBusy, Perform, MarkIdle, Erase, Exit, NewTask, FindAllBusy, FindIdle, Create,
       Insert, Block, UnblockSpuriously, Unblock, Refuse, Push, vars
  <2>4. w \in Threads /\ wpc[w] \in Awake /\ wpc \in [Threads -> Places]
    BY <1>2, <2>3 DEF AwakeInv, IndInv, TypeOK
  <2>5. CASE wpc'[w] = wpc[w]
    BY <2>4, <2>5
  <2>6. ASSUME NEW v \in Threads, v = w,
               \/ InsertPrototype(v) \/ InsertInitial(v) \/ LockQueue(v) \/ CheckSize(v)
               \/ Sleep(v) \/ TimeOut(v) \/ WakeSpuriously(v) \/ RelockQueue(v)
               \/ Dequeue(v) \/ MarkBusy(v) \/ Perform(v) \/ MarkIdle(v) \/ Erase(v) \/ Exit(v)
        PROVE  wpc'[w] \in Awake
    BY <2>1, <2>4, <2>6 DEF InsertPrototype, InsertInitial, LockQueue, CheckSize, Sleep, TimeOut,
       WakeSpuriously, RelockQueue, Dequeue, MarkBusy, Perform, MarkIdle, Erase, Exit, GoTo,
       Sleeping, CountedBusy, Performing
  <2>7. ASSUME NEW d \in Callers, Push(d) PROVE wpc'[w] = wpc[w]
    BY <2>4, <2>7 DEF Push, SignalQueueNotEmpty, At, Sleeping, CountedBusy, Performing
  <2>8. ASSUME NEW d \in Callers, NEW v \in Threads, Create(d, v) PROVE wpc'[w] = wpc[w]
    BY <2>4, <2>8 DEF Create, GoTo, CountedBusy, Performing
  <2>9. CASE \E v \in Threads : WorkerStep(v)
    <3>1. PICK v \in Threads : WorkerStep(v)
      BY <2>9
    <3>2. CASE v = w
      BY <2>6, <3>1, <3>2 DEF WorkerStep
    <3>3. CASE v # w
      <4>1. \E place : GoTo(v, place)
        BY <3>1 DEF WorkerStep, InsertPrototype, InsertInitial, LockQueue, CheckSize, Sleep,
           TimeOut, WakeSpuriously, RelockQueue, Dequeue, MarkBusy, Perform, MarkIdle, Erase, Exit
      <4> QED BY <2>4, <2>5, <3>3, <4>1 DEF GoTo
    <3> QED BY <3>2, <3>3
  <2>10. CASE ~ \E v \in Threads : WorkerStep(v)
    BY <2>5, <2>7, <2>8, <2>10 DEF Next, CallerStep, FinishConstruction, NewTask, FindAllBusy,
       FindIdle, Insert, Block, UnblockSpuriously, Unblock, Refuse, workerVars, vars
  <2> QED BY <2>9, <2>10
<1> QED BY <1>1, <1>2

\* A caller is refused, or blocks, only while none of the pool's threads sleeps.
THEOREM RefusedWhenNoneSleeps == Spec => RefusedOnlyWhenNoneSleeps
<1> DEFINE Refused == \A c \in Callers :
                        cpc[c] = "all_busy" /\ cpc'[c] \in {"idle", "blocked"} =>
                          Size >= MaxThreads /\ threads \cap At(Sleeping) = {}
<1>1. ASSUME IndInv, AwakeInv, [Next]_vars, NEW c \in Callers,
             cpc[c] = "all_busy", cpc'[c] \in {"idle", "blocked"}
      PROVE  Size >= MaxThreads /\ threads \cap At(Sleeping) = {}
  <2>1. Block(c) \/ Refuse(c)
    <3>1. CASE UNCHANGED cpc
      BY <1>1, <3>1
    <3>2. ASSUME NEW w \in Threads, CheckSize(w) PROVE FALSE
      BY <1>1, <3>2 DEF CheckSize, SignalIdle, Blocked, IndInv, TypeOK
    <3>3. ASSUME NEW d \in Callers, CallerStep(d), d # c PROVE FALSE
      <4>1. \E place : CallGoTo(d, place)
        BY <3>3 DEF CallerStep, NewTask, FindAllBusy, FindIdle, Create, Insert, Block,
           UnblockSpuriously, Unblock, Refuse, Push
      <4> QED BY <1>1, <3>3, <4>1 DEF CallGoTo, IndInv, TypeOK
    <3>4. CASE CallerStep(c)
      <4>1. ASSUME NEW w \in Threads, Create(c, w) PROVE FALSE
        BY <1>1, <4>1 DEF Create, CallGoTo, IndInv, TypeOK
      <4> QED BY <1>1, <3>4, <4>1 DEF CallerStep, NewTask, FindAllBusy, FindIdle, Insert,
          UnblockSpuriously, Unblock, Push
    <3> QED
      BY <1>1, <3>1, <3>2, <3>3, <3>4 DEF Next, WorkerStep, FinishConstruction, InsertPrototype,
         InsertInitial, LockQueue, Sleep, TimeOut, WakeSpuriously, RelockQueue, Dequeue,
         MarkBusy, Perform, MarkIdle, Erase, Exit, callerVars, vars
  <2>2. Size >= MaxThreads
    BY <2>1 DEF Block, Refuse
  <2>3. \A w \in threads : wpc[w] \notin Sleeping
    BY <1>1 DEF AwakeInv, CountedBusy, Performing, Sleeping
  <2> QED BY <2>2, <2>3 DEF At
<1>2. IndInv /\ AwakeInv /\ [Next]_vars => [Refused]_vars
  BY <1>1
<1>3. Init => AwakeInv
  BY DEF Init, AwakeInv
<1> QED BY <1>2, <1>3, Inductive, AwakeStep, PTL DEF Spec, RefusedOnlyWhenNoneSleeps

\* A thread of the pool that is awake and will signal t_idle_ before it sleeps,
\* and a caller that will give work to one that sleeps
AwakeAt == Fetching \cup Performing \cup CountedBusy
Coming  == {"relock_threads", "push"}

\* Once the pool is constructed, it has threads, and none is in the middle of
\* going to sleep or of dying while q_lock_ is free.
LEMMA NoneGoing ==
  ASSUME IndInv, Constructed, q_lock = None
  PROVE  threads # {} /\ \A w \in threads : wpc[w] \in AwakeAt \cup Sleeping
<1>1. threads # {}
  BY SizeFacts, PoolAssumption DEF IndInv, PoolSizeInBounds
<1>2. ASSUME NEW w \in threads PROVE wpc[w] \in AwakeAt \cup Sleeping
  <2>1. w \in Threads /\ w # None /\ wpc[w] \in Places
    BY PoolAssumption DEF IndInv, TypeOK
  <2>2. wpc[w] \notin HoldsQueue
    BY <2>1 DEF IndInv, LockInv
  <2>3. wpc[w] \notin Unborn
    BY DEF IndInv, MemberInv
  <2> QED BY <2>1, <2>2, <2>3 DEF Places, Unborn, HoldsQueue, AwakeAt, Fetching, Performing,
      CountedBusy
<1> QED BY <1>1, <1>2

\* Every step keeps a listener signalled, or coming back, for every caller blocked
\* at a pool that is able to take its task.
LEMMA StrandedStep == IndInv /\ AwakeInv /\ NoCallerStranded /\ [Next]_vars => NoCallerStranded'
<1> DEFINE Helped == \/ \E w \in threads : wpc[w] \in AwakeAt
                     \/ \E c \in Callers : cpc[c] \in Coming
<1> SUFFICES ASSUME IndInv, AwakeInv, NoCallerStranded, [Next]_vars, Blocked' # {}
             PROVE  Helped'
  BY DEF NoCallerStranded, AwakeAt, Coming
<1>1. Blocked # {} => Helped
  BY DEF NoCallerStranded, AwakeAt, Coming
\* The last caller that was coming queues its task: it wakes a thread, or finds
\* none asleep.
<1>2. ASSUME NEW c \in Callers, Push(c) PROVE Helped'
  <2>1. cpc[c] = "push" /\ q_lock = None /\ threads' = threads
    BY <1>2 DEF Push
  <2>2. Constructed
    BY <2>1 DEF IndInv, ConstructionInv
  <2>3. threads # {} /\ \A w \in threads : wpc[w] \in AwakeAt \cup Sleeping
    BY <2>1, <2>2, NoneGoing
  <2>4. CASE At(Sleeping) = {}
    <3>1. wpc' = wpc
      BY <1>2, <2>4 DEF Push, SignalQueueNotEmpty
    <3>2. \A w \in threads : w \in Threads
      BY DEF IndInv, TypeOK
    <3> QED BY <2>1, <2>3, <2>4, <3>1, <3>2 DEF At
  <2>5. CASE At(Sleeping) # {}
    <3>1. PICK w \in At(Sleeping) : wpc' = [wpc EXCEPT ![w] = "relock_queue"]
      BY <1>2, <2>5 DEF Push, SignalQueueNotEmpty
    <3>2. w \in Threads /\ wpc[w] \in Sleeping
      BY <3>1 DEF At
    <3>3. w \in threads
      BY <3>2 DEF IndInv, MemberInv, Unborn, Sleeping, Performing, CountedBusy
    <3>4. wpc'[w] \in AwakeAt
      BY <3>1, <3>2 DEF IndInv, TypeOK, AwakeAt, Fetching
    <3> QED BY <2>1, <3>3, <3>4
  <2> QED BY <2>4, <2>5
\* A caller blocks: the pool is still as busy as it was found to be.
<1>3. ASSUME NEW c \in Callers, Block(c) PROVE Helped'
  <2>1. cpc[c] = "all_busy" /\ threads' = threads /\ wpc' = wpc
    BY <1>3 DEF Block, workerVars
  <2>2. Constructed
    BY <2>1 DEF IndInv, ConstructionInv
  <2>3. threads # {}
    BY <2>2, SizeFacts, PoolAssumption DEF IndInv, PoolSizeInBounds
  <2>4. \A w \in threads : wpc[w] \in AwakeAt
    BY <2>1 DEF AwakeInv, AwakeAt, Fetching
  <2> QED BY <2>1, <2>3, <2>4
\* A thread finds the queue empty: it signals t_idle_.
<1>4. ASSUME NEW w \in Threads, CheckSize(w) PROVE Helped'
  <2>1. Blocked # {}
    BY <1>4 DEF CheckSize, SignalIdle, Blocked, IndInv, TypeOK
  <2>2. PICK c \in Blocked : cpc' = [cpc EXCEPT ![c] = "relock_threads"]
    BY <1>4, <2>1 DEF CheckSize, SignalIdle
  <2>3. c \in Callers /\ cpc'[c] = "relock_threads"
    BY <2>2 DEF Blocked, IndInv, TypeOK
  <2> QED BY <2>3 DEF Coming
\* Nobody else leaves the caller alone.
<1>5. ASSUME UNCHANGED callerVars,
             \A w \in threads : wpc[w] \in AwakeAt => w \in threads' /\ wpc'[w] \in AwakeAt
      PROVE  Helped'
  BY <1>1, <1>5 DEF callerVars, Blocked
<1>6. ASSUME NEW w \in Threads, WorkerStep(w), ~CheckSize(w) PROVE Helped'
  <2>1. UNCHANGED callerVars
    BY <1>6 DEF WorkerStep, InsertPrototype, InsertInitial, LockQueue, Sleep, TimeOut,
       WakeSpuriously, RelockQueue, Dequeue, MarkBusy, Perform, MarkIdle, Erase, Exit
  <2>2. \E place : GoTo(w, place)
    BY <1>6 DEF WorkerStep, InsertPrototype, InsertInitial, LockQueue, Sleep, TimeOut,
       WakeSpuriously, RelockQueue, Dequeue, MarkBusy, Perform, MarkIdle, Erase, Exit
  <2>3. \A v \in Threads \ {w} : wpc'[v] = wpc[v]
    BY <2>2 DEF GoTo, IndInv, TypeOK
  <2>4. wpc[w] \in AwakeAt => wpc'[w] \in AwakeAt /\ threads \subseteq threads'
    BY <1>6 DEF WorkerStep, InsertPrototype, InsertInitial, LockQueue, Sleep, TimeOut,
       WakeSpuriously, RelockQueue, Dequeue, MarkBusy, Perform, MarkIdle, Erase, Exit, GoTo,
       IndInv, TypeOK, AwakeAt, Fetching, Performing, CountedBusy, Sleeping
  <2>5. threads \ {w} \subseteq threads'
    BY <1>6 DEF WorkerStep, InsertPrototype, InsertInitial, LockQueue, Sleep, TimeOut,
       WakeSpuriously, RelockQueue, Dequeue, MarkBusy, Perform, MarkIdle, Erase, Exit
  <2>6. \A v \in threads : v \in Threads
    BY DEF IndInv, TypeOK
  <2> HIDE DEF Helped
  <2> QED BY <1>5, <2>1, <2>3, <2>4, <2>5, <2>6
<1>7. ASSUME FinishConstruction \/ UNCHANGED vars PROVE Helped'
  <2>1. UNCHANGED <<threads, wpc, callerVars>>
    BY <1>7 DEF FinishConstruction, vars, workerVars, callerVars
  <2> HIDE DEF Helped
  <2> QED BY <1>5, <2>1
<1>8. ASSUME NEW c \in Callers, CallerStep(c), ~Push(c), ~Block(c) PROVE Helped'
  <2>1. PICK place : /\ CallGoTo(c, place) /\ place # "blocked"
                     /\ cpc[c] \in Coming => place = "push"
    BY <1>8 DEF CallerStep, NewTask, FindAllBusy, FindIdle, Create, Insert, UnblockSpuriously,
       Unblock, Refuse, Coming
  <2>2. /\ \A d \in Callers \ {c} : cpc'[d] = cpc[d]
        /\ cpc'[c] = place
    BY <2>1 DEF CallGoTo, IndInv, TypeOK
  <2>3. Blocked # {}
    BY <2>1, <2>2 DEF Blocked
  <2>4. ASSUME NEW d \in Callers, cpc[d] \in Coming PROVE cpc'[d] \in Coming
    BY <2>1, <2>2, <2>4 DEF Coming
  <2>5. threads \subseteq threads' /\ \A w \in threads : wpc[w] \in AwakeAt => wpc'[w] \in AwakeAt
    <3>1. threads \subseteq threads'
      BY <1>8 DEF CallerStep, NewTask, FindAllBusy, FindIdle, Create, Insert, UnblockSpuriously,
         Unblock, Refuse
    <3>2. UNCHANGED wpc \/ \E w \in Threads : GoTo(w, "lock_queue")
      BY <1>8 DEF CallerStep, NewTask, FindAllBusy, FindIdle, Create, Insert, UnblockSpuriously,
         Unblock, Refuse, workerVars
    <3>3. \A w \in threads : w \in Threads
      BY DEF IndInv, TypeOK
    <3> QED BY <3>1, <3>2, <3>3 DEF GoTo, IndInv, TypeOK, AwakeAt, Fetching
  <2> QED BY <1>1, <2>3, <2>4, <2>5
<1> HIDE DEF Helped
<1> QED BY <1>2, <1>3, <1>4, <1>6, <1>7, <1>8 DEF Next

\* No caller of new_task( arg, true ) is left waiting while all the pool sleeps.
THEOREM NoCallerIsStranded == Spec => []NoCallerStranded
<1>1. Init => AwakeInv /\ NoCallerStranded
  BY DEF Init, AwakeInv, NoCallerStranded, Blocked
<1>2. Spec => []IndInv /\ []AwakeInv
  BY <1>1, Inductive, AwakeStep, PTL DEF Spec
<1> QED BY <1>1, <1>2, StrandedStep, PTL DEF Spec

=============================================================================
