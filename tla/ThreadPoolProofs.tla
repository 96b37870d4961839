-------------------------- MODULE ThreadPoolProofs --------------------------
(***************************************************************************)
(* Proofs about ThreadPool and StlThreadPool, for every number of tasks,   *)
(* of slots, every queue capacity and every scaling step.                  *)
(***************************************************************************)
EXTENDS StlThreadPool, FiniteSetTheorems, SequenceTheorems, TLAPS

(* The constants are numbers.                                              *)
LEMMA ConstantTypes ==
  /\ m_max_threads \in Nat /\ MinThreads \in Nat /\ OpNum \in Nat /\ Capacity \in Nat
  /\ MinThreads <= m_max_threads
BY PoolAssumption, FS_CardinalityType DEF m_max_threads

(* Every set of slots is finite, and no larger than the pool.              *)
LEMMA SlotSets ==
  ASSUME NEW S \in SUBSET Workers
  PROVE  IsFiniteSet(S) /\ Cardinality(S) \in Nat /\ Cardinality(S) <= m_max_threads
BY PoolAssumption, FS_Subset, FS_CardinalityType DEF m_max_threads

-----------------------------------------------------------------------------
(* Type correctness.                                                       *)

(* done is a set of tasks because a running worker holds a task.           *)
Typed == TypeOK /\ HoldsTask

LEMMA SignalEmptyType ==
  ASSUME TypeOK, SignalEmpty
  PROVE  /\ worker' \in [Workers -> WorkerState]
         /\ \A w \in Workers : worker'[w] # worker[w] =>
                                 worker[w] = "waiting" /\ worker'[w] = "woken"
BY DEF TypeOK, SignalEmpty, Waiting, WorkerState

LEMMA SignalFullType ==
  ASSUME TypeOK, SignalFull
  PROVE  call' \in [Tasks -> CallState]
BY DEF TypeOK, SignalFull, Blocked, CallState

LEMMA TypeInit == Init => Typed
<1> SUFFICES ASSUME Init PROVE Typed
  OBVIOUS
<1>1. PICK S \in SUBSET Workers :
        worker = [w \in Workers |-> IF w \in S THEN "top" ELSE "none"]
  BY DEF Init
<1>2. worker \in [Workers -> {"top", "none"}]
  BY <1>1
<1>3. HoldsTask
  BY <1>2 DEF HoldsTask, Init
<1>4. m_taskQ \in Seq(Tasks) /\ call \in [Tasks -> CallState]
  BY DEF Init, CallState
<1>5. worker \in [Workers -> WorkerState] /\ task \in [Workers -> Tasks \cup {NoTask}]
  BY <1>2 DEF Init, WorkerState
<1>6. m_live_threads \in Int /\ m_busy_threads \in Int /\ m_exit_threads \in Nat
  BY ConstantTypes DEF Init
<1>7. qsize \in Nat /\ live_num \in Int /\ busy_num \in Int /\ signals \in Nat
  BY DEF Init
<1>8. m_is_shutdown \in BOOLEAN /\ done \subseteq Tasks /\ manager \in ManagerState
      /\ dtor \in DtorState
  BY DEF Init, ManagerState, DtorState
<1> QED
  BY <1>3, <1>4, <1>5, <1>6, <1>7, <1>8 DEF Typed, TypeOK

LEMMA TypeStep == Typed /\ [Next]_vars => Typed'
<1> SUFFICES ASSUME Typed, [Next]_vars PROVE Typed'
  OBVIOUS
<1> USE DEF Typed, TypeOK, HoldsTask
<1>1. ASSUME NEW t \in Tasks, SubmitEnter(t) PROVE Typed'
  BY <1>1 DEF SubmitEnter, countVars, managerVars, CallState, WorkerState
<1>2. ASSUME NEW t \in Tasks, SubmitWait(t) PROVE Typed'
  BY <1>2 DEF SubmitWait, countVars, managerVars, CallState, WorkerState
<1>3. ASSUME NEW t \in Tasks, SubmitPush(t) PROVE Typed'
  BY <1>3, SignalEmptyType DEF SubmitPush, countVars, managerVars, CallState
<1>4. ASSUME NEW t \in Tasks, SpuriousSubmit(t) PROVE Typed'
  BY <1>4 DEF SpuriousSubmit, countVars, managerVars, CallState, WorkerState
<1>5. ASSUME NEW w \in Workers, WorkerWait(w) PROVE Typed'
  BY <1>5, PoolAssumption DEF WorkerWait, queueVars, countVars, managerVars, WorkerState, AtLoop
<1>6. ASSUME NEW w \in Workers, WorkerRetire(w) PROVE Typed'
  BY <1>6 DEF WorkerRetire, queueVars, managerVars, WorkerState
<1>7. ASSUME NEW w \in Workers, WorkerShutdown(w) PROVE Typed'
  BY <1>7 DEF WorkerShutdown, queueVars, managerVars, WorkerState, AtLoop
<1>8. ASSUME NEW w \in Workers, WorkerTake(w) PROVE Typed'
  <2>1. Head(m_taskQ) \in Tasks /\ m_taskQ' \in Seq(Tasks)
    BY <1>8, HeadTailProperties DEF WorkerTake
  <2> QED
    BY <1>8, <2>1, SignalFullType, PoolAssumption DEF WorkerTake, countVars, managerVars, WorkerState
<1>9. ASSUME NEW w \in Workers, WorkerBusy(w) PROVE Typed'
  BY <1>9 DEF WorkerBusy, queueVars, managerVars, WorkerState
<1>10. ASSUME NEW w \in Workers, WorkerRun(w) PROVE Typed'
  BY <1>10, PoolAssumption DEF WorkerRun, queueVars, countVars, managerVars, WorkerState
<1>11. ASSUME NEW w \in Workers, WorkerIdle(w) PROVE Typed'
  BY <1>11 DEF WorkerIdle, queueVars, managerVars, WorkerState
<1>12. ASSUME NEW w \in Workers, ThreadExit(w) PROVE Typed'
  BY <1>12 DEF ThreadExit, queueVars, countVars, managerVars, WorkerState
<1>13. ASSUME NEW w \in Workers, SpuriousWorker(w) PROVE Typed'
  BY <1>13 DEF SpuriousWorker, queueVars, countVars, managerVars, WorkerState
<1>14. ASSUME ManagerTop PROVE Typed'
  BY <1>14 DEF ManagerTop, queueVars, countVars, WorkerState, ManagerState
<1>15. ASSUME ManagerReadQueue PROVE Typed'
  BY <1>15 DEF ManagerReadQueue, queueVars, countVars, WorkerState, ManagerState
<1>16. ASSUME ManagerReadPool PROVE Typed'
  BY <1>16 DEF ManagerReadPool, queueVars, countVars, WorkerState, ManagerState
<1>17. ASSUME ManagerAdd PROVE Typed'
  <2>1. ASSUME NEW S \in SUBSET Free, worker' = [w \in Workers |-> IF w \in S THEN "top" ELSE worker[w]],
               m_live_threads' = m_live_threads + Cardinality(S)
        PROVE  Typed'
    <3>1. Cardinality(S) \in Nat
      BY SlotSets DEF Free
    <3> QED
      BY <1>17, <2>1, <3>1 DEF ManagerAdd, queueVars, WorkerState, ManagerState, Free
  <2>2. CASE UNCHANGED <<worker, m_live_threads>>
    BY <1>17, <2>2 DEF ManagerAdd, queueVars, WorkerState, ManagerState
  <2> QED
    BY <1>17, <2>1, <2>2 DEF ManagerAdd
<1>18. ASSUME ManagerShrink PROVE Typed'
  <2>1. ShouldShrink => CanExit \in Nat
    BY ConstantTypes DEF ShouldShrink, CanExit, Least
  <2> QED
    BY <1>18, <2>1 DEF ManagerShrink, queueVars, WorkerState, ManagerState, NextRound
<1>19. ASSUME ManagerSignal PROVE Typed'
  BY <1>19, SignalEmptyType DEF ManagerSignal, queueVars, countVars, ManagerState, NextRound
<1>20. ASSUME DestroyFlag PROVE Typed'
  BY <1>20 DEF DestroyFlag, queueVars, countVars, managerVars, WorkerState, DtorState
<1>21. ASSUME DestroyBroadcast PROVE Typed'
  BY <1>21 DEF DestroyBroadcast, queueVars, countVars, managerVars, WorkerState, DtorState, Waiting
<1>22. ASSUME DestroyJoin PROVE Typed'
  BY <1>22 DEF DestroyJoin, queueVars, countVars, managerVars, WorkerState, DtorState
<1>23. ASSUME DestroyPoll \/ DestroyFinish PROVE Typed'
  BY <1>23 DEF DestroyPoll, DestroyFinish, queueVars, countVars, managerVars, WorkerState, DtorState
<1>24. CASE UNCHANGED vars
  BY <1>24 DEF vars
<1> QED
  BY <1>1, <1>2, <1>3, <1>4, <1>5, <1>6, <1>7, <1>8, <1>9, <1>10, <1>11, <1>12, <1>13, <1>14, <1>15, <1>16, <1>17, <1>18, <1>19, <1>20, <1>21, <1>22, <1>23, <1>24
     DEF Next, Submitter, Work, Manager, Destructor

(* Every variable keeps the type the code declares for it.                 *)
THEOREM TypeCorrect == Spec => []TypeOK
<1>1. Typed => TypeOK
  BY DEF Typed
<1> QED
  BY TypeInit, TypeStep, <1>1, PTL DEF Spec

-----------------------------------------------------------------------------
(* The counters.                                                           *)

LEMMA LiveBusySets ==
  /\ IsFiniteSet(Live) /\ Cardinality(Live) \in Nat
  /\ IsFiniteSet(Busy) /\ Cardinality(Busy) \in Nat
<1>1. Live \in SUBSET Workers /\ Busy \in SUBSET Workers
  BY DEF Live, Busy
<1> QED
  BY <1>1, SlotSets

LEMMA CountersInit == Init => CountersExact
<1> SUFFICES ASSUME Init PROVE CountersExact
  OBVIOUS
<1>1. PICK S \in SUBSET Workers :
        /\ Cardinality(S) = MinThreads
        /\ worker = [w \in Workers |-> IF w \in S THEN "top" ELSE "none"]
  BY DEF Init
<1>2. Live = S /\ Busy = {}
  BY <1>1 DEF Live, Busy
<1>3. m_live_threads = MinThreads /\ m_busy_threads = 0
  BY DEF Init
<1> QED
  BY <1>1, <1>2, <1>3, FS_EmptySet DEF CountersExact

LEMMA CountersStep == Typed /\ CountersExact /\ [Next]_vars => CountersExact'
<1> SUFFICES ASSUME Typed, CountersExact, [Next]_vars PROVE CountersExact'
  OBVIOUS
<1> USE DEF Typed, TypeOK
<1>a. ASSUME Live' = Live, Busy' = Busy, UNCHANGED <<m_live_threads, m_busy_threads>>
      PROVE  CountersExact'
  BY <1>a DEF CountersExact
<1>b. ASSUME NEW w \in Live, Live' = Live \ {w}, Busy' = Busy,
             m_live_threads' = m_live_threads - 1, UNCHANGED m_busy_threads
      PROVE  CountersExact'
  BY <1>b, FS_RemoveElement, LiveBusySets DEF CountersExact
<1>1. ASSUME NEW t \in Tasks, SubmitEnter(t) PROVE CountersExact'
  BY <1>1, <1>a DEF SubmitEnter, countVars, Live, Busy
<1>2. ASSUME NEW t \in Tasks, SubmitWait(t) PROVE CountersExact'
  BY <1>2, <1>a DEF SubmitWait, countVars, Live, Busy
<1>3. ASSUME NEW t \in Tasks, SubmitPush(t) PROVE CountersExact'
  <2>1. Live' = Live /\ Busy' = Busy
    BY <1>3, SignalEmptyType DEF SubmitPush, Live, Busy
  <2> QED
    BY <1>3, <1>a, <2>1 DEF SubmitPush, countVars
<1>4. ASSUME NEW t \in Tasks, SpuriousSubmit(t) PROVE CountersExact'
  BY <1>4, <1>a DEF SpuriousSubmit, countVars, Live, Busy
<1>5. ASSUME NEW w \in Workers, WorkerWait(w) PROVE CountersExact'
  <2>1. Live' = Live /\ Busy' = Busy
    BY <1>5 DEF WorkerWait, AtLoop, Live, Busy
  <2> QED
    BY <1>5, <1>a, <2>1 DEF WorkerWait, countVars
<1>6. ASSUME NEW w \in Workers, WorkerRetire(w) PROVE CountersExact'
  <2>1. w \in Live /\ Live' = Live \ {w} /\ Busy' = Busy
    BY <1>6 DEF WorkerRetire, AtLoop, Live, Busy
  <2> QED
    BY <1>6, <1>b, <2>1 DEF WorkerRetire
<1>7. ASSUME NEW w \in Workers, WorkerShutdown(w) PROVE CountersExact'
  <2>1. w \in Live /\ Live' = Live \ {w} /\ Busy' = Busy
    BY <1>7 DEF WorkerShutdown, AtLoop, Live, Busy
  <2> QED
    BY <1>7, <1>b, <2>1 DEF WorkerShutdown
<1>8. ASSUME NEW w \in Workers, WorkerTake(w) PROVE CountersExact'
  <2>1. Live' = Live /\ Busy' = Busy
    BY <1>8 DEF WorkerTake, AtLoop, Live, Busy
  <2> QED
    BY <1>8, <1>a, <2>1 DEF WorkerTake, countVars
<1>9. ASSUME NEW w \in Workers, WorkerBusy(w) PROVE CountersExact'
  <2>1. Live' = Live /\ w \notin Busy /\ Busy' = Busy \cup {w}
    BY <1>9 DEF WorkerBusy, Live, Busy
  <2> QED
    BY <1>9, <2>1, FS_AddElement, LiveBusySets DEF WorkerBusy, CountersExact
<1>10. ASSUME NEW w \in Workers, WorkerRun(w) PROVE CountersExact'
  <2>1. Live' = Live /\ Busy' = Busy
    BY <1>10 DEF WorkerRun, Live, Busy
  <2> QED
    BY <1>10, <1>a, <2>1 DEF WorkerRun, countVars
<1>11. ASSUME NEW w \in Workers, WorkerIdle(w) PROVE CountersExact'
  <2>1. Live' = Live /\ w \in Busy /\ Busy' = Busy \ {w}
    BY <1>11 DEF WorkerIdle, Live, Busy
  <2> QED
    BY <1>11, <2>1, FS_RemoveElement, LiveBusySets DEF WorkerIdle, CountersExact
<1>12. ASSUME NEW w \in Workers, ThreadExit(w) PROVE CountersExact'
  <2>1. Live' = Live /\ Busy' = Busy
    BY <1>12 DEF ThreadExit, Live, Busy
  <2> QED
    BY <1>12, <1>a, <2>1 DEF ThreadExit, countVars
<1>13. ASSUME NEW w \in Workers, SpuriousWorker(w) PROVE CountersExact'
  <2>1. Live' = Live /\ Busy' = Busy
    BY <1>13 DEF SpuriousWorker, Live, Busy
  <2> QED
    BY <1>13, <1>a, <2>1 DEF SpuriousWorker, countVars
<1>14. ASSUME ManagerTop PROVE CountersExact'
  BY <1>14, <1>a DEF ManagerTop, countVars, Live, Busy
<1>15. ASSUME ManagerReadQueue PROVE CountersExact'
  BY <1>15, <1>a DEF ManagerReadQueue, countVars, Live, Busy
<1>16. ASSUME ManagerReadPool PROVE CountersExact'
  BY <1>16, <1>a DEF ManagerReadPool, countVars, Live, Busy
<1>17. ASSUME ManagerAdd PROVE CountersExact'
  <2>1. ASSUME NEW S \in SUBSET Free, worker' = [w \in Workers |-> IF w \in S THEN "top" ELSE worker[w]],
               m_live_threads' = m_live_threads + Cardinality(S)
        PROVE  CountersExact'
    <3>1. S \in SUBSET Workers /\ Live' = Live \cup S /\ Live \cap S = {} /\ Busy' = Busy
      BY <2>1 DEF Free, Live, Busy
    <3>2. IsFiniteSet(S) /\ Cardinality(S) \in Nat
      BY <3>1, SlotSets
    <3>3. Cardinality(Live \cup S) = Cardinality(Live) + Cardinality(S)
      <4>1. Cardinality(Live \cap S) = 0
        BY <3>1, FS_EmptySet
      <4>2. Cardinality(Live \cup S)
              = Cardinality(Live) + Cardinality(S) - Cardinality(Live \cap S)
        BY <3>2, LiveBusySets, FS_Union
      <4> QED
        BY <3>2, <4>1, <4>2, LiveBusySets
    <3> QED
      BY <1>17, <2>1, <3>1, <3>3 DEF ManagerAdd, CountersExact
  <2>2. CASE UNCHANGED <<worker, m_live_threads>>
    BY <1>17, <2>2, <1>a DEF ManagerAdd, Live, Busy
  <2> QED
    BY <1>17, <2>1, <2>2 DEF ManagerAdd
<1>18. ASSUME ManagerShrink PROVE CountersExact'
  BY <1>18, <1>a DEF ManagerShrink, Live, Busy
<1>19. ASSUME ManagerSignal PROVE CountersExact'
  <2>1. Live' = Live /\ Busy' = Busy
    BY <1>19, SignalEmptyType DEF ManagerSignal, Live, Busy
  <2> QED
    BY <1>19, <1>a, <2>1 DEF ManagerSignal, countVars
<1>20. ASSUME DestroyFlag PROVE CountersExact'
  BY <1>20, <1>a DEF DestroyFlag, countVars, Live, Busy
<1>21. ASSUME DestroyBroadcast PROVE CountersExact'
  <2>1. Live' = Live /\ Busy' = Busy
    BY <1>21 DEF DestroyBroadcast, Waiting, Live, Busy
  <2> QED
    BY <1>21, <1>a, <2>1 DEF DestroyBroadcast, countVars
<1>22. ASSUME DestroyJoin PROVE CountersExact'
  BY <1>22, <1>a DEF DestroyJoin, countVars, Live, Busy
<1>23. ASSUME DestroyPoll \/ DestroyFinish PROVE CountersExact'
  BY <1>23, <1>a DEF DestroyPoll, DestroyFinish, countVars, Live, Busy
<1>24. CASE UNCHANGED vars
  BY <1>24, <1>a DEF vars, Live, Busy
<1> QED
  BY <1>1, <1>2, <1>3, <1>4, <1>5, <1>6, <1>7, <1>8, <1>9, <1>10, <1>11, <1>12, <1>13, <1>14, <1>15, <1>16, <1>17, <1>18, <1>19, <1>20, <1>21, <1>22, <1>23, <1>24
     DEF Next, Submitter, Work, Manager, Destructor

(* m_live_threads and m_busy_threads are exact at every step, whatever the  *)
(* interleaving of growth, retirement, shutdown and task execution.         *)
THEOREM CountersCorrect == Spec => []CountersExact
BY TypeInit, TypeStep, CountersInit, CountersStep, PTL DEF Spec

-----------------------------------------------------------------------------
(* Task ownership.                                                         *)

(* SignalFull moves a blocked submit(), and no submitted task.             *)
LEMMA SignalFullKeeps ==
  ASSUME TypeOK, SignalFull
  PROVE  \A t \in Tasks : call'[t] = "submitted" <=> call[t] = "submitted"
BY DEF TypeOK, SignalFull, Blocked

LEMMA OwnershipInit == Init => TaskOwnership
<1> SUFFICES ASSUME Init PROVE TaskOwnership
  OBVIOUS
<1>1. m_taskQ = <<>> /\ done = {} /\ (\A t \in Tasks : call[t] = "new")
      /\ (\A w \in Workers : task[w] = NoTask)
  BY DEF Init
<1>2. HoldsTask
  BY TypeInit DEF Typed
<1> QED
  BY <1>1, <1>2, PoolAssumption
     DEF TaskOwnership, OneInQueue, OneHolder, NotQueuedAndHeld, DoneIsLast, Accounted,
         Queued, Held

(* What most steps do to tasks: nothing.                                   *)
LEMMA OwnershipKept ==
  ASSUME TaskOwnership, HoldsTask', UNCHANGED <<m_taskQ, task, done>>,
         \A t \in Tasks : call'[t] = "submitted" <=> call[t] = "submitted"
  PROVE  TaskOwnership'
BY DEF TaskOwnership, OneInQueue, OneHolder, NotQueuedAndHeld, DoneIsLast, Accounted,
       Queued, Held

LEMMA OwnershipStep == Typed /\ TaskOwnership /\ [Next]_vars => TaskOwnership'
<1> SUFFICES ASSUME Typed, TaskOwnership, [Next]_vars PROVE TaskOwnership'
  OBVIOUS
<1>0. HoldsTask' /\ TypeOK'
  BY TypeStep DEF Typed
<1> USE DEF Typed
<1>1. ASSUME NEW t \in Tasks, SubmitPush(t) PROVE TaskOwnership'
  <2>1. /\ m_taskQ' = Append(m_taskQ, t) /\ UNCHANGED <<task, done>>
        /\ call' = [call EXCEPT ![t] = "submitted"] /\ call[t] # "submitted"
    BY <1>1 DEF SubmitPush, InSubmit
  <2>2. ~Queued(t) /\ t \notin Held /\ t \notin done
    BY <2>1 DEF TaskOwnership, Accounted
  <2>3. \A u \in Tasks : Queued(u)' <=> Queued(u) \/ u = t
    BY <2>1, AppendProperties DEF Queued, TypeOK
  <2>4. Held' = Held
    BY <2>1 DEF Held
  <2>5. OneInQueue'
    BY <2>1, <2>2, AppendProperties DEF TaskOwnership, OneInQueue, Queued, TypeOK
  <2>6. OneHolder'
    BY <2>1 DEF TaskOwnership, OneHolder
  <2>7. NotQueuedAndHeld' /\ DoneIsLast'
    BY <2>1, <2>2, <2>3, <2>4 DEF TaskOwnership, NotQueuedAndHeld, DoneIsLast, TypeOK
  <2>8. Accounted'
    BY <2>1, <2>3, <2>4 DEF TaskOwnership, Accounted, TypeOK
  <2> QED
    BY <1>0, <2>5, <2>6, <2>7, <2>8 DEF TaskOwnership
<1>2. ASSUME NEW w \in Workers, WorkerTake(w) PROVE TaskOwnership'
  <2> DEFINE h == Head(m_taskQ)
  <2>1. /\ m_taskQ # <<>> /\ m_taskQ' = Tail(m_taskQ) /\ UNCHANGED done
        /\ task' = [task EXCEPT ![w] = h] /\ task[w] = NoTask
    BY <1>2 DEF WorkerTake, AtLoop, HoldsTask
  <2>2. h \in Tasks /\ Queued(h) /\ h # NoTask
    BY <2>1, HeadTailProperties, PoolAssumption DEF Queued, TypeOK
  <2>3. h \notin Held /\ h \notin done
    BY <2>2 DEF TaskOwnership, NotQueuedAndHeld, DoneIsLast
  <2>4. \A u \in Tasks : Queued(u)' <=> Queued(u) /\ u # h
    <3> SUFFICES ASSUME NEW u \in Tasks PROVE Queued(u)' <=> Queued(u) /\ u # h
      OBVIOUS
    <3>1. /\ m_taskQ' \in Seq(Tasks) /\ Len(m_taskQ') = Len(m_taskQ) - 1
          /\ \A i \in 1..Len(m_taskQ') : m_taskQ'[i] = m_taskQ[i + 1]
          /\ Len(m_taskQ) \in Nat \ {0} /\ h = m_taskQ[1]
      BY <2>1, HeadTailProperties DEF TypeOK
    <3>2. ASSUME NEW i \in DOMAIN m_taskQ', m_taskQ'[i] = u PROVE Queued(u) /\ u # h
      <4>1. i \in 1..Len(m_taskQ') /\ i + 1 \in 1..Len(m_taskQ) /\ i + 1 # 1
        BY <3>1, <3>2
      <4>2. m_taskQ[i + 1] = u /\ i + 1 \in DOMAIN m_taskQ /\ 1 \in DOMAIN m_taskQ
        BY <3>1, <3>2, <4>1 DEF TypeOK
      <4> QED
        BY <3>1, <4>1, <4>2 DEF Queued, TaskOwnership, OneInQueue
    <3>3. ASSUME NEW i \in DOMAIN m_taskQ, m_taskQ[i] = u, u # h PROVE Queued(u)'
      <4>1. i \in 2..Len(m_taskQ)
        BY <3>1, <3>3 DEF TypeOK
      <4>2. i - 1 \in DOMAIN m_taskQ' /\ m_taskQ'[i - 1] = u
        BY <3>1, <3>3, <4>1
      <4> QED
        BY <4>2 DEF Queued
    <3> QED
      BY <3>2, <3>3 DEF Queued
  <2>5. Held' = Held \cup {h}
    BY <2>1, <2>2 DEF Held, TypeOK
  <2>6. OneInQueue'
    BY <2>1, HeadTailProperties DEF TaskOwnership, OneInQueue, TypeOK
  <2>7. OneHolder'
    BY <2>1, <2>3 DEF TaskOwnership, OneHolder, Held, TypeOK
  <2>8. NotQueuedAndHeld' /\ DoneIsLast'
    BY <2>1, <2>3, <2>4, <2>5 DEF TaskOwnership, NotQueuedAndHeld, DoneIsLast, TypeOK
  <2>9. Accounted'
    <3>1. \A t \in Tasks : call'[t] = "submitted" <=> call[t] = "submitted"
      BY <1>2, SignalFullKeeps DEF WorkerTake
    <3> QED
      BY <2>1, <2>2, <2>4, <2>5, <3>1 DEF TaskOwnership, Accounted
  <2> QED
    BY <1>0, <2>6, <2>7, <2>8, <2>9 DEF TaskOwnership
<1>3. ASSUME NEW w \in Workers, WorkerRun(w) PROVE TaskOwnership'
  <2> DEFINE u == task[w]
  <2>1. /\ UNCHANGED <<m_taskQ, call>> /\ done' = done \cup {u}
        /\ task' = [task EXCEPT ![w] = NoTask] /\ u \in Tasks /\ u \in Held
    BY <1>3 DEF WorkerRun, queueVars, HoldsTask, Held, TypeOK
  <2>2. ~Queued(u)
    BY <2>1 DEF TaskOwnership, NotQueuedAndHeld
  <2>3. Held' = Held \ {u}
    BY <2>1 DEF Held, TypeOK, TaskOwnership, OneHolder
  <2>4. \A t \in Tasks : Queued(t)' <=> Queued(t)
    BY <2>1 DEF Queued
  <2>5. OneInQueue' /\ OneHolder'
    BY <2>1 DEF TaskOwnership, OneInQueue, OneHolder, TypeOK
  <2>6. NotQueuedAndHeld' /\ DoneIsLast' /\ Accounted'
    <3>1. NotQueuedAndHeld'
      BY <2>3, <2>4 DEF TaskOwnership, NotQueuedAndHeld
    <3>2. DoneIsLast'
      BY <2>1, <2>2, <2>3, <2>4 DEF TaskOwnership, DoneIsLast, TypeOK
    <3>3. Accounted'
      BY <2>1, <2>3, <2>4 DEF TaskOwnership, Accounted
    <3> QED
      BY <3>1, <3>2, <3>3
  <2> QED
    BY <1>0, <2>5, <2>6 DEF TaskOwnership
<1>4. ASSUME NEW t \in Tasks, SubmitEnter(t) PROVE TaskOwnership'
  BY <1>4, <1>0, OwnershipKept DEF SubmitEnter, TypeOK
<1>5. ASSUME NEW t \in Tasks, SubmitWait(t) PROVE TaskOwnership'
  BY <1>5, <1>0, OwnershipKept DEF SubmitWait, InSubmit, TypeOK
<1>6. ASSUME NEW t \in Tasks, SpuriousSubmit(t) PROVE TaskOwnership'
  BY <1>6, <1>0, OwnershipKept DEF SpuriousSubmit, TypeOK
<1>7. ASSUME NEW w \in Workers, WorkerWait(w) PROVE TaskOwnership'
  BY <1>7, <1>0, OwnershipKept DEF WorkerWait, queueVars
<1>8. ASSUME NEW w \in Workers, WorkerRetire(w) PROVE TaskOwnership'
  BY <1>8, <1>0, OwnershipKept DEF WorkerRetire, queueVars
<1>9. ASSUME NEW w \in Workers, WorkerShutdown(w) PROVE TaskOwnership'
  BY <1>9, <1>0, OwnershipKept DEF WorkerShutdown, queueVars
<1>10. ASSUME NEW w \in Workers, WorkerBusy(w) PROVE TaskOwnership'
  BY <1>10, <1>0, OwnershipKept DEF WorkerBusy, queueVars
<1>11. ASSUME NEW w \in Workers, WorkerIdle(w) PROVE TaskOwnership'
  BY <1>11, <1>0, OwnershipKept DEF WorkerIdle, queueVars
<1>12. ASSUME NEW w \in Workers, ThreadExit(w) PROVE TaskOwnership'
  BY <1>12, <1>0, OwnershipKept DEF ThreadExit, queueVars
<1>13. ASSUME NEW w \in Workers, SpuriousWorker(w) PROVE TaskOwnership'
  BY <1>13, <1>0, OwnershipKept DEF SpuriousWorker, queueVars
<1>14. ASSUME ManagerTop PROVE TaskOwnership'
  BY <1>14, <1>0, OwnershipKept DEF ManagerTop, queueVars
<1>15. ASSUME ManagerReadQueue PROVE TaskOwnership'
  BY <1>15, <1>0, OwnershipKept DEF ManagerReadQueue, queueVars
<1>16. ASSUME ManagerReadPool PROVE TaskOwnership'
  BY <1>16, <1>0, OwnershipKept DEF ManagerReadPool, queueVars
<1>17. ASSUME ManagerAdd PROVE TaskOwnership'
  BY <1>17, <1>0, OwnershipKept DEF ManagerAdd, queueVars
<1>18. ASSUME ManagerShrink PROVE TaskOwnership'
  BY <1>18, <1>0, OwnershipKept DEF ManagerShrink, queueVars
<1>19. ASSUME ManagerSignal PROVE TaskOwnership'
  BY <1>19, <1>0, OwnershipKept DEF ManagerSignal, queueVars
<1>20. ASSUME DestroyFlag PROVE TaskOwnership'
  BY <1>20, <1>0, OwnershipKept DEF DestroyFlag, queueVars
<1>21. ASSUME DestroyBroadcast PROVE TaskOwnership'
  BY <1>21, <1>0, OwnershipKept DEF DestroyBroadcast, queueVars
<1>22. ASSUME DestroyJoin PROVE TaskOwnership'
  BY <1>22, <1>0, OwnershipKept DEF DestroyJoin, queueVars
<1>23. ASSUME DestroyPoll \/ DestroyFinish PROVE TaskOwnership'
  BY <1>23, <1>0, OwnershipKept DEF DestroyPoll, DestroyFinish, queueVars
<1>24. CASE UNCHANGED vars
  BY <1>24, <1>0, OwnershipKept DEF vars
<1> QED
  BY <1>1, <1>2, <1>3, <1>4, <1>5, <1>6, <1>7, <1>8, <1>9, <1>10, <1>11, <1>12, <1>13, <1>14, <1>15, <1>16, <1>17, <1>18, <1>19, <1>20, <1>21, <1>22, <1>23, <1>24
     DEF Next, Submitter, Work, Manager, Destructor

(* No accepted task is lost, duplicated or handed to two workers, for any   *)
(* number of submitters and workers.                                        *)
THEOREM TasksNeverLost == Spec => []TaskOwnership
BY TypeInit, TypeStep, OwnershipInit, OwnershipStep, PTL DEF Spec

-----------------------------------------------------------------------------
(* Refinement of TaskPool.                                                 *)

Refused == {t \in Tasks : call[t] = "refused"}

LEMMA RefinementInit == Init => Promise!AbsInit
<1> SUFFICES ASSUME Init PROVE Promise!AbsInit
  OBVIOUS
<1>1. Held = {} /\ Refused = {} /\ m_taskQ = <<>> /\ done = {} /\ ~m_is_shutdown
  BY DEF Init, Held, Refused
<1> QED
  BY <1>1 DEF Promise!AbsInit, Refused

(* A step that moves no task, refuses none and does not begin a shutdown.  *)
LEMMA PromiseStutter ==
  ASSUME UNCHANGED <<m_taskQ, task, done, m_is_shutdown>>,
         \A t \in Tasks : call'[t] = "refused" <=> call[t] = "refused"
  PROVE  UNCHANGED Promise!absVars
<1>1. Held' = Held /\ Refused' = Refused
  BY DEF Held, Refused
<1> QED
  BY <1>1 DEF Promise!absVars, Refused

LEMMA NewIsUnknown ==
  ASSUME Typed, TaskOwnership, NEW t \in Tasks, call[t] \notin {"submitted", "refused"}
  PROVE  t \notin Promise!Known
BY DEF Promise!Known, TaskOwnership, Accounted, Queued

LEMMA RefinementStep ==
  ASSUME Typed, TaskOwnership, [Next]_vars
  PROVE  [Promise!AbsNext]_(Promise!absVars)
<1> USE DEF Typed, TypeOK
<1>1. ASSUME NEW t \in Tasks, SubmitEnter(t) PROVE [Promise!AbsNext]_(Promise!absVars)
  <2>1. CASE m_is_shutdown
    <3>1. /\ call' = [call EXCEPT ![t] = "refused"] /\ call[t] = "new"
          /\ UNCHANGED <<m_taskQ, task, done, m_is_shutdown>>
      BY <1>1, <2>1 DEF SubmitEnter
    <3>2. Held' = Held /\ Refused' = Refused \cup {t}
      BY <3>1 DEF Held, Refused
    <3>3. t \notin Promise!Known
      BY <3>1, NewIsUnknown
    <3>4. Promise!Refuse(t)
      BY <2>1, <3>1, <3>2, <3>3 DEF Promise!Refuse, Refused
    <3> QED
      BY <3>4 DEF Promise!AbsNext
  <2>2. CASE ~m_is_shutdown
    BY <1>1, <2>2, PromiseStutter DEF SubmitEnter
  <2> QED
    BY <2>1, <2>2
<1>2. ASSUME NEW t \in Tasks, SubmitPush(t) PROVE [Promise!AbsNext]_(Promise!absVars)
  <2>1. /\ call' = [call EXCEPT ![t] = "submitted"] /\ call[t] \in {"entered", "woken"}
        /\ m_taskQ' = Append(m_taskQ, t) /\ (m_is_shutdown \/ Len(m_taskQ) < Capacity)
        /\ UNCHANGED <<task, done, m_is_shutdown>>
    BY <1>2 DEF SubmitPush, InSubmit
  <2>2. Held' = Held /\ Refused' = Refused
    BY <2>1 DEF Held, Refused
  <2>3. t \notin Promise!Known
    BY <2>1, NewIsUnknown
  <2>4. Promise!Accept(t)
    BY <2>1, <2>2, <2>3 DEF Promise!Accept, Refused
  <2> QED
    BY <2>4 DEF Promise!AbsNext
<1>3. ASSUME NEW w \in Workers, WorkerTake(w) PROVE [Promise!AbsNext]_(Promise!absVars)
  <2>1. /\ m_taskQ # <<>> /\ m_taskQ' = Tail(m_taskQ) /\ ~m_is_shutdown
        /\ task' = [task EXCEPT ![w] = Head(m_taskQ)] /\ task[w] = NoTask
        /\ UNCHANGED <<done, m_is_shutdown>>
    BY <1>3 DEF WorkerTake, AtLoop, HoldsTask
  <2>2. Head(m_taskQ) # NoTask
    BY <2>1, HeadTailProperties, PoolAssumption
  <2>3. Held' = Held \cup {Head(m_taskQ)}
    BY <2>1, <2>2 DEF Held
  <2>4. Refused' = Refused
    BY <1>3 DEF WorkerTake, SignalFull, Blocked, Refused
  <2>5. Promise!StartHead
    BY <2>1, <2>3, <2>4 DEF Promise!StartHead, Refused
  <2> QED
    BY <2>5 DEF Promise!AbsNext
<1>4. ASSUME NEW w \in Workers, WorkerRun(w) PROVE [Promise!AbsNext]_(Promise!absVars)
  <2>1. /\ UNCHANGED <<m_taskQ, call, m_is_shutdown>> /\ done' = done \cup {task[w]}
        /\ task' = [task EXCEPT ![w] = NoTask] /\ task[w] \in Tasks /\ task[w] \in Held
    BY <1>4 DEF WorkerRun, queueVars, HoldsTask, Held
  <2>2. Held' = Held \ {task[w]} /\ Refused' = Refused
    BY <2>1 DEF Held, TaskOwnership, OneHolder, Refused
  <2>3. Promise!Finish(task[w])
    BY <2>1, <2>2 DEF Promise!Finish, Refused
  <2> QED
    BY <2>1, <2>3 DEF Promise!AbsNext
<1>5. ASSUME DestroyFlag PROVE [Promise!AbsNext]_(Promise!absVars)
  <2>1. CASE m_is_shutdown
    BY <1>5, <2>1, PromiseStutter DEF DestroyFlag, queueVars
  <2>2. CASE ~m_is_shutdown
    <3>1. UNCHANGED <<m_taskQ, task, done, call>> /\ m_is_shutdown' = TRUE
      BY <1>5 DEF DestroyFlag, queueVars
    <3>2. Held' = Held /\ Refused' = Refused
      BY <3>1 DEF Held, Refused
    <3>3. Promise!Close
      BY <2>2, <3>1, <3>2 DEF Promise!Close, Refused
    <3> QED
      BY <3>3 DEF Promise!AbsNext
  <2> QED
    BY <2>1, <2>2
<1>6. ASSUME NEW t \in Tasks, SubmitWait(t) PROVE [Promise!AbsNext]_(Promise!absVars)
  BY <1>6, PromiseStutter DEF SubmitWait, InSubmit
<1>7. ASSUME NEW t \in Tasks, SpuriousSubmit(t) PROVE [Promise!AbsNext]_(Promise!absVars)
  BY <1>7, PromiseStutter DEF SpuriousSubmit
<1>8. ASSUME NEW w \in Workers, WorkerWait(w) PROVE [Promise!AbsNext]_(Promise!absVars)
  BY <1>8, PromiseStutter DEF WorkerWait, queueVars
<1>9. ASSUME NEW w \in Workers, WorkerRetire(w) PROVE [Promise!AbsNext]_(Promise!absVars)
  BY <1>9, PromiseStutter DEF WorkerRetire, queueVars
<1>10. ASSUME NEW w \in Workers, WorkerShutdown(w) PROVE [Promise!AbsNext]_(Promise!absVars)
  BY <1>10, PromiseStutter DEF WorkerShutdown, queueVars
<1>11. ASSUME NEW w \in Workers, WorkerBusy(w) PROVE [Promise!AbsNext]_(Promise!absVars)
  BY <1>11, PromiseStutter DEF WorkerBusy, queueVars
<1>12. ASSUME NEW w \in Workers, WorkerIdle(w) PROVE [Promise!AbsNext]_(Promise!absVars)
  BY <1>12, PromiseStutter DEF WorkerIdle, queueVars
<1>13. ASSUME NEW w \in Workers, ThreadExit(w) PROVE [Promise!AbsNext]_(Promise!absVars)
  BY <1>13, PromiseStutter DEF ThreadExit, queueVars
<1>14. ASSUME NEW w \in Workers, SpuriousWorker(w) PROVE [Promise!AbsNext]_(Promise!absVars)
  BY <1>14, PromiseStutter DEF SpuriousWorker, queueVars
<1>15. ASSUME ManagerTop PROVE [Promise!AbsNext]_(Promise!absVars)
  BY <1>15, PromiseStutter DEF ManagerTop, queueVars
<1>16. ASSUME ManagerReadQueue PROVE [Promise!AbsNext]_(Promise!absVars)
  BY <1>16, PromiseStutter DEF ManagerReadQueue, queueVars
<1>17. ASSUME ManagerReadPool PROVE [Promise!AbsNext]_(Promise!absVars)
  BY <1>17, PromiseStutter DEF ManagerReadPool, queueVars
<1>18. ASSUME ManagerAdd PROVE [Promise!AbsNext]_(Promise!absVars)
  BY <1>18, PromiseStutter DEF ManagerAdd, queueVars
<1>19. ASSUME ManagerShrink PROVE [Promise!AbsNext]_(Promise!absVars)
  BY <1>19, PromiseStutter DEF ManagerShrink, queueVars
<1>20. ASSUME ManagerSignal PROVE [Promise!AbsNext]_(Promise!absVars)
  BY <1>20, PromiseStutter DEF ManagerSignal, queueVars
<1>21. ASSUME DestroyBroadcast PROVE [Promise!AbsNext]_(Promise!absVars)
  BY <1>21, PromiseStutter DEF DestroyBroadcast, queueVars
<1>22. ASSUME DestroyJoin PROVE [Promise!AbsNext]_(Promise!absVars)
  BY <1>22, PromiseStutter DEF DestroyJoin, queueVars
<1>23. ASSUME DestroyPoll \/ DestroyFinish PROVE [Promise!AbsNext]_(Promise!absVars)
  BY <1>23, PromiseStutter DEF DestroyPoll, DestroyFinish, queueVars
<1>24. CASE UNCHANGED vars
  BY <1>24, PromiseStutter DEF vars
<1> QED
  BY <1>1, <1>2, <1>3, <1>4, <1>5, <1>6, <1>7, <1>8, <1>9, <1>10, <1>11, <1>12, <1>13, <1>14, <1>15, <1>16, <1>17, <1>18, <1>19, <1>20, <1>21, <1>22, <1>23, <1>24
     DEF Next, Submitter, Work, Manager, Destructor

(* The pool of threads, locks and condition variables implements the       *)
(* bounded FIFO of TaskPool: every step is a step of the promise or changes *)
(* nothing the callers can see.                                            *)
THEOREM ImplementsPromise == Spec => ImplementsTaskPool
<1>1. Typed /\ TaskOwnership /\ [Next]_vars => [Promise!AbsNext]_(Promise!absVars)
  BY RefinementStep
<1> QED
  BY TypeInit, TypeStep, OwnershipInit, OwnershipStep, RefinementInit, <1>1, PTL
     DEF Spec, ImplementsTaskPool, Promise!AbsSpec

-----------------------------------------------------------------------------
(* A pool of fixed size.                                                   *)

FixedSize == MinThreads = m_max_threads

(* With no slot above the minimum the manager never asks a worker to leave. *)
NoRetirement == m_exit_threads = 0 /\ live_num <= m_max_threads

LEMMA RetirementInit == Init => NoRetirement
BY ConstantTypes DEF Init, NoRetirement

LEMMA RetirementStep ==
  FixedSize /\ Typed /\ CountersExact /\ NoRetirement /\ [Next]_vars => NoRetirement'
<1> SUFFICES ASSUME FixedSize, Typed, CountersExact, NoRetirement, [Next]_vars
             PROVE  NoRetirement'
  OBVIOUS
<1> USE DEF NoRetirement, Typed, TypeOK
<1>1. m_live_threads <= m_max_threads
  <2>1. Live \in SUBSET Workers
    BY DEF Live
  <2> QED
    BY <2>1, SlotSets DEF CountersExact
<1>2. ASSUME NEW w \in Workers, WorkerRetire(w) PROVE NoRetirement'
  BY <1>2 DEF WorkerRetire
<1>3. CASE ManagerReadPool
  BY <1>1, <1>3 DEF ManagerReadPool, countVars
<1>4. CASE ManagerShrink
  <2>1. ~ShouldShrink
    BY ConstantTypes DEF ShouldShrink, FixedSize
  <2> QED
    BY <1>4, <2>1, ConstantTypes DEF ManagerShrink, NextRound
<1>5. CASE ManagerSignal
  BY <1>5, ConstantTypes DEF ManagerSignal, NextRound, countVars
<1>6. CASE UNCHANGED <<m_exit_threads, live_num>>
  BY <1>6
<1> QED
  BY <1>2, <1>3, <1>4, <1>5, <1>6
     DEF Next, Submitter, Work, Manager, Destructor, vars, countVars, managerVars, SubmitEnter, SubmitWait,
         SubmitPush, SpuriousSubmit, WorkerWait, WorkerShutdown, WorkerTake, WorkerBusy,
         WorkerRun, WorkerIdle, ThreadExit, SpuriousWorker, ManagerTop, ManagerReadQueue,
         ManagerAdd, DestroyFlag, DestroyBroadcast, DestroyJoin, DestroyPoll, DestroyFinish

LEMMA NoLostWakeupInit == Init => NoLostWakeup
<1> SUFFICES ASSUME Init PROVE NoLostWakeup
  OBVIOUS
<1>1. Waiting = {}
  BY DEF Init, Waiting
<1> QED
  BY <1>1 DEF NoLostWakeup

LEMMA WokenSet == IsFiniteSet(Woken) /\ Cardinality(Woken) \in Nat
<1>1. Woken \in SUBSET Workers
  BY DEF Woken
<1> QED
  BY <1>1, SlotSets

(* The signal of a push finds a sleeping worker, if there is one.          *)
LEMMA SignalWakes ==
  ASSUME Typed, SignalEmpty, Waiting # {}
  PROVE  Cardinality(Woken') = Cardinality(Woken) + 1
<1>1. PICK w \in Waiting : worker' = [worker EXCEPT ![w] = "woken"]
  BY DEF SignalEmpty
<1>2. w \notin Woken /\ Woken' = Woken \cup {w}
  BY <1>1 DEF Waiting, Woken, Typed, TypeOK
<1> QED
  BY <1>2, WokenSet, FS_AddElement

LEMMA NoLostWakeupStep ==
  ASSUME Typed, m_exit_threads = 0, NoLostWakeup, [Next]_vars
  PROVE  NoLostWakeup'
<1> USE DEF Typed, TypeOK
<1>0. Len(m_taskQ) \in Nat /\ Cardinality(Woken) \in Nat
  BY WokenSet
<1>a. ASSUME UNCHANGED <<m_taskQ, m_is_shutdown>>, Waiting' = Waiting, Woken' = Woken
      PROVE  NoLostWakeup'
  BY <1>a DEF NoLostWakeup
<1>b. ASSUME m_is_shutdown' = TRUE PROVE NoLostWakeup'
  BY <1>b DEF NoLostWakeup
<1>c. ASSUME UNCHANGED <<m_taskQ, m_is_shutdown>>, SignalEmpty PROVE NoLostWakeup'
  <2>1. CASE Waiting = {}
    <3>1. Waiting' = {}
      BY <1>c, <2>1 DEF SignalEmpty, Waiting
    <3> QED
      BY <3>1 DEF NoLostWakeup
  <2>2. CASE Waiting # {}
    BY <1>0, <1>c, <2>2, SignalWakes DEF NoLostWakeup
  <2> QED
    BY <2>1, <2>2
<1>1. ASSUME NEW t \in Tasks, SubmitPush(t) PROVE NoLostWakeup'
  <2>1. SignalEmpty /\ Len(m_taskQ') = Len(m_taskQ) + 1 /\ UNCHANGED m_is_shutdown
    BY <1>1, AppendProperties DEF SubmitPush
  <2>2. CASE Waiting = {}
    <3>1. Waiting' = {}
      BY <2>1, <2>2 DEF SignalEmpty, Waiting
    <3> QED
      BY <3>1 DEF NoLostWakeup
  <2>3. CASE Waiting # {}
    BY <1>0, <2>1, <2>3, SignalWakes DEF NoLostWakeup
  <2> QED
    BY <2>2, <2>3
<1>2. ASSUME NEW w \in Workers, WorkerWait(w) PROVE NoLostWakeup'
  <2>1. Len(m_taskQ') = 0
    BY <1>2 DEF WorkerWait, queueVars
  <2>2. Cardinality(Woken') \in Nat
    <3>1. Woken' \in SUBSET Workers
      BY DEF Woken
    <3> QED
      BY <3>1, SlotSets
  <2> QED
    BY <2>1, <2>2 DEF NoLostWakeup
<1>3. ASSUME NEW w \in Workers, WorkerTake(w) PROVE NoLostWakeup'
  <2>1. /\ Len(m_taskQ') = Len(m_taskQ) - 1 /\ UNCHANGED m_is_shutdown
        /\ worker' = [worker EXCEPT ![w] = "taken"] /\ worker[w] \in {"top", "woken"}
    BY <1>3, HeadTailProperties DEF WorkerTake, AtLoop
  <2>2. Waiting' = Waiting /\ Woken' = Woken \ {w}
    BY <2>1 DEF Waiting, Woken
  <2>3. Cardinality(Woken \ {w})
          = IF w \in Woken THEN Cardinality(Woken) - 1 ELSE Cardinality(Woken)
    BY WokenSet, FS_RemoveElement
  <2>4. Cardinality(Woken') \in Nat /\ Cardinality(Woken') >= Cardinality(Woken) - 1
    <3>1. Woken' \in SUBSET Workers
      BY DEF Woken
    <3>2. Cardinality(Woken') \in Nat
      BY <3>1, SlotSets
    <3> QED
      BY <1>0, <2>2, <2>3, <3>2
  <2> QED
    <3>1. Len(m_taskQ) \in Nat /\ Len(m_taskQ') \in Int
      BY <1>0, <2>1
    <3>2. SUFFICES ASSUME Waiting' # {}, ~m_is_shutdown'
                   PROVE  Len(m_taskQ') <= Cardinality(Woken')
      BY DEF NoLostWakeup
    <3>3. Len(m_taskQ) <= Cardinality(Woken)
      BY <2>1, <2>2, <3>2 DEF NoLostWakeup
    <3> QED
      BY <1>0, <2>1, <2>4, <3>1, <3>3
<1>4. ASSUME NEW w \in Workers, WorkerRetire(w) PROVE NoLostWakeup'
  BY <1>4 DEF WorkerRetire
<1>5. ASSUME NEW w \in Workers, WorkerShutdown(w) PROVE NoLostWakeup'
  BY <1>5, <1>b DEF WorkerShutdown
<1>6. ASSUME NEW w \in Workers,
             WorkerBusy(w) \/ WorkerRun(w) \/ WorkerIdle(w) \/ ThreadExit(w)
      PROVE  NoLostWakeup'
  <2>1. /\ UNCHANGED <<m_taskQ, m_is_shutdown>>
        /\ worker[w] \notin {"waiting", "woken"}
        /\ \E s \in {"running", "ran", "top", "none"} : worker' = [worker EXCEPT ![w] = s]
    BY <1>6 DEF WorkerBusy, WorkerRun, WorkerIdle, ThreadExit, queueVars
  <2>2. Waiting' = Waiting /\ Woken' = Woken
    BY <2>1 DEF Waiting, Woken
  <2> QED
    BY <1>a, <2>1, <2>2
<1>7. ASSUME NEW w \in Workers, SpuriousWorker(w) PROVE NoLostWakeup'
  <2>1. UNCHANGED <<m_taskQ, m_is_shutdown>> /\ SignalEmpty
    BY <1>7 DEF SpuriousWorker, SignalEmpty, Waiting, queueVars
  <2> QED
    BY <1>c, <2>1
<1>8. CASE ManagerAdd
  <2>1. UNCHANGED <<m_taskQ, m_is_shutdown>>
    BY <1>8 DEF ManagerAdd, queueVars
  <2>2. Waiting' = Waiting /\ Woken' = Woken
    BY <1>8 DEF ManagerAdd, Free, Waiting, Woken
  <2> QED
    BY <1>a, <2>1, <2>2
<1>9. CASE ManagerSignal
  BY <1>9, <1>c DEF ManagerSignal, queueVars
<1>10. CASE DestroyFlag
  BY <1>10, <1>b DEF DestroyFlag
<1>11. CASE DestroyBroadcast
  <2>1. Waiting' = {}
    BY <1>11 DEF DestroyBroadcast, Waiting
  <2> QED
    BY <2>1 DEF NoLostWakeup
<1>12. CASE UNCHANGED <<m_taskQ, m_is_shutdown, worker>>
  <2>1. Waiting' = Waiting /\ Woken' = Woken
    BY <1>12 DEF Waiting, Woken
  <2> QED
    BY <1>a, <1>12, <2>1
<1> QED
  BY <1>1, <1>2, <1>3, <1>4, <1>5, <1>6, <1>7, <1>8, <1>9, <1>10, <1>11, <1>12
     DEF Next, Submitter, Work, Manager, Destructor, vars, queueVars, SubmitEnter, SubmitWait,
         SpuriousSubmit, ManagerTop, ManagerReadQueue, ManagerReadPool, ManagerShrink,
         DestroyJoin, DestroyPoll, DestroyFinish

(* In a pool with min = max no signal of submit() is lost: while a worker   *)
(* sleeps, as many workers as there are queued tasks are on their way.      *)
THEOREM FixedPoolLosesNoWakeup == FixedSize /\ Spec => []NoLostWakeup
<1>1. Init => Typed /\ CountersExact /\ NoRetirement /\ NoLostWakeup
  BY TypeInit, CountersInit, RetirementInit, NoLostWakeupInit
<1>2. FixedSize /\ Typed /\ CountersExact /\ NoRetirement /\ NoLostWakeup /\ [Next]_vars
      => (Typed /\ CountersExact /\ NoRetirement /\ NoLostWakeup)'
  BY TypeStep, CountersStep, RetirementStep, NoLostWakeupStep DEF NoRetirement
<1>3. CASE FixedSize
  BY <1>1, <1>2, <1>3, PTL DEF Spec
<1> QED
  BY <1>3

(* In an elastic pool the signals are kept as well, growth and shutdown     *)
(* included, until the manager first asks workers to leave: a worker that   *)
(* retires is the only thing that eats one (threadPool.cpp:204).            *)
THEOREM OnlyShrinkingLosesWakeups == Spec /\ [](m_exit_threads = 0) => []NoLostWakeup
<1>1. Init => Typed /\ NoLostWakeup
  BY TypeInit, NoLostWakeupInit
<1>2. Typed /\ m_exit_threads = 0 /\ NoLostWakeup /\ [Next]_vars => NoLostWakeup'
  BY NoLostWakeupStep
<1> QED
  BY <1>1, <1>2, TypeStep, PTL DEF Spec

-----------------------------------------------------------------------------
(* The end of the pool.                                                    *)

(* From the broadcast on nobody sleeps on m_empty; from the join on there  *)
(* is no manager; and what was polled stays so: the workers that are left  *)
(* are on their way out.                                                   *)
Ended == dtor \in {"polled", "destroyed", "undefined"}

EndInv ==
  /\ dtor # "alive" => m_is_shutdown
  /\ dtor = "joined" \/ Ended => manager = "exited"
  /\ Ended => m_live_threads = 0
  /\ dtor \notin {"alive", "flagged"} => Waiting = {}

RestVars == <<countVars, m_is_shutdown, task, done, managerVars>>

LEMMA WaitingShrinks ==
  ASSUME TypeOK, SignalEmpty
  PROVE  Waiting' \subseteq Waiting
BY SignalEmptyType DEF Waiting

(* With m_live_threads at 0 no worker is between its creation and the end  *)
(* of work().                                                              *)
LEMMA NobodyLives ==
  ASSUME CountersExact, m_live_threads = 0, NEW w \in Workers
  PROVE  worker[w] \in {"none", "exiting"}
<1>1. Live = {}
  BY LiveBusySets, FS_EmptySet DEF CountersExact
<1> QED
  BY <1>1 DEF Live

LEMMA AfterTheEnd ==
  ASSUME Typed, CountersExact, EndInv, Next, Ended
  PROVE  /\ UNCHANGED RestVars
         /\ Ended'
         /\ Waiting' = {}
<1> USE DEF RestVars, countVars, managerVars, EndInv, Ended
<1>0. TypeOK /\ m_live_threads = 0 /\ manager = "exited" /\ Waiting = {}
  BY DEF Typed
<1>1. SignalEmpty => UNCHANGED worker
  BY <1>0 DEF SignalEmpty
<1>2. ASSUME NEW t \in Tasks, SubmitEnter(t) \/ Submitter(t) \/ SpuriousSubmit(t)
      PROVE  UNCHANGED <<RestVars, dtor, worker>>
  BY <1>1, <1>2 DEF SubmitEnter, Submitter, SubmitWait, SubmitPush, SpuriousSubmit
<1>3. ASSUME NEW w \in Workers, Work(w) \/ SpuriousWorker(w) PROVE ThreadExit(w)
  <2>1. worker[w] \in {"none", "exiting"}
    BY <1>0, NobodyLives
  <2> QED
    BY <1>3, <2>1 DEF Work, AtLoop, WorkerWait, WorkerRetire, WorkerShutdown, WorkerTake,
       WorkerBusy, WorkerRun, WorkerIdle, SpuriousWorker
<1>4. ASSUME NEW w \in Workers, ThreadExit(w)
      PROVE  UNCHANGED <<RestVars, dtor>> /\ Waiting' = {}
  BY <1>0, <1>4 DEF ThreadExit, TypeOK, Waiting
<1>5. ~Manager
  BY <1>0 DEF Manager, ManagerTop, ManagerReadQueue, ManagerReadPool, ManagerAdd,
     ManagerShrink, ManagerSignal
<1>6. CASE DestroyFlag \/ Destructor
  <2>1. DestroyFinish
    BY <1>6 DEF DestroyFlag, Destructor, DestroyBroadcast, DestroyJoin, DestroyPoll
  <2> QED
    BY <1>0, <2>1 DEF DestroyFinish, Waiting
<1>7. UNCHANGED worker => Waiting' = {}
  BY <1>0 DEF Waiting
<1> QED
  BY <1>2, <1>3, <1>4, <1>5, <1>6, <1>7 DEF Next

LEMMA EndStep ==
  ASSUME Typed, CountersExact, EndInv, [Next]_vars
  PROVE  EndInv'
<1> USE DEF EndInv, Ended
<1>0. TypeOK
  BY DEF Typed
<1>1. CASE Ended /\ Next
  <2>1. UNCHANGED RestVars /\ Ended' /\ Waiting' = {}
    BY <1>1, AfterTheEnd
  <2> QED
    BY <1>1, <2>1 DEF RestVars, managerVars, countVars
<1>2. ASSUME ~Ended, UNCHANGED <<dtor, m_is_shutdown>>, Waiting' \subseteq Waiting,
             manager = "exited" => manager' = "exited"
      PROVE  EndInv'
  BY <1>2
<1>3. ASSUME ~Ended, NEW t \in Tasks,
             SubmitEnter(t) \/ Submitter(t) \/ SpuriousSubmit(t)
      PROVE  EndInv'
  <2>1. UNCHANGED <<dtor, m_is_shutdown, manager>> /\ (worker' = worker \/ SignalEmpty)
    BY <1>3 DEF SubmitEnter, Submitter, SubmitWait, SubmitPush, SpuriousSubmit, managerVars
  <2> QED
    BY <1>0, <1>2, <1>3, <2>1, WaitingShrinks DEF Waiting
<1>4. ASSUME ~Ended, NEW w \in Workers, WorkerWait(w) PROVE EndInv'
  BY <1>4 DEF WorkerWait, managerVars
<1>5. ASSUME ~Ended, NEW w \in Workers, Work(w) \/ SpuriousWorker(w), ~WorkerWait(w)
      PROVE  EndInv'
  <2>1. /\ UNCHANGED <<dtor, m_is_shutdown, manager>>
        /\ \E s \in {"woken", "exiting", "taken", "running", "ran", "top", "none"} :
             worker' = [worker EXCEPT ![w] = s]
    BY <1>5 DEF Work, WorkerRetire, WorkerShutdown, WorkerTake, WorkerBusy, WorkerRun,
       WorkerIdle, ThreadExit, SpuriousWorker, managerVars
  <2>2. Waiting' \subseteq Waiting
    BY <1>0, <2>1 DEF Waiting, TypeOK
  <2> QED
    BY <1>2, <1>5, <2>1, <2>2
<1>6. CASE ~Ended /\ Manager
  <2>1. /\ UNCHANGED <<dtor, m_is_shutdown>> /\ manager # "exited"
        /\ \/ worker' = worker \/ SignalEmpty
           \/ \E S \in SUBSET Free : worker' = [w \in Workers |-> IF w \in S THEN "top" ELSE worker[w]]
    BY <1>6 DEF Manager, ManagerTop, ManagerReadQueue, ManagerReadPool, ManagerAdd,
       ManagerShrink, ManagerSignal
  <2>2. Waiting' \subseteq Waiting
    BY <1>0, <2>1, WaitingShrinks DEF Waiting
  <2> QED
    BY <1>2, <1>6, <2>1, <2>2
<1>7. CASE DestroyFlag
  BY <1>7 DEF DestroyFlag
<1>8. CASE DestroyBroadcast
  BY <1>8 DEF DestroyBroadcast, Waiting
<1>9. CASE ~Ended /\ (DestroyJoin \/ DestroyPoll \/ DestroyFinish)
  <2>1. Waiting' = Waiting
    BY <1>9 DEF DestroyJoin, DestroyPoll, DestroyFinish, Waiting
  <2> QED
    BY <1>9, <2>1 DEF DestroyJoin, DestroyPoll, DestroyFinish, managerVars, countVars
<1>10. CASE UNCHANGED vars
  BY <1>10 DEF vars, Waiting
<1> QED
  BY <1>1, <1>3, <1>4, <1>5, <1>6, <1>7, <1>8, <1>9, <1>10 DEF Next, Destructor

(* Once the destructor has polled m_live_threads to 0 the pool is at rest: *)
(* no task is taken or run, no counter moves, the manager is gone.  What   *)
(* is still to come is the callers left in submit(), whose tasks nobody    *)
(* takes, and the last line of thread_exit_(), which writes a slot of the  *)
(* pool that is being destroyed.                                           *)
THEOREM NothingRunsAfter ==
  Spec => [][Ended => UNCHANGED RestVars]_vars
<1>1. Init => EndInv
  BY DEF Init, EndInv, Ended
<1>2. Typed /\ CountersExact /\ EndInv /\ [Next]_vars
        => [Ended => UNCHANGED RestVars]_vars
  BY AfterTheEnd
<1> QED
  BY <1>1, <1>2, TypeInit, TypeStep, CountersInit, CountersStep, EndStep, PTL DEF Spec

-----------------------------------------------------------------------------
(* The STL pool.  All but one of its steps are steps of the pthread pool:  *)
(* a worker may begin to wait after m_is_shutdown was raised.              *)
OnlyIdleDecide == deciding \subseteq {w \in Workers : worker[w] \in {"top", "woken"}}

StlInv == Typed /\ OnlyIdleDecide

LEMMA StlSteps ==
  StlNext => \/ Next /\ deciding' = deciding
             \/ UNCHANGED vars
             \/ \E w \in Workers : WorkerSleep(w)
<1> SUFFICES ASSUME StlNext
             PROVE  \/ Next /\ deciding' = deciding
                    \/ UNCHANGED vars
                    \/ \E w \in Workers : WorkerSleep(w)
  OBVIOUS
<1>1. ASSUME NEW t \in Tasks, Submit(t) PROVE Next /\ deciding' = deciding
  BY <1>1 DEF Submit, Own, Next
<1>2. ASSUME NEW w \in Workers, StlWork(w) \/ StlThreadExit(w) PROVE Next /\ deciding' = deciding
  BY <1>2 DEF StlWork, StlThreadExit, Own, Next, Work
<1>3. ASSUME NEW w \in Workers, WorkerDecide(w) PROVE UNCHANGED vars
  BY <1>3 DEF WorkerDecide
<1>4. CASE StlManager
  BY <1>4 DEF StlManager, ManagerDecides, ManagerGrows, Own, Next, Manager
<1>5. CASE SpawnThrows \/ PassMutex \/ DestroyMembers
  BY <1>5 DEF SpawnThrows, PassMutex, DestroyMembers
<1>6. CASE RaiseFlag \/ NotifyAll \/ JoinAndPoll
  BY <1>6 DEF RaiseFlag, NotifyAll, JoinAndPoll, Own, Next, Destructor
<1>7. CASE Spurious
  BY <1>7 DEF Spurious, Own, Next
<1> QED
  BY <1>1, <1>2, <1>3, <1>4, <1>5, <1>6, <1>7 DEF StlNext, StlWorker, StlDestructor

(* A worker that decides to wait stays where it is until it waits, because *)
(* nobody else may take m_queue_mutex.                                     *)
LEMMA DecidersStay ==
  ASSUME TypeOK, OnlyIdleDecide, StlNext
  PROVE  OnlyIdleDecide'
<1>1. ASSUME NEW w \in Workers, WorkerDecide(w) PROVE OnlyIdleDecide'
  BY <1>1 DEF WorkerDecide, AtLoop, OnlyIdleDecide, vars
<1>2. ASSUME NEW w \in Workers, WorkerSleep(w) PROVE OnlyIdleDecide'
  BY <1>2 DEF WorkerSleep, OnlyIdleDecide
<1>3. ASSUME NEW w \in Workers, StlWork(w) \/ StlThreadExit(w) PROVE OnlyIdleDecide'
  <2>1. deciding' = deciding
    BY <1>3 DEF StlWork, StlThreadExit, Own
  <2>2. CASE deciding = {}
    BY <2>1, <2>2 DEF OnlyIdleDecide
  <2>3. CASE deciding # {}
    <3>1. WorkerBusy(w) \/ WorkerRun(w) \/ WorkerIdle(w) \/ ThreadExit(w)
      BY <1>3, <2>3 DEF StlWork, StlThreadExit, Unlocked
    <3>2. /\ worker[w] \notin {"top", "woken"}
          /\ \A v \in Workers : v # w => worker'[v] = worker[v]
      BY <3>1 DEF WorkerBusy, WorkerRun, WorkerIdle, ThreadExit, TypeOK
    <3> QED
      BY <2>1, <3>2 DEF OnlyIdleDecide
  <2> QED
    BY <2>2, <2>3
<1>4. ASSUME deciding' = deciding,
             \A w \in Workers : worker'[w] # worker[w] =>
               worker[w] \in {"none", "waiting"} /\ worker'[w] \in {"top", "woken"}
      PROVE  OnlyIdleDecide'
  BY <1>4 DEF OnlyIdleDecide
<1>5. ASSUME SignalEmpty
      PROVE  \A w \in Workers : worker'[w] # worker[w] =>
               worker[w] \in {"none", "waiting"} /\ worker'[w] \in {"top", "woken"}
  BY <1>5, SignalEmptyType
<1>6. ASSUME NEW t \in Tasks, Submit(t) PROVE OnlyIdleDecide'
  <2>1. deciding' = deciding /\ (worker' = worker \/ SignalEmpty)
    BY <1>6 DEF Submit, SubmitEnter, Submitter, SubmitWait, SubmitPush, Own
  <2> QED
    BY <1>4, <1>5, <2>1
<1>7. CASE StlManager
  <2>1. CASE ManagerGrows
    <3>1. CASE UNCHANGED worker
      BY <1>4, <2>1, <3>1 DEF ManagerGrows, Own
    <3>2. ASSUME NEW S \in SUBSET Free,
                 worker' = [w \in Workers |-> IF w \in S THEN "top" ELSE worker[w]]
          PROVE  OnlyIdleDecide'
      BY <1>4, <2>1, <3>2 DEF ManagerGrows, Own, Free
    <3> QED
      BY <2>1, <3>1, <3>2 DEF ManagerGrows, ManagerAdd
  <2>2. CASE ManagerDecides
    <3>1. deciding' = deciding /\ (worker' = worker \/ SignalEmpty)
      BY <2>2 DEF ManagerDecides, ManagerTop, ManagerReadPool, ManagerShrink, ManagerSignal,
         ManagerReadQueue, Own
    <3> QED
      BY <1>4, <1>5, <3>1
  <2> QED
    BY <1>7, <2>1, <2>2 DEF StlManager
<1>8. CASE SpawnThrows \/ RaiseFlag \/ PassMutex \/ JoinAndPoll \/ DestroyMembers
  BY <1>4, <1>8 DEF SpawnThrows, RaiseFlag, PassMutex, JoinAndPoll, DestroyMembers, DestroyFlag,
     DestroyJoin, DestroyPoll, Own, vars
<1>9. CASE NotifyAll
  BY <1>4, <1>9 DEF NotifyAll, DestroyBroadcast, Waiting, Own
<1>10. CASE Spurious
  BY <1>4, <1>10 DEF Spurious, SpuriousWorker, SpuriousSubmit, Own, TypeOK
<1> QED
  BY <1>1, <1>2, <1>3, <1>6, <1>7, <1>8, <1>9, <1>10 DEF StlNext, StlWorker, StlDestructor


LEMMA SleepFacts ==
  ASSUME StlInv, NEW w \in Workers, WorkerSleep(w)
  PROVE  /\ worker' = [worker EXCEPT ![w] = "waiting"] /\ worker[w] \in {"top", "woken"}
         /\ UNCHANGED <<m_taskQ, call, countVars, m_is_shutdown, task, done, managerVars, dtor>>
BY DEF StlInv, OnlyIdleDecide, WorkerSleep, queueVars

LEMMA StlInit0 == StlInit => StlInv /\ TaskOwnership /\ CountersExact
BY TypeInit, OwnershipInit, CountersInit DEF StlInit, StlInv, OnlyIdleDecide

LEMMA StlStep == StlInv /\ [StlNext]_stlVars => StlInv'
<1> SUFFICES ASSUME StlInv, [StlNext]_stlVars PROVE StlInv'
  OBVIOUS
<1>0. Typed /\ TypeOK
  BY DEF StlInv, Typed
<1>1. OnlyIdleDecide'
  BY <1>0, DecidersStay DEF StlInv, stlVars, vars, OnlyIdleDecide
<1>2. CASE [Next]_vars
  BY <1>0, <1>1, <1>2, TypeStep DEF StlInv
<1>3. ASSUME NEW w \in Workers, WorkerSleep(w) PROVE Typed'
  <2>1. worker' \in [Workers -> WorkerState]
    BY <1>0, <1>3, SleepFacts DEF TypeOK, WorkerState
  <2>2. TypeOK'
    BY <1>0, <1>3, <2>1, SleepFacts DEF TypeOK, countVars, managerVars
  <2>3. HoldsTask'
    BY <1>0, <1>3, SleepFacts DEF Typed, HoldsTask, TypeOK
  <2> QED
    BY <2>2, <2>3 DEF Typed
<1> QED
  BY <1>1, <1>2, <1>3, StlSteps DEF StlInv, stlVars

(* A worker that goes to wait moves no task and is still live.             *)
LEMMA StlOwnershipStep ==
  StlInv /\ StlInv' /\ TaskOwnership /\ [StlNext]_stlVars => TaskOwnership'
<1> SUFFICES ASSUME StlInv, StlInv', TaskOwnership, [StlNext]_stlVars PROVE TaskOwnership'
  OBVIOUS
<1>1. CASE [Next]_vars
  BY <1>1, OwnershipStep DEF StlInv
<1>2. ASSUME NEW w \in Workers, WorkerSleep(w) PROVE TaskOwnership'
  BY <1>2, SleepFacts, OwnershipKept DEF StlInv, Typed
<1> QED
  BY <1>1, <1>2, StlSteps DEF stlVars

LEMMA StlCountersStep ==
  StlInv /\ CountersExact /\ [StlNext]_stlVars => CountersExact'
<1> SUFFICES ASSUME StlInv, CountersExact, [StlNext]_stlVars PROVE CountersExact'
  OBVIOUS
<1>1. CASE [Next]_vars
  BY <1>1, CountersStep DEF StlInv
<1>2. ASSUME NEW w \in Workers, WorkerSleep(w) PROVE CountersExact'
  <2>1. Live' = Live /\ Busy' = Busy
    BY <1>2, SleepFacts DEF StlInv, Typed, TypeOK, Live, Busy
  <2> QED
    BY <1>2, <2>1, SleepFacts DEF CountersExact, countVars
<1> QED
  BY <1>1, <1>2, StlSteps DEF stlVars

LEMMA StlRefinementStep ==
  StlInv /\ TaskOwnership /\ [StlNext]_stlVars => [Promise!AbsNext]_(Promise!absVars)
<1> SUFFICES ASSUME StlInv, TaskOwnership, [StlNext]_stlVars
             PROVE  [Promise!AbsNext]_(Promise!absVars)
  OBVIOUS
<1>1. CASE [Next]_vars
  BY <1>1, RefinementStep DEF StlInv
<1>2. ASSUME NEW w \in Workers, WorkerSleep(w) PROVE UNCHANGED Promise!absVars
  BY <1>2, SleepFacts, PromiseStutter
<1> QED
  BY <1>1, <1>2, StlSteps DEF stlVars

(* The STL pool accounts for every task and thread as the pthread pool     *)
(* does, also when std::terminate ends the process in between.             *)
THEOREM StlKeepsTasks == StlSpec => [](TaskOwnership /\ CountersExact)
BY StlInit0, StlStep, StlOwnershipStep, StlCountersStep, PTL DEF StlSpec

(* ... and implements the bounded FIFO of TaskPool.                        *)
THEOREM StlImplementsPromise == StlSpec => StlImplementsTaskPool
<1>1. StlInit => Promise!AbsInit
  BY RefinementInit DEF StlInit
<1> QED
  BY StlInit0, StlStep, StlOwnershipStep, StlRefinementStep, <1>1, PTL
     DEF StlSpec, StlImplementsTaskPool, Promise!AbsSpec

(* The gap that the destructor closes by passing through m_queue_mutex: a  *)
(* worker that tested the flag before waits by now, none tests it after.   *)
Passed == /\ dtor # "alive" => m_is_shutdown
          /\ teardown = "passed" => dtor # "alive" /\ deciding = {}
          /\ dtor \notin {"alive", "flagged"} => Waiting = {} /\ deciding = {}

LEMMA PassedStep == StlInv /\ Passed /\ [StlNext]_stlVars => Passed'
<1> SUFFICES ASSUME StlInv, Passed, [StlNext]_stlVars PROVE Passed'
  OBVIOUS
<1>0. TypeOK
  BY DEF StlInv, Typed
<1>1. ASSUME NEW w \in Workers, WorkerDecide(w) PROVE Passed'
  BY <1>1 DEF WorkerDecide, Passed, vars
<1>2. ASSUME NEW w \in Workers, WorkerSleep(w) PROVE Passed'
  BY <1>2 DEF WorkerSleep, Passed
<1>3. ASSUME UNCHANGED <<dtor, m_is_shutdown, deciding, teardown>>, Waiting' \subseteq Waiting
      PROVE  Passed'
  BY <1>3 DEF Passed
<1>4. ASSUME SignalEmpty PROVE Waiting' \subseteq Waiting
  BY <1>0, <1>4, SignalEmptyType DEF Waiting
<1>5. ASSUME NEW w \in Workers, StlWork(w) \/ StlThreadExit(w) PROVE Passed'
  <2>1. UNCHANGED <<dtor, m_is_shutdown, deciding, teardown>>
    BY <1>5 DEF StlWork, StlThreadExit, WorkerRetire, WorkerShutdown, WorkerTake, WorkerBusy,
       WorkerRun, WorkerIdle, ThreadExit, Own
  <2>2. \E v \in {"exiting", "taken", "running", "ran", "top", "none"} :
          worker' = [worker EXCEPT ![w] = v]
    BY <1>5 DEF StlWork, StlThreadExit, WorkerRetire, WorkerShutdown, WorkerTake, WorkerBusy,
       WorkerRun, WorkerIdle, ThreadExit
  <2> QED
    BY <1>0, <1>3, <2>1, <2>2 DEF TypeOK, Waiting
<1>6. ASSUME NEW t \in Tasks, Submit(t) PROVE Passed'
  <2>1. UNCHANGED <<dtor, m_is_shutdown, deciding, teardown>> /\ (worker' = worker \/ SignalEmpty)
    BY <1>6 DEF Submit, SubmitEnter, Submitter, SubmitWait, SubmitPush, Own
  <2> QED
    BY <1>3, <1>4, <2>1 DEF Waiting
<1>7. CASE StlManager
  <2>1. UNCHANGED <<dtor, m_is_shutdown, deciding, teardown>>
    BY <1>7 DEF StlManager, ManagerDecides, ManagerGrows, ManagerTop, ManagerReadPool,
       ManagerShrink, ManagerSignal, ManagerReadQueue, ManagerAdd, Own
  <2>2. CASE ManagerGrows
    <3>1. \E S \in SUBSET Free :
            worker' = worker \/ worker' = [w \in Workers |-> IF w \in S THEN "top" ELSE worker[w]]
      BY <2>2 DEF ManagerGrows, ManagerAdd
    <3> QED
      BY <1>3, <2>1, <3>1 DEF Waiting
  <2>3. CASE ManagerDecides
    <3>1. worker' = worker \/ SignalEmpty
      BY <2>3 DEF ManagerDecides, ManagerTop, ManagerReadPool, ManagerShrink, ManagerSignal,
         ManagerReadQueue
    <3> QED
      BY <1>3, <1>4, <2>1, <3>1 DEF Waiting
  <2> QED
    BY <1>7, <2>2, <2>3 DEF StlManager
<1>8. CASE SpawnThrows \/ PassMutex \/ DestroyMembers
  BY <1>8 DEF SpawnThrows, PassMutex, DestroyMembers, Unlocked, Passed, Waiting, vars
<1>9. CASE RaiseFlag
  BY <1>9 DEF RaiseFlag, DestroyFlag, Own, Passed, Waiting
<1>10. CASE NotifyAll
  <2>1. Waiting' = {}
    BY <1>10 DEF NotifyAll, DestroyBroadcast, Waiting
  <2> QED
    BY <1>10, <2>1 DEF NotifyAll, DestroyBroadcast, Own, Passed
<1>11. CASE JoinAndPoll
  BY <1>11 DEF JoinAndPoll, DestroyJoin, DestroyPoll, Own, Passed, Waiting
<1>12. CASE Spurious
  <2>1. UNCHANGED <<dtor, m_is_shutdown, deciding, teardown>>
    BY <1>12 DEF Spurious, SpuriousWorker, SpuriousSubmit, Own
  <2>2. worker' = worker \/ \E w \in Workers : worker' = [worker EXCEPT ![w] = "woken"]
    BY <1>12 DEF Spurious, SpuriousWorker, SpuriousSubmit
  <2> QED
    BY <1>0, <1>3, <2>1, <2>2 DEF Waiting, TypeOK
<1>13. CASE UNCHANGED stlVars
  BY <1>13 DEF stlVars, vars, Passed, Waiting
<1> QED
  BY <1>1, <1>2, <1>5, <1>6, <1>7, <1>8, <1>9, <1>10, <1>11, <1>12, <1>13
     DEF StlNext, StlWorker, StlDestructor

(* Once the destructor has notified m_empty no worker sleeps on it, and    *)
(* none is about to: the notification misses nobody.                       *)
THEOREM NobodySleepsThrough ==
  StlSpec => [](dtor \notin {"alive", "flagged"} => Waiting = {} /\ deciding = {})
<1>1. StlInit => Passed
  BY DEF StlInit, Init, Passed
<1>2. Passed => (dtor \notin {"alive", "flagged"} => Waiting = {} /\ deciding = {})
  BY DEF Passed
<1> QED
  BY StlInit0, StlStep, PassedStep, <1>1, <1>2, PTL DEF StlSpec

LEMMA StlEndStep ==
  ASSUME StlInv, CountersExact, Passed, EndInv, [StlNext]_stlVars
  PROVE  EndInv' /\ (Ended => UNCHANGED RestVars)
<1>1. CASE [Next]_vars
  <2>1. EndInv'
    BY <1>1, EndStep DEF StlInv
  <2>2. Ended => UNCHANGED RestVars
    BY <1>1, AfterTheEnd DEF StlInv, vars, RestVars, countVars, managerVars
  <2> QED
    BY <2>1, <2>2
<1>2. ASSUME NEW w \in Workers, WorkerSleep(w)
      PROVE  EndInv' /\ (Ended => UNCHANGED RestVars)
  <2>1. dtor \in {"alive", "flagged"}
    BY <1>2 DEF WorkerSleep, Passed
  <2> QED
    BY <1>2, <2>1 DEF WorkerSleep, EndInv, Ended
<1> QED
  BY <1>1, <1>2, StlSteps DEF stlVars

(* The same end in the STL pool: when its members are destroyed no worker  *)
(* and no manager moves any more, and no worker can be about to wait.      *)
THEOREM NothingRunsAfterStl ==
  StlSpec => [][Ended => UNCHANGED RestVars]_stlVars
<1>1. StlInit => Passed /\ EndInv
  BY DEF StlInit, Init, Passed, EndInv, Ended
<1>2. StlInv /\ CountersExact /\ Passed /\ EndInv /\ [StlNext]_stlVars
        => EndInv' /\ [Ended => UNCHANGED RestVars]_stlVars
  BY StlEndStep
<1> QED
  BY <1>1, <1>2, StlInit0, StlStep, StlCountersStep, PassedStep, PTL DEF StlSpec

(* A worker that is about to wait found the queue empty, and holds the     *)
(* mutex that a push needs.                                                *)
DecidedOnEmpty == deciding # {} => m_taskQ = <<>>

LEMMA DecidedStep == DecidedOnEmpty /\ [StlNext]_stlVars => DecidedOnEmpty'
<1> SUFFICES ASSUME DecidedOnEmpty, [StlNext]_stlVars PROVE DecidedOnEmpty'
  OBVIOUS
<1> USE DEF DecidedOnEmpty
<1>1. ASSUME NEW w \in Workers, WorkerDecide(w) PROVE DecidedOnEmpty'
  BY <1>1 DEF WorkerDecide, vars
<1>2. ASSUME NEW w \in Workers, WorkerSleep(w) PROVE DecidedOnEmpty'
  BY <1>2 DEF WorkerSleep
<1>3. ASSUME NEW t \in Tasks, Submit(t) PROVE DecidedOnEmpty'
  BY <1>3 DEF Submit, SubmitEnter, Submitter, Unlocked, Own
<1>4. ASSUME NEW w \in Workers, StlWork(w) \/ StlThreadExit(w) PROVE DecidedOnEmpty'
  BY <1>4 DEF StlWork, StlThreadExit, Unlocked, Own, WorkerBusy, WorkerRun, WorkerIdle,
     ThreadExit, queueVars
<1>5. CASE StlManager
  BY <1>5 DEF StlManager, ManagerDecides, ManagerGrows, Own, ManagerTop, ManagerReadQueue,
     ManagerReadPool, ManagerAdd, ManagerShrink, ManagerSignal, queueVars
<1>6. CASE SpawnThrows \/ RaiseFlag \/ StlDestructor
  BY <1>6 DEF SpawnThrows, RaiseFlag, StlDestructor, PassMutex, NotifyAll, JoinAndPoll,
     DestroyMembers, DestroyFlag, DestroyBroadcast, DestroyJoin, DestroyPoll, Own, vars,
     queueVars
<1>7. CASE Spurious
  BY <1>7 DEF Spurious, SpuriousWorker, SpuriousSubmit, Own, queueVars
<1>8. CASE UNCHANGED stlVars
  BY <1>8 DEF stlVars, vars
<1> QED
  BY <1>1, <1>2, <1>3, <1>4, <1>5, <1>6, <1>7, <1>8 DEF StlNext, StlWorker

LEMMA StlWakeupStep ==
  ASSUME StlInv, DecidedOnEmpty, m_exit_threads = 0, NoLostWakeup, [StlNext]_stlVars
  PROVE  NoLostWakeup'
<1>1. CASE [Next]_vars
  BY <1>1, NoLostWakeupStep DEF StlInv
<1>2. ASSUME NEW w \in Workers, WorkerSleep(w) PROVE NoLostWakeup'
  <2>1. m_taskQ' = <<>>
    BY <1>2 DEF WorkerSleep, DecidedOnEmpty, queueVars
  <2>2. Cardinality(Woken') \in Nat
    <3>1. Woken' \in SUBSET Workers
      BY DEF Woken
    <3> QED
      BY <3>1, SlotSets
  <2> QED
    BY <2>1, <2>2 DEF NoLostWakeup
<1> QED
  BY <1>1, <1>2, StlSteps DEF stlVars

(* The gap between the test of the loop condition and the wait loses no    *)
(* signal either: until a worker is asked to retire, while one sleeps there *)
(* is a woken worker for every queued task.                                *)
THEOREM StlKeepsWakeups == StlSpec /\ [](m_exit_threads = 0) => []NoLostWakeup
<1>1. StlInit => DecidedOnEmpty /\ NoLostWakeup
  BY NoLostWakeupInit DEF StlInit, DecidedOnEmpty
<1>2. StlInv /\ DecidedOnEmpty /\ m_exit_threads = 0 /\ NoLostWakeup /\ [StlNext]_stlVars
        => NoLostWakeup'
  BY StlWakeupStep
<1> QED
  BY <1>1, <1>2, StlInit0, StlStep, DecidedStep, PTL DEF StlSpec
=============================================================================
