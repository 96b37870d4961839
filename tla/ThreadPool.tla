----------------------------- MODULE ThreadPool -----------------------------
(***************************************************************************)
(* The Linux/pthread thread pool: thread-pool/linux-implementation.        *)
(*                                                                         *)
(* Threads: the callers of submit() (one call per task, each on a thread   *)
(* of its own), the worker threads (one per slot of m_thread_work_group),  *)
(* the manager thread, and the thread that runs the destructor.            *)
(* A section that runs under m_queue_mutex or m_pool_mutex is one action;  *)
(* between two sections anything may happen.  m_is_shutdown is written     *)
(* without a lock, and every section reads it as of its own step.          *)
(***************************************************************************)
EXTENDS Integers, Sequences, FiniteSets

CONSTANTS Tasks,       \* the heap-allocated tasks the callers submit, one submit() each
          Workers,     \* the slots of m_thread_work_group; there are m_max_threads
          MinThreads,  \* m_min_threads
          OpNum,       \* m_op_num
          Capacity,    \* m_capacity
          NoTask       \* the null Task pointer

m_max_threads == Cardinality(Workers)

ASSUME PoolAssumption ==
  /\ IsFiniteSet(Workers)
  /\ MinThreads \in 0..m_max_threads
  /\ OpNum \in Nat
  /\ Capacity \in Nat
  /\ NoTask \notin Tasks

VARIABLES m_taskQ,         \* the task queue
          m_live_threads, m_busy_threads, m_exit_threads, m_is_shutdown,
          call,            \* where the submit() call of each task is
          worker,          \* where the thread of each slot is; "none" = slot is 0
          task,            \* the local variable `task' of each worker
          done,            \* tasks that have been run and deleted
          manager,         \* where the manager thread is
          qsize, live_num, busy_num, signals,   \* the manager's locals
          dtor             \* where the destructor is

queueVars   == <<m_taskQ, call>>
countVars   == <<m_live_threads, m_busy_threads, m_exit_threads>>
managerVars == <<manager, qsize, live_num, busy_num, signals>>
vars == <<m_taskQ, m_live_threads, m_busy_threads, m_exit_threads, m_is_shutdown,
          call, worker, task, done, manager, qsize, live_num, busy_num, signals, dtor>>

CallState    == {"new", "entered", "waiting", "woken", "submitted", "refused"}
WorkerState  == {"none", "top", "waiting", "woken", "taken", "running", "ran", "exiting"}
ManagerState == {"top", "sleeping", "sized", "add", "shrink", "signal", "exited"}
DtorState    == {"alive", "flagged", "broadcast", "joined", "polled", "destroyed", "undefined"}

Live     == {w \in Workers : worker[w] \notin {"none", "exiting"}}
Busy     == {w \in Workers : worker[w] \in {"running", "ran"}}
Waiting  == {w \in Workers : worker[w] = "waiting"}
Woken    == {w \in Workers : worker[w] = "woken"}
Free     == {w \in Workers : worker[w] = "none"}
Blocked  == {t \in Tasks : call[t] = "waiting"}
Stands   == dtor \notin {"destroyed", "undefined"}   \* the mutexes and conditions are there

Least(a, b) == IF a < b THEN a ELSE b

-----------------------------------------------------------------------------
(* The constructor has returned: MinThreads workers and the manager run.   *)
Init ==
  /\ m_taskQ = <<>>
  /\ m_live_threads = MinThreads
  /\ m_busy_threads = 0
  /\ m_exit_threads = 0
  /\ m_is_shutdown = FALSE
  /\ call = [t \in Tasks |-> "new"]
  /\ \E S \in SUBSET Workers :
       /\ Cardinality(S) = MinThreads
       /\ worker = [w \in Workers |-> IF w \in S THEN "top" ELSE "none"]
  /\ task = [w \in Workers |-> NoTask]
  /\ done = {}
  /\ manager = "top"
  /\ qsize = 0 /\ live_num = 0 /\ busy_num = 0 /\ signals = 0
  /\ dtor = "alive"

-----------------------------------------------------------------------------
(* Condition variables.  A signal with no waiter is lost.                  *)
SignalEmpty ==
  \/ Waiting = {} /\ UNCHANGED worker
  \/ \E w \in Waiting : worker' = [worker EXCEPT ![w] = "woken"]

SignalFull ==
  \/ Blocked = {} /\ UNCHANGED call
  \/ \E t \in Blocked : call' = [call EXCEPT ![t] = "woken"]

-----------------------------------------------------------------------------
(* submit(task).  The shutdown test is made before the queue is locked.    *)
SubmitEnter(t) ==
  /\ call[t] = "new"
  /\ Stands
  /\ call' = [call EXCEPT ![t] = IF m_is_shutdown THEN "refused" ELSE "entered"]
  /\ UNCHANGED <<m_taskQ, countVars, m_is_shutdown, worker, task, done, managerVars, dtor>>

InSubmit(t) == call[t] \in {"entered", "woken"} /\ Stands

SubmitWait(t) ==
  /\ InSubmit(t)
  /\ Len(m_taskQ) >= Capacity /\ ~m_is_shutdown
  /\ call' = [call EXCEPT ![t] = "waiting"]
  /\ UNCHANGED <<m_taskQ, countVars, m_is_shutdown, worker, task, done, managerVars, dtor>>

(* Mutants of SubmitPush: no recheck after a wait; a push without signal;  *)
(* a signal only for the push into an empty queue.                         *)
PushWithoutRecheck(t) ==
  /\ InSubmit(t)
  /\ Len(m_taskQ) < Capacity \/ m_is_shutdown \/ call[t] = "woken"
  /\ m_taskQ' = Append(m_taskQ, t)
  /\ call' = [call EXCEPT ![t] = "submitted"]
  /\ SignalEmpty
  /\ UNCHANGED <<countVars, m_is_shutdown, task, done, managerVars, dtor>>

PushSilently(t) ==
  /\ InSubmit(t)
  /\ Len(m_taskQ) < Capacity \/ m_is_shutdown
  /\ m_taskQ' = Append(m_taskQ, t)
  /\ call' = [call EXCEPT ![t] = "submitted"]
  /\ UNCHANGED <<countVars, m_is_shutdown, worker, task, done, managerVars, dtor>>

PushSignalsIfEmpty(t) ==
  /\ InSubmit(t)
  /\ Len(m_taskQ) < Capacity \/ m_is_shutdown
  /\ m_taskQ' = Append(m_taskQ, t)
  /\ call' = [call EXCEPT ![t] = "submitted"]
  /\ IF m_taskQ = <<>> THEN SignalEmpty ELSE UNCHANGED worker
  /\ UNCHANGED <<countVars, m_is_shutdown, task, done, managerVars, dtor>>

(* The push: reached with room in the queue, or in a pool shutting down.   *)
SubmitPush(t) ==
  /\ InSubmit(t)
  /\ Len(m_taskQ) < Capacity \/ m_is_shutdown
  /\ m_taskQ' = Append(m_taskQ, t)
  /\ call' = [call EXCEPT ![t] = "submitted"]
  /\ SignalEmpty
  /\ UNCHANGED <<countVars, m_is_shutdown, task, done, managerVars, dtor>>

(* POSIX lets pthread_cond_wait return without a signal.                   *)
SpuriousSubmit(t) ==
  /\ call[t] = "waiting" /\ Stands
  /\ call' = [call EXCEPT ![t] = "woken"]
  /\ UNCHANGED <<m_taskQ, countVars, m_is_shutdown, worker, task, done, managerVars, dtor>>

-----------------------------------------------------------------------------
(* work().  The worker holds m_queue_mutex and evaluates the loop          *)
(* condition: on entry, or after a wakeup that did not make it retire.     *)
AtLoop(w) == \/ worker[w] = "top"
             \/ worker[w] = "woken" /\ m_exit_threads <= 0

WorkerWait(w) ==
  /\ AtLoop(w)
  /\ m_taskQ = <<>> /\ ~m_is_shutdown
  /\ worker' = [worker EXCEPT ![w] = "waiting"]
  /\ UNCHANGED <<queueVars, countVars, m_is_shutdown, task, done, managerVars, dtor>>

(* Mutant of WorkerRetire: any woken worker leaves.                        *)
RetireUnasked(w) ==
  /\ worker[w] = "woken"
  /\ m_exit_threads' = m_exit_threads - 1
  /\ m_live_threads' = m_live_threads - 1
  /\ worker' = [worker EXCEPT ![w] = "exiting"]
  /\ UNCHANGED <<queueVars, m_busy_threads, m_is_shutdown, task, done, managerVars, dtor>>

(* A woken worker that finds m_exit_threads > 0 leaves at once, whatever   *)
(* the queue holds.                                                        *)
WorkerRetire(w) ==
  /\ worker[w] = "woken"
  /\ m_exit_threads > 0
  /\ m_exit_threads' = m_exit_threads - 1
  /\ m_live_threads' = m_live_threads - 1
  /\ worker' = [worker EXCEPT ![w] = "exiting"]
  /\ UNCHANGED <<queueVars, m_busy_threads, m_is_shutdown, task, done, managerVars, dtor>>

WorkerShutdown(w) ==
  /\ AtLoop(w)
  /\ m_is_shutdown
  /\ m_live_threads' = m_live_threads - 1
  /\ worker' = [worker EXCEPT ![w] = "exiting"]
  /\ UNCHANGED <<queueVars, m_busy_threads, m_exit_threads, m_is_shutdown,
                 task, done, managerVars, dtor>>

(* Mutants of WorkerTake: front() without pop(); no signal on m_full.      *)
TakeWithoutPop(w) ==
  /\ AtLoop(w)
  /\ m_taskQ # <<>> /\ ~m_is_shutdown
  /\ task' = [task EXCEPT ![w] = Head(m_taskQ)]
  /\ SignalFull
  /\ worker' = [worker EXCEPT ![w] = "taken"]
  /\ UNCHANGED <<m_taskQ, countVars, m_is_shutdown, done, managerVars, dtor>>

TakeSilently(w) ==
  /\ AtLoop(w)
  /\ m_taskQ # <<>> /\ ~m_is_shutdown
  /\ task' = [task EXCEPT ![w] = Head(m_taskQ)]
  /\ m_taskQ' = Tail(m_taskQ)
  /\ worker' = [worker EXCEPT ![w] = "taken"]
  /\ UNCHANGED <<call, countVars, m_is_shutdown, done, managerVars, dtor>>

(* getTask(), and one blocked producer is signalled.                       *)
WorkerTake(w) ==
  /\ AtLoop(w)
  /\ m_taskQ # <<>> /\ ~m_is_shutdown
  /\ task' = [task EXCEPT ![w] = Head(m_taskQ)]
  /\ m_taskQ' = Tail(m_taskQ)
  /\ SignalFull
  /\ worker' = [worker EXCEPT ![w] = "taken"]
  /\ UNCHANGED <<countVars, m_is_shutdown, done, managerVars, dtor>>

WorkerBusy(w) ==
  /\ worker[w] = "taken"
  /\ m_busy_threads' = m_busy_threads + 1
  /\ worker' = [worker EXCEPT ![w] = "running"]
  /\ UNCHANGED <<queueVars, m_live_threads, m_exit_threads, m_is_shutdown,
                 task, done, managerVars, dtor>>

(* task->run(); delete task;                                               *)
WorkerRun(w) ==
  /\ worker[w] = "running"
  /\ done' = done \cup {task[w]}
  /\ task' = [task EXCEPT ![w] = NoTask]
  /\ worker' = [worker EXCEPT ![w] = "ran"]
  /\ UNCHANGED <<queueVars, countVars, m_is_shutdown, managerVars, dtor>>

WorkerIdle(w) ==
  /\ worker[w] = "ran"
  /\ m_busy_threads' = m_busy_threads - 1
  /\ worker' = [worker EXCEPT ![w] = "top"]
  /\ UNCHANGED <<queueVars, m_live_threads, m_exit_threads, m_is_shutdown,
                 task, done, managerVars, dtor>>

(* Mutant of ThreadExit: m_live_threads lowered again with the slot.       *)
ExitCountedTwice(w) ==
  /\ worker[w] = "exiting"
  /\ worker' = [worker EXCEPT ![w] = "none"]
  /\ m_live_threads' = m_live_threads - 1
  /\ UNCHANGED <<queueVars, m_busy_threads, m_exit_threads, m_is_shutdown,
                 task, done, managerVars, dtor>>

(* thread_exit_(): the slot is cleared after m_live_threads was lowered.   *)
ThreadExit(w) ==
  /\ worker[w] = "exiting"
  /\ worker' = [worker EXCEPT ![w] = "none"]
  /\ UNCHANGED <<queueVars, countVars, m_is_shutdown, task, done, managerVars, dtor>>

SpuriousWorker(w) ==
  /\ worker[w] = "waiting"
  /\ worker' = [worker EXCEPT ![w] = "woken"]
  /\ UNCHANGED <<queueVars, countVars, m_is_shutdown, task, done, managerVars, dtor>>

-----------------------------------------------------------------------------
(* manager(): queue size and thread counts are sampled under different     *)
(* locks, and acted on later.                                              *)
NextRound == /\ manager' = "top"
             /\ qsize' = 0 /\ live_num' = 0 /\ busy_num' = 0 /\ signals' = 0

ManagerTop ==
  /\ manager = "top"
  /\ manager' = IF m_is_shutdown THEN "exited" ELSE "sleeping"
  /\ UNCHANGED <<queueVars, countVars, m_is_shutdown, worker, task, done,
                 qsize, live_num, busy_num, signals, dtor>>

ManagerReadQueue ==
  /\ manager = "sleeping"
  /\ qsize' = Len(m_taskQ)
  /\ manager' = "sized"
  /\ UNCHANGED <<queueVars, countVars, m_is_shutdown, worker, task, done,
                 live_num, busy_num, signals, dtor>>

ManagerReadPool ==
  /\ manager = "sized"
  /\ live_num' = m_live_threads
  /\ busy_num' = m_busy_threads
  /\ manager' = "add"
  /\ UNCHANGED <<queueVars, countVars, m_is_shutdown, worker, task, done,
                 qsize, signals, dtor>>

(* Slots are interchangeable: the first free ones are any free ones.       *)
ManagerAdd ==
  /\ manager = "add"
  /\ manager' = "shrink"
  /\ \/ /\ qsize > live_num /\ live_num < m_max_threads
        /\ \E S \in SUBSET Free :
             /\ Cardinality(S) = Least(Cardinality(Free),
                                       Least(OpNum, m_max_threads - m_live_threads))
             /\ worker' = [w \in Workers |-> IF w \in S THEN "top" ELSE worker[w]]
             /\ m_live_threads' = m_live_threads + Cardinality(S)
     \/ /\ ~(qsize > live_num /\ live_num < m_max_threads)
        /\ UNCHANGED <<worker, m_live_threads>>
  /\ UNCHANGED <<queueVars, m_busy_threads, m_exit_threads, m_is_shutdown, task, done,
                 qsize, live_num, busy_num, signals, dtor>>

ShouldShrink == /\ busy_num * 2 < live_num \/ (qsize = 0 /\ busy_num = 0)
                /\ live_num > MinThreads

CanExit == Least(OpNum, live_num - MinThreads)

ManagerShrink ==
  /\ manager = "shrink"
  /\ \/ /\ ShouldShrink
        /\ m_exit_threads' = CanExit
        /\ \/ /\ CanExit > 0
              /\ manager' = "signal"
              /\ signals' = CanExit
              /\ UNCHANGED <<qsize, live_num, busy_num>>
           \/ CanExit <= 0 /\ NextRound
     \/ /\ ~ShouldShrink
        /\ NextRound
        /\ UNCHANGED m_exit_threads
  /\ UNCHANGED <<queueVars, m_live_threads, m_busy_threads, m_is_shutdown,
                 worker, task, done, dtor>>

(* One pthread_cond_signal(&m_empty) of the loop, made without a lock.     *)
ManagerSignal ==
  /\ manager = "signal"
  /\ SignalEmpty
  /\ \/ /\ signals > 1
        /\ signals' = signals - 1
        /\ UNCHANGED <<manager, qsize, live_num, busy_num>>
     \/ signals <= 1 /\ NextRound
  /\ UNCHANGED <<queueVars, countVars, m_is_shutdown, task, done, dtor>>

-----------------------------------------------------------------------------
(* ~ThreadPool().                                                          *)
DestroyFlag ==
  /\ dtor = "alive"
  /\ dtor' = "flagged"
  /\ m_is_shutdown' = TRUE
  /\ UNCHANGED <<queueVars, countVars, worker, task, done, managerVars>>

(* Mutant of DestroyBroadcast: one worker is woken instead of all.         *)
DestroySignal ==
  /\ dtor = "flagged"
  /\ dtor' = "broadcast"
  /\ SignalEmpty
  /\ UNCHANGED <<queueVars, countVars, m_is_shutdown, task, done, managerVars>>

(* Only m_empty is broadcast; m_full is not.                               *)
DestroyBroadcast ==
  /\ dtor = "flagged"
  /\ dtor' = "broadcast"
  /\ worker' = [w \in Workers |-> IF w \in Waiting THEN "woken" ELSE worker[w]]
  /\ UNCHANGED <<queueVars, countVars, m_is_shutdown, task, done, managerVars>>

DestroyJoin ==
  /\ dtor = "broadcast"
  /\ manager = "exited"
  /\ dtor' = "joined"
  /\ UNCHANGED <<queueVars, countVars, m_is_shutdown, worker, task, done, managerVars>>

(* The polling loop reads m_live_threads = 0.                              *)
DestroyPoll ==
  /\ dtor = "joined"
  /\ m_live_threads = 0
  /\ dtor' = "polled"
  /\ UNCHANGED <<queueVars, countVars, m_is_shutdown, worker, task, done, managerVars>>

(* The conditions and the mutexes are destroyed.  Destroying m_full while a *)
(* submit() sleeps on it is undefined (glibc waits for the sleeper, which  *)
(* nobody wakes): nothing is claimed of such a pool from here on.          *)
DestroyFinish ==
  /\ dtor = "polled"
  /\ dtor' = IF Blocked = {} THEN "destroyed" ELSE "undefined"
  /\ UNCHANGED <<queueVars, countVars, m_is_shutdown, worker, task, done, managerVars>>

-----------------------------------------------------------------------------
Submitter(t) == SubmitWait(t) \/ SubmitPush(t)

Work(w) == \/ WorkerWait(w) \/ WorkerRetire(w) \/ WorkerShutdown(w) \/ WorkerTake(w)
           \/ WorkerBusy(w) \/ WorkerRun(w) \/ WorkerIdle(w) \/ ThreadExit(w)

Manager == \/ ManagerTop \/ ManagerReadQueue \/ ManagerReadPool
           \/ ManagerAdd \/ ManagerShrink \/ ManagerSignal

Destructor == DestroyBroadcast \/ DestroyJoin \/ DestroyPoll \/ DestroyFinish

Next ==
  \/ \E t \in Tasks : SubmitEnter(t) \/ Submitter(t) \/ SpuriousSubmit(t)
  \/ \E w \in Workers : Work(w) \/ SpuriousWorker(w)
  \/ Manager
  \/ DestroyFlag
  \/ Destructor

Spec == Init /\ [][Next]_vars

(* Every thread the pool owns keeps being scheduled, a call that entered   *)
(* submit() too, and task->run() returns.  Whether a task is submitted, a  *)
(* destructor called or a wait left spuriously is up to the environment.   *)
Fairness == /\ \A t \in Tasks : WF_vars(Submitter(t))
            /\ \A w \in Workers : WF_vars(Work(w))
            /\ WF_vars(Manager)
            /\ WF_vars(Destructor)

FairSpec == Spec /\ Fairness

-----------------------------------------------------------------------------
(* The type invariant.                                                     *)
TypeOK ==
  /\ m_taskQ \in Seq(Tasks)
  /\ m_live_threads \in Int /\ m_busy_threads \in Int /\ m_exit_threads \in Nat
  /\ m_is_shutdown \in BOOLEAN
  /\ call \in [Tasks -> CallState]
  /\ worker \in [Workers -> WorkerState]
  /\ task \in [Workers -> Tasks \cup {NoTask}]
  /\ done \subseteq Tasks
  /\ manager \in ManagerState
  /\ qsize \in Nat /\ live_num \in Int /\ busy_num \in Int /\ signals \in Nat
  /\ dtor \in DtorState

(* The counters the manager and the destructor decide on are exact at every *)
(* step: m_live_threads counts the threads that have not begun to exit (the *)
(* destructor waits for it to reach 0), m_busy_threads those between the    *)
(* increment before task->run() and the decrement after it.                 *)
CountersExact == /\ m_live_threads = Cardinality(Live)
                 /\ m_busy_threads = Cardinality(Busy)

Queued(t) == \E i \in DOMAIN m_taskQ : m_taskQ[i] = t
Held      == {task[w] : w \in Workers} \ {NoTask}
HoldsTask == \A w \in Workers : worker[w] \in {"taken", "running"} <=> task[w] # NoTask

OneInQueue       == \A i, j \in DOMAIN m_taskQ : m_taskQ[i] = m_taskQ[j] => i = j
OneHolder        == \A v, w \in Workers : task[v] = task[w] /\ task[v] # NoTask => v = w
NotQueuedAndHeld == \A t \in Tasks : ~(Queued(t) /\ t \in Held)
DoneIsLast       == \A t \in done : ~Queued(t) /\ t \notin Held
Accounted        == \A t \in Tasks : call[t] = "submitted" <=>
                                     Queued(t) \/ t \in Held \/ t \in done

(* A task that submit() accepted is in exactly one place: once in the queue, *)
(* with one worker, or done; no interleaving of submitters, workers, growth, *)
(* shrinking and shutdown loses one or hands it to two workers.              *)
TaskOwnership == /\ OneInQueue
                 /\ OneHolder
                 /\ HoldsTask
                 /\ NotQueuedAndHeld
                 /\ DoneIsLast
                 /\ Accounted

(* While a worker sleeps on m_empty there is, for each queued task, a worker *)
(* already woken to take it: no signal of submit() is lost.  True of a pool  *)
(* whose size is fixed; WorkerRetire breaks it in an elastic one.            *)
NoLostWakeup ==
  Waiting # {} /\ ~m_is_shutdown => Len(m_taskQ) <= Cardinality(Woken)

(* The pool keeps what TaskPool asks for: each task is started at most once, *)
(* from the head of the queue, the queue grows past m_capacity and a task is *)
(* refused only once the pool is shutting down.  It says nothing of the      *)
(* tasks that shutdown finds in the queue, which the pool does not run       *)
(* though thread-pool/README.md:50 and :118 say that it does.                *)
Promise == INSTANCE TaskPool WITH queue <- m_taskQ, running <- Held, finished <- done,
                                  refused <- {t \in Tasks : call[t] = "refused"},
                                  open <- ~m_is_shutdown
ImplementsTaskPool == Promise!AbsSpec

(* Every accepted task is run, unless the pool is shut down first.           *)
SubmittedTaskRuns ==
  \A t \in Tasks : (call[t] = "submitted") ~> (t \in done \/ m_is_shutdown)

(* A submit() blocked on the full queue gets its task in, unless the pool is *)
(* shut down first: m_full is signalled once for each slot that frees up.    *)
BlockedSubmitProceeds ==
  \A t \in Tasks : (call[t] = "waiting") ~> (call[t] = "submitted" \/ m_is_shutdown)

(* The destructor gets to the end of its polling: every worker sees          *)
(* m_is_shutdown, none is left asleep on m_empty, and m_live_threads reaches *)
(* 0.  It returns if no submit() slept on the full queue when the flag was   *)
(* raised: m_full is not broadcast, so that one that did may be there when   *)
(* the condition is destroyed.                                               *)
DestructorReturns ==
  /\ (dtor = "flagged") ~> (dtor = "polled")
  /\ (dtor = "flagged" /\ Blocked = {}) ~> (dtor = "destroyed")

=============================================================================
