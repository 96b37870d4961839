--------------------------- MODULE StlThreadPool ---------------------------
(***************************************************************************)
(* The STL thread pool: thread-pool/stl-implementation.                    *)
(*                                                                         *)
(* Its submitters, workers and manager take the decisions of the pthread   *)
(* pool, whose actions this module reuses.  What differs is the end:       *)
(*   - the destructor notifies m_empty outside the mutex, after passing    *)
(*     through it once; the gap between a worker's test of its loop        *)
(*     condition and its wait, which that passage is meant for, is         *)
(*     modelled here (variable deciding);                                  *)
(*   - a slot is a std::thread: constructing one may throw, and destroying *)
(*     one that is still joinable ends the process;                        *)
(*   - the conditions are destroyed with the other members, which is       *)
(*     undefined while a submit() sleeps on m_full.                        *)
(***************************************************************************)
EXTENDS ThreadPool

VARIABLES deciding,   \* the worker holding m_queue_mutex that is about to wait
          teardown    \* "none", "passed" (the mutex), "destroyed" (the members) or
                      \* "undefined"; std::terminate has ended the process because a
                      \* thread was not made ("aborted") or still joinable ("terminated")

stlVars == <<vars, deciding, teardown>>

Unlocked == deciding = {}
Runs     == teardown \in {"none", "passed"}
Own      == UNCHANGED <<deciding, teardown>>

StlInit == Init /\ deciding = {} /\ teardown = "none"

-----------------------------------------------------------------------------
(* Mutant of Submit: the room is not tested again after a wait.            *)
SubmitIf(t) == /\ Runs /\ Own
               /\ \/ SubmitEnter(t)
                  \/ Unlocked /\ (SubmitWait(t) \/ PushWithoutRecheck(t))

(* submit(): the null pointer is refused without a trace; the shutdown test *)
(* is made before the lock is taken.                                        *)
Submit(t) == /\ Runs
             /\ \/ SubmitEnter(t)
                \/ Unlocked /\ Submitter(t)
             /\ Own

-----------------------------------------------------------------------------
(* work()                                                                  *)

(* A worker that finds the queue empty holds the mutex until it waits.     *)
WorkerDecide(w) ==
  /\ Runs /\ Unlocked
  /\ AtLoop(w)
  /\ m_taskQ = <<>> /\ ~m_is_shutdown
  /\ deciding' = {w}
  /\ UNCHANGED <<vars, teardown>>

(* m_empty.wait(lock), whatever has become of m_is_shutdown.               *)
WorkerSleep(w) ==
  /\ Runs /\ w \in deciding
  /\ worker' = [worker EXCEPT ![w] = "waiting"]
  /\ deciding' = {}
  /\ UNCHANGED <<queueVars, countVars, m_is_shutdown, task, done, managerVars, dtor,
                 teardown>>

(* The loop after a wait: leave if asked to, or shut down, or take a task; *)
(* run it between the two counts of m_busy_threads.                        *)
StlWork(w) ==
  /\ Runs /\ Own
  /\ \/ Unlocked /\ (WorkerRetire(w) \/ WorkerShutdown(w) \/ WorkerTake(w))
     \/ WorkerBusy(w) \/ WorkerRun(w) \/ WorkerIdle(w)

(* thread_exit_(): the worker detaches its own std::thread and empties the *)
(* slot, if its pool is still there.                                       *)
StlThreadExit(w) == Runs /\ ThreadExit(w) /\ Own

-----------------------------------------------------------------------------
(* manager()                                                               *)

ManagerDecides ==
  /\ Runs /\ Own
  /\ \/ ManagerTop \/ ManagerReadPool \/ ManagerShrink \/ ManagerSignal
     \/ Unlocked /\ ManagerReadQueue

(* A slot is free when its std::thread is not joinable.                    *)
ManagerGrows == Runs /\ ManagerAdd /\ Own

(* std::thread's constructor throws, and nothing in manager() catches.     *)
SpawnThrows ==
  /\ Runs
  /\ manager = "add" /\ qsize > live_num /\ live_num < m_max_threads
  /\ Free # {} /\ m_live_threads < m_max_threads /\ OpNum > 0
  /\ teardown' = "aborted"
  /\ UNCHANGED <<vars, deciding>>

-----------------------------------------------------------------------------
(* ~ThreadPool()                                                           *)

RaiseFlag == Runs /\ DestroyFlag /\ Own

(* Mutant of PassMutex: the notification does not wait for the mutex.      *)
PassUnlocked ==
  /\ Runs
  /\ dtor = "flagged" /\ teardown = "none"
  /\ teardown' = "passed"
  /\ UNCHANGED <<vars, deciding>>

(* The mutex is taken and given back: whoever tested the flag before now   *)
(* waits.                                                                  *)
PassMutex ==
  /\ Runs /\ Unlocked
  /\ dtor = "flagged" /\ teardown = "none"
  /\ teardown' = "passed"
  /\ UNCHANGED <<vars, deciding>>

(* m_empty.notify_all(), m_manager_thread.join(), and the polling of       *)
(* m_live_threads, each a step.                                            *)
NotifyAll == Runs /\ teardown = "passed" /\ DestroyBroadcast /\ Own
JoinAndPoll == Runs /\ (DestroyJoin \/ DestroyPoll) /\ Own

(* The members are destroyed, the threads before the conditions.  A slot   *)
(* whose worker has lowered m_live_threads and not yet detached is         *)
(* joinable; a condition with a sleeper cannot be destroyed.               *)
DestroyMembers ==
  /\ Runs /\ dtor = "polled"
  /\ teardown' = CASE Free # Workers                   -> "terminated"
                   [] Free = Workers /\ Blocked # {} -> "undefined"
                   [] Free = Workers /\ Blocked = {} -> "destroyed"
  /\ UNCHANGED <<vars, deciding>>

-----------------------------------------------------------------------------
StlWorker(w) == WorkerDecide(w) \/ WorkerSleep(w) \/ StlWork(w) \/ StlThreadExit(w)
StlManager == ManagerDecides \/ ManagerGrows
StlDestructor == PassMutex \/ NotifyAll \/ JoinAndPoll \/ DestroyMembers
Spurious == /\ Runs /\ Own
            /\ \/ \E w \in Workers : SpuriousWorker(w)
               \/ \E t \in Tasks : SpuriousSubmit(t)

StlNext ==
  \/ \E t \in Tasks : Submit(t)
  \/ \E w \in Workers : StlWorker(w)
  \/ StlManager \/ SpawnThrows
  \/ RaiseFlag \/ StlDestructor
  \/ Spurious

StlSpec == StlInit /\ [][StlNext]_stlVars

(* Every thread of the pool keeps being scheduled; no mutex has to be fair. *)
StlFairness == /\ \A w \in Workers : WF_stlVars(StlWorker(w))
               /\ WF_stlVars(StlManager)
               /\ WF_stlVars(StlDestructor)

StlFairSpec == StlSpec /\ StlFairness

-----------------------------------------------------------------------------
(* Whatever worker is about to wait while the destructor begins, its       *)
(* polling comes to an end, as stl-implementation/README.md:38 says: nobody *)
(* sleeps through notify_all().  Only a manager that cannot make a thread  *)
(* ends the process before.  The members are then destroyed if no submit() *)
(* sleeps on m_full and each worker has detached its thread, which the     *)
(* polled m_live_threads does not wait for.                                *)
StlDestructorReturns ==
  /\ (dtor = "flagged") ~> (dtor = "polled" \/ teardown = "aborted")
  /\ (dtor = "polled" /\ Blocked = {} /\ Free = Workers) ~> (teardown = "destroyed")

(* The STL pool keeps what TaskPool asks for, as the pthread pool does.    *)
StlImplementsTaskPool == Promise!AbsSpec
=============================================================================
