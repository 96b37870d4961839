------------------------------ MODULE TaskPool ------------------------------
(***************************************************************************)
(* What a thread pool owes the callers of submit(), with no threads,       *)
(* locks or condition variables in sight:                                  *)
(*   - a task is started at most once, by taking it from the head of one   *)
(*     FIFO queue, and leaves the pool only by finishing;                  *)
(*   - while the pool is open the queue never holds more than Capacity     *)
(*     tasks, and no task is refused;                                      *)
(*   - a pool that has closed may refuse a task.                           *)
(* A queued task may be started before and after the pool has closed.  No  *)
(* step removes it in another way, and no fairness asks that it is started *)
(* at all: whether closing drops the queue, as both pools do, or drains    *)
(* it, as thread-pool/README.md:50 and :118 promise, is left open here.    *)
(* ThreadPool and StlThreadPool implement this specification.              *)
(***************************************************************************)
EXTENDS Naturals, Sequences

CONSTANTS Tasks,      \* the tasks the callers own
          Capacity    \* the bound on the queue

VARIABLES queue,      \* accepted tasks, oldest first
          running,    \* started and not finished
          finished,   \* run to completion and deleted
          refused,    \* deleted without being queued
          open        \* FALSE once the pool has begun to close

absVars == <<queue, running, finished, refused, open>>

Known == running \cup finished \cup refused \cup {queue[i] : i \in DOMAIN queue}

AbsInit == /\ queue = <<>>
           /\ running = {}
           /\ finished = {}
           /\ refused = {}
           /\ open = TRUE

Accept(t) == /\ t \notin Known
             /\ open => Len(queue) < Capacity
             /\ queue' = Append(queue, t)
             /\ UNCHANGED <<running, finished, refused, open>>

Refuse(t) == /\ t \notin Known
             /\ ~open
             /\ refused' = refused \cup {t}
             /\ UNCHANGED <<queue, running, finished, open>>

StartHead == /\ queue # <<>>
             /\ running' = running \cup {Head(queue)}
             /\ queue' = Tail(queue)
             /\ UNCHANGED <<finished, refused, open>>

Finish(t) == /\ t \in running
             /\ running' = running \ {t}
             /\ finished' = finished \cup {t}
             /\ UNCHANGED <<queue, refused, open>>

Close == /\ open
         /\ open' = FALSE
         /\ UNCHANGED <<queue, running, finished, refused>>

AbsNext == \/ \E t \in Tasks : Accept(t) \/ Refuse(t) \/ Finish(t)
           \/ StartHead
           \/ Close

AbsSpec == AbsInit /\ [][AbsNext]_absVars
=============================================================================
