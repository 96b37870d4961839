----------------------------- MODULE DbConnPool -----------------------------
(***************************************************************************)
(* The database connection pool: ConnectionPool, PooledConnGuard and, as   *)
(* far as the pool looks at it, MySQLConnection.                           *)
(*                                                                         *)
(* Threads: the clients, each with one PooledConnGuard variable that it    *)
(* assigns get_connection() to; the recycle thread; and the application    *)
(* thread that calls init() and shutdown().  A section that runs under     *)
(* m_mutex is one action, except the two loops (expand_connections() and   *)
(* recycle_idle_connections()), which keep m_mutex from step to step.      *)
(* A connection is named by its address; a deleted one may be reused.      *)
(***************************************************************************)
EXTENDS Integers, Sequences, FiniteSets

CONSTANTS Clients,    \* the client threads
          Conns,      \* the addresses of connections: bounds how many are open at a time
          MinSize,    \* m_min_size
          MaxSize,    \* m_max_size
          OpNum,      \* m_op_num
          Recycler,   \* the recycle thread, as the owner of m_mutex
          NoConn,     \* the null connection
          NoOwner     \* m_mutex is free

ASSUME DbPoolAssumption ==
  /\ IsFiniteSet(Conns)
  /\ MinSize \in Nat /\ MaxSize \in Nat /\ OpNum \in Nat
  /\ MinSize <= MaxSize
  /\ NoConn \notin Conns
  /\ Recycler \notin Clients /\ NoOwner \notin Clients \cup {Recycler}

VARIABLES m_conn_queue,       \* entries [conn, idle]; idle: unused for m_max_idle_time or more
          m_current_size, m_initialized, m_recycle_running,
          m_mutex,            \* who holds it across steps
          link,               \* each address: "none", "open", or "closed" by the client
          pc, guard,          \* where each client is; the connection its guard holds
          to_create,          \* the local of the client that expands
          recycler, left, quota,  \* the recycle thread; its queue_size - i, can_recycle - recycled
          app                 \* where the application is

poolVars  == <<m_conn_queue, m_current_size, link>>
clientVars == <<pc, guard, to_create>>
recycleVars == <<recycler, left, quota>>
vars == <<m_conn_queue, m_current_size, m_initialized, m_recycle_running, m_mutex, link,
          pc, guard, to_create, recycler, left, quota, app>>

Entry    == [conn : Conns, idle : BOOLEAN]
PcState  == {"out", "entered", "expanding", "waiting", "notified", "timedout", "spurious"}

ConnsIn(q) == {q[i].conn : i \in DOMAIN q}
Alive    == {x \in Conns : link[x] # "none"}
Unborn   == Conns \ Alive
InQueue  == ConnsIn(m_conn_queue)
Waiting  == {c \in Clients : pc[c] = "waiting"}
Unlocked == m_mutex = NoOwner
Defined  == recycler # "undefined"

Least(a, b) == IF a < b THEN a ELSE b

-----------------------------------------------------------------------------
Init ==
  /\ m_conn_queue = <<>> /\ m_current_size = 0
  /\ m_initialized = FALSE /\ m_recycle_running = FALSE
  /\ m_mutex = NoOwner
  /\ link = [x \in Conns |-> "none"]
  /\ pc = [c \in Clients |-> "out"]
  /\ guard = [c \in Clients |-> NoConn]
  /\ to_create = 0
  /\ recycler = "off" /\ left = 0 /\ quota = 0
  /\ app = "down"

-----------------------------------------------------------------------------
(* A connection that is made goes to the end of the queue.                 *)
Create(x) == /\ m_conn_queue' = Append(m_conn_queue, [conn |-> x, idle |-> FALSE])
             /\ link' = [link EXCEPT ![x] = "open"]
             /\ m_current_size' = m_current_size + 1

(* get_connection() returns a guard and the client's guard is move-assigned *)
(* from it: what that guard held is not given back first.                   *)
Deliver(c, x) == /\ guard' = [guard EXCEPT ![c] = x]
                 /\ pc' = [pc EXCEPT ![c] = "out"]

TakeFront(c) == /\ Deliver(c, Head(m_conn_queue).conn)
                /\ m_conn_queue' = Tail(m_conn_queue)
                /\ UNCHANGED <<m_current_size, link>>

NotifyOne == \/ Waiting = {} /\ UNCHANGED pc
             \/ \E c \in Waiting : pc' = [pc EXCEPT ![c] = "notified"]

-----------------------------------------------------------------------------
(* get_connection().  m_initialized is read before m_mutex is taken.       *)
GetEnter(c) ==
  /\ pc[c] = "out"
  /\ \/ m_initialized /\ pc' = [pc EXCEPT ![c] = "entered"] /\ UNCHANGED guard
     \/ ~m_initialized /\ Deliver(c, NoConn)
  /\ UNCHANGED <<poolVars, m_initialized, m_recycle_running, m_mutex, to_create,
                 recycleVars, app>>

CanCreate == Least(MaxSize - m_current_size, OpNum)

GetExpand(c) ==
  /\ pc[c] = "entered" /\ Unlocked
  /\ m_conn_queue = <<>> /\ CanCreate > 0
  /\ m_mutex' = c
  /\ to_create' = CanCreate
  /\ pc' = [pc EXCEPT ![c] = "expanding"]
  /\ UNCHANGED <<poolVars, m_initialized, m_recycle_running, guard, recycleVars, app>>

ExpandOne(c) ==
  /\ pc[c] = "expanding" /\ to_create > 0
  /\ \E x \in Unborn : Create(x)
  /\ to_create' = to_create - 1
  /\ UNCHANGED <<m_initialized, m_recycle_running, m_mutex, pc, guard, recycleVars, app>>

(* The driver throws: the exception leaves get_connection(), which unlocks. *)
ExpandThrow(c) ==
  /\ pc[c] = "expanding" /\ to_create > 0
  /\ pc' = [pc EXCEPT ![c] = "out"]
  /\ m_mutex' = NoOwner
  /\ to_create' = 0
  /\ UNCHANGED <<poolVars, m_initialized, m_recycle_running, guard, recycleVars, app>>

ExpandTake(c) ==
  /\ pc[c] = "expanding" /\ to_create = 0
  /\ TakeFront(c)
  /\ m_mutex' = NoOwner
  /\ UNCHANGED <<m_initialized, m_recycle_running, to_create, recycleVars, app>>

GetTake(c) ==
  /\ pc[c] = "entered" /\ Unlocked
  /\ m_conn_queue # <<>>
  /\ TakeFront(c)
  /\ UNCHANGED <<m_initialized, m_recycle_running, m_mutex, to_create, recycleVars, app>>

GetWait(c) ==
  /\ pc[c] = "entered" /\ Unlocked
  /\ m_conn_queue = <<>> /\ CanCreate <= 0
  /\ pc' = [pc EXCEPT ![c] = "waiting"]
  /\ UNCHANGED <<poolVars, m_initialized, m_recycle_running, m_mutex, guard, to_create,
                 recycleVars, app>>

(* A wait also ends by its timeout, or spuriously, as C++ allows.          *)
WaitEnds(c) ==
  /\ pc[c] = "waiting"
  /\ \E how \in {"timedout", "spurious"} : pc' = [pc EXCEPT ![c] = how]
  /\ UNCHANGED <<poolVars, m_initialized, m_recycle_running, m_mutex, guard, to_create,
                 recycleVars, app>>

(* wait_for() is made once, not in a loop.                                 *)
Awake(c) == pc[c] \in {"notified", "timedout", "spurious"}

WakeTake(c) ==
  /\ Awake(c) /\ Unlocked
  /\ m_conn_queue # <<>>
  /\ TakeFront(c)
  /\ UNCHANGED <<m_initialized, m_recycle_running, m_mutex, to_create, recycleVars, app>>

(* Mutant of WakeEmpty: the wait is repeated, without a deadline.          *)
WaitAgain(c) ==
  /\ Awake(c) /\ Unlocked
  /\ m_conn_queue = <<>>
  /\ pc' = [pc EXCEPT ![c] = "waiting"]
  /\ UNCHANGED <<poolVars, m_initialized, m_recycle_running, m_mutex, guard, to_create,
                 recycleVars, app>>

WakeEmpty(c) ==
  /\ Awake(c) /\ Unlocked
  /\ m_conn_queue = <<>>
  /\ Deliver(c, NoConn)
  /\ UNCHANGED <<poolVars, m_initialized, m_recycle_running, m_mutex, to_create,
                 recycleVars, app>>

-----------------------------------------------------------------------------
(* return_connection(), from release() or the guard's destructor.          *)
Returning(c) == pc[c] = "out" /\ guard[c] # NoConn /\ Unlocked

(* Mutants of ReturnValid: the connection goes to the front; the guard does *)
(* not remember that it was released.                                       *)
ReturnToFront(c) ==
  /\ Returning(c) /\ link[guard[c]] = "open"
  /\ m_conn_queue' = <<[conn |-> guard[c], idle |-> FALSE]>> \o m_conn_queue
  /\ guard' = [guard EXCEPT ![c] = NoConn]
  /\ NotifyOne
  /\ UNCHANGED <<m_current_size, link, m_initialized, m_recycle_running, m_mutex, to_create,
                 recycleVars, app>>

ReturnUnmarked(c) ==
  /\ Returning(c) /\ link[guard[c]] = "open"
  /\ m_conn_queue' = Append(m_conn_queue, [conn |-> guard[c], idle |-> FALSE])
  /\ NotifyOne
  /\ UNCHANGED <<m_current_size, link, m_initialized, m_recycle_running, m_mutex, guard,
                 to_create, recycleVars, app>>

ReturnValid(c) ==
  /\ Returning(c) /\ link[guard[c]] = "open"
  /\ m_conn_queue' = Append(m_conn_queue, [conn |-> guard[c], idle |-> FALSE])
  /\ guard' = [guard EXCEPT ![c] = NoConn]
  /\ NotifyOne
  /\ UNCHANGED <<m_current_size, link, m_initialized, m_recycle_running, m_mutex, to_create,
                 recycleVars, app>>

(* Mutant of ReturnInvalid: the deleted connection stays counted.          *)
ReturnInvalidCounted(c) ==
  /\ Returning(c) /\ link[guard[c]] = "closed"
  /\ link' = [link EXCEPT ![guard[c]] = "none"]
  /\ guard' = [guard EXCEPT ![c] = NoConn]
  /\ UNCHANGED <<m_conn_queue, m_current_size, m_initialized, m_recycle_running, m_mutex, pc,
                 to_create, recycleVars, app>>

(* A connection that is not valid is deleted, and nobody is notified.      *)
ReturnInvalid(c) ==
  /\ Returning(c) /\ link[guard[c]] = "closed"
  /\ m_current_size' = m_current_size - 1
  /\ link' = [link EXCEPT ![guard[c]] = "none"]
  /\ guard' = [guard EXCEPT ![c] = NoConn]
  /\ UNCHANGED <<m_conn_queue, m_initialized, m_recycle_running, m_mutex, pc, to_create,
                 recycleVars, app>>

(* The client calls close() on the connection that it borrowed.            *)
ClientClose(c) ==
  /\ pc[c] = "out" /\ guard[c] # NoConn
  /\ link' = [link EXCEPT ![guard[c]] = "closed"]
  /\ UNCHANGED <<m_conn_queue, m_current_size, m_initialized, m_recycle_running, m_mutex,
                 clientVars, recycleVars, app>>

-----------------------------------------------------------------------------
(* The recycle thread.  Connections age while they sit in the queue; the   *)
(* scan measures every age against one reading of the clock.               *)
Age ==
  /\ m_mutex # Recycler
  /\ \E n \in 1..Len(m_conn_queue) :
       m_conn_queue' = [i \in DOMAIN m_conn_queue |->
                          IF i <= n THEN [m_conn_queue[i] EXCEPT !.idle = TRUE]
                                    ELSE m_conn_queue[i]]
  /\ UNCHANGED <<m_current_size, link, m_initialized, m_recycle_running, m_mutex,
                 clientVars, recycleVars, app>>

(* The end of the sleep: m_recycle_running is read, once more at the top   *)
(* of the loop if it was FALSE.                                            *)
RecycleWake ==
  /\ recycler = "sleeping"
  /\ recycler' = IF m_recycle_running THEN "due" ELSE "off"
  /\ UNCHANGED <<poolVars, m_initialized, m_recycle_running, m_mutex, clientVars,
                 left, quota, app>>

StartFromSize ==
  /\ recycler = "due" /\ Unlocked
  /\ m_current_size > MinSize
  /\ m_mutex' = Recycler
  /\ recycler' = "scanning"
  /\ left' = Len(m_conn_queue)
  /\ quota' = m_current_size - MinSize
  /\ UNCHANGED <<poolVars, m_initialized, m_recycle_running, clientVars, app>>

RecycleStart ==
  /\ recycler = "due" /\ Unlocked
  /\ \/ /\ Len(m_conn_queue) > MinSize
        /\ m_mutex' = Recycler
        /\ recycler' = "scanning"
        /\ left' = Len(m_conn_queue)
        /\ quota' = Len(m_conn_queue) - MinSize
     \/ /\ Len(m_conn_queue) <= MinSize
        /\ recycler' = "sleeping"
        /\ UNCHANGED <<m_mutex, left, quota>>
  /\ UNCHANGED <<poolVars, m_initialized, m_recycle_running, clientVars, app>>

Scanning == recycler = "scanning" /\ left > 0 /\ quota > 0

(* The front has been idle for too long: it is popped and destroyed.       *)
RecycleDrop ==
  /\ Scanning /\ Head(m_conn_queue).idle
  /\ m_conn_queue' = Tail(m_conn_queue)
  /\ link' = [link EXCEPT ![Head(m_conn_queue).conn] = "none"]
  /\ m_current_size' = m_current_size - 1
  /\ quota' = quota - 1
  /\ left' = left - 1
  /\ UNCHANGED <<m_initialized, m_recycle_running, m_mutex, clientVars, recycler, app>>

(* Any other front goes to the back, with the age it has.                  *)
RecycleRotate ==
  /\ Scanning /\ ~Head(m_conn_queue).idle
  /\ m_conn_queue' = Append(Tail(m_conn_queue), Head(m_conn_queue))
  /\ left' = left - 1
  /\ UNCHANGED <<m_current_size, link, m_initialized, m_recycle_running, m_mutex,
                 clientVars, recycler, quota, app>>

(* ... but push() reads the entry after pop() has ended its life.  Its      *)
(* memory is given up when it was the last of its block of the deque, which *)
(* the model does not track, and may then hold anything: what the program   *)
(* does is undefined from here on, and nothing is claimed of it.  m_mutex   *)
(* stays taken, so that nothing follows on the queue.                       *)
RecycleStale ==
  /\ Scanning /\ ~Head(m_conn_queue).idle
  /\ recycler' = "undefined"
  /\ UNCHANGED <<poolVars, m_initialized, m_recycle_running, m_mutex, clientVars,
                 left, quota, app>>

RecycleEnd ==
  /\ recycler = "scanning" /\ (left = 0 \/ quota = 0)
  /\ recycler' = "sleeping"
  /\ m_mutex' = NoOwner
  /\ left' = 0 /\ quota' = 0
  /\ UNCHANGED <<poolVars, m_initialized, m_recycle_running, clientVars, app>>

-----------------------------------------------------------------------------
(* The application.  init() fills the queue without m_mutex; it is called  *)
(* while no client is inside the pool (the container is not protected), so *)
(* it is one step.  It may throw after k connections, with m_initialized   *)
(* set and no recycle thread started.                                      *)
NobodyInside == Unlocked /\ \A c \in Clients : pc[c] = "out"

Source(k) ==
  \E s \in [1..k -> Unborn] :
    /\ \A i, j \in 1..k : s[i] = s[j] => i = j
    /\ m_conn_queue' = m_conn_queue \o [i \in 1..k |-> [conn |-> s[i], idle |-> FALSE]]
    /\ link' = [x \in Conns |-> IF \E i \in 1..k : s[i] = x THEN "open" ELSE link[x]]
    /\ m_current_size' = m_current_size + k

InitPool ==
  /\ app \in {"down", "failed"} /\ NobodyInside
  /\ m_initialized' = TRUE
  /\ \/ /\ Source(MinSize)
        /\ m_recycle_running' = TRUE
        /\ recycler' = "sleeping"
        /\ app' = "up"
     \/ /\ \E k \in 0..(MinSize - 1) : Source(k)
        /\ app' = "failed"
        /\ UNCHANGED <<m_recycle_running, recycler>>
  /\ UNCHANGED <<m_mutex, clientVars, left, quota>>

(* shutdown(): the recycle thread is told to stop and joined ...           *)
StopRecycle ==
  /\ app \in {"up", "failed"}
  /\ m_recycle_running' = FALSE
  /\ app' = "stopping"
  /\ UNCHANGED <<poolVars, m_initialized, m_mutex, clientVars, recycleVars>>

(* Mutant of Shutdown: borrowed connections are deleted as well.           *)
ShutdownAll ==
  /\ app = "stopping" /\ recycler = "off" /\ Unlocked
  /\ m_conn_queue' = <<>>
  /\ link' = [x \in Conns |-> "none"]
  /\ m_current_size' = 0
  /\ m_initialized' = FALSE
  /\ app' = "down"
  /\ UNCHANGED <<m_recycle_running, m_mutex, clientVars, recycleVars>>

(* ... then every connection in the queue is deleted.                      *)
Shutdown ==
  /\ app = "stopping" /\ recycler = "off" /\ Unlocked
  /\ m_conn_queue' = <<>>
  /\ link' = [x \in Conns |-> IF x \in InQueue THEN "none" ELSE link[x]]
  /\ m_current_size' = 0
  /\ m_initialized' = FALSE
  /\ app' = "down"
  /\ UNCHANGED <<m_recycle_running, m_mutex, clientVars, recycleVars>>

-----------------------------------------------------------------------------
Get(c) == \/ GetExpand(c) \/ ExpandOne(c) \/ ExpandThrow(c) \/ ExpandTake(c)
          \/ GetTake(c) \/ GetWait(c) \/ WakeTake(c) \/ WakeEmpty(c)

Return(c) == ReturnValid(c) \/ ReturnInvalid(c)

Recycle == \/ RecycleWake \/ RecycleStart \/ RecycleDrop
           \/ RecycleRotate \/ RecycleStale \/ RecycleEnd

(* A pool in service: init() is called once and shutdown() never.          *)
Serve == \/ \E c \in Clients : GetEnter(c) \/ Get(c) \/ WaitEnds(c)
                                   \/ Return(c) \/ ClientClose(c)
         \/ Age \/ Recycle
         \/ app = "down" /\ InitPool

(* ... or the application shuts it down, and calls init() again.           *)
Next == Serve \/ InitPool \/ StopRecycle \/ Shutdown

ServeSpec == Init /\ [][Serve]_vars
Spec      == Init /\ [][Next]_vars

(* A client inside get_connection() gets m_mutex at some time if it is     *)
(* released again and again, its wait ends by the timeout, and the recycle *)
(* thread leaves m_mutex.                                                  *)
Fairness == /\ \A c \in Clients : SF_vars(Get(c)) /\ WF_vars(WaitEnds(c))
            /\ WF_vars(Recycle)

FairServeSpec == ServeSpec /\ Fairness

-----------------------------------------------------------------------------
(* The type invariant.                                                     *)
TypeOK ==
  /\ m_conn_queue \in Seq(Entry)
  /\ m_current_size \in Int
  /\ m_initialized \in BOOLEAN /\ m_recycle_running \in BOOLEAN
  /\ m_mutex \in Clients \cup {Recycler, NoOwner}
  /\ link \in [Conns -> {"none", "open", "closed"}]
  /\ pc \in [Clients -> PcState]
  /\ guard \in [Clients -> Conns \cup {NoConn}]
  /\ to_create \in Nat /\ left \in Nat /\ quota \in Nat
  /\ recycler \in {"off", "sleeping", "due", "scanning", "undefined"}
  /\ app \in {"down", "up", "failed", "stopping"}

(* While a loop holds m_mutex over several steps nobody else is in a locked *)
(* section, and what the loop computed when it began still describes the    *)
(* queue: the recycler will not run past the entries it counted.            *)
LockedLoops ==
  /\ \A c \in Clients : pc[c] = "expanding" <=> m_mutex = c
  /\ recycler \in {"scanning", "undefined"} <=> m_mutex = Recycler
  /\ recycler = "scanning" => left <= Len(m_conn_queue)

NoRepeat(q) == \A i, j \in DOMAIN q : q[i].conn = q[j].conn => i = j

OneEntry  == NoRepeat(m_conn_queue)
OneGuard  == \A c, d \in Clients : guard[c] = guard[d] /\ guard[c] # NoConn => c = d
NotShared == \A c \in Clients : guard[c] \notin InQueue
NotDead   == /\ \A x \in InQueue : link[x] = "open"
             /\ \A c \in Clients : guard[c] # NoConn => guard[c] \in Alive

(* A connection is in the queue once, or in one guard, never in both, and   *)
(* it is not deleted while it is in either: no interleaving of borrowers,   *)
(* the recycle thread, shutdown() and init() hands one connection to two    *)
(* threads or deletes one in use.                                           *)
SoleOwner == OneEntry /\ OneGuard /\ NotShared /\ NotDead

(* The pool keeps what LendingPool promises its borrowers.                  *)
Lending == INSTANCE LendingPool WITH
             idle <- InQueue, lent <- guard,
             lost <- Alive \ (InQueue \cup {guard[c] : c \in Clients})
ImplementsLendingPool == Lending!LendingSpec

(* In service m_current_size is the number of open connections, wherever    *)
(* they are, and with those that expand_connections() is about to make it   *)
(* stays within m_max_size.                                                 *)
SizeExact == /\ m_current_size = Cardinality(Alive)
             /\ m_current_size + to_create <= MaxSize

(* The front of the queue is the longest unused: however returns, new       *)
(* connections and the scan's rotations mix, at every step of the scan too, *)
(* no entry that has been idle too long stands behind one that has not,     *)
(* and so none is missed by a scan that stops at its quota, unless one has  *)
(* pushed an entry whose memory was used again.                             *)
OldestFirst == Defined =>
  \A i, j \in DOMAIN m_conn_queue : i < j /\ m_conn_queue[j].idle => m_conn_queue[i].idle

(* The recycle thread never takes the queue below m_min_size, however many  *)
(* connections have been idle for too long.                                 *)
RecycleSparesMin == recycler = "scanning" => Len(m_conn_queue) >= MinSize + quota

(* A client that called get_connection() comes out of it, with or without a *)
(* connection (README: no thread waits without end), as long as no scan has *)
(* pushed an entry whose memory was used again.                             *)
GetReturns == \A c \in Clients : (pc[c] # "out") ~> (pc[c] = "out" \/ ~Defined)

=============================================================================
