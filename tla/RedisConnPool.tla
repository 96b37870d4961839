---------------------------- MODULE RedisConnPool ----------------------------
(***************************************************************************)
(* The Redis connection pool: RedisConnectionPool and RedisConnGuard, with *)
(* its factory (a creation may fail) and health checker (a connection may  *)
(* be found broken) as the pool uses them.                                 *)
(*                                                                         *)
(* Threads: the clients, each with one RedisConnGuard variable; the        *)
(* recycle thread; the application, which calls init() and shutdown().     *)
(* A section under m_mutex is one action, except the two loops, which keep *)
(* m_mutex from step to step.  m_stats_mutex is only ever taken for a few  *)
(* assignments, inside such a section, so it does not appear.              *)
(* destroy_connection() lowers m_current_size without m_mutex when it is   *)
(* called by return_connection(): a read and a write, two actions.         *)
(***************************************************************************)
EXTENDS Integers, Sequences, FiniteSets

CONSTANTS Clients,     \* the client threads
          Conns,       \* the addresses of connections: bounds how many are open at a time
          MinSize,     \* m_min_size
          MaxSize,     \* m_max_size
          OpNum,       \* m_op_num
          LowestSize,  \* bounds what a stale write of m_current_size may write
          Recycler,    \* the recycle thread, as the owner of m_mutex
          NoConn,      \* the null connection
          NoOwner      \* m_mutex is free

ASSUME RedisPoolAssumption ==
  /\ IsFiniteSet(Clients) /\ IsFiniteSet(Conns)
  /\ MinSize \in Nat /\ MaxSize \in Nat /\ OpNum \in Nat /\ LowestSize \in Int
  /\ MinSize <= MaxSize
  /\ NoConn \notin Conns
  /\ Recycler \notin Clients /\ NoOwner \notin Clients \cup {Recycler}

VARIABLES m_conn_queue,       \* entries [conn, idle]; idle: unused for m_max_idle_time or more
          m_current_size, m_initialized, m_recycle_running,
          m_mutex,            \* who holds it across steps
          m_stats,            \* the counters of PoolStatistics that describe the present
          open,               \* the addresses of living connections
          pc, guard,          \* where each client is; the connection its guard holds
          back,               \* the connection it is giving back
          seen,               \* m_current_size as its unlocked decrement read it
          to_create,          \* the local of the client that expands
          recycler, left, can_recycle, recycled,   \* the recycle thread; queue_size - i
          app                 \* where the application is

poolVars    == <<m_conn_queue, m_current_size, open>>
flagVars    == <<m_initialized, m_recycle_running>>
clientVars  == <<pc, guard, back, seen, to_create>>
recycleVars == <<recycler, left, can_recycle, recycled>>
vars == <<m_conn_queue, m_current_size, m_initialized, m_recycle_running, m_mutex, m_stats,
          open, pc, guard, back, seen, to_create, recycler, left, can_recycle, recycled, app>>

Entry    == [conn : Conns, idle : BOOLEAN]
Stats    == [active : Int, idle : Nat, total : Int, waiters : Int]
Awake    == {"notified", "timedout", "spurious"}
InReturn == {"checking", "healthy", "broken", "deleted", "uncounted"}
PcState  == {"out", "entered", "expanding", "waiting"} \cup Awake \cup InReturn

ConnsIn(q) == {q[i].conn : i \in DOMAIN q}
InQueue  == ConnsIn(m_conn_queue)
Unborn   == Conns \ open
Waiting  == {c \in Clients : pc[c] = "waiting"}
Unlocked == m_mutex = NoOwner
Defined  == recycler # "undefined"

Least(a, b) == IF a < b THEN a ELSE b

-----------------------------------------------------------------------------
Init ==
  /\ m_conn_queue = <<>> /\ m_current_size = 0
  /\ m_initialized = FALSE /\ m_recycle_running = FALSE
  /\ m_mutex = NoOwner
  /\ m_stats = [active |-> 0, idle |-> 0, total |-> 0, waiters |-> 0]
  /\ open = {}
  /\ pc = [c \in Clients |-> "out"]
  /\ guard = [c \in Clients |-> NoConn]
  /\ back = [c \in Clients |-> NoConn]
  /\ seen = [c \in Clients |-> 0]
  /\ to_create = 0
  /\ recycler = "off" /\ left = 0 /\ can_recycle = 0 /\ recycled = 0
  /\ app = "down"

-----------------------------------------------------------------------------
(* create_connection() counts a connection that could not be made as well. *)
Fresh(x) == [conn |-> x, idle |-> FALSE]

CreateFails == m_current_size' = m_current_size + 1 /\ UNCHANGED <<m_conn_queue, open>>

Create == /\ m_current_size' = m_current_size + 1
          /\ \E x \in Unborn : /\ m_conn_queue' = Append(m_conn_queue, Fresh(x))
                               /\ open' = open \cup {x}

(* Mutant of Deliver: what the guard held is overwritten.                  *)
DeliverOver(c, x) == /\ guard' = [guard EXCEPT ![c] = x]
                     /\ pc' = [pc EXCEPT ![c] = "out"]
                     /\ UNCHANGED back

(* get_connection() returns a guard and the client's guard is move-assigned *)
(* from it: what that guard held is given back first.                      *)
Deliver(c, x) ==
  /\ guard' = [guard EXCEPT ![c] = x]
  /\ back'  = [back EXCEPT ![c] = guard[c]]
  /\ pc'    = [pc EXCEPT ![c] = IF guard[c] = NoConn THEN "out" ELSE "checking"]

TakeFront(c) == /\ Deliver(c, Head(m_conn_queue).conn)
                /\ m_conn_queue' = Tail(m_conn_queue)
                /\ UNCHANGED <<m_current_size, open, seen>>

Borrowed(s) == [s EXCEPT !.active = @ + 1, !.idle = Len(m_conn_queue')]

(* notify_one(); p is where the clients are otherwise.                     *)
Notify(p) == IF Waiting = {} THEN pc' = p
             ELSE \E c \in Waiting : pc' = [p EXCEPT ![c] = "notified"]

-----------------------------------------------------------------------------
(* get_connection().  m_initialized is read before m_mutex is taken.       *)
GetEnter(c) ==
  /\ pc[c] = "out"
  /\ \/ /\ m_initialized
        /\ pc' = [pc EXCEPT ![c] = "entered"]
        /\ UNCHANGED <<guard, back>>
     \/ ~m_initialized /\ Deliver(c, NoConn)
  /\ UNCHANGED <<poolVars, flagVars, m_mutex, m_stats, seen, to_create, recycleVars, app>>

CanCreate == Least(MaxSize - m_current_size, OpNum)

GetExpand(c) ==
  /\ pc[c] = "entered" /\ Unlocked
  /\ m_conn_queue = <<>> /\ CanCreate > 0
  /\ m_mutex' = c
  /\ to_create' = CanCreate
  /\ pc' = [pc EXCEPT ![c] = "expanding"]
  /\ UNCHANGED <<poolVars, flagVars, m_stats, guard, back, seen, recycleVars, app>>

ExpandOne(c) ==
  /\ pc[c] = "expanding" /\ to_create > 0
  /\ Create \/ CreateFails
  /\ to_create' = to_create - 1
  /\ UNCHANGED <<flagVars, m_mutex, m_stats, pc, guard, back, seen, recycleVars, app>>

ExpandDone(c) == pc[c] = "expanding" /\ to_create = 0

Expanded(s) == [s EXCEPT !.idle = Len(m_conn_queue), !.total = m_current_size]

ExpandTake(c) ==
  /\ ExpandDone(c)
  /\ m_conn_queue # <<>>
  /\ TakeFront(c)
  /\ m_stats' = Borrowed(Expanded(m_stats))
  /\ m_mutex' = NoOwner
  /\ UNCHANGED <<flagVars, to_create, recycleVars, app>>

Wait(c, s) == /\ pc' = [pc EXCEPT ![c] = "waiting"]
              /\ m_stats' = [s EXCEPT !.waiters = @ + 1]
              /\ UNCHANGED <<poolVars, guard, back, seen>>

(* Every creation failed: the client waits like one that could not expand. *)
ExpandWait(c) ==
  /\ ExpandDone(c)
  /\ m_conn_queue = <<>>
  /\ Wait(c, Expanded(m_stats))
  /\ m_mutex' = NoOwner
  /\ UNCHANGED <<flagVars, to_create, recycleVars, app>>

GetTake(c) ==
  /\ pc[c] = "entered" /\ Unlocked
  /\ m_conn_queue # <<>>
  /\ TakeFront(c)
  /\ m_stats' = Borrowed(m_stats)
  /\ UNCHANGED <<flagVars, m_mutex, to_create, recycleVars, app>>

GetWait(c) ==
  /\ pc[c] = "entered" /\ Unlocked
  /\ m_conn_queue = <<>> /\ CanCreate <= 0
  /\ Wait(c, m_stats)
  /\ UNCHANGED <<flagVars, m_mutex, to_create, recycleVars, app>>

(* A wait also ends by its timeout, or spuriously, as C++ allows.          *)
WaitEnds(c) ==
  /\ pc[c] = "waiting"
  /\ \E how \in {"timedout", "spurious"} : pc' = [pc EXCEPT ![c] = how]
  /\ UNCHANGED <<poolVars, flagVars, m_mutex, m_stats, guard, back, seen, to_create,
                 recycleVars, app>>

Woken(s) == [s EXCEPT !.waiters = @ - 1]

(* wait_for() is made once, not in a loop.                                 *)
WakeTake(c) ==
  /\ pc[c] \in Awake /\ Unlocked
  /\ m_conn_queue # <<>>
  /\ TakeFront(c)
  /\ m_stats' = Borrowed(Woken(m_stats))
  /\ UNCHANGED <<flagVars, m_mutex, to_create, recycleVars, app>>

(* Mutant of WakeEmpty: the wait is repeated, without a deadline.          *)
WaitAgain(c) ==
  /\ pc[c] \in Awake /\ Unlocked
  /\ m_conn_queue = <<>>
  /\ pc' = [pc EXCEPT ![c] = "waiting"]
  /\ UNCHANGED <<poolVars, flagVars, m_mutex, m_stats, guard, back, seen, to_create,
                 recycleVars, app>>

(* The timeout, or the line that theoretically nobody reaches.             *)
WakeEmpty(c) ==
  /\ pc[c] \in Awake /\ Unlocked
  /\ m_conn_queue = <<>>
  /\ Deliver(c, NoConn)
  /\ m_stats' = Woken(m_stats)
  /\ UNCHANGED <<poolVars, flagVars, m_mutex, seen, to_create, recycleVars, app>>

-----------------------------------------------------------------------------
(* release() or the guard's destructor calls return_connection().          *)
Release(c) ==
  /\ pc[c] = "out" /\ guard[c] # NoConn
  /\ back' = [back EXCEPT ![c] = guard[c]]
  /\ guard' = [guard EXCEPT ![c] = NoConn]
  /\ pc' = [pc EXCEPT ![c] = "checking"]
  /\ UNCHANGED <<poolVars, flagVars, m_mutex, m_stats, seen, to_create, recycleVars, app>>

(* The PING is sent without m_mutex, and may fail at any time.             *)
Check(c) ==
  /\ pc[c] = "checking"
  /\ \/ pc' = [pc EXCEPT ![c] = "healthy"]
     \/ pc' = [pc EXCEPT ![c] = "broken"]
  /\ UNCHANGED <<poolVars, flagVars, m_mutex, m_stats, guard, back, seen, to_create,
                 recycleVars, app>>

Returned(s) == [s EXCEPT !.active = @ - 1, !.idle = Len(m_conn_queue')]

(* Mutant of ReturnHealthy: the connection goes to the front.              *)
ReturnToFront(c) ==
  /\ pc[c] = "healthy" /\ Unlocked
  /\ m_conn_queue' = <<Fresh(back[c])>> \o m_conn_queue
  /\ back' = [back EXCEPT ![c] = NoConn]
  /\ Notify([pc EXCEPT ![c] = "out"])
  /\ m_stats' = Returned(m_stats)
  /\ UNCHANGED <<m_current_size, open, flagVars, m_mutex, guard, seen, to_create,
                 recycleVars, app>>

ReturnHealthy(c) ==
  /\ pc[c] = "healthy" /\ Unlocked
  /\ m_conn_queue' = Append(m_conn_queue, Fresh(back[c]))
  /\ back' = [back EXCEPT ![c] = NoConn]
  /\ Notify([pc EXCEPT ![c] = "out"])
  /\ m_stats' = Returned(m_stats)
  /\ UNCHANGED <<m_current_size, open, flagVars, m_mutex, guard, seen, to_create,
                 recycleVars, app>>

(* A broken connection is deleted and m_current_size--, all without        *)
(* m_mutex: the size is read ...                                           *)
DeleteBack(c) ==
  /\ pc[c] = "broken"
  /\ open' = open \ {back[c]}
  /\ back' = [back EXCEPT ![c] = NoConn]
  /\ seen' = [seen EXCEPT ![c] = m_current_size]
  /\ pc' = [pc EXCEPT ![c] = "deleted"]
  /\ UNCHANGED <<m_conn_queue, m_current_size, flagVars, m_mutex, m_stats, guard, to_create,
                 recycleVars, app>>

(* ... and written.  If other threads changed it in between, their updates *)
(* are lost, or this one is.                                               *)
WriteSize(c) ==
  /\ pc[c] = "deleted"
  /\ \/ /\ m_current_size = seen[c] \/ seen[c] - 1 \in LowestSize..MaxSize
        /\ m_current_size' = seen[c] - 1
     \/ m_current_size # seen[c] /\ UNCHANGED m_current_size
  /\ seen' = [seen EXCEPT ![c] = 0]
  /\ pc' = [pc EXCEPT ![c] = "uncounted"]
  /\ UNCHANGED <<m_conn_queue, open, flagVars, m_mutex, m_stats, guard, back, to_create,
                 recycleVars, app>>

(* If there are too few connections a new one is made.                     *)
Replace(c) ==
  \/ /\ m_current_size < MinSize
     /\ \/ Create /\ Notify([pc EXCEPT ![c] = "out"])
        \/ CreateFails /\ pc' = [pc EXCEPT ![c] = "out"]
  \/ /\ m_current_size >= MinSize
     /\ pc' = [pc EXCEPT ![c] = "out"]
     /\ UNCHANGED poolVars

(* Mutant of Refill: the connection that is gone stays among the active.   *)
RefillStillActive(c) ==
  /\ pc[c] = "uncounted" /\ Unlocked
  /\ Replace(c)
  /\ m_stats' = [m_stats EXCEPT !.idle = Len(m_conn_queue')]
  /\ UNCHANGED <<flagVars, m_mutex, guard, back, seen, to_create, recycleVars, app>>

(* The rest of return_connection(), under m_mutex again.                   *)
Refill(c) ==
  /\ pc[c] = "uncounted" /\ Unlocked
  /\ Replace(c)
  /\ m_stats' = Returned(m_stats)
  /\ UNCHANGED <<flagVars, m_mutex, guard, back, seen, to_create, recycleVars, app>>

-----------------------------------------------------------------------------
(* The recycle thread.  Connections age while they sit in the queue; the   *)
(* scan measures every age against one reading of the clock.               *)
Age ==
  /\ m_mutex # Recycler
  /\ \E n \in DOMAIN m_conn_queue :
       m_conn_queue' = [i \in DOMAIN m_conn_queue |->
                          [m_conn_queue[i] EXCEPT !.idle = @ \/ i <= n]]
  /\ UNCHANGED <<m_current_size, open, flagVars, m_mutex, m_stats, clientVars, recycleVars, app>>

RecycleWake ==
  /\ recycler = "sleeping"
  /\ recycler' = IF m_recycle_running THEN "due" ELSE "off"
  /\ UNCHANGED <<poolVars, flagVars, m_mutex, m_stats, clientVars, left, can_recycle, recycled,
                 app>>

Scan(quota) == /\ m_mutex' = Recycler
               /\ recycler' = "scanning"
               /\ left' = Len(m_conn_queue)
               /\ can_recycle' = quota
               /\ recycled' = 0

RecycleStart ==
  /\ recycler = "due" /\ Unlocked
  /\ \/ Len(m_conn_queue) > MinSize /\ Scan(Len(m_conn_queue) - MinSize)
     \/ /\ Len(m_conn_queue) <= MinSize
        /\ recycler' = "sleeping"
        /\ UNCHANGED <<m_mutex, left, can_recycle, recycled>>
  /\ UNCHANGED <<poolVars, flagVars, m_stats, clientVars, app>>

Scanning == recycler = "scanning" /\ left > 0 /\ recycled < can_recycle

(* The front has been idle for too long: destroy_connection(), with m_mutex *)
(* held, but against clients that decrement without it.                     *)
RecycleDrop ==
  /\ Scanning /\ Head(m_conn_queue).idle
  /\ m_conn_queue' = Tail(m_conn_queue)
  /\ open' = open \ {Head(m_conn_queue).conn}
  /\ m_current_size' = m_current_size - 1
  /\ recycled' = recycled + 1
  /\ left' = left - 1
  /\ UNCHANGED <<flagVars, m_mutex, m_stats, clientVars, recycler, can_recycle, app>>

(* Any other front goes to the back, with the age it has.                  *)
RecycleRotate ==
  /\ Scanning /\ ~Head(m_conn_queue).idle
  /\ m_conn_queue' = Append(Tail(m_conn_queue), Head(m_conn_queue))
  /\ left' = left - 1
  /\ UNCHANGED <<m_current_size, open, flagVars, m_mutex, m_stats, clientVars, recycler,
                 can_recycle, recycled, app>>

(* ... but push() reads the entry after pop() has ended its life.  Its      *)
(* memory is given up when it was the last of its block of the deque, which *)
(* the model does not track, and may then hold anything: what the program   *)
(* does is undefined from here on, and nothing is claimed of it.  m_mutex   *)
(* stays taken, so that nothing follows on the queue.                       *)
RecycleStale ==
  /\ Scanning /\ ~Head(m_conn_queue).idle
  /\ recycler' = "undefined"
  /\ UNCHANGED <<poolVars, flagVars, m_mutex, m_stats, clientVars, left, can_recycle,
                 recycled, app>>

RecycleEnd ==
  /\ recycler = "scanning" /\ ~Scanning
  /\ recycler' = "sleeping"
  /\ m_mutex' = NoOwner
  /\ m_stats' = IF recycled > 0 THEN Expanded(m_stats) ELSE m_stats
  /\ left' = 0 /\ can_recycle' = 0 /\ recycled' = 0
  /\ UNCHANGED <<poolVars, flagVars, clientVars, app>>

-----------------------------------------------------------------------------
(* The application.  init() sets m_initialized and reads the queue's size  *)
(* without m_mutex; it is called while no client is inside the pool, so it *)
(* is one step.  Of m_min_size creations any number may fail.              *)
NobodyInside == Unlocked /\ \A c \in Clients : pc[c] = "out"

Distinct(s) == \A i, j \in DOMAIN s : s[i] = s[j] => i = j

Source ==
  /\ \E k \in 0..MinSize : \E s \in {f \in [1..k -> Unborn] : Distinct(f)} :
       /\ m_conn_queue' = m_conn_queue \o [i \in 1..k |-> Fresh(s[i])]
       /\ open' = open \cup {s[i] : i \in 1..k}
  /\ m_current_size' = m_current_size + MinSize
  /\ m_stats' = [m_stats EXCEPT !.idle = Len(m_conn_queue'), !.total = m_current_size']

InitPool ==
  /\ app = "down" /\ NobodyInside
  /\ m_initialized' = TRUE
  /\ Source
  /\ m_recycle_running' = TRUE
  /\ recycler' = "sleeping"
  /\ app' = "up"
  /\ UNCHANGED <<m_mutex, clientVars, left, can_recycle, recycled>>

(* shutdown(): the recycle thread is told to stop and joined ...           *)
StopRecycle ==
  /\ app = "up"
  /\ m_recycle_running' = FALSE
  /\ app' = "stopping"
  /\ UNCHANGED <<poolVars, m_initialized, m_mutex, m_stats, clientVars, recycleVars>>

Closed(s) == [s EXCEPT !.active = 0, !.idle = 0, !.total = 0]

(* ... then every connection in the queue is deleted.                      *)
Shutdown ==
  /\ app = "stopping" /\ recycler = "off" /\ Unlocked
  /\ m_conn_queue' = <<>>
  /\ open' = open \ InQueue
  /\ m_current_size' = 0
  /\ m_initialized' = FALSE
  /\ m_stats' = Closed(m_stats)
  /\ app' = "down"
  /\ UNCHANGED <<m_recycle_running, m_mutex, clientVars, recycleVars>>

-----------------------------------------------------------------------------
Get(c) == \/ GetExpand(c) \/ ExpandOne(c) \/ ExpandTake(c) \/ ExpandWait(c)
          \/ GetTake(c) \/ GetWait(c) \/ WakeTake(c) \/ WakeEmpty(c)

Return(c) == Check(c) \/ ReturnHealthy(c) \/ DeleteBack(c) \/ WriteSize(c) \/ Refill(c)

Recycle == \/ RecycleWake \/ RecycleStart \/ RecycleDrop
           \/ RecycleRotate \/ RecycleStale \/ RecycleEnd

(* A pool in service: init() is called once and shutdown() never.          *)
Serve == \/ \E c \in Clients : GetEnter(c) \/ Get(c) \/ WaitEnds(c) \/ Release(c) \/ Return(c)
         \/ Age \/ Recycle
         \/ InitPool

(* ... or the application shuts it down, and calls init() again.           *)
Next == Serve \/ StopRecycle \/ Shutdown

ServeSpec == Init /\ [][Serve]_vars
Spec      == Init /\ [][Next]_vars

(* A client inside a call gets m_mutex at some time if it is released again *)
(* and again; a wait ends by its timeout, a PING by the socket's; the       *)
(* recycle thread leaves m_mutex.                                           *)
Fairness == /\ \A c \in Clients : /\ SF_vars(Get(c) \/ Return(c))
                                  /\ WF_vars(WaitEnds(c))
            /\ WF_vars(Recycle)

FairServeSpec == ServeSpec /\ Fairness

-----------------------------------------------------------------------------
(* The type invariant.                                                     *)
TypeOK ==
  /\ m_conn_queue \in Seq(Entry)
  /\ m_current_size \in Int
  /\ m_initialized \in BOOLEAN /\ m_recycle_running \in BOOLEAN
  /\ m_mutex \in Clients \cup {Recycler, NoOwner}
  /\ m_stats \in Stats
  /\ open \subseteq Conns
  /\ pc \in [Clients -> PcState]
  /\ guard \in [Clients -> Conns \cup {NoConn}]
  /\ back \in [Clients -> Conns \cup {NoConn}]
  /\ seen \in [Clients -> Int]
  /\ to_create \in Nat /\ left \in Nat /\ can_recycle \in Nat /\ recycled \in Nat
  /\ recycler \in {"off", "sleeping", "due", "scanning", "undefined"}
  /\ app \in {"down", "up", "stopping"}

Has(c) == {guard[c], back[c]} \ {NoConn}

(* A connection is in the queue, in a guard or on its way back, never in two *)
(* of them; none is deleted while it is in any, and none that exists is out  *)
(* of sight (RedisConnGuard: the guard returns it, so that none leaks),      *)
(* whatever shutdown(), init(), broken connections and the recycle thread do *)
(* in between: the pool keeps what LoanPool promises its borrowers.          *)
Loan == INSTANCE LoanPool WITH open <- open, idle <- InQueue,
                               loans <- [c \in Clients |-> Has(c)]
ImplementsLoanPool == Loan!LoanSpec

(* No entry that has been idle for too long stands behind one that has not, *)
(* at every step of the scan too, and so a scan that stops at its quota     *)
(* misses none.                                                             *)
OldestFirst ==
  \A i, j \in DOMAIN m_conn_queue : i < j /\ m_conn_queue[j].idle => m_conn_queue[i].idle

SparesMin == recycler = "scanning" => Len(m_conn_queue) >= MinSize + can_recycle - recycled

(* The recycle thread finds the connections that have been idle longest, and *)
(* never takes the queue below m_min_size, however many those are, as long as *)
(* no scan has pushed an entry whose memory was used again.                  *)
RecycleExact == Defined => OldestFirst /\ SparesMin

(* A client that called get_connection(), or gives a connection back, comes *)
(* out of the pool, with every creation and every PING failing as well, as  *)
(* long as no scan has pushed an entry whose memory was used again.         *)
GetReturns == \A c \in Clients : (pc[c] # "out") ~> (pc[c] = "out" \/ ~Defined)

=============================================================================
