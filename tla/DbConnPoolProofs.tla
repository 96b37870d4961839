-------------------------- MODULE DbConnPoolProofs --------------------------
(***************************************************************************)
(* Proofs about DbConnPool, for every number of clients and connections    *)
(* and all pool sizes.                                                     *)
(***************************************************************************)
EXTENDS MCDbConnPool, FiniteSetTheorems, SequenceTheorems, TLAPS

-----------------------------------------------------------------------------
(* Sequences of entries.                                                   *)

(* The connections of a queue after push().                                *)
LEMMA AppendConns ==
  ASSUME NEW q \in Seq(Entry), NEW e \in Entry
  PROVE  /\ Append(q, e) \in Seq(Entry)
         /\ ConnsIn(Append(q, e)) = ConnsIn(q) \cup {e.conn}
         /\ NoRepeat(q) /\ e.conn \notin ConnsIn(q) => NoRepeat(Append(q, e))
<1>1. /\ Append(q, e) \in Seq(Entry) /\ Len(Append(q, e)) = Len(q) + 1
      /\ \A i \in 1..Len(q) : Append(q, e)[i] = q[i]
      /\ Append(q, e)[Len(q) + 1] = e /\ Len(q) \in Nat
      /\ DOMAIN q = 1..Len(q) /\ DOMAIN Append(q, e) = 1..(Len(q) + 1)
  BY AppendProperties
<1>2. ConnsIn(Append(q, e)) = ConnsIn(q) \cup {e.conn}
  BY <1>1 DEF ConnsIn
<1>3. ASSUME NoRepeat(q), e.conn \notin ConnsIn(q) PROVE NoRepeat(Append(q, e))
  BY <1>1, <1>3 DEF NoRepeat, ConnsIn
<1> QED
  BY <1>1, <1>2, <1>3

(* The connections of a queue after pop().                                 *)
LEMMA TailConns ==
  ASSUME NEW q \in Seq(Entry), q # <<>>
  PROVE  /\ Tail(q) \in Seq(Entry) /\ Head(q) \in Entry
         /\ Len(q) \in Nat /\ Len(Tail(q)) = Len(q) - 1
         /\ ConnsIn(q) = ConnsIn(Tail(q)) \cup {Head(q).conn}
         /\ NoRepeat(q) => NoRepeat(Tail(q)) /\ Head(q).conn \notin ConnsIn(Tail(q))
<1>1. /\ Tail(q) \in Seq(Entry) /\ Head(q) \in Entry /\ Len(q) \in Nat \ {0}
      /\ Len(Tail(q)) = Len(q) - 1 /\ Head(q) = q[1]
      /\ \A i \in 1..(Len(q) - 1) : Tail(q)[i] = q[i + 1]
      /\ DOMAIN q = 1..Len(q) /\ DOMAIN Tail(q) = 1..(Len(q) - 1)
  BY HeadTailProperties
<1>2. ConnsIn(q) = ConnsIn(Tail(q)) \cup {Head(q).conn}
  <2>1. ASSUME NEW i \in 1..Len(q) PROVE q[i].conn \in ConnsIn(Tail(q)) \cup {Head(q).conn}
    <3>1. CASE i = 1
      BY <1>1, <3>1
    <3>2. CASE i # 1
      <4>1. i - 1 \in 1..(Len(q) - 1) /\ Tail(q)[i - 1] = q[i]
        BY <1>1, <3>2
      <4> QED
        BY <1>1, <4>1 DEF ConnsIn
    <3> QED
      BY <3>1, <3>2
  <2>2. ASSUME NEW i \in 1..(Len(q) - 1) PROVE Tail(q)[i].conn \in ConnsIn(q)
    <3>1. i + 1 \in 1..Len(q)
      BY <1>1
    <3> QED
      BY <1>1, <3>1 DEF ConnsIn
  <2>3. Head(q).conn \in ConnsIn(q)
    BY <1>1 DEF ConnsIn
  <2> QED
    BY <1>1, <2>1, <2>2, <2>3 DEF ConnsIn
<1>3. ASSUME NoRepeat(q) PROVE NoRepeat(Tail(q)) /\ Head(q).conn \notin ConnsIn(Tail(q))
  <2>1. \A i \in 1..(Len(q) - 1) : i + 1 \in 1..Len(q) /\ i + 1 # 1 /\ 1 \in 1..Len(q)
    BY <1>1
  <2>2. NoRepeat(Tail(q))
    BY <1>1, <1>3, <2>1 DEF NoRepeat
  <2>3. \A i \in 1..(Len(q) - 1) : Tail(q)[i].conn # Head(q).conn
    BY <1>1, <1>3, <2>1 DEF NoRepeat
  <2> QED
    BY <1>1, <2>2, <2>3 DEF ConnsIn
<1> QED
  BY <1>1, <1>2, <1>3

(* The connections of a queue after several push().                        *)
LEMMA ConcatConns ==
  ASSUME NEW q \in Seq(Entry), NEW r \in Seq(Entry)
  PROVE  /\ q \o r \in Seq(Entry)
         /\ ConnsIn(q \o r) = ConnsIn(q) \cup ConnsIn(r)
         /\ NoRepeat(q) /\ NoRepeat(r) /\ ConnsIn(q) \cap ConnsIn(r) = {}
            => NoRepeat(q \o r)
<1>1. /\ q \o r \in Seq(Entry) /\ Len(q \o r) = Len(q) + Len(r)
      /\ \A i \in 1..(Len(q) + Len(r)) :
            (q \o r)[i] = IF i <= Len(q) THEN q[i] ELSE r[i - Len(q)]
      /\ Len(q) \in Nat /\ Len(r) \in Nat
      /\ DOMAIN q = 1..Len(q) /\ DOMAIN r = 1..Len(r)
      /\ DOMAIN (q \o r) = 1..(Len(q) + Len(r))
  BY ConcatProperties
<1>2. ConnsIn(q \o r) \subseteq ConnsIn(q) \cup ConnsIn(r)
  <2>1. \A i \in 1..(Len(q) + Len(r)) : i <= Len(q) \/ i - Len(q) \in 1..Len(r)
    BY <1>1
  <2> QED
    BY <1>1, <2>1 DEF ConnsIn
<1>3. ConnsIn(q) \subseteq ConnsIn(q \o r)
  BY <1>1 DEF ConnsIn
<1>4. ConnsIn(r) \subseteq ConnsIn(q \o r)
  <2>1. \A i \in 1..Len(r) : /\ Len(q) + i \in 1..(Len(q) + Len(r))
                             /\ (q \o r)[Len(q) + i] = r[i]
    BY <1>1
  <2> QED
    BY <1>1, <2>1 DEF ConnsIn
<1>5. ASSUME NoRepeat(q), NoRepeat(r), ConnsIn(q) \cap ConnsIn(r) = {}
      PROVE  NoRepeat(q \o r)
  <2> SUFFICES ASSUME NEW i \in 1..(Len(q) + Len(r)), NEW j \in 1..(Len(q) + Len(r)),
                      (q \o r)[i].conn = (q \o r)[j].conn
               PROVE  i = j
    BY <1>1 DEF NoRepeat
  <2>1. CASE i <= Len(q) /\ j <= Len(q)
    BY <1>1, <1>5, <2>1 DEF NoRepeat
  <2>2. CASE i > Len(q) /\ j > Len(q)
    <3>1. i - Len(q) \in 1..Len(r) /\ j - Len(q) \in 1..Len(r)
      BY <1>1, <2>2
    <3>2. (q \o r)[i] = r[i - Len(q)] /\ (q \o r)[j] = r[j - Len(q)]
      BY <1>1, <2>2
    <3>3. r[i - Len(q)].conn = r[j - Len(q)].conn
      BY <3>2
    <3>4. \A a, b \in 1..Len(r) : r[a].conn = r[b].conn => a = b
      BY <1>1, <1>5 DEF NoRepeat
    <3>5. i - Len(q) = j - Len(q)
      BY <3>1, <3>3, <3>4
    <3> QED
      BY <1>1, <3>5
  <2>3. ASSUME NEW a \in 1..(Len(q) + Len(r)), NEW b \in 1..(Len(q) + Len(r)),
               a <= Len(q), b > Len(q)
        PROVE  (q \o r)[a].conn # (q \o r)[b].conn
    <3>1. a \in 1..Len(q) /\ b - Len(q) \in 1..Len(r)
      BY <1>1, <2>3
    <3>2. q[a].conn \in ConnsIn(q) /\ r[b - Len(q)].conn \in ConnsIn(r)
      BY <1>1, <3>1 DEF ConnsIn
    <3> QED
      BY <1>1, <1>5, <2>3, <3>2
  <2> QED
    BY <1>1, <2>1, <2>2, <2>3
<1> QED
  BY <1>1, <1>2, <1>3, <1>4, <1>5

(* A queue whose entries only age.                                         *)
LEMMA AgeConns ==
  ASSUME NEW q \in Seq(Entry), NEW r \in Seq(Entry), DOMAIN r = DOMAIN q,
         \A i \in DOMAIN q : r[i].conn = q[i].conn
  PROVE  ConnsIn(r) = ConnsIn(q) /\ (NoRepeat(q) => NoRepeat(r))
BY DEF ConnsIn, NoRepeat

-----------------------------------------------------------------------------
(* Type correctness, with the lock discipline it rests on: the recycler    *)
(* and the client that has expanded the pool pop only entries that are     *)
(* there.                                                                  *)
ExpandsSome == (\E c \in Clients : pc[c] = "expanding") => to_create > 0 \/ m_conn_queue # <<>>

Typed == TypeOK /\ LockedLoops /\ ExpandsSome

(* The entries that init() pushes.                                         *)
NewEntries(k, s) == [i \in 1..k |-> [conn |-> s[i], idle |-> FALSE]]

LEMMA SourceType ==
  ASSUME TypeOK, NEW k \in Nat, Source(k)
  PROVE  /\ m_conn_queue' \in Seq(Entry)
         /\ link' \in [Conns -> {"none", "open", "closed"}]
         /\ m_current_size' = m_current_size + k
<1>1. PICK s \in [1..k -> Unborn] :
        /\ m_conn_queue' = m_conn_queue \o NewEntries(k, s)
        /\ link' = [x \in Conns |-> IF \E i \in 1..k : s[i] = x THEN "open" ELSE link[x]]
        /\ m_current_size' = m_current_size + k
  BY DEF Source, NewEntries
<1>2. NewEntries(k, s) \in Seq(Entry)
  BY <1>1 DEF NewEntries, Entry, Unborn
<1> QED
  BY <1>1, <1>2, ConcatConns DEF TypeOK

LEMMA NotifyType ==
  ASSUME TypeOK, NotifyOne
  PROVE  /\ pc' \in [Clients -> PcState]
         /\ \A c \in Clients : pc'[c] # pc[c] => pc[c] = "waiting" /\ pc'[c] = "notified"
BY DEF TypeOK, NotifyOne, Waiting, PcState

LEMMA AgeType ==
  ASSUME TypeOK, Age
  PROVE  /\ m_conn_queue' \in Seq(Entry) /\ Len(m_conn_queue') = Len(m_conn_queue)
         /\ DOMAIN m_conn_queue' = DOMAIN m_conn_queue
         /\ \A i \in DOMAIN m_conn_queue : m_conn_queue'[i].conn = m_conn_queue[i].conn
         /\ m_conn_queue # <<>> => m_conn_queue' # <<>>
<1>1. PICK n \in 1..Len(m_conn_queue) :
        m_conn_queue' = [i \in DOMAIN m_conn_queue |->
                           IF i <= n THEN [m_conn_queue[i] EXCEPT !.idle = TRUE]
                                     ELSE m_conn_queue[i]]
  BY DEF Age
<1>2. /\ Len(m_conn_queue) \in Nat /\ DOMAIN m_conn_queue = 1..Len(m_conn_queue)
      /\ \A i \in 1..Len(m_conn_queue) : m_conn_queue[i] \in Entry
  BY DEF TypeOK
<1>3. \A i \in 1..Len(m_conn_queue) :
        /\ [m_conn_queue[i] EXCEPT !.idle = TRUE] \in Entry
        /\ [m_conn_queue[i] EXCEPT !.idle = TRUE].conn = m_conn_queue[i].conn
  BY <1>2 DEF Entry
<1>4. m_conn_queue' \in [1..Len(m_conn_queue) -> Entry]
  BY <1>1, <1>2, <1>3
<1>5. m_conn_queue' \in Seq(Entry) /\ Len(m_conn_queue') = Len(m_conn_queue)
      /\ DOMAIN m_conn_queue' = DOMAIN m_conn_queue
  BY <1>2, <1>4
<1>6. \A i \in DOMAIN m_conn_queue : m_conn_queue'[i].conn = m_conn_queue[i].conn
  BY <1>1, <1>2, <1>3
<1> QED
  BY <1>2, <1>5, <1>6

LEMMA TypeInit == Init => Typed
<1> SUFFICES ASSUME Init PROVE Typed
  OBVIOUS
<1>1. m_conn_queue \in Seq(Entry) /\ m_mutex \in Clients \cup {Recycler, NoOwner}
  BY DEF Init
<1>2. pc \in [Clients -> PcState] /\ guard \in [Clients -> Conns \cup {NoConn}]
  BY DEF Init, PcState
<1>3. LockedLoops /\ ExpandsSome
  BY DbPoolAssumption DEF Init, LockedLoops, ExpandsSome
<1>4. m_current_size \in Int /\ to_create \in Nat /\ left \in Nat /\ quota \in Nat
  BY DEF Init
<1>6. m_initialized \in BOOLEAN /\ m_recycle_running \in BOOLEAN
  BY DEF Init
<1>5. /\ link \in [Conns -> {"none", "open", "closed"}]
      /\ recycler \in {"off", "sleeping", "due", "scanning", "undefined"}
      /\ app \in {"down", "up", "failed", "stopping"}
  BY DEF Init
<1> QED
  BY <1>1, <1>2, <1>3, <1>4, <1>5, <1>6 DEF Typed, TypeOK

LEMMA TypeStep == Typed /\ [Next]_vars => Typed'
<1> SUFFICES ASSUME Typed, [Next]_vars PROVE Typed'
  OBVIOUS
<1> USE DbPoolAssumption DEF Typed, TypeOK, LockedLoops, ExpandsSome
<1>1. ASSUME NEW c \in Clients, GetEnter(c) PROVE Typed'
  BY <1>1 DEF GetEnter, Deliver, poolVars, recycleVars, PcState
<1>2. ASSUME NEW c \in Clients, GetExpand(c) PROVE Typed'
  <2>1. to_create' \in Nat /\ to_create' > 0
    BY <1>2 DEF GetExpand, CanCreate, Least
  <2>2. \A d \in Clients : d # c => pc[d] # "expanding"
    BY <1>2 DEF GetExpand, Unlocked
  <2>3. recycler # "scanning" /\ c # Recycler
    BY <1>2 DEF GetExpand, Unlocked
  <2>4. pc' \in [Clients -> PcState] /\ pc'[c] = "expanding"
        /\ \A d \in Clients : d # c => pc'[d] = pc[d]
    BY <1>2 DEF GetExpand, PcState
  <2>5. TypeOK'
    BY <1>2, <2>1, <2>4 DEF GetExpand, poolVars, recycleVars
  <2>6. LockedLoops'
    <3>1. recycler' \notin {"scanning", "undefined"} /\ m_mutex' = c /\ c # Recycler
      BY <1>2, <2>3 DEF GetExpand, Unlocked, recycleVars
    <3> QED
      BY <1>2, <2>2, <2>4, <3>1 DEF GetExpand
  <2> QED
    BY <2>1, <2>5, <2>6
<1>3. ASSUME NEW c \in Clients, ExpandOne(c) PROVE Typed'
  <2>1. PICK x \in Unborn : Create(x)
    BY <1>3 DEF ExpandOne
  <2>2. [conn |-> x, idle |-> FALSE] \in Entry
    BY DEF Entry, Unborn
  <2>3. m_conn_queue' \in Seq(Entry)
    BY <2>1, <2>2, AppendConns DEF Create
  <2>4. recycler # "scanning"
    BY <1>3 DEF ExpandOne
  <2>5. m_conn_queue' # <<>>
    BY <2>1, <2>2, AppendProperties DEF Create
  <2>6. link' \in [Conns -> {"none", "open", "closed"}] /\ m_current_size' \in Int
        /\ to_create' \in Nat
    BY <1>3, <2>1 DEF ExpandOne, Create, Unborn
  <2>7. TypeOK'
    BY <1>3, <2>3, <2>6 DEF ExpandOne, recycleVars
  <2>8. LockedLoops'
    BY <1>3, <2>4 DEF ExpandOne, recycleVars
  <2> QED
    BY <2>5, <2>7, <2>8
<1>4. ASSUME NEW c \in Clients, ExpandThrow(c) PROVE Typed'
  BY <1>4 DEF ExpandThrow, poolVars, recycleVars, PcState
<1>5. ASSUME NEW c \in Clients, ExpandTake(c) PROVE Typed'
  <2>1. m_conn_queue # <<>>
    BY <1>5 DEF ExpandTake
  <2>2. m_conn_queue' \in Seq(Entry) /\ Head(m_conn_queue).conn \in Conns
    BY <1>5, <2>1, TailConns DEF ExpandTake, TakeFront, Entry
  <2> QED
    BY <1>5, <2>2 DEF ExpandTake, TakeFront, Deliver, recycleVars, PcState
<1>6. ASSUME NEW c \in Clients, GetTake(c) PROVE Typed'
  <2>1. m_conn_queue' \in Seq(Entry) /\ Head(m_conn_queue).conn \in Conns
    BY <1>6, TailConns DEF GetTake, TakeFront, Entry
  <2> QED
    BY <1>6, <2>1 DEF GetTake, TakeFront, Unlocked, Deliver, recycleVars, PcState
<1>7. ASSUME NEW c \in Clients, GetWait(c) PROVE Typed'
  BY <1>7 DEF GetWait, Create, Unlocked, poolVars, recycleVars, PcState
<1>8. ASSUME NEW c \in Clients, WaitEnds(c) PROVE Typed'
  BY <1>8 DEF WaitEnds, poolVars, recycleVars, PcState
<1>9. ASSUME NEW c \in Clients, WakeTake(c) PROVE Typed'
  <2>1. m_conn_queue' \in Seq(Entry) /\ Head(m_conn_queue).conn \in Conns
    BY <1>9, TailConns DEF WakeTake, TakeFront, Entry
  <2> QED
    BY <1>9, <2>1 DEF WakeTake, TakeFront, Awake, Unlocked, Deliver, recycleVars, PcState
<1>10. ASSUME NEW c \in Clients, WakeEmpty(c) PROVE Typed'
  BY <1>10 DEF WakeEmpty, Deliver, Awake, Unlocked, poolVars, recycleVars, PcState
<1>11. ASSUME NEW c \in Clients, ReturnValid(c) PROVE Typed'
  <2>1. [conn |-> guard[c], idle |-> FALSE] \in Entry
    BY <1>11 DEF ReturnValid, Returning, Entry
  <2>2. m_conn_queue' \in Seq(Entry)
    BY <1>11, <2>1, AppendConns DEF ReturnValid
  <2> QED
    BY <1>11, <2>2, NotifyType DEF ReturnValid, NotifyOne, Returning, Unlocked, recycleVars, PcState
<1>12. ASSUME NEW c \in Clients, ReturnInvalid(c) PROVE Typed'
  BY <1>12 DEF ReturnInvalid, Returning, Unlocked, recycleVars, PcState
<1>13. ASSUME NEW c \in Clients, ClientClose(c) PROVE Typed'
  BY <1>13 DEF ClientClose, clientVars, recycleVars, PcState
<1>14. ASSUME Age PROVE Typed'
  <2>1. m_conn_queue' \in Seq(Entry) /\ Len(m_conn_queue') = Len(m_conn_queue)
        /\ (m_conn_queue # <<>> => m_conn_queue' # <<>>)
    BY <1>14, AgeType
  <2> QED
    BY <1>14, <2>1 DEF Age, clientVars, recycleVars
<1>15. ASSUME RecycleWake PROVE Typed'
  BY <1>15 DEF RecycleWake, poolVars, clientVars
<1>16. ASSUME RecycleStart PROVE Typed'
  <2>1. Len(m_conn_queue) \in Nat
    OBVIOUS
  <2> QED
    BY <1>16, <2>1 DEF RecycleStart, Unlocked, poolVars, clientVars
<1>17. ASSUME RecycleDrop PROVE Typed'
  <2>1. m_conn_queue # <<>>
    BY <1>17 DEF RecycleDrop, Scanning
  <2>2. /\ Tail(m_conn_queue) \in Seq(Entry) /\ Head(m_conn_queue) \in Entry
        /\ Len(m_conn_queue) \in Nat /\ Len(Tail(m_conn_queue)) = Len(m_conn_queue) - 1
    BY <2>1, TailConns
  <2> QED
    BY <1>17, <2>2 DEF RecycleDrop, Scanning, clientVars, Entry
<1>18. ASSUME RecycleRotate PROVE Typed'
  <2>1. m_conn_queue # <<>>
    BY <1>18 DEF RecycleRotate, Scanning
  <2>2. /\ Tail(m_conn_queue) \in Seq(Entry) /\ Head(m_conn_queue) \in Entry
        /\ Len(m_conn_queue) \in Nat /\ Len(Tail(m_conn_queue)) = Len(m_conn_queue) - 1
    BY <2>1, TailConns
  <2>3. m_conn_queue' \in Seq(Entry) /\ Len(m_conn_queue') = Len(m_conn_queue)
    BY <1>18, <2>2, AppendProperties DEF RecycleRotate
  <2> QED
    BY <1>18, <2>2, <2>3 DEF RecycleRotate, Scanning, clientVars
<1>19. ASSUME RecycleEnd PROVE Typed'
  BY <1>19 DEF RecycleEnd, poolVars, clientVars
<1>24. ASSUME RecycleStale PROVE Typed'
  BY <1>24 DEF RecycleStale, Scanning, poolVars, clientVars
<1>20. ASSUME InitPool PROVE Typed'
  <2>1. PICK k \in Nat : Source(k)
    BY <1>20 DEF InitPool
  <2>2. /\ m_conn_queue' \in Seq(Entry)
        /\ link' \in [Conns -> {"none", "open", "closed"}]
        /\ m_current_size' \in Int
    BY <2>1, SourceType
  <2>3. recycler # "scanning" /\ recycler' # "scanning"
        /\ recycler' \in {"off", "sleeping", "due", "scanning", "undefined"}
    BY <1>20 DEF InitPool, NobodyInside, Unlocked
  <2>4. TypeOK'
    BY <1>20, <2>2, <2>3 DEF InitPool, clientVars
  <2> QED
    BY <1>20, <2>3, <2>4 DEF InitPool, clientVars, NobodyInside, Unlocked
<1>21. ASSUME StopRecycle PROVE Typed'
  BY <1>21 DEF StopRecycle, poolVars, clientVars, recycleVars
<1>22. ASSUME Shutdown PROVE Typed'
  <2>1. m_conn_queue' \in Seq(Entry) /\ link' \in [Conns -> {"none", "open", "closed"}]
    BY <1>22 DEF Shutdown
  <2>2. recycler # "scanning" /\ \A c \in Clients : pc[c] # "expanding"
    BY <1>22 DEF Shutdown, Unlocked
  <2>3. m_current_size' \in Int /\ app' \in {"down", "up", "failed", "stopping"}
    BY <1>22 DEF Shutdown
  <2>6. m_initialized' \in BOOLEAN
    BY <1>22 DEF Shutdown
  <2>4. m_recycle_running' = m_recycle_running /\ m_mutex' = m_mutex /\ pc' = pc
        /\ guard' = guard /\ to_create' = to_create /\ recycler' = recycler
        /\ left' = left /\ quota' = quota
    BY <1>22 DEF Shutdown, clientVars, recycleVars
  <2>5. TypeOK'
    BY <2>1, <2>3, <2>4, <2>6
  <2> QED
    BY <1>22, <2>2, <2>5 DEF Shutdown, clientVars, recycleVars
<1>23. CASE UNCHANGED vars
  BY <1>23 DEF vars
<1> QED
  BY <1>1, <1>2, <1>3, <1>4, <1>5, <1>6, <1>7, <1>8, <1>9, <1>10, <1>11, <1>12, <1>13, <1>14, <1>15, <1>16, <1>17, <1>18, <1>19, <1>20, <1>21, <1>22, <1>23, <1>24
     DEF Next, Serve, Get, Return, Recycle

(* Every variable keeps its type, also while the pool is shut down and     *)
(* started again around its clients.                                       *)
THEOREM TypeCorrect == Spec => []TypeOK
<1>1. Typed => TypeOK
  BY DEF Typed
<1> QED
  BY TypeInit, TypeStep, <1>1, PTL DEF Spec

(* A loop that keeps m_mutex over several steps is alone in the pool.       *)
THEOREM LoopsLocked == Spec => []LockedLoops
<1>1. Typed => LockedLoops
  BY DEF Typed
<1> QED
  BY TypeInit, TypeStep, <1>1, PTL DEF Spec

-----------------------------------------------------------------------------
(* One owner for every connection.  First what each kind of step does to   *)
(* the set of the queued and of the open connections; the ownership        *)
(* theorem, the refinement and the exact count all build on these lemmas.  *)
Sole == Typed /\ SoleOwner

LEMMA QueueConns ==
  ASSUME Typed
  PROVE  InQueue \subseteq Conns /\ NoConn \notin InQueue /\ m_conn_queue \in Seq(Entry)
<1>1. m_conn_queue \in Seq(Entry)
  BY DEF Typed, TypeOK
<1>2. \A i \in DOMAIN m_conn_queue : m_conn_queue[i] \in Entry
  BY <1>1
<1>3. InQueue \subseteq Conns
  BY <1>2 DEF InQueue, ConnsIn, Entry
<1> QED
  BY <1>1, <1>3, DbPoolAssumption

LEMMA CreateFacts ==
  ASSUME Sole, NEW x \in Unborn, Create(x)
  PROVE  /\ InQueue' = InQueue \cup {x} /\ Alive' = Alive \cup {x} /\ OneEntry'
         /\ x \in Conns /\ x \notin InQueue /\ x \notin Alive /\ \A c \in Clients : guard[c] # x
         /\ link'[x] = "open" /\ \A y \in Conns : y # x => link'[y] = link[y]
<1>1. [conn |-> x, idle |-> FALSE] \in Entry /\ x \in Conns /\ x \notin Alive
  BY DEF Entry, Unborn
<1>2. link'[x] = "open" /\ \A y \in Conns : y # x => link'[y] = link[y]
  BY <1>1 DEF Create, Sole, Typed, TypeOK
<1>3. x \notin InQueue
  BY <1>1 DEF Sole, SoleOwner, NotDead, Alive
<1>4. \A c \in Clients : guard[c] # x
  BY <1>1, DbPoolAssumption DEF Sole, SoleOwner, NotDead
<1>5. InQueue' = InQueue \cup {x} /\ OneEntry'
  BY <1>1, <1>3, AppendConns, QueueConns DEF Create, Sole, SoleOwner, OneEntry, InQueue
<1>6. Alive' = Alive \cup {x}
  BY <1>1, <1>2 DEF Alive
<1> QED
  BY <1>1, <1>2, <1>3, <1>4, <1>5, <1>6

LEMMA TakeFacts ==
  ASSUME Sole, m_conn_queue # <<>>, m_conn_queue' = Tail(m_conn_queue)
  PROVE  /\ Head(m_conn_queue).conn \in InQueue
         /\ InQueue' = InQueue \ {Head(m_conn_queue).conn} /\ OneEntry'
BY TailConns, QueueConns DEF Sole, SoleOwner, OneEntry, InQueue

LEMMA ReturnFacts ==
  ASSUME Sole, NEW c \in Clients, ReturnValid(c)
  PROVE  /\ guard[c] \in Conns /\ guard[c] # NoConn /\ link[guard[c]] = "open"
         /\ InQueue' = InQueue \cup {guard[c]} /\ OneEntry' /\ link' = link
         /\ guard' = [guard EXCEPT ![c] = NoConn]
<1>1. guard[c] \in Conns /\ guard[c] \notin InQueue /\ guard[c] # NoConn
  BY DEF Sole, Typed, TypeOK, SoleOwner, NotShared, ReturnValid, Returning
<1>2. [conn |-> guard[c], idle |-> FALSE] \in Entry
  BY <1>1 DEF Entry
<1>3. InQueue' = InQueue \cup {guard[c]} /\ OneEntry'
  BY <1>1, <1>2, AppendConns, QueueConns
     DEF ReturnValid, Sole, SoleOwner, OneEntry, InQueue
<1> QED
  BY <1>1, <1>3 DEF ReturnValid

LEMMA AgeFacts ==
  ASSUME Sole, Age
  PROVE  InQueue' = InQueue /\ OneEntry' /\ link' = link /\ guard' = guard
<1>1. link' = link /\ guard' = guard
  BY DEF Age, clientVars
<1> QED
  BY <1>1, AgeType, AgeConns, QueueConns DEF Sole, Typed, SoleOwner, OneEntry, InQueue

LEMMA DropFacts ==
  ASSUME Sole, RecycleDrop, NEW x, x = Head(m_conn_queue).conn
  PROVE  /\ x \in InQueue /\ x \in Conns /\ x \in Alive
         /\ InQueue' = InQueue \ {x} /\ OneEntry' /\ Alive' = Alive \ {x} /\ guard' = guard
         /\ \A y \in Conns : y # x => link'[y] = link[y]
<1>1. m_conn_queue # <<>>
  BY DEF RecycleDrop, Scanning, Sole, Typed, TypeOK, LockedLoops
<1>2. x \in InQueue /\ InQueue' = InQueue \ {x} /\ OneEntry'
  BY <1>1, TakeFacts DEF RecycleDrop
<1>3. x \in Conns /\ link[x] = "open"
  BY <1>2, QueueConns DEF Sole, SoleOwner, NotDead
<1>4. link' = [link EXCEPT ![x] = "none"] /\ guard' = guard
  BY DEF RecycleDrop, clientVars
<1> QED
  BY <1>2, <1>3, <1>4 DEF Alive, Sole, Typed, TypeOK

LEMMA RotateFacts ==
  ASSUME Sole, RecycleRotate
  PROVE  InQueue' = InQueue /\ OneEntry' /\ link' = link /\ guard' = guard
<1>1. m_conn_queue # <<>>
  BY DEF RecycleRotate, Scanning, Sole, Typed, TypeOK, LockedLoops
<1>2. /\ Tail(m_conn_queue) \in Seq(Entry) /\ Head(m_conn_queue) \in Entry
      /\ ConnsIn(m_conn_queue) = ConnsIn(Tail(m_conn_queue)) \cup {Head(m_conn_queue).conn}
      /\ NoRepeat(Tail(m_conn_queue))
      /\ Head(m_conn_queue).conn \notin ConnsIn(Tail(m_conn_queue))
  BY <1>1, TailConns, QueueConns DEF Sole, SoleOwner, OneEntry
<1>3. ConnsIn(m_conn_queue') = ConnsIn(m_conn_queue) /\ NoRepeat(m_conn_queue')
  BY <1>2, AppendConns DEF RecycleRotate
<1> QED
  BY <1>3 DEF RecycleRotate, InQueue, OneEntry, clientVars

LEMMA SourceFacts ==
  ASSUME Sole, NEW k \in Nat, Source(k)
  PROVE  \E X \in SUBSET Unborn :
           /\ InQueue' = InQueue \cup X /\ Alive' = Alive \cup X /\ OneEntry'
           /\ \A x \in Conns : link'[x] = IF x \in X THEN "open" ELSE link[x]
           /\ IsFiniteSet(X) /\ Cardinality(X) = k
<1>1. PICK s \in [1..k -> Unborn] :
        /\ \A i, j \in 1..k : s[i] = s[j] => i = j
        /\ m_conn_queue' = m_conn_queue \o NewEntries(k, s)
        /\ link' = [x \in Conns |-> IF \E i \in 1..k : s[i] = x THEN "open" ELSE link[x]]
  BY DEF Source, NewEntries
<1> DEFINE X == {s[i] : i \in 1..k}
<1>2. X \in SUBSET Unborn /\ X \subseteq Conns
  BY <1>1 DEF Unborn
<1>3. /\ NewEntries(k, s) \in Seq(Entry) /\ DOMAIN NewEntries(k, s) = 1..k
      /\ \A i \in 1..k : NewEntries(k, s)[i].conn = s[i]
  BY <1>1 DEF NewEntries, Entry, Unborn
<1>4. ConnsIn(NewEntries(k, s)) = X /\ NoRepeat(NewEntries(k, s))
  <2>1. ConnsIn(NewEntries(k, s)) = X
    BY <1>3 DEF ConnsIn
  <2>2. NoRepeat(NewEntries(k, s))
    BY <1>1, <1>3 DEF NoRepeat
  <2> QED
    BY <2>1, <2>2
<1>5. InQueue \cap X = {}
  BY <1>2 DEF Sole, SoleOwner, NotDead, Alive, Unborn
<1>6. InQueue' = InQueue \cup X /\ OneEntry'
  BY <1>1, <1>3, <1>4, <1>5, ConcatConns, QueueConns DEF Sole, SoleOwner, OneEntry, InQueue
<1>7. \A x \in Conns : link'[x] = IF x \in X THEN "open" ELSE link[x]
  BY <1>1
<1>8. Alive' = Alive \cup X
  BY <1>2, <1>7 DEF Alive
<1>9. IsFiniteSet(X) /\ Cardinality(X) = k
  <2>1. IsFiniteSet(1..k) /\ Cardinality(1..k) = k
    BY FS_Interval
  <2>2. s \in Bijection(1..k, X)
    BY <1>1 DEF Bijection, Injection, Surjection, IsInjective
  <2> QED
    BY <2>1, <2>2, FS_Bijection DEF ExistsBijection
<1> QED
  BY <1>2, <1>6, <1>7, <1>8, <1>9

LEMMA StillSole ==
  ASSUME Sole, UNCHANGED <<m_conn_queue, link, guard>>
  PROVE  SoleOwner'
BY DEF Sole, SoleOwner, OneEntry, OneGuard, NotShared, NotDead, InQueue, Alive

(* The queue stays and the guards stay, the links of both stay open.       *)
LEMMA SameOwners ==
  ASSUME Sole, InQueue' = InQueue, OneEntry', guard' = guard, link' = link
  PROVE  SoleOwner'
BY DEF Sole, SoleOwner, OneGuard, NotShared, NotDead, Alive

LEMMA DeliverSole ==
  ASSUME Sole, NEW c \in Clients, NEW y \in InQueue \cup {NoConn},
         guard' = [guard EXCEPT ![c] = y], InQueue' = InQueue \ {y}, OneEntry', link' = link
  PROVE  SoleOwner'
<1>1. guard \in [Clients -> Conns \cup {NoConn}] /\ NoConn \notin InQueue
  BY QueueConns DEF Sole, Typed, TypeOK
<1>2. OneGuard'
  BY <1>1 DEF Sole, SoleOwner, OneGuard, NotShared
<1>3. NotShared'
  BY <1>1 DEF Sole, SoleOwner, NotShared
<1>4. NotDead'
  BY <1>1, QueueConns DEF Sole, SoleOwner, NotDead, Alive
<1> QED
  BY <1>2, <1>3, <1>4 DEF SoleOwner

(* The three ways to take the front end in the same step.                  *)
LEMMA FrontTaken ==
  ASSUME Sole, NEW c \in Clients, ExpandTake(c) \/ GetTake(c) \/ WakeTake(c)
  PROVE  \E y \in InQueue : /\ guard' = [guard EXCEPT ![c] = y]
                            /\ InQueue' = InQueue \ {y} /\ OneEntry' /\ link' = link
<1>1. TakeFront(c) /\ m_conn_queue # <<>>
  BY DEF ExpandTake, GetTake, WakeTake, Sole, Typed, ExpandsSome, TypeOK
<1> QED
  BY <1>1, TakeFacts DEF TakeFront, Deliver

(* Only these steps leave the client without a connection.                 *)
LEMMA NothingTaken ==
  ASSUME Sole, NEW c \in Clients, GetEnter(c) \/ WakeEmpty(c)
  PROVE  /\ InQueue' = InQueue /\ OneEntry' /\ link' = link
         /\ guard' = guard \/ guard' = [guard EXCEPT ![c] = NoConn]
BY DEF GetEnter, WakeEmpty, Deliver, poolVars, InQueue, OneEntry, Sole, SoleOwner

LEMMA CreateSole ==
  ASSUME Sole, NEW x \in Unborn, Create(x), guard' = guard
  PROVE  SoleOwner'
<1>1. OneGuard' /\ NotShared'
  BY CreateFacts DEF Sole, SoleOwner, OneGuard, NotShared
<1>2. NotDead'
  BY CreateFacts, QueueConns DEF Sole, SoleOwner, NotDead
<1> QED
  BY <1>1, <1>2, CreateFacts DEF SoleOwner

LEMMA ReturnValidSole ==
  ASSUME Sole, NEW c \in Clients, ReturnValid(c)
  PROVE  SoleOwner'
<1>1. guard \in [Clients -> Conns \cup {NoConn}] /\ NoConn \notin Conns
  BY DbPoolAssumption DEF Sole, Typed, TypeOK
<1>2. OneGuard'
  BY <1>1, ReturnFacts DEF Sole, SoleOwner, OneGuard
<1>3. NotShared'
  BY <1>1, ReturnFacts, QueueConns DEF Sole, SoleOwner, OneGuard, NotShared
<1>4. NotDead'
  BY <1>1, ReturnFacts DEF Sole, SoleOwner, NotDead, Alive
<1> QED
  BY <1>2, <1>3, <1>4, ReturnFacts DEF SoleOwner

LEMMA ReturnInvalidFacts ==
  ASSUME Sole, NEW c \in Clients, ReturnInvalid(c)
  PROVE  /\ guard[c] \in Conns /\ guard[c] # NoConn /\ guard[c] \in Alive
         /\ guard[c] \notin InQueue
         /\ guard' = [guard EXCEPT ![c] = NoConn]
         /\ InQueue' = InQueue /\ OneEntry' /\ Alive' = Alive \ {guard[c]}
         /\ \A y \in Conns : y # guard[c] => link'[y] = link[y]
<1>1. guard[c] \in Conns /\ guard[c] # NoConn /\ guard[c] \in Alive /\ guard[c] \notin InQueue
  BY DEF ReturnInvalid, Returning, Sole, Typed, TypeOK, SoleOwner, NotDead, NotShared
<1>2. InQueue' = InQueue /\ OneEntry'
  BY DEF ReturnInvalid, InQueue, Sole, SoleOwner, OneEntry
<1>3. link' = [link EXCEPT ![guard[c]] = "none"] /\ guard' = [guard EXCEPT ![c] = NoConn]
  BY DEF ReturnInvalid
<1>4. Alive' = Alive \ {guard[c]} /\ \A y \in Conns : y # guard[c] => link'[y] = link[y]
  BY <1>1, <1>3 DEF Alive, Sole, Typed, TypeOK
<1> QED
  BY <1>1, <1>2, <1>3, <1>4

LEMMA ReturnInvalidSole ==
  ASSUME Sole, NEW c \in Clients, ReturnInvalid(c)
  PROVE  SoleOwner'
<1>1. guard \in [Clients -> Conns \cup {NoConn}] /\ NoConn \notin Conns
  BY DbPoolAssumption DEF Sole, Typed, TypeOK
<1>2. OneGuard' /\ NotShared'
  BY <1>1, ReturnInvalidFacts, QueueConns DEF Sole, SoleOwner, OneGuard, NotShared
<1>3. NotDead'
  BY <1>1, ReturnInvalidFacts, QueueConns DEF Sole, SoleOwner, NotDead, OneGuard
<1> QED
  BY <1>2, <1>3, ReturnInvalidFacts DEF SoleOwner

LEMMA ClientCloseFacts ==
  ASSUME Sole, NEW c \in Clients, ClientClose(c)
  PROVE  InQueue' = InQueue /\ Alive' = Alive /\ guard' = guard /\ SoleOwner'
<1>1. guard[c] \in Conns /\ guard[c] \in Alive /\ guard[c] \notin InQueue
  BY DEF ClientClose, Sole, Typed, TypeOK, SoleOwner, NotDead, NotShared
<1>2. link' = [link EXCEPT ![guard[c]] = "closed"] /\ guard' = guard
      /\ m_conn_queue' = m_conn_queue
  BY DEF ClientClose, clientVars
<1>3. InQueue' = InQueue /\ OneEntry'
  BY <1>2 DEF InQueue, Sole, SoleOwner, OneEntry
<1>4. Alive' = Alive
  BY <1>1, <1>2 DEF Alive, Sole, Typed, TypeOK
<1>5. NotDead'
  BY <1>1, <1>2, <1>3, <1>4, QueueConns DEF Sole, Typed, TypeOK, SoleOwner, NotDead
<1> QED
  BY <1>2, <1>3, <1>4, <1>5 DEF Sole, SoleOwner, OneGuard, NotShared

LEMMA DropSole ==
  ASSUME Sole, RecycleDrop
  PROVE  SoleOwner'
<1> DEFINE x == Head(m_conn_queue).conn
<1>1. /\ x \in InQueue /\ InQueue' = InQueue \ {x} /\ OneEntry' /\ Alive' = Alive \ {x}
      /\ guard' = guard /\ \A y \in Conns : y # x => link'[y] = link[y]
  BY DropFacts
<1> HIDE DEF x
<1>2. OneGuard' /\ NotShared'
  BY <1>1 DEF Sole, SoleOwner, OneGuard, NotShared
<1>3. NotDead'
  BY <1>1, QueueConns DEF Sole, SoleOwner, NotDead, NotShared
<1> QED
  BY <1>1, <1>2, <1>3 DEF SoleOwner

LEMMA InitPoolSole ==
  ASSUME Sole, InitPool
  PROVE  SoleOwner'
<1>1. PICK k \in Nat : Source(k)
  BY DbPoolAssumption DEF InitPool
<1>2. PICK X \in SUBSET Unborn :
        /\ InQueue' = InQueue \cup X /\ Alive' = Alive \cup X /\ OneEntry'
        /\ \A x \in Conns : link'[x] = IF x \in X THEN "open" ELSE link[x]
  BY <1>1, SourceFacts
<1>3. guard' = guard /\ NoConn \notin X /\ X \subseteq Conns /\ X \cap Alive = {}
  BY DbPoolAssumption DEF InitPool, clientVars, Unborn
<1>4. OneGuard'
  BY <1>3 DEF Sole, SoleOwner, OneGuard
<1>5. NotShared'
  BY <1>2, <1>3 DEF Sole, SoleOwner, NotShared, NotDead
<1>6. NotDead'
  BY <1>2, <1>3, QueueConns DEF Sole, SoleOwner, NotDead
<1> QED
  BY <1>2, <1>4, <1>5, <1>6 DEF SoleOwner

LEMMA ShutdownFacts ==
  ASSUME Sole, Shutdown
  PROVE  InQueue' = {} /\ Alive' = Alive \ InQueue /\ guard' = guard /\ SoleOwner'
<1>1. m_conn_queue' = <<>> /\ guard' = guard
      /\ link' = [x \in Conns |-> IF x \in InQueue THEN "none" ELSE link[x]]
  BY DEF Shutdown, clientVars
<1>2. InQueue' = {} /\ OneEntry'
  BY <1>1 DEF InQueue, ConnsIn, OneEntry, NoRepeat
<1>3. Alive' = Alive \ InQueue
  BY <1>1 DEF Alive
<1>4. NotDead' /\ OneGuard' /\ NotShared'
  BY <1>1, <1>2, <1>3 DEF Sole, SoleOwner, NotDead, OneGuard, NotShared
<1> QED
  BY <1>1, <1>2, <1>3, <1>4 DEF SoleOwner

(* Every other step leaves the queue, the links and the guards alone.      *)
QuietStep == \/ \E c \in Clients : GetExpand(c) \/ ExpandThrow(c) \/ GetWait(c) \/ WaitEnds(c)
             \/ RecycleWake \/ RecycleStart \/ RecycleStale \/ RecycleEnd \/ StopRecycle
             \/ UNCHANGED vars

LEMMA QuietFacts == QuietStep => UNCHANGED <<m_conn_queue, link, guard, m_current_size>>
BY DEF QuietStep, GetExpand, ExpandThrow, GetWait, WaitEnds, RecycleWake, RecycleStart,
       RecycleStale, RecycleEnd, StopRecycle, poolVars, clientVars, vars

LEMMA SoleStep == Sole /\ [Next]_vars => SoleOwner'
<1> SUFFICES ASSUME Sole, [Next]_vars PROVE SoleOwner'
  OBVIOUS
<1>1. ASSUME NEW c \in Clients, GetEnter(c) \/ WakeEmpty(c) PROVE SoleOwner'
  <2>1. InQueue' = InQueue \ {NoConn}
    BY <1>1, NothingTaken, QueueConns DEF Sole
  <2> QED
    BY <1>1, <2>1, NothingTaken, SameOwners, DeliverSole
<1>2. ASSUME NEW c \in Clients, ExpandTake(c) \/ GetTake(c) \/ WakeTake(c) PROVE SoleOwner'
  BY <1>2, FrontTaken, DeliverSole
<1>3. ASSUME NEW c \in Clients, ExpandOne(c) PROVE SoleOwner'
  BY <1>3, CreateSole DEF ExpandOne
<1>4. ASSUME NEW c \in Clients, Return(c) PROVE SoleOwner'
  BY <1>4, ReturnValidSole, ReturnInvalidSole DEF Return
<1>5. ASSUME NEW c \in Clients, ClientClose(c) PROVE SoleOwner'
  BY <1>5, ClientCloseFacts
<1>6. CASE Age \/ RecycleRotate
  BY <1>6, AgeFacts, RotateFacts, SameOwners
<1>7. CASE RecycleDrop
  BY <1>7, DropSole
<1>8. CASE InitPool
  BY <1>8, InitPoolSole
<1>9. CASE Shutdown
  BY <1>9, ShutdownFacts
<1>10. CASE QuietStep
  BY <1>10, QuietFacts, StillSole
<1> QED
  BY <1>1, <1>2, <1>3, <1>4, <1>5, <1>6, <1>7, <1>8, <1>9, <1>10
     DEF Next, Serve, Get, Recycle, QuietStep

LEMMA SoleInit == Init => Sole
<1>1. ASSUME Init PROVE SoleOwner
  BY <1>1 DEF Init, SoleOwner, OneEntry, NoRepeat, OneGuard, NotShared, NotDead, InQueue,
              ConnsIn
<1> QED
  BY <1>1, TypeInit DEF Sole

(* However the clients, the recycle thread, shutdown() and init()           *)
(* interleave, no connection is in two hands at once and none is deleted    *)
(* while it is in use.                                                      *)
THEOREM OneOwner == Spec => []SoleOwner
<1>1. Sole /\ [Next]_vars => Sole'
  BY SoleStep, TypeStep DEF Sole
<1>2. Sole => SoleOwner
  BY DEF Sole
<1> QED
  BY SoleInit, <1>1, <1>2, PTL DEF Spec

-----------------------------------------------------------------------------
(* The pool keeps what LendingPool promises: every step is one of its      *)
(* steps or changes nothing that it describes.                             *)
Held == {guard[c] : c \in Clients}
Lost == Alive \ (InQueue \cup Held)

LEMMA OpenFacts ==
  ASSUME Sole
  PROVE  Lending!Open \subseteq Alive \cup {NoConn} /\ InQueue \subseteq Alive
<1>1. InQueue \subseteq Alive
  BY QueueConns DEF Sole, SoleOwner, NotDead, Alive
<1>2. Held \subseteq Alive \cup {NoConn}
  BY DEF Sole, SoleOwner, NotDead, Held
<1> QED
  BY <1>1, <1>2 DEF Lending!Open, Held, Lost

(* What the guard held before it is assigned is lost.                      *)
LEMMA DeliverLoses ==
  ASSUME Sole, NEW c \in Clients, NEW y \in InQueue \cup {NoConn},
         guard' = [guard EXCEPT ![c] = y], InQueue' = InQueue \ {y}, link' = link
  PROVE  Lost' = Lost \cup ({guard[c]} \ {NoConn})
<1>1. guard \in [Clients -> Conns \cup {NoConn}] /\ NoConn \notin Conns
  BY DbPoolAssumption DEF Sole, Typed, TypeOK
<1>2. Alive' = Alive /\ NoConn \notin Alive /\ Alive \subseteq Conns
  BY <1>1 DEF Alive
<1>3. ASSUME NEW z \in Alive PROVE z \in Held' <=> z = y \/ (z \in Held /\ z # guard[c])
  BY <1>1, <1>2, <1>3 DEF Held, Sole, SoleOwner, OneGuard
<1>4. guard[c] # NoConn => guard[c] \in Alive /\ guard[c] \notin InQueue /\ guard[c] \in Held
  BY DEF Sole, SoleOwner, NotDead, NotShared, Held
<1>5. y \in Alive => y \in InQueue
  BY <1>2
<1> QED
  BY <1>2, <1>3, <1>4, <1>5 DEF Lost

LEMMA DeliverLends ==
  ASSUME Sole, NEW c \in Clients, NEW y \in InQueue,
         guard' = [guard EXCEPT ![c] = y], InQueue' = InQueue \ {y}, link' = link
  PROVE  Lending!LendingNext
<1>1. Lost' = Lost \cup ({guard[c]} \ {NoConn})
  BY DeliverLoses
<1>2. Lending!Lend(c, y)
  BY <1>1 DEF Lending!Lend, Lending!LoseOld, Lost, Held
<1> QED
  BY <1>2 DEF Lending!LendingNext

LEMMA DeliverNothing ==
  ASSUME Sole, NEW c \in Clients,
         guard' = [guard EXCEPT ![c] = NoConn], InQueue' = InQueue, link' = link
  PROVE  Lending!LendingNext
<1>1. InQueue' = InQueue \ {NoConn}
  BY QueueConns DEF Sole
<1>2. Lost' = Lost \cup ({guard[c]} \ {NoConn})
  BY <1>1, DeliverLoses
<1>3. Lending!LendNothing(c)
  BY <1>2 DEF Lending!LendNothing, Lending!LoseOld, Lost, Held
<1> QED
  BY <1>3 DEF Lending!LendingNext

LEMMA OpensIdle ==
  ASSUME Sole, NEW X \in SUBSET Unborn,
         InQueue' = InQueue \cup X, Alive' = Alive \cup X, guard' = guard
  PROVE  Lending!LendingNext
<1>1. X \cap Lending!Open = {} /\ X \in SUBSET Conns
  BY OpenFacts, DbPoolAssumption DEF Unborn
<1>2. Lost' = Lost
  BY OpenFacts DEF Lost, Held, Unborn
<1>3. Lending!OpenIdle(X)
  BY <1>1, <1>2 DEF Lending!OpenIdle, Lost, Held
<1> QED
  BY <1>1, <1>3 DEF Lending!LendingNext

LEMMA ClosesIdle ==
  ASSUME Sole, NEW X \in SUBSET InQueue,
         InQueue' = InQueue \ X, Alive' = Alive \ X, guard' = guard
  PROVE  Lending!LendingNext
<1>1. Lost' = Lost
  BY DEF Lost, Held
<1>2. Lending!CloseIdle(X)
  BY <1>1 DEF Lending!CloseIdle, Lost, Held
<1> QED
  BY <1>2 DEF Lending!LendingNext

LEMMA GivesBack ==
  ASSUME Sole, NEW c \in Clients, Return(c)
  PROVE  Lending!LendingNext
<1>1. guard \in [Clients -> Conns \cup {NoConn}] /\ NoConn \notin Alive
  BY DbPoolAssumption DEF Sole, Typed, TypeOK, Alive
<1>2. ASSUME guard' = [guard EXCEPT ![c] = NoConn], NEW z \in Alive
      PROVE  z \in Held' <=> z \in Held /\ z # guard[c]
  BY <1>1, <1>2 DEF Held, Sole, SoleOwner, OneGuard
<1>3. CASE ReturnValid(c)
  <2>1. /\ guard' = [guard EXCEPT ![c] = NoConn] /\ guard[c] # NoConn
        /\ InQueue' = InQueue \cup {guard[c]} /\ Alive' = Alive /\ guard[c] \in Held
    BY <1>3, ReturnFacts DEF Alive, Held
  <2>2. Lost' = Lost
    BY <1>2, <2>1 DEF Lost
  <2>3. Lending!GiveBack(c)
    BY <2>1, <2>2 DEF Lending!GiveBack, Lost, Held
  <2> QED
    BY <2>3 DEF Lending!LendingNext
<1>4. CASE ReturnInvalid(c)
  <2>1. /\ guard' = [guard EXCEPT ![c] = NoConn] /\ guard[c] # NoConn
        /\ InQueue' = InQueue /\ Alive' = Alive \ {guard[c]} /\ guard[c] \in Held
    BY <1>4, ReturnInvalidFacts DEF Held
  <2>2. Lost' = Lost
    BY <1>2, <2>1 DEF Lost
  <2>3. Lending!Discard(c)
    BY <2>1, <2>2 DEF Lending!Discard, Lost, Held
  <2> QED
    BY <2>3 DEF Lending!LendingNext
<1> QED
  BY <1>3, <1>4 DEF Return

LEMMA SameLending ==
  ASSUME InQueue' = InQueue, Alive' = Alive, guard' = guard
  PROVE  UNCHANGED <<InQueue, guard, Lost>>
BY DEF Lost, Held

(* The variables of LendingPool, as the refinement maps them.              *)
LEMMA Mapped == UNCHANGED <<InQueue, guard, Lost>> => UNCHANGED Lending!lendingVars
BY DEF Lending!lendingVars, Lost, Held

LEMMA RefinementStep == Sole /\ [Next]_vars => [Lending!LendingNext]_(Lending!lendingVars)
<1> DEFINE Step == Lending!LendingNext \/ UNCHANGED <<InQueue, guard, Lost>>
<1> SUFFICES ASSUME Sole, [Next]_vars PROVE Step
  BY Mapped
<1>1. ASSUME NEW c \in Clients, GetEnter(c) \/ WakeEmpty(c) PROVE Step
  <2>1. InQueue' = InQueue /\ link' = link /\ Alive' = Alive
    BY <1>1, NothingTaken DEF Alive
  <2>2. CASE guard' = guard
    BY <2>1, <2>2, SameLending
  <2>3. CASE guard' = [guard EXCEPT ![c] = NoConn]
    BY <2>1, <2>3, DeliverNothing
  <2> QED
    BY <1>1, <2>2, <2>3, NothingTaken
<1>2. ASSUME NEW c \in Clients, ExpandTake(c) \/ GetTake(c) \/ WakeTake(c) PROVE Step
  BY <1>2, FrontTaken, DeliverLends
<1>3. ASSUME NEW c \in Clients, ExpandOne(c) PROVE Step
  <2>1. PICK x \in Unborn : Create(x)
    BY <1>3 DEF ExpandOne
  <2>2. guard' = guard /\ {x} \in SUBSET Unborn
    BY <1>3 DEF ExpandOne
  <2> QED
    BY <2>1, <2>2, CreateFacts, OpensIdle
<1>4. ASSUME NEW c \in Clients, Return(c) PROVE Step
  BY <1>4, GivesBack
<1>5. ASSUME NEW c \in Clients, ClientClose(c) PROVE Step
  BY <1>5, ClientCloseFacts, SameLending
<1>6. CASE Age \/ RecycleRotate
  <2>1. InQueue' = InQueue /\ guard' = guard /\ Alive' = Alive
    BY <1>6, AgeFacts, RotateFacts DEF Alive
  <2> QED
    BY <2>1, SameLending
<1>7. CASE RecycleDrop
  <2>1. PICK x : /\ x \in InQueue /\ InQueue' = InQueue \ {x} /\ Alive' = Alive \ {x}
                 /\ guard' = guard
    BY <1>7, DropFacts
  <2> QED
    BY <2>1, ClosesIdle
<1>8. CASE InitPool
  <2>1. PICK k \in Nat : Source(k)
    BY <1>8, DbPoolAssumption DEF InitPool
  <2>2. PICK X \in SUBSET Unborn : InQueue' = InQueue \cup X /\ Alive' = Alive \cup X
    BY <2>1, SourceFacts
  <2>3. guard' = guard
    BY <1>8 DEF InitPool, clientVars
  <2> QED
    BY <2>2, <2>3, OpensIdle
<1>9. CASE Shutdown
  BY <1>9, ShutdownFacts, ClosesIdle
<1>10. CASE QuietStep
  <2>1. InQueue' = InQueue /\ guard' = guard /\ Alive' = Alive
    BY <1>10, QuietFacts DEF InQueue, Alive
  <2> QED
    BY <2>1, SameLending
<1> QED
  BY <1>1, <1>2, <1>3, <1>4, <1>5, <1>6, <1>7, <1>8, <1>9, <1>10
     DEF Next, Serve, Get, Recycle, QuietStep

LEMMA RefinementInit == Init => Lending!LendingInit
<1> SUFFICES ASSUME Init PROVE Lending!LendingInit
  OBVIOUS
<1>1. InQueue = {} /\ Alive = {}
  BY DEF Init, InQueue, ConnsIn, Alive
<1> QED
  BY <1>1 DEF Init, Lending!LendingInit

(* The pool implements LendingPool, also across shutdown() and init().      *)
THEOREM ImplementsLending == Spec => ImplementsLendingPool
<1>1. Sole /\ [Next]_vars => Sole'
  BY SoleStep, TypeStep DEF Sole
<1> QED
  BY SoleInit, <1>1, RefinementInit, RefinementStep, PTL
     DEF Spec, ImplementsLendingPool, Lending!LendingSpec

-----------------------------------------------------------------------------
(* The recycle thread spares m_min_size connections.                       *)

(* Nobody else touches the queue, except its ages, while the scan runs.    *)
LEMMA ScanAlone ==
  ASSUME Typed, [Next]_vars, recycler' = "scanning", ~RecycleStart, ~RecycleDrop
  PROVE  /\ recycler = "scanning" /\ quota' = quota
         /\ Len(m_conn_queue') = Len(m_conn_queue)
<1> USE DbPoolAssumption DEF Typed, TypeOK, LockedLoops
<1>1. ASSUME NEW c \in Clients, GetEnter(c) \/ Get(c) \/ WaitEnds(c) \/ Return(c) \/ ClientClose(c)
      PROVE  recycler = "scanning" /\ quota' = quota /\ m_conn_queue' = m_conn_queue
  <2>1. recycler' = recycler /\ quota' = quota
    BY <1>1 DEF GetEnter, Get, GetExpand, ExpandOne, ExpandThrow, ExpandTake, GetTake, GetWait,
       WakeTake, WakeEmpty, WaitEnds, Return, ReturnValid, ReturnInvalid, ClientClose, recycleVars
  <2>2. m_mutex = Recycler /\ pc[c] # "expanding" /\ ~Unlocked
    BY <2>1 DEF Unlocked
  <2>3. m_conn_queue' = m_conn_queue
    BY <1>1, <2>2 DEF GetEnter, Get, GetExpand, ExpandOne, ExpandThrow, ExpandTake, GetTake,
       GetWait, WakeTake, WakeEmpty, WaitEnds, Return, ReturnValid, ReturnInvalid, ClientClose,
       Returning, poolVars
  <2> QED
    BY <2>1, <2>3
<1>2. CASE Age
  BY <1>2, AgeType DEF Age, recycleVars
<1>3. CASE RecycleWake \/ RecycleStale \/ RecycleEnd
  BY <1>3 DEF RecycleWake, RecycleStale, RecycleEnd
<1>4. CASE RecycleRotate
  <2>1. m_conn_queue # <<>>
    BY <1>4 DEF RecycleRotate, Scanning
  <2>2. Len(m_conn_queue') = Len(m_conn_queue)
    BY <1>4, <2>1, TailConns, AppendProperties DEF RecycleRotate
  <2> QED
    BY <1>4, <2>2 DEF RecycleRotate, Scanning
<1>5. CASE InitPool
  BY <1>5 DEF InitPool, NobodyInside, Unlocked
<1>6. CASE Shutdown
  BY <1>6 DEF Shutdown, Unlocked, recycleVars
<1>7. CASE StopRecycle \/ UNCHANGED vars
  BY <1>7 DEF StopRecycle, recycleVars, poolVars, vars
<1> QED
  BY <1>1, <1>2, <1>3, <1>4, <1>5, <1>6, <1>7 DEF Next, Serve, Recycle

LEMMA SparesStep == Typed /\ RecycleSparesMin /\ [Next]_vars => RecycleSparesMin'
<1> SUFFICES ASSUME Typed, RecycleSparesMin, [Next]_vars, recycler' = "scanning"
             PROVE  Len(m_conn_queue') >= MinSize + quota'
  BY DEF RecycleSparesMin
<1>1. Len(m_conn_queue) \in Nat /\ MinSize \in Nat /\ quota \in Nat
  BY DbPoolAssumption DEF Typed, TypeOK
<1>2. CASE RecycleStart
  BY <1>1, <1>2 DEF RecycleStart, poolVars
<1>3. CASE RecycleDrop
  <2>1. m_conn_queue # <<>> /\ recycler = "scanning" /\ m_conn_queue \in Seq(Entry)
    BY <1>3 DEF RecycleDrop, Scanning, Typed, TypeOK, LockedLoops
  <2>2. Len(m_conn_queue') = Len(m_conn_queue) - 1 /\ quota' = quota - 1
    BY <1>3, <2>1, TailConns DEF RecycleDrop
  <2> QED
    BY <1>1, <2>1, <2>2 DEF RecycleSparesMin
<1>4. CASE ~RecycleStart /\ ~RecycleDrop
  BY <1>1, <1>4, ScanAlone DEF RecycleSparesMin
<1> QED
  BY <1>2, <1>3, <1>4

(* A scan that started never takes the queue below m_min_size, whatever    *)
(* the clients and the application do in the meantime.                     *)
THEOREM SparesMin == Spec => []RecycleSparesMin
<1>1. Init => RecycleSparesMin
  BY DEF Init, RecycleSparesMin
<1> QED
  BY TypeInit, TypeStep, <1>1, SparesStep, PTL DEF Spec

-----------------------------------------------------------------------------
(* The queue is ordered by how long its entries have been unused.          *)
Sorted(q) == \A i, j \in DOMAIN q : i < j /\ q[j].idle => q[i].idle

LEMMA AppendSorted ==
  ASSUME NEW q \in Seq(Entry), NEW e \in Entry, ~e.idle, Sorted(q)
  PROVE  Sorted(Append(q, e))
<1>1. /\ \A i \in 1..Len(q) : Append(q, e)[i] = q[i]
      /\ Append(q, e)[Len(q) + 1] = e /\ Len(q) \in Nat
      /\ DOMAIN q = 1..Len(q) /\ DOMAIN Append(q, e) = 1..(Len(q) + 1)
  BY AppendProperties
<1> SUFFICES ASSUME NEW i \in 1..(Len(q) + 1), NEW j \in 1..(Len(q) + 1), i < j,
                    Append(q, e)[j].idle
             PROVE  Append(q, e)[i].idle
  BY <1>1 DEF Sorted
<1>2. i \in 1..Len(q) /\ j \in 1..Len(q)
  BY <1>1
<1> QED
  BY <1>1, <1>2 DEF Sorted

LEMMA TailSorted ==
  ASSUME NEW q \in Seq(Entry), q # <<>>, Sorted(q)
  PROVE  Sorted(Tail(q)) /\ (~Head(q).idle => \A i \in DOMAIN q : ~q[i].idle)
<1>1. /\ Len(q) \in Nat \ {0} /\ Head(q) = q[1]
      /\ \A i \in 1..(Len(q) - 1) : Tail(q)[i] = q[i + 1]
      /\ DOMAIN q = 1..Len(q) /\ DOMAIN Tail(q) = 1..(Len(q) - 1)
  BY HeadTailProperties
<1>2. Sorted(Tail(q))
  <2> SUFFICES ASSUME NEW i \in 1..(Len(q) - 1), NEW j \in 1..(Len(q) - 1), i < j,
                      Tail(q)[j].idle
               PROVE  Tail(q)[i].idle
    BY <1>1 DEF Sorted
  <2>1. i + 1 \in 1..Len(q) /\ j + 1 \in 1..Len(q) /\ i + 1 < j + 1
    BY <1>1
  <2> QED
    BY <1>1, <2>1 DEF Sorted
<1>3. ASSUME ~Head(q).idle, NEW i \in 1..Len(q) PROVE ~q[i].idle
  <2>1. 1 \in 1..Len(q) /\ (i = 1 \/ 1 < i)
    BY <1>1
  <2> QED
    BY <1>1, <1>3, <2>1 DEF Sorted
<1> QED
  BY <1>1, <1>2, <1>3

LEMMA ConcatSorted ==
  ASSUME NEW q \in Seq(Entry), NEW r \in Seq(Entry), Sorted(q), \A i \in DOMAIN r : ~r[i].idle
  PROVE  Sorted(q \o r)
<1>1. /\ Len(q \o r) = Len(q) + Len(r)
      /\ \A i \in 1..(Len(q) + Len(r)) :
            (q \o r)[i] = IF i <= Len(q) THEN q[i] ELSE r[i - Len(q)]
      /\ Len(q) \in Nat /\ Len(r) \in Nat
      /\ DOMAIN q = 1..Len(q) /\ DOMAIN r = 1..Len(r)
      /\ DOMAIN (q \o r) = 1..(Len(q) + Len(r))
  BY ConcatProperties
<1> SUFFICES ASSUME NEW i \in 1..(Len(q) + Len(r)), NEW j \in 1..(Len(q) + Len(r)), i < j,
                    (q \o r)[j].idle
             PROVE  (q \o r)[i].idle
  BY <1>1 DEF Sorted
<1>2. j <= Len(q)
  <2>1. ASSUME j > Len(q) PROVE FALSE
    <3>1. j - Len(q) \in 1..Len(r)
      BY <1>1, <2>1
    <3> QED
      BY <1>1, <2>1, <3>1
  <2> QED
    BY <1>1, <2>1
<1>3. i \in 1..Len(q) /\ j \in 1..Len(q)
  BY <1>1, <1>2
<1> QED
  BY <1>1, <1>3 DEF Sorted

LEMMA AgeSorted ==
  ASSUME Typed, Sorted(m_conn_queue), Age
  PROVE  Sorted(m_conn_queue')
<1>1. PICK n \in 1..Len(m_conn_queue) :
        m_conn_queue' = [i \in DOMAIN m_conn_queue |->
                           IF i <= n THEN [m_conn_queue[i] EXCEPT !.idle = TRUE]
                                     ELSE m_conn_queue[i]]
  BY DEF Age
<1>2. /\ Len(m_conn_queue) \in Nat /\ DOMAIN m_conn_queue = 1..Len(m_conn_queue)
      /\ \A i \in 1..Len(m_conn_queue) : m_conn_queue[i] \in Entry
  BY DEF Typed, TypeOK
<1>3. \A i \in 1..Len(m_conn_queue) :
        m_conn_queue'[i].idle = (i <= n \/ m_conn_queue[i].idle)
  <2> TAKE i \in 1..Len(m_conn_queue)
  <2>1. CASE i <= n
    BY <1>1, <1>2, <2>1 DEF Entry
  <2>2. CASE ~(i <= n)
    BY <1>1, <1>2, <2>2 DEF Entry
  <2> QED
    BY <2>1, <2>2
<1>4. DOMAIN m_conn_queue' = 1..Len(m_conn_queue)
  BY <1>1, <1>2
<1> SUFFICES ASSUME NEW i \in 1..Len(m_conn_queue), NEW j \in 1..Len(m_conn_queue), i < j,
                    m_conn_queue'[j].idle
             PROVE  m_conn_queue'[i].idle
  BY <1>4 DEF Sorted
<1>5. j <= n \/ m_conn_queue[j].idle
  BY <1>3
<1>6. i <= n \/ m_conn_queue[i].idle
  BY <1>2, <1>5 DEF Sorted
<1> QED
  BY <1>3, <1>6

LEMMA SortedStep == Typed /\ Sorted(m_conn_queue) /\ [Next]_vars => Sorted(m_conn_queue)'
<1> SUFFICES ASSUME Typed, Sorted(m_conn_queue), [Next]_vars PROVE Sorted(m_conn_queue')
  OBVIOUS
<1>1. m_conn_queue \in Seq(Entry)
  BY DEF Typed, TypeOK
<1>2. ASSUME m_conn_queue # <<>>, m_conn_queue' = Tail(m_conn_queue) PROVE Sorted(m_conn_queue')
  BY <1>1, <1>2, TailSorted
<1>3. ASSUME NEW x \in Conns, m_conn_queue' = Append(m_conn_queue, [conn |-> x, idle |-> FALSE])
      PROVE  Sorted(m_conn_queue')
  BY <1>1, <1>3, AppendSorted DEF Entry
<1>4. ASSUME NEW c \in Clients, ExpandOne(c) PROVE Sorted(m_conn_queue')
  BY <1>3, <1>4 DEF ExpandOne, Create, Unborn
<1>5. ASSUME NEW c \in Clients, ExpandTake(c) \/ GetTake(c) \/ WakeTake(c)
      PROVE  Sorted(m_conn_queue')
  BY <1>2, <1>5 DEF ExpandTake, GetTake, WakeTake, TakeFront, Typed, ExpandsSome, TypeOK
<1>6. ASSUME NEW c \in Clients, ReturnValid(c) PROVE Sorted(m_conn_queue')
  BY <1>3, <1>6 DEF ReturnValid, Returning, Typed, TypeOK
<1>7. CASE Age
  BY <1>7, AgeSorted
<1>8. CASE RecycleDrop
  BY <1>2, <1>8 DEF RecycleDrop, Scanning, Typed, TypeOK, LockedLoops
<1>9. CASE RecycleRotate
  <2>1. m_conn_queue # <<>>
    BY <1>9 DEF RecycleRotate, Scanning, Typed, TypeOK, LockedLoops
  <2>2. Sorted(Tail(m_conn_queue)) /\ ~Head(m_conn_queue).idle
        /\ Tail(m_conn_queue) \in Seq(Entry) /\ Head(m_conn_queue) \in Entry
    BY <1>1, <1>9, <2>1, TailSorted, TailConns DEF RecycleRotate
  <2> QED
    BY <1>9, <2>2, AppendSorted DEF RecycleRotate
<1>10. CASE InitPool
  <2>1. PICK k \in Nat : Source(k)
    BY <1>10, DbPoolAssumption DEF InitPool
  <2>2. PICK s \in [1..k -> Unborn] : m_conn_queue' = m_conn_queue \o NewEntries(k, s)
    BY <2>1 DEF Source, NewEntries
  <2>3. NewEntries(k, s) \in Seq(Entry)
        /\ \A i \in DOMAIN NewEntries(k, s) : ~NewEntries(k, s)[i].idle
    BY <2>2 DEF NewEntries, Entry, Unborn
  <2> QED
    BY <1>1, <2>2, <2>3, ConcatSorted
<1>11. CASE Shutdown
  BY <1>11 DEF Shutdown, Sorted
<1>12. ASSUME NEW c \in Clients,
              GetEnter(c) \/ WakeEmpty(c) \/ ReturnInvalid(c) \/ ClientClose(c)
       PROVE  Sorted(m_conn_queue')
  BY <1>12 DEF GetEnter, WakeEmpty, ReturnInvalid, ClientClose, poolVars
<1>13. CASE QuietStep
  BY <1>13, QuietFacts
<1> QED
  BY <1>4, <1>5, <1>6, <1>7, <1>8, <1>9, <1>10, <1>11, <1>12, <1>13
     DEF Next, Serve, Get, Return, Recycle, QuietStep

(* The front of the queue is always the connection unused for longest, so  *)
(* the scan, which looks from the front, finds the ones to close, as long  *)
(* as what push() copies of a popped entry is still the entry.             *)
THEOREM FrontIsOldest == Spec => []OldestFirst
<1>1. Init => Sorted(m_conn_queue)
  BY DEF Init, Sorted
<1>2. Sorted(m_conn_queue) => OldestFirst
  BY DEF Sorted, OldestFirst
<1> QED
  BY TypeInit, TypeStep, <1>1, <1>2, SortedStep, PTL DEF Spec

-----------------------------------------------------------------------------
(* The count of connections of a pool in service.  It is exact because     *)
(* init() finds the pool as it was made, and because only the client that  *)
(* holds m_mutex has connections left to create.                           *)
Unused == app = "down" =>
            /\ m_conn_queue = <<>> /\ Alive = {} /\ m_current_size = 0 /\ to_create = 0
            /\ recycler = "off" /\ ~m_initialized
            /\ \A c \in Clients : pc[c] = "out" /\ guard[c] = NoConn

OneCreates == to_create > 0 => \E c \in Clients : pc[c] = "expanding"

Counted == Sole /\ Unused /\ OneCreates /\ SizeExact

LEMMA AliveCount ==
  IsFiniteSet(Alive) /\ Cardinality(Alive) \in Nat
BY DbPoolAssumption, FS_Subset, FS_CardinalityType DEF Alive

LEMMA UnusedStep == Typed /\ Unused /\ [Serve]_vars => Unused'
<1> SUFFICES ASSUME Typed, Unused, [Serve]_vars, app' = "down" PROVE Unused'
  BY DEF Unused
<1>1. app = "down"
  BY DEF Serve, GetEnter, Get, GetExpand, ExpandOne, ExpandThrow, ExpandTake, GetTake, GetWait,
         WakeTake, WakeEmpty, WaitEnds, Return, ReturnValid, ReturnInvalid, ClientClose, Age,
         Recycle, RecycleWake, RecycleStart, RecycleDrop, RecycleRotate, RecycleStale, RecycleEnd,
         InitPool, vars
<1>2. \/ UNCHANGED vars
      \/ \E c \in Clients : GetEnter(c)
  <2>1. ASSUME NEW c \in Clients, Get(c) \/ WaitEnds(c) \/ Return(c) \/ ClientClose(c) PROVE FALSE
    BY <1>1, <2>1 DEF Unused, Get, GetExpand, ExpandOne, ExpandThrow, ExpandTake, GetTake,
         GetWait, WakeTake, WakeEmpty, Awake, WaitEnds, Return, ReturnValid, ReturnInvalid,
         Returning, ClientClose
  <2>2. ~Age
    BY <1>1 DEF Unused, Age
  <2>3. ~Recycle
    BY <1>1 DEF Unused, Recycle, RecycleWake, RecycleStart, RecycleDrop, RecycleRotate,
         RecycleStale, RecycleEnd, Scanning
  <2>4. ~InitPool
    BY DEF InitPool
  <2> QED
    BY <2>1, <2>2, <2>3, <2>4 DEF Serve
<1>3. CASE UNCHANGED vars
  BY <1>1, <1>3 DEF vars, Unused, Alive
<1>4. ASSUME NEW c \in Clients, GetEnter(c) PROVE Unused'
  BY <1>1, <1>4 DEF GetEnter, Deliver, Unused, Alive, poolVars, recycleVars, Typed, TypeOK
<1> QED
  BY <1>2, <1>3, <1>4

LEMMA OneCreatesStep == Typed /\ Unused /\ OneCreates /\ [Serve]_vars => OneCreates'
<1> SUFFICES ASSUME Typed, Unused, OneCreates, [Serve]_vars, to_create' > 0
             PROVE  \E c \in Clients : pc'[c] = "expanding"
  BY DEF OneCreates
<1> USE DEF Typed, TypeOK, LockedLoops
<1>1. ASSUME NEW c \in Clients, GetExpand(c) \/ ExpandOne(c) PROVE pc'[c] = "expanding"
  BY <1>1 DEF GetExpand, ExpandOne
<1>2. ASSUME NEW c \in Clients, ExpandThrow(c) PROVE FALSE
  BY <1>2 DEF ExpandThrow
<1>3. ASSUME NEW c \in Clients, ExpandTake(c) PROVE FALSE
  BY <1>3 DEF ExpandTake
<1>4. ASSUME NEW c \in Clients, NEW d \in Clients, pc[d] = "expanding",
             GetEnter(c) \/ GetTake(c) \/ GetWait(c) \/ WakeTake(c) \/ WakeEmpty(c)
             \/ WaitEnds(c) \/ Return(c) \/ ClientClose(c)
      PROVE  pc'[d] = "expanding"
  <2>1. ASSUME ReturnValid(c) PROVE pc'[d] = "expanding"
    BY <1>4, <2>1, NotifyType DEF ReturnValid
  <2> QED
    BY <1>4, <2>1 DEF GetEnter, GetTake, GetWait, WakeTake, WakeEmpty, WaitEnds, Return, TakeFront,
         ReturnInvalid, ClientClose, Deliver, Awake, clientVars
<1>5. ASSUME Age \/ Recycle \/ InitPool \/ UNCHANGED vars
      PROVE  to_create' = to_create /\ pc' = pc
  BY <1>5 DEF Age, Recycle, RecycleWake, RecycleStart, RecycleDrop, RecycleRotate,
       RecycleStale, RecycleEnd,
       InitPool, clientVars, vars
<1>6. ASSUME NEW c \in Clients,
             GetEnter(c) \/ GetTake(c) \/ GetWait(c) \/ WakeTake(c) \/ WakeEmpty(c)
             \/ WaitEnds(c) \/ Return(c) \/ ClientClose(c)
      PROVE  to_create' = to_create
  BY <1>6 DEF GetEnter, GetTake, GetWait, WakeTake, WakeEmpty, WaitEnds, Return, ReturnValid,
       ReturnInvalid, ClientClose, clientVars
<1> QED
  BY <1>1, <1>2, <1>3, <1>4, <1>5, <1>6 DEF OneCreates, Serve, Get

LEMMA SizeStep == Counted /\ [Serve]_vars => SizeExact'
<1> SUFFICES ASSUME Counted, [Serve]_vars PROVE SizeExact'
  OBVIOUS
<1>1. /\ Sole /\ Typed /\ IsFiniteSet(Alive) /\ Cardinality(Alive) \in Nat
      /\ m_current_size = Cardinality(Alive) /\ m_current_size + to_create <= MaxSize
      /\ to_create \in Nat /\ MaxSize \in Nat /\ MinSize \in Nat /\ MinSize <= MaxSize
  BY AliveCount, DbPoolAssumption DEF Counted, SizeExact, Sole, Typed, TypeOK
<1>2. ASSUME Alive' = Alive, m_current_size' = m_current_size, to_create' <= to_create,
             to_create' \in Nat
      PROVE  SizeExact'
  BY <1>1, <1>2 DEF SizeExact
<1>3. ASSUME NEW x \in Alive, Alive' = Alive \ {x}, m_current_size' = m_current_size - 1,
             to_create' = to_create
      PROVE  SizeExact'
  <2>1. Cardinality(Alive') = Cardinality(Alive) - 1
    BY <1>1, <1>3, FS_RemoveElement
  <2> QED
    BY <1>1, <1>3, <2>1 DEF SizeExact
<1>4. ASSUME NEW c \in Clients, GetExpand(c) PROVE SizeExact'
  <2>1. to_create' = CanCreate /\ m_current_size' = m_current_size /\ link' = link
    BY <1>4 DEF GetExpand, poolVars
  <2>2. CanCreate <= MaxSize - m_current_size
    BY <1>1, DbPoolAssumption DEF CanCreate, Least
  <2>3. CanCreate \in Int
    BY <1>1, DbPoolAssumption DEF CanCreate, Least
  <2> QED
    BY <1>1, <2>1, <2>2, <2>3 DEF SizeExact, Alive
<1>5. ASSUME NEW c \in Clients, ExpandOne(c) PROVE SizeExact'
  <2>1. PICK x \in Unborn : Create(x)
    BY <1>5 DEF ExpandOne
  <2>2. Alive' = Alive \cup {x} /\ x \notin Alive
    BY <1>1, <2>1, CreateFacts
  <2>3. Cardinality(Alive') = Cardinality(Alive) + 1
    BY <1>1, <2>2, FS_AddElement
  <2>4. m_current_size' = m_current_size + 1 /\ to_create' = to_create - 1
    BY <1>5, <2>1 DEF Create, ExpandOne
  <2> QED
    BY <1>1, <2>3, <2>4 DEF SizeExact
<1>6. ASSUME NEW c \in Clients, ExpandThrow(c) PROVE SizeExact'
  BY <1>1, <1>2, <1>6 DEF ExpandThrow, poolVars, Alive
<1>7. ASSUME NEW c \in Clients,
             \/ GetEnter(c) \/ ExpandTake(c) \/ GetTake(c) \/ GetWait(c) \/ WakeTake(c)
             \/ WakeEmpty(c) \/ WaitEnds(c) \/ ReturnValid(c)
      PROVE  SizeExact'
  <2>1. link' = link /\ m_current_size' = m_current_size /\ to_create' = to_create
    BY <1>7 DEF GetEnter, ExpandTake, GetTake, GetWait, WakeTake, TakeFront, WakeEmpty, WaitEnds,
         ReturnValid, poolVars
  <2> QED
    BY <1>1, <1>2, <2>1 DEF Alive
<1>8. ASSUME NEW c \in Clients, ReturnInvalid(c) PROVE SizeExact'
  <2>1. m_current_size' = m_current_size - 1 /\ to_create' = to_create
    BY <1>8 DEF ReturnInvalid
  <2> QED
    BY <1>1, <1>3, <1>8, <2>1, ReturnInvalidFacts
<1>9. ASSUME NEW c \in Clients, ClientClose(c) PROVE SizeExact'
  <2>1. Alive' = Alive
    BY <1>1, <1>9, ClientCloseFacts
  <2> QED
    BY <1>1, <1>2, <1>9, <2>1 DEF ClientClose, clientVars
<1>10. CASE RecycleDrop
  <2>1. PICK x \in Alive : Alive' = Alive \ {x}
    BY <1>1, <1>10, DropFacts
  <2> QED
    BY <1>3, <1>10, <2>1 DEF RecycleDrop, clientVars
<1>11. CASE \/ Age \/ RecycleRotate \/ RecycleWake \/ RecycleStart \/ RecycleStale
            \/ RecycleEnd \/ UNCHANGED vars
  <2>1. link' = link /\ m_current_size' = m_current_size /\ to_create' = to_create
    BY <1>11 DEF Age, RecycleRotate, RecycleWake, RecycleStart, RecycleStale, RecycleEnd,
         poolVars, clientVars,
         vars
  <2> QED
    BY <1>1, <1>2, <2>1 DEF Alive
<1>12. CASE app = "down" /\ InitPool
  <2>1. PICK k \in Nat : Source(k) /\ k <= MinSize
    BY <1>1, <1>12 DEF InitPool
  <2>2. PICK X \in SUBSET Unborn : Alive' = Alive \cup X /\ Cardinality(X) = k
    BY <1>1, <2>1, SourceFacts
  <2>3. Alive = {} /\ m_current_size = 0 /\ to_create = 0
    BY <1>12 DEF Counted, Unused
  <2>4. m_current_size' = m_current_size + k /\ to_create' = to_create
    BY <1>12, <2>1 DEF Source, InitPool, clientVars
  <2>5. Cardinality(Alive') = k
    BY <2>2, <2>3
  <2> QED
    BY <1>1, <2>1, <2>3, <2>4, <2>5 DEF SizeExact
<1> QED
  BY <1>4, <1>5, <1>6, <1>7, <1>8, <1>9, <1>10, <1>11, <1>12
     DEF Serve, Get, Return, Recycle

(* While the pool serves, m_current_size is the number of open connections *)
(* and never, not even in the middle of an expansion, above m_max_size.     *)
THEOREM CountExact == ServeSpec => []SizeExact
<1>1. Init => Counted
  <2>1. ASSUME Init PROVE Alive = {} /\ m_current_size = 0 /\ to_create = 0
    BY <2>1 DEF Init, Alive
  <2>2. ASSUME Init PROVE SizeExact
    BY <2>1, <2>2, FS_EmptySet, DbPoolAssumption DEF SizeExact
  <2>3. ASSUME Init PROVE Unused /\ OneCreates
    <3>1. OneCreates
      BY <2>1, <2>3 DEF OneCreates
    <3>2. \A c \in Clients : pc[c] = "out" /\ guard[c] = NoConn
      BY <2>3 DEF Init
    <3>3. m_conn_queue = <<>> /\ recycler = "off" /\ ~m_initialized
      BY <2>3 DEF Init
    <3> QED
      BY <2>1, <2>3, <3>1, <3>2, <3>3 DEF Unused
  <2> QED
    BY <2>2, <2>3, SoleInit DEF Counted
<1>2. Counted /\ [Serve]_vars => Counted'
  <2>1. [Serve]_vars => [Next]_vars
    BY DEF Next
  <2> QED
    BY <2>1, TypeStep, SoleStep, UnusedStep, OneCreatesStep, SizeStep DEF Counted, Sole
<1>3. Counted => SizeExact
  BY DEF Counted
<1> QED
  BY <1>1, <1>2, <1>3, PTL DEF ServeSpec


-----------------------------------------------------------------------------
(* Over restarts the count stays wrong by what shutdown() forgot.          *)
OffByStrays == strays \in Int /\ SizeOffByStrays

LEMMA StraysStep == Sole /\ OffByStrays /\ [MCNext]_<<vars, strays>> => OffByStrays'
<1> SUFFICES ASSUME Sole, OffByStrays, [MCNext]_<<vars, strays>> PROVE OffByStrays'
  OBVIOUS
<1>1. /\ Sole /\ Typed /\ IsFiniteSet(Alive) /\ Cardinality(Alive) \in Nat
      /\ m_current_size \in Int /\ strays \in Int
      /\ Cardinality(Alive) = m_current_size + strays
  BY AliveCount DEF OffByStrays, SizeOffByStrays, Sole, Typed, TypeOK
<1>2. ~Shutdown /\ ~(app = "stopping" /\ app' = "down") => strays' = strays
  BY DEF MCNext, NoteStrays, vars
<1>3. ASSUME Alive' = Alive, m_current_size' = m_current_size, strays' = strays
      PROVE  OffByStrays'
  BY <1>1, <1>3 DEF OffByStrays, SizeOffByStrays
<1>4. ASSUME NEW X \in SUBSET Unborn, NEW k \in Nat, Cardinality(X) = k,
             Alive' = Alive \cup X, m_current_size' = m_current_size + k, strays' = strays
      PROVE  OffByStrays'
  <2>1. IsFiniteSet(X) /\ Alive \cap X = {}
    BY DbPoolAssumption, FS_Subset DEF Unborn
  <2>2. Cardinality(Alive') = Cardinality(Alive) + k
    BY <1>1, <1>4, <2>1, FS_Union, FS_EmptySet
  <2> QED
    BY <1>1, <1>4, <2>2 DEF OffByStrays, SizeOffByStrays
<1>5. ASSUME NEW x \in Alive, Alive' = Alive \ {x}, m_current_size' = m_current_size - 1,
             strays' = strays
      PROVE  OffByStrays'
  <2>1. Cardinality(Alive') = Cardinality(Alive) - 1
    BY <1>1, <1>5, FS_RemoveElement
  <2> QED
    BY <1>1, <1>5, <2>1 DEF OffByStrays, SizeOffByStrays
<1>6. ASSUME NEW c \in Clients, ExpandOne(c) PROVE OffByStrays'
  <2>1. PICK x \in Unborn : Create(x)
    BY <1>6 DEF ExpandOne
  <2>2. Alive' = Alive \cup {x} /\ m_current_size' = m_current_size + 1
    BY <1>1, <2>1, CreateFacts DEF Create
  <2>3. Cardinality({x}) = 1 /\ {x} \in SUBSET Unborn
    BY FS_Singleton
  <2>4. strays' = strays
    BY <1>2, <1>6 DEF ExpandOne, Shutdown
  <2> QED
    BY <1>4, <2>2, <2>3, <2>4
<1>7. ASSUME NEW c \in Clients,
             \/ GetEnter(c) \/ GetExpand(c) \/ ExpandThrow(c) \/ ExpandTake(c) \/ GetTake(c)
             \/ GetWait(c) \/ WakeTake(c) \/ WakeEmpty(c) \/ WaitEnds(c) \/ ReturnValid(c)
      PROVE  OffByStrays'
  <2>1. link' = link /\ m_current_size' = m_current_size /\ app' = app
    BY <1>7 DEF GetEnter, GetExpand, ExpandThrow, ExpandTake, GetTake, GetWait, WakeTake,
       TakeFront, WakeEmpty, WaitEnds, ReturnValid, poolVars
  <2>2. strays' = strays
    BY <1>2, <2>1 DEF Shutdown
  <2> QED
    BY <1>3, <2>1, <2>2 DEF Alive
<1>8. ASSUME NEW c \in Clients, ReturnInvalid(c) PROVE OffByStrays'
  <2>1. m_current_size' = m_current_size - 1 /\ strays' = strays
    BY <1>2, <1>8 DEF ReturnInvalid, Shutdown
  <2> QED
    BY <1>1, <1>5, <1>8, <2>1, ReturnInvalidFacts
<1>9. ASSUME NEW c \in Clients, ClientClose(c) PROVE OffByStrays'
  <2>1. Alive' = Alive
    BY <1>1, <1>9, ClientCloseFacts
  <2> QED
    BY <1>2, <1>3, <1>9, <2>1 DEF ClientClose, Shutdown
<1>10. CASE RecycleDrop
  <2>1. PICK x \in Alive : Alive' = Alive \ {x}
    BY <1>1, <1>10, DropFacts
  <2>2. m_current_size' = m_current_size - 1 /\ strays' = strays
    BY <1>2, <1>10 DEF RecycleDrop, Shutdown
  <2> QED
    BY <1>5, <2>1, <2>2
<1>11. CASE \/ Age \/ RecycleRotate \/ RecycleWake \/ RecycleStart \/ RecycleStale
            \/ RecycleEnd \/ StopRecycle
            \/ UNCHANGED <<vars, strays>>
  <2>1. link' = link /\ m_current_size' = m_current_size
    BY <1>11 DEF Age, RecycleRotate, RecycleWake, RecycleStart, RecycleStale, RecycleEnd,
         StopRecycle,
       poolVars, vars
  <2>2. strays' = strays
    BY <1>2, <1>11 DEF Age, RecycleRotate, RecycleWake, RecycleStart, RecycleStale, RecycleEnd,
         StopRecycle,
       Shutdown, vars
  <2> QED
    BY <1>3, <2>1, <2>2 DEF Alive
<1>12. CASE InitPool
  <2>1. PICK k \in Nat : Source(k)
    BY <1>12, DbPoolAssumption DEF InitPool
  <2>2. PICK X \in SUBSET Unborn : Alive' = Alive \cup X /\ Cardinality(X) = k
    BY <1>1, <2>1, SourceFacts
  <2>3. m_current_size' = m_current_size + k /\ strays' = strays
    BY <1>2, <1>12, <2>1 DEF Source, InitPool, Shutdown
  <2> QED
    BY <1>4, <2>2, <2>3
<1>13. CASE Shutdown
  <2>1. m_current_size' = 0 /\ app = "stopping" /\ app' = "down"
    BY <1>13 DEF Shutdown
  <2>2. strays' = Cardinality(Alive')
    BY <2>1 DEF MCNext, NoteStrays, vars
  <2>3. IsFiniteSet(Alive')
    BY DbPoolAssumption, FS_Subset DEF Alive
  <2>4. Cardinality(Alive') \in Nat
    BY <2>3, FS_CardinalityType
  <2>5. Cardinality(Alive)' = Cardinality(Alive')
    OBVIOUS
  <2> QED
    BY <2>1, <2>2, <2>4, <2>5 DEF OffByStrays, SizeOffByStrays
<1> QED
  BY <1>6, <1>7, <1>8, <1>9, <1>10, <1>11, <1>12, <1>13
     DEF MCNext, Next, Serve, Get, Return, Recycle

(* However often the pool is shut down and started again, m_current_size   *)
(* is wrong by exactly the connections lent when shutdown() set it to 0.   *)
THEOREM CountOverRestarts == MCFairSpec => []SizeOffByStrays
<1>1. MCInit => Sole /\ OffByStrays
  <2> SUFFICES ASSUME MCInit PROVE Sole /\ OffByStrays
    OBVIOUS
  <2>1. Alive = {} /\ m_current_size = 0 /\ strays = 0
    BY DEF MCInit, Init, Alive
  <2>2. Cardinality(Alive) = 0
    BY <2>1, FS_EmptySet
  <2> QED
    BY <2>1, <2>2, SoleInit DEF MCInit, OffByStrays, SizeOffByStrays
<1>2. [MCNext]_<<vars, strays>> => [Next]_vars
  BY DEF MCNext
<1>3. Sole /\ OffByStrays /\ [MCNext]_<<vars, strays>> => (Sole /\ OffByStrays)'
  BY <1>2, SoleStep, TypeStep, StraysStep DEF Sole
<1>4. OffByStrays => SizeOffByStrays
  BY DEF OffByStrays
<1> QED
  BY <1>1, <1>3, <1>4, PTL DEF MCFairSpec
=============================================================================
