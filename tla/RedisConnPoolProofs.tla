------------------------ MODULE RedisConnPoolProofs ------------------------
(***************************************************************************)
(* Proofs about RedisConnPool, for every number of clients and connections *)
(* and all pool sizes, with creations and PINGs that fail at any time.     *)
(***************************************************************************)
EXTENDS MCRedisConnPool, FiniteSetTheorems, SequenceTheorems, TLAPS

-----------------------------------------------------------------------------
(* Sequences of entries: which connections are in them, and their order.   *)
NoRepeat(q) == \A i, j \in DOMAIN q : q[i].conn = q[j].conn => i = j
Sorted(q) == \A i, j \in DOMAIN q : i < j /\ q[j].idle => q[i].idle

(* The connections of a queue after push().                                *)
LEMMA AppendConns ==
  ASSUME NEW q \in Seq(Entry), NEW e \in Entry
  PROVE  /\ Append(q, e) \in Seq(Entry)
         /\ ConnsIn(Append(q, e)) = ConnsIn(q) \cup {e.conn}
         /\ NoRepeat(q) /\ e.conn \notin ConnsIn(q) => NoRepeat(Append(q, e))
<1>1. /\ Append(q, e) \in Seq(Entry) /\ Len(Append(q, e)) = Len(q) + 1
      /\ \A i \in 1..Len(q) : Append(q, e)[i] = q[i]
      /\ Append(q, e)[Len(q) + 1] = e /\ Len(q) \in Nat
      /\ DOMAIN q = 1..Len(q) /\ DOMAIN Append(q, e) = 1..(Len(q) + 1)
  BY AppendProperties
<1>2. ConnsIn(Append(q, e)) = ConnsIn(q) \cup {e.conn}
  BY <1>1 DEF ConnsIn
<1>3. ASSUME NoRepeat(q), e.conn \notin ConnsIn(q) PROVE NoRepeat(Append(q, e))
  BY <1>1, <1>3 DEF NoRepeat, ConnsIn
<1> QED
  BY <1>1, <1>2, <1>3

(* The connections of a queue after pop().                                 *)
LEMMA TailConns ==
  ASSUME NEW q \in Seq(Entry), q # <<>>
  PROVE  /\ Tail(q) \in Seq(Entry) /\ Head(q) \in Entry
         /\ Len(q) \in Nat /\ Len(Tail(q)) = Len(q) - 1
         /\ ConnsIn(q) = ConnsIn(Tail(q)) \cup {Head(q).conn}
         /\ NoRepeat(q) => NoRepeat(Tail(q)) /\ Head(q).conn \notin ConnsIn(Tail(q))
<1>1. /\ Tail(q) \in Seq(Entry) /\ Head(q) \in Entry /\ Len(q) \in Nat \ {0}
      /\ Len(Tail(q)) = Len(q) - 1 /\ Head(q) = q[1]
      /\ \A i \in 1..(Len(q) - 1) : Tail(q)[i] = q[i + 1]
      /\ DOMAIN q = 1..Len(q) /\ DOMAIN Tail(q) = 1..(Len(q) - 1)
  BY HeadTailProperties
<1>2. ConnsIn(q) = ConnsIn(Tail(q)) \cup {Head(q).conn}
  <2>1. ASSUME NEW i \in 1..Len(q) PROVE q[i].conn \in ConnsIn(Tail(q)) \cup {Head(q).conn}
    <3>1. CASE i = 1
      BY <1>1, <3>1
    <3>2. CASE i # 1
      <4>1. i - 1 \in 1..(Len(q) - 1) /\ Tail(q)[i - 1] = q[i]
        BY <1>1, <3>2
      <4> QED
        BY <1>1, <4>1 DEF ConnsIn
    <3> QED
      BY <3>1, <3>2
  <2>2. ASSUME NEW i \in 1..(Len(q) - 1) PROVE Tail(q)[i].conn \in ConnsIn(q)
    <3>1. i + 1 \in 1..Len(q)
      BY <1>1
    <3> QED
      BY <1>1, <3>1 DEF ConnsIn
  <2>3. Head(q).conn \in ConnsIn(q)
    BY <1>1 DEF ConnsIn
  <2> QED
    BY <1>1, <2>1, <2>2, <2>3 DEF ConnsIn
<1>3. ASSUME NoRepeat(q) PROVE NoRepeat(Tail(q)) /\ Head(q).conn \notin ConnsIn(Tail(q))
  <2>1. \A i \in 1..(Len(q) - 1) : i + 1 \in 1..Len(q) /\ i + 1 # 1 /\ 1 \in 1..Len(q)
    BY <1>1
  <2>2. NoRepeat(Tail(q))
    BY <1>1, <1>3, <2>1 DEF NoRepeat
  <2>3. \A i \in 1..(Len(q) - 1) : Tail(q)[i].conn # Head(q).conn
    BY <1>1, <1>3, <2>1 DEF NoRepeat
  <2> QED
    BY <1>1, <2>2, <2>3 DEF ConnsIn
<1> QED
  BY <1>1, <1>2, <1>3

(* The connections of a queue after several push().                        *)
LEMMA ConcatConns ==
  ASSUME NEW q \in Seq(Entry), NEW r \in Seq(Entry)
  PROVE  /\ q \o r \in Seq(Entry)
         /\ ConnsIn(q \o r) = ConnsIn(q) \cup ConnsIn(r)
         /\ NoRepeat(q) /\ NoRepeat(r) /\ ConnsIn(q) \cap ConnsIn(r) = {}
            => NoRepeat(q \o r)
<1>1. /\ q \o r \in Seq(Entry) /\ Len(q \o r) = Len(q) + Len(r)
      /\ \A i \in 1..(Len(q) + Len(r)) :
            (q \o r)[i] = IF i <= Len(q) THEN q[i] ELSE r[i - Len(q)]
      /\ Len(q) \in Nat /\ Len(r) \in Nat
      /\ DOMAIN q = 1..Len(q) /\ DOMAIN r = 1..Len(r)
      /\ DOMAIN (q \o r) = 1..(Len(q) + Len(r))
  BY ConcatProperties
<1>2. ConnsIn(q \o r) \subseteq ConnsIn(q) \cup ConnsIn(r)
  <2>1. \A i \in 1..(Len(q) + Len(r)) : i <= Len(q) \/ i - Len(q) \in 1..Len(r)
    BY <1>1
  <2> QED
    BY <1>1, <2>1 DEF ConnsIn
<1>3. ConnsIn(q) \subseteq ConnsIn(q \o r)
  BY <1>1 DEF ConnsIn
<1>4. ConnsIn(r) \subseteq ConnsIn(q \o r)
  <2>1. \A i \in 1..Len(r) : /\ Len(q) + i \in 1..(Len(q) + Len(r))
                             /\ (q \o r)[Len(q) + i] = r[i]
    BY <1>1
  <2> QED
    BY <1>1, <2>1 DEF ConnsIn
<1>5. ASSUME NoRepeat(q), NoRepeat(r), ConnsIn(q) \cap ConnsIn(r) = {}
      PROVE  NoRepeat(q \o r)
  <2> SUFFICES ASSUME NEW i \in 1..(Len(q) + Len(r)), NEW j \in 1..(Len(q) + Len(r)),
                      (q \o r)[i].conn = (q \o r)[j].conn
               PROVE  i = j
    BY <1>1 DEF NoRepeat
  <2>1. CASE i <= Len(q) /\ j <= Len(q)
    BY <1>1, <1>5, <2>1 DEF NoRepeat
  <2>2. CASE i > Len(q) /\ j > Len(q)
    <3>1. i - Len(q) \in 1..Len(r) /\ j - Len(q) \in 1..Len(r)
      BY <1>1, <2>2
    <3>2. (q \o r)[i] = r[i - Len(q)] /\ (q \o r)[j] = r[j - Len(q)]
      BY <1>1, <2>2
    <3>3. r[i - Len(q)].conn = r[j - Len(q)].conn
      BY <3>2
    <3>4. \A a, b \in 1..Len(r) : r[a].conn = r[b].conn => a = b
      BY <1>1, <1>5 DEF NoRepeat
    <3>5. i - Len(q) = j - Len(q)
      BY <3>1, <3>3, <3>4
    <3> QED
      BY <1>1, <3>5
  <2>3. ASSUME NEW a \in 1..(Len(q) + Len(r)), NEW b \in 1..(Len(q) + Len(r)),
               a <= Len(q), b > Len(q)
        PROVE  (q \o r)[a].conn # (q \o r)[b].conn
    <3>1. a \in 1..Len(q) /\ b - Len(q) \in 1..Len(r)
      BY <1>1, <2>3
    <3>2. q[a].conn \in ConnsIn(q) /\ r[b - Len(q)].conn \in ConnsIn(r)
      BY <1>1, <3>1 DEF ConnsIn
    <3> QED
      BY <1>1, <1>5, <2>3, <3>2
  <2> QED
    BY <1>1, <2>1, <2>2, <2>3
<1> QED
  BY <1>1, <1>2, <1>3, <1>4, <1>5

(* A queue whose entries only age.                                         *)
LEMMA AgeConns ==
  ASSUME NEW q \in Seq(Entry), NEW r \in Seq(Entry), DOMAIN r = DOMAIN q,
         \A i \in DOMAIN q : r[i].conn = q[i].conn
  PROVE  ConnsIn(r) = ConnsIn(q) /\ (NoRepeat(q) => NoRepeat(r))
BY DEF ConnsIn, NoRepeat

LEMMA AppendSorted ==
  ASSUME NEW q \in Seq(Entry), NEW e \in Entry, ~e.idle, Sorted(q)
  PROVE  Sorted(Append(q, e))
<1>1. /\ \A i \in 1..Len(q) : Append(q, e)[i] = q[i]
      /\ Append(q, e)[Len(q) + 1] = e /\ Len(q) \in Nat
      /\ DOMAIN q = 1..Len(q) /\ DOMAIN Append(q, e) = 1..(Len(q) + 1)
  BY AppendProperties
<1> SUFFICES ASSUME NEW i \in 1..(Len(q) + 1), NEW j \in 1..(Len(q) + 1), i < j,
                    Append(q, e)[j].idle
             PROVE  Append(q, e)[i].idle
  BY <1>1 DEF Sorted
<1>2. i \in 1..Len(q) /\ j \in 1..Len(q)
  BY <1>1
<1> QED
  BY <1>1, <1>2 DEF Sorted

LEMMA TailSorted ==
  ASSUME NEW q \in Seq(Entry), q # <<>>, Sorted(q)
  PROVE  Sorted(Tail(q)) /\ (~Head(q).idle => \A i \in DOMAIN q : ~q[i].idle)
<1>1. /\ Len(q) \in Nat \ {0} /\ Head(q) = q[1]
      /\ \A i \in 1..(Len(q) - 1) : Tail(q)[i] = q[i + 1]
      /\ DOMAIN q = 1..Len(q) /\ DOMAIN Tail(q) = 1..(Len(q) - 1)
  BY HeadTailProperties
<1>2. Sorted(Tail(q))
  <2> SUFFICES ASSUME NEW i \in 1..(Len(q) - 1), NEW j \in 1..(Len(q) - 1), i < j,
                      Tail(q)[j].idle
               PROVE  Tail(q)[i].idle
    BY <1>1 DEF Sorted
  <2>1. i + 1 \in 1..Len(q) /\ j + 1 \in 1..Len(q) /\ i + 1 < j + 1
    BY <1>1
  <2> QED
    BY <1>1, <2>1 DEF Sorted
<1>3. ASSUME ~Head(q).idle, NEW i \in 1..Len(q) PROVE ~q[i].idle
  <2>1. 1 \in 1..Len(q) /\ (i = 1 \/ 1 < i)
    BY <1>1
  <2> QED
    BY <1>1, <1>3, <2>1 DEF Sorted
<1> QED
  BY <1>1, <1>2, <1>3

LEMMA ConcatSorted ==
  ASSUME NEW q \in Seq(Entry), NEW r \in Seq(Entry), Sorted(q), \A i \in DOMAIN r : ~r[i].idle
  PROVE  Sorted(q \o r)
<1>1. /\ Len(q \o r) = Len(q) + Len(r)
      /\ \A i \in 1..(Len(q) + Len(r)) :
            (q \o r)[i] = IF i <= Len(q) THEN q[i] ELSE r[i - Len(q)]
      /\ Len(q) \in Nat /\ Len(r) \in Nat
      /\ DOMAIN q = 1..Len(q) /\ DOMAIN r = 1..Len(r)
      /\ DOMAIN (q \o r) = 1..(Len(q) + Len(r))
  BY ConcatProperties
<1> SUFFICES ASSUME NEW i \in 1..(Len(q) + Len(r)), NEW j \in 1..(Len(q) + Len(r)), i < j,
                    (q \o r)[j].idle
             PROVE  (q \o r)[i].idle
  BY <1>1 DEF Sorted
<1>2. j <= Len(q)
  <2>1. ASSUME j > Len(q) PROVE FALSE
    <3>1. j - Len(q) \in 1..Len(r)
      BY <1>1, <2>1
    <3> QED
      BY <1>1, <2>1, <3>1
  <2> QED
    BY <1>1, <2>1
<1>3. i \in 1..Len(q) /\ j \in 1..Len(q)
  BY <1>1, <1>2
<1> QED
  BY <1>1, <1>3 DEF Sorted

-----------------------------------------------------------------------------
(* Type correctness, with the lock discipline it rests on: the scan of the *)
(* recycle thread meets only entries that are there.                       *)
LockedLoops ==
  /\ \A c \in Clients : pc[c] = "expanding" => m_mutex = c
  /\ recycler = "scanning" => m_mutex = Recycler /\ left <= Len(m_conn_queue)

(* A client has a connection on its way back exactly while it is in        *)
(* return_connection() and has neither pushed nor deleted it.              *)
Handing == \A c \in Clients : back[c] # NoConn <=> pc[c] \in {"checking", "healthy", "broken"}

Typed == TypeOK /\ LockedLoops /\ Handing

(* What the counters are after each of their updates.                      *)
LEMMA StatsUpdates ==
  ASSUME NEW s \in Stats, m_conn_queue \in Seq(Entry), m_conn_queue' \in Seq(Entry),
         m_current_size \in Int
  PROVE  /\ Borrowed(s) \in Stats /\ Borrowed(s).active = s.active + 1
         /\ Borrowed(s).waiters = s.waiters /\ Borrowed(s).idle = Len(m_conn_queue')
         /\ Expanded(s) \in Stats /\ Expanded(s).active = s.active
         /\ Expanded(s).waiters = s.waiters /\ Expanded(s).idle = Len(m_conn_queue)
         /\ Woken(s) \in Stats /\ Woken(s).active = s.active
         /\ Woken(s).waiters = s.waiters - 1 /\ Woken(s).idle = s.idle
         /\ Returned(s) \in Stats /\ Returned(s).active = s.active - 1
         /\ Returned(s).waiters = s.waiters /\ Returned(s).idle = Len(m_conn_queue')
         /\ Closed(s) \in Stats /\ Closed(s).active = 0 /\ Closed(s).idle = 0
         /\ Closed(s).waiters = s.waiters
         /\ [s EXCEPT !.waiters = @ + 1] \in Stats
         /\ [s EXCEPT !.waiters = @ + 1].active = s.active
         /\ [s EXCEPT !.waiters = @ + 1].waiters = s.waiters + 1
         /\ [s EXCEPT !.waiters = @ + 1].idle = s.idle
<1>1. PICK n \in Nat, nn \in Nat : n = Len(m_conn_queue) /\ nn = Len(m_conn_queue')
  OBVIOUS
<1>2. /\ s.active \in Int /\ s.idle \in Nat /\ s.total \in Int /\ s.waiters \in Int
      /\ s = [active |-> s.active, idle |-> s.idle, total |-> s.total, waiters |-> s.waiters]
  BY DEF Stats
<1>3. /\ Borrowed(s).active = s.active + 1 /\ Borrowed(s).waiters = s.waiters
      /\ Borrowed(s).idle = nn
      /\ Returned(s).active = s.active - 1 /\ Returned(s).waiters = s.waiters
      /\ Returned(s).idle = nn
  BY <1>1 DEF Stats, Borrowed, Returned
<1>4. Expanded(s).active = s.active /\ Expanded(s).waiters = s.waiters
      /\ Expanded(s).idle = Len(m_conn_queue)
  BY DEF Stats, Expanded
<1>10. Woken(s) = [active |-> s.active, idle |-> s.idle, total |-> s.total,
                   waiters |-> s.waiters - 1]
  BY DEF Stats, Woken
<1>5. Closed(s).active = 0 /\ Closed(s).idle = 0 /\ Closed(s).waiters = s.waiters
  BY DEF Stats, Closed
<1>11. [s EXCEPT !.waiters = @ + 1]
         = [active |-> s.active, idle |-> s.idle, total |-> s.total,
            waiters |-> s.waiters + 1]
  BY DEF Stats
<1>6. /\ s.active + 1 \in Int /\ s.active - 1 \in Int
      /\ s.waiters + 1 \in Int /\ s.waiters - 1 \in Int
  BY <1>2
<1>7. Borrowed(s) \in Stats /\ Returned(s) \in Stats
  <2>1. PICK a \in Int, r \in Int : a = s.active + 1 /\ r = s.active - 1
    BY <1>6
  <2>2. /\ Borrowed(s) = [s EXCEPT !.active = a, !.idle = nn]
        /\ Returned(s) = [s EXCEPT !.active = r, !.idle = nn]
    BY <1>1, <2>1 DEF Borrowed, Returned
  <2> QED
    BY <2>2 DEF Stats
<1>8. Expanded(s) \in Stats
  BY <1>1 DEF Stats, Expanded
<1>12. Woken(s) \in Stats
  BY <1>2, <1>6, <1>10 DEF Stats
<1>9. Closed(s) \in Stats
  <2>1. PICK z \in Nat : z = 0 /\ z \in Int
    OBVIOUS
  <2>2. Closed(s) = [s EXCEPT !.active = z, !.idle = z, !.total = z]
    BY <2>1 DEF Closed
  <2> QED
    BY <2>1, <2>2 DEF Stats
<1>13. [s EXCEPT !.waiters = @ + 1] \in Stats
  BY <1>2, <1>6, <1>11 DEF Stats
<1> QED
  BY <1>1, <1>3, <1>4, <1>5, <1>7, <1>8, <1>9, <1>10, <1>11, <1>12, <1>13

(* The entries that init() pushes.                                         *)
NewEntries(k, s) == [i \in 1..k |-> Fresh(s[i])]

LEMMA SourceFacts ==
  ASSUME TypeOK, Source
  PROVE  \E k \in Nat : \E s \in [1..k -> Unborn] :
           /\ Distinct(s)
           /\ m_conn_queue' = m_conn_queue \o NewEntries(k, s)
           /\ open' = open \cup {s[i] : i \in 1..k}
           /\ NewEntries(k, s) \in Seq(Entry) /\ NoRepeat(NewEntries(k, s))
           /\ ConnsIn(NewEntries(k, s)) = {s[i] : i \in 1..k}
           /\ \A i \in DOMAIN NewEntries(k, s) : ~NewEntries(k, s)[i].idle
           /\ m_conn_queue' \in Seq(Entry)
           /\ m_current_size' \in Int /\ m_stats' \in Stats
           /\ m_stats'.idle = Len(m_conn_queue')
           /\ m_stats'.active = m_stats.active /\ m_stats'.waiters = m_stats.waiters
<1>1. PICK k \in 0..MinSize : \E s \in {f \in [1..k -> Unborn] : Distinct(f)} :
        /\ m_conn_queue' = m_conn_queue \o [i \in 1..k |-> Fresh(s[i])]
        /\ open' = open \cup {s[i] : i \in 1..k}
  BY DEF Source
<1>2. k \in Nat
  BY RedisPoolAssumption
<1>3. PICK s \in [1..k -> Unborn] :
        /\ Distinct(s)
        /\ m_conn_queue' = m_conn_queue \o NewEntries(k, s)
        /\ open' = open \cup {s[i] : i \in 1..k}
  BY <1>1 DEF NewEntries
<1>4. /\ NewEntries(k, s) \in Seq(Entry) /\ DOMAIN NewEntries(k, s) = 1..k
      /\ \A i \in 1..k : NewEntries(k, s)[i] = Fresh(s[i])
      /\ \A i \in 1..k : Fresh(s[i]).conn = s[i] /\ ~Fresh(s[i]).idle
  BY <1>2 DEF NewEntries, Entry, Unborn, Fresh
<1>5. NoRepeat(NewEntries(k, s))
  BY <1>3, <1>4 DEF NoRepeat, Distinct
<1>6. ConnsIn(NewEntries(k, s)) = {s[i] : i \in 1..k}
  BY <1>4 DEF ConnsIn
<1>7. m_conn_queue' \in Seq(Entry)
  BY <1>3, <1>4, ConcatConns DEF TypeOK
<1>8. m_current_size' \in Int
  BY RedisPoolAssumption DEF Source, TypeOK
<1>9. m_stats' \in Stats /\ m_stats'.idle = Len(m_conn_queue')
      /\ m_stats'.active = m_stats.active /\ m_stats'.waiters = m_stats.waiters
  <2>1. Len(m_conn_queue') \in Nat
    BY <1>7
  <2>2. m_stats' = [m_stats EXCEPT !.idle = Len(m_conn_queue'), !.total = m_current_size']
    BY DEF Source
  <2> QED
    BY <1>8, <2>1, <2>2 DEF TypeOK, Stats
<1> QED
  BY <1>2, <1>3, <1>4, <1>5, <1>6, <1>7, <1>8, <1>9

LEMMA AgeFacts ==
  ASSUME TypeOK, Age
  PROVE  /\ m_conn_queue' \in Seq(Entry) /\ Len(m_conn_queue') = Len(m_conn_queue)
         /\ DOMAIN m_conn_queue' = DOMAIN m_conn_queue
         /\ \A i \in DOMAIN m_conn_queue : m_conn_queue'[i].conn = m_conn_queue[i].conn
         /\ Sorted(m_conn_queue) => Sorted(m_conn_queue')
<1>1. PICK n \in DOMAIN m_conn_queue :
        m_conn_queue' = [i \in DOMAIN m_conn_queue |->
                           [m_conn_queue[i] EXCEPT !.idle = @ \/ i <= n]]
  BY DEF Age
<1>2. /\ Len(m_conn_queue) \in Nat /\ DOMAIN m_conn_queue = 1..Len(m_conn_queue)
      /\ \A i \in 1..Len(m_conn_queue) : m_conn_queue[i] \in Entry
  BY DEF TypeOK
<1>3. \A i \in 1..Len(m_conn_queue) :
        /\ m_conn_queue'[i] \in Entry /\ m_conn_queue'[i].conn = m_conn_queue[i].conn
        /\ m_conn_queue'[i].idle <=> m_conn_queue[i].idle \/ i <= n
  <2> TAKE i \in 1..Len(m_conn_queue)
  <2> DEFINE b == m_conn_queue[i].idle \/ i <= n
  <2>1. b \in BOOLEAN
    BY <1>2 DEF Entry
  <2>2. m_conn_queue'[i] = [m_conn_queue[i] EXCEPT !.idle = b]
    BY <1>1, <1>2
  <2>3. m_conn_queue[i] \in Entry
    BY <1>2
  <2>4. m_conn_queue'[i] \in Entry /\ m_conn_queue'[i].conn = m_conn_queue[i].conn
        /\ m_conn_queue'[i].idle = b
    <3> HIDE DEF b
    <3> QED
      BY <2>1, <2>2, <2>3 DEF Entry
  <2> QED
    BY <2>4
<1>4. m_conn_queue' \in [1..Len(m_conn_queue) -> Entry]
  BY <1>1, <1>2, <1>3
<1>5. m_conn_queue' \in Seq(Entry) /\ Len(m_conn_queue') = Len(m_conn_queue)
      /\ DOMAIN m_conn_queue' = DOMAIN m_conn_queue
  BY <1>2, <1>4
<1>6. ASSUME Sorted(m_conn_queue) PROVE Sorted(m_conn_queue')
  <2> SUFFICES ASSUME NEW i \in 1..Len(m_conn_queue), NEW j \in 1..Len(m_conn_queue), i < j,
                      m_conn_queue'[j].idle
               PROVE  m_conn_queue'[i].idle
    BY <1>2, <1>5 DEF Sorted
  <2>1. j <= n \/ m_conn_queue[j].idle
    BY <1>3
  <2>2. i <= n \/ m_conn_queue[i].idle
    BY <1>2, <1>6, <2>1 DEF Sorted
  <2> QED
    BY <1>3, <2>2
<1> QED
  BY <1>2, <1>3, <1>5, <1>6

(* What taking the front of the queue and delivering it leaves.            *)
LEMMA TakeType ==
  ASSUME Typed, NEW c \in Clients, m_conn_queue # <<>>, TakeFront(c)
  PROVE  /\ m_conn_queue' \in Seq(Entry) /\ open' \subseteq Conns
         /\ pc' \in [Clients -> PcState] /\ guard' \in [Clients -> Conns \cup {NoConn}]
         /\ back' \in [Clients -> Conns \cup {NoConn}] /\ seen' \in [Clients -> Int]
         /\ \A d \in Clients : pc'[d] = "expanding" => pc[d] = "expanding" /\ d # c
         /\ m_current_size' \in Int
<1>1. Tail(m_conn_queue) \in Seq(Entry) /\ Head(m_conn_queue).conn \in Conns
  BY TailConns DEF Typed, TypeOK, Entry
<1>2. pc' \in [Clients -> PcState]
      /\ \A d \in Clients : pc'[d] = "expanding" => pc[d] = "expanding" /\ d # c
  <2>1. \E v \in {"out", "checking"} : pc' = [pc EXCEPT ![c] = v]
    BY DEF TakeFront, Deliver
  <2> QED
    BY <2>1 DEF Typed, TypeOK, PcState, InReturn
<1>3. guard' \in [Clients -> Conns \cup {NoConn}] /\ back' \in [Clients -> Conns \cup {NoConn}]
  BY <1>1 DEF Typed, TypeOK, TakeFront, Deliver
<1> QED
  BY <1>1, <1>2, <1>3 DEF Typed, TypeOK, TakeFront

LEMMA NotifyFacts ==
  ASSUME NEW p \in [Clients -> PcState], \A c \in Clients : pc[c] = "waiting" => p[c] = "waiting",
         Notify(p)
  PROVE  /\ pc' \in [Clients -> PcState]
         /\ \A c \in Clients : pc'[c] # p[c] => p[c] = "waiting" /\ pc'[c] = "notified"
BY DEF Notify, Waiting, PcState, Awake

LEMMA CreateType ==
  ASSUME TypeOK, Create \/ CreateFails
  PROVE  /\ m_conn_queue' \in Seq(Entry) /\ open' \subseteq Conns /\ m_current_size' \in Int
         /\ m_conn_queue' = m_conn_queue \/ \E x \in Unborn :
              m_conn_queue' = Append(m_conn_queue, Fresh(x)) /\ open' = open \cup {x}
<1>1. \A x \in Unborn : Fresh(x) \in Entry /\ x \in Conns
  BY DEF Unborn, Fresh, Entry
<1>2. m_current_size' \in Int
  BY DEF Create, CreateFails, TypeOK
<1>3. CASE CreateFails
  BY <1>2, <1>3 DEF CreateFails, TypeOK
<1>4. CASE Create
  <2>1. PICK x \in Unborn : m_conn_queue' = Append(m_conn_queue, Fresh(x))
                            /\ open' = open \cup {x}
    BY <1>4 DEF Create
  <2>2. m_conn_queue' \in Seq(Entry)
    BY <1>1, <2>1, AppendConns DEF TypeOK
  <2> QED
    BY <1>1, <1>2, <2>1, <2>2 DEF TypeOK
<1> QED
  BY <1>3, <1>4

LEMMA ReplaceFacts ==
  ASSUME TypeOK, NEW c \in Clients, pc[c] = "uncounted", Replace(c)
  PROVE  /\ m_conn_queue' \in Seq(Entry) /\ open' \subseteq Conns /\ m_current_size' \in Int
         /\ pc' \in [Clients -> PcState] /\ pc'[c] = "out"
         /\ \A d \in Clients : d # c /\ pc'[d] # pc[d] => pc[d] = "waiting" /\ pc'[d] = "notified"
         /\ \/ m_conn_queue' = m_conn_queue /\ open' = open
            \/ \E x \in Unborn : m_conn_queue' = Append(m_conn_queue, Fresh(x))
                                 /\ open' = open \cup {x}
<1> DEFINE p == [pc EXCEPT ![c] = "out"]
<1>1. p \in [Clients -> PcState] /\ p[c] = "out" /\ \A d \in Clients : d # c => p[d] = pc[d]
  BY DEF TypeOK, PcState
<1>2. \A d \in Clients : pc[d] = "waiting" => p[d] = "waiting"
  BY <1>1
<1>3. CASE m_current_size < MinSize /\ Create /\ Notify(p)
  <2> HIDE DEF p
  <2> QED
    BY <1>1, <1>2, <1>3, NotifyFacts, CreateType DEF Create
<1>4. CASE m_current_size < MinSize /\ CreateFails /\ pc' = p
  <2> HIDE DEF p
  <2> QED
    BY <1>1, <1>4, CreateType DEF CreateFails
<1>5. CASE m_current_size >= MinSize /\ pc' = p /\ UNCHANGED poolVars
  <2> HIDE DEF p
  <2> QED
    BY <1>1, <1>5 DEF TypeOK, poolVars
<1> QED
  BY <1>3, <1>4, <1>5 DEF Replace

LEMMA ReturnHealthyFacts ==
  ASSUME TypeOK, NEW c \in Clients, back[c] # NoConn, ReturnHealthy(c)
  PROVE  /\ m_conn_queue' \in Seq(Entry) /\ Fresh(back[c]) \in Entry
         /\ pc' \in [Clients -> PcState] /\ pc'[c] = "out"
         /\ \A d \in Clients : d # c /\ pc'[d] # pc[d] => pc[d] = "waiting" /\ pc'[d] = "notified"
<1> DEFINE p == [pc EXCEPT ![c] = "out"]
<1>1. p \in [Clients -> PcState] /\ p[c] = "out" /\ \A d \in Clients : d # c => p[d] = pc[d]
  BY DEF TypeOK, PcState
<1>2. \A d \in Clients : pc[d] = "waiting" => p[d] = "waiting"
  BY <1>1 DEF ReturnHealthy
<1>3. Fresh(back[c]) \in Entry
  BY DEF TypeOK, Fresh, Entry
<1>4. m_conn_queue' \in Seq(Entry)
  BY <1>3, AppendConns DEF TypeOK, ReturnHealthy
<1>5. Notify(p)
  BY DEF ReturnHealthy
<1> HIDE DEF p
<1> QED
  BY <1>1, <1>2, <1>3, <1>4, <1>5, NotifyFacts

LEMMA TypeInit == Init => Typed
<1> SUFFICES ASSUME Init PROVE Typed
  OBVIOUS
<1>1. m_stats \in Stats
  BY DEF Init, Stats
<1>2. m_conn_queue \in Seq(Entry) /\ pc \in [Clients -> PcState]
  BY DEF Init, PcState
<1>3. m_mutex \in Clients \cup {Recycler, NoOwner} /\ app \in {"down", "up", "stopping"}
  BY DEF Init
<1>4. recycler \in {"off", "sleeping", "due", "scanning", "undefined"} /\ open \subseteq Conns
  BY DEF Init
<1>5. /\ guard \in [Clients -> Conns \cup {NoConn}] /\ back \in [Clients -> Conns \cup {NoConn}]
      /\ seen \in [Clients -> Int] /\ m_current_size \in Int
      /\ to_create \in Nat /\ left \in Nat /\ can_recycle \in Nat /\ recycled \in Nat
  BY DEF Init
<1>6. LockedLoops /\ m_initialized \in BOOLEAN /\ m_recycle_running \in BOOLEAN
  BY DEF Init, LockedLoops
<1>7. Handing
  BY DEF Init, Handing
<1> QED
  BY <1>1, <1>2, <1>3, <1>4, <1>5, <1>6, <1>7 DEF Typed, TypeOK

(* The updates of the counters, in the steps that make them.               *)
LEMMA StatsType ==
  ASSUME TypeOK, m_conn_queue' \in Seq(Entry)
  PROVE  /\ Borrowed(m_stats) \in Stats /\ Borrowed(Expanded(m_stats)) \in Stats
         /\ Borrowed(Woken(m_stats)) \in Stats /\ Woken(m_stats) \in Stats
         /\ Returned(m_stats) \in Stats /\ Expanded(m_stats) \in Stats
         /\ Closed(m_stats) \in Stats /\ [m_stats EXCEPT !.waiters = @ + 1] \in Stats
         /\ [Expanded(m_stats) EXCEPT !.waiters = @ + 1] \in Stats
<1>1. Expanded(m_stats) \in Stats /\ Woken(m_stats) \in Stats
  BY StatsUpdates DEF TypeOK
<1> QED
  BY <1>1, StatsUpdates DEF TypeOK

LEMMA TypeStep == Typed /\ [Next]_vars => Typed'
<1> SUFFICES ASSUME Typed, [Next]_vars PROVE Typed'
  OBVIOUS
<1> USE RedisPoolAssumption
<1>0. /\ TypeOK /\ m_conn_queue \in Seq(Entry) /\ Len(m_conn_queue) \in Nat
      /\ \A c \in Clients : pc[c] = "expanding" => m_mutex = c
      /\ recycler = "scanning" => m_mutex = Recycler /\ left <= Len(m_conn_queue)
      /\ Recycler \notin Clients /\ NoOwner \notin Clients /\ NoOwner # Recycler
  BY DEF Typed, TypeOK, LockedLoops
<1>h. \A c \in Clients : back[c] # NoConn <=> pc[c] \in {"checking", "healthy", "broken"}
  BY DEF Typed, Handing
<1>1. ASSUME NEW c \in Clients, GetEnter(c) PROVE Typed'
  <2>1. \E v \in {"entered", "out", "checking"} : pc' = [pc EXCEPT ![c] = v]
    BY <1>1 DEF GetEnter, Deliver
  <2>2. pc' \in [Clients -> PcState] /\ \A d \in Clients : pc'[d] = "expanding" => pc[d] = "expanding"
    BY <1>0, <2>1 DEF TypeOK, PcState, InReturn
  <2>3. guard' \in [Clients -> Conns \cup {NoConn}] /\ back' \in [Clients -> Conns \cup {NoConn}]
    BY <1>0, <1>1 DEF GetEnter, Deliver, TypeOK
  <2>h. Handing'
    BY <1>0, <1>h, <1>1 DEF GetEnter, Deliver, Handing, TypeOK
  <2> QED
    BY <2>h, <1>0, <1>1, <2>2, <2>3 DEF GetEnter, Typed, TypeOK, LockedLoops, poolVars, flagVars, recycleVars
<1>2. ASSUME NEW c \in Clients, GetExpand(c) PROVE Typed'
  <2>1. to_create' \in Nat
    BY <1>0, <1>2 DEF GetExpand, CanCreate, Least, TypeOK
  <2>2. pc' \in [Clients -> PcState] /\ \A d \in Clients : d # c => pc'[d] = pc[d]
    BY <1>0, <1>2 DEF GetExpand, TypeOK, PcState
  <2>3. m_mutex' = c /\ recycler # "scanning" /\ \A d \in Clients : pc[d] # "expanding"
    BY <1>0, <1>2 DEF GetExpand, Unlocked
  <2>h. Handing'
    BY <1>0, <1>h, <1>2 DEF GetExpand, Handing, TypeOK
  <2> QED
    BY <2>h, <1>0, <1>2, <2>1, <2>2, <2>3 DEF GetExpand, Typed, TypeOK, LockedLoops, poolVars, flagVars,
       recycleVars
<1>3. ASSUME NEW c \in Clients, ExpandOne(c) PROVE Typed'
  <2>1. m_conn_queue' \in Seq(Entry) /\ open' \subseteq Conns /\ m_current_size' \in Int
    BY <1>0, <1>3, CreateType DEF ExpandOne
  <2>2. to_create' \in Nat /\ recycler # "scanning"
    BY <1>0, <1>3 DEF ExpandOne, TypeOK
  <2>h. Handing'
    BY <1>h, <1>3 DEF ExpandOne, Handing
  <2> QED
    BY <2>h, <1>0, <1>3, <2>1, <2>2 DEF ExpandOne, Typed, TypeOK, LockedLoops, flagVars, recycleVars
<1>4. ASSUME NEW c \in Clients, ExpandTake(c) \/ GetTake(c) \/ WakeTake(c) PROVE Typed'
  <2>1. m_conn_queue # <<>> /\ TakeFront(c)
    BY <1>4 DEF ExpandTake, GetTake, WakeTake
  <2>2. /\ m_conn_queue' \in Seq(Entry) /\ open' \subseteq Conns
        /\ pc' \in [Clients -> PcState] /\ guard' \in [Clients -> Conns \cup {NoConn}]
        /\ back' \in [Clients -> Conns \cup {NoConn}] /\ seen' \in [Clients -> Int]
        /\ \A d \in Clients : pc'[d] = "expanding" => pc[d] = "expanding" /\ d # c
        /\ m_current_size' \in Int
    BY <2>1, TakeType
  <2>3. m_stats' \in Stats
    BY <1>0, <1>4, <2>2, StatsType DEF ExpandTake, GetTake, WakeTake
  <2>4. recycler # "scanning" /\ \A d \in Clients : d # c => pc[d] # "expanding"
    BY <1>0, <1>4 DEF ExpandTake, ExpandDone, GetTake, WakeTake, Unlocked
  <2>5. m_mutex' = NoOwner /\ UNCHANGED <<flagVars, to_create, recycleVars, app>>
    BY <1>4 DEF ExpandTake, GetTake, WakeTake, Unlocked
  <2>h. Handing'
    BY <1>0, <1>h, <1>4 DEF ExpandTake, ExpandDone, GetTake, WakeTake, TakeFront, Deliver, Awake, Handing, TypeOK
  <2> QED
    BY <2>h, <1>0, <2>2, <2>3, <2>4, <2>5 DEF Typed, TypeOK, LockedLoops, flagVars, recycleVars
<1>5. ASSUME NEW c \in Clients, ExpandWait(c) \/ GetWait(c) PROVE Typed'
  <2>1. pc' = [pc EXCEPT ![c] = "waiting"] /\ UNCHANGED <<poolVars, guard, back, seen>>
        /\ m_mutex' = NoOwner /\ UNCHANGED <<flagVars, to_create, recycleVars, app>>
    BY <1>5 DEF ExpandWait, GetWait, Wait, Unlocked
  <2>2. pc' \in [Clients -> PcState] /\ pc'[c] = "waiting"
        /\ \A d \in Clients : d # c => pc'[d] = pc[d]
    BY <1>0, <2>1 DEF TypeOK, PcState
  <2>3. m_stats' \in Stats
    BY <1>0, <1>5, <2>1, StatsType DEF ExpandWait, GetWait, Wait, poolVars
  <2>4. recycler # "scanning" /\ \A d \in Clients : d # c => pc[d] # "expanding"
    BY <1>0, <1>5 DEF ExpandWait, ExpandDone, GetWait, Unlocked
  <2>h. Handing'
    BY <1>0, <1>h, <1>5, <2>1, <2>2 DEF ExpandWait, ExpandDone, GetWait, Handing
  <2> QED
    BY <2>h, <1>0, <2>1, <2>2, <2>3, <2>4 DEF Typed, TypeOK, LockedLoops, poolVars, flagVars, recycleVars
<1>6. ASSUME NEW c \in Clients, WaitEnds(c) \/ Check(c) PROVE Typed'
  <2>1. \E v \in {"timedout", "spurious", "healthy", "broken"} : pc' = [pc EXCEPT ![c] = v]
    BY <1>6 DEF WaitEnds, Check
  <2>2. pc' \in [Clients -> PcState] /\ \A d \in Clients : pc'[d] = "expanding" => pc[d] = "expanding"
    BY <1>0, <2>1 DEF TypeOK, PcState, InReturn, Awake
  <2>3. UNCHANGED <<poolVars, flagVars, m_mutex, m_stats, guard, back, seen, to_create,
                    recycleVars, app>>
    BY <1>6 DEF WaitEnds, Check
  <2>h. Handing'
    BY <1>0, <1>h, <1>6, <2>3 DEF WaitEnds, Check, Handing, TypeOK
  <2> QED
    BY <2>h, <1>0, <2>2, <2>3 DEF Typed, TypeOK, LockedLoops, poolVars, flagVars, recycleVars
<1>7. ASSUME NEW c \in Clients, WakeEmpty(c) PROVE Typed'
  <2>1. \E v \in {"out", "checking"} : pc' = [pc EXCEPT ![c] = v]
    BY <1>7 DEF WakeEmpty, Deliver
  <2>2. pc' \in [Clients -> PcState] /\ \A d \in Clients : pc'[d] = "expanding" => pc[d] = "expanding"
    BY <1>0, <2>1 DEF TypeOK, PcState, InReturn
  <2>3. guard' \in [Clients -> Conns \cup {NoConn}] /\ back' \in [Clients -> Conns \cup {NoConn}]
    BY <1>0, <1>7 DEF WakeEmpty, Deliver, TypeOK
  <2>4. m_stats' \in Stats
    BY <1>0, <1>7, StatsType DEF WakeEmpty, poolVars
  <2>h. Handing'
    BY <1>0, <1>h, <1>7 DEF WakeEmpty, Deliver, Awake, Handing, TypeOK
  <2> QED
    BY <2>h, <1>0, <1>7, <2>2, <2>3, <2>4 DEF WakeEmpty, Typed, TypeOK, LockedLoops, poolVars, flagVars,
       recycleVars
<1>8. ASSUME NEW c \in Clients, Release(c) PROVE Typed'
  <2>1. pc' \in [Clients -> PcState] /\ \A d \in Clients : pc'[d] = "expanding" => pc[d] = "expanding"
    BY <1>0, <1>8 DEF Release, TypeOK, PcState, InReturn
  <2>2. guard' \in [Clients -> Conns \cup {NoConn}] /\ back' \in [Clients -> Conns \cup {NoConn}]
    BY <1>0, <1>8 DEF Release, TypeOK
  <2>h. Handing'
    BY <1>0, <1>h, <1>8 DEF Release, Handing, TypeOK
  <2> QED
    BY <2>h, <1>0, <1>8, <2>1, <2>2 DEF Release, Typed, TypeOK, LockedLoops, poolVars, flagVars, recycleVars
<1>9. ASSUME NEW c \in Clients, ReturnHealthy(c) PROVE Typed'
  <2>0. back[c] # NoConn
    BY <1>h, <1>9 DEF ReturnHealthy
  <2>1. /\ m_conn_queue' \in Seq(Entry) /\ pc' \in [Clients -> PcState] /\ pc'[c] = "out"
        /\ \A d \in Clients : d # c /\ pc'[d] # pc[d] => pc[d] = "waiting" /\ pc'[d] = "notified"
    BY <1>0, <1>9, <2>0, ReturnHealthyFacts
  <2>2. m_stats' \in Stats /\ back' \in [Clients -> Conns \cup {NoConn}]
    BY <1>0, <1>9, <2>1, StatsType DEF ReturnHealthy, TypeOK
  <2>3. recycler # "scanning" /\ \A d \in Clients : pc'[d] # "expanding"
    BY <1>0, <1>9, <2>1 DEF ReturnHealthy, Unlocked
  <2>h. Handing'
    BY <1>0, <1>h, <1>9, <2>1 DEF ReturnHealthy, Handing, TypeOK
  <2> QED
    BY <2>h, <1>0, <1>9, <2>1, <2>2, <2>3 DEF ReturnHealthy, Typed, TypeOK, LockedLoops, flagVars, recycleVars
<1>10. ASSUME NEW c \in Clients, DeleteBack(c) PROVE Typed'
  <2>1. pc' \in [Clients -> PcState] /\ \A d \in Clients : pc'[d] = "expanding" => pc[d] = "expanding"
    BY <1>0, <1>10 DEF DeleteBack, TypeOK, PcState, InReturn
  <2>2. /\ back' \in [Clients -> Conns \cup {NoConn}] /\ seen' \in [Clients -> Int]
        /\ open' \subseteq Conns
    BY <1>0, <1>10 DEF DeleteBack, TypeOK
  <2>h. Handing'
    BY <1>0, <1>h, <1>10 DEF DeleteBack, Handing, TypeOK
  <2> QED
    BY <2>h, <1>0, <1>10, <2>1, <2>2 DEF DeleteBack, Typed, TypeOK, LockedLoops, flagVars, recycleVars
<1>11. ASSUME NEW c \in Clients, WriteSize(c) PROVE Typed'
  <2>1. pc' \in [Clients -> PcState] /\ \A d \in Clients : pc'[d] = "expanding" => pc[d] = "expanding"
    BY <1>0, <1>11 DEF WriteSize, TypeOK, PcState, InReturn
  <2>2. m_current_size' \in Int /\ seen' \in [Clients -> Int]
    BY <1>0, <1>11 DEF WriteSize, TypeOK
  <2>h. Handing'
    BY <1>0, <1>h, <1>11 DEF WriteSize, Handing, TypeOK
  <2> QED
    BY <2>h, <1>0, <1>11, <2>1, <2>2 DEF WriteSize, Typed, TypeOK, LockedLoops, flagVars, recycleVars
<1>12. ASSUME NEW c \in Clients, Refill(c) PROVE Typed'
  <2>1. /\ m_conn_queue' \in Seq(Entry) /\ open' \subseteq Conns /\ m_current_size' \in Int
        /\ pc' \in [Clients -> PcState] /\ pc'[c] = "out"
        /\ \A d \in Clients : d # c /\ pc'[d] # pc[d] => pc[d] = "waiting" /\ pc'[d] = "notified"
    BY <1>0, <1>12, ReplaceFacts DEF Refill
  <2>2. m_stats' \in Stats
    BY <1>0, <1>12, <2>1, StatsType DEF Refill
  <2>3. recycler # "scanning" /\ \A d \in Clients : pc'[d] # "expanding"
    BY <1>0, <1>12, <2>1 DEF Refill, Unlocked
  <2>h. Handing'
    BY <1>0, <1>h, <1>12, <2>1 DEF Refill, Handing
  <2> QED
    BY <2>h, <1>0, <1>12, <2>1, <2>2, <2>3 DEF Refill, Typed, TypeOK, LockedLoops, flagVars, recycleVars
<1>13. CASE Age
  <2>1. m_conn_queue' \in Seq(Entry) /\ Len(m_conn_queue') = Len(m_conn_queue)
    BY <1>0, <1>13, AgeFacts
  <2> QED
    BY <1>0, <1>h, <1>13, <2>1 DEF Age, Typed, TypeOK, LockedLoops, Handing, flagVars, clientVars,
       recycleVars
<1>14. CASE RecycleWake
  BY <1>0, <1>h, <1>14 DEF RecycleWake, Typed, TypeOK, LockedLoops, Handing, poolVars, flagVars, clientVars
<1>15. CASE RecycleStart
  <2>1. /\ m_mutex' \in {m_mutex, Recycler} /\ left' \in Nat /\ can_recycle' \in Nat
        /\ recycled' \in Nat
        /\ recycler' \in {"scanning", "sleeping"}
        /\ recycler' = "scanning" => m_mutex' = Recycler /\ left' = Len(m_conn_queue)
    BY <1>0, <1>15 DEF RecycleStart, Scan, TypeOK
  <2>2. \A c \in Clients : pc[c] # "expanding"
    BY <1>0, <1>15 DEF RecycleStart, Unlocked
  <2> QED
    BY <1>0, <1>h, <1>15, <2>1, <2>2 DEF RecycleStart, Typed, TypeOK, LockedLoops, Handing, poolVars,
       flagVars, clientVars
<1>16. CASE RecycleDrop
  <2>1. m_conn_queue # <<>> /\ recycler = "scanning" /\ left - 1 \in Nat
    BY <1>0, <1>16 DEF RecycleDrop, Scanning, TypeOK
  <2>2. /\ Tail(m_conn_queue) \in Seq(Entry)
        /\ Len(Tail(m_conn_queue)) = Len(m_conn_queue) - 1
    BY <1>0, <2>1, TailConns
  <2>3. left' \in Nat /\ recycled' \in Nat /\ left' <= Len(m_conn_queue') /\ m_current_size' \in Int
    BY <1>0, <1>16, <2>1, <2>2 DEF RecycleDrop, TypeOK
  <2> QED
    BY <1>0, <1>h, <1>16, <2>2, <2>3 DEF RecycleDrop, Typed, TypeOK, LockedLoops, Handing, flagVars,
       clientVars
<1>17. CASE RecycleRotate
  <2>1. m_conn_queue # <<>> /\ recycler = "scanning" /\ left - 1 \in Nat
    BY <1>0, <1>17 DEF RecycleRotate, Scanning, TypeOK
  <2>2. /\ Tail(m_conn_queue) \in Seq(Entry) /\ Head(m_conn_queue) \in Entry
        /\ Len(Tail(m_conn_queue)) = Len(m_conn_queue) - 1
    BY <1>0, <2>1, TailConns
  <2>3. m_conn_queue' \in Seq(Entry) /\ Len(m_conn_queue') = Len(m_conn_queue)
    BY <1>0, <1>17, <2>2, AppendProperties DEF RecycleRotate
  <2>4. left' \in Nat /\ left' <= Len(m_conn_queue')
    BY <1>0, <1>17, <2>1, <2>3 DEF RecycleRotate, TypeOK
  <2> QED
    BY <1>0, <1>h, <1>17, <2>3, <2>4 DEF RecycleRotate, Typed, TypeOK, LockedLoops, Handing, flagVars,
       clientVars
<1>18. CASE RecycleEnd
  <2>1. m_stats' \in Stats
    BY <1>0, <1>18, StatsType DEF RecycleEnd, poolVars, TypeOK
  <2>2. \A c \in Clients : pc[c] # "expanding"
    BY <1>0, <1>18 DEF RecycleEnd
  <2> QED
    BY <1>0, <1>h, <1>18, <2>1, <2>2 DEF RecycleEnd, Typed, TypeOK, LockedLoops, Handing, poolVars, flagVars,
       clientVars
<1>23. CASE RecycleStale
  BY <1>0, <1>h, <1>23 DEF RecycleStale, Scanning, Typed, TypeOK, LockedLoops, Handing, poolVars,
     flagVars, clientVars
<1>19. CASE InitPool
  <2>1. /\ m_conn_queue' \in Seq(Entry) /\ m_current_size' \in Int /\ m_stats' \in Stats
        /\ open' \subseteq Conns
    <3>1. PICK k \in Nat : \E s \in [1..k -> Unborn] :
            /\ open' = open \cup {s[i] : i \in 1..k}
            /\ m_conn_queue' \in Seq(Entry) /\ m_current_size' \in Int /\ m_stats' \in Stats
      BY <1>0, <1>19, SourceFacts DEF InitPool
    <3> QED
      BY <1>0, <3>1 DEF TypeOK, Unborn
  <2>2. \A c \in Clients : pc[c] # "expanding"
    BY <1>19 DEF InitPool, NobodyInside
  <2> QED
    BY <1>0, <1>h, <1>19, <2>1, <2>2 DEF InitPool, Typed, TypeOK, LockedLoops, Handing, clientVars
<1>20. CASE StopRecycle
  BY <1>0, <1>h, <1>20 DEF StopRecycle, Typed, TypeOK, LockedLoops, Handing, poolVars, clientVars,
     recycleVars
<1>21. CASE Shutdown
  <2>1. m_conn_queue' \in Seq(Entry)
    BY <1>21 DEF Shutdown
  <2>2. m_stats' \in Stats
    BY <1>0, <1>21, <2>1, StatsType DEF Shutdown
  <2>3. m_current_size' \in Int /\ open' \subseteq Conns /\ recycler # "scanning"
    BY <1>0, <1>21 DEF Shutdown, TypeOK
  <2> QED
    BY <1>0, <1>h, <1>21, <2>1, <2>2, <2>3 DEF Shutdown, Typed, TypeOK, LockedLoops, Handing, clientVars,
       recycleVars
<1>22. CASE UNCHANGED vars
  BY <1>0, <1>h, <1>22 DEF vars, Typed, TypeOK, LockedLoops, Handing
<1> QED
  BY <1>1, <1>2, <1>3, <1>4, <1>5, <1>6, <1>7, <1>8, <1>9, <1>10, <1>11, <1>12, <1>13, <1>14,
     <1>15, <1>16, <1>17, <1>18, <1>19, <1>20, <1>21, <1>22, <1>23
     DEF Next, Serve, Get, Return, Recycle

(* Every variable keeps its type, also while the pool is shut down and     *)
(* started again around its clients; in particular no pop() meets an empty *)
(* queue.                                                                  *)
THEOREM TypeCorrect == Spec => []TypeOK
<1>1. Typed => TypeOK
  BY DEF Typed
<1> QED
  BY TypeInit, TypeStep, <1>1, PTL DEF Spec

-----------------------------------------------------------------------------
(* One holder for every connection: what LoanPool promises.                *)
loans == [c \in Clients |-> Has(c)]

OneHolder == \A c, d \in Clients : c # d => Has(c) \cap Has(d) = {}
NotIdle == \A c \in Clients : Has(c) \cap InQueue = {}
NoneLost == open = InQueue \cup UNION {Has(c) : c \in Clients}
TwoHands == \A c \in Clients : guard[c] # NoConn => guard[c] # back[c]

Held == OneHolder /\ NotIdle /\ NoneLost
Owned == Typed /\ NoRepeat(m_conn_queue) /\ TwoHands /\ Held

(* A step of LoanPool, or none, keeps every connection with one holder.    *)
LEMMA LoanStep ==
  ASSUME Held, Loan!LoanNext \/ UNCHANGED Loan!loanVars
  PROVE  Held'
<1>0. \A c \in Clients : loans[c] = Has(c) /\ loans'[c] = Has(c)'
  BY DEF loans
<1>1. CASE UNCHANGED Loan!loanVars
  <2>1. InQueue' = InQueue /\ open' = open /\ loans' = loans
    BY <1>1 DEF Loan!loanVars, loans
  <2>2. \A c \in Clients : Has(c)' = Has(c)
    BY <1>0, <2>1
  <2> QED
    BY <2>1, <2>2 DEF Held, OneHolder, NotIdle, NoneLost
<1>2. ASSUME NEW X \in SUBSET Conns, Loan!OpenIdle(X) PROVE Held'
  <2>1. X \cap open = {} /\ open' = open \cup X /\ InQueue' = InQueue \cup X /\ loans' = loans
    BY <1>2 DEF Loan!OpenIdle, loans
  <2>2. \A c \in Clients : Has(c)' = Has(c)
    BY <1>0, <2>1
  <2> QED
    BY <2>1, <2>2 DEF Held, OneHolder, NotIdle, NoneLost
<1>3. ASSUME NEW X \in SUBSET Conns, Loan!CloseIdle(X) PROVE Held'
  <2>1. X \subseteq InQueue /\ open' = open \ X /\ InQueue' = InQueue \ X /\ loans' = loans
    BY <1>3 DEF Loan!CloseIdle, loans
  <2>2. \A c \in Clients : Has(c)' = Has(c)
    BY <1>0, <2>1
  <2> QED
    BY <2>1, <2>2 DEF Held, OneHolder, NotIdle, NoneLost
<1>4. ASSUME NEW c \in Clients, NEW x \in Conns,
             Loan!Lend(c, x) \/ Loan!GiveBack(c, x) \/ Loan!Discard(c, x)
      PROVE  Held'
  <2>1. /\ \/ x \in InQueue /\ InQueue' = InQueue \ {x} /\ open' = open
              /\ loans' = [loans EXCEPT ![c] = @ \cup {x}]
           \/ x \in loans[c] /\ InQueue' = InQueue \cup {x} /\ open' = open
              /\ loans' = [loans EXCEPT ![c] = @ \ {x}]
           \/ x \in loans[c] /\ InQueue' = InQueue /\ open' = open \ {x}
              /\ loans' = [loans EXCEPT ![c] = @ \ {x}]
    BY <1>4 DEF Loan!Lend, Loan!GiveBack, Loan!Discard, loans
  <2>2. \A d \in Clients : d # c => Has(d)' = Has(d)
    BY <1>0, <2>1 DEF loans
  <2>3. \/ x \in InQueue /\ InQueue' = InQueue \ {x} /\ open' = open /\ Has(c)' = Has(c) \cup {x}
        \/ x \in Has(c) /\ InQueue' = InQueue \cup {x} /\ open' = open /\ Has(c)' = Has(c) \ {x}
        \/ x \in Has(c) /\ InQueue' = InQueue /\ open' = open \ {x} /\ Has(c)' = Has(c) \ {x}
    BY <1>0, <2>1 DEF loans
  <2>4. OneHolder' /\ NotIdle'
    BY <2>2, <2>3 DEF Held, OneHolder, NotIdle
  <2>5. NoneLost'
    BY <2>2, <2>3 DEF Held, OneHolder, NotIdle, NoneLost
  <2> QED
    BY <2>4, <2>5 DEF Held
<1> QED
  BY <1>1, <1>2, <1>3, <1>4 DEF Loan!LoanNext

(* What a step must show beyond its type.                                  *)
Kept == /\ NoRepeat(m_conn_queue)' /\ TwoHands'
        /\ Loan!LoanNext \/ UNCHANGED Loan!loanVars

LEMMA QueueFacts ==
  ASSUME Owned
  PROVE  /\ m_conn_queue \in Seq(Entry) /\ NoRepeat(m_conn_queue) /\ InQueue \subseteq Conns
         /\ InQueue \subseteq open /\ \A c \in Clients : Has(c) \subseteq open \cap Conns
<1>1. m_conn_queue \in Seq(Entry)
  BY DEF Owned, Typed, TypeOK
<1>2. \A i \in DOMAIN m_conn_queue : m_conn_queue[i] \in Entry
  BY <1>1
<1>3. InQueue \subseteq Conns
  BY <1>2 DEF InQueue, ConnsIn, Entry
<1>4. \A c \in Clients : Has(c) \subseteq Conns
  BY DEF Owned, Typed, TypeOK, Has
<1> QED
  BY <1>1, <1>3, <1>4 DEF Owned, Held, NoneLost

(* The queue, the guards and what exists stay.                             *)
LEMMA NothingMoves ==
  ASSUME Owned, InQueue' = InQueue, UNCHANGED <<open, guard, back>>, NoRepeat(m_conn_queue)'
  PROVE  Kept
BY DEF Kept, Owned, TwoHands, Loan!loanVars, Has

(* A connection moves between the guard and the way back, or not at all.   *)
LEMMA HandsOnly ==
  ASSUME Owned, NEW c \in Clients, UNCHANGED <<m_conn_queue, open>>, back[c] = NoConn,
         guard' = [guard EXCEPT ![c] = NoConn], back' = [back EXCEPT ![c] = guard[c]]
  PROVE  Kept
<1>1. \A d \in Clients : Has(d)' = Has(d)
  BY DEF Owned, Typed, TypeOK, Has
<1>2. TwoHands'
  BY DEF Owned, Typed, TypeOK, TwoHands
<1>3. UNCHANGED Loan!loanVars
  BY <1>1 DEF Loan!loanVars, InQueue
<1> QED
  BY <1>2, <1>3 DEF Kept, Owned

LEMMA Lends ==
  ASSUME Owned, NEW c \in Clients, m_conn_queue # <<>>, TakeFront(c), back[c] = NoConn
  PROVE  Kept
<1> DEFINE x == Head(m_conn_queue).conn
<1>1. /\ InQueue = InQueue' \cup {x} /\ x \notin InQueue' /\ NoRepeat(m_conn_queue)'
      /\ x \in InQueue /\ x \in Conns
  BY QueueFacts, TailConns DEF TakeFront, InQueue
<1>2. x # NoConn /\ x \notin Has(c)
  BY <1>1, RedisPoolAssumption DEF Owned, Held, NotIdle
<1>3. guard' = [guard EXCEPT ![c] = x] /\ back' = [back EXCEPT ![c] = guard[c]] /\ open' = open
  BY DEF TakeFront, Deliver
<1> HIDE DEF x
<1>4. \A d \in Clients : d # c => Has(d)' = Has(d)
  BY <1>3 DEF Owned, Typed, TypeOK, Has
<1>5. Has(c)' = Has(c) \cup {x}
  BY <1>2, <1>3 DEF Owned, Typed, TypeOK, Has
<1>6. TwoHands'
  BY <1>2, <1>3 DEF Owned, Typed, TypeOK, TwoHands, Has
<1>7. loans' = [loans EXCEPT ![c] = @ \cup {x}]
  BY <1>4, <1>5 DEF loans
<1>8. Loan!Lend(c, x)
  BY <1>1, <1>3, <1>7 DEF Loan!Lend, loans
<1> QED
  BY <1>1, <1>6, <1>8 DEF Kept, Loan!LoanNext

(* A new connection, or none.                                              *)
LEMMA Opens ==
  ASSUME Owned, UNCHANGED <<guard, back>>,
         \/ m_conn_queue' = m_conn_queue /\ open' = open
         \/ \E x \in Unborn : m_conn_queue' = Append(m_conn_queue, Fresh(x))
                              /\ open' = open \cup {x}
  PROVE  Kept
<1>1. CASE m_conn_queue' = m_conn_queue /\ open' = open
  BY <1>1, NothingMoves DEF InQueue, Owned
<1>2. ASSUME NEW x \in Unborn, m_conn_queue' = Append(m_conn_queue, Fresh(x)),
             open' = open \cup {x}
      PROVE  Kept
  <2>1. Fresh(x) \in Entry /\ Fresh(x).conn = x /\ x \in Conns /\ x \notin open
    BY DEF Unborn, Fresh, Entry
  <2>2. InQueue' = InQueue \cup {x} /\ NoRepeat(m_conn_queue)'
    BY <1>2, <2>1, QueueFacts, AppendConns DEF InQueue
  <2>3. Loan!OpenIdle({x})
    BY <1>2, <2>1, <2>2 DEF Loan!OpenIdle, Has
  <2>4. Loan!LoanNext
    BY <2>1, <2>3 DEF Loan!LoanNext
  <2>5. TwoHands'
    BY DEF Owned, TwoHands
  <2> QED
    BY <2>2, <2>4, <2>5 DEF Kept
<1> QED
  BY <1>1, <1>2

LEMMA GivesBack ==
  ASSUME Owned, NEW c \in Clients, back[c] # NoConn, ReturnHealthy(c)
  PROVE  Kept
<1> DEFINE x == back[c]
<1>1. x \in Has(c) /\ x \in Conns /\ x \notin InQueue
  BY DEF Has, Owned, Held, NotIdle, Typed, TypeOK
<1>2. Fresh(x) \in Entry /\ Fresh(x).conn = x
  BY <1>1 DEF Fresh, Entry
<1>3. /\ m_conn_queue' = Append(m_conn_queue, Fresh(x)) /\ open' = open /\ guard' = guard
      /\ back' = [back EXCEPT ![c] = NoConn]
  BY DEF ReturnHealthy
<1>4. InQueue' = InQueue \cup {x} /\ NoRepeat(m_conn_queue)'
  BY <1>1, <1>2, <1>3, QueueFacts, AppendConns DEF InQueue
<1>5. \A d \in Clients : d # c => Has(d)' = Has(d)
  BY <1>3 DEF Owned, Typed, TypeOK, Has
<1>6. Has(c)' = Has(c) \ {x} /\ TwoHands'
  BY <1>3 DEF Owned, Typed, TypeOK, Has, TwoHands
<1>7. loans' = [loans EXCEPT ![c] = @ \ {x}] /\ x \in loans[c]
  BY <1>1, <1>5, <1>6 DEF loans
<1>8. Loan!GiveBack(c, x)
  BY <1>3, <1>4, <1>7 DEF Loan!GiveBack, loans
<1> QED
  BY <1>1, <1>4, <1>6, <1>8 DEF Kept, Loan!LoanNext

LEMMA Discards ==
  ASSUME Owned, NEW c \in Clients, back[c] # NoConn, DeleteBack(c)
  PROVE  Kept
<1> DEFINE x == back[c]
<1>1. x \in Has(c) /\ x \in Conns
  BY DEF Has, Owned, Typed, TypeOK
<1>3. /\ m_conn_queue' = m_conn_queue /\ open' = open \ {x} /\ guard' = guard
      /\ back' = [back EXCEPT ![c] = NoConn]
  BY DEF DeleteBack
<1>4. InQueue' = InQueue /\ NoRepeat(m_conn_queue)'
  BY <1>3 DEF InQueue, Owned
<1>5. \A d \in Clients : d # c => Has(d)' = Has(d)
  BY <1>3 DEF Owned, Typed, TypeOK, Has
<1>6. Has(c)' = Has(c) \ {x} /\ TwoHands'
  BY <1>3 DEF Owned, Typed, TypeOK, Has, TwoHands
<1>7. loans' = [loans EXCEPT ![c] = @ \ {x}] /\ x \in loans[c]
  BY <1>1, <1>5, <1>6 DEF loans
<1>8. Loan!Discard(c, x)
  BY <1>3, <1>4, <1>7 DEF Loan!Discard, loans
<1> QED
  BY <1>1, <1>4, <1>6, <1>8 DEF Kept, Loan!LoanNext

LEMMA Closes ==
  ASSUME Owned, NEW X \in SUBSET InQueue, InQueue' = InQueue \ X, open' = open \ X,
         UNCHANGED <<guard, back>>, NoRepeat(m_conn_queue)'
  PROVE  Kept
<1>1. Loan!CloseIdle(X)
  BY DEF Loan!CloseIdle, Has
<1>2. X \in SUBSET Conns
  BY QueueFacts
<1>3. Loan!LoanNext
  BY <1>1, <1>2 DEF Loan!LoanNext
<1> QED
  BY <1>3 DEF Kept, Owned, TwoHands

LEMMA Sources ==
  ASSUME Owned, Source, UNCHANGED <<guard, back>>
  PROVE  Kept
<1>1. PICK k \in Nat : \E s \in [1..k -> Unborn] :
        /\ m_conn_queue' = m_conn_queue \o NewEntries(k, s)
        /\ open' = open \cup {s[i] : i \in 1..k}
        /\ NewEntries(k, s) \in Seq(Entry) /\ NoRepeat(NewEntries(k, s))
        /\ ConnsIn(NewEntries(k, s)) = {s[i] : i \in 1..k}
  BY SourceFacts DEF Owned, Typed
<1>2. PICK s \in [1..k -> Unborn] :
        /\ m_conn_queue' = m_conn_queue \o NewEntries(k, s)
        /\ open' = open \cup {s[i] : i \in 1..k}
        /\ NewEntries(k, s) \in Seq(Entry) /\ NoRepeat(NewEntries(k, s))
        /\ ConnsIn(NewEntries(k, s)) = {s[i] : i \in 1..k}
  BY <1>1
<1> DEFINE X == {s[i] : i \in 1..k}
<1>3. X \subseteq Conns /\ X \cap open = {}
  BY DEF Unborn
<1>4. open' = open \cup X /\ ConnsIn(NewEntries(k, s)) = X
  BY <1>2
<1> HIDE DEF X
<1>5. InQueue' = InQueue \cup X /\ NoRepeat(m_conn_queue)'
  BY <1>2, <1>3, <1>4, QueueFacts, ConcatConns DEF InQueue
<1>6. Loan!OpenIdle(X)
  BY <1>3, <1>4, <1>5 DEF Loan!OpenIdle, Has
<1>7. Loan!LoanNext
  BY <1>3, <1>6 DEF Loan!LoanNext
<1> QED
  BY <1>5, <1>7 DEF Kept, Owned, TwoHands

(* Every step of the pool is a step of LoanPool, or none.                  *)
LEMMA KeptStep ==
  ASSUME Owned, [Next]_vars
  PROVE  Kept
<1>0. \A c \in Clients : back[c] # NoConn <=> pc[c] \in {"checking", "healthy", "broken"}
  BY DEF Owned, Typed, Handing
<1>1. ASSUME NEW c \in Clients, GetEnter(c) \/ WakeEmpty(c) \/ Release(c) PROVE Kept
  <2>1. back[c] = NoConn
    BY <1>0, <1>1 DEF GetEnter, WakeEmpty, Release, Awake
  <2>2. \/ UNCHANGED <<m_conn_queue, open, guard, back>>
        \/ /\ UNCHANGED <<m_conn_queue, open>>
           /\ guard' = [guard EXCEPT ![c] = NoConn] /\ back' = [back EXCEPT ![c] = guard[c]]
    BY <1>1 DEF GetEnter, WakeEmpty, Release, Deliver, poolVars
  <2> QED
    BY <2>1, <2>2, HandsOnly, NothingMoves DEF InQueue, Owned
<1>2. ASSUME NEW c \in Clients, ExpandTake(c) \/ GetTake(c) \/ WakeTake(c) PROVE Kept
  <2>1. m_conn_queue # <<>> /\ TakeFront(c) /\ back[c] = NoConn
    BY <1>0, <1>2 DEF ExpandTake, ExpandDone, GetTake, WakeTake, Awake
  <2> QED
    BY <2>1, Lends
<1>3. ASSUME NEW c \in Clients, ExpandOne(c) PROVE Kept
  BY <1>3, CreateType, Opens DEF ExpandOne, Create, CreateFails
<1>4. ASSUME NEW c \in Clients, Refill(c) PROVE Kept
  <2>1. UNCHANGED <<guard, back>> /\ Replace(c) /\ pc[c] = "uncounted"
    BY <1>4 DEF Refill
  <2> QED
    BY <2>1, ReplaceFacts, Opens DEF Owned, Typed
<1>5. ASSUME NEW c \in Clients, ReturnHealthy(c) PROVE Kept
  BY <1>0, <1>5, GivesBack DEF ReturnHealthy
<1>6. ASSUME NEW c \in Clients, DeleteBack(c) PROVE Kept
  BY <1>0, <1>6, Discards DEF DeleteBack
<1>7. CASE Age
  <2>1. InQueue' = InQueue /\ NoRepeat(m_conn_queue)'
    BY <1>7, AgeFacts, AgeConns DEF Owned, Typed, TypeOK, InQueue
  <2> QED
    BY <1>7, <2>1, NothingMoves DEF Age, clientVars
<1>8. CASE RecycleDrop
  <2>1. m_conn_queue # <<>> /\ UNCHANGED <<guard, back>>
    BY <1>8 DEF RecycleDrop, Scanning, clientVars, Owned, Typed, TypeOK, LockedLoops
  <2>2. /\ InQueue' = InQueue \ {Head(m_conn_queue).conn} /\ NoRepeat(m_conn_queue)'
        /\ Head(m_conn_queue).conn \in InQueue
    BY <1>8, <2>1, TailConns, QueueFacts DEF RecycleDrop, InQueue
  <2> QED
    BY <1>8, <2>1, <2>2, Closes DEF RecycleDrop
<1>9. CASE RecycleRotate
  <2>1. m_conn_queue # <<>> /\ UNCHANGED <<guard, back, open>>
    BY <1>9 DEF RecycleRotate, Scanning, clientVars, Owned, Typed, TypeOK, LockedLoops
  <2>2. /\ Tail(m_conn_queue) \in Seq(Entry) /\ Head(m_conn_queue) \in Entry
        /\ InQueue = ConnsIn(Tail(m_conn_queue)) \cup {Head(m_conn_queue).conn}
        /\ NoRepeat(Tail(m_conn_queue))
        /\ Head(m_conn_queue).conn \notin ConnsIn(Tail(m_conn_queue))
    BY <2>1, TailConns, QueueFacts DEF InQueue
  <2>3. InQueue' = InQueue /\ NoRepeat(m_conn_queue)'
    BY <1>9, <2>2, AppendConns DEF RecycleRotate, InQueue
  <2> QED
    BY <2>1, <2>3, NothingMoves
<1>10. CASE InitPool
  BY <1>10, Sources DEF InitPool, clientVars
<1>11. CASE Shutdown
  <2>1. InQueue' = InQueue \ InQueue /\ NoRepeat(m_conn_queue)'
    BY <1>11 DEF Shutdown, InQueue, ConnsIn, NoRepeat
  <2> QED
    BY <1>11, <2>1, Closes DEF Shutdown, clientVars
<1>12. ASSUME UNCHANGED <<m_conn_queue, open, guard, back>> PROVE Kept
  BY <1>12, NothingMoves DEF InQueue, Owned
<1>13. ASSUME NEW c \in Clients, GetExpand(c) \/ ExpandWait(c) \/ GetWait(c) \/ WaitEnds(c) \/ Check(c)
              \/ WriteSize(c)
       PROVE  Kept
  BY <1>12, <1>13 DEF GetExpand, ExpandWait, GetWait, WaitEnds, Check, WriteSize, Wait, poolVars
<1>14. CASE RecycleWake \/ RecycleStart \/ RecycleStale \/ RecycleEnd \/ StopRecycle \/ UNCHANGED vars
  BY <1>12, <1>14 DEF RecycleWake, RecycleStart, RecycleStale, RecycleEnd, StopRecycle, poolVars,
     clientVars, vars
<1> QED
  BY <1>1, <1>2, <1>3, <1>4, <1>5, <1>6, <1>7, <1>8, <1>9, <1>10, <1>11, <1>13, <1>14
     DEF Next, Serve, Get, Return, Recycle

LEMMA OwnedStep == Owned /\ [Next]_vars => Owned'
BY TypeStep, KeptStep, LoanStep DEF Owned, Kept

LEMMA OwnedInit == Init => Owned /\ Loan!LoanInit
<1> SUFFICES ASSUME Init PROVE Owned /\ Loan!LoanInit
  OBVIOUS
<1>1. InQueue = {} /\ open = {} /\ \A c \in Clients : Has(c) = {}
  BY DEF Init, InQueue, ConnsIn, Has
<1>2. NoRepeat(m_conn_queue) /\ TwoHands
  BY DEF Init, NoRepeat, TwoHands
<1> QED
  BY <1>1, <1>2, TypeInit DEF Owned, Held, OneHolder, NotIdle, NoneLost, Loan!LoanInit

(* The pool keeps what LoanPool promises: every connection that exists is  *)
(* in the queue or with exactly one client, and none is ever out of sight, *)
(* whatever fails and whenever the pool is shut down and started again.    *)
THEOREM ImplementsLoans == Spec => ImplementsLoanPool
<1>1. Owned /\ [Next]_vars => [Loan!LoanNext]_(Loan!loanVars)
  BY KeptStep DEF Kept
<1> QED
  BY OwnedInit, OwnedStep, <1>1, PTL DEF Spec, ImplementsLoanPool, Loan!LoanSpec

-----------------------------------------------------------------------------
(* The recycle thread.                                                     *)
OldestInv == Sorted(m_conn_queue) /\ SparesMin

LEMMA OldestStep == Typed /\ OldestInv /\ [Next]_vars => OldestInv'
<1> SUFFICES ASSUME Typed, OldestInv, [Next]_vars PROVE OldestInv'
  OBVIOUS
<1>0. /\ TypeOK /\ m_conn_queue \in Seq(Entry) /\ Len(m_conn_queue) \in Nat /\ Sorted(m_conn_queue)
      /\ recycler = "scanning" => m_mutex = Recycler /\ left <= Len(m_conn_queue)
      /\ recycler = "scanning" => Len(m_conn_queue) >= MinSize + can_recycle - recycled
      /\ can_recycle \in Nat /\ recycled \in Nat /\ left \in Nat
      /\ Recycler \notin Clients /\ NoOwner \notin Clients /\ NoOwner # Recycler /\ MinSize \in Nat
  BY RedisPoolAssumption DEF Typed, TypeOK, LockedLoops, OldestInv, SparesMin
<1>2. ASSUME NEW c \in Clients, ExpandTake(c) \/ GetTake(c) \/ WakeTake(c) PROVE OldestInv'
  <2>1. m_conn_queue # <<>> /\ m_conn_queue' = Tail(m_conn_queue) /\ UNCHANGED recycler
    BY <1>2 DEF ExpandTake, GetTake, WakeTake, TakeFront, recycleVars
  <2>2. recycler # "scanning"
    BY <1>0, <1>2 DEF ExpandTake, ExpandDone, GetTake, WakeTake, Unlocked, Typed, LockedLoops
  <2>3. Sorted(m_conn_queue')
    BY <1>0, <2>1, TailSorted
  <2> QED
    BY <2>1, <2>2, <2>3 DEF OldestInv, SparesMin
<1>3. ASSUME NEW c \in Clients, ExpandOne(c) \/ Refill(c) \/ ReturnHealthy(c) PROVE OldestInv'
  <2>1. m_conn_queue' = m_conn_queue \/ \E x \in Conns : m_conn_queue' = Append(m_conn_queue, Fresh(x))
    <3>1. CASE ExpandOne(c)
      BY <1>0, <3>1, CreateType DEF ExpandOne, Unborn
    <3>2. CASE Refill(c)
      BY <1>0, <3>2, ReplaceFacts DEF Refill, Unborn
    <3>3. CASE ReturnHealthy(c)
      BY <1>0, <3>3 DEF ReturnHealthy, Typed, Handing, TypeOK
    <3> QED
      BY <1>3, <3>1, <3>2, <3>3
  <2>2. recycler # "scanning" /\ UNCHANGED recycler
    BY <1>0, <1>3 DEF ExpandOne, Refill, ReturnHealthy, Unlocked, Typed, LockedLoops, recycleVars
  <2>3. Sorted(m_conn_queue')
    BY <1>0, <2>1, AppendSorted DEF Fresh, Entry
  <2> QED
    BY <2>2, <2>3 DEF OldestInv, SparesMin
<1>4. CASE Age
  <2>1. Sorted(m_conn_queue') /\ Len(m_conn_queue') = Len(m_conn_queue)
        /\ UNCHANGED <<recycler, can_recycle, recycled>>
    BY <1>0, <1>4, AgeFacts DEF Age, recycleVars
  <2> QED
    BY <1>0, <2>1 DEF OldestInv, SparesMin
<1>5. CASE RecycleDrop
  <2>1. /\ m_conn_queue # <<>> /\ m_conn_queue' = Tail(m_conn_queue)
        /\ recycled' = recycled + 1 /\ UNCHANGED <<recycler, can_recycle>>
    BY <1>0, <1>5 DEF RecycleDrop, Scanning
  <2>2. Sorted(m_conn_queue') /\ Len(m_conn_queue') = Len(m_conn_queue) - 1
    BY <1>0, <2>1, TailSorted, TailConns
  <2>3. recycler = "scanning"
    BY <1>5 DEF RecycleDrop, Scanning
  <2>4. Len(m_conn_queue') >= MinSize + can_recycle' - recycled'
    BY <1>0, <2>1, <2>2, <2>3
  <2> QED
    BY <2>2, <2>4 DEF OldestInv, SparesMin
<1>6. CASE RecycleRotate
  <2>1. /\ m_conn_queue # <<>> /\ m_conn_queue' = Append(Tail(m_conn_queue), Head(m_conn_queue))
        /\ ~Head(m_conn_queue).idle /\ UNCHANGED <<recycler, can_recycle, recycled>>
    BY <1>0, <1>6 DEF RecycleRotate, Scanning
  <2>2. /\ Tail(m_conn_queue) \in Seq(Entry) /\ Head(m_conn_queue) \in Entry
        /\ Len(Tail(m_conn_queue)) = Len(m_conn_queue) - 1 /\ Sorted(Tail(m_conn_queue))
    BY <1>0, <2>1, TailConns, TailSorted
  <2>3. Sorted(m_conn_queue')
    BY <2>1, <2>2, AppendSorted
  <2>4. Len(m_conn_queue') = Len(Tail(m_conn_queue)) + 1
    BY <2>1, <2>2
  <2>5. Len(m_conn_queue') = Len(m_conn_queue)
    BY <1>0, <2>1, <2>2, <2>4
  <2> QED
    BY <1>0, <2>1, <2>3, <2>5 DEF OldestInv, SparesMin
<1>7. CASE RecycleStart
  <2>1. m_conn_queue' = m_conn_queue
    BY <1>7 DEF RecycleStart, poolVars
  <2>2. recycler' = "scanning" => can_recycle' = Len(m_conn_queue) - MinSize /\ recycled' = 0
    BY <1>7 DEF RecycleStart, Scan
  <2> QED
    BY <1>0, <2>1, <2>2 DEF OldestInv, SparesMin
<1>8. CASE InitPool
  <2>1. PICK k \in Nat : \E s \in [1..k -> Unborn] :
          /\ m_conn_queue' = m_conn_queue \o NewEntries(k, s)
          /\ NewEntries(k, s) \in Seq(Entry)
          /\ \A i \in DOMAIN NewEntries(k, s) : ~NewEntries(k, s)[i].idle
    BY <1>0, <1>8, SourceFacts DEF InitPool
  <2>2. Sorted(m_conn_queue')
    BY <1>0, <2>1, ConcatSorted
  <2> QED
    BY <1>8, <2>2 DEF InitPool, OldestInv, SparesMin
<1>9. CASE Shutdown
  BY <1>9 DEF Shutdown, recycleVars, OldestInv, SparesMin, Sorted
<1>10. CASE RecycleWake \/ RecycleStale \/ RecycleEnd \/ StopRecycle \/ UNCHANGED vars
  <2>1. m_conn_queue' = m_conn_queue
        /\ (UNCHANGED <<recycler, can_recycle, recycled>> \/ recycler' # "scanning")
    BY <1>10 DEF RecycleWake, RecycleStale, RecycleEnd, StopRecycle, poolVars, recycleVars, vars
  <2> QED
    BY <1>0, <2>1 DEF OldestInv, SparesMin
<1>11. ASSUME NEW c \in Clients, GetEnter(c) \/ GetExpand(c) \/ ExpandWait(c) \/ GetWait(c)
              \/ WaitEnds(c) \/ WakeEmpty(c) \/ Release(c) \/ Check(c) \/ DeleteBack(c)
              \/ WriteSize(c)
       PROVE  OldestInv'
  <2>1. UNCHANGED <<m_conn_queue, recycler, can_recycle, recycled>>
    BY <1>11 DEF GetEnter, GetExpand, ExpandWait, GetWait, WaitEnds, WakeEmpty, Release, Check,
       DeleteBack, WriteSize, Wait, poolVars, recycleVars
  <2> QED
    BY <1>0, <2>1 DEF OldestInv, SparesMin
<1> QED
  BY <1>2, <1>3, <1>4, <1>5, <1>6, <1>7, <1>8, <1>9, <1>10, <1>11
     DEF Next, Serve, Get, Return, Recycle

(* The recycle thread finds the connections that have been idle longest,   *)
(* and never takes the queue below m_min_size, as long as what push()       *)
(* copies of a popped entry is still the entry.                             *)
THEOREM RecyclesRight == Spec => []RecycleExact
<1>1. Init => OldestInv
  BY DEF Init, OldestInv, Sorted, SparesMin
<1>2. OldestInv => RecycleExact
  BY DEF OldestInv, Sorted, RecycleExact, OldestFirst
<1> QED
  BY TypeInit, TypeStep, <1>1, <1>2, OldestStep, PTL DEF Spec


-----------------------------------------------------------------------------
(* The statistics: sets of clients are counted, one client at a time.      *)
One(b) == IF b THEN 1 ELSE 0

LEMMA CountOne ==
  ASSUME NEW S \in SUBSET Clients, NEW T \in SUBSET Clients, NEW c \in Clients,
         \A d \in Clients : d # c => (d \in S <=> d \in T)
  PROVE  /\ Cardinality(S) \in Nat /\ Cardinality(T) \in Nat
         /\ Cardinality(T) + One(c \in S) = Cardinality(S) + One(c \in T)
<1>1. IsFiniteSet(S) /\ IsFiniteSet(T)
  BY RedisPoolAssumption, FS_Subset
<1>2. Cardinality(S) \in Nat /\ Cardinality(T) \in Nat
  BY <1>1, FS_CardinalityType
<1>3. CASE c \in S <=> c \in T
  <2>1. S = T
    BY <1>3
  <2> QED
    BY <1>2, <2>1 DEF One
<1>4. CASE c \in S /\ c \notin T
  <2>1. S = T \cup {c}
    BY <1>4
  <2>2. Cardinality(S) = Cardinality(T) + 1
    BY <1>1, <1>4, <2>1, FS_AddElement
  <2> QED
    BY <1>2, <1>4, <2>2 DEF One
<1>5. CASE c \notin S /\ c \in T
  <2>1. T = S \cup {c}
    BY <1>5
  <2>2. Cardinality(T) = Cardinality(S) + 1
    BY <1>1, <1>5, <2>1, FS_AddElement
  <2> QED
    BY <1>2, <1>5, <2>2 DEF One
<1> QED
  BY <1>2, <1>3, <1>4, <1>5

Holding   == {c \in Clients : guard[c] # NoConn}
Returning == {c \in Clients : pc[c] \in InReturn}
Waiters   == {c \in Clients : pc[c] \in Awake \cup {"waiting"}}

(* A step of one client, which may wake another.                           *)
OnlyBy(c) == \A d \in Clients \ {c} :
               /\ guard'[d] = guard[d]
               /\ pc'[d] # pc[d] => pc[d] = "waiting" /\ pc'[d] = "notified"

(* What one client's step adds to the lent connections and to the waiters. *)
LentBy(c) == (IF guard[c] # NoConn THEN 1 ELSE 0) + (IF pc[c] \in InReturn THEN 1 ELSE 0)
WaitsBy(c) == IF pc[c] \in Awake \cup {"waiting"} THEN 1 ELSE 0

LEMMA CountStep ==
  ASSUME NEW c \in Clients, OnlyBy(c)
  PROVE  /\ Lent \in Int /\ Lent' \in Int
         /\ Cardinality(Waiters) \in Int /\ Cardinality(Waiters)' \in Int
         /\ Lent' + LentBy(c) = Lent + LentBy(c)'
         /\ Cardinality(Waiters)' + WaitsBy(c) = Cardinality(Waiters) + WaitsBy(c)'
<1>1. /\ Holding \in SUBSET Clients /\ Holding' \in SUBSET Clients
      /\ Returning \in SUBSET Clients /\ Returning' \in SUBSET Clients
      /\ Waiters \in SUBSET Clients /\ Waiters' \in SUBSET Clients
  BY DEF Holding, Returning, Waiters
<1>2. \A d \in Clients : d # c => (d \in Holding <=> d \in Holding')
  BY DEF Holding, OnlyBy
<1>3. \A d \in Clients : d # c => (d \in Returning <=> d \in Returning')
  BY DEF Returning, OnlyBy, InReturn
<1>4. \A d \in Clients : d # c => (d \in Waiters <=> d \in Waiters')
  BY DEF Waiters, OnlyBy, Awake
<1>5. /\ Cardinality(Holding) \in Nat /\ Cardinality(Holding') \in Nat
      /\ Cardinality(Holding') + One(c \in Holding) = Cardinality(Holding) + One(c \in Holding')
  BY <1>1, <1>2, CountOne
<1>6. /\ Cardinality(Returning) \in Nat /\ Cardinality(Returning') \in Nat
      /\ Cardinality(Returning') + One(c \in Returning)
         = Cardinality(Returning) + One(c \in Returning')
  BY <1>1, <1>3, CountOne
<1>7. /\ Cardinality(Waiters) \in Nat /\ Cardinality(Waiters') \in Nat
      /\ Cardinality(Waiters') + One(c \in Waiters) = Cardinality(Waiters) + One(c \in Waiters')
  BY <1>1, <1>4, CountOne
<1>8. Lent = Cardinality(Holding) + Cardinality(Returning)
      /\ Lent' = Cardinality(Holding') + Cardinality(Returning')
  BY DEF Lent, Holding, Returning
<1>9. /\ LentBy(c) = One(c \in Holding) + One(c \in Returning)
      /\ LentBy(c)' = One(c \in Holding') + One(c \in Returning')
      /\ WaitsBy(c) = One(c \in Waiters) /\ WaitsBy(c)' = One(c \in Waiters')
  BY DEF LentBy, WaitsBy, One, Holding, Returning, Waiters
<1>10. \A b : One(b) \in Nat
  BY DEF One
<1>11. Lent \in Int /\ Lent' \in Int
  BY <1>5, <1>6, <1>8
<1>12. Lent' + LentBy(c) = Lent + LentBy(c)'
  <2>1. PICK h \in Nat, hh \in Nat, r \in Nat, rr \in Nat :
          /\ h = Cardinality(Holding) /\ hh = Cardinality(Holding')
          /\ r = Cardinality(Returning) /\ rr = Cardinality(Returning')
    BY <1>5, <1>6
  <2>2. PICK x \in Nat, xx \in Nat, y \in Nat, yy \in Nat :
          /\ x = One(c \in Holding) /\ xx = One(c \in Holding')
          /\ y = One(c \in Returning) /\ yy = One(c \in Returning')
    BY <1>10
  <2>3. hh + x = h + xx /\ rr + y = r + yy
    BY <1>5, <1>6, <2>1, <2>2
  <2>4. /\ Lent = h + r /\ Lent' = hh + rr
        /\ LentBy(c) = x + y /\ LentBy(c)' = xx + yy
    BY <1>8, <1>9, <2>1, <2>2
  <2> QED
    BY <2>3, <2>4
<1> QED
  BY <1>7, <1>9, <1>11, <1>12


(* The invariant: the three counters, and the idle counter between the     *)
(* start of a scan and the first connection it drops.                      *)
Counted   == /\ strays \in Int
             /\ m_stats.active = Lent - strays
             /\ m_stats.waiters = Cardinality(Waiters)
IdleKnown == /\ Unlocked => m_stats.idle = Len(m_conn_queue)
             /\ recycler = "scanning" /\ recycled = 0 => m_stats.idle = Len(m_conn_queue)

LEMMA Balanced ==
  ASSUME Counted, TypeOK, TypeOK', strays' = strays, NEW c \in Clients, OnlyBy(c),
         m_stats'.active + LentBy(c) = m_stats.active + LentBy(c)',
         m_stats'.waiters + WaitsBy(c) = m_stats.waiters + WaitsBy(c)'
  PROVE  Counted'
<1>1. /\ m_stats.active \in Int /\ m_stats'.active \in Int
      /\ m_stats.waiters \in Int /\ m_stats'.waiters \in Int
  BY DEF TypeOK, Stats
<1>2. PICK a \in Int, aa \in Int, w \in Int, ww \in Int, s \in Int :
        /\ a = m_stats.active /\ aa = m_stats'.active /\ w = m_stats.waiters
        /\ ww = m_stats'.waiters /\ s = strays
  BY <1>1 DEF Counted
<1>3. PICK n \in Int, nn \in Int, k \in Int, kk \in Int :
        /\ n = Lent /\ nn = Lent' /\ k = Cardinality(Waiters) /\ kk = Cardinality(Waiters)'
  BY CountStep
<1>4. PICK x \in Int, xx \in Int, y \in Int, yy \in Int :
        /\ x = LentBy(c) /\ xx = LentBy(c)' /\ y = WaitsBy(c) /\ yy = WaitsBy(c)'
  BY DEF LentBy, WaitsBy
<1>5. /\ nn + x = n + xx /\ kk + y = k + yy
      /\ aa + x = a + xx /\ ww + y = w + yy /\ a = n - s /\ w = k
  BY <1>2, <1>3, <1>4, CountStep DEF Counted
<1>6. aa = nn - s /\ ww = kk
  BY <1>5
<1> QED
  BY <1>2, <1>3, <1>6 DEF Counted

(* What a delivery adds: one more connection is lent, unless it is null.   *)
LEMMA DeliverCount ==
  ASSUME TypeOK, NEW c \in Clients, pc[c] \notin InReturn, NEW x, Deliver(c, x)
  PROVE  /\ OnlyBy(c) /\ WaitsBy(c)' = 0
         /\ LentBy(c)' = LentBy(c) + (IF x = NoConn THEN 0 ELSE 1)
<1>1. guard'[c] = x /\ pc'[c] = IF guard[c] = NoConn THEN "out" ELSE "checking"
  BY DEF Deliver, TypeOK
<1>2. OnlyBy(c)
  <2>1. ASSUME NEW d \in Clients \ {c} PROVE guard'[d] = guard[d] /\ pc'[d] = pc[d]
    <3>1. PICK v \in {"out", "checking"} : pc' = [pc EXCEPT ![c] = v]
      BY DEF Deliver
    <3>2. pc'[d] = pc[d]
      BY <3>1 DEF TypeOK
    <3>3. guard'[d] = guard[d]
      BY DEF TypeOK, Deliver
    <3> QED
      BY <3>2, <3>3
  <2> QED
    BY <2>1 DEF OnlyBy
<1>3. WaitsBy(c)' = 0
  BY <1>1 DEF WaitsBy, Awake
<1>4. LentBy(c)' = LentBy(c) + (IF x = NoConn THEN 0 ELSE 1)
  BY <1>1 DEF LentBy, InReturn
<1> QED
  BY <1>2, <1>3, <1>4

LEMMA TakeCount ==
  ASSUME TypeOK, NEW c \in Clients, pc[c] \notin InReturn, m_conn_queue # <<>>, TakeFront(c)
  PROVE  OnlyBy(c) /\ WaitsBy(c)' = 0 /\ LentBy(c)' = LentBy(c) + 1
<1>1. Head(m_conn_queue).conn # NoConn
  <2>1. Head(m_conn_queue) \in Entry
    BY TailConns DEF TypeOK
  <2> QED
    BY <2>1, RedisPoolAssumption DEF Entry
<1>2. Deliver(c, Head(m_conn_queue).conn)
  BY DEF TakeFront
<1> DEFINE x == Head(m_conn_queue).conn
<1> HIDE DEF x
<1>3. OnlyBy(c) /\ WaitsBy(c)' = 0 /\ LentBy(c)' = LentBy(c) + (IF x = NoConn THEN 0 ELSE 1)
  BY <1>2, DeliverCount DEF x
<1> QED
  BY <1>1, <1>3 DEF x


(* A get_connection() that takes a connection lends one more, and its      *)
(* client no longer waits.                                                 *)
LEMMA TakeStats ==
  ASSUME TypeOK, TypeOK', NEW c \in Clients, ExpandTake(c) \/ GetTake(c) \/ WakeTake(c)
  PROVE  /\ OnlyBy(c)
         /\ m_stats'.active + LentBy(c) = m_stats.active + LentBy(c)'
         /\ m_stats'.waiters + WaitsBy(c) = m_stats.waiters + WaitsBy(c)'
         /\ m_stats'.idle = Len(m_conn_queue')
<1>1. m_conn_queue # <<>> /\ TakeFront(c) /\ pc[c] \notin InReturn
  BY DEF ExpandTake, ExpandDone, GetTake, WakeTake, Awake, InReturn
<1>2. OnlyBy(c) /\ WaitsBy(c)' = 0 /\ LentBy(c)' = LentBy(c) + 1
  BY <1>1, TakeCount
<1>3. /\ m_conn_queue \in Seq(Entry) /\ m_conn_queue' \in Seq(Entry) /\ m_stats \in Stats
      /\ m_current_size \in Int /\ m_stats.active \in Int /\ m_stats.waiters \in Int
      /\ LentBy(c) \in Int
  BY DEF TypeOK, Stats, LentBy
<1>4. CASE GetTake(c)
  <2>1. m_stats' = Borrowed(m_stats) /\ WaitsBy(c) = 0
    BY <1>4 DEF GetTake, WaitsBy, Awake
  <2>2. m_stats'.active = m_stats.active + 1 /\ m_stats'.waiters = m_stats.waiters
        /\ m_stats'.idle = Len(m_conn_queue')
    BY <1>3, <2>1, StatsUpdates
  <2> QED
    BY <1>2, <1>3, <2>1, <2>2
<1>5. CASE WakeTake(c)
  <2>1. m_stats' = Borrowed(Woken(m_stats)) /\ WaitsBy(c) = 1
    BY <1>5 DEF WakeTake, WaitsBy
  <2>2. /\ Woken(m_stats) \in Stats /\ Woken(m_stats).active = m_stats.active
        /\ Woken(m_stats).waiters = m_stats.waiters - 1
    BY <1>3, StatsUpdates
  <2>3. m_stats'.active = m_stats.active + 1 /\ m_stats'.waiters = m_stats.waiters - 1
        /\ m_stats'.idle = Len(m_conn_queue')
    BY <1>3, <2>1, <2>2, StatsUpdates
  <2>4. m_stats'.active + LentBy(c) = m_stats.active + LentBy(c)'
    BY <1>2, <1>3, <2>3
  <2>5. m_stats'.waiters + WaitsBy(c) = m_stats.waiters + WaitsBy(c)'
    BY <1>2, <1>3, <2>1, <2>3
  <2> QED
    BY <1>2, <2>3, <2>4, <2>5
<1>6. CASE ExpandTake(c)
  <2>1. m_stats' = Borrowed(Expanded(m_stats)) /\ WaitsBy(c) = 0
    BY <1>6 DEF ExpandTake, ExpandDone, WaitsBy, Awake
  <2>2. /\ Expanded(m_stats) \in Stats /\ Expanded(m_stats).active = m_stats.active
        /\ Expanded(m_stats).waiters = m_stats.waiters
    BY <1>3, StatsUpdates
  <2>3. m_stats'.active = m_stats.active + 1 /\ m_stats'.waiters = m_stats.waiters
        /\ m_stats'.idle = Len(m_conn_queue')
    BY <1>3, <2>1, <2>2, StatsUpdates
  <2> QED
    BY <1>2, <1>3, <2>1, <2>3
<1> QED
  BY <1>2, <1>4, <1>5, <1>6

LEMMA WaitStats ==
  ASSUME TypeOK, TypeOK', NEW c \in Clients, ExpandWait(c) \/ GetWait(c)
  PROVE  /\ OnlyBy(c)
         /\ m_stats'.active + LentBy(c) = m_stats.active + LentBy(c)'
         /\ m_stats'.waiters + WaitsBy(c) = m_stats.waiters + WaitsBy(c)'
         /\ m_stats'.idle = (IF ExpandWait(c) THEN Len(m_conn_queue) ELSE m_stats.idle)
<1>1. /\ pc' = [pc EXCEPT ![c] = "waiting"] /\ UNCHANGED <<poolVars, guard>>
      /\ pc[c] \in {"expanding", "entered"}
  BY DEF ExpandWait, ExpandDone, GetWait, Wait
<1>2. OnlyBy(c)
  BY <1>1 DEF OnlyBy, TypeOK
<1>3. pc'[c] = "waiting"
  BY <1>1 DEF TypeOK
<1>4. LentBy(c)' = LentBy(c) /\ WaitsBy(c) = 0 /\ WaitsBy(c)' = 1
  BY <1>1, <1>3 DEF LentBy, WaitsBy, InReturn, Awake
<1>5. /\ m_conn_queue \in Seq(Entry) /\ m_conn_queue' \in Seq(Entry) /\ m_stats \in Stats
      /\ m_current_size \in Int /\ m_stats.active \in Int /\ m_stats.waiters \in Int
      /\ LentBy(c) \in Int
  BY DEF TypeOK, Stats, LentBy
<1>6. CASE ExpandWait(c)
  <2>1. m_stats' = [Expanded(m_stats) EXCEPT !.waiters = @ + 1]
    BY <1>6 DEF ExpandWait, Wait
  <2>2. /\ Expanded(m_stats) \in Stats /\ Expanded(m_stats).active = m_stats.active
        /\ Expanded(m_stats).waiters = m_stats.waiters
        /\ Expanded(m_stats).idle = Len(m_conn_queue)
    BY <1>5, StatsUpdates
  <2>3. m_stats'.active = m_stats.active /\ m_stats'.waiters = m_stats.waiters + 1
        /\ m_stats'.idle = Len(m_conn_queue)
    BY <1>5, <2>1, <2>2, StatsUpdates
  <2> QED
    BY <1>2, <1>4, <1>5, <1>6, <2>3
<1>7. CASE GetWait(c) /\ ~ExpandWait(c)
  <2>1. m_stats' = [m_stats EXCEPT !.waiters = @ + 1]
    BY <1>7 DEF GetWait, Wait
  <2>3. m_stats'.active = m_stats.active /\ m_stats'.waiters = m_stats.waiters + 1
        /\ m_stats'.idle = m_stats.idle
    BY <1>5, <2>1, StatsUpdates
  <2> QED
    BY <1>2, <1>4, <1>5, <1>7, <2>3
<1> QED
  BY <1>6, <1>7

(* return_connection() takes back what it lent when its last section ends. *)
LEMMA ReturnStats ==
  ASSUME TypeOK, TypeOK', NEW c \in Clients, ReturnHealthy(c) \/ Refill(c),
         back[c] # NoConn \/ Refill(c)
  PROVE  /\ OnlyBy(c)
         /\ m_stats'.active + LentBy(c) = m_stats.active + LentBy(c)'
         /\ m_stats'.waiters + WaitsBy(c) = m_stats.waiters + WaitsBy(c)'
         /\ m_stats'.idle = Len(m_conn_queue')
<1>1. pc'[c] = "out"
      /\ \A d \in Clients : d # c /\ pc'[d] # pc[d] => pc[d] = "waiting" /\ pc'[d] = "notified"
  <2>1. CASE Refill(c)
    BY <2>1, ReplaceFacts DEF Refill
  <2>2. CASE ~Refill(c)
    BY <2>2, ReturnHealthyFacts
  <2> QED
    BY <2>1, <2>2
<1>2. pc[c] \in {"healthy", "uncounted"} /\ guard' = guard /\ m_stats' = Returned(m_stats)
  BY DEF ReturnHealthy, Refill
<1>3. OnlyBy(c)
  BY <1>1, <1>2 DEF OnlyBy
<1>4. LentBy(c)' = LentBy(c) - 1 /\ WaitsBy(c) = 0 /\ WaitsBy(c)' = 0
  BY <1>1, <1>2 DEF LentBy, WaitsBy, InReturn, Awake
<1>5. /\ m_conn_queue \in Seq(Entry) /\ m_conn_queue' \in Seq(Entry) /\ m_stats \in Stats
      /\ m_current_size \in Int /\ m_stats.active \in Int /\ m_stats.waiters \in Int
      /\ LentBy(c) \in Int
  BY DEF TypeOK, Stats, LentBy
<1>6. m_stats'.active = m_stats.active - 1 /\ m_stats'.waiters = m_stats.waiters
      /\ m_stats'.idle = Len(m_conn_queue')
  BY <1>2, <1>5, StatsUpdates
<1> QED
  BY <1>3, <1>4, <1>5, <1>6


(* The steps of a client that lend and take back nothing.                  *)
LEMMA QuietStats ==
  ASSUME TypeOK, TypeOK', NEW c \in Clients,
         GetEnter(c) \/ GetExpand(c) \/ ExpandOne(c) \/ WaitEnds(c) \/ Release(c) \/ Check(c)
           \/ DeleteBack(c) \/ WriteSize(c)
  PROVE  OnlyBy(c) /\ m_stats' = m_stats /\ LentBy(c)' = LentBy(c) /\ WaitsBy(c)' = WaitsBy(c)
<1>1. CASE GetEnter(c)
  <2>1. CASE ~m_initialized /\ Deliver(c, NoConn)
    <3>1. pc[c] = "out" /\ m_stats' = m_stats
      BY <1>1 DEF GetEnter
    <3>2. OnlyBy(c) /\ WaitsBy(c)' = 0 /\ LentBy(c)' = LentBy(c) + 0
      BY <2>1, <3>1, DeliverCount DEF InReturn
    <3> QED
      BY <3>1, <3>2 DEF WaitsBy, LentBy, Awake
  <2>2. CASE pc' = [pc EXCEPT ![c] = "entered"] /\ UNCHANGED <<guard, back>>
    <3>1. pc[c] = "out" /\ pc'[c] = "entered" /\ m_stats' = m_stats
      BY <1>1, <2>2 DEF GetEnter, TypeOK
    <3>2. OnlyBy(c)
      BY <2>2 DEF OnlyBy, TypeOK
    <3> QED
      BY <2>2, <3>1, <3>2 DEF LentBy, WaitsBy, Awake, InReturn
  <2> QED
    BY <1>1, <2>1, <2>2 DEF GetEnter
<1>2. CASE ExpandOne(c)
  <2>1. UNCHANGED <<pc, guard, m_stats>>
    BY <1>2 DEF ExpandOne
  <2> QED
    BY <2>1 DEF OnlyBy, LentBy, WaitsBy
<1>3. CASE Release(c)
  <2>1. /\ pc[c] = "out" /\ pc'[c] = "checking" /\ guard[c] # NoConn /\ guard'[c] = NoConn
        /\ m_stats' = m_stats
    BY <1>3 DEF Release, TypeOK
  <2>2. OnlyBy(c)
    BY <1>3 DEF Release, OnlyBy, TypeOK
  <2> QED
    BY <2>1, <2>2 DEF LentBy, WaitsBy, Awake, InReturn
<1>4. CASE GetExpand(c) \/ WaitEnds(c) \/ Check(c) \/ DeleteBack(c) \/ WriteSize(c)
  <2>1. PICK v \in {"expanding", "timedout", "spurious", "healthy", "broken", "deleted",
                    "uncounted"} : pc' = [pc EXCEPT ![c] = v]
    BY <1>4 DEF GetExpand, WaitEnds, Check, DeleteBack, WriteSize
  <2>2. pc'[c] = v /\ UNCHANGED <<guard, m_stats>>
    BY <1>4, <2>1 DEF TypeOK, GetExpand, WaitEnds, Check, DeleteBack, WriteSize
  <2>3. OnlyBy(c)
    BY <2>1, <2>2 DEF OnlyBy, TypeOK
  <2>4. /\ pc[c] \in InReturn <=> pc'[c] \in InReturn
        /\ pc[c] \in Awake \cup {"waiting"} <=> pc'[c] \in Awake \cup {"waiting"}
    <3>1. CASE GetExpand(c)
      BY <3>1 DEF GetExpand, TypeOK, InReturn, Awake
    <3>2. CASE WaitEnds(c)
      <4>1. pc[c] = "waiting" /\ pc'[c] \in {"timedout", "spurious"}
        BY <3>2 DEF WaitEnds, TypeOK
      <4> QED
        BY <4>1 DEF InReturn, Awake
    <3>3. CASE Check(c)
      <4>1. pc[c] = "checking" /\ pc'[c] \in {"healthy", "broken"}
        BY <3>3 DEF Check, TypeOK
      <4> QED
        BY <4>1 DEF InReturn, Awake
    <3>4. CASE DeleteBack(c) \/ WriteSize(c)
      <4>1. pc[c] \in {"broken", "deleted"} /\ pc'[c] \in {"deleted", "uncounted"}
        BY <3>4 DEF DeleteBack, WriteSize, TypeOK
      <4> QED
        BY <4>1 DEF InReturn, Awake
    <3> QED
      BY <1>4, <3>1, <3>2, <3>3, <3>4
  <2> QED
    BY <2>2, <2>3, <2>4 DEF LentBy, WaitsBy
<1> QED
  BY <1>1, <1>2, <1>3, <1>4

LEMMA WakeEmptyStats ==
  ASSUME TypeOK, TypeOK', NEW c \in Clients, WakeEmpty(c)
  PROVE  /\ OnlyBy(c)
         /\ m_stats'.active + LentBy(c) = m_stats.active + LentBy(c)'
         /\ m_stats'.waiters + WaitsBy(c) = m_stats.waiters + WaitsBy(c)'
         /\ m_stats'.idle = m_stats.idle /\ m_conn_queue' = m_conn_queue
<1>1. pc[c] \in Awake /\ pc[c] \notin InReturn /\ Deliver(c, NoConn)
      /\ m_stats' = Woken(m_stats) /\ m_conn_queue' = m_conn_queue
  BY DEF WakeEmpty, Awake, InReturn, poolVars
<1>2. OnlyBy(c) /\ WaitsBy(c)' = 0 /\ LentBy(c)' = LentBy(c) + 0 /\ WaitsBy(c) = 1
  BY <1>1, DeliverCount DEF WaitsBy
<1>3. /\ m_conn_queue \in Seq(Entry) /\ m_conn_queue' \in Seq(Entry) /\ m_stats \in Stats
      /\ m_current_size \in Int /\ m_stats.active \in Int /\ m_stats.waiters \in Int
      /\ LentBy(c) \in Int
  BY DEF TypeOK, Stats, LentBy
<1>4. m_stats'.active = m_stats.active /\ m_stats'.waiters = m_stats.waiters - 1
      /\ m_stats'.idle = m_stats.idle
  BY <1>1, <1>3, StatsUpdates
<1> QED
  BY <1>1, <1>2, <1>3, <1>4


StatsInv == Counted /\ IdleKnown

LEMMA StatsStep == Typed /\ Typed' /\ StatsInv /\ [MCNext]_<<vars, strays>> => StatsInv'
<1> SUFFICES ASSUME Typed, Typed', StatsInv, [MCNext]_<<vars, strays>> PROVE StatsInv'
  OBVIOUS
<1>0. /\ TypeOK /\ TypeOK' /\ Counted /\ IdleKnown
      /\ \A c \in Clients : pc[c] = "expanding" => m_mutex = c
      /\ recycler = "scanning" => m_mutex = Recycler
      /\ Recycler \notin Clients /\ NoOwner \notin Clients /\ NoOwner # Recycler
      /\ recycled \in Nat /\ m_conn_queue \in Seq(Entry) /\ m_conn_queue' \in Seq(Entry)
      /\ m_current_size \in Int /\ m_stats \in Stats
  BY RedisPoolAssumption DEF Typed, TypeOK, LockedLoops, StatsInv
<1>h. \A c \in Clients : pc[c] = "healthy" => back[c] # NoConn
  BY DEF Typed, Handing
<1>1. ~Shutdown /\ ~(app = "stopping" /\ app' = "down") => strays' = strays
  BY DEF MCNext, NoteStrays, vars
<1>2. ASSUME NEW c \in Clients,
             ExpandTake(c) \/ GetTake(c) \/ WakeTake(c) \/ ExpandWait(c) \/ GetWait(c)
               \/ ReturnHealthy(c) \/ Refill(c) \/ WakeEmpty(c)
      PROVE  StatsInv'
  <2>1. strays' = strays
    BY <1>1, <1>2 DEF ExpandTake, GetTake, WakeTake, ExpandWait, GetWait, ReturnHealthy, Refill,
       WakeEmpty, Shutdown
  <2>2. /\ OnlyBy(c)
        /\ m_stats'.active + LentBy(c) = m_stats.active + LentBy(c)'
        /\ m_stats'.waiters + WaitsBy(c) = m_stats.waiters + WaitsBy(c)'
        /\ m_stats'.idle = Len(m_conn_queue')
    <3>1. CASE ExpandTake(c) \/ GetTake(c) \/ WakeTake(c)
      BY <1>0, <3>1, TakeStats
    <3>2. CASE ExpandWait(c) \/ GetWait(c)
      <4>1. m_conn_queue' = m_conn_queue
        BY <3>2 DEF ExpandWait, GetWait, Wait, poolVars
      <4>2. ~ExpandWait(c) => m_stats.idle = Len(m_conn_queue)
        BY <1>0, <3>2 DEF GetWait, IdleKnown
      <4> QED
        BY <1>0, <3>2, <4>1, <4>2, WaitStats
    <3>3. CASE ReturnHealthy(c) \/ Refill(c)
      BY <1>0, <1>h, <3>3, ReturnStats DEF ReturnHealthy
    <3>4. CASE WakeEmpty(c)
      <4>1. m_stats.idle = Len(m_conn_queue)
        BY <1>0, <3>4 DEF WakeEmpty, IdleKnown
      <4> QED
        BY <1>0, <3>4, <4>1, WakeEmptyStats
    <3> QED
      BY <1>2, <3>1, <3>2, <3>3, <3>4
  <2>3. Counted'
    BY <1>0, <2>1, <2>2, Balanced
  <2> QED
    BY <2>2, <2>3 DEF StatsInv, IdleKnown
<1>3. ASSUME NEW c \in Clients,
             GetEnter(c) \/ GetExpand(c) \/ ExpandOne(c) \/ WaitEnds(c) \/ Release(c) \/ Check(c)
               \/ DeleteBack(c) \/ WriteSize(c)
      PROVE  StatsInv'
  <2>1. strays' = strays /\ UNCHANGED <<recycler, recycled>>
    BY <1>1, <1>3 DEF GetEnter, GetExpand, ExpandOne, WaitEnds, Release, Check, DeleteBack,
       WriteSize, Shutdown, recycleVars
  <2>2. OnlyBy(c) /\ m_stats' = m_stats /\ LentBy(c)' = LentBy(c) /\ WaitsBy(c)' = WaitsBy(c)
    BY <1>0, <1>3, QuietStats
  <2>3. Counted'
    BY <1>0, <2>1, <2>2, Balanced
  <2>4. CASE GetExpand(c) \/ ExpandOne(c)
    BY <1>0, <2>1, <2>3, <2>4 DEF GetExpand, ExpandOne, Unlocked, StatsInv, IdleKnown
  <2>5. CASE ~(GetExpand(c) \/ ExpandOne(c))
    <3>1. UNCHANGED <<m_conn_queue, m_mutex>>
      BY <1>3, <2>5 DEF GetEnter, WaitEnds, Release, Check, DeleteBack, WriteSize, poolVars
    <3> QED
      BY <1>0, <2>1, <2>2, <2>3, <3>1 DEF StatsInv, IdleKnown, Unlocked
  <2> QED
    BY <2>4, <2>5
<1>4. ASSUME UNCHANGED <<pc, guard>>, m_stats'.waiters = m_stats.waiters,
             \/ m_stats'.active = m_stats.active /\ strays' = strays
             \/ m_stats'.active = 0 /\ strays' = Lent'
      PROVE  Counted'
  <2>1. Lent' = Lent /\ Cardinality(Waiters)' = Cardinality(Waiters)
    BY <1>4 DEF Lent, Waiters
  <2>2. Lent \in Int
    BY <2>1, RedisPoolAssumption, FS_Subset, FS_CardinalityType DEF Lent
  <2> QED
    BY <1>0, <1>4, <2>1, <2>2 DEF Counted
<1>5. CASE Age \/ RecycleRotate
  <2>1. /\ UNCHANGED <<pc, guard, m_stats, m_mutex, recycler, recycled, app>>
        /\ Len(m_conn_queue') = Len(m_conn_queue)
    <3>1. CASE Age
      BY <1>0, <3>1, AgeFacts DEF Age, clientVars, recycleVars
    <3>2. CASE RecycleRotate
      <4>1. /\ Tail(m_conn_queue) \in Seq(Entry) /\ Head(m_conn_queue) \in Entry
            /\ Len(Tail(m_conn_queue)) = Len(m_conn_queue) - 1 /\ Len(m_conn_queue) \in Nat
        BY <1>0, <3>2, TailConns DEF RecycleRotate, Scanning, Typed, LockedLoops, TypeOK
      <4>2. Len(m_conn_queue') = Len(Tail(m_conn_queue)) + 1
        BY <3>2, <4>1 DEF RecycleRotate
      <4> QED
        BY <3>2, <4>1, <4>2 DEF RecycleRotate, clientVars
    <3> QED
      BY <1>5, <3>1, <3>2
  <2>2. strays' = strays
    BY <1>1, <1>5, <2>1 DEF Age, RecycleRotate, Shutdown
  <2>3. Counted'
    BY <1>4, <2>1, <2>2
  <2> QED
    BY <1>0, <2>1, <2>3 DEF StatsInv, IdleKnown, Unlocked
<1>6. CASE RecycleDrop
  <2>1. UNCHANGED <<pc, guard, m_stats, m_mutex>> /\ strays' = strays /\ recycled' = recycled + 1
        /\ recycler = "scanning" /\ recycler' = "scanning"
    BY <1>1, <1>6 DEF RecycleDrop, Scanning, clientVars, Shutdown
  <2>2. Counted'
    BY <1>4, <2>1
  <2> QED
    BY <1>0, <2>1, <2>2 DEF StatsInv, IdleKnown, Unlocked
<1>7. CASE RecycleStart
  <2>1. UNCHANGED <<pc, guard, m_stats, m_conn_queue>> /\ strays' = strays /\ Unlocked
    BY <1>1, <1>7 DEF RecycleStart, clientVars, poolVars, Shutdown
  <2>2. Counted'
    BY <1>4, <2>1
  <2> QED
    BY <1>0, <2>1, <2>2 DEF StatsInv, IdleKnown
<1>8. CASE RecycleEnd
  <2>1. /\ UNCHANGED <<pc, guard, m_conn_queue>> /\ strays' = strays
        /\ recycler = "scanning" /\ recycler' # "scanning"
        /\ m_stats' = IF recycled > 0 THEN Expanded(m_stats) ELSE m_stats
    BY <1>1, <1>8 DEF RecycleEnd, clientVars, poolVars, Shutdown
  <2>2. /\ m_stats'.active = m_stats.active /\ m_stats'.waiters = m_stats.waiters
        /\ m_stats'.idle = Len(m_conn_queue)
    <3>1. CASE recycled > 0
      <4>1. m_stats' = Expanded(m_stats)
        BY <2>1, <3>1
      <4> QED
        BY <1>0, <4>1, StatsUpdates
    <3>2. CASE recycled = 0
      BY <1>0, <2>1, <3>2 DEF IdleKnown
    <3> QED
      BY <1>0, <3>1, <3>2
  <2>3. Counted'
    BY <1>4, <2>1, <2>2
  <2> QED
    BY <2>1, <2>2, <2>3 DEF StatsInv, IdleKnown
<1>9. CASE InitPool
  <2>1. m_stats'.active = m_stats.active /\ m_stats'.waiters = m_stats.waiters
        /\ m_stats'.idle = Len(m_conn_queue')
    BY <1>0, <1>9, SourceFacts DEF InitPool
  <2>2. UNCHANGED <<pc, guard>> /\ strays' = strays
    BY <1>1, <1>9 DEF InitPool, clientVars, Shutdown
  <2>3. Counted'
    BY <1>4, <2>1, <2>2
  <2> QED
    BY <2>1, <2>3 DEF StatsInv, IdleKnown
<1>10. CASE Shutdown
  <2>1. UNCHANGED <<pc, guard>> /\ m_stats' = Closed(m_stats) /\ m_conn_queue' = <<>>
        /\ app = "stopping" /\ app' = "down"
    BY <1>10 DEF Shutdown, clientVars
  <2>2. strays' = Lent'
    BY <2>1 DEF MCNext, NoteStrays, vars
  <2>3. m_stats'.active = 0 /\ m_stats'.waiters = m_stats.waiters /\ m_stats'.idle = 0
    BY <1>0, <2>1, StatsUpdates
  <2>4. Counted'
    BY <1>4, <2>1, <2>2, <2>3
  <2> QED
    BY <2>1, <2>3, <2>4 DEF StatsInv, IdleKnown
<1>11. CASE RecycleWake \/ RecycleStale \/ StopRecycle \/ UNCHANGED <<vars, strays>>
  <2>1. UNCHANGED <<pc, guard, m_stats, m_conn_queue, m_mutex>>
        /\ (UNCHANGED <<recycler, recycled>> \/ recycler' # "scanning")
    BY <1>11 DEF RecycleWake, RecycleStale, StopRecycle, vars, clientVars, poolVars, recycleVars
  <2>2. strays' = strays
    BY <1>1, <1>11 DEF RecycleWake, RecycleStale, StopRecycle, Shutdown, vars
  <2>3. Counted'
    BY <1>4, <2>1, <2>2
  <2> QED
    BY <1>0, <2>1, <2>3 DEF StatsInv, IdleKnown, Unlocked
<1> QED
  BY <1>2, <1>3, <1>5, <1>6, <1>7, <1>8, <1>9, <1>10, <1>11
     DEF MCNext, Next, Serve, Get, Return, Recycle

LEMMA StatsInit == MCInit => StatsInv
<1> SUFFICES ASSUME MCInit PROVE StatsInv
  OBVIOUS
<1>1. /\ {c \in Clients : guard[c] # NoConn} = {} /\ Waiters = {}
      /\ {c \in Clients : pc[c] \in InReturn} = {}
  BY DEF MCInit, Init, Waiters, InReturn, Awake
<1>2. Lent = 0 /\ Cardinality(Waiters) = 0
  BY <1>1, FS_EmptySet DEF Lent
<1>3. m_stats.active = 0 /\ m_stats.waiters = 0 /\ m_stats.idle = 0 /\ strays = 0
      /\ recycler = "off" /\ m_conn_queue = <<>>
  BY DEF MCInit, Init
<1> QED
  BY <1>2, <1>3 DEF StatsInv, Counted, IdleKnown

(* What the statistics say is so, whatever fails and however often the     *)
(* pool is shut down: active_connections is what is lent, less what was    *)
(* lent when shutdown() set it to 0.                                       *)
THEOREM StatsCorrect == MCFairSpec => []StatsExact
<1>1. MCInit => Init
  BY DEF MCInit
<1>2. [MCNext]_<<vars, strays>> => [Next]_vars
  BY DEF MCNext
<1>3. StatsInv => StatsExact
  BY DEF StatsInv, Counted, IdleKnown, StatsExact, Waiters
<1> QED
  BY TypeInit, TypeStep, StatsInit, StatsStep, <1>1, <1>2, <1>3, PTL DEF MCFairSpec
=============================================================================
