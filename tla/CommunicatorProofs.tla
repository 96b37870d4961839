------------------------- MODULE CommunicatorProofs -------------------------
(***************************************************************************)
(* Proofs about Communicator, for every number of variables, descriptors,  *)
(* sockets and addresses, and every length of sun_path.                    *)
(***************************************************************************)
EXTENDS Communicator, FiniteSetTheorems, SequenceTheorems, WellFoundedInduction, TLAPS

-----------------------------------------------------------------------------
(* The kernel has a lowest free number as long as it has a free one.       *)
LEMMA LeastNumber ==
  ASSUME NEW T \in SUBSET Nat, T # {}
  PROVE  \E m \in T : \A k \in T : m <= k
<1> DEFINE R == {ss \in Nat \X Nat : ss[1] < ss[2]}
<1>1. IsWellFoundedOn(R, Nat)
  BY NatLessThanWellFounded DEF OpToRel
<1>2. \E m \in T : \A k \in T : ~ (<<k, m>> \in R)
  <2> HIDE DEF R
  <2> QED
    BY <1>1, WFMin
<1>3. ASSUME NEW k \in T, NEW m \in T, ~ (<<k, m>> \in R) PROVE m <= k
  <2>1. k \in Nat /\ m \in Nat /\ ~ (k < m)
    BY <1>3
  <2> QED
    BY <2>1
<1> QED
  <2> HIDE DEF R
  <2> QED
    BY <1>2, <1>3

LEMMA LowestIsFree ==
  ASSUME FreeFds # {}
  PROVE  LowestFd \in Fds /\ fdTable[LowestFd] = 0
<1>1. FreeFds \in SUBSET Nat
  BY CommunicatorAssumption DEF FreeFds
<1>2. \E f \in FreeFds : \A g \in FreeFds : f <= g
  BY <1>1, LeastNumber
<1>3. LowestFd \in FreeFds
  BY <1>2 DEF LowestFd
<1> QED
  BY <1>3 DEF FreeFds

-----------------------------------------------------------------------------
(* A socket of the kernel, field by field.                                 *)
Fields == {"domain", "type", "name", "listening", "nonblock", "peer", "pending", "inbox"}

IsSocket(r) ==
  /\ DOMAIN r = Fields /\ r = [x \in Fields |-> r[x]]
  /\ r.domain \in {"unix", "inet"} /\ r.type \in Types
  /\ r.name \in Seq(Nat) /\ r.peer \in Nat /\ r.pending \in Seq(Nat)

(* Two sockets that differ in what the properties do not speak of.         *)
Alike(r, q) ==
  /\ q.domain = r.domain /\ q.type = r.type /\ q.name = r.name
  /\ q.peer = r.peer /\ q.pending = r.pending

LEMMA SetFields ==
  ASSUME NEW r, IsSocket(r), NEW v
  PROVE  /\ LET q == [r EXCEPT !.listening = v]
            IN  IsSocket(q) /\ Alike(r, q)
         /\ LET q == [r EXCEPT !.nonblock = v]
            IN  IsSocket(q) /\ Alike(r, q)
         /\ LET q == [r EXCEPT !.inbox = v]
            IN  IsSocket(q) /\ Alike(r, q)
BY DEF IsSocket, Fields, Alike

LEMMA SetName ==
  ASSUME NEW r, IsSocket(r), NEW v \in Seq(Nat), NEW q, q = [r EXCEPT !.name = v]
  PROVE  /\ IsSocket(q) /\ q.domain = r.domain /\ q.type = r.type /\ q.name = v
         /\ q.peer = r.peer /\ q.pending = r.pending
BY DEF IsSocket, Fields

LEMMA SetPeer ==
  ASSUME NEW r, IsSocket(r), NEW v \in Nat, NEW q, q = [r EXCEPT !.peer = v]
  PROVE  /\ IsSocket(q) /\ q.domain = r.domain /\ q.type = r.type /\ q.name = r.name
         /\ q.peer = v /\ q.pending = r.pending
BY DEF IsSocket, Fields

LEMMA SetPending ==
  ASSUME NEW r, IsSocket(r), NEW v \in Seq(Nat), NEW q, q = [r EXCEPT !.pending = v]
  PROVE  /\ IsSocket(q) /\ q.domain = r.domain /\ q.type = r.type /\ q.name = r.name
         /\ q.peer = r.peer /\ q.pending = v
BY DEF IsSocket, Fields

LEMMA NewIsSocket ==
  ASSUME NEW d \in {"unix", "inet"}, NEW t \in Types
  PROVE  /\ IsSocket(NewSocket(d, t))
         /\ NewSocket(d, t).domain = d /\ NewSocket(d, t).type = t
         /\ NewSocket(d, t).name = NoName /\ NewSocket(d, t).peer = 0
         /\ NewSocket(d, t).pending = <<>>
BY DEF NewSocket, IsSocket, Fields, NoName

-----------------------------------------------------------------------------
(* The table of sockets.                                                   *)
IsSeq(q) == \E S : q \in Seq(S)

Rows == IsSeq(socket) /\ \A i \in Sockets : IsSocket(socket[i])

LEMMA SeqShape ==
  ASSUME NEW q, IsSeq(q)
  PROVE  /\ Len(q) \in Nat /\ DOMAIN q = 1..Len(q)
         /\ DOMAIN q \subseteq Nat \ {0} /\ Len(q) + 1 \notin DOMAIN q
         /\ Len(q) + 1 \in Nat \ {0}
<1>1. PICK S : q \in Seq(S)
  BY DEF IsSeq
<1>2. Len(q) \in Nat /\ DOMAIN q = 1..Len(q)
  BY <1>1
<1> QED
  BY <1>2

LEMMA EditSeq ==
  ASSUME NEW q, IsSeq(q), NEW i \in DOMAIN q, NEW r
  PROVE  /\ IsSeq([q EXCEPT ![i] = r]) /\ DOMAIN [q EXCEPT ![i] = r] = DOMAIN q
         /\ Len([q EXCEPT ![i] = r]) = Len(q) /\ [q EXCEPT ![i] = r][i] = r
         /\ \A j \in DOMAIN q : j # i => [q EXCEPT ![i] = r][j] = q[j]
<1> DEFINE p == [q EXCEPT ![i] = r]
<1>1. PICK S : q \in Seq(S)
  BY DEF IsSeq
<1>2. q \in Seq(S \cup {r}) /\ r \in S \cup {r} /\ Len(q) \in Nat /\ i \in 1..Len(q)
  BY <1>1, SeqMonotonic
<1>3. /\ p \in Seq(S \cup {r}) /\ Len(p) = Len(q)
      /\ \A j \in 1..Len(q) : p[j] = IF j = i THEN r ELSE q[j]
  BY <1>2, ExceptSeq
<1>4. DOMAIN p = DOMAIN q /\ DOMAIN q = 1..Len(q)
  BY <1>1, <1>3
<1> QED
  BY <1>2, <1>3, <1>4 DEF IsSeq

LEMMA AddSeq ==
  ASSUME NEW q, IsSeq(q), NEW r
  PROVE  /\ IsSeq(Append(q, r)) /\ DOMAIN Append(q, r) = DOMAIN q \cup {Len(q) + 1}
         /\ Append(q, r)[Len(q) + 1] = r /\ \A j \in DOMAIN q : Append(q, r)[j] = q[j]
<1>1. PICK S : q \in Seq(S)
  BY DEF IsSeq
<1>2. q \in Seq(S \cup {r}) /\ r \in S \cup {r}
  BY <1>1, SeqMonotonic
<1>3. /\ Append(q, r) \in Seq(S \cup {r}) /\ Append(q, r)[Len(q) + 1] = r /\ Len(q) \in Nat
      /\ DOMAIN Append(q, r) = 1..(Len(q) + 1) /\ DOMAIN q = 1..Len(q)
      /\ \A j \in 1..Len(q) : Append(q, r)[j] = q[j]
  BY <1>2, AppendProperties
<1> QED
  BY <1>3 DEF IsSeq

(* A step of the kernel that the properties do not tell from none.         *)
Quiet ==
  /\ Rows' /\ Sockets' = Sockets /\ UNCHANGED <<comm, holds, fdTable>>
  /\ \A i \in Sockets : Alike(socket[i], socket'[i])

LEMMA QuietEdit ==
  ASSUME Rows, NEW i \in Sockets, NEW r, IsSocket(r), Alike(socket[i], r),
         socket' = [socket EXCEPT ![i] = r], KernelOnly
  PROVE  Quiet
<1>1. /\ IsSeq(socket') /\ Sockets' = Sockets /\ socket'[i] = r
      /\ \A j \in Sockets : j # i => socket'[j] = socket[j]
  BY EditSeq DEF Rows, Sockets
<1>2. \A j \in Sockets : Alike(socket[j], socket'[j]) /\ IsSocket(socket'[j])
  BY <1>1 DEF Rows, Alike
<1> QED
  BY <1>1, <1>2 DEF Quiet, Rows, KernelOnly

LEMMA QuietSteps ==
  ASSUME Rows, NEW i \in Sockets, KernelOnly,
         \/ \E v : \/ socket' = [socket EXCEPT ![i].inbox = v]
                   \/ socket' = [socket EXCEPT ![i].listening = v]
                   \/ socket' = [socket EXCEPT ![i].nonblock = v]
  PROVE  Quiet
<1>1. IsSocket(socket[i])
  BY DEF Rows
<1>2. PICK v : \/ socket' = [socket EXCEPT ![i].inbox = v]
               \/ socket' = [socket EXCEPT ![i].listening = v]
               \/ socket' = [socket EXCEPT ![i].nonblock = v]
  OBVIOUS
<1>3. CASE socket' = [socket EXCEPT ![i].inbox = v]
  <2>1. socket' = [socket EXCEPT ![i] = [socket[i] EXCEPT !.inbox = v]]
    BY <1>3
  <2> QED
    BY <1>1, <2>1, SetFields, QuietEdit
<1>4. CASE socket' = [socket EXCEPT ![i].listening = v]
  <2>1. socket' = [socket EXCEPT ![i] = [socket[i] EXCEPT !.listening = v]]
    BY <1>4
  <2> QED
    BY <1>1, <2>1, SetFields, QuietEdit
<1>5. CASE socket' = [socket EXCEPT ![i].nonblock = v]
  <2>1. socket' = [socket EXCEPT ![i] = [socket[i] EXCEPT !.nonblock = v]]
    BY <1>5
  <2> QED
    BY <1>1, <2>1, SetFields, QuietEdit
<1> QED
  BY <1>2, <1>3, <1>4, <1>5

-----------------------------------------------------------------------------
(* Who has which descriptor.                                               *)
Holder == [fd : Fds \cup {Closed}, domain : {"unix", "inet", "none"},
           type : Types \cup {"none"}, strategy : {"tcp", "udp", "none"}]

Tables ==
  /\ comm \in [Slots -> Holder]
  /\ holds \in [Slots -> Nat] /\ fdTable \in [Fds -> Nat]

(* A Communicator is of the kind of the socket it was given.               *)
Own(s) == Valid(s) =>
  /\ Behind(s) = holds[s] /\ holds[s] \in Sockets
  /\ comm[s].type = socket[holds[s]].type /\ comm[s].domain = socket[holds[s]].domain
  /\ comm[s].type \in {"stream", "dgram"} /\ comm[s].strategy = StrategyOf(comm[s].type)

Exclusive ==
  /\ \A s \in Slots : Own(s)
  /\ \A s, t \in Slots : Valid(s) /\ comm[s].fd = comm[t].fd => s = t
  /\ \A f \in Fds : fdTable[f] # 0 => fdTable[f] \in Sockets /\ \E s \in Slots : comm[s].fd = f
  /\ \A f, g \in Fds : fdTable[f] = fdTable[g] /\ fdTable[f] # 0 => f = g

FdInv == Rows /\ Tables /\ Exclusive

(* Sockets are only ever added, and keep their domain and type.            *)
Grown ==
  /\ Rows' /\ Sockets \subseteq Sockets'
  /\ \A i \in Sockets : socket'[i].domain = socket[i].domain
                        /\ socket'[i].type = socket[i].type

(* What was closed is never open again.                                    *)
StaysClosed == \A i \in Sockets : Open(i)' => Open(i)

LEMMA ClosedIsNone == Closed \notin Fds /\ Fds \subseteq Nat /\ \A f \in Fds : f # Closed
BY CommunicatorAssumption DEF Closed

LEMMA InvalidIsHolder == Invalid \in Holder /\ Invalid.fd = Closed
BY DEF Invalid, Holder

LEMMA HolderType ==
  ASSUME Tables, NEW s \in Slots
  PROVE  comm[s] \in Holder /\ (Valid(s) => comm[s].fd \in Fds)
BY DEF Tables, Valid, Holder

LEMMA StillOwned ==
  ASSUME FdInv, Grown, UNCHANGED <<comm, holds, fdTable>>
  PROVE  FdInv' /\ StaysClosed
<1>1. \A s \in Slots : Own(s)'
  BY DEF FdInv, Exclusive, Own, Grown, Valid, Behind
<1> QED
  BY <1>1 DEF FdInv, Tables, Exclusive, Grown, Valid, StaysClosed, Open

(* close() and the assignments that leave nothing.                         *)
LEMMA ClosedOwned ==
  ASSUME FdInv, Grown, NEW s \in Slots, NEW h \in Holder, h.fd = Closed,
         comm' = [comm EXCEPT ![s] = h], holds' = [holds EXCEPT ![s] = 0],
         fdTable' = CloseFd(s)
  PROVE  FdInv' /\ StaysClosed
<1> USE DEF FdInv
<1>1. /\ comm' \in [Slots -> Holder] /\ holds' \in [Slots -> Nat]
      /\ comm'[s].fd = Closed /\ ~Valid(s)'
      /\ \A t \in Slots \ {s} : comm'[t] = comm[t] /\ holds'[t] = holds[t]
  BY DEF Tables, Valid
<1>2. fdTable' \in [Fds -> Nat] /\ \A f \in Fds : fdTable'[f] = IF f = comm[s].fd THEN 0 ELSE fdTable[f]
  BY ClosedIsNone, HolderType DEF CloseFd, Tables, Valid
<1>3. ASSUME NEW t \in Slots PROVE Own(t)'
  <2>1. CASE t = s
    BY <1>1, <2>1 DEF Own
  <2>2. CASE t # s /\ Valid(t)
    <3>1. comm[t].fd \in Fds /\ comm[t].fd # comm[s].fd
      BY <2>2, HolderType DEF Exclusive
    <3> QED
      BY <1>1, <1>2, <2>2, <3>1 DEF Exclusive, Own, Grown, Valid, Behind
  <2>3. CASE t # s /\ ~Valid(t)
    BY <1>1, <2>3 DEF Own, Valid
  <2> QED
    BY <2>1, <2>2, <2>3
<1>4. \A t, u \in Slots : Valid(t)' /\ comm'[t].fd = comm'[u].fd => t = u
  BY <1>1 DEF Exclusive, Valid
<1>5. ASSUME NEW f \in Fds, fdTable'[f] # 0
      PROVE  fdTable'[f] \in Sockets' /\ \E t \in Slots : comm'[t].fd = f
  BY <1>1, <1>2, <1>5 DEF Exclusive, Grown
<1>6. \A f, g \in Fds : fdTable'[f] = fdTable'[g] /\ fdTable'[f] # 0 => f = g
  BY <1>2 DEF Exclusive
<1>7. StaysClosed
  BY <1>2, SeqShape DEF StaysClosed, Open, Rows, Sockets
<1> QED
  BY <1>1, <1>2, <1>3, <1>4, <1>5, <1>6, <1>7 DEF Tables, Exclusive, Grown

(* The moves.                                                              *)
LEMMA MovedOwned ==
  ASSUME FdInv, NEW s \in Slots, NEW d \in Slots, s # d,
         comm' = [comm EXCEPT ![d] = comm[s], ![s] = Invalid],
         holds' = [holds EXCEPT ![d] = holds[s], ![s] = 0],
         fdTable' = CloseFd(d), UNCHANGED socket
  PROVE  FdInv' /\ StaysClosed
<1> USE DEF FdInv
<1>1. /\ comm' \in [Slots -> Holder] /\ holds' \in [Slots -> Nat]
      /\ comm'[s] = Invalid /\ comm'[s].fd = Closed /\ ~Valid(s)'
      /\ comm'[d] = comm[s] /\ holds'[d] = holds[s]
      /\ \A t \in Slots \ {s, d} : comm'[t] = comm[t] /\ holds'[t] = holds[t]
  BY InvalidIsHolder DEF Tables, Valid
<1>2. fdTable' \in [Fds -> Nat] /\ \A f \in Fds : fdTable'[f] = IF f = comm[d].fd THEN 0 ELSE fdTable[f]
  BY ClosedIsNone, HolderType DEF CloseFd, Tables, Valid
<1>3. ASSUME NEW t \in Slots, NEW u \in Slots, u # d, Valid(u), comm'[t] = comm[u],
             holds'[t] = holds[u]
      PROVE  Own(t)'
  <2>1. comm[u].fd \in Fds /\ comm[u].fd # comm[d].fd
    BY <1>3, HolderType DEF Exclusive
  <2> QED
    BY <1>2, <1>3, <2>1 DEF Exclusive, Own, Valid, Behind, Sockets
<1>4. ASSUME NEW t \in Slots PROVE Own(t)'
  <2>1. CASE ~Valid(t)'
    BY <2>1 DEF Own
  <2>2. CASE Valid(t)' /\ t = d
    BY <1>1, <1>3, <2>2 DEF Valid
  <2>3. CASE Valid(t)' /\ t # d
    BY <1>1, <1>3, <2>3 DEF Valid
  <2> QED
    BY <2>1, <2>2, <2>3
<1>5. \A t, u \in Slots : Valid(t)' /\ comm'[t].fd = comm'[u].fd => t = u
  BY <1>1 DEF Exclusive, Valid
<1>6. ASSUME NEW f \in Fds, fdTable'[f] # 0
      PROVE  fdTable'[f] \in Sockets' /\ \E t \in Slots : comm'[t].fd = f
  <2>1. fdTable'[f] = fdTable[f] /\ f # comm[d].fd
    BY <1>2, <1>6
  <2>2. PICK t \in Slots : comm[t].fd = f
    BY <1>6, <2>1 DEF Exclusive
  <2>3. \E u \in Slots : comm'[u].fd = f
    BY <1>1, <2>1, <2>2
  <2> QED
    BY <1>6, <2>1, <2>3 DEF Exclusive, Sockets
<1>7. \A f, g \in Fds : fdTable'[f] = fdTable'[g] /\ fdTable'[f] # 0 => f = g
  BY <1>2 DEF Exclusive
<1>8. StaysClosed
  BY <1>2, SeqShape DEF StaysClosed, Open, Rows, Sockets
<1> QED
  BY <1>1, <1>2, <1>4, <1>5, <1>6, <1>7, <1>8 DEF Tables, Exclusive, Rows, Sockets

(* A new socket, in place of what the variable held.                       *)
LEMMA TakenOwned ==
  ASSUME FdInv, Grown, NEW s \in Slots, NEW i \in Sockets' \ Sockets, i \in Nat \ {0},
         FreeFds # {}, NEW h \in Holder, h.fd = LowestFd,
         h.domain = socket'[i].domain, h.type = socket'[i].type,
         h.type \in {"stream", "dgram"}, h.strategy = StrategyOf(h.type),
         comm' = [comm EXCEPT ![s] = h], holds' = [holds EXCEPT ![s] = i],
         fdTable' = [CloseFd(s) EXCEPT ![LowestFd] = i]
  PROVE  FdInv' /\ StaysClosed
<1> USE DEF FdInv
<1>1. PICK f \in Fds : f = LowestFd /\ fdTable[f] = 0 /\ f # Closed
  BY LowestIsFree, ClosedIsNone
<1>2. /\ comm' \in [Slots -> Holder] /\ holds' \in [Slots -> Nat]
      /\ comm'[s] = h /\ comm'[s].fd = f /\ holds'[s] = i
      /\ \A t \in Slots \ {s} : comm'[t] = comm[t] /\ holds'[t] = holds[t]
  BY <1>1 DEF Tables
<1>3. fdTable' \in [Fds -> Nat]
      /\ \A g \in Fds : fdTable'[g] = IF g = f THEN i ELSE IF g = comm[s].fd THEN 0 ELSE fdTable[g]
  BY <1>1, ClosedIsNone, HolderType DEF CloseFd, Tables, Valid
<1>4. \A t \in Slots : comm[t].fd # f
  <2>1. ASSUME NEW t \in Slots, comm[t].fd = f PROVE FALSE
    <3>1. Valid(t) /\ holds[t] \in Sockets /\ holds[t] = 0
      BY <1>1, <2>1 DEF Valid, Exclusive, Own, Behind
    <3> QED
      BY <3>1, SeqShape DEF Rows, Sockets
  <2> QED
    BY <2>1
<1>5. ASSUME NEW t \in Slots PROVE Own(t)'
  <2>1. CASE t = s
    <3>1. Behind(t)' = i
      BY <1>2, <1>3, <2>1 DEF Behind
    <3> QED
      BY <1>2, <2>1, <3>1 DEF Own
  <2>2. CASE t # s /\ Valid(t)
    <3>1. comm[t].fd \in Fds /\ comm[t].fd # comm[s].fd /\ comm[t].fd # f
      BY <1>4, <2>2, HolderType DEF Exclusive
    <3>2. Behind(t)' = Behind(t)
      BY <1>2, <1>3, <2>2, <3>1 DEF Behind
    <3> QED
      BY <1>2, <2>2, <3>2 DEF Exclusive, Own, Grown, Valid
  <2>3. CASE t # s /\ ~Valid(t)
    BY <1>2, <2>3 DEF Own, Valid
  <2> QED
    BY <2>1, <2>2, <2>3
<1>6. \A t, u \in Slots : Valid(t)' /\ comm'[t].fd = comm'[u].fd => t = u
  BY <1>2, <1>4 DEF Exclusive, Valid
<1>7. ASSUME NEW g \in Fds, fdTable'[g] # 0
      PROVE  fdTable'[g] \in Sockets' /\ \E t \in Slots : comm'[t].fd = g
  <2>1. CASE g = f
    BY <1>2, <1>3, <2>1
  <2>2. CASE g # f
    <3>1. fdTable'[g] = fdTable[g] /\ g # comm[s].fd
      BY <1>3, <1>7, <2>2
    <3>2. PICK t \in Slots : comm[t].fd = g
      BY <1>7, <3>1 DEF Exclusive
    <3>3. comm'[t].fd = g
      BY <1>2, <3>1, <3>2
    <3> QED
      BY <1>7, <3>1, <3>3 DEF Exclusive, Grown
  <2> QED
    BY <2>1, <2>2
<1>8. \A g, k \in Fds : fdTable'[g] = fdTable'[k] /\ fdTable'[g] # 0 => g = k
  BY <1>3 DEF Exclusive
<1>9. StaysClosed
  BY <1>3, SeqShape DEF StaysClosed, Open, Rows, Sockets
<1> QED
  BY <1>2, <1>3, <1>5, <1>6, <1>7, <1>8, <1>9 DEF Tables, Exclusive, Grown

-----------------------------------------------------------------------------
(* Names and peers.                                                        *)
Told(r) == SockAddr(Address(r.domain, r.name)) = r.name

(* The address a socket has leads back to it, and its peer and those that  *)
(* wait for it are sockets of its domain.                                  *)
Linked == \A i \in Sockets :
  /\ Told(socket[i])
  /\ socket[i].peer # 0 => /\ socket[i].peer \in Sockets
                           /\ socket[socket[i].peer].domain = socket[i].domain
  /\ \A k \in DOMAIN socket[i].pending :
        /\ socket[i].pending[k] \in Sockets
        /\ socket[socket[i].pending[k]].domain = socket[i].domain

(* Of the open sockets without a peer no two have one name.                *)
Alone(i) == Open(i) /\ socket[i].peer = 0 /\ socket[i].name # NoName

Unique == \A i, j \in Sockets :
  /\ Alone(i) /\ Alone(j) /\ socket[i].name = socket[j].name
  /\ socket[i].domain = socket[j].domain /\ socket[i].type = socket[j].type
  => i = j

CommInv == FdInv /\ Linked /\ Unique

LEMMA NoNameTold == \A d : SockAddr(Address(d, NoName)) = NoName
<1>1. Len(NoName) = 0 /\ NoName # <<0>>
  BY DEF NoName
<1>2. 0 < SunPath
  BY CommunicatorAssumption
<1> QED
  BY <1>1, <1>2 DEF SockAddr, Address

(* An address that was cut is not cut again.                               *)
LEMMA AddressTold ==
  ASSUME NEW a, a.domain \in {"unix", "inet"}, a.text \in Seq(Nat)
  PROVE  /\ SockAddr(a) \in Seq(Nat)
         /\ SockAddr(Address(a.domain, SockAddr(a))) = SockAddr(a)
<1>1. CASE a.domain = "inet"
  <2>1. SockAddr(a) \in {NoName, a.text}
    BY <1>1 DEF SockAddr
  <2>2. NoName \in Seq(Nat)
    BY DEF NoName
  <2>3. SockAddr(a) = a.text => a.text # <<0>> \/ a.text = NoName
    BY <1>1 DEF SockAddr
  <2>4. CASE SockAddr(a) = NoName
    BY <2>2, <2>4, NoNameTold
  <2>5. CASE SockAddr(a) = a.text /\ a.text # <<0>>
    BY <1>1, <2>5 DEF SockAddr, Address
  <2> QED
    BY <2>1, <2>3, <2>4, <2>5
<1>2. CASE a.domain = "unix" /\ Len(a.text) < SunPath
  BY <1>2 DEF SockAddr, Address
<1>3. CASE a.domain = "unix" /\ ~(Len(a.text) < SunPath)
  <2> DEFINE n == SubSeq(a.text, 1, SunPath - 1)
  <2>1. SockAddr(a) = n
    BY <1>3 DEF SockAddr
  <2>2. SunPath \in Nat \ {0} /\ Len(a.text) \in Nat
    BY CommunicatorAssumption
  <2>3. \A i \in 1..(SunPath - 1) : a.text[i] \in Nat
    BY <1>3, <2>2, ElementOfSeq
  <2>4. n \in Seq(Nat) /\ Len(n) = IF 1 <= SunPath - 1 THEN SunPath - 1 - 1 + 1 ELSE 0
    BY <2>2, <2>3, SubSeqProperties
  <2> HIDE DEF n
  <2>5. Len(n) < SunPath
    BY <2>2, <2>4
  <2>6. SockAddr(Address("unix", n)) = n
    BY <2>5 DEF SockAddr, Address
  <2> QED
    BY <1>3, <2>1, <2>4, <2>6
<1> QED
  BY <1>1, <1>2, <1>3

LEMMA SameNames ==
  ASSUME CommInv, UNCHANGED socket, StaysClosed
  PROVE  Linked' /\ Unique'
<1>1. \A i \in Sockets : Alone(i)' => Alone(i)
  BY DEF StaysClosed, Alone
<1>2. Unique'
  BY <1>1 DEF CommInv, Unique, Sockets
<1> QED
  BY <1>2 DEF CommInv, Linked, Sockets, Told

LEMMA QuietNames ==
  ASSUME CommInv, Quiet
  PROVE  CommInv'
<1>1. Grown
  BY DEF Quiet, Grown, Alike
<1>2. FdInv' /\ StaysClosed
  BY <1>1, StillOwned DEF CommInv, Quiet
<1>3. Linked'
  BY DEF CommInv, Linked, Quiet, Alike, Told
<1>4. \A i \in Sockets : Alone(i)' => Alone(i)
  BY <1>2 DEF StaysClosed, Alone, Quiet, Alike
<1>5. Unique'
  BY <1>4 DEF CommInv, Unique, Quiet, Alike
<1> QED
  BY <1>2, <1>3, <1>5 DEF CommInv

LEMMA KnownAddresses ==
  ASSUME CommInv, NEW a \in Known
  PROVE  a.domain \in {"unix", "inet"} /\ a.text \in Seq(Nat)
<1>1. CASE a \in Addresses
  BY <1>1, CommunicatorAssumption
<1>2. ASSUME NEW s \in Slots, Valid(s), a = Address(comm[s].domain, SockName(Behind(s)))
      PROVE  a.domain \in {"unix", "inet"} /\ a.text \in Seq(Nat)
  <2>1. IsSocket(socket[Behind(s)]) /\ comm[s].domain = socket[Behind(s)].domain
    BY <1>2 DEF CommInv, FdInv, Exclusive, Own, Rows
  <2> QED
    BY <1>2, <2>1 DEF Address, SockName, IsSocket
<1> QED
  BY <1>1, <1>2 DEF Known, LocalAddress

LEMMA BehindIsSocket ==
  ASSUME CommInv, NEW s \in Slots, Valid(s)
  PROVE  /\ Behind(s) \in Sockets /\ IsSocket(socket[Behind(s)])
         /\ comm[s].domain = socket[Behind(s)].domain
         /\ comm[s].type = socket[Behind(s)].type
         /\ Behind(s) \in Nat \ {0} /\ Open(Behind(s))
<1>1. comm[s].fd \in Fds
  BY HolderType DEF CommInv, FdInv
<1>2. Behind(s) \in Sockets
  BY DEF CommInv, FdInv, Exclusive, Own
<1> QED
  BY <1>1, <1>2, SeqShape DEF CommInv, FdInv, Exclusive, Own, Rows, Sockets, Open, Behind

LEMMA BindKeeps ==
  ASSUME CommInv, NEW s \in Slots, NEW a \in Known, Bind(s, a)
  PROVE  CommInv'
<1> DEFINE i == Behind(s)
           n == SockAddr(a)
           r == [socket[i] EXCEPT !.name = n]
<1>1. /\ i \in Sockets /\ IsSocket(socket[i]) /\ comm[s].domain = socket[i].domain
      /\ comm[s].type = socket[i].type
  BY BehindIsSocket DEF Bind
<1>2. n \in Seq(Nat) /\ SockAddr(Address(a.domain, n)) = n /\ n # NoName
  BY KnownAddresses, AddressTold DEF Bind
<1>3. /\ a.domain = socket[i].domain /\ Named(a.domain, comm[s].type, n) = {}
      /\ socket' = [socket EXCEPT ![i] = r] /\ UNCHANGED <<comm, holds, fdTable>>
  BY <1>1 DEF Bind, KernelOnly
<1>4. /\ IsSocket(r) /\ r.domain = socket[i].domain /\ r.type = socket[i].type
      /\ r.name = n /\ r.peer = socket[i].peer /\ r.pending = socket[i].pending
  BY <1>1, <1>2, SetName
<1> HIDE DEF i, n, r
<1>5. /\ IsSeq(socket') /\ Sockets' = Sockets /\ socket'[i] = r
      /\ \A j \in Sockets : j # i => socket'[j] = socket[j]
  BY <1>1, <1>3, EditSeq DEF CommInv, FdInv, Rows, Sockets
<1>6. Rows' /\ \A j \in Sockets : /\ socket'[j].domain = socket[j].domain
                                  /\ socket'[j].type = socket[j].type
                                  /\ socket'[j].peer = socket[j].peer
                                  /\ socket'[j].pending = socket[j].pending
  BY <1>4, <1>5 DEF CommInv, FdInv, Rows
<1>7. FdInv' /\ StaysClosed
  BY <1>3, <1>5, <1>6, StillOwned DEF CommInv, Grown
<1>8. Linked'
  <2>1. ASSUME NEW j \in Sockets PROVE Told(socket'[j])
    BY <1>2, <1>3, <1>4, <1>5 DEF Told, CommInv, Linked
  <2> QED
    BY <1>5, <1>6, <2>1 DEF CommInv, Linked
<1>9. Unique'
  <2>1. \A j \in Sockets \ {i} : Alone(j)' => Alone(j) /\ socket'[j].name = socket[j].name
    BY <1>5, <1>7 DEF StaysClosed, Alone
  <2>2. ASSUME NEW j \in Sockets \ {i}, Alone(j)', socket'[j].name = n,
               socket[j].domain = socket[i].domain, socket[j].type = socket[i].type
        PROVE  FALSE
    <3>1. j \in Named(a.domain, comm[s].type, n)
      BY <1>1, <1>2, <1>3, <2>1, <2>2 DEF Named, Alone
    <3> QED
      BY <1>3, <3>1
  <2> QED
    BY <1>4, <1>5, <1>6, <2>1, <2>2 DEF CommInv, Unique
<1> QED
  BY <1>7, <1>8, <1>9 DEF CommInv

(* A socket gets a peer, or one more that waits for it.                    *)
LEMMA PeeredKeeps ==
  ASSUME CommInv, NEW i \in Sockets, NEW l \in Sockets, i # l,
         socket[l].domain = socket[i].domain, i \in Nat \ {0}, l \in Nat \ {0},
         \/ socket' = [socket EXCEPT ![i].peer = l]
         \/ socket' = [socket EXCEPT ![l].pending = Append(@, i), ![i].peer = l],
         KernelOnly
  PROVE  CommInv'
<1> DEFINE r == [socket[i] EXCEPT !.peer = l]
           w == [socket[l] EXCEPT !.pending = Append(socket[l].pending, i)]
           mid == [socket EXCEPT ![l] = w]
<1>1. IsSocket(socket[i]) /\ IsSocket(socket[l]) /\ IsSeq(socket)
  BY DEF CommInv, FdInv, Rows
<1>2. /\ IsSocket(r) /\ r.domain = socket[i].domain /\ r.type = socket[i].type
      /\ r.name = socket[i].name /\ r.peer = l /\ r.pending = socket[i].pending
  BY <1>1, SetPeer
<1>3. socket[l].pending \in Seq(Nat) /\ Append(socket[l].pending, i) \in Seq(Nat)
  BY <1>1, AppendProperties DEF IsSocket
<1>4. /\ IsSocket(w) /\ w.domain = socket[l].domain /\ w.type = socket[l].type
      /\ w.name = socket[l].name /\ w.peer = socket[l].peer
      /\ w.pending = Append(socket[l].pending, i)
  <2>1. PICK p \in Seq(Nat) : p = Append(socket[l].pending, i)
    BY <1>3
  <2>2. w = [socket[l] EXCEPT !.pending = p]
    BY <2>1
  <2> HIDE DEF w
  <2>3. /\ IsSocket(w) /\ w.domain = socket[l].domain /\ w.type = socket[l].type
        /\ w.name = socket[l].name /\ w.peer = socket[l].peer /\ w.pending = p
    BY <1>1, <2>2, SetPending
  <2> QED
    BY <2>1, <2>3
<1>5. socket' = [socket EXCEPT ![i] = r] \/ socket' = [mid EXCEPT ![i] = r]
  <2>1. mid[i] = socket[i]
    OBVIOUS
  <2> QED
    BY <2>1
<1>6. /\ IsSeq(mid) /\ DOMAIN mid = Sockets /\ mid[l] = w
      /\ \A j \in Sockets : j # l => mid[j] = socket[j]
  BY <1>1, EditSeq DEF Sockets
<1> HIDE DEF r, w, mid
<1>7. /\ IsSeq(socket') /\ Sockets' = Sockets /\ socket'[i] = r
      /\ socket'[l] = socket[l] \/ socket'[l] = w
      /\ \A j \in Sockets \ {i, l} : socket'[j] = socket[j]
  <2>1. CASE socket' = [socket EXCEPT ![i] = r]
    BY <1>1, <2>1, EditSeq DEF Sockets
  <2>2. CASE socket' = [mid EXCEPT ![i] = r]
    BY <1>6, <2>2, EditSeq DEF Sockets
  <2> QED
    BY <1>5, <2>1, <2>2
<1>8. Rows' /\ \A j \in Sockets : /\ socket'[j].domain = socket[j].domain
                                  /\ socket'[j].type = socket[j].type
                                  /\ socket'[j].name = socket[j].name
                                  /\ j # i => socket'[j].peer = socket[j].peer
                                  /\ j # l => socket'[j].pending = socket[j].pending
  BY <1>2, <1>4, <1>7 DEF CommInv, FdInv, Rows
<1>9. FdInv' /\ StaysClosed
  BY <1>7, <1>8, StillOwned DEF CommInv, Grown, KernelOnly
<1>10. \A k \in DOMAIN socket'[l].pending :
          \/ socket'[l].pending[k] = i
          \/ k \in DOMAIN socket[l].pending /\ socket'[l].pending[k] = socket[l].pending[k]
  <2>1. CASE socket'[l] = w
    <3>1. DOMAIN w.pending = 1..(Len(socket[l].pending) + 1)
          /\ DOMAIN socket[l].pending = 1..Len(socket[l].pending)
          /\ w.pending[Len(socket[l].pending) + 1] = i
          /\ \A k \in 1..Len(socket[l].pending) : w.pending[k] = socket[l].pending[k]
          /\ Len(socket[l].pending) \in Nat
      BY <1>3, <1>4, AppendProperties
    <3> QED
      BY <2>1, <3>1
  <2> QED
    BY <1>7, <2>1
<1>11. Linked'
  <2>1. ASSUME NEW j \in Sockets PROVE Told(socket'[j])
    BY <1>8 DEF Told, CommInv, Linked
  <2>2. ASSUME NEW j \in Sockets, socket'[j].peer # 0
        PROVE  /\ socket'[j].peer \in Sockets
               /\ socket'[socket'[j].peer].domain = socket'[j].domain
    <3>1. CASE j = i
      BY <1>2, <1>7, <1>8, <3>1
    <3>2. CASE j # i
      BY <1>8, <2>2, <3>2 DEF CommInv, Linked
    <3> QED
      BY <3>1, <3>2
  <2>3. ASSUME NEW j \in Sockets, NEW k \in DOMAIN socket'[j].pending
        PROVE  /\ socket'[j].pending[k] \in Sockets
               /\ socket'[socket'[j].pending[k]].domain = socket'[j].domain
    <3>1. CASE j = l /\ socket'[j].pending[k] = i
      BY <1>8, <3>1
    <3>2. CASE /\ k \in DOMAIN socket[j].pending
               /\ socket'[j].pending[k] = socket[j].pending[k]
      BY <1>8, <3>2 DEF CommInv, Linked
    <3> QED
      BY <1>8, <1>10, <2>3, <3>1, <3>2
  <2> QED
    BY <1>7, <2>1, <2>2, <2>3 DEF Linked
<1>12. Unique'
  <2>1. \A j \in Sockets : Alone(j)' => Alone(j)
    BY <1>2, <1>7, <1>8, <1>9 DEF StaysClosed, Alone
  <2> QED
    BY <1>7, <1>8, <2>1 DEF CommInv, Unique
<1> QED
  BY <1>9, <1>11, <1>12 DEF CommInv

LEMMA ConnectKeeps ==
  ASSUME CommInv, NEW s \in Slots, NEW a \in Known, Connect(s, a)
  PROVE  CommInv'
<1> DEFINE i == Behind(s)
<1>1. /\ i \in Sockets /\ comm[s].domain = socket[i].domain /\ i \in Nat \ {0}
  BY BehindIsSocket DEF Connect
<1>2. PICK l \in Named(a.domain, comm[s].type, SockAddr(a)) \ {i} :
         \/ socket' = [socket EXCEPT ![l].pending = Append(@, i), ![i].peer = l]
         \/ socket' = [socket EXCEPT ![i].peer = l]
  BY DEF Connect
<1>3. l \in Sockets /\ socket[l].domain = socket[i].domain /\ l \in Nat \ {0}
  BY <1>1, <1>2, SeqShape DEF Named, Connect, CommInv, FdInv, Rows, Sockets
<1>4. KernelOnly
  BY DEF Connect
<1> HIDE DEF i
<1> QED
  BY <1>1, <1>2, <1>3, <1>4, PeeredKeeps

LEMMA QuietActions ==
  ASSUME CommInv,
         \/ \E s \in Slots : Listen(s) \/ SetNonBlocking(s) \/ Send(s) \/ Recv(s) \/ RecvFrom(s)
         \/ \E s \in Slots, a \in Known : SendTo(s, a)
         \/ \E i \in Sockets : Lose(i)
  PROVE  Quiet
<1>1. Rows
  BY DEF CommInv, FdInv
<1>2. ASSUME NEW s \in Slots, Listen(s) \/ SetNonBlocking(s) \/ Recv(s) \/ RecvFrom(s)
      PROVE  Quiet
  <2>1. Behind(s) \in Sockets
    BY <1>2, BehindIsSocket DEF Listen, SetNonBlocking, Recv, RecvFrom, Can
  <2> QED
    BY <1>1, <1>2, <2>1, QuietSteps DEF Listen, SetNonBlocking, Recv, RecvFrom
<1>3. ASSUME NEW i, NEW j \in Sockets, Deliver(i, j) PROVE Quiet
  BY <1>1, <1>3, QuietSteps DEF Deliver
<1>4. ASSUME NEW s \in Slots, Send(s) PROVE Quiet
  <2>1. Behind(s) \in Sockets
    BY <1>4, BehindIsSocket DEF Send, Can
  <2>2. socket[Behind(s)].peer \in Sockets
    BY <1>4, <2>1 DEF Send, CommInv, Linked
  <2> QED
    BY <1>3, <1>4, <2>2 DEF Send
<1>5. ASSUME NEW s \in Slots, NEW a \in Known, SendTo(s, a) PROVE Quiet
  BY <1>3, <1>5 DEF SendTo, Named
<1>6. ASSUME NEW i \in Sockets, Lose(i) PROVE Quiet
  BY <1>1, <1>6, QuietSteps DEF Lose
<1> QED
  BY <1>2, <1>4, <1>5, <1>6

-----------------------------------------------------------------------------
(* Sockets are made by create() and by accept(): old is the table before   *)
(* the new one is added, in which accept() has given its client a peer.    *)
Adds(old, r) ==
  /\ IsSeq(old) /\ DOMAIN old = Sockets /\ Len(old) = Len(socket)
  /\ IsSocket(r) /\ Told(r) /\ r.pending = <<>>
  /\ r.name = NoName \/ r.peer # 0
  /\ r.peer # 0 => r.peer \in Sockets /\ socket[r.peer].domain = r.domain
  /\ \A j \in Sockets :
        /\ IsSocket(old[j])
        /\ old[j].domain = socket[j].domain /\ old[j].type = socket[j].type
        /\ old[j].name = socket[j].name
        /\ \/ old[j].peer = socket[j].peer
           \/ old[j].peer = Len(socket) + 1 /\ old[j].domain = r.domain
        /\ \A k \in DOMAIN old[j].pending :
              \E m \in DOMAIN socket[j].pending : old[j].pending[k] = socket[j].pending[m]

LEMMA AddKeeps ==
  ASSUME CommInv, NEW old, NEW r, Adds(old, r), socket' = Append(old, r),
         FdInv' /\ StaysClosed
  PROVE  CommInv'
<1> USE DEF Adds
<1>0. PICK i : i = Len(socket) + 1
  OBVIOUS
<1>1. /\ IsSeq(socket') /\ Sockets' = Sockets \cup {i} /\ socket'[i] = r
      /\ \A j \in Sockets : socket'[j] = old[j]
  <2>1. /\ IsSeq(socket') /\ DOMAIN socket' = DOMAIN old \cup {Len(old) + 1}
        /\ socket'[Len(old) + 1] = r /\ \A j \in DOMAIN old : socket'[j] = old[j]
    BY AddSeq
  <2>2. Sockets' = DOMAIN socket'
    BY DEF Sockets
  <2> QED
    BY <1>0, <2>1, <2>2
<1>2. i \notin Sockets /\ i \in Nat \ {0}
  BY <1>0, SeqShape DEF CommInv, FdInv, Rows, Sockets
<1>3. \A j \in Sockets : socket'[j].domain = socket[j].domain
                         /\ socket'[j].type = socket[j].type
                         /\ socket'[j].name = socket[j].name
  BY <1>1
<1>4. Linked'
  <2>1. ASSUME NEW j \in Sockets' PROVE Told(socket'[j])
    <3>1. CASE j = i
      BY <1>1, <3>1
    <3>2. CASE j \in Sockets
      BY <1>3, <3>2 DEF Told, CommInv, Linked
    <3> QED
      BY <1>1, <2>1, <3>1, <3>2
  <2>2. ASSUME NEW j \in Sockets', socket'[j].peer # 0
        PROVE  /\ socket'[j].peer \in Sockets'
               /\ socket'[socket'[j].peer].domain = socket'[j].domain
    <3>1. CASE j = i
      BY <1>1, <1>3, <2>2, <3>1
    <3>2. CASE j \in Sockets /\ old[j].peer = socket[j].peer
      BY <1>1, <1>3, <2>2, <3>2 DEF CommInv, Linked
    <3>3. CASE j \in Sockets /\ old[j].peer = i /\ old[j].domain = r.domain
      BY <1>1, <3>3
    <3> QED
      BY <1>0, <1>1, <2>2, <3>1, <3>2, <3>3
  <2>3. ASSUME NEW j \in Sockets', NEW k \in DOMAIN socket'[j].pending
        PROVE  /\ socket'[j].pending[k] \in Sockets'
               /\ socket'[socket'[j].pending[k]].domain = socket'[j].domain
    <3>1. CASE j = i
      <4>1. socket'[j].pending = <<>>
        BY <1>1, <3>1
      <4>2. DOMAIN <<>> = {}
        OBVIOUS
      <4> QED
        BY <2>3, <4>1, <4>2
    <3>2. CASE j \in Sockets
      <4>1. PICK m \in DOMAIN socket[j].pending : socket'[j].pending[k] = socket[j].pending[m]
        BY <1>1, <2>3, <3>2
      <4> QED
        BY <1>1, <1>3, <3>2, <4>1 DEF CommInv, Linked
    <3> QED
      BY <1>1, <3>1, <3>2
  <2> QED
    BY <2>1, <2>2, <2>3 DEF Linked
<1>5. Unique'
  <2>1. \A j \in Sockets' : Alone(j)' => j \in Sockets /\ Alone(j)
    <3>1. ~Alone(i)'
      BY <1>1 DEF Alone
    <3>2. ASSUME NEW j \in Sockets, Alone(j)' PROVE Alone(j)
      <4>1. old[j].peer # i
        BY <1>1, <1>2, <3>2 DEF Alone
      <4> QED
        BY <1>1, <1>3, <3>2, <4>1, <1>0 DEF StaysClosed, Alone
    <3> QED
      BY <1>1, <3>1, <3>2
  <2> QED
    BY <1>3, <2>1 DEF CommInv, Unique
<1> QED
  BY <1>4, <1>5 DEF CommInv

LEMMA CreateKeeps ==
  ASSUME CommInv, NEW s \in Slots, NEW c \in Configs, Create(s, c.domain, c.type)
  PROVE  CommInv'
<1> DEFINE d == c.domain
           t == c.type
           r == NewSocket(d, t)
           i == Len(socket) + 1
<1>1. d \in {"unix", "inet"} /\ t \in Types
  BY CommunicatorAssumption DEF Configs
<1>2. /\ IsSocket(r) /\ r.domain = d /\ r.type = t /\ r.name = NoName /\ r.peer = 0
      /\ r.pending = <<>>
  BY <1>1, NewIsSocket
<1>3. socket' = Append(socket, r) /\ FreeFds # {}
  BY DEF Create
<1> HIDE DEF r
<1>4. IsSeq(socket) /\ DOMAIN socket = Sockets /\ \A j \in Sockets : IsSocket(socket[j])
  BY DEF CommInv, FdInv, Rows, Sockets
<1>5. i \notin Sockets /\ i \in Nat \ {0}
  BY <1>4, SeqShape
<1>6. /\ IsSeq(socket') /\ Sockets' = Sockets \cup {i} /\ socket'[i] = r
      /\ \A j \in Sockets : socket'[j] = socket[j]
  <2>1. /\ IsSeq(socket') /\ DOMAIN socket' = DOMAIN socket \cup {i}
        /\ socket'[i] = r /\ \A j \in DOMAIN socket : socket'[j] = socket[j]
    BY <1>3, <1>4, AddSeq
  <2> QED
    BY <1>4, <2>1 DEF Sockets
<1>7. Grown
  BY <1>2, <1>4, <1>6 DEF Grown, Rows
<1>8. FdInv' /\ StaysClosed
  <2>1. CASE t \in {"stream", "dgram"}
    <3> DEFINE h == [fd |-> LowestFd, domain |-> d, type |-> t, strategy |-> StrategyOf(t)]
    <3>1. /\ comm' = [comm EXCEPT ![s] = h] /\ holds' = [holds EXCEPT ![s] = i]
          /\ fdTable' = [CloseFd(s) EXCEPT ![LowestFd] = i]
      BY <2>1 DEF Create
    <3>2. /\ h \in Holder /\ h.fd = LowestFd /\ h.domain = d /\ h.type = t
          /\ h.strategy = StrategyOf(t)
      BY <1>1, <1>3, LowestIsFree DEF Holder, StrategyOf
    <3> HIDE DEF h, d, t, i
    <3> QED
      BY <1>2, <1>3, <1>5, <1>6, <1>7, <2>1, <3>1, <3>2, TakenOwned DEF CommInv
  <2>2. CASE t \notin {"stream", "dgram"}
    BY <1>7, <2>2, InvalidIsHolder, ClosedOwned DEF Create, CommInv
  <2> QED
    BY <2>1, <2>2
<1>9. Told(r)
  BY <1>2, NoNameTold DEF Told
<1>10. \A j \in Sockets : \A k \in DOMAIN socket[j].pending :
          \E m \in DOMAIN socket[j].pending : socket[j].pending[k] = socket[j].pending[m]
  OBVIOUS
<1> HIDE DEF d, t, i
<1>11. Adds(socket, r)
  BY <1>2, <1>4, <1>9, <1>10 DEF Adds
<1> QED
  BY <1>3, <1>8, <1>11, AddKeeps


LEMMA AcceptKeeps ==
  ASSUME CommInv, NEW s \in Slots, NEW d \in Slots, Accept(s, d)
  PROVE  CommInv'
<1>1. PICK l, c, i : l = Behind(s) /\ c = Head(socket[l].pending) /\ i = Len(socket) + 1
  OBVIOUS
<1>2. /\ Can(s, "accept") /\ d # s /\ ~Valid(d) /\ socket[l].pending # <<>> /\ FreeFds # {}
      /\ fdTable' = [fdTable EXCEPT ![LowestFd] = i] /\ holds' = [holds EXCEPT ![d] = i]
      /\ comm' = [comm EXCEPT ![d] = [fd |-> LowestFd, domain |-> comm[s].domain,
                                      type |-> comm[s].type, strategy |-> "tcp"]]
  BY <1>1 DEF Accept
<1>3. /\ l \in Sockets /\ IsSocket(socket[l]) /\ comm[s].domain = socket[l].domain
      /\ comm[s].type = "stream" /\ "stream" \in Types
  <2>1. Valid(s)
    BY <1>2 DEF Can
  <2>2. comm[s].type = "stream"
    <3>1. comm[s].strategy = "tcp"
      <4>1. Own(s)
        BY DEF CommInv, FdInv, Exclusive
      <4>2. comm[s].strategy \in {"tcp", "udp"} /\ "accept" \in Supports[comm[s].strategy]
        BY <1>2, <2>1, <4>1 DEF Can, Own, StrategyOf
      <4>3. "accept" \notin Supports["udp"]
        BY DEF Supports
      <4> QED
        BY <4>2, <4>3
    <3> QED
      BY <2>1, <3>1 DEF CommInv, FdInv, Exclusive, Own, StrategyOf
  <2> QED
    BY <1>1, <2>1, <2>2, BehindIsSocket, CommunicatorAssumption
<1>4. IsSeq(socket) /\ i \notin Sockets /\ i \in Nat \ {0}
      /\ \A j \in Sockets : j \in Nat \ {0} /\ IsSocket(socket[j])
  BY <1>1, SeqShape DEF CommInv, FdInv, Rows, Sockets
<1>5. /\ c \in Sockets /\ socket[c].domain = socket[l].domain
      /\ Tail(socket[l].pending) \in Seq(Nat)
      /\ \A k \in DOMAIN Tail(socket[l].pending) :
            \E m \in DOMAIN socket[l].pending : Tail(socket[l].pending)[k] = socket[l].pending[m]
  <2>1. PICK p \in Seq(Nat) : p = socket[l].pending
    BY <1>3 DEF IsSocket
  <2>2. /\ p # <<>> /\ Len(p) \in Nat /\ Len(p) >= 1 /\ DOMAIN p = 1..Len(p)
        /\ c = p[1] /\ Tail(p) \in Seq(Nat) /\ DOMAIN Tail(p) = 1..(Len(p) - 1)
        /\ \A k \in 1..(Len(p) - 1) : Tail(p)[k] = p[k + 1]
    BY <1>1, <1>2, <2>1, HeadTailProperties
  <2>3. 1 \in DOMAIN p /\ \A k \in 1..(Len(p) - 1) : k + 1 \in DOMAIN p
    BY <2>2
  <2>4. c \in Sockets /\ socket[c].domain = socket[l].domain
    BY <1>3, <2>1, <2>2, <2>3 DEF CommInv, Linked
  <2> QED
    BY <2>1, <2>2, <2>3, <2>4
<1>6. PICK w : w = [socket[l] EXCEPT !.pending = Tail(socket[l].pending)]
  OBVIOUS
<1>7. /\ IsSocket(w) /\ w.domain = socket[l].domain /\ w.type = socket[l].type
      /\ w.name = socket[l].name /\ w.peer = socket[l].peer
      /\ w.pending = Tail(socket[l].pending)
  <2>1. PICK p \in Seq(Nat) : p = Tail(socket[l].pending)
    BY <1>5
  <2>2. w = [socket[l] EXCEPT !.pending = p]
    BY <1>6, <2>1
  <2>3. /\ IsSocket(w) /\ w.domain = socket[l].domain /\ w.type = socket[l].type
        /\ w.name = socket[l].name /\ w.peer = socket[l].peer /\ w.pending = p
    BY <1>3, <2>2, SetPending
  <2> QED
    BY <2>1, <2>3
<1>8. PICK mid : mid = [socket EXCEPT ![l] = w]
  OBVIOUS
<1>9. /\ IsSeq(mid) /\ DOMAIN mid = Sockets /\ Len(mid) = Len(socket) /\ mid[l] = w
      /\ \A j \in Sockets : j # l => mid[j] = socket[j]
  <2>1. l \in DOMAIN socket
    BY <1>3 DEF Sockets
  <2>2. /\ IsSeq(mid) /\ DOMAIN mid = DOMAIN socket /\ Len(mid) = Len(socket) /\ mid[l] = w
        /\ \A j \in DOMAIN socket : j # l => mid[j] = socket[j]
    <3>1. IsSeq(socket)
      BY <1>4
    <3> QED
      BY <3>1, <1>8, <2>1, EditSeq
  <2> QED
    BY <2>2 DEF Sockets
<1>10. \A j \in Sockets :
         /\ IsSocket(mid[j]) /\ mid[j].domain = socket[j].domain
         /\ mid[j].type = socket[j].type /\ mid[j].name = socket[j].name
         /\ mid[j].peer = socket[j].peer
         /\ \A k \in DOMAIN mid[j].pending :
               \E m \in DOMAIN socket[j].pending : mid[j].pending[k] = socket[j].pending[m]
  <2>1. ASSUME NEW j \in Sockets, j # l
        PROVE \A k \in DOMAIN mid[j].pending :
               \E m \in DOMAIN socket[j].pending : mid[j].pending[k] = socket[j].pending[m]
    BY <1>9, <2>1
  <2>2. \A k \in DOMAIN mid[l].pending :
               \E m \in DOMAIN socket[l].pending : mid[l].pending[k] = socket[l].pending[m]
    BY <1>5, <1>7, <1>9
  <2>3. \A j \in Sockets :
         /\ IsSocket(mid[j]) /\ mid[j].domain = socket[j].domain
         /\ mid[j].type = socket[j].type /\ mid[j].name = socket[j].name
         /\ mid[j].peer = socket[j].peer
    BY <1>4, <1>7, <1>9
  <2> QED
    BY <2>1, <2>2, <2>3
<1>11. PICK q : q = [mid[c] EXCEPT !.peer = i]
  OBVIOUS
<1>12. /\ IsSocket(q) /\ q.domain = mid[c].domain /\ q.type = mid[c].type
       /\ q.name = mid[c].name /\ q.peer = i /\ q.pending = mid[c].pending
  BY <1>4, <1>5, <1>10, <1>11, SetPeer
<1>13. PICK old : old = [mid EXCEPT ![c] = q]
  OBVIOUS
<1>14. /\ IsSeq(old) /\ DOMAIN old = Sockets /\ Len(old) = Len(socket) /\ old[c] = q
       /\ \A j \in Sockets : j # c => old[j] = mid[j]
  BY <1>5, <1>9, <1>13, EditSeq
<1>15. \A j \in Sockets :
         /\ IsSocket(old[j]) /\ old[j].domain = socket[j].domain
         /\ old[j].type = socket[j].type /\ old[j].name = socket[j].name
         /\ old[j].peer = socket[j].peer \/ (j = c /\ old[j].peer = i)
         /\ old[j].pending = mid[j].pending
  BY <1>10, <1>12, <1>14
<1>16. PICK r : r = [NewSocket(comm[s].domain, "stream") EXCEPT !.peer = c, !.name = socket[l].name]
  OBVIOUS
<1>17. /\ IsSocket(r) /\ r.domain = comm[s].domain /\ r.type = "stream"
       /\ r.name = socket[l].name /\ r.peer = c /\ r.pending = <<>>
  <2>1. PICK n : n = NewSocket(comm[s].domain, "stream")
    OBVIOUS
  <2>2. /\ IsSocket(n) /\ n.domain = comm[s].domain /\ n.type = "stream" /\ n.pending = <<>>
    BY <1>3, <2>1, NewIsSocket DEF IsSocket
  <2>3. PICK m : m = [n EXCEPT !.peer = c]
    OBVIOUS
  <2>4. IsSocket(m) /\ m.domain = n.domain /\ m.type = n.type /\ m.peer = c
        /\ m.pending = n.pending
    BY <1>4, <1>5, <2>2, <2>3, SetPeer
  <2>5. r = [m EXCEPT !.name = socket[l].name]
    BY <1>16, <2>1, <2>3
  <2>6. socket[l].name \in Seq(Nat)
    BY <1>3 DEF IsSocket
  <2> QED
    BY <2>2, <2>4, <2>5, <2>6, SetName
<1>18. socket' = Append(old, r)
  <2>1. socket' = Append([socket EXCEPT ![l].pending = Tail(@), ![c].peer = i], r)
    BY <1>1, <1>16 DEF Accept
  <2>2. [socket EXCEPT ![l].pending = Tail(@), ![c].peer = i] = old
    BY <1>6, <1>8, <1>11, <1>13
  <2> QED
    BY <2>1, <2>2
<1>19. Told(r)
  BY <1>3, <1>17 DEF Told, CommInv, Linked
<1>20. /\ Sockets' = Sockets \cup {i} /\ socket'[i] = r /\ IsSeq(socket')
       /\ \A j \in Sockets : socket'[j] = old[j]
  <2>1. /\ IsSeq(socket') /\ DOMAIN socket' = DOMAIN old \cup {Len(old) + 1}
        /\ socket'[Len(old) + 1] = r /\ \A j \in DOMAIN old : socket'[j] = old[j]
    BY <1>14, <1>18, AddSeq
  <2>2. Sockets' = DOMAIN socket'
    BY DEF Sockets
  <2> QED
    BY <1>1, <1>14, <2>1, <2>2
<1>21. Grown
  BY <1>15, <1>17, <1>20 DEF Grown, Rows
<1>22. FdInv' /\ StaysClosed
  <2>1. PICK h : h = [fd |-> LowestFd, domain |-> comm[s].domain, type |-> comm[s].type,
                      strategy |-> "tcp"]
    OBVIOUS
  <2>2. /\ h \in Holder /\ h.fd = LowestFd /\ h.domain = r.domain /\ h.type = r.type
        /\ h.type \in {"stream", "dgram"} /\ h.strategy = StrategyOf(h.type)
    BY <1>2, <1>3, <1>17, <2>1, LowestIsFree DEF Holder, StrategyOf, IsSocket
  <2>3. /\ comm' = [comm EXCEPT ![d] = h] /\ fdTable' = [CloseFd(d) EXCEPT ![LowestFd] = i]
    BY <1>2, <2>1 DEF CloseFd, Valid
  <2>4. i \in Sockets' \ Sockets
    BY <1>4, <1>20
  <2> QED
    BY <1>2, <1>4, <1>20, <1>21, <2>2, <2>3, <2>4, TakenOwned DEF CommInv
<1>23. \A j \in Sockets :
         /\ IsSocket(old[j])
         /\ old[j].domain = socket[j].domain /\ old[j].type = socket[j].type
         /\ old[j].name = socket[j].name
         /\ \/ old[j].peer = socket[j].peer
            \/ old[j].peer = Len(socket) + 1 /\ old[j].domain = r.domain
         /\ \A k \in DOMAIN old[j].pending :
               \E m \in DOMAIN socket[j].pending : old[j].pending[k] = socket[j].pending[m]
  BY <1>1, <1>3, <1>5, <1>10, <1>15, <1>17
<1>24. /\ r.name = NoName \/ r.peer # 0
       /\ r.peer # 0 => r.peer \in Sockets /\ socket[r.peer].domain = r.domain
  BY <1>3, <1>4, <1>5, <1>17
<1>25. IsSocket(r) /\ r.pending = <<>> /\ IsSeq(old) /\ DOMAIN old = Sockets /\ Len(old) = Len(socket)
  BY <1>14, <1>17
<1>26. Adds(old, r)
  BY <1>19, <1>23, <1>24, <1>25 DEF Adds
<1> QED
  BY <1>18, <1>22, <1>26, AddKeeps

-----------------------------------------------------------------------------
LEMMA CommInit == Init => CommInv
<1> SUFFICES ASSUME Init PROVE CommInv
  OBVIOUS
<1>1. Rows /\ Sockets = {}
  <2>1. <<>> \in Seq({}) /\ DOMAIN <<>> = {}
    OBVIOUS
  <2> QED
    BY <2>1 DEF Init, Rows, Sockets, IsSeq
<1>2. Tables
  BY InvalidIsHolder DEF Init, Tables
<1>3. Exclusive
  BY InvalidIsHolder DEF Init, Exclusive, Own, Valid
<1> QED
  BY <1>1, <1>2, <1>3 DEF CommInv, FdInv, Linked, Unique

LEMMA CommStep == CommInv /\ [Next]_vars => CommInv'
<1> SUFFICES ASSUME CommInv, [Next]_vars PROVE CommInv'
  OBVIOUS
<1> DEFINE Move == \E s, d \in Slots : MoveAssign(s, d) \/ MoveConstruct(s, d)
           Left == \E s \in Slots : CreateFails(s) \/ Close(s)
           Talk == \/ \E s \in Slots : Listen(s) \/ SetNonBlocking(s) \/ Send(s) \/ Recv(s) \/ RecvFrom(s)
                   \/ \E s \in Slots, a \in Known : SendTo(s, a)
                   \/ \E i \in Sockets : Lose(i)
<1>1. CASE Move
  <2>1. PICK s \in Slots, d \in Slots : MoveAssign(s, d) \/ MoveConstruct(s, d)
    BY <1>1
  <2>2. /\ s # d /\ comm' = [comm EXCEPT ![d] = comm[s], ![s] = Invalid]
        /\ holds' = [holds EXCEPT ![d] = holds[s], ![s] = 0] /\ UNCHANGED socket
    BY <2>1 DEF MoveAssign, MoveConstruct
  <2>3. fdTable' = CloseFd(d)
    BY <2>1, InvalidIsHolder DEF MoveAssign, MoveConstruct, CloseFd
  <2>4. FdInv' /\ StaysClosed
    BY <2>2, <2>3, MovedOwned DEF CommInv
  <2> QED
    BY <2>2, <2>4, SameNames DEF CommInv
<1>2. CASE Left
  <2>1. PICK s \in Slots : CreateFails(s) \/ Close(s)
    BY <1>2
  <2>2. PICK h : h = IF CreateFails(s) THEN Invalid
                     ELSE [comm[s] EXCEPT !.fd = Closed, !.strategy = "none"]
    OBVIOUS
  <2>3. h \in Holder /\ h.fd = Closed
    BY <2>2, InvalidIsHolder, HolderType DEF CommInv, FdInv, Holder
  <2>4. /\ comm' = [comm EXCEPT ![s] = h] /\ holds' = [holds EXCEPT ![s] = 0]
        /\ fdTable' = CloseFd(s) /\ UNCHANGED socket
    BY <2>1, <2>2 DEF CreateFails, Close
  <2>5. Grown
    BY <2>4 DEF CommInv, FdInv, Grown, Rows, Sockets
  <2>6. FdInv' /\ StaysClosed
    BY <2>3, <2>4, <2>5, ClosedOwned DEF CommInv
  <2> QED
    BY <2>4, <2>6, SameNames DEF CommInv
<1>3. CASE Talk
  BY <1>3, QuietActions, QuietNames
<1>4. CASE \E s \in Slots, c \in Configs : Create(s, c.domain, c.type)
  BY <1>4, CreateKeeps
<1>5. CASE \E s, d \in Slots : Accept(s, d)
  BY <1>5, AcceptKeeps
<1>6. CASE \E s \in Slots, a \in Known : Bind(s, a) \/ Connect(s, a)
  BY <1>6, BindKeeps, ConnectKeeps
<1>7. CASE UNCHANGED vars
  <2>1. Quiet
    BY <1>7 DEF CommInv, FdInv, Quiet, Rows, Sockets, Alike, vars
  <2> QED
    BY <2>1, QuietNames
<1> QED
  BY <1>1, <1>2, <1>3, <1>4, <1>5, <1>6, <1>7 DEF Next

LEMMA CommInvariant == Spec => []CommInv
<1> QED
  BY CommInit, CommStep, PTL DEF Spec


-----------------------------------------------------------------------------
LEMMA CommHolds == CommInv => HoldsItsSocket
<1> SUFFICES ASSUME CommInv PROVE HoldsItsSocket
  OBVIOUS
<1>1. Descriptors
  <2>1. ASSUME NEW s \in Slots, Valid(s)
        PROVE  /\ Behind(s) = holds[s] /\ holds[s] \in Sockets
               /\ comm[s].strategy = StrategyOf(socket[holds[s]].type)
               /\ comm[s].domain = socket[holds[s]].domain
    BY <2>1 DEF CommInv, FdInv, Exclusive, Own
  <2>2. ASSUME NEW f \in Fds, fdTable[f] # 0
        PROVE  Cardinality({s \in Slots : comm[s].fd = f}) = 1
    <3>1. PICK s \in Slots : comm[s].fd = f
      BY <2>2 DEF CommInv, FdInv, Exclusive
    <3>2. Valid(s)
      BY <3>1, ClosedIsNone DEF Valid
    <3>3. {t \in Slots : comm[t].fd = f} = {s}
      BY <3>1, <3>2 DEF CommInv, FdInv, Exclusive
    <3>4. Cardinality({s}) = 1
      BY FS_Singleton
    <3> QED
      BY <3>3, <3>4
  <2> QED
    BY <2>1, <2>2 DEF Descriptors
<1>2. ASSUME NEW s \in Slots, Valid(s)
      PROVE  LET i == Behind(s) IN
             /\ SockName(i) # NoName =>
                  /\ SockAddr(LocalAddress(s)) = SockName(i)
                  /\ \A j \in Named(comm[s].domain, socket[i].type, SockName(i)) :
                       j = i \/ socket[i].peer # 0 \/ socket[j].peer # 0
             /\ \A t \in Slots : Valid(t) /\ Behind(t) = socket[i].peer =>
                  PeerAddress(s) = LocalAddress(t)
  <2> DEFINE i == Behind(s)
  <2>1. /\ i \in Sockets /\ comm[s].domain = socket[i].domain /\ Open(i)
        /\ LocalAddress(s) = Address(socket[i].domain, socket[i].name)
    BY <1>2, BehindIsSocket DEF LocalAddress, SockName
  <2>2. PeerAddress(s) = IF socket[i].peer # 0 THEN Address(socket[i].domain, PeerName(i))
                         ELSE Unnamed
    BY <1>2, <2>1 DEF PeerAddress
  <2> HIDE DEF i
  <2>3. SockAddr(LocalAddress(s)) = SockName(i)
    BY <2>1 DEF CommInv, Linked, Told, SockName
  <2>4. ASSUME NEW j \in Named(comm[s].domain, socket[i].type, SockName(i))
        PROVE  j = i \/ socket[i].peer # 0 \/ socket[j].peer # 0
    BY <2>1 DEF Named, SockName, CommInv, Unique, Alone
  <2>5. ASSUME NEW t \in Slots, Valid(t), Behind(t) = socket[i].peer
        PROVE  PeerAddress(s) = LocalAddress(t)
    <3>1. socket[i].peer # 0 /\ comm[t].domain = socket[socket[i].peer].domain
      BY <2>5, BehindIsSocket
    <3>2. comm[t].domain = socket[i].domain
      BY <2>1, <3>1 DEF CommInv, Linked
    <3> QED
      BY <2>2, <2>5, <3>1, <3>2 DEF LocalAddress, PeerName
  <2> QED
    BY <2>3, <2>4, <2>5 DEF i
<1> QED
  BY <1>1, <1>2 DEF HoldsItsSocket, AddressesLead

(* Whatever is created, accepted, moved, closed and bound, in any order:   *)
(* each open descriptor has one Communicator, which stands for the socket  *)
(* it was made with, and the addresses it tells lead to that socket and to *)
(* its peer.                                                               *)
THEOREM HoldsAlways == Spec => []HoldsItsSocket
<1> QED
  BY CommInvariant, CommHolds, PTL

(* No two Communicators reach one socket.                                  *)
OneEach == \A s, t \in Slots : Valid(s) /\ Valid(t) /\ Behind(s) = Behind(t) => s = t

THEOREM OneCommunicatorEach == Spec => []OneEach
<1>1. CommInv => OneEach
  <2> SUFFICES ASSUME CommInv, NEW s \in Slots, NEW t \in Slots, Valid(s), Valid(t),
                      Behind(s) = Behind(t)
               PROVE  s = t
    BY DEF OneEach
  <2>1. comm[s].fd \in Fds /\ comm[t].fd \in Fds /\ fdTable[comm[s].fd] # 0
    BY HolderType, BehindIsSocket DEF CommInv, FdInv, Behind
  <2>2. comm[s].fd = comm[t].fd
    BY <2>1 DEF CommInv, FdInv, Exclusive, Behind
  <2> QED
    BY <2>2 DEF CommInv, FdInv, Exclusive
<1> QED
  BY <1>1, CommInvariant, PTL

-----------------------------------------------------------------------------
(* A descriptor in use is never given to another socket, what was closed   *)
(* stays closed, and a Communicator is closed by the step that ends it or  *)
(* lives on in one variable as it was.                                     *)
EndsHere(s) == fdTable'[comm[s].fd] = 0 /\ \A t \in Slots : comm'[t].fd # comm[s].fd

LivesOn ==
  /\ \A f \in Fds : fdTable[f] # 0 => fdTable'[f] \in {0, fdTable[f]}
  /\ StaysClosed
  /\ \A s \in Slots : Valid(s) =>
        EndsHere(s) \/ \E t \in Slots : comm'[t] = comm[s] /\ holds'[t] = holds[s]

LEMMA UntouchedLives ==
  ASSUME FdInv, UNCHANGED <<comm, holds, fdTable>>
  PROVE  LivesOn
BY DEF LivesOn, StaysClosed, Open

LEMMA ClosedLives ==
  ASSUME FdInv, NEW s \in Slots, NEW h \in Holder, h.fd = Closed,
         comm' = [comm EXCEPT ![s] = h], holds' = [holds EXCEPT ![s] = 0],
         fdTable' = CloseFd(s)
  PROVE  LivesOn
<1>1. /\ comm'[s] = h
      /\ \A t \in Slots \ {s} : comm'[t] = comm[t] /\ holds'[t] = holds[t]
  BY DEF FdInv, Tables
<1>2. \A f \in Fds : fdTable'[f] = IF f = comm[s].fd THEN 0 ELSE fdTable[f]
  BY ClosedIsNone, HolderType DEF CloseFd, FdInv, Tables, Valid
<1>3. StaysClosed
  BY <1>2, SeqShape DEF StaysClosed, Open, FdInv, Rows, Sockets
<1>4. Valid(s) => EndsHere(s)
  <2> SUFFICES ASSUME Valid(s) PROVE EndsHere(s)
    OBVIOUS
  <2>1. comm[s].fd \in Fds /\ comm[s].fd # Closed
    BY HolderType DEF FdInv, Valid
  <2>2. \A t \in Slots : comm'[t].fd # comm[s].fd
    BY <1>1, <2>1 DEF FdInv, Exclusive
  <2> QED
    BY <1>2, <2>1, <2>2 DEF EndsHere
<1> QED
  BY <1>1, <1>2, <1>3, <1>4 DEF LivesOn

LEMMA MovedLives ==
  ASSUME FdInv, NEW s \in Slots, NEW d \in Slots, s # d,
         comm' = [comm EXCEPT ![d] = comm[s], ![s] = Invalid],
         holds' = [holds EXCEPT ![d] = holds[s], ![s] = 0],
         fdTable' = CloseFd(d)
  PROVE  LivesOn
<1>1. /\ comm'[s].fd = Closed /\ comm'[d] = comm[s] /\ holds'[d] = holds[s]
      /\ \A t \in Slots \ {s, d} : comm'[t] = comm[t] /\ holds'[t] = holds[t]
  BY InvalidIsHolder DEF FdInv, Tables
<1>2. \A f \in Fds : fdTable'[f] = IF f = comm[d].fd THEN 0 ELSE fdTable[f]
  BY ClosedIsNone, HolderType DEF CloseFd, FdInv, Tables, Valid
<1>3. StaysClosed
  BY <1>2, SeqShape DEF StaysClosed, Open, FdInv, Rows, Sockets
<1>4. Valid(d) => EndsHere(d)
  <2> SUFFICES ASSUME Valid(d) PROVE EndsHere(d)
    OBVIOUS
  <2>1. comm[d].fd \in Fds /\ comm[d].fd # Closed
    BY HolderType DEF FdInv, Valid
  <2>2. \A t \in Slots \ {d} : comm[t].fd # comm[d].fd
    BY DEF FdInv, Exclusive
  <2>3. ASSUME NEW t \in Slots PROVE comm'[t].fd # comm[d].fd
    BY <1>1, <2>1, <2>2
  <2> QED
    BY <1>2, <2>1, <2>3 DEF EndsHere
<1> QED
  BY <1>1, <1>2, <1>3, <1>4 DEF LivesOn

LEMMA TakenLives ==
  ASSUME FdInv, NEW s \in Slots, NEW i \in Nat \ {0}, i \notin Sockets, FreeFds # {},
         NEW h, h.fd = LowestFd,
         comm' = [comm EXCEPT ![s] = h], holds' = [holds EXCEPT ![s] = i],
         fdTable' = [CloseFd(s) EXCEPT ![LowestFd] = i]
  PROVE  LivesOn
<1>1. /\ comm'[s] = h
      /\ \A t \in Slots \ {s} : comm'[t] = comm[t] /\ holds'[t] = holds[t]
  BY DEF FdInv, Tables
<1>2. PICK f \in Fds : f = LowestFd /\ fdTable[f] = 0 /\ f # Closed
  BY LowestIsFree, ClosedIsNone
<1>3. \A g \in Fds : fdTable'[g] = IF g = f THEN i ELSE IF g = comm[s].fd THEN 0 ELSE fdTable[g]
  BY <1>2, ClosedIsNone, HolderType DEF CloseFd, FdInv, Tables, Valid
<1>4. StaysClosed
  <2> SUFFICES ASSUME NEW j \in Sockets, NEW g \in Fds, fdTable'[g] = j
               PROVE  fdTable[g] = j
    BY DEF StaysClosed, Open
  <2>1. j # 0 /\ j # i
    BY SeqShape DEF FdInv, Rows, Sockets
  <2> QED
    BY <1>3, <2>1
<1>5. \A g \in Fds : fdTable[g] # 0 => fdTable'[g] \in {0, fdTable[g]}
  BY <1>2, <1>3
<1>6. Valid(s) => EndsHere(s)
  <2> SUFFICES ASSUME Valid(s) PROVE EndsHere(s)
    OBVIOUS
  <2>1. comm[s].fd \in Fds /\ Behind(s) \in Sockets
    BY HolderType DEF FdInv, Exclusive, Own
  <2>2. comm[s].fd # f
    BY <1>2, <2>1, SeqShape DEF Behind, FdInv, Rows, Sockets
  <2>3. \A t \in Slots : comm'[t].fd # comm[s].fd
    BY <1>1, <1>2, <2>2 DEF FdInv, Exclusive
  <2> QED
    BY <1>3, <2>1, <2>2, <2>3 DEF EndsHere
<1> QED
  BY <1>1, <1>4, <1>5, <1>6 DEF LivesOn

LEMMA LivesStep ==
  ASSUME CommInv, [Next]_vars
  PROVE  LivesOn
<1>0. FdInv /\ Len(socket) + 1 \in Nat \ {0} /\ Len(socket) + 1 \notin Sockets
  BY SeqShape DEF CommInv, FdInv, Rows, Sockets
<1>1. ASSUME NEW s \in Slots, NEW d \in Slots, MoveAssign(s, d) \/ MoveConstruct(s, d)
      PROVE  LivesOn
  <2>1. /\ s # d /\ comm' = [comm EXCEPT ![d] = comm[s], ![s] = Invalid]
        /\ holds' = [holds EXCEPT ![d] = holds[s], ![s] = 0]
    BY <1>1 DEF MoveAssign, MoveConstruct
  <2>2. fdTable' = CloseFd(d)
    BY <1>1, InvalidIsHolder DEF MoveAssign, MoveConstruct, CloseFd
  <2> QED
    BY <1>0, <2>1, <2>2, MovedLives
<1>2. ASSUME NEW s \in Slots, CreateFails(s) PROVE LivesOn
  BY <1>0, <1>2, InvalidIsHolder, ClosedLives DEF CreateFails
<1>3. ASSUME NEW s \in Slots, Close(s) PROVE LivesOn
  <2>1. PICK h : h = [comm[s] EXCEPT !.fd = Closed, !.strategy = "none"]
    OBVIOUS
  <2>2. h \in Holder /\ h.fd = Closed
    BY <1>0, <2>1, HolderType DEF FdInv, Holder
  <2>3. /\ comm' = [comm EXCEPT ![s] = h] /\ holds' = [holds EXCEPT ![s] = 0]
        /\ fdTable' = CloseFd(s)
    BY <1>3, <2>1 DEF Close
  <2> QED
    BY <1>0, <2>2, <2>3, ClosedLives
<1>4. ASSUME NEW s \in Slots, NEW c \in Configs, Create(s, c.domain, c.type) PROVE LivesOn
  <2>1. CASE c.type \in {"stream", "dgram"}
    <3>1. PICK h : h = [fd |-> LowestFd, domain |-> c.domain, type |-> c.type,
                        strategy |-> StrategyOf(c.type)]
      OBVIOUS
    <3>2. /\ FreeFds # {} /\ h.fd = LowestFd
          /\ comm' = [comm EXCEPT ![s] = h] /\ holds' = [holds EXCEPT ![s] = Len(socket) + 1]
          /\ fdTable' = [CloseFd(s) EXCEPT ![LowestFd] = Len(socket) + 1]
      BY <1>4, <2>1, <3>1 DEF Create
    <3> QED
      BY <1>0, <3>2, TakenLives
  <2>2. CASE c.type \notin {"stream", "dgram"}
    <3>1. /\ comm' = [comm EXCEPT ![s] = Invalid] /\ holds' = [holds EXCEPT ![s] = 0]
          /\ fdTable' = CloseFd(s)
      BY <1>4, <2>2 DEF Create
    <3> QED
      BY <1>0, <3>1, InvalidIsHolder, ClosedLives
  <2> QED
    BY <2>1, <2>2
<1>5. ASSUME NEW s \in Slots, NEW d \in Slots, Accept(s, d) PROVE LivesOn
  <2>1. PICK h : h = [fd |-> LowestFd, domain |-> comm[s].domain, type |-> comm[s].type,
                      strategy |-> "tcp"]
    OBVIOUS
  <2>2. /\ FreeFds # {} /\ h.fd = LowestFd
        /\ comm' = [comm EXCEPT ![d] = h] /\ holds' = [holds EXCEPT ![d] = Len(socket) + 1]
        /\ fdTable' = [fdTable EXCEPT ![LowestFd] = Len(socket) + 1] /\ ~Valid(d)
    BY <1>5, <2>1 DEF Accept
  <2>3. CloseFd(d) = fdTable
    BY <2>2 DEF CloseFd, Valid
  <2> QED
    BY <1>0, <2>2, <2>3, TakenLives
<1>6. ASSUME NEW s \in Slots, NEW a \in Known, Bind(s, a) \/ Connect(s, a) \/ SendTo(s, a)
      PROVE  LivesOn
  BY <1>0, <1>6, UntouchedLives DEF Bind, Connect, SendTo, Deliver, KernelOnly
<1>7. ASSUME NEW s \in Slots,
             Listen(s) \/ SetNonBlocking(s) \/ Send(s) \/ Recv(s) \/ RecvFrom(s)
      PROVE  LivesOn
  BY <1>0, <1>7, UntouchedLives
  DEF Listen, SetNonBlocking, Send, Deliver, Recv, RecvFrom, KernelOnly
<1>8. CASE UNCHANGED vars \/ \E i \in Sockets : Lose(i)
  BY <1>0, <1>8, UntouchedLives DEF vars, Lose, KernelOnly
<1> QED
  BY <1>1, <1>2, <1>3, <1>4, <1>5, <1>6, <1>7, <1>8 DEF Next

(* As long as a Communicator is used its descriptor leads to its socket:   *)
(* whatever else is created, accepted, moved or closed, no step gives the  *)
(* number away; and no socket that was closed comes back to life.  (The    *)
(* moves leave the source without its descriptor; close() and the factory  *)
(* close what the variable held.)                                          *)
THEOREM NeverGivenAway == Spec => [][LivesOn]_vars
<1>1. CommInv /\ [Next]_vars => [LivesOn]_vars
  BY LivesStep
<1> QED
  BY <1>1, CommInvariant, PTL DEF Spec
=============================================================================
