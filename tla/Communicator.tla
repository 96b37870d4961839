---------------------------- MODULE Communicator ----------------------------
(***************************************************************************)
(* cross-domain-communication: Communicator objects, made by the factory   *)
(* or by accept(), moved between the variables of a program, each holding  *)
(* a descriptor and the strategy of its protocol.                          *)
(*                                                                         *)
(* The kernel is external: it gives out descriptor numbers, uses a number  *)
(* again once it is closed, pairs streams in the order of connect() and    *)
(* may lose datagrams.  A call that fails changes nothing and is not an    *)
(* action.  A payload is its sender.                                       *)
(***************************************************************************)
EXTENDS Integers, Sequences, FiniteSets

CONSTANTS
    Slots,       \* the Communicator variables of the program
    Fds,         \* descriptor numbers
    Addresses,   \* the Address objects: records with a domain and a text
    Domains,     \* address families a configuration may ask for
    Types,       \* socket types a configuration may ask for
    Unnamed,     \* what an address query answers when it cannot
    SunPath,     \* room for a path in sockaddr_un
    MaxSockets,  \* bound on sockets ever made
    MaxQueue     \* bound on what a socket holds unread

NoName == <<>>
Closed == -1

ASSUME CommunicatorAssumption ==
    /\ Fds \subseteq Nat
    /\ {"stream", "dgram"} \subseteq Types
    /\ Domains \subseteq {"unix", "inet"}
    /\ Unnamed \notin Addresses
    /\ \A a \in Addresses : a.domain \in {"unix", "inet"} /\ a.text \in Seq(Nat)
    /\ SunPath \in Nat \ {0} /\ MaxSockets \in Nat /\ MaxQueue \in Nat

VARIABLES
    comm,      \* each variable's Communicator
    holds,     \* history: the socket each Communicator was given
    fdTable,   \* the socket behind each descriptor, 0 if it is free
    socket     \* the sockets made so far

vars == <<comm, holds, fdTable, socket>>

Invalid == [fd |-> Closed, domain |-> "none", type |-> "none", strategy |-> "none"]

Init ==
    /\ comm = [s \in Slots |-> Invalid]
    /\ holds = [s \in Slots |-> 0]
    /\ fdTable = [f \in Fds |-> 0]
    /\ socket = <<>>

-----------------------------------------------------------------------------
(* The kernel *)

Sockets == DOMAIN socket
FreeFds == {f \in Fds : fdTable[f] = 0}
NewSocket(d, t) == [domain |-> d, type |-> t, name |-> NoName, listening |-> FALSE,
                    nonblock |-> FALSE, peer |-> 0, pending |-> <<>>, inbox |-> <<>>]

\* POSIX: the lowest free number
LowestFd == CHOOSE f \in FreeFds : \A g \in FreeFds : f <= g

Behind(s) == fdTable[comm[s].fd]

\* a peer whose own descriptor is closed is gone
Open(i) == \E f \in Fds : fdTable[f] = i

-----------------------------------------------------------------------------
(* Addresses *)

\* Address::create(); the queries below make theirs from what the kernel tells
Address(d, text) == [domain |-> d, text |-> text]

\* getSockAddr(): a path is cut to what sockaddr_un holds; an IP address that
\* inet_pton() refuses (here: the text 0) is no address
SockAddr(a) ==
    IF a.domain = "inet" THEN IF a.text = <<0>> THEN NoName ELSE a.text
    ELSE IF Len(a.text) < SunPath THEN a.text
    ELSE SubSeq(a.text, 1, SunPath - 1)

-----------------------------------------------------------------------------
(* The life of a Communicator *)

StrategyOf(t) == IF t = "stream" THEN "tcp" ELSE "udp"

\* close(): the table after it
CloseFd(s) == IF comm[s].fd = Closed THEN fdTable ELSE [fdTable EXCEPT ![comm[s].fd] = 0]

\* tcpIpv4(), udpIpv4(), tcpUnix() and udpUnix(), and configurations written by
\* hand
Configs == [domain : Domains, type : {"stream", "dgram"}] \union
           [domain : Domains, type : Types]

\* s = CommunicatorFactory::create(config): a socket of a type that has no
\* strategy is closed again; what s held is closed as it is assigned to
Create(s, d, t) ==
    /\ Len(socket) < MaxSockets /\ FreeFds # {}
    /\ socket' = Append(socket, NewSocket(d, t))
    /\ IF t \in {"stream", "dgram"}
       THEN /\ comm' = [comm EXCEPT ![s] = [fd |-> LowestFd, domain |-> d, type |-> t,
                                            strategy |-> StrategyOf(t)]]
            /\ holds' = [holds EXCEPT ![s] = Len(socket) + 1]
            /\ fdTable' = [CloseFd(s) EXCEPT ![LowestFd] = Len(socket) + 1]
       ELSE /\ comm' = [comm EXCEPT ![s] = Invalid]
            /\ holds' = [holds EXCEPT ![s] = 0]
            /\ fdTable' = CloseFd(s)

\* socket() fails: s is invalid, and what it held is closed
CreateFails(s) ==
    /\ comm[s].fd # Closed
    /\ fdTable' = CloseFd(s)
    /\ comm' = [comm EXCEPT ![s] = Invalid]
    /\ holds' = [holds EXCEPT ![s] = 0]
    /\ UNCHANGED socket

\* Mutant of MoveAssign: what the target held is not closed.
MoveAssignOver(s, d) ==
    /\ s # d
    /\ comm' = [comm EXCEPT ![d] = comm[s], ![s] = Invalid]
    /\ holds' = [holds EXCEPT ![d] = holds[s], ![s] = 0]
    /\ UNCHANGED <<fdTable, socket>>

\* d = std::move(s): d closes what it held and takes the descriptor and the
\* strategy of s; an object moved onto itself stays as it is.  Construction by
\* a move is the case of a d that holds nothing.
MoveAssign(s, d) ==
    /\ s # d
    /\ fdTable' = CloseFd(d)
    /\ comm' = [comm EXCEPT ![d] = comm[s], ![s] = Invalid]
    /\ holds' = [holds EXCEPT ![d] = holds[s], ![s] = 0]
    /\ UNCHANGED socket

MoveConstruct(s, d) ==
    /\ s # d /\ comm[d] = Invalid
    /\ comm' = [comm EXCEPT ![d] = comm[s], ![s] = Invalid]
    /\ holds' = [holds EXCEPT ![d] = holds[s], ![s] = 0]
    /\ UNCHANGED <<fdTable, socket>>

\* close() and the destructor; domain and type stay
Close(s) ==
    /\ comm[s].fd # Closed \/ comm[s].strategy # "none"
    /\ fdTable' = CloseFd(s)
    /\ comm' = [comm EXCEPT ![s].fd = Closed, ![s].strategy = "none"]
    /\ holds' = [holds EXCEPT ![s] = 0]
    /\ UNCHANGED socket

-----------------------------------------------------------------------------
(* Connections *)

Valid(s) == comm[s].fd # Closed

\* the calls a strategy passes to the socket; any other answers EOPNOTSUPP, or
\* no Communicator, and touches nothing
Supports == [tcp |-> {"listen", "accept", "send", "recv"},
             udp |-> {"send", "recv", "sendTo", "recvFrom"}]

\* without a descriptor or a strategy a call fails before it reaches either
Can(s, call) ==
    Valid(s) /\ comm[s].strategy # "none" /\ call \in Supports[comm[s].strategy]

KernelOnly == UNCHANGED <<comm, holds, fdTable>>

Named(d, t, n) == {i \in Sockets : /\ Open(i) /\ n # NoName
                                   /\ socket[i].domain = d /\ socket[i].type = t
                                   /\ socket[i].name = n}

Bind(s, a) ==
    /\ Valid(s) /\ SockAddr(a) # NoName
    /\ a.domain = comm[s].domain /\ socket[Behind(s)].name = NoName
    /\ Named(a.domain, comm[s].type, SockAddr(a)) = {}
    /\ socket' = [socket EXCEPT ![Behind(s)].name = SockAddr(a)]
    /\ KernelOnly

Listen(s) ==
    /\ Can(s, "listen")
    /\ socket[Behind(s)].name # NoName /\ socket[Behind(s)].peer = 0
    /\ ~socket[Behind(s)].listening
    /\ socket' = [socket EXCEPT ![Behind(s)].listening = TRUE]
    /\ KernelOnly

\* a stream waits at the listener for accept(); a datagram socket takes a
\* default peer
Connect(s, a) ==
    /\ Valid(s) /\ a.domain = comm[s].domain
    /\ socket[Behind(s)].peer = 0 /\ ~socket[Behind(s)].listening
    /\ \E l \in Named(a.domain, comm[s].type, SockAddr(a)) \ {Behind(s)} :
         \/ /\ comm[s].type = "stream"
            /\ socket[l].listening /\ Len(socket[l].pending) < MaxQueue
            /\ socket' = [socket EXCEPT ![l].pending = Append(@, Behind(s)),
                                        ![Behind(s)].peer = l]
         \/ /\ comm[s].type = "dgram"
            /\ socket' = [socket EXCEPT ![Behind(s)].peer = l]
    /\ KernelOnly

\* accept(): the first connection gets a descriptor and a Communicator of its
\* own; one that its client has closed meanwhile is given out all the same
Accept(s, d) ==
    /\ Can(s, "accept") /\ d # s /\ ~Valid(d)
    /\ socket[Behind(s)].pending # <<>>
    /\ FreeFds # {} /\ Len(socket) < MaxSockets
    /\ LET l == Behind(s)
           c == Head(socket[l].pending)
           i == Len(socket) + 1
       IN  /\ socket' = Append([socket EXCEPT ![l].pending = Tail(@),
                                              ![c].peer = i],
                               [NewSocket(comm[s].domain, "stream") EXCEPT
                                  !.peer = c, !.name = socket[l].name])
           /\ fdTable' = [fdTable EXCEPT ![LowestFd] = i]
           /\ holds' = [holds EXCEPT ![d] = i]
           /\ comm' = [comm EXCEPT ![d] = [fd |-> LowestFd, domain |-> comm[s].domain,
                                           type |-> comm[s].type, strategy |-> "tcp"]]

\* setNonBlocking(): a flag of the socket, which a move takes along and
\* accept() does not
SetNonBlocking(s) ==
    /\ Valid(s)
    /\ socket' = [socket EXCEPT ![Behind(s)].nonblock = ~@]
    /\ KernelOnly

-----------------------------------------------------------------------------
(* Address queries: what the kernel tells is read by the domain_ of the
   Communicator, whatever the socket is of *)

\* getsockname() and getpeername(): the name of the socket, and of its peer
SockName(i) == socket[i].name
PeerName(i) == SockName(socket[i].peer)

LocalAddress(s) ==
    IF Valid(s) THEN Address(comm[s].domain, SockName(Behind(s))) ELSE Unnamed

PeerAddress(s) ==
    IF Valid(s) /\ socket[Behind(s)].peer # 0
    THEN Address(comm[s].domain, PeerName(Behind(s))) ELSE Unnamed

\* an address to bind or connect to: the program's own, or one it was told
Known == Addresses \union ({LocalAddress(s) : s \in Slots} \ {Unnamed})

-----------------------------------------------------------------------------
(* Data *)

Deliver(i, j) ==
    /\ Open(j) /\ Len(socket[j].inbox) < MaxQueue
    /\ socket' = [socket EXCEPT ![j].inbox = Append(@, i)]
    /\ KernelOnly

\* both strategies send to the peer, once there is one that reads
Send(s) ==
    /\ Can(s, "send")
    /\ LET i == Behind(s)  j == socket[i].peer IN
       /\ j # 0 /\ ~socket[j].listening
       /\ Deliver(i, j)

Recv(s) ==
    /\ Can(s, "recv") /\ socket[Behind(s)].inbox # <<>>
    /\ socket' = [socket EXCEPT ![Behind(s)].inbox = Tail(@)]
    /\ KernelOnly

SendTo(s, a) ==
    /\ Can(s, "sendTo") /\ a.domain = comm[s].domain
    /\ \E j \in Named(a.domain, "dgram", SockAddr(a)) : Deliver(Behind(s), j)

\* recvFrom(addr): addr is an Address&, and the assignment to it copies the
\* base class, which has no members: the caller is not told the sender
RecvFrom(s) ==
    /\ Can(s, "recvFrom") /\ socket[Behind(s)].inbox # <<>>
    /\ socket' = [socket EXCEPT ![Behind(s)].inbox = Tail(@)]
    /\ KernelOnly

\* a datagram is lost
Lose(i) ==
    /\ socket[i].type = "dgram" /\ socket[i].inbox # <<>>
    /\ socket' = [socket EXCEPT ![i].inbox = Tail(@)]
    /\ KernelOnly

-----------------------------------------------------------------------------
Next ==
    \/ \E s \in Slots :
         \/ \E c \in Configs : Create(s, c.domain, c.type)
         \/ CreateFails(s) \/ Close(s)
         \/ \E d \in Slots : MoveAssign(s, d) \/ MoveConstruct(s, d) \/ Accept(s, d)
         \/ \E a \in Known : Bind(s, a) \/ Connect(s, a) \/ SendTo(s, a)
         \/ Listen(s) \/ SetNonBlocking(s) \/ Send(s) \/ Recv(s) \/ RecvFrom(s)
    \/ \E i \in Sockets : Lose(i)

Spec == Init /\ [][Next]_vars

-----------------------------------------------------------------------------
(* Properties *)

\* each open descriptor belongs to one Communicator, and what a Communicator
\* holds still stands for the socket it was made with
Descriptors ==
    /\ \A s \in Slots : Valid(s) =>
         /\ Behind(s) = holds[s] /\ holds[s] \in Sockets
         /\ comm[s].strategy = StrategyOf(socket[holds[s]].type)
         /\ comm[s].domain = socket[holds[s]].domain
    /\ \A f \in Fds : fdTable[f] # 0 =>
         Cardinality({s \in Slots : comm[s].fd = f}) = 1

\* the address a bound Communicator tells leads to its socket (or, if accept()
\* made it, to the socket that listened), and the address of a peer is the one
\* that the Communicator of the peer tells
AddressesLead ==
    \A s \in Slots : Valid(s) =>
      LET i == Behind(s) IN
      /\ SockName(i) # NoName =>
           /\ SockAddr(LocalAddress(s)) = SockName(i)
           /\ \A j \in Named(comm[s].domain, socket[i].type, SockName(i)) :
                j = i \/ socket[i].peer # 0 \/ socket[j].peer # 0
      /\ \A t \in Slots : Valid(t) /\ Behind(t) = socket[i].peer =>
           PeerAddress(s) = LocalAddress(t)

\* Through creation, accept(), moves and close() each open descriptor belongs to
\* one Communicator, none is left open without one, and the number a
\* Communicator holds still stands for the socket it was made with, of the type
\* its strategy is for, though the kernel gives closed numbers out again.  So
\* the addresses it tells are those of that socket and of its peer, cut to the
\* room of sockaddr_un or not.
\* (The moves, close(), the factory's and accept()'s constructions; the queries.)
HoldsItsSocket == Descriptors /\ AddressesLead
=============================================================================
