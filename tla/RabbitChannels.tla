-------------------------- MODULE RabbitChannels --------------------------
(***************************************************************************)
(* rabbitMQ-pool, lower half: one Connection, the Channels multiplexed on  *)
(* it, ChannelPool and ChannelGuard.                                       *)
(*                                                                         *)
(* Every operation of a Channel takes the mutex of the shared connection.  *)
(* All of them give it back at once, but consume_message(), which keeps it *)
(* while it blocks; so the mutex is a variable and only a reader holds it  *)
(* from one step to the next.                                              *)
(*                                                                         *)
(* The server is external: it may lose the connection, and it answers an   *)
(* operation it refuses by closing the channel, of which Channel's m_open  *)
(* learns nothing.                                                         *)
(***************************************************************************)
EXTENDS Naturals, Sequences, FiniteSets, Functions

CONSTANTS
    ChannelMax,    \* channel_max of the pool
    Clients,       \* threads that borrow channels
    NoChannel,     \* an empty guard
    Nobody,        \* the mutex of the connection is free
    MaxFaults      \* bound on injected faults

ASSUME ChannelAssumption ==
    /\ ChannelMax \in Nat \ {0}
    /\ MaxFaults \in Nat
    /\ NoChannel \notin 1..ChannelMax
    /\ Nobody \notin Clients

VARIABLES
    mInit,      \* m_init of the connection
    link,       \* the server still serves the connection
    mutex,      \* who holds m_mutex of the connection
    mOpen,      \* m_open of each channel
    live,       \* the server has the channel open
    next,       \* ChannelPool(): the channel it opens next
    opened,     \* the channels the pool consists of
    pool,       \* m_channels
    guard,      \* the channel in each client's guard
    process,    \* "up", or how the process ended
    faults      \* faults injected

linkVars == <<mInit, link, mOpen, live>>
poolVars == <<next, opened, pool, guard>>
channelVars == <<mInit, link, mutex, mOpen, live, next, opened, pool, guard,
                 process, faults>>

Channels == 1..ChannelMax
Fault == faults < MaxFaults /\ faults' = faults + 1

ChannelsInit ==
    /\ mInit = FALSE /\ link = FALSE /\ mutex = Nobody
    /\ mOpen = [c \in Channels |-> FALSE]
    /\ live = [c \in Channels |-> FALSE]
    /\ next = 1 /\ opened = {} /\ pool = <<>>
    /\ guard = [x \in Clients |-> NoChannel]
    /\ process = "up" /\ faults = 0

-----------------------------------------------------------------------------
(* Connection *)

\* init(): connected and logged in; on a failure m_init stays false and the
\* caller may try again
InitConnection ==
    /\ process = "up" /\ ~mInit /\ mutex = Nobody /\ next = 1
    /\ mInit' = TRUE /\ link' = TRUE
    /\ UNCHANGED <<mutex, mOpen, live, poolVars, process, faults>>

\* the server is gone, and every channel with it
LoseLink ==
    /\ link /\ Fault
    /\ link' = FALSE
    /\ live' = [c \in Channels |-> FALSE]
    /\ UNCHANGED <<mInit, mutex, mOpen, poolVars, process>>

\* reconnect(): a new connection on which nobody opens the channels again
Reconnect ==
    /\ process = "up" /\ mInit /\ ~link /\ mutex = Nobody
    /\ link' = TRUE
    /\ UNCHANGED <<mInit, mutex, mOpen, live, poolVars, process, faults>>

\* a reconnect() that fails leaves no connection: connection() is nullptr from
\* then on, and the next operation hands it to the library
ReconnectFails ==
    /\ process = "up" /\ mInit /\ ~link /\ mutex = Nobody /\ Fault
    /\ mInit' = FALSE
    /\ UNCHANGED <<link, mutex, mOpen, live, poolVars, process>>

-----------------------------------------------------------------------------
(* Channel: an operation that waits for the server's reply *)

\* no other thread is inside the connection
Entered == process = "up" /\ mutex = Nobody /\ mInit

Answers(c) == link /\ live[c]

\* the reply is an error: the connection or the channel was gone, or the
\* server refuses and closes the channel
Refused(c) ==
    \/ ~Answers(c) /\ UNCHANGED <<live, faults>>
    \/ Answers(c) /\ Fault /\ live' = [live EXCEPT ![c] = FALSE]

\* the process ends, and its connection with it
Die ==
    /\ process' = "crashed"
    /\ link' = FALSE /\ live' = [c \in Channels |-> FALSE]
    /\ mutex' = Nobody
    /\ UNCHANGED <<mInit, mOpen, poolVars>>

\* an operation on nullptr, ~Channel()'s included
NullConnection ==
    /\ ~mInit /\ next > 1
    /\ \/ process = "up" /\ \E x \in Clients : guard[x] # NoChannel
       \/ process = "closing" /\ pool # <<>>
    /\ Die
    /\ UNCHANGED faults

-----------------------------------------------------------------------------
(* ChannelPool and ChannelGuard *)

\* ChannelPool(): a channel that does not open is skipped
OpenChannel ==
    /\ Entered /\ next <= ChannelMax
    /\ next' = next + 1
    /\ \/ /\ link
          /\ mOpen' = [mOpen EXCEPT ![next] = TRUE]
          /\ live' = [live EXCEPT ![next] = TRUE]
          /\ opened' = opened \union {next}
          /\ pool' = Append(pool, next)
          /\ UNCHANGED faults
       \/ /\ (~link /\ UNCHANGED faults) \/ Fault
          /\ UNCHANGED <<mOpen, live, opened, pool>>
    /\ UNCHANGED <<mInit, link, mutex, guard, process>>

Serving == process = "up" /\ next = ChannelMax + 1

\* acquire() and try_acquire(), once the queue is not empty
Take(x) ==
    /\ Serving /\ pool # <<>>
    /\ guard' = [guard EXCEPT ![x] = Head(pool)]
    /\ pool' = Tail(pool)

\* try_acquire() waits once: the timeout, a spurious wakeup and a channel
\* somebody else took first all give an empty guard
TryAcquireEmpty == Serving /\ pool = <<>> /\ UNCHANGED <<guard, pool>>

\* the pool's release(): a channel joins the queue, in whatever state it is
GiveBack(c) == IF c = NoChannel THEN pool ELSE Append(pool, c)

\* Mutant of Release: an error path drops a channel the server closed.
ReleaseLive(x) ==
    /\ guard' = [guard EXCEPT ![x] = NoChannel]
    /\ pool' = IF guard[x] # NoChannel /\ live[guard[x]] THEN Append(pool, guard[x])
               ELSE pool

\* the guard's release(): once, and whatever became of the channel
Release(x) ==
    /\ guard' = [guard EXCEPT ![x] = NoChannel]
    /\ pool' = GiveBack(guard[x])

\* ~ChannelPool(): the idle channels are closed one by one; close() fails when
\* the server does not answer, and ~Channel() tries once more
CloseChannel ==
    /\ process = "closing" /\ mutex = Nobody /\ mInit /\ pool # <<>>
    /\ pool' = Tail(pool)
    /\ opened' = opened \ {Head(pool)}
    /\ mOpen' = [mOpen EXCEPT ![Head(pool)] = FALSE]
    /\ live' = [live EXCEPT ![Head(pool)] = FALSE]
    /\ UNCHANGED <<mInit, link, mutex, next, guard, process, faults>>

\* ~Connection()
CloseConnection ==
    /\ process = "closing" /\ mutex = Nobody /\ pool = <<>>
    /\ process' = "closed"
    /\ mInit' = FALSE /\ link' = FALSE
    /\ UNCHANGED <<mutex, mOpen, live, poolVars, faults>>

-----------------------------------------------------------------------------
(* Properties *)

\* The type invariant.
ChannelsTypeOK ==
    /\ mInit \in BOOLEAN /\ link \in BOOLEAN
    /\ mutex \in Clients \union {Nobody}
    /\ mOpen \in [Channels -> BOOLEAN]
    /\ live \in [Channels -> BOOLEAN]
    /\ next \in 1..(ChannelMax + 1)
    /\ opened \subseteq Channels
    /\ pool \in Seq(Channels)
    /\ Len(pool) <= ChannelMax
    /\ guard \in [Clients -> Channels \union {NoChannel}]
    /\ process \in {"up", "crashed", "closing", "closed"}
    /\ faults \in 0..MaxFaults

\* The pool lends each channel to one guard at a time and gets every channel
\* back, whatever happened to the channel meanwhile: it implements the loan of
\* a set of channels.  (ChannelPool::acquire(), release(), ChannelGuard.)
Loans == INSTANCE LoanPool WITH
    Conns <- Channels, Clients <- Clients,
    open <- opened, idle <- Range(pool),
    loans <- [x \in Clients |-> {guard[x]} \ {NoChannel}]
ImplementsLoanPool == Loans!LoanSpec
=============================================================================
