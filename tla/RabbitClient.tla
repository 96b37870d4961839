--------------------------- MODULE RabbitClient ---------------------------
(***************************************************************************)
(* rabbitMQ-pool, upper half: Broker, Producer and Consumer as threads     *)
(* that borrow channels of RabbitChannels, against a server with one       *)
(* exchange, one queue and one binding.                                    *)
(*                                                                         *)
(* What Consumer relies on without saying so is that the deliveries it     *)
(* reads are its own.  amqp_consume_message() returns the next delivery of *)
(* the CONNECTION, whatever channel it is for, and the consumer acks its   *)
(* delivery tag on its own channel: with a second consumer on the          *)
(* connection, or after a restart that left deliveries unread, that is the *)
(* tag of another message, or of none, and then the server closes the      *)
(* channel.                                                                *)
(*                                                                         *)
(* The queue outlives its consumers (not auto_delete).  Messages are       *)
(* numbered as the server accepts them.                                    *)
(***************************************************************************)
EXTENDS RabbitChannels

CONSTANTS
    Main,         \* the thread that sets up and tears down
    Producers, Consumers,
    NoAck,        \* m_no_ack
    TimesOut,     \* m_timeout_ms is not the default -1
    Prefetch,     \* m_prefetch_count, 0 for no limit
    NoDelivery,   \* no envelope
    MaxSent,      \* bound on messages sent
    MaxStarts     \* bound on calls of start()

ASSUME ClientAssumption ==
    /\ Clients = {Main} \union Producers \union Consumers
    /\ Main \notin Producers \union Consumers
    /\ Producers \cap Consumers = {}
    /\ NoAck \in BOOLEAN /\ TimesOut \in BOOLEAN
    /\ Prefetch \in Nat /\ MaxSent \in Nat /\ MaxStarts \in Nat

VARIABLES
    main,       \* where Broker::setup() and teardown() are
    allOk,      \* all_ok of the two
    topo,       \* the server's exchange, queue and binding
    queue,      \* the messages ready in the queue
    sub,        \* the channel has a consumer on the queue
    tags,       \* the last delivery tag of each channel
    unacked,    \* deliveries of each channel the server waits for
    wire,       \* deliveries sent and not yet read, in order
    jammed,     \* a channel.close nobody reads is first on the wire
    sent,       \* messages sent
    accepted,   \* messages the server put into the queue
    pub,        \* where each producer is
    pc,         \* where each consumer's thread is
    running,    \* m_running
    envelope,   \* the local envelope
    handled,    \* history: the messages a handler was called with
    gone,       \* history: the messages the server forgot after an ack
    starts,     \* calls of start() that made a thread
    subs        \* history: successful calls of basic_consume()

brokerVars == <<main, allOk, topo>>
serverVars == <<queue, sub, tags, unacked, wire, jammed, gone>>
producerVars == <<sent, accepted, pub>>
consumerVars == <<pc, running, envelope, handled, starts, subs>>
vars == <<channelVars, brokerVars, serverVars, producerVars, consumerVars>>

Init ==
    /\ ChannelsInit
    /\ main = "start" /\ allOk = TRUE /\ topo = {}
    /\ queue = <<>> /\ wire = <<>> /\ jammed = FALSE
    /\ sub = [c \in Channels |-> FALSE]
    /\ tags = [c \in Channels |-> 0]
    /\ unacked = [c \in Channels |-> {}]
    /\ sent = 0 /\ accepted = 0
    /\ pub = [p \in Producers |-> "idle"]
    /\ pc = [k \in Consumers |-> "none"]
    /\ running = [k \in Consumers |-> FALSE]
    /\ envelope = [k \in Consumers |-> NoDelivery]
    /\ handled = {} /\ gone = {} /\ starts = 0 /\ subs = 0

-----------------------------------------------------------------------------
(* The server *)

\* the messages of deliveries, oldest first
Requeued(D) ==
    LET M == {d.msg : d \in D}
    IN {q \in [1..Cardinality(M) -> M] : \A i, j \in DOMAIN q : i < j => q[i] < q[j]}

\* channels that close give back what was not acknowledged
Requeue(C) ==
    /\ \E q \in Requeued(UNION {unacked[c] : c \in C}) : queue' = q \o queue
    /\ unacked' = [c \in Channels |-> IF c \in C THEN {} ELSE unacked[c]]
    /\ sub' = [c \in Channels |-> sub[c] /\ c \notin C]

\* basic_qos(): what the consumer may have unacknowledged
InWindow(c) == Prefetch > 0 /\ ~NoAck => Cardinality(unacked[c]) < Prefetch

\* a message goes to some consumer; without acks it is forgotten at once
Deliver(c) ==
    /\ sub[c] /\ queue # <<>> /\ link
    /\ InWindow(c)
    /\ LET d == [ch |-> c, tag |-> tags[c] + 1, msg |-> Head(queue)]
       IN  /\ wire' = Append(wire, d)
           /\ unacked' = IF NoAck THEN unacked
                         ELSE [unacked EXCEPT ![c] = @ \union {d}]
           /\ gone' = IF NoAck THEN gone \union {d.msg} ELSE gone
    /\ tags' = [tags EXCEPT ![c] = @ + 1]
    /\ queue' = Tail(queue)
    /\ UNCHANGED <<channelVars, brokerVars, sub, jammed, producerVars, consumerVars>>

\* what was on the wire may still be read
ServerLost ==
    /\ LoseLink
    /\ Requeue(Channels)
    /\ UNCHANGED <<tags, wire, jammed, gone, brokerVars, producerVars, consumerVars>>

\* the new connection object has no frames of the old one
Reconnected ==
    /\ Reconnect \/ ReconnectFails
    /\ wire' = <<>> /\ jammed' = FALSE
    /\ UNCHANGED <<queue, sub, tags, unacked, gone, brokerVars, producerVars,
                   consumerVars>>

-----------------------------------------------------------------------------
(* Broker::setup() and Broker::teardown(), on one channel of the pool *)

\* a refused operation: the server closes the channel
Fails(c) ==
    /\ Refused(c)
    /\ Requeue(IF Answers(c) THEN {c} ELSE {})

\* the caller's guard for the whole of setup(), and of teardown()
BeginSetup ==
    /\ main = "start" /\ Take(Main)
    /\ main' = "exchange"
    /\ UNCHANGED <<mInit, link, mutex, mOpen, live, next, opened, process, faults,
                   allOk, topo, serverVars, producerVars, consumerVars>>

BeginTeardown ==
    /\ main = "set up" /\ \A k \in Consumers : pc[k] = "none"
    /\ Take(Main)
    /\ main' = "unbind" /\ allOk' = TRUE
    /\ UNCHANGED <<mInit, link, mutex, mOpen, live, next, opened, process, faults,
                   topo, serverVars, producerVars, consumerVars>>

\* one operation: done, or refused and then skipping to skip
Operate(from, to, skip, things, counts) ==
    /\ main = from /\ Entered
    /\ \/ /\ Answers(guard[Main])
          /\ topo' = things /\ main' = to
          /\ UNCHANGED <<allOk, live, faults, queue, unacked, sub>>
       \/ /\ Fails(guard[Main])
          /\ main' = skip
          /\ allOk' = (allOk /\ ~counts)
          /\ UNCHANGED topo
    /\ UNCHANGED <<mInit, link, mutex, mOpen, poolVars, process, tags, wire,
                   jammed, gone, producerVars, consumerVars>>

DeclareExchange ==
    Operate("exchange", "queue", "queue", topo \union {"exchange"}, TRUE)

\* Mutant of DeclareQueue: a failed queue does not count.
DeclareQueueUncounted ==
    Operate("queue", "bind", "end setup", topo \union {"queue"}, FALSE)

\* a queue that failed is not bound
DeclareQueue ==
    Operate("queue", "bind", "end setup", topo \union {"queue"}, TRUE)

BindQueue ==
    Operate("bind", "end setup", "end setup", topo \union {"binding"}, TRUE)

\* the result of unbind() is ignored
UnbindQueue ==
    Operate("unbind", "delete queue", "delete queue", topo \ {"binding"}, FALSE)

\* deleting the queue takes its messages and its binding along
DeleteQueue ==
    /\ main = "delete queue" /\ Entered
    /\ \/ /\ Answers(guard[Main])
          /\ topo' = topo \ {"queue", "binding"}
          /\ queue' = <<>>
          /\ unacked' = [c \in Channels |-> {}]
          /\ sub' = [c \in Channels |-> FALSE]
          /\ UNCHANGED <<allOk, live, faults>>
       \/ /\ Fails(guard[Main])
          /\ allOk' = FALSE
          /\ UNCHANGED topo
    /\ main' = "delete exchange"
    /\ UNCHANGED <<mInit, link, mutex, mOpen, poolVars, process, tags, wire,
                   jammed, gone, producerVars, consumerVars>>

DeleteExchange ==
    Operate("delete exchange", "end teardown", "end teardown", topo \ {"exchange"}, TRUE)

\* the guard goes; allOk is what was returned
EndOperation ==
    /\ process = "up"
    /\ \/ main = "end setup" /\ main' = "set up"
       \/ main = "end teardown" /\ main' = "torn down"
    /\ Release(Main)
    /\ UNCHANGED <<mInit, link, mutex, mOpen, live, next, opened, process, faults,
                   allOk, topo, serverVars, producerVars, consumerVars>>

-----------------------------------------------------------------------------
(* Producer: send(), and send_batch() as a run of them *)

\* acquire(), or a caller's own try_acquire()
SendAcquire(p) ==
    /\ pub[p] = "idle" /\ sent < MaxSent /\ main \notin {"start", "torn down"}
    /\ \/ Take(p) /\ pub' = [pub EXCEPT ![p] = "publish"] /\ sent' = sent + 1
       \/ TryAcquireEmpty /\ UNCHANGED <<pub, sent>>
    /\ UNCHANGED <<mInit, link, mutex, mOpen, live, next, opened, process, faults,
                   brokerVars, serverVars, accepted, consumerVars>>

\* basic_publish() waits for no answer: a message for a channel the server
\* closed, or without a route, is dropped; then the guard goes
Publish(p) ==
    /\ pub[p] = "publish" /\ Entered
    /\ IF Answers(guard[p]) /\ "binding" \in topo
       THEN accepted' = accepted + 1 /\ queue' = Append(queue, accepted + 1)
       ELSE UNCHANGED <<accepted, queue>>
    /\ pub' = [pub EXCEPT ![p] = "idle"]
    /\ Release(p)
    /\ UNCHANGED <<mInit, link, mutex, mOpen, live, next, opened, process, faults,
                   brokerVars, sub, tags, unacked, wire, jammed, gone, sent,
                   consumerVars>>

-----------------------------------------------------------------------------
(* Consumer *)

\* start() without a joined thread: assigning to a joinable std::thread ends
\* the program; when m_running is set start() does nothing
Start(k) ==
    /\ process = "up" /\ main = "set up" /\ ~running[k] /\ starts < MaxStarts
    /\ \/ /\ pc[k] = "none"
          /\ running' = [running EXCEPT ![k] = TRUE]
          /\ pc' = [pc EXCEPT ![k] = "acquire"]
          /\ starts' = starts + 1
          /\ UNCHANGED <<channelVars, queue, unacked, sub, wire>>
       \/ /\ pc[k] # "none"
          /\ Die /\ Requeue(Channels) /\ wire' = <<>>
          /\ UNCHANGED <<faults, running, pc, starts>>
    /\ UNCHANGED <<brokerVars, tags, jammed, gone, producerVars, envelope, handled,
                   subs>>

\* stop()
Stop(k) ==
    /\ process = "up" /\ running[k]
    /\ running' = [running EXCEPT ![k] = FALSE]
    /\ UNCHANGED <<channelVars, brokerVars, serverVars, producerVars, pc, envelope,
                   handled, starts, subs>>

\* join()
Join(k) ==
    /\ process = "up" /\ pc[k] = "ended"
    /\ pc' = [pc EXCEPT ![k] = "none"]
    /\ UNCHANGED <<channelVars, brokerVars, serverVars, producerVars, running,
                   envelope, handled, starts, subs>>

\* consume_loop() begins: a channel of the pool
LoopAcquire(k) ==
    /\ pc[k] = "acquire" /\ Take(k)
    /\ pc' = [pc EXCEPT ![k] = "consume"]
    /\ UNCHANGED <<mInit, link, mutex, mOpen, live, next, opened, process, faults,
                   brokerVars, serverVars, producerVars, running, envelope, handled,
                   starts, subs>>

\* basic_qos() and basic_consume(); a failure ends the loop by itself, and the
\* guard goes
BasicConsume(k) ==
    /\ pc[k] = "consume" /\ Entered
    /\ \/ /\ Answers(guard[k]) /\ "queue" \in topo
          /\ sub' = [sub EXCEPT ![guard[k]] = TRUE]
          /\ pc' = [pc EXCEPT ![k] = "loop"]
          /\ subs' = subs + 1
          /\ UNCHANGED <<live, faults, guard, pool, running, queue, unacked>>
       \/ /\ Fails(guard[k])
          /\ pc' = [pc EXCEPT ![k] = "ended"]
          /\ running' = [running EXCEPT ![k] = FALSE]
          /\ Release(k)
          /\ UNCHANGED subs
       \/ /\ Answers(guard[k]) /\ "queue" \notin topo
          /\ live' = [live EXCEPT ![guard[k]] = FALSE]
          /\ Requeue({guard[k]})
          /\ pc' = [pc EXCEPT ![k] = "ended"]
          /\ running' = [running EXCEPT ![k] = FALSE]
          /\ Release(k)
          /\ UNCHANGED <<subs, faults>>
    /\ UNCHANGED <<mInit, link, mutex, mOpen, next, opened, process, brokerVars, tags,
                   wire, jammed, gone, producerVars, envelope, handled, starts>>

\* consume_message() enters the connection and keeps its mutex
BeginRead(k) ==
    /\ pc[k] = "loop" /\ running[k] /\ Entered
    /\ mutex' = k
    /\ pc' = [pc EXCEPT ![k] = "read"]
    /\ UNCHANGED <<linkVars, poolVars, process, faults, brokerVars, serverVars,
                   producerVars, running, envelope, handled, starts, subs>>

\* Mutant of Read: the message is acknowledged before its handler runs.
ReadAcked(k) ==
    /\ pc[k] = "read" /\ process = "up" /\ wire # <<>> /\ ~jammed
    /\ envelope' = [envelope EXCEPT ![k] = Head(wire)]
    /\ wire' = Tail(wire)
    /\ unacked' = [unacked EXCEPT ![guard[k]] = @ \ {Head(wire)}]
    /\ gone' = gone \union {Head(wire).msg}
    /\ mutex' = Nobody
    /\ pc' = [pc EXCEPT ![k] = "handle"]
    /\ UNCHANGED <<linkVars, poolVars, process, faults, brokerVars, queue, sub, tags,
                   jammed, producerVars, running, handled, starts, subs>>

\* the next delivery of the connection, for whatever channel
Read(k) ==
    /\ pc[k] = "read" /\ process = "up" /\ wire # <<>> /\ ~jammed
    /\ envelope' = [envelope EXCEPT ![k] = Head(wire)]
    /\ wire' = Tail(wire)
    /\ mutex' = Nobody
    /\ pc' = [pc EXCEPT ![k] = "handle"]
    /\ UNCHANGED <<linkVars, poolVars, process, faults, brokerVars, queue, sub, tags,
                   unacked, jammed, gone, producerVars, running, handled, starts, subs>>

\* Mutant of ReadNothing: a timeout waits on.
ReadNothingEver(k) ==
    /\ pc[k] = "read" /\ process = "up"
    /\ jammed \/ (wire = <<>> /\ ~link)
    /\ mutex' = Nobody
    /\ pc' = [pc EXCEPT ![k] = "loop"]
    /\ UNCHANGED <<linkVars, poolVars, process, faults, brokerVars, serverVars,
                   producerVars, running, envelope, handled, starts, subs>>

\* a timeout, a frame that is no delivery, or no connection
ReadNothing(k) ==
    /\ pc[k] = "read" /\ process = "up"
    /\ jammed \/ (wire = <<>> /\ (TimesOut \/ ~link))
    /\ mutex' = Nobody
    /\ pc' = [pc EXCEPT ![k] = "loop"]
    /\ UNCHANGED <<linkVars, poolVars, process, faults, brokerVars, serverVars,
                   producerVars, running, envelope, handled, starts, subs>>

\* the handler; an exception it lets out ends the program
Handle(k) ==
    /\ pc[k] = "handle" /\ process = "up"
    /\ \/ /\ handled' = handled \union {envelope[k].msg}
          /\ pc' = [pc EXCEPT ![k] = IF NoAck THEN "loop" ELSE "ack"]
          /\ UNCHANGED <<channelVars, queue, unacked, sub, wire>>
       \/ /\ Fault /\ Die /\ Requeue(Channels) /\ wire' = <<>>
          /\ UNCHANGED <<handled, pc>>
    /\ UNCHANGED <<brokerVars, tags, jammed, gone, producerVars, running, envelope,
                   starts, subs>>

\* basic_ack() of the delivery's tag on the consumer's own channel
Ack(k) ==
    /\ pc[k] = "ack" /\ Entered
    /\ LET c == guard[k]
           D == {d \in unacked[c] : d.tag = envelope[k].tag}
       IN \/ /\ Answers(c) /\ D # {}
             /\ unacked' = [unacked EXCEPT ![c] = @ \ D]
             /\ gone' = gone \union {d.msg : d \in D}
             /\ UNCHANGED <<live, queue, sub, jammed>>
          \/ /\ Answers(c) /\ D = {}
             /\ live' = [live EXCEPT ![c] = FALSE]
             /\ Requeue({c})
             /\ jammed' = TRUE
             /\ UNCHANGED gone
          \/ ~Answers(c) /\ UNCHANGED <<live, queue, sub, unacked, jammed, gone>>
    /\ envelope' = [envelope EXCEPT ![k] = NoDelivery]
    /\ pc' = [pc EXCEPT ![k] = "loop"]
    /\ UNCHANGED <<mInit, link, mutex, mOpen, poolVars, process, faults, brokerVars,
                   tags, wire, producerVars, running, handled, starts, subs>>

\* m_running was cleared: basic_cancel(), whose result is ignored, and the
\* channel goes back to the pool with what it has not acknowledged
Cancel(k) ==
    /\ pc[k] = "loop" /\ ~running[k] /\ Entered
    /\ \/ /\ Answers(guard[k])
          /\ sub' = [sub EXCEPT ![guard[k]] = FALSE]
          /\ UNCHANGED <<live, faults, queue, unacked>>
       \/ Fails(guard[k])
    /\ Release(k)
    /\ pc' = [pc EXCEPT ![k] = "ended"]
    /\ envelope' = [envelope EXCEPT ![k] = NoDelivery]
    /\ UNCHANGED <<mInit, link, mutex, mOpen, next, opened, process, brokerVars, tags,
                   wire, jammed, gone, producerVars, running, handled, starts, subs>>

-----------------------------------------------------------------------------
(* The end of the process, in the order the objects are destroyed *)

Connect ==
    /\ InitConnection \/ OpenChannel
    /\ UNCHANGED <<brokerVars, serverVars, producerVars, consumerVars>>

BeginClose ==
    /\ Serving /\ main \in {"set up", "torn down"}
    /\ \A k \in Consumers : pc[k] = "none"
    /\ \A p \in Producers : pub[p] = "idle"
    /\ process' = "closing"
    /\ UNCHANGED <<linkVars, mutex, poolVars, faults, brokerVars, serverVars,
                   producerVars, consumerVars>>

Close ==
    /\ \/ CloseChannel /\ Requeue({Head(pool)})
       \/ CloseConnection /\ Requeue(Channels)
       \/ NullConnection /\ Requeue(Channels)
    /\ UNCHANGED <<brokerVars, tags, wire, jammed, gone, producerVars, consumerVars>>

-----------------------------------------------------------------------------
Setup == BeginSetup \/ DeclareExchange \/ DeclareQueue \/ BindQueue

Teardown == UnbindQueue \/ DeleteQueue \/ DeleteExchange

Send(p) == SendAcquire(p) \/ Publish(p)

Loop(k) == \/ LoopAcquire(k) \/ BasicConsume(k) \/ BeginRead(k) \/ Read(k)
           \/ ReadNothing(k) \/ Handle(k) \/ Ack(k) \/ Cancel(k)

Next ==
    \/ Connect \/ Setup \/ BeginTeardown \/ Teardown \/ EndOperation
    \/ BeginClose \/ Close
    \/ ServerLost \/ Reconnected
    \/ \E c \in Channels : Deliver(c)
    \/ \E p \in Producers : Send(p)
    \/ \E k \in Consumers : Start(k) \/ Stop(k) \/ Join(k) \/ Loop(k)

Spec == Init /\ [][Next]_vars

\* threads run
Fairness ==
    /\ WF_vars(Setup \/ Teardown \/ EndOperation) /\ WF_vars(Close)
    /\ \A p \in Producers : WF_vars(Publish(p))
    /\ \A k \in Consumers : WF_vars(Loop(k))

FairSpec == Spec /\ Fairness

-----------------------------------------------------------------------------
(* Properties *)

\* The type invariant.
TypeOK ==
    /\ ChannelsTypeOK
    /\ main \in {"start", "exchange", "queue", "bind", "end setup", "set up", "unbind",
                 "delete queue", "delete exchange", "end teardown", "torn down"}
    /\ allOk \in BOOLEAN
    /\ topo \subseteq {"exchange", "queue", "binding"}
    /\ queue \in Seq(1..MaxSent)
    /\ sub \in [Channels -> BOOLEAN]
    /\ tags \in [Channels -> Nat]
    /\ unacked \in [Channels -> SUBSET [ch : Channels, tag : Nat, msg : 1..MaxSent]]
    /\ wire \in Seq([ch : Channels, tag : Nat, msg : 1..MaxSent])
    /\ jammed \in BOOLEAN
    /\ sent \in 0..MaxSent /\ accepted \in 0..sent
    /\ pub \in [Producers -> {"idle", "publish"}]
    /\ pc \in [Consumers -> {"none", "acquire", "consume", "loop", "read", "handle",
                             "ack", "ended"}]
    /\ running \in [Consumers -> BOOLEAN]
    /\ envelope \in [Consumers -> [ch : Channels, tag : Nat, msg : 1..MaxSent]
                                  \union {NoDelivery}]
    /\ handled \subseteq 1..accepted /\ gone \subseteq 1..accepted
    /\ starts \in 0..MaxStarts /\ subs \in 0..MaxStarts

\* With acknowledgements and one subscription in the life of the connection no
\* message is lost: the server keeps every message it accepted until a handler
\* was called with it, through lost connections, closed channels, a handler
\* that throws, stop() and the end of the process.
\* (Consumer::consume_loop(): the handler, then basic_ack().)
NoMessageLost == ~NoAck /\ subs <= 1 => gone \subseteq handled

\* A consumer that is told to stop ends its thread, whatever it was doing, when
\* its reads time out and the pool has a channel more than there are others who
\* use one.  (Consumer::stop(), consume_loop().)
StopJoins == \A k \in Consumers :
    (/\ pc[k] # "none" /\ ~running[k] /\ process = "up"
     /\ Cardinality(opened) > Cardinality(Producers))
       ~> (pc[k] \in {"none", "ended"} \/ process = "crashed")

\* setup() and teardown() tell the truth: true means that the whole topology is
\* there, or that nothing of it is left.
\* (all_ok of Broker::setup() and Broker::teardown(), each on one channel that
\* an error in the middle closes.)
ToldTruly ==
    /\ main = "set up" /\ allOk => topo = {"exchange", "queue", "binding"}
    /\ main = "torn down" /\ allOk => topo = {}

-----------------------------------------------------------------------------
(* What the documents of rabbitMQ-pool say, and the code does not keep *)

\* README.md:347: a message is acknowledged after its callback has run.
AckedIsHandled == ~NoAck => gone \subseteq handled
=============================================================================
