---------------------------- MODULE RabbitProofs ----------------------------
(***************************************************************************)
(* Proofs about RabbitClient, for every number of channels, producers and  *)
(* consumers, every bound on messages and calls, and faults at any time.   *)
(***************************************************************************)
EXTENDS MCRabbitClient, FiniteSetTheorems, SequenceTheorems, TLAPS

-----------------------------------------------------------------------------
(* The elements of a sequence.                                             *)
Distinct(q) == \A i, j \in DOMAIN q : q[i] = q[j] => i = j

LEMMA AppendRange ==
  ASSUME NEW S, NEW q \in Seq(S), NEW e \in S
  PROVE  /\ Append(q, e) \in Seq(S)
         /\ Range(Append(q, e)) = Range(q) \cup {e}
         /\ Distinct(q) /\ e \notin Range(q) => Distinct(Append(q, e))
<1>1. /\ Append(q, e) \in Seq(S) /\ Len(q) \in Nat
      /\ \A i \in 1..Len(q) : Append(q, e)[i] = q[i]
      /\ Append(q, e)[Len(q) + 1] = e
      /\ DOMAIN q = 1..Len(q) /\ DOMAIN Append(q, e) = 1..(Len(q) + 1)
  BY AppendProperties
<1>2. Range(Append(q, e)) = Range(q) \cup {e}
  BY <1>1 DEF Range
<1>3. ASSUME Distinct(q), e \notin Range(q) PROVE Distinct(Append(q, e))
  BY <1>1, <1>3 DEF Distinct, Range
<1> QED
  BY <1>1, <1>2, <1>3

LEMMA TailRange ==
  ASSUME NEW S, NEW q \in Seq(S), q # <<>>
  PROVE  /\ Tail(q) \in Seq(S) /\ Head(q) \in S
         /\ Range(q) = Range(Tail(q)) \cup {Head(q)}
         /\ Distinct(q) => Distinct(Tail(q)) /\ Head(q) \notin Range(Tail(q))
<1>1. /\ Tail(q) \in Seq(S) /\ Head(q) \in S /\ Len(q) \in Nat \ {0} /\ Head(q) = q[1]
      /\ \A i \in 1..(Len(q) - 1) : Tail(q)[i] = q[i + 1]
      /\ DOMAIN q = 1..Len(q) /\ DOMAIN Tail(q) = 1..(Len(q) - 1)
  BY HeadTailProperties
<1>2. /\ \A i \in 1..(Len(q) - 1) : i + 1 \in 1..Len(q) /\ i + 1 # 1
      /\ 1 \in 1..Len(q)
  BY <1>1
<1>3. Range(q) = Range(Tail(q)) \cup {Head(q)}
  <2>1. ASSUME NEW i \in 1..Len(q) PROVE q[i] \in Range(Tail(q)) \cup {Head(q)}
    <3>1. CASE i = 1
      BY <1>1, <3>1
    <3>2. CASE i # 1
      <4>1. i - 1 \in 1..(Len(q) - 1) /\ Tail(q)[i - 1] = q[i]
        BY <1>1, <3>2
      <4> QED
        BY <1>1, <4>1 DEF Range
    <3> QED
      BY <3>1, <3>2
  <2> QED
    BY <1>1, <1>2, <2>1 DEF Range
<1>4. ASSUME Distinct(q) PROVE Distinct(Tail(q))
  BY <1>1, <1>2, <1>4 DEF Distinct
<1>5. ASSUME Distinct(q) PROVE Head(q) \notin Range(Tail(q))
  <2>1. \A i \in 1..(Len(q) - 1) : Tail(q)[i] # Head(q)
    BY <1>1, <1>2, <1>5 DEF Distinct
  <2> QED
    BY <1>1, <2>1 DEF Range
<1> QED
  BY <1>1, <1>3, <1>4, <1>5

-----------------------------------------------------------------------------
(* Who has a channel: the guard of a client is full exactly between its    *)
(* acquire() and the end of the scope it is in.                            *)
Holds(x) ==
  \/ x = Main /\ main \notin {"start", "set up", "torn down"}
  \/ x \in Producers /\ pub[x] = "publish"
  \/ x \in Consumers /\ pc[x] \notin {"none", "acquire", "ended"}

MainState == {"start", "exchange", "queue", "bind", "end setup", "set up", "unbind",
              "delete queue", "delete exchange", "end teardown", "torn down"}
PcState == {"none", "acquire", "consume", "loop", "read", "handle", "ack", "ended"}

Places ==
  /\ main \in MainState
  /\ pub \in [Producers -> {"idle", "publish"}]
  /\ pc \in [Consumers -> PcState]

(* What a step does to the pool and to those who use it.                   *)
OthersHold(x) == \A y \in Clients \ {x} : Holds(y)' <=> Holds(y)

Takes(x) ==
  /\ Take(x) /\ UNCHANGED <<next, opened>>
  /\ ~Holds(x) /\ Holds(x)' /\ OthersHold(x)

Releases(x) ==
  /\ Release(x) /\ UNCHANGED <<next, opened>>
  /\ Holds(x) /\ ~Holds(x)' /\ OthersHold(x)

NobodyMoves == \A y \in Clients : Holds(y)' <=> Holds(y)

PoolStep ==
  \/ UNCHANGED poolVars /\ NobodyMoves
  \/ \E x \in Clients : Takes(x) \/ Releases(x)
  \/ (OpenChannel \/ CloseChannel) /\ NobodyMoves

LEMMA SetupSteps ==
  ASSUME Places, Setup \/ BeginTeardown \/ Teardown \/ EndOperation
  PROVE  Places' /\ PoolStep
<1> USE DEF Places, MainState
<1>1. Main \in Clients /\ Main \notin Producers /\ Main \notin Consumers
  BY ClientAssumption
<1>2. UNCHANGED <<pub, pc>>
  BY DEF Setup, Teardown, BeginSetup, DeclareExchange, DeclareQueue, BindQueue, BeginTeardown,
         UnbindQueue, DeleteQueue, DeleteExchange, EndOperation, Operate, producerVars,
         consumerVars
<1>3. OthersHold(Main)
  BY <1>1, <1>2 DEF OthersHold, Holds
<1>4. ASSUME BeginSetup \/ BeginTeardown PROVE main' \in MainState /\ Takes(Main)
  BY <1>1, <1>3, <1>4 DEF BeginSetup, BeginTeardown, Takes, Holds
<1>5. ASSUME EndOperation PROVE main' \in MainState /\ Releases(Main)
  BY <1>1, <1>3, <1>5 DEF EndOperation, Releases, Holds
<1>6. ASSUME NEW from \in MainState \ {"start", "set up", "torn down"},
             NEW to \in MainState \ {"start", "set up", "torn down"},
             NEW skip \in MainState \ {"start", "set up", "torn down"},
             main = from, main' = to \/ main' = skip, UNCHANGED poolVars
      PROVE  main' \in MainState /\ PoolStep
  <2>1. Holds(Main) /\ Holds(Main)'
    BY <1>1, <1>6 DEF Holds
  <2> QED
    BY <1>3, <1>6, <2>1 DEF OthersHold, NobodyMoves, PoolStep
<1>7. ASSUME Setup \/ Teardown, ~BeginSetup PROVE main' \in MainState /\ PoolStep
  <2>1. CASE DeclareExchange
    BY <1>6, <2>1 DEF DeclareExchange, Operate
  <2>2. CASE DeclareQueue
    BY <1>6, <2>2 DEF DeclareQueue, Operate
  <2>3. CASE BindQueue
    BY <1>6, <2>3 DEF BindQueue, Operate
  <2>4. CASE UnbindQueue
    BY <1>6, <2>4 DEF UnbindQueue, Operate
  <2>5. CASE DeleteQueue
    BY <1>6, <2>5 DEF DeleteQueue
  <2>6. CASE DeleteExchange
    BY <1>6, <2>6 DEF DeleteExchange, Operate
  <2> QED
    BY <1>7, <2>1, <2>2, <2>3, <2>4, <2>5, <2>6 DEF Setup, Teardown
<1> QED
  BY <1>1, <1>2, <1>4, <1>5, <1>7 DEF PoolStep

LEMMA ProducerSteps ==
  ASSUME Places, NEW p \in Producers, Send(p)
  PROVE  Places' /\ PoolStep
<1>1. p \in Clients /\ p # Main /\ p \notin Consumers
  BY ClientAssumption
<1>2. UNCHANGED <<main, pc>>
  BY DEF Send, SendAcquire, Publish, brokerVars, consumerVars
<1>3. ASSUME NEW v \in {"idle", "publish"}, pub' = [pub EXCEPT ![p] = v]
      PROVE  Places' /\ OthersHold(p) /\ pub'[p] = v
  BY <1>1, <1>2, <1>3 DEF Places, OthersHold, Holds
<1>4. CASE SendAcquire(p)
  <2>1. CASE Take(p) /\ pub' = [pub EXCEPT ![p] = "publish"]
    BY <1>1, <1>3, <1>4, <2>1 DEF SendAcquire, PoolStep, Takes, Holds
  <2>2. CASE TryAcquireEmpty /\ UNCHANGED pub
    BY <1>2, <1>4, <2>2 DEF SendAcquire, TryAcquireEmpty, PoolStep, NobodyMoves, Holds, Places,
                            poolVars
  <2> QED
    BY <1>4, <2>1, <2>2 DEF SendAcquire
<1>5. CASE Publish(p)
  BY <1>1, <1>3, <1>5 DEF Publish, PoolStep, Releases, Holds
<1> QED
  BY <1>4, <1>5 DEF Send

LEMMA ConsumerSteps ==
  ASSUME Places, NEW k \in Consumers, Start(k) \/ Stop(k) \/ Join(k) \/ Loop(k)
  PROVE  Places' /\ PoolStep
<1>1. k \in Clients /\ k # Main /\ k \notin Producers
  BY ClientAssumption
<1>2. UNCHANGED <<main, pub>>
  BY DEF Start, Stop, Join, Loop, LoopAcquire, BasicConsume, BeginRead, Read, ReadNothing,
         Handle, Ack, Cancel, brokerVars, producerVars
<1>3. ASSUME NEW v \in PcState, pc' = [pc EXCEPT ![k] = v]
      PROVE  Places' /\ OthersHold(k) /\ pc'[k] = v
  BY <1>1, <1>2, <1>3 DEF Places, OthersHold, Holds
<1>4. ASSUME UNCHANGED pc, UNCHANGED poolVars
      PROVE  Places' /\ PoolStep
  BY <1>2, <1>4 DEF Places, PoolStep, NobodyMoves, Holds
<1>5. ASSUME NEW v \in PcState, pc' = [pc EXCEPT ![k] = v], UNCHANGED poolVars,
             pc[k] \in {"none", "acquire", "ended"} <=> v \in {"none", "acquire", "ended"}
      PROVE  Places' /\ PoolStep
  <2>1. Holds(k)' <=> Holds(k)
    BY <1>1, <1>3, <1>5 DEF Holds
  <2> QED
    BY <1>3, <1>5, <2>1 DEF OthersHold, NobodyMoves, PoolStep
<1> USE DEF PcState
<1>6. CASE Start(k)
  <2>1. CASE pc[k] = "none" /\ pc' = [pc EXCEPT ![k] = "acquire"] /\ UNCHANGED channelVars
    BY <1>5, <2>1 DEF channelVars, poolVars
  <2>2. CASE UNCHANGED pc /\ Die
    BY <1>4, <2>2 DEF Die
  <2> QED
    BY <1>6, <2>1, <2>2 DEF Start
<1>7. CASE Stop(k)
  BY <1>4, <1>7 DEF Stop, channelVars, poolVars
<1>8. CASE Join(k)
  BY <1>5, <1>8 DEF Join, channelVars, poolVars
<1>9. CASE LoopAcquire(k)
  BY <1>1, <1>3, <1>9 DEF LoopAcquire, PoolStep, Takes, Holds
<1>10. CASE BasicConsume(k)
  <2>1. CASE pc' = [pc EXCEPT ![k] = "loop"] /\ UNCHANGED <<guard, pool>>
    BY <1>5, <1>10, <2>1 DEF BasicConsume, poolVars
  <2>2. CASE pc' = [pc EXCEPT ![k] = "ended"] /\ Release(k)
    BY <1>1, <1>3, <1>10, <2>2 DEF BasicConsume, PoolStep, Releases, Holds
  <2> QED
    BY <1>10, <2>1, <2>2 DEF BasicConsume
<1>11. CASE BeginRead(k) \/ Read(k) \/ ReadNothing(k)
  BY <1>5, <1>11 DEF BeginRead, Read, ReadNothing
<1>12. CASE Handle(k)
  <2>1. CASE pc' = [pc EXCEPT ![k] = IF NoAck THEN "loop" ELSE "ack"] /\ UNCHANGED channelVars
    BY <1>5, <1>12, <2>1 DEF Handle, channelVars, poolVars
  <2>2. CASE UNCHANGED pc /\ Die
    BY <1>4, <2>2 DEF Die
  <2> QED
    BY <1>12, <2>1, <2>2 DEF Handle
<1>13. CASE Ack(k)
  BY <1>5, <1>13 DEF Ack
<1>14. CASE Cancel(k)
  BY <1>1, <1>3, <1>14 DEF Cancel, PoolStep, Releases, Holds
<1> QED
  BY <1>6, <1>7, <1>8, <1>9, <1>10, <1>11, <1>12, <1>13, <1>14 DEF Loop

LEMMA OtherSteps ==
  ASSUME Places,
         \/ Connect \/ BeginClose \/ Close \/ ServerLost \/ Reconnected
         \/ (\E c \in Channels : Deliver(c)) \/ UNCHANGED vars
  PROVE  Places' /\ PoolStep
<1>1. UNCHANGED <<main, pub, pc>>
  BY DEF Connect, BeginClose, Close, ServerLost, Reconnected, Deliver, vars, brokerVars,
         producerVars, consumerVars
<1>2. Places' /\ NobodyMoves
  BY <1>1 DEF Places, NobodyMoves, Holds
<1>3. PoolStep
  <2>1. CASE Connect
    BY <1>2, <2>1 DEF Connect, InitConnection, PoolStep
  <2>2. CASE Close
    BY <1>2, <2>2 DEF Close, CloseConnection, NullConnection, Die, PoolStep
  <2>3. CASE BeginClose \/ ServerLost \/ Reconnected
    BY <1>2, <2>3 DEF BeginClose, ServerLost, LoseLink, Reconnected, Reconnect, ReconnectFails,
                      PoolStep
  <2>4. CASE (\E c \in Channels : Deliver(c)) \/ UNCHANGED vars
    BY <1>2, <2>4 DEF Deliver, vars, channelVars, poolVars, PoolStep
  <2> QED
    BY <2>1, <2>2, <2>3, <2>4
<1> QED
  BY <1>2, <1>3

LEMMA PlacesInit == Init => Places
BY DEF Init, Places, MainState, PcState

LEMMA PlacesStep ==
  ASSUME Places, [Next]_vars
  PROVE  Places' /\ PoolStep
BY SetupSteps, ProducerSteps, ConsumerSteps, OtherSteps DEF Next

-----------------------------------------------------------------------------
(* Every channel is once in the queue, or in one guard; what the           *)
(* constructor opens next is none of them.                                 *)
Shape ==
  /\ pool \in Seq(Channels) /\ guard \in [Clients -> Channels \cup {NoChannel}]
  /\ opened \subseteq Channels /\ next \in Nat \ {0}

OneOwner ==
  /\ Distinct(pool) /\ Range(pool) \subseteq opened
  /\ \A x \in Clients : guard[x] # NoChannel => guard[x] \in opened \ Range(pool)
  /\ \A x, y \in Clients : guard[x] = guard[y] /\ guard[x] # NoChannel => x = y
  /\ \A c \in opened : c < next

Uses == \A x \in Clients : guard[x] # NoChannel <=> Holds(x)

PoolInv == Places /\ Shape /\ OneOwner /\ Uses

LEMMA NoChannelIsNone == NoChannel \notin Channels
BY ChannelAssumption DEF Channels

LEMMA PoolInit == Init => PoolInv /\ Loans!LoanInit
<1> SUFFICES ASSUME Init PROVE PoolInv /\ Loans!LoanInit
  OBVIOUS
<1>1. /\ pool = <<>> /\ opened = {} /\ next = 1
      /\ guard = [x \in Clients |-> NoChannel]
  BY DEF Init, ChannelsInit
<1>2. Range(pool) = {} /\ Distinct(pool) /\ pool \in Seq(Channels)
  BY <1>1 DEF Range, Distinct
<1>3. Shape /\ OneOwner
  BY <1>1, <1>2 DEF Shape, OneOwner
<1>4. \A x \in Clients : ~Holds(x)
  BY ClientAssumption DEF Init, Holds
<1>5. [x \in Clients |-> {guard[x]} \ {NoChannel}] = [x \in Clients |-> {}]
  BY <1>1
<1> QED
  BY <1>1, <1>2, <1>3, <1>4, <1>5, PlacesInit DEF PoolInv, Uses, Loans!LoanInit

LEMMA TakeKeeps ==
  ASSUME PoolInv, NEW x \in Clients, Takes(x)
  PROVE  Shape' /\ OneOwner' /\ Uses' /\ Loans!LoanNext
<1>1. /\ pool \in Seq(Channels) /\ pool # <<>> /\ pool' = Tail(pool)
      /\ guard' = [guard EXCEPT ![x] = Head(pool)]
      /\ guard \in [Clients -> Channels \cup {NoChannel}]
      /\ opened' = opened /\ next' = next
  BY DEF PoolInv, Shape, Takes, Take
<1>2. PICK c \in Channels : c = Head(pool)
  BY <1>1, TailRange
<1>3. /\ pool' \in Seq(Channels) /\ Range(pool) = Range(pool') \cup {c}
      /\ Distinct(pool') /\ c \notin Range(pool')
  BY <1>1, <1>2, TailRange DEF PoolInv, OneOwner
<1>4. guard[x] = NoChannel /\ guard'[x] = c /\ c # NoChannel
      /\ \A y \in Clients \ {x} : guard'[y] = guard[y]
  BY <1>1, <1>2, NoChannelIsNone DEF PoolInv, Uses, Takes
<1>5. c \in opened /\ \A y \in Clients : guard[y] # c
  BY <1>2, <1>3, <1>4 DEF PoolInv, OneOwner
<1>6. Shape'
  BY <1>1, <1>2, <1>3 DEF PoolInv, Shape
<1>7. OneOwner'
  <2>1. \A y \in Clients : guard'[y] # NoChannel => guard'[y] \in opened \ Range(pool')
    BY <1>3, <1>4, <1>5 DEF PoolInv, OneOwner
  <2>2. \A y, z \in Clients : guard'[y] = guard'[z] /\ guard'[y] # NoChannel => y = z
    BY <1>4, <1>5 DEF PoolInv, OneOwner
  <2> QED
    BY <1>1, <1>3, <2>1, <2>2 DEF PoolInv, OneOwner
<1>8. Uses'
  BY <1>4 DEF PoolInv, Uses, Takes, OthersHold
<1>9. Loans!Lend(x, c)
  <2> DEFINE loans == [y \in Clients |-> {guard[y]} \ {NoChannel}]
  <2>1. loans[x] = {} /\ loans \in [Clients -> SUBSET (Channels \cup {NoChannel})]
    BY <1>1, <1>4
  <2>2. loans' = [y \in Clients |-> {guard'[y]} \ {NoChannel}]
    OBVIOUS
  <2>3. loans' = [loans EXCEPT ![x] = @ \cup {c}]
    BY <1>4, <2>1, <2>2
  <2>4. c \in Range(pool) /\ Range(pool)' = Range(pool) \ {c}
    BY <1>3 DEF Range
  <2> QED
    BY <1>1, <2>3, <2>4 DEF Loans!Lend
<1> QED
  BY <1>2, <1>6, <1>7, <1>8, <1>9 DEF Loans!LoanNext

LEMMA ReleaseKeeps ==
  ASSUME PoolInv, NEW x \in Clients, Releases(x)
  PROVE  Shape' /\ OneOwner' /\ Uses' /\ Loans!LoanNext
<1>1. /\ pool \in Seq(Channels) /\ pool' = GiveBack(guard[x])
      /\ guard' = [guard EXCEPT ![x] = NoChannel]
      /\ guard \in [Clients -> Channels \cup {NoChannel}]
      /\ opened' = opened /\ next' = next
  BY DEF PoolInv, Shape, Releases, Release
<1>2. PICK c \in Channels : c = guard[x]
  BY <1>1 DEF PoolInv, Uses, Releases
<1>3. c # NoChannel /\ pool' = Append(pool, c) /\ c \in opened \ Range(pool)
  BY <1>1, <1>2, NoChannelIsNone DEF GiveBack, PoolInv, OneOwner
<1>4. /\ pool' \in Seq(Channels) /\ Range(pool') = Range(pool) \cup {c} /\ Distinct(pool')
  BY <1>1, <1>2, <1>3, AppendRange DEF PoolInv, OneOwner
<1>5. guard'[x] = NoChannel /\ \A y \in Clients \ {x} : guard'[y] = guard[y] /\ guard[y] # c
  BY <1>1, <1>2, <1>3 DEF PoolInv, OneOwner
<1>6. Shape'
  BY <1>1, <1>4 DEF PoolInv, Shape
<1>7. OneOwner'
  <2>1. \A y \in Clients : guard'[y] # NoChannel => guard'[y] \in opened \ Range(pool')
    BY <1>4, <1>5 DEF PoolInv, OneOwner
  <2>2. \A y, z \in Clients : guard'[y] = guard'[z] /\ guard'[y] # NoChannel => y = z
    BY <1>5 DEF PoolInv, OneOwner
  <2> QED
    BY <1>1, <1>3, <1>4, <2>1, <2>2 DEF PoolInv, OneOwner
<1>8. Uses'
  BY <1>5 DEF PoolInv, Uses, Releases, OthersHold
<1>9. Loans!GiveBack(x, c)
  <2> DEFINE loans == [y \in Clients |-> {guard[y]} \ {NoChannel}]
  <2>1. loans[x] = {c} /\ loans \in [Clients -> SUBSET (Channels \cup {NoChannel})]
    BY <1>1, <1>2, <1>3
  <2>2. loans' = [y \in Clients |-> {guard'[y]} \ {NoChannel}]
    OBVIOUS
  <2>3. loans' = [loans EXCEPT ![x] = @ \ {c}]
    BY <1>5, <2>1, <2>2
  <2>4. Range(pool)' = Range(pool) \cup {c}
    BY <1>4 DEF Range
  <2> QED
    BY <1>1, <2>1, <2>3, <2>4 DEF Loans!GiveBack
<1> QED
  BY <1>2, <1>6, <1>7, <1>8, <1>9 DEF Loans!LoanNext

LEMMA OpenKeeps ==
  ASSUME PoolInv, OpenChannel, NobodyMoves
  PROVE  Shape' /\ OneOwner' /\ Uses' /\ [Loans!LoanNext]_(Loans!loanVars)
<1>1. /\ next \in Channels /\ next' = next + 1 /\ next' \in Nat \ {0} /\ UNCHANGED guard
      /\ pool \in Seq(Channels) /\ guard \in [Clients -> Channels \cup {NoChannel}]
      /\ opened \subseteq Channels
  BY ChannelAssumption DEF PoolInv, Shape, OpenChannel, Channels
<1>2. Uses'
  BY <1>1 DEF PoolInv, Uses, NobodyMoves
<1>3. next \notin opened /\ (\A c \in opened : c < next')
  BY <1>1 DEF PoolInv, OneOwner, Channels
<1>4. CASE UNCHANGED <<opened, pool>>
  BY <1>1, <1>2, <1>3, <1>4 DEF PoolInv, Shape, OneOwner, Loans!loanVars
<1>5. CASE opened' = opened \cup {next} /\ pool' = Append(pool, next)
  <2>1. next \notin Range(pool) /\ \A x \in Clients : guard[x] # next
    BY <1>1, <1>3, NoChannelIsNone DEF PoolInv, OneOwner
  <2>2. /\ pool' \in Seq(Channels) /\ Range(pool') = Range(pool) \cup {next}
        /\ Distinct(pool')
    BY <1>1, <1>5, <2>1, AppendRange DEF PoolInv, OneOwner
  <2>3. Shape'
    BY <1>1, <1>5, <2>2 DEF Shape
  <2>4. next < next'
    BY <1>1 DEF Channels
  <2>5. OneOwner'
    BY <1>1, <1>3, <1>5, <2>1, <2>2, <2>4 DEF PoolInv, OneOwner
  <2>6. Loans!OpenIdle({next})
    BY <1>1, <1>3, <1>5, <2>2 DEF Loans!OpenIdle, Range
  <2> QED
    BY <1>1, <1>2, <2>3, <2>5, <2>6 DEF Loans!LoanNext
<1> QED
  BY <1>4, <1>5 DEF OpenChannel

LEMMA CloseKeeps ==
  ASSUME PoolInv, CloseChannel, NobodyMoves
  PROVE  Shape' /\ OneOwner' /\ Uses' /\ Loans!LoanNext
<1>1. /\ pool \in Seq(Channels) /\ pool # <<>> /\ pool' = Tail(pool)
      /\ guard' = guard /\ next' = next /\ opened' = opened \ {Head(pool)}
      /\ guard \in [Clients -> Channels \cup {NoChannel}]
  BY DEF PoolInv, Shape, CloseChannel
<1>2. PICK c \in Channels : c = Head(pool)
  BY <1>1, TailRange
<1>3. /\ pool' \in Seq(Channels) /\ Range(pool) = Range(pool') \cup {c}
      /\ Distinct(pool') /\ c \notin Range(pool')
  BY <1>1, <1>2, TailRange DEF PoolInv, OneOwner
<1>4. Shape'
  BY <1>1, <1>3 DEF PoolInv, Shape
<1>5. OneOwner'
  BY <1>1, <1>2, <1>3 DEF PoolInv, OneOwner
<1>6. Uses'
  BY <1>1 DEF PoolInv, Uses, NobodyMoves
<1>7. Loans!CloseIdle({c})
  BY <1>1, <1>2, <1>3 DEF Loans!CloseIdle, Range
<1> QED
  BY <1>2, <1>4, <1>5, <1>6, <1>7 DEF Loans!LoanNext

LEMMA StayKeeps ==
  ASSUME PoolInv, UNCHANGED poolVars, NobodyMoves
  PROVE  Shape' /\ OneOwner' /\ Uses' /\ UNCHANGED Loans!loanVars
BY DEF PoolInv, Shape, OneOwner, Uses, NobodyMoves, poolVars, Loans!loanVars

LEMMA PoolKeeps ==
  ASSUME PoolInv, [Next]_vars
  PROVE  PoolInv' /\ [Loans!LoanNext]_(Loans!loanVars)
<1>1. Places' /\ PoolStep
  BY PlacesStep DEF PoolInv
<1>2. Shape' /\ OneOwner' /\ Uses' /\ [Loans!LoanNext]_(Loans!loanVars)
  BY <1>1, TakeKeeps, ReleaseKeeps, OpenKeeps, CloseKeeps, StayKeeps DEF PoolStep
<1> QED
  BY <1>1, <1>2 DEF PoolInv

(* The guard of a client is full exactly while its code is in the scope of *)
(* the guard, and no two guards ever have the same channel.                *)
(* (ChannelGuard; Broker::setup(), Producer::send(), consume_loop().)      *)
THEOREM GuardsOwn == Spec => []PoolInv
<1>1. PoolInv /\ [Next]_vars => PoolInv'
  BY PoolKeeps
<1> QED
  BY PoolInit, <1>1, PTL DEF Spec

(* The pool of channels lends each channel to one guard at a time and gets *)
(* every one back, whatever became of it: each step of the client is a     *)
(* step of the loan of channels, or none.  (ChannelPool, ChannelGuard.)    *)
THEOREM ImplementsLoans == Spec => ImplementsLoanPool
<1>1. PoolInv /\ [Next]_vars => PoolInv' /\ [Loans!LoanNext]_(Loans!loanVars)
  BY PoolKeeps
<1> QED
  BY PoolInit, <1>1, PTL DEF Spec, ImplementsLoanPool, Loans!LoanSpec

-----------------------------------------------------------------------------
(* What the topology is at each stage of setup() and teardown(), as long   *)
(* as no operation that counts was refused.                                *)
Stages ==
  /\ topo \subseteq {"exchange", "queue", "binding"}
  /\ main \in {"start", "exchange"} => topo = {}
  /\ allOk /\ main = "queue" => topo = {"exchange"}
  /\ allOk /\ main = "bind" => topo = {"exchange", "queue"}
  /\ allOk /\ main \in {"end setup", "set up"} => topo = {"exchange", "queue", "binding"}
  /\ allOk /\ main = "delete exchange" => topo \subseteq {"exchange"}
  /\ allOk /\ main \in {"end teardown", "torn down"} => topo = {}

LEMMA StagesStep ==
  ASSUME Stages, [Next]_vars
  PROVE  Stages'
<1> USE DEF Stages
<1>1. CASE BeginSetup \/ BeginTeardown \/ EndOperation
  <2>1. UNCHANGED topo
    BY <1>1 DEF BeginSetup, BeginTeardown, EndOperation
  <2>2. CASE BeginSetup
    BY <2>1, <2>2 DEF BeginSetup
  <2>3. CASE BeginTeardown
    BY <2>1, <2>3 DEF BeginTeardown
  <2>4. CASE EndOperation
    BY <2>1, <2>4 DEF EndOperation
  <2> QED
    BY <1>1, <2>2, <2>3, <2>4
<1>2. CASE DeclareExchange
  <2>1. CASE topo' = topo \cup {"exchange"} /\ main' = "queue"
    BY <1>2, <2>1 DEF DeclareExchange, Operate
  <2>2. CASE main' = "queue" /\ ~allOk' /\ UNCHANGED topo
    BY <2>2
  <2> QED
    BY <1>2, <2>1, <2>2 DEF DeclareExchange, Operate
<1>3. CASE DeclareQueue
  <2>1. CASE topo' = topo \cup {"queue"} /\ main' = "bind" /\ UNCHANGED allOk
    BY <1>3, <2>1 DEF DeclareQueue, Operate
  <2>2. CASE main' = "end setup" /\ ~allOk' /\ UNCHANGED topo
    BY <2>2
  <2> QED
    BY <1>3, <2>1, <2>2 DEF DeclareQueue, Operate
<1>4. CASE BindQueue
  <2>1. CASE topo' = topo \cup {"binding"} /\ main' = "end setup" /\ UNCHANGED allOk
    BY <1>4, <2>1 DEF BindQueue, Operate
  <2>2. CASE main' = "end setup" /\ ~allOk' /\ UNCHANGED topo
    BY <2>2
  <2> QED
    BY <1>4, <2>1, <2>2 DEF BindQueue, Operate
<1>5. CASE UnbindQueue
  BY <1>5 DEF UnbindQueue, Operate
<1>6. CASE DeleteQueue
  BY <1>6 DEF DeleteQueue
<1>7. CASE DeleteExchange
  <2>1. CASE topo' = topo \ {"exchange"} /\ main' = "end teardown" /\ UNCHANGED allOk
    BY <1>7, <2>1 DEF DeleteExchange, Operate
  <2>2. CASE main' = "end teardown" /\ ~allOk' /\ UNCHANGED topo
    BY <2>2
  <2> QED
    BY <1>7, <2>1, <2>2 DEF DeleteExchange, Operate
<1>11. ASSUME UNCHANGED <<main, allOk, topo>> PROVE Stages'
  BY <1>11
<1>8. ASSUME NEW p \in Producers, Send(p) PROVE UNCHANGED <<main, allOk, topo>>
  BY <1>8 DEF Send, SendAcquire, Publish, brokerVars
<1>9. ASSUME NEW k \in Consumers, Start(k) \/ Stop(k) \/ Join(k) \/ Loop(k)
      PROVE  UNCHANGED <<main, allOk, topo>>
  BY <1>9 DEF Start, Stop, Join, Loop, LoopAcquire, BasicConsume, BeginRead, Read,
              ReadNothing, Handle, Ack, Cancel, brokerVars
<1>10. ASSUME \/ Connect \/ BeginClose \/ Close \/ ServerLost \/ Reconnected
              \/ (\E c \in Channels : Deliver(c)) \/ UNCHANGED vars
       PROVE  UNCHANGED <<main, allOk, topo>>
  BY <1>10 DEF Connect, BeginClose, Close, ServerLost, Reconnected, Deliver, vars, brokerVars
<1> QED
  BY <1>1, <1>2, <1>3, <1>4, <1>5, <1>6, <1>7, <1>8, <1>9, <1>10, <1>11
  DEF Next, Setup, Teardown

(* A setup() that returned true has left the exchange, the queue and the   *)
(* binding, a teardown() that returned true has left nothing, whichever    *)
(* operation was refused and whenever the connection went.  (all_ok.)      *)
THEOREM TellsTruly == Spec => []ToldTruly
<1>1. Init => Stages
  BY DEF Init, Stages
<1>2. Stages /\ [Next]_vars => Stages'
  BY StagesStep
<1>3. Stages => ToldTruly
  BY DEF Stages, ToldTruly
<1> QED
  BY <1>1, <1>2, <1>3, PTL DEF Spec

-----------------------------------------------------------------------------
(* Where the messages are: those the server accepted, in the queue, on the *)
(* wire, unacknowledged, in an envelope, handled or forgotten.             *)
Accepted == 1..accepted
Deliveries == [ch : Channels, tag : Nat, msg : Accepted]

Reads == {"handle", "ack"}
Loops == {"loop", "read", "handle", "ack"}

Contents ==
  /\ accepted \in Nat
  /\ queue \in Seq(Accepted) /\ wire \in Seq(Deliveries)
  /\ unacked \in [Channels -> SUBSET Deliveries]
  /\ tags \in [Channels -> Nat] /\ sub \in [Channels -> BOOLEAN]
  /\ envelope \in [Consumers -> Deliveries \cup {NoDelivery}]
  /\ \A k \in Consumers : pc[k] \in Reads => envelope[k] \in Deliveries
  /\ handled \subseteq Accepted /\ gone \subseteq Accepted
  /\ subs \in Nat

(* The deliveries somebody may still acknowledge, or read.                 *)
OnTheWay(d) ==
  \/ d \in Range(wire)
  \/ \E c \in Channels : d \in unacked[c]
  \/ \E k \in Consumers : pc[k] \in Reads /\ d = envelope[k]

(* A delivery tag names one message of its channel, now and later.         *)
Tagged ==
  /\ \A d \in Deliveries : OnTheWay(d) => d.tag <= tags[d.ch]
  /\ \A d, e \in Deliveries :
        OnTheWay(d) /\ OnTheWay(e) /\ d.ch = e.ch /\ d.tag = e.tag => d.msg = e.msg
  /\ \A c \in Channels : \A d \in unacked[c] : d.ch = c

(* The handler has run by the time the message is acknowledged.            *)
HandledFirst == \A k \in Consumers : pc[k] = "ack" => envelope[k].msg \in handled

(* Up to the first subscription nothing is delivered, and until a second   *)
(* one everything delivered is for the channel of the only consumer.       *)
OneReader ==
  /\ subs = 0 => /\ \A d \in Deliveries : ~OnTheWay(d)
                 /\ \A c \in Channels : ~sub[c]
                 /\ \A k \in Consumers : pc[k] \notin Loops
  /\ subs <= 1 => \A k \in Consumers : pc[k] \in Loops =>
        /\ \A j \in Consumers : pc[j] \in Loops => j = k
        /\ \A c \in Channels : sub[c] => c = guard[k]
        /\ \A d \in Deliveries : OnTheWay(d) => d.ch = guard[k]

Traced == Tagged /\ HandledFirst /\ OneReader /\ NoMessageLost

FlowInv == PoolInv /\ Contents /\ Traced

(* What most steps do to the messages: no new delivery, no new reader.     *)
Narrows ==
  /\ UNCHANGED <<accepted, tags, handled, gone, subs>>
  /\ queue' \in Seq(Accepted) /\ wire' \in {wire, <<>>}
  /\ unacked' \in [Channels -> SUBSET Deliveries] /\ sub' \in [Channels -> BOOLEAN]
  /\ \A c \in Channels : unacked'[c] \subseteq unacked[c] /\ (sub'[c] => sub[c])
  /\ envelope' \in [Consumers -> Deliveries \cup {NoDelivery}]
  /\ \A k \in Consumers : pc'[k] \in Loops => pc[k] \in Loops /\ guard'[k] = guard[k]
  /\ \A k \in Consumers : pc'[k] \in Reads => pc'[k] = pc[k] /\ envelope'[k] = envelope[k]

LEMMA RequeueTypes ==
  ASSUME Contents, NEW C \in SUBSET Channels, Requeue(C)
  PROVE  /\ queue' \in Seq(Accepted)
         /\ unacked' \in [Channels -> SUBSET Deliveries] /\ sub' \in [Channels -> BOOLEAN]
         /\ \A c \in Channels : unacked'[c] \subseteq unacked[c] /\ (sub'[c] => sub[c])
<1> DEFINE D == UNION {unacked[c] : c \in C}
           M == {d.msg : d \in D}
<1>1. D \subseteq Deliveries
  BY DEF Contents
<1>2. M \subseteq Accepted
  BY <1>1 DEF Deliveries
<1>3. IsFiniteSet(Accepted)
  BY FS_Interval DEF Contents, Accepted
<1>4. Cardinality(M) \in Nat
  BY <1>2, <1>3, FS_Subset, FS_CardinalityType
<1>5. PICK q \in [1..Cardinality(M) -> M] : queue' = q \o queue
  BY DEF Requeue, Requeued
<1>6. q \in Seq(Accepted)
  <2>1. q \in [1..Cardinality(M) -> Accepted]
    BY <1>2, <1>5
  <2> QED
    BY <1>4, <2>1, SeqDef
<1>7. queue' \in Seq(Accepted)
  BY <1>5, <1>6, ConcatProperties DEF Contents
<1> QED
  BY <1>7 DEF Requeue, Contents

LEMMA NarrowsKeeps ==
  ASSUME FlowInv, Narrows
  PROVE  Contents' /\ Traced'
<1>1. Deliveries' = Deliveries /\ Accepted' = Accepted
  BY DEF Narrows, Accepted, Deliveries
<1>2. wire' \in Seq(Deliveries) /\ Range(wire') \subseteq Range(wire)
  <2>1. CASE wire' = wire
    BY <2>1 DEF FlowInv, Contents
  <2>2. CASE wire' = <<>>
    BY <2>2 DEF Range
  <2> QED
    BY <2>1, <2>2 DEF Narrows
<1>3. Contents'
  <2>1. \A k \in Consumers : pc'[k] \in Reads => envelope'[k] \in Deliveries
    BY DEF FlowInv, Contents, Narrows
  <2> QED
    BY <1>1, <1>2, <2>1 DEF FlowInv, Contents, Narrows
<1>4. ASSUME NEW d, OnTheWay(d)' PROVE OnTheWay(d)
  BY <1>2, <1>4 DEF OnTheWay, Narrows
<1>5. Tagged'
  <2>1. \A d \in Deliveries : OnTheWay(d)' => d.tag <= tags[d.ch]
    BY <1>4 DEF FlowInv, Traced, Tagged
  <2>2. \A d, e \in Deliveries :
          OnTheWay(d)' /\ OnTheWay(e)' /\ d.ch = e.ch /\ d.tag = e.tag => d.msg = e.msg
    BY <1>4 DEF FlowInv, Traced, Tagged
  <2>3. \A c \in Channels : \A d \in unacked'[c] : d.ch = c
    BY DEF FlowInv, Traced, Tagged, Narrows
  <2> QED
    BY <1>1, <2>1, <2>2, <2>3 DEF Tagged, Narrows
<1>6. HandledFirst' /\ NoMessageLost'
  BY DEF FlowInv, Traced, HandledFirst, NoMessageLost, Narrows, Reads
<1>7. OneReader'
  <2>1. ASSUME subs = 0
        PROVE  /\ \A d \in Deliveries : ~OnTheWay(d)'
               /\ \A c \in Channels : ~sub'[c]
               /\ \A k \in Consumers : pc'[k] \notin Loops
    BY <1>4, <2>1 DEF FlowInv, Traced, OneReader, Narrows
  <2>2. ASSUME subs <= 1, NEW k \in Consumers, pc'[k] \in Loops
        PROVE  /\ \A j \in Consumers : pc'[j] \in Loops => j = k
               /\ \A c \in Channels : sub'[c] => c = guard'[k]
               /\ \A d \in Deliveries : OnTheWay(d)' => d.ch = guard'[k]
    BY <1>4, <2>2 DEF FlowInv, Traced, OneReader, Narrows
  <2> QED
    BY <1>1, <2>1, <2>2 DEF OneReader, Narrows
<1> QED
  BY <1>3, <1>5, <1>6, <1>7 DEF Traced

(* The variables of a narrowing step that Requeue and the others write.    *)
LEMMA NarrowsBy ==
  ASSUME FlowInv,
         UNCHANGED <<accepted, tags, handled, gone, subs, pc, envelope>>,
         wire' \in {wire, <<>>},
         \/ UNCHANGED <<queue, unacked, sub>>
         \/ \E C \in SUBSET Channels : Requeue(C),
         \A k \in Consumers : pc[k] \in Loops => guard'[k] = guard[k]
  PROVE  Narrows
<1>1. /\ queue' \in Seq(Accepted)
      /\ unacked' \in [Channels -> SUBSET Deliveries] /\ sub' \in [Channels -> BOOLEAN]
      /\ \A c \in Channels : unacked'[c] \subseteq unacked[c] /\ (sub'[c] => sub[c])
  BY RequeueTypes DEF FlowInv, Contents
<1> QED
  BY <1>1 DEF Narrows, FlowInv, Contents

LEMMA SetupNarrows ==
  ASSUME FlowInv, Setup \/ BeginTeardown \/ Teardown \/ EndOperation
  PROVE  Narrows
<1>1. /\ UNCHANGED <<accepted, tags, handled, gone, subs, pc, envelope>>
      /\ wire' = wire
  BY DEF Setup, Teardown, BeginSetup, DeclareExchange, DeclareQueue, BindQueue, BeginTeardown,
         UnbindQueue, DeleteQueue, DeleteExchange, EndOperation, Operate, producerVars,
         consumerVars, serverVars
<1>2. \A k \in Consumers : guard'[k] = guard[k]
  <2>1. \A k \in Consumers : k # Main
    BY ClientAssumption
  <2>2. guard' = guard \/ \E c : guard' = [guard EXCEPT ![Main] = c]
    BY DEF Setup, Teardown, BeginSetup, DeclareExchange, DeclareQueue, BindQueue,
           BeginTeardown, UnbindQueue, DeleteQueue, DeleteExchange, EndOperation, Operate,
           poolVars, Take, Release
  <2> QED
    BY <2>1, <2>2, ClientAssumption DEF FlowInv, PoolInv, Shape
<1>3. ASSUME NEW c \in Channels, Fails(c) PROVE \E C \in SUBSET Channels : Requeue(C)
  BY <1>3 DEF Fails
<1>4. main \notin {"start", "set up", "torn down"} => guard[Main] \in Channels
  BY ClientAssumption DEF FlowInv, PoolInv, Shape, Uses, Holds
<1>5. CASE BeginSetup \/ BeginTeardown \/ EndOperation
  BY <1>1, <1>2, <1>5, NarrowsBy DEF BeginSetup, BeginTeardown, EndOperation, serverVars
<1>6. ASSUME NEW from, NEW to, NEW skip, NEW things, NEW counts,
             Operate(from, to, skip, things, counts), main \notin {"start", "set up", "torn down"}
      PROVE  Narrows
  <2>1. UNCHANGED <<queue, unacked, sub>> \/ \E C \in SUBSET Channels : Requeue(C)
    BY <1>3, <1>4, <1>6 DEF Operate
  <2> QED
    BY <1>1, <1>2, <2>1, NarrowsBy
<1>7. CASE DeleteQueue
  <2>1. CASE \E C \in SUBSET Channels : Requeue(C)
    BY <1>1, <1>2, <2>1, NarrowsBy
  <2>2. CASE /\ queue' = <<>>
             /\ unacked' = [c \in Channels |-> {}]
             /\ sub' = [c \in Channels |-> FALSE]
    <3>1. /\ queue' \in Seq(Accepted)
          /\ unacked' \in [Channels -> SUBSET Deliveries] /\ sub' \in [Channels -> BOOLEAN]
          /\ \A c \in Channels : unacked'[c] \subseteq unacked[c] /\ (sub'[c] => sub[c])
      BY <2>2
    <3> QED
      BY <1>1, <1>2, <3>1 DEF Narrows, FlowInv, Contents
  <2> QED
    BY <1>3, <1>4, <1>7, <2>1, <2>2 DEF DeleteQueue
<1>8. CASE DeclareExchange \/ DeclareQueue \/ BindQueue
  BY <1>6, <1>8 DEF DeclareExchange, DeclareQueue, BindQueue, Operate
<1>9. CASE UnbindQueue \/ DeleteExchange
  BY <1>6, <1>9 DEF UnbindQueue, DeleteExchange, Operate
<1> QED
  BY <1>5, <1>7, <1>8, <1>9 DEF Setup, Teardown

LEMMA OtherNarrows ==
  ASSUME FlowInv, \/ Connect \/ BeginClose \/ Close \/ ServerLost \/ Reconnected
                  \/ UNCHANGED vars
  PROVE  Narrows
<1>1. /\ UNCHANGED <<accepted, tags, handled, gone, subs, pc, envelope>>
      /\ wire' \in {wire, <<>>}
  BY DEF Connect, BeginClose, Close, ServerLost, Reconnected, vars, serverVars, producerVars,
         consumerVars
<1>2. guard' = guard
  BY DEF Connect, InitConnection, OpenChannel, BeginClose, Close, CloseChannel,
         CloseConnection, NullConnection, Die, ServerLost, LoseLink, Reconnected, Reconnect,
         ReconnectFails, vars, channelVars, poolVars
<1>3. UNCHANGED <<queue, unacked, sub>> \/ \E C \in SUBSET Channels : Requeue(C)
  <2>1. CASE Close
    <3>1. CloseChannel => {Head(pool)} \in SUBSET Channels
      BY TailRange DEF CloseChannel, FlowInv, PoolInv, Shape
    <3> QED
      BY <2>1, <3>1 DEF Close
  <2>2. CASE ServerLost
    BY <2>2 DEF ServerLost
  <2>3. CASE Connect \/ BeginClose \/ Reconnected \/ UNCHANGED vars
    BY <2>3 DEF Connect, BeginClose, Reconnected, vars, serverVars
  <2> QED
    BY <2>1, <2>2, <2>3
<1> QED
  BY <1>1, <1>2, <1>3, NarrowsBy

LEMMA ConsumerNarrows ==
  ASSUME FlowInv, NEW k \in Consumers,
         \/ Start(k) \/ Stop(k) \/ Join(k) \/ LoopAcquire(k) \/ BeginRead(k)
         \/ ReadNothing(k) \/ Cancel(k)
         \/ BasicConsume(k) /\ subs' = subs
         \/ Handle(k) /\ UNCHANGED pc
         \/ Ack(k) /\ gone' = gone
  PROVE  Narrows
<1> DEFINE Shrinks ==
      /\ queue' \in Seq(Accepted)
      /\ unacked' \in [Channels -> SUBSET Deliveries] /\ sub' \in [Channels -> BOOLEAN]
      /\ \A c \in Channels : unacked'[c] \subseteq unacked[c] /\ (sub'[c] => sub[c])
<1>1. /\ pc \in [Consumers -> PcState] /\ guard \in [Clients -> Channels \cup {NoChannel}]
      /\ Consumers \subseteq Clients
      /\ envelope \in [Consumers -> Deliveries \cup {NoDelivery}]
  BY ClientAssumption DEF FlowInv, PoolInv, Places, Shape, Contents
<1>2. pc[k] \in {"consume", "loop", "read", "handle", "ack"} => guard[k] \in Channels
  BY <1>1, ClientAssumption DEF FlowInv, PoolInv, Uses, Holds
<1>3. Shrinks \/ ~(\/ UNCHANGED <<queue, unacked, sub>>
                   \/ \E C \in SUBSET Channels : Requeue(C))
  BY RequeueTypes DEF FlowInv, Contents
<1>4. ASSUME NEW c \in Channels, Fails(c) PROVE Shrinks
  BY <1>3, <1>4 DEF Fails
<1>5. ASSUME Shrinks, UNCHANGED <<accepted, tags, handled, gone, subs>>,
             wire' \in {wire, <<>>},
             NEW v \in PcState \ Reads, pc' = [pc EXCEPT ![k] = v],
             v \in Loops => pc[k] \in Loops,
             \/ UNCHANGED guard
             \/ v \notin Loops /\ \E c : guard' = [guard EXCEPT ![k] = c],
             envelope' \in {envelope, [envelope EXCEPT ![k] = NoDelivery]}
      PROVE  Narrows
  <2>1. envelope' \in [Consumers -> Deliveries \cup {NoDelivery}]
    BY <1>1, <1>5
  <2>2. \A j \in Consumers : pc'[j] \in Loops => pc[j] \in Loops /\ guard'[j] = guard[j]
    BY <1>1, <1>5
  <2>3. \A j \in Consumers : pc'[j] \in Reads => pc'[j] = pc[j] /\ envelope'[j] = envelope[j]
    BY <1>1, <1>5
  <2> QED
    BY <1>5, <2>1, <2>2, <2>3 DEF Narrows
<1>6. ASSUME Die, Requeue(Channels), wire' = <<>>,
             UNCHANGED <<accepted, tags, handled, gone, subs, pc, envelope>>
      PROVE  Narrows
  BY <1>6, NarrowsBy DEF Die, poolVars
<1> USE DEF PcState, Reads, Loops
<1>7. CASE Start(k)
  <2>1. CASE pc[k] = "none" /\ pc' = [pc EXCEPT ![k] = "acquire"]
             /\ UNCHANGED <<channelVars, queue, unacked, sub, wire>>
    BY <1>3, <1>5, <1>7, <2>1 DEF Start, channelVars, poolVars, producerVars
  <2>2. CASE Die /\ Requeue(Channels) /\ wire' = <<>> /\ UNCHANGED pc
    BY <1>6, <1>7, <2>2 DEF Start, producerVars
  <2> QED
    BY <1>7, <2>1, <2>2 DEF Start
<1>8. CASE Stop(k)
  BY <1>8, NarrowsBy DEF Stop, channelVars, poolVars, serverVars, producerVars
<1>9. CASE Join(k)
  BY <1>3, <1>5, <1>9 DEF Join, channelVars, poolVars, serverVars, producerVars
<1>10. CASE LoopAcquire(k)
  BY <1>3, <1>5, <1>10 DEF LoopAcquire, Take, serverVars, producerVars
<1>11. CASE BeginRead(k) \/ ReadNothing(k)
  BY <1>3, <1>5, <1>11 DEF BeginRead, ReadNothing, poolVars, serverVars, producerVars
<1>12. CASE Cancel(k)
  <2>1. Shrinks
    <3>1. CASE sub' = [sub EXCEPT ![guard[k]] = FALSE] /\ UNCHANGED <<queue, unacked>>
      BY <3>1 DEF FlowInv, Contents
    <3> QED
      BY <1>2, <1>4, <1>12, <3>1 DEF Cancel
  <2> QED
    BY <1>5, <1>12, <2>1 DEF Cancel, Release, producerVars
<1>13. CASE BasicConsume(k) /\ subs' = subs
  <2>1. subs' # subs + 1
    BY <1>13 DEF FlowInv, Contents
  <2>2. pc' = [pc EXCEPT ![k] = "ended"] /\ Release(k)
    BY <1>13, <2>1 DEF BasicConsume
  <2>3. Shrinks
    BY <1>2, <1>3, <1>4, <1>13, <2>1 DEF BasicConsume
  <2> QED
    BY <1>5, <1>13, <2>2, <2>3 DEF BasicConsume, Release, producerVars
<1>14. CASE Handle(k) /\ UNCHANGED pc
  <2>1. pc' # [pc EXCEPT ![k] = IF NoAck THEN "loop" ELSE "ack"]
    BY <1>1, <1>14 DEF Handle
  <2> QED
    BY <1>6, <1>14, <2>1 DEF Handle, producerVars
<1>15. CASE Ack(k) /\ gone' = gone
  <2>1. Shrinks
    <3>1. CASE /\ \E D : unacked' = [unacked EXCEPT ![guard[k]] = @ \ D]
               /\ UNCHANGED <<queue, sub>>
      BY <3>1 DEF FlowInv, Contents
    <3> QED
      BY <1>2, <1>3, <1>15, <3>1 DEF Ack
  <2> QED
    BY <1>5, <1>15, <2>1 DEF Ack, poolVars, producerVars
<1> QED
  BY <1>7, <1>8, <1>9, <1>10, <1>11, <1>12, <1>13, <1>14, <1>15

(* A published message: one more is accepted, and nothing is delivered.    *)
LEMMA SendFlow ==
  ASSUME FlowInv, NEW p \in Producers, Send(p)
  PROVE  Contents' /\ Traced'
<1>1. /\ p \in Clients /\ p \notin Consumers /\ Consumers \subseteq Clients
      /\ guard \in [Clients -> Channels \cup {NoChannel}]
  BY ClientAssumption DEF FlowInv, PoolInv, Shape
<1>2. /\ UNCHANGED <<tags, handled, gone, subs, pc, envelope, sub, unacked, wire>>
      /\ \A k \in Consumers : guard'[k] = guard[k]
  BY <1>1 DEF Send, SendAcquire, Publish, Take, Release, TryAcquireEmpty, serverVars,
              consumerVars
<1>3. CASE UNCHANGED <<accepted, queue>>
  BY <1>2, <1>3, NarrowsBy, NarrowsKeeps
<1>4. CASE accepted' = accepted + 1 /\ queue' = Append(queue, accepted + 1)
  <2>1. accepted \in Nat /\ accepted' \in Nat /\ accepted + 1 \in Accepted'
        /\ Accepted \subseteq Accepted'
    BY <1>4 DEF FlowInv, Contents, Accepted
  <2>2. Deliveries \subseteq Deliveries'
    BY <2>1 DEF Deliveries
  <2>3. queue \in Seq(Accepted') /\ wire \in Seq(Deliveries')
    BY <2>1, <2>2, SeqDef DEF FlowInv, Contents
  <2>4. queue' \in Seq(Accepted')
    BY <1>4, <2>1, <2>3, AppendProperties
  <2>5. Contents'
    BY <1>2, <2>1, <2>2, <2>3, <2>4 DEF FlowInv, Contents
  <2>6. \A d : OnTheWay(d)' => OnTheWay(d) /\ d \in Deliveries
    BY <1>2 DEF OnTheWay, FlowInv, Contents, Range
  <2>7. Tagged'
    BY <1>2, <2>6 DEF FlowInv, Traced, Tagged
  <2>8. OneReader'
    BY <1>2, <2>6 DEF FlowInv, Traced, OneReader
  <2>9. HandledFirst' /\ NoMessageLost'
    BY <1>2 DEF FlowInv, Traced, HandledFirst, NoMessageLost
  <2> QED
    BY <2>5, <2>7, <2>8, <2>9 DEF Traced
<1> QED
  BY <1>2, <1>3, <1>4 DEF Send, SendAcquire, Publish, serverVars

(* A delivery takes the next tag of a channel that has a consumer.         *)
LEMMA DeliverFlow ==
  ASSUME FlowInv, NEW c \in Channels, Deliver(c)
  PROVE  Contents' /\ Traced'
<1> DEFINE d == [ch |-> c, tag |-> tags[c] + 1, msg |-> Head(queue)]
<1>1. /\ UNCHANGED <<guard, pc, envelope, handled, subs, sub, accepted>>
      /\ sub[c] /\ queue # <<>> /\ queue' = Tail(queue)
      /\ tags' = [tags EXCEPT ![c] = @ + 1] /\ wire' = Append(wire, d)
      /\ unacked' = IF NoAck THEN unacked ELSE [unacked EXCEPT ![c] = @ \union {d}]
      /\ gone' = IF NoAck THEN gone \union {d.msg} ELSE gone
  BY DEF Deliver, channelVars, producerVars, consumerVars
<1>2. Deliveries' = Deliveries /\ Accepted' = Accepted
  BY <1>1 DEF Accepted, Deliveries
<1>3. Head(queue) \in Accepted /\ queue' \in Seq(Accepted)
  BY <1>1, TailRange DEF FlowInv, Contents
<1>4. tags[c] \in Nat /\ tags' \in [Channels -> Nat] /\ tags'[c] = tags[c] + 1
      /\ \A e \in Channels : tags[e] <= tags'[e]
  BY <1>1 DEF FlowInv, Contents
<1>5. d \in Deliveries /\ d.ch = c /\ d.tag = tags[c] + 1
  BY <1>3, <1>4 DEF Deliveries
<1> HIDE DEF d
<1>6. wire' \in Seq(Deliveries) /\ Range(wire') = Range(wire) \cup {d}
  BY <1>1, <1>5, AppendRange DEF FlowInv, Contents
<1>7. unacked' \in [Channels -> SUBSET Deliveries]
  BY <1>1, <1>5 DEF FlowInv, Contents
<1>8. Contents'
  <2>1. gone' \subseteq Accepted
    BY <1>1, <1>3, <1>5 DEF FlowInv, Contents, Deliveries
  <2> QED
    BY <1>1, <1>2, <1>3, <1>4, <1>6, <1>7, <2>1 DEF FlowInv, Contents
<1>9. \A e : OnTheWay(e)' => OnTheWay(e) \/ e = d
  BY <1>1, <1>6 DEF OnTheWay, FlowInv, Contents
<1>10. \A e \in Deliveries : OnTheWay(e) => e.ch # c \/ e.tag < d.tag
  <2> SUFFICES ASSUME NEW e \in Deliveries, OnTheWay(e), e.ch = c PROVE e.tag < d.tag
    OBVIOUS
  <2>1. e.tag <= tags[c] /\ e.tag \in Nat
    BY DEF FlowInv, Traced, Tagged, Deliveries
  <2> QED
    BY <1>4, <1>5, <2>1
<1>11. Tagged'
  <2>1. \A e \in Deliveries : OnTheWay(e)' => e.tag <= tags'[e.ch]
    <3> SUFFICES ASSUME NEW e \in Deliveries, OnTheWay(e)' PROVE e.tag <= tags'[e.ch]
      OBVIOUS
    <3>1. CASE e = d
      BY <1>4, <1>5, <3>1
    <3>2. CASE e # d
      <4>1. e.tag <= tags[e.ch] /\ e.tag \in Nat /\ e.ch \in Channels
        BY <1>9, <3>2 DEF FlowInv, Traced, Tagged, Deliveries
      <4>2. tags[e.ch] <= tags'[e.ch] /\ tags[e.ch] \in Nat /\ tags'[e.ch] \in Nat
        BY <1>4, <4>1 DEF FlowInv, Contents
      <4> QED
        BY <4>1, <4>2
    <3> QED
      BY <3>1, <3>2
  <2>2. ASSUME NEW e \in Deliveries, NEW f \in Deliveries, OnTheWay(e)', OnTheWay(f)',
               e.ch = f.ch, e.tag = f.tag
        PROVE  e.msg = f.msg
    <3>1. CASE e = d \/ f = d
      <4>1. e.tag \in Nat /\ f.tag \in Nat
        BY DEF Deliveries
      <4> QED
        BY <1>5, <1>9, <1>10, <2>2, <3>1, <4>1
    <3>2. CASE e # d /\ f # d
      BY <1>9, <2>2, <3>2 DEF FlowInv, Traced, Tagged
    <3> QED
      BY <3>1, <3>2
  <2>3. \A e \in Channels : \A f \in unacked'[e] : f.ch = e
    BY <1>1, <1>5 DEF FlowInv, Contents, Traced, Tagged
  <2> QED
    BY <1>2, <2>1, <2>2, <2>3 DEF Tagged
<1>12. HandledFirst' /\ NoMessageLost'
  BY <1>1 DEF FlowInv, Traced, HandledFirst, NoMessageLost
<1>13. OneReader'
  <2>1. subs # 0
    BY <1>1 DEF FlowInv, Traced, OneReader
  <2>2. ASSUME subs <= 1, NEW k \in Consumers, pc[k] \in Loops
        PROVE  /\ \A j \in Consumers : pc[j] \in Loops => j = k
               /\ \A e \in Channels : sub[e] => e = guard[k]
               /\ \A e \in Deliveries : OnTheWay(e)' => e.ch = guard[k]
    BY <1>1, <1>5, <1>9, <2>2 DEF FlowInv, Traced, OneReader
  <2> QED
    BY <1>1, <1>2, <2>1, <2>2 DEF OneReader
<1> QED
  BY <1>8, <1>11, <1>12, <1>13 DEF Traced

(* A step of a consumer that changes no delivery but the one it holds.     *)
LEMMA ReadFlow ==
  ASSUME FlowInv, NEW k \in Consumers, Read(k)
  PROVE  Contents' /\ Traced'
<1>1. /\ UNCHANGED <<guard, handled, gone, subs, sub, accepted, tags, unacked, queue>>
      /\ pc[k] = "read" /\ pc' = [pc EXCEPT ![k] = "handle"]
      /\ wire # <<>> /\ wire' = Tail(wire)
      /\ envelope' = [envelope EXCEPT ![k] = Head(wire)]
  BY DEF Read, poolVars, producerVars
<1>2. Deliveries' = Deliveries /\ Accepted' = Accepted
  BY <1>1 DEF Accepted, Deliveries
<1>3. /\ pc \in [Consumers -> PcState]
      /\ envelope \in [Consumers -> Deliveries \cup {NoDelivery}]
  BY DEF FlowInv, PoolInv, Places, Contents
<1>4. /\ wire' \in Seq(Deliveries) /\ Head(wire) \in Deliveries
      /\ Range(wire) = Range(wire') \cup {Head(wire)}
  BY <1>1, TailRange DEF FlowInv, Contents
<1>5. /\ pc'[k] = "handle" /\ envelope'[k] = Head(wire)
      /\ \A j \in Consumers \ {k} : pc'[j] = pc[j] /\ envelope'[j] = envelope[j]
  BY <1>1, <1>3
<1>6. Contents'
  <2>1. envelope' \in [Consumers -> Deliveries \cup {NoDelivery}]
    BY <1>1, <1>3, <1>4
  <2>2. \A j \in Consumers : pc'[j] \in Reads => envelope'[j] \in Deliveries
    BY <1>4, <1>5 DEF FlowInv, Contents
  <2> QED
    BY <1>1, <1>2, <1>4, <2>1, <2>2 DEF FlowInv, Contents
<1>7. \A d : OnTheWay(d)' => OnTheWay(d)
  BY <1>1, <1>4, <1>5 DEF OnTheWay
<1>8. Tagged'
  BY <1>1, <1>2, <1>7 DEF FlowInv, Traced, Tagged
<1>9. HandledFirst' /\ NoMessageLost'
  BY <1>1, <1>5 DEF FlowInv, Traced, HandledFirst, NoMessageLost
<1>10. \A j \in Consumers : pc'[j] \in Loops <=> pc[j] \in Loops
  BY <1>1, <1>5 DEF Loops
<1>11. OneReader'
  BY <1>1, <1>2, <1>7, <1>10 DEF FlowInv, Traced, OneReader
<1> QED
  BY <1>6, <1>8, <1>9, <1>11 DEF Traced

(* The first subscription finds nothing delivered to anybody.              *)
LEMMA SubscribeFlow ==
  ASSUME FlowInv, NEW k \in Consumers, BasicConsume(k), subs' # subs
  PROVE  Contents' /\ Traced'
<1>1. /\ UNCHANGED <<guard, handled, gone, accepted, tags, unacked, queue, wire, envelope>>
      /\ pc[k] = "consume" /\ pc' = [pc EXCEPT ![k] = "loop"]
      /\ sub' = [sub EXCEPT ![guard[k]] = TRUE] /\ subs' = subs + 1
  BY DEF BasicConsume, producerVars
<1>2. Deliveries' = Deliveries /\ Accepted' = Accepted
  BY <1>1 DEF Accepted, Deliveries
<1>3. /\ pc \in [Consumers -> PcState] /\ subs \in Nat /\ sub \in [Channels -> BOOLEAN]
  BY DEF FlowInv, PoolInv, Places, Contents
<1>4. pc'[k] = "loop" /\ \A j \in Consumers \ {k} : pc'[j] = pc[j]
  BY <1>1, <1>3
<1>5. Contents'
  <2>1. sub' \in [Channels -> BOOLEAN]
    BY <1>1, <1>3
  <2>3. subs' \in Nat
    BY <1>1, <1>3
  <2>2. \A j \in Consumers : pc'[j] \in Reads => envelope'[j] \in Deliveries
    BY <1>1, <1>4 DEF FlowInv, Contents, Reads
  <2> QED
    BY <1>1, <1>2, <2>1, <2>2, <2>3 DEF FlowInv, Contents
<1>6. \A d : OnTheWay(d)' => OnTheWay(d)
  BY <1>1, <1>4 DEF OnTheWay, Reads
<1>7. Tagged'
  BY <1>1, <1>2, <1>6 DEF FlowInv, Traced, Tagged
<1>8. HandledFirst'
  BY <1>1, <1>4 DEF FlowInv, Traced, HandledFirst
<1>9. subs' # 0 /\ (subs' <= 1 => subs = 0)
  BY <1>1, <1>3
<1>10. NoMessageLost'
  BY <1>1, <1>9 DEF FlowInv, Traced, NoMessageLost
<1>11. ASSUME subs' <= 1
       PROVE  /\ \A d \in Deliveries : ~OnTheWay(d)'
              /\ \A c \in Channels : sub'[c] => c = guard[k]
              /\ \A j \in Consumers : pc'[j] \in Loops => j = k
  BY <1>1, <1>3, <1>4, <1>6, <1>9, <1>11 DEF FlowInv, Traced, OneReader
<1>12. OneReader'
  BY <1>1, <1>2, <1>9, <1>11 DEF OneReader
<1> QED
  BY <1>5, <1>7, <1>8, <1>10, <1>12 DEF Traced

LEMMA HandleFlow ==
  ASSUME FlowInv, NEW k \in Consumers, Handle(k), pc' # pc
  PROVE  Contents' /\ Traced'
<1>1. /\ UNCHANGED <<guard, gone, accepted, tags, unacked, queue, wire, envelope, sub, subs>>
      /\ pc[k] = "handle" /\ pc' = [pc EXCEPT ![k] = IF NoAck THEN "loop" ELSE "ack"]
      /\ handled' = handled \union {envelope[k].msg}
  BY DEF Handle, producerVars, channelVars, poolVars
<1>2. Deliveries' = Deliveries /\ Accepted' = Accepted
  BY <1>1 DEF Accepted, Deliveries
<1>3. pc \in [Consumers -> PcState] /\ envelope[k] \in Deliveries
  BY <1>1 DEF FlowInv, PoolInv, Places, Contents, Reads
<1>4. pc'[k] \in {"loop", "ack"} /\ \A j \in Consumers \ {k} : pc'[j] = pc[j]
  BY <1>1, <1>3
<1>5. \A j \in Consumers : /\ pc'[j] \in Reads => pc[j] \in Reads
                           /\ pc'[j] \in Loops <=> pc[j] \in Loops
  BY <1>1, <1>4 DEF Reads, Loops
<1>6. Contents'
  <2>1. handled' \subseteq Accepted
    BY <1>1, <1>3 DEF FlowInv, Contents, Deliveries
  <2> QED
    BY <1>1, <1>2, <1>5, <2>1 DEF FlowInv, Contents
<1>7. \A d : OnTheWay(d)' => OnTheWay(d)
  BY <1>1, <1>5 DEF OnTheWay
<1>8. Tagged'
  BY <1>1, <1>2, <1>7 DEF FlowInv, Traced, Tagged
<1>9. HandledFirst' /\ NoMessageLost'
  BY <1>1, <1>4 DEF FlowInv, Traced, HandledFirst, NoMessageLost
<1>10. OneReader'
  BY <1>1, <1>2, <1>5, <1>7 DEF FlowInv, Traced, OneReader
<1> QED
  BY <1>6, <1>8, <1>9, <1>10 DEF Traced

(* The acknowledged delivery is the one in the envelope: its channel is    *)
(* that of the only consumer, and the tag is its own.                      *)
LEMMA AckFlow ==
  ASSUME FlowInv, NEW k \in Consumers, Ack(k), gone' # gone
  PROVE  Contents' /\ Traced'
<1> DEFINE c == guard[k]
           D == {d \in unacked[c] : d.tag = envelope[k].tag}
<1>1. /\ UNCHANGED <<guard, handled, accepted, tags, queue, wire, sub, subs>>
      /\ pc[k] = "ack" /\ pc' = [pc EXCEPT ![k] = "loop"]
      /\ unacked' = [unacked EXCEPT ![c] = @ \ D]
      /\ gone' = gone \union {d.msg : d \in D}
      /\ envelope' = [envelope EXCEPT ![k] = NoDelivery]
  BY DEF Ack, poolVars, producerVars
<1>2. Deliveries' = Deliveries /\ Accepted' = Accepted
  BY <1>1 DEF Accepted, Deliveries
<1>3. /\ pc \in [Consumers -> PcState] /\ unacked \in [Channels -> SUBSET Deliveries]
      /\ envelope \in [Consumers -> Deliveries \cup {NoDelivery}]
      /\ envelope[k] \in Deliveries
  BY <1>1 DEF FlowInv, PoolInv, Places, Contents, Reads
<1>4. c \in Channels
  BY <1>1, ClientAssumption DEF FlowInv, PoolInv, Shape, Uses, Holds
<1>5. pc'[k] = "loop" /\ \A j \in Consumers \ {k} : pc'[j] = pc[j] /\ envelope'[j] = envelope[j]
  BY <1>1, <1>3
<1>6. D \subseteq Deliveries
  BY <1>3, <1>4
<1>7. \A e \in Channels : unacked'[e] \subseteq unacked[e]
  BY <1>1, <1>3
<1>8. \A d : OnTheWay(d)' => OnTheWay(d)
  BY <1>1, <1>5, <1>7 DEF OnTheWay, Reads
<1>9. Contents'
  <2>1. gone' \subseteq Accepted
    BY <1>1, <1>6 DEF FlowInv, Contents, Deliveries
  <2>2. unacked' \in [Channels -> SUBSET Deliveries]
    BY <1>1, <1>3
  <2>3. envelope' \in [Consumers -> Deliveries \cup {NoDelivery}]
    BY <1>1, <1>3
  <2>4. \A j \in Consumers : pc'[j] \in Reads => envelope'[j] \in Deliveries
    BY <1>5 DEF FlowInv, Contents, Reads
  <2> QED
    BY <1>1, <1>2, <2>1, <2>2, <2>3, <2>4 DEF FlowInv, Contents
<1>10. Tagged'
  BY <1>1, <1>2, <1>7, <1>8 DEF FlowInv, Traced, Tagged
<1>11. HandledFirst'
  BY <1>1, <1>5 DEF FlowInv, Traced, HandledFirst
<1>12. NoMessageLost'
  <2> SUFFICES ASSUME ~NoAck, subs <= 1, NEW d \in D PROVE d.msg \in handled
    BY <1>1 DEF FlowInv, Traced, NoMessageLost
  <2>1. OnTheWay(envelope[k]) /\ OnTheWay(d) /\ d \in Deliveries
    BY <1>1, <1>4, <1>6 DEF OnTheWay, Reads
  <2>2. envelope[k].ch = c /\ d.ch = c
    BY <1>1, <1>3, <1>4, <2>1 DEF FlowInv, Traced, OneReader, Tagged, Loops
  <2>3. d.msg = envelope[k].msg
    BY <1>3, <2>1, <2>2 DEF FlowInv, Traced, Tagged
  <2> QED
    BY <1>1, <2>3 DEF FlowInv, Traced, HandledFirst
<1>13. \A j \in Consumers : pc'[j] \in Loops <=> pc[j] \in Loops
  BY <1>1, <1>5 DEF Loops
<1>14. OneReader'
  BY <1>1, <1>2, <1>8, <1>13 DEF FlowInv, Traced, OneReader
<1> QED
  BY <1>9, <1>10, <1>11, <1>12, <1>14 DEF Traced

LEMMA FlowInit == Init => FlowInv
<1> SUFFICES ASSUME Init PROVE Contents /\ Traced
  BY PoolInit DEF FlowInv
<1>1. /\ queue = <<>> /\ wire = <<>> /\ accepted = 0 /\ subs = 0
      /\ sub = [c \in Channels |-> FALSE] /\ tags = [c \in Channels |-> 0]
      /\ unacked = [c \in Channels |-> {}]
      /\ pc = [k \in Consumers |-> "none"] /\ envelope = [k \in Consumers |-> NoDelivery]
      /\ handled = {} /\ gone = {}
  BY DEF Init
<1>2. Contents
  BY <1>1 DEF Contents, Reads
<1>3. \A d : ~OnTheWay(d)
  BY <1>1 DEF OnTheWay, Reads, Range
<1> QED
  BY <1>1, <1>2, <1>3 DEF Traced, Tagged, HandledFirst, OneReader, NoMessageLost, Loops

LEMMA FlowStep ==
  ASSUME FlowInv, [Next]_vars
  PROVE  FlowInv'
<1>1. PoolInv'
  BY PoolKeeps DEF FlowInv
<1>2. ASSUME NEW k \in Consumers, Start(k) \/ Stop(k) \/ Join(k) \/ Loop(k)
      PROVE  Contents' /\ Traced'
  BY <1>2, ConsumerNarrows, NarrowsKeeps, ReadFlow, SubscribeFlow, HandleFlow, AckFlow DEF Loop
<1>3. Contents' /\ Traced'
  BY <1>2, SetupNarrows, OtherNarrows, NarrowsKeeps, SendFlow, DeliverFlow DEF Next
<1> QED
  BY <1>1, <1>3 DEF FlowInv

(* With acknowledgements, and one subscription in the life of the          *)
(* connection, the server forgets no message before a handler was called   *)
(* with it: whatever is lost, refused, thrown or stopped meanwhile, for    *)
(* every number of channels and consumers.  (consume_loop(): the handler,  *)
(* then basic_ack() of the tag on the consumer's own channel.)             *)
THEOREM LosesNothing == Spec => []NoMessageLost
<1>1. FlowInv /\ [Next]_vars => FlowInv'
  BY FlowStep
<1>2. FlowInv => NoMessageLost
  BY DEF FlowInv, Traced
<1> QED
  BY FlowInit, <1>1, <1>2, PTL DEF Spec

(* A delivery tag names one message on its channel for good, and every     *)
(* message in the queue, on the wire, handled or forgotten is one the      *)
(* server accepted.  (The tag of the envelope, which basic_ack() sends.)   *)
THEOREM TagsName == Spec => [](Contents /\ Tagged)
<1>1. FlowInv /\ [Next]_vars => FlowInv'
  BY FlowStep
<1>2. FlowInv => Contents /\ Tagged
  BY DEF FlowInv, Traced
<1> QED
  BY FlowInit, <1>1, <1>2, PTL DEF Spec

-----------------------------------------------------------------------------
(* Every accepted message is in one place: ready in the queue, delivered   *)
(* and not acknowledged, or forgotten by the server.                       *)
InHand(m) == \E c \in Channels : \E d \in unacked[c] : d.msg = m

Kept == \A m \in Accepted : m \in Range(queue) \/ InHand(m) \/ m \in gone

Apart ==
  /\ Distinct(queue)
  /\ \A m \in Range(queue) : ~InHand(m) /\ m \notin gone
  /\ \A m \in gone : ~InHand(m)
  /\ \A c, e \in Channels : \A d \in unacked[c], f \in unacked[e] : d.msg = f.msg => d = f

(* Nothing is accepted before there is a queue with a binding.             *)
Bound ==
  /\ "binding" \in topo => "queue" \in topo
  /\ main = "bind" => "queue" \in topo
  /\ main \in {"start", "exchange", "queue"} => accepted = 0 /\ "queue" \notin topo

Conserved == Bound /\ ("queue" \in topo => Kept) /\ Apart

(* What a step does to the messages of the server.                         *)
Requeues == UNCHANGED <<gone, accepted>> /\ \E C \in SUBSET Channels : Requeue(C)

Accepts == /\ accepted' = accepted + 1 /\ queue' = Append(queue, accepted + 1)
           /\ UNCHANGED <<unacked, gone>>
           /\ "binding" \in topo

Forgets == \E c \in Channels : \E D \in SUBSET unacked[c] :
             /\ unacked' = [unacked EXCEPT ![c] = @ \ D]
             /\ gone' = gone \union {d.msg : d \in D}
             /\ UNCHANGED <<queue, accepted>>

Discards == /\ queue' = <<>> /\ unacked' = [c \in Channels |-> {}]
            /\ sub' = [c \in Channels |-> FALSE]
            /\ UNCHANGED <<gone, accepted>>
            /\ "queue" \notin topo'

ServerStep ==
  \/ UNCHANGED <<queue, unacked, gone, accepted>>
  \/ Requeues \/ Accepts \/ Forgets \/ Discards
  \/ \E c \in Channels : Deliver(c)

LEMMA GuardsFull ==
  ASSUME PoolInv
  PROVE  /\ main \notin {"start", "set up", "torn down"} => guard[Main] \in Channels
         /\ \A k \in Consumers : pc[k] \notin {"none", "acquire", "ended"}
                                   => guard[k] \in Channels
BY ClientAssumption DEF PoolInv, Places, Shape, Uses, Holds

LEMMA ServerSteps ==
  ASSUME PoolInv, [Next]_vars
  PROVE  ServerStep
<1> DEFINE Same == UNCHANGED <<queue, unacked, gone, accepted>>
           Back == \E C \in SUBSET Channels : Requeue(C)
<1>1. ASSUME NEW c \in Channels, Fails(c) PROVE Back
  BY <1>1 DEF Fails
<1>2. ASSUME NEW from, NEW to, NEW skip, NEW things, NEW counts,
             Operate(from, to, skip, things, counts), main \notin {"start", "set up", "torn down"}
      PROVE  Same \/ Requeues
  BY <1>1, <1>2, GuardsFull DEF Operate, producerVars, Requeues
<1>3. CASE BeginSetup \/ BeginTeardown \/ EndOperation
  BY <1>3 DEF BeginSetup, BeginTeardown, EndOperation, serverVars, producerVars, ServerStep
<1>4. CASE DeclareExchange \/ DeclareQueue \/ BindQueue
  BY <1>2, <1>4 DEF DeclareExchange, DeclareQueue, BindQueue, Operate, ServerStep
<1>5. CASE UnbindQueue \/ DeleteExchange
  BY <1>2, <1>5 DEF UnbindQueue, DeleteExchange, Operate, ServerStep
<1>6. CASE DeleteQueue
  BY <1>1, <1>6, GuardsFull DEF DeleteQueue, producerVars, ServerStep, Requeues, Discards
<1>7. CASE Connect \/ BeginClose \/ Reconnected
  BY <1>7 DEF Connect, BeginClose, Reconnected, serverVars, producerVars, ServerStep
<1>8. CASE Close \/ ServerLost
  <2>1. pool # <<>> => Head(pool) \in Channels
    BY TailRange DEF PoolInv, Shape
  <2>2. Back /\ UNCHANGED <<gone, accepted>>
    BY <1>8, <2>1 DEF Close, CloseChannel, ServerLost, producerVars
  <2> QED
    BY <2>2 DEF ServerStep, Requeues
<1>9. ASSUME NEW p \in Producers, Send(p) PROVE ServerStep
  BY <1>9 DEF Send, SendAcquire, Publish, serverVars, ServerStep, Accepts
<1>10. ASSUME NEW k \in Consumers, Start(k) \/ Stop(k) \/ Join(k) \/ Loop(k) PROVE ServerStep
  <2>1. CASE Ack(k)
    <3>1. guard[k] \in Channels
      BY <2>1, GuardsFull DEF Ack
    <3>2. Same \/ Requeues \/ Forgets
      BY <2>1, <3>1 DEF Ack, producerVars, Requeues, Forgets
    <3> QED
      BY <3>2 DEF ServerStep
  <2>2. CASE BasicConsume(k) \/ Cancel(k)
    <3>1. guard[k] \in Channels
      BY <2>2, GuardsFull DEF BasicConsume, Cancel
    <3>2. UNCHANGED <<gone, accepted>> /\ (UNCHANGED <<queue, unacked>> \/ Back)
      BY <1>1, <2>2, <3>1 DEF BasicConsume, Cancel, producerVars
    <3> QED
      BY <3>2 DEF ServerStep, Requeues
  <2>3. CASE Start(k) \/ Handle(k)
    <3>1. UNCHANGED <<gone, accepted>> /\ (UNCHANGED <<queue, unacked>> \/ Back)
      BY <2>3 DEF Start, Handle, producerVars
    <3> QED
      BY <3>1 DEF ServerStep, Requeues
  <2>4. CASE Stop(k) \/ Join(k) \/ LoopAcquire(k) \/ BeginRead(k) \/ Read(k) \/ ReadNothing(k)
    BY <2>4 DEF Stop, Join, LoopAcquire, BeginRead, Read, ReadNothing, serverVars,
       producerVars, ServerStep
  <2> QED
    BY <1>10, <2>1, <2>2, <2>3, <2>4 DEF Loop
<1>11. CASE UNCHANGED vars
  BY <1>11 DEF vars, serverVars, producerVars, ServerStep
<1>12. ASSUME NEW c \in Channels, Deliver(c) PROVE ServerStep
  BY <1>12 DEF ServerStep
<1> QED
  BY <1>3, <1>4, <1>5, <1>6, <1>7, <1>8, <1>9, <1>10, <1>11, <1>12 DEF Next, Setup, Teardown

(* What goes back to the queue is an enumeration of a finite set.          *)
LEMMA Enumerates ==
  ASSUME NEW M \in SUBSET Nat, IsFiniteSet(M), NEW q \in [1..Cardinality(M) -> M],
         \A i, j \in DOMAIN q : i < j => q[i] < q[j]
  PROVE  q \in Seq(M) /\ Len(q) = Cardinality(M) /\ Range(q) = M /\ Distinct(q)
<1> DEFINE n == Cardinality(M)
<1>1. n \in Nat
  BY FS_CardinalityType
<1>2. IsFiniteSet(1..n) /\ Cardinality(1..n) = n
  BY <1>1, FS_Interval
<1> HIDE DEF n
<1>3. q \in [1..n -> M]
  BY DEF n
<1>4. ASSUME NEW i \in 1..n, NEW j \in 1..n, q[i] = q[j] PROVE i = j
  <2>3. q[i] \in M /\ q[j] \in M
    BY <1>3
  <2>1. q[i] \in Nat /\ q[j] \in Nat
    BY <2>3
  <2>4. i \in Nat /\ j \in Nat
    BY <1>1
  <2>2. (i < j => q[i] < q[j]) /\ (j < i => q[j] < q[i])
    BY <1>3
  <2> QED
    BY <1>4, <2>1, <2>2, <2>4
<1>5. q \in Injection(1..n, M)
  BY <1>3, <1>4 DEF Injection, IsInjective
<1>6. q \in Surjection(1..n, M)
  BY <1>2, <1>5, FS_Injection DEF n
<1>7. Range(q) = M
  BY <1>3, <1>6 DEF Range, Surjection
<1>8. q \in Seq(M) /\ Len(q) = n
  BY <1>1, <1>3, SeqDef
<1> QED
  BY <1>3, <1>4, <1>7, <1>8 DEF Distinct, n

LEMMA JoinedRange ==
  ASSUME NEW S, NEW q \in Seq(S), NEW r \in Seq(S)
  PROVE  /\ q \o r \in Seq(S) /\ Range(q \o r) = Range(q) \cup Range(r)
         /\ Distinct(q) /\ Distinct(r) /\ Range(q) \cap Range(r) = {} => Distinct(q \o r)
<1>1. /\ q \o r \in Seq(S) /\ Len(q) \in Nat /\ Len(r) \in Nat
      /\ DOMAIN q = 1..Len(q) /\ DOMAIN r = 1..Len(r)
      /\ DOMAIN (q \o r) = 1..(Len(q) + Len(r))
      /\ \A i \in 1..(Len(q) + Len(r)) :
           (q \o r)[i] = IF i <= Len(q) THEN q[i] ELSE r[i - Len(q)]
  BY ConcatProperties
<1>2. \A i \in 1..Len(q) : i \in 1..(Len(q) + Len(r)) /\ (q \o r)[i] = q[i]
  BY <1>1
<1>3. ASSUME NEW i \in 1..Len(r)
      PROVE  i + Len(q) \in 1..(Len(q) + Len(r)) /\ (q \o r)[i + Len(q)] = r[i]
  <2>1. i + Len(q) \in 1..(Len(q) + Len(r)) /\ ~(i + Len(q) <= Len(q)) /\ i + Len(q) - Len(q) = i
    BY <1>1
  <2> QED
    BY <1>1, <2>1
<1>4. ASSUME NEW i \in 1..(Len(q) + Len(r)), ~(i <= Len(q))
      PROVE  i - Len(q) \in 1..Len(r) /\ (q \o r)[i] = r[i - Len(q)]
  BY <1>1, <1>4
<1>5. Range(q \o r) = Range(q) \cup Range(r)
  <2>1. ASSUME NEW i \in 1..(Len(q) + Len(r)) PROVE (q \o r)[i] \in Range(q) \cup Range(r)
    <3>1. CASE i <= Len(q)
      <4>1. i \in 1..Len(q)
        BY <1>1, <3>1
      <4> QED
        BY <1>1, <1>2, <4>1 DEF Range
    <3>2. CASE ~(i <= Len(q))
      BY <1>1, <1>4, <3>2 DEF Range
    <3> QED
      BY <3>1, <3>2
  <2>2. Range(q \o r) \subseteq Range(q) \cup Range(r)
    BY <1>1, <2>1 DEF Range
  <2>3. Range(q) \subseteq Range(q \o r)
    BY <1>1, <1>2 DEF Range
  <2>4. ASSUME NEW i \in 1..Len(r) PROVE r[i] \in Range(q \o r)
    BY <1>1, <1>3 DEF Range
  <2>5. Range(r) \subseteq Range(q \o r)
    BY <1>1, <2>4 DEF Range
  <2> QED
    BY <2>2, <2>3, <2>5
<1>6. ASSUME Distinct(q), Distinct(r), Range(q) \cap Range(r) = {},
             NEW i \in 1..(Len(q) + Len(r)), NEW j \in 1..(Len(q) + Len(r)),
             (q \o r)[i] = (q \o r)[j]
      PROVE  i = j
  <2>1. CASE i <= Len(q) /\ j <= Len(q)
    <3>1. i \in 1..Len(q) /\ j \in 1..Len(q)
      BY <1>1, <2>1
    <3> QED
      BY <1>1, <1>2, <1>6, <3>1 DEF Distinct
  <2>2. CASE ~(i <= Len(q)) /\ ~(j <= Len(q))
    <3>1. i - Len(q) = j - Len(q)
      BY <1>1, <1>4, <1>6, <2>2 DEF Distinct
    <3> QED
      BY <1>1, <3>1
  <2>3. ASSUME NEW a \in 1..(Len(q) + Len(r)), NEW b \in 1..(Len(q) + Len(r)),
               a <= Len(q), ~(b <= Len(q)), (q \o r)[a] = (q \o r)[b]
        PROVE  FALSE
    <3>1. a \in 1..Len(q)
      BY <1>1, <2>3
    <3>2. (q \o r)[a] \in Range(q) /\ (q \o r)[b] \in Range(r)
      BY <1>1, <1>2, <1>4, <2>3, <3>1 DEF Range
    <3> QED
      BY <1>6, <2>3, <3>2
  <2> QED
    BY <1>6, <2>1, <2>2, <2>3
<1> QED
  BY <1>1, <1>5, <1>6 DEF Distinct

(* Closed channels give back exactly what they had not acknowledged.       *)
LEMMA RequeueMoves ==
  ASSUME Contents, NEW C \in SUBSET Channels, Requeue(C)
  PROVE  LET M == {d.msg : d \in UNION {unacked[c] : c \in C}}
         IN  \E q \in Seq(Accepted) :
               /\ queue' = q \o queue /\ Range(q) = M /\ Distinct(q)
               /\ M = {} => q = <<>>
               /\ unacked' = [c \in Channels |-> IF c \in C THEN {} ELSE unacked[c]]
<1> DEFINE M == {d.msg : d \in UNION {unacked[c] : c \in C}}
<1>1. UNION {unacked[c] : c \in C} \subseteq Deliveries
  BY DEF Contents
<1>2. M \subseteq Accepted
  BY <1>1 DEF Deliveries
<1>3. Accepted \subseteq Nat /\ IsFiniteSet(Accepted)
  BY FS_Interval DEF Contents, Accepted
<1>4. M \in SUBSET Nat /\ IsFiniteSet(M)
  BY <1>2, <1>3, FS_Subset
<1>5. PICK q \in [1..Cardinality(M) -> M] :
        /\ queue' = q \o queue
        /\ \A i, j \in DOMAIN q : i < j => q[i] < q[j]
  BY DEF Requeue, Requeued
<1> HIDE DEF M
<1>6. q \in Seq(M) /\ Len(q) = Cardinality(M) /\ Range(q) = M /\ Distinct(q)
  BY <1>4, <1>5, Enumerates
<1>7. q \in Seq(Accepted)
  BY <1>2, <1>5, <1>6, SeqDef
<1>8. M = {} => q = <<>>
  BY <1>6, FS_EmptySet
<1>9. unacked' = [c \in Channels |-> IF c \in C THEN {} ELSE unacked[c]]
  BY DEF Requeue
<1> QED
  BY <1>5, <1>6, <1>7, <1>8, <1>9 DEF M

LEMMA RequeueConserves ==
  ASSUME Contents, Tagged, Apart, NEW C \in SUBSET Channels, Requeue(C),
         UNCHANGED <<gone, accepted>>
  PROVE  Apart' /\ (Kept => Kept')
<1> DEFINE M == {d.msg : d \in UNION {unacked[c] : c \in C}}
<1>1. PICK q \in Seq(Accepted) :
        /\ queue' = q \o queue /\ Range(q) = M /\ Distinct(q)
        /\ unacked' = [c \in Channels |-> IF c \in C THEN {} ELSE unacked[c]]
  BY RequeueMoves
<1>2. \A m : m \in M <=> \E c \in C : \E d \in unacked[c] : d.msg = m
  OBVIOUS
<1> HIDE DEF M
<1>3. \A m \in M : InHand(m)
  BY <1>2 DEF InHand
<1>4. \A m : InHand(m)' => InHand(m)
  BY <1>1 DEF InHand
<1>5. \A m : InHand(m) => InHand(m)' \/ m \in M
  BY <1>1, <1>2 DEF InHand
<1>6. \A m \in M : ~InHand(m)'
  <2> SUFFICES ASSUME NEW c \in C, NEW d \in unacked[c], NEW e \in Channels,
                      NEW f \in unacked'[e], f.msg = d.msg
               PROVE  FALSE
    BY <1>2 DEF InHand
  <2>1. e \notin C /\ f \in unacked[e] /\ c \in Channels
    BY <1>1
  <2>2. d = f
    BY <2>1 DEF Apart
  <2> QED
    BY <2>1, <2>2 DEF Tagged
<1>7. Range(queue') = M \cup Range(queue) /\ Distinct(queue')
  <2>1. Range(q) \cap Range(queue) = {}
    BY <1>1, <1>3 DEF Apart
  <2> QED
    BY <1>1, <2>1, JoinedRange DEF Contents, Apart
<1>8. \A m \in Range(queue') : ~InHand(m)' /\ m \notin gone'
  BY <1>3, <1>4, <1>6, <1>7 DEF Apart
<1>9. \A c, e \in Channels : \A d \in unacked'[c], f \in unacked'[e] : d.msg = f.msg => d = f
  BY <1>1 DEF Apart
<1>10. Apart'
  BY <1>4, <1>7, <1>8, <1>9 DEF Apart
<1>11. Kept => Kept'
  BY <1>5, <1>7 DEF Kept, Accepted
<1> QED
  BY <1>10, <1>11

LEMMA AcceptConserves ==
  ASSUME Contents, Apart, Accepts
  PROVE  Apart' /\ (Kept => Kept')
<1>1. accepted \in Nat /\ accepted + 1 \notin Accepted /\ Accepted' = Accepted \cup {accepted + 1}
  BY DEF Contents, Accepted, Accepts
<1>2. queue \in Seq(Accepted') /\ Range(queue) \subseteq Accepted
  BY <1>1, SeqDef DEF Contents, Range
<1>3. accepted + 1 \notin Range(queue) /\ accepted + 1 \notin gone
  BY <1>1, <1>2 DEF Contents
<1>4. \A m : InHand(m)' <=> InHand(m)
  BY DEF InHand, Accepts
<1>5. ~InHand(accepted + 1)
  BY <1>1 DEF InHand, Contents, Deliveries
<1>6. Range(queue') = Range(queue) \cup {accepted + 1} /\ Distinct(queue')
  BY <1>1, <1>2, <1>3, AppendRange DEF Apart, Accepts
<1> QED
  BY <1>1, <1>3, <1>4, <1>5, <1>6 DEF Apart, Kept, Accepts

LEMMA ForgetConserves ==
  ASSUME Contents, Tagged, Apart, Forgets
  PROVE  Apart' /\ (Kept => Kept')
<1>1. PICK c \in Channels : \E D \in SUBSET unacked[c] :
        /\ unacked' = [unacked EXCEPT ![c] = @ \ D]
        /\ gone' = gone \union {d.msg : d \in D}
        /\ UNCHANGED <<queue, accepted>>
  BY DEF Forgets
<1>2. PICK D \in SUBSET unacked[c] :
        /\ unacked' = [unacked EXCEPT ![c] = @ \ D]
        /\ gone' = gone \union {d.msg : d \in D}
        /\ UNCHANGED <<queue, accepted>>
  BY <1>1
<1>3. /\ unacked'[c] = unacked[c] \ D
      /\ \A e \in Channels \ {c} : unacked'[e] = unacked[e]
  BY <1>2 DEF Contents
<1>4. \A m : InHand(m)' => InHand(m)
  BY <1>3 DEF InHand
<1>5. \A m : InHand(m) => InHand(m)' \/ m \in gone'
  BY <1>2, <1>3 DEF InHand
<1>6. \A d \in D : InHand(d.msg)
  BY DEF InHand
<1>7. ASSUME NEW d \in D, InHand(d.msg)' PROVE FALSE
  <2>1. PICK e \in Channels : \E f \in unacked'[e] : f.msg = d.msg
    BY <1>7 DEF InHand
  <2>2. PICK f \in unacked'[e] : f.msg = d.msg
    BY <2>1
  <2>3. f \in unacked[e]
    BY <1>3
  <2>4. f = d
    BY <2>2, <2>3 DEF Apart
  <2>5. e = c
    BY <2>3, <2>4 DEF Tagged
  <2> QED
    BY <1>3, <2>2, <2>4, <2>5
<1> QED
  BY <1>2, <1>3, <1>4, <1>5, <1>6, <1>7 DEF Apart, Kept, Accepted

LEMMA DeliverConserves ==
  ASSUME Contents, Apart, NEW c \in Channels, Deliver(c)
  PROVE  Apart' /\ (Kept => Kept')
<1> DEFINE d == [ch |-> c, tag |-> tags[c] + 1, msg |-> Head(queue)]
<1>1. /\ UNCHANGED accepted /\ queue # <<>> /\ queue' = Tail(queue) /\ d.msg = Head(queue)
      /\ unacked' = IF NoAck THEN unacked ELSE [unacked EXCEPT ![c] = @ \union {d}]
      /\ gone' = IF NoAck THEN gone \union {d.msg} ELSE gone
  BY DEF Deliver, producerVars
<1> HIDE DEF d
<1>2. /\ Range(queue) = Range(queue') \cup {d.msg}
      /\ Distinct(queue') /\ d.msg \notin Range(queue')
  BY <1>1, TailRange DEF Contents, Apart
<1>3. ~InHand(d.msg) /\ d.msg \notin gone
  BY <1>2 DEF Apart
<1>4. Accepted' = Accepted
  BY <1>1 DEF Accepted
<1>5. CASE NoAck
  <2>1. gone' = gone \union {d.msg} /\ \A m : InHand(m)' <=> InHand(m)
    BY <1>1, <1>5 DEF InHand
  <2> QED
    BY <1>1, <1>2, <1>3, <1>4, <1>5, <2>1 DEF Apart, Kept
<1>6. CASE ~NoAck
  <2>1. /\ gone' = gone /\ unacked'[c] = unacked[c] \cup {d}
        /\ \A e \in Channels \ {c} : unacked'[e] = unacked[e]
    BY <1>1, <1>6 DEF Contents
  <2>2. \A m : InHand(m)' <=> InHand(m) \/ m = d.msg
    BY <2>1 DEF InHand
  <2>3. \A a, e \in Channels : \A x \in unacked'[a], f \in unacked'[e] : x.msg = f.msg => x = f
    <3> SUFFICES ASSUME NEW a \in Channels, NEW e \in Channels, NEW x \in unacked'[a],
                        NEW f \in unacked'[e], x.msg = f.msg
                 PROVE  x = f
      OBVIOUS
    <3>1. (x = d \/ x \in unacked[a]) /\ (f = d \/ f \in unacked[e])
      BY <2>1
    <3>2. x \in unacked[a] => x.msg # d.msg
      BY <1>3 DEF InHand
    <3>3. f \in unacked[e] => f.msg # d.msg
      BY <1>3 DEF InHand
    <3> QED
      BY <3>1, <3>2, <3>3 DEF Apart
  <2>4. \A m \in Range(queue') : ~InHand(m)' /\ m \notin gone'
    BY <1>2, <2>1, <2>2 DEF Apart
  <2>5. \A m \in gone' : ~InHand(m)'
    BY <1>3, <2>1, <2>2 DEF Apart
  <2>6. Kept => Kept'
    BY <1>2, <1>4, <2>1, <2>2 DEF Kept
  <2> QED
    BY <1>2, <2>3, <2>4, <2>5, <2>6 DEF Apart
<1> QED
  BY <1>5, <1>6

LEMMA BoundStep ==
  ASSUME Bound, [Next]_vars
  PROVE  /\ Bound'
         /\ "queue" \in topo' => "queue" \in topo \/ (accepted = 0 /\ UNCHANGED accepted)
<1> DEFINE Stay == UNCHANGED <<topo, accepted>>
<1>1. ASSUME NEW from, NEW to, NEW skip, NEW things, NEW counts,
             Operate(from, to, skip, things, counts)
      PROVE  main = from /\ UNCHANGED accepted
             /\ ((main' = to /\ topo' = things) \/ (main' = skip /\ topo' = topo))
  <2>1. main = from /\ UNCHANGED accepted
    BY <1>1 DEF Operate, producerVars
  <2>2. (main' = to /\ topo' = things) \/ (main' = skip /\ topo' = topo)
    BY <1>1 DEF Operate
  <2> QED
    BY <2>1, <2>2
<1>2. CASE DeclareExchange
  <2>1. main = "exchange" /\ main' = "queue" /\ UNCHANGED accepted
        /\ (topo' = topo \cup {"exchange"} \/ topo' = topo)
    BY <1>1, <1>2 DEF DeclareExchange
  <2> QED
    BY <2>1 DEF Bound
<1>3. CASE DeclareQueue
  <2>1. /\ main = "queue" /\ UNCHANGED accepted
        /\ \/ main' = "bind" /\ topo' = topo \cup {"queue"}
           \/ main' = "end setup" /\ topo' = topo
    BY <1>1, <1>3 DEF DeclareQueue
  <2> QED
    BY <2>1 DEF Bound
<1>4. CASE BindQueue
  <2>1. /\ main = "bind" /\ main' = "end setup" /\ UNCHANGED accepted
        /\ (topo' = topo \cup {"binding"} \/ topo' = topo)
    BY <1>1, <1>4 DEF BindQueue
  <2> QED
    BY <2>1 DEF Bound
<1>5. CASE UnbindQueue
  <2>1. /\ main' = "delete queue" /\ UNCHANGED accepted
        /\ (topo' = topo \ {"binding"} \/ topo' = topo)
    BY <1>1, <1>5 DEF UnbindQueue
  <2> QED
    BY <2>1 DEF Bound
<1>6. CASE DeleteQueue
  <2>1. /\ main' = "delete exchange" /\ UNCHANGED accepted
        /\ (topo' = topo \ {"queue", "binding"} \/ topo' = topo)
    BY <1>6 DEF DeleteQueue, producerVars
  <2> QED
    BY <2>1 DEF Bound
<1>7. CASE DeleteExchange
  <2>1. /\ main' = "end teardown" /\ UNCHANGED accepted
        /\ (topo' = topo \ {"exchange"} \/ topo' = topo)
    BY <1>1, <1>7 DEF DeleteExchange
  <2> QED
    BY <2>1 DEF Bound
<1>8. CASE BeginSetup \/ BeginTeardown \/ EndOperation
  <2>1. Stay
    BY <1>8 DEF BeginSetup, BeginTeardown, EndOperation, producerVars
  <2>2. main' # "bind" /\ (main' \in {"start", "exchange", "queue"} => main = "start")
    BY <1>8 DEF BeginSetup, BeginTeardown, EndOperation
  <2> QED
    BY <2>1, <2>2 DEF Bound
<1>9. ASSUME NEW p \in Producers, Send(p)
      PROVE  UNCHANGED <<main, topo>> /\ (UNCHANGED accepted \/ "binding" \in topo)
  BY <1>9 DEF Send, SendAcquire, Publish, brokerVars
<1>10. ASSUME NEW p \in Producers, Send(p)
       PROVE  Bound' /\ ("queue" \in topo' => "queue" \in topo)
  <2>1. UNCHANGED <<main, topo>> /\ (UNCHANGED accepted \/ "binding" \in topo)
    BY <1>9, <1>10
  <2>2. CASE UNCHANGED accepted
    BY <2>1, <2>2 DEF Bound
  <2>3. CASE "binding" \in topo
    BY <2>1, <2>3 DEF Bound
  <2> QED
    BY <2>1, <2>2, <2>3
<1>11. ASSUME UNCHANGED main, Stay PROVE Bound' /\ ("queue" \in topo' => "queue" \in topo)
  BY <1>11 DEF Bound
<1>12. ASSUME NEW k \in Consumers, Start(k) \/ Stop(k) \/ Join(k) \/ Loop(k)
       PROVE  UNCHANGED main /\ Stay
  BY <1>12 DEF Start, Stop, Join, Loop, LoopAcquire, BasicConsume, BeginRead, Read,
               ReadNothing, Handle, Ack, Cancel, brokerVars, producerVars
<1>13. ASSUME \/ Connect \/ BeginClose \/ Close \/ ServerLost \/ Reconnected
              \/ (\E c \in Channels : Deliver(c)) \/ UNCHANGED vars
       PROVE  UNCHANGED main /\ Stay
  BY <1>13 DEF Connect, BeginClose, Close, ServerLost, Reconnected, Deliver, vars, brokerVars,
               producerVars
<1> HIDE DEF Stay
<1> QED
  BY <1>2, <1>3, <1>4, <1>5, <1>6, <1>7, <1>8, <1>10, <1>11, <1>12, <1>13
  DEF Next, Setup, Teardown

LEMMA ConservedStep ==
  ASSUME FlowInv, Conserved, [Next]_vars
  PROVE  Conserved'
<1>1. Contents /\ Tagged /\ Apart /\ PoolInv
  BY DEF FlowInv, Traced, Conserved
<1>2. /\ Bound'
      /\ "queue" \in topo' => "queue" \in topo \/ (accepted = 0 /\ UNCHANGED accepted)
  BY BoundStep DEF Conserved
<1>3. ServerStep
  BY <1>1, ServerSteps
<1>4. Apart' /\ ((Kept => Kept') \/ "queue" \notin topo')
  <2>1. CASE UNCHANGED <<queue, unacked, gone, accepted>>
    BY <1>1, <2>1 DEF Apart, Kept, InHand, Accepted
  <2>2. CASE Requeues
    BY <1>1, <2>2, RequeueConserves DEF Requeues
  <2>3. CASE Accepts \/ Forgets
    BY <1>1, <2>3, AcceptConserves, ForgetConserves
  <2>4. CASE Discards
    <3>1. Range(queue') = {} /\ Distinct(queue')
      BY <2>4 DEF Discards, Range, Distinct
    <3>2. \A c \in Channels : unacked'[c] = {}
      BY <2>4 DEF Discards
    <3> QED
      BY <2>4, <3>1, <3>2 DEF Discards, Apart, InHand
  <2>5. ASSUME NEW c \in Channels, Deliver(c) PROVE Apart' /\ (Kept => Kept')
    BY <1>1, <2>5, DeliverConserves
  <2> QED
    BY <1>3, <2>1, <2>2, <2>3, <2>4, <2>5 DEF ServerStep
<1>5. accepted' = 0 => Kept'
  BY DEF Kept, Accepted
<1> QED
  BY <1>2, <1>4, <1>5 DEF Conserved

LEMMA ConservedInit == Init => Conserved
<1> SUFFICES ASSUME Init PROVE Conserved
  OBVIOUS
<1>1. topo = {} /\ accepted = 0 /\ queue = <<>> /\ gone = {} /\ main = "start"
      /\ unacked = [c \in Channels |-> {}]
  BY DEF Init
<1>2. Range(queue) = {} /\ Distinct(queue)
  BY <1>1 DEF Range, Distinct
<1> QED
  BY <1>1, <1>2 DEF Conserved, Bound, Kept, Apart

(* While the queue exists no message the server accepted vanishes and none *)
(* doubles: each is ready once, delivered once and not yet acknowledged,   *)
(* or acknowledged; one that was acknowledged never comes back, whatever   *)
(* channels close and however often the connection is lost.  This is with  *)
(* any number of consumers and also where their tags name other messages.  *)
(* (basic_ack(), and the requeueing that consume_loop() relies on.)        *)
THEOREM MessagesConserved ==
  Spec => [](/\ "queue" \in topo =>
                  \A m \in 1..accepted : m \in Range(queue) \/ InHand(m) \/ m \in gone
             /\ Apart)
<1>1. FlowInv /\ Conserved /\ [Next]_vars => FlowInv' /\ Conserved'
  BY FlowStep, ConservedStep
<1>2. Conserved =>
        /\ "queue" \in topo =>
             \A m \in 1..accepted : m \in Range(queue) \/ InHand(m) \/ m \in gone
        /\ Apart
  BY DEF Conserved, Kept, Accepted
<1> QED
  BY FlowInit, ConservedInit, <1>1, <1>2, PTL DEF Spec

(* At least once: with acknowledgements and one subscription, a message    *)
(* that no handler was called with is still the server's to deliver, until *)
(* teardown() deletes the queue.                                           *)
THEOREM AtLeastOnce ==
  Spec => [](~NoAck /\ subs <= 1 /\ "queue" \in topo =>
               \A m \in 1..accepted : m \in handled \/ m \in Range(queue) \/ InHand(m))
<1>1. FlowInv /\ Conserved /\ [Next]_vars => FlowInv' /\ Conserved'
  BY FlowStep, ConservedStep
<1>2. FlowInv /\ Conserved =>
        (~NoAck /\ subs <= 1 /\ "queue" \in topo =>
           \A m \in 1..accepted : m \in handled \/ m \in Range(queue) \/ InHand(m))
  BY DEF FlowInv, Traced, NoMessageLost, Conserved, Kept, Accepted
<1> QED
  BY FlowInit, ConservedInit, <1>1, <1>2, PTL DEF Spec

-----------------------------------------------------------------------------
(* In the life of one subscription the server delivers, and the handler is *)
(* called with, message 1, 2, 3 and so on.                                 *)
OneChannel == subs <= 1 =>
  /\ \A c, e \in Channels : sub[c] /\ sub[e] => c = e
  /\ \A c \in Channels : sub[c] => \A d \in Deliveries : OnTheWay(d) => d.ch = c

Linked == ~link => \A c \in Channels : ~sub[c]

(* n messages were read; what is on the wire comes next, and while there   *)
(* is a subscription, or none was made yet, the queue comes after it.      *)
Turn(n) ==
  /\ handled = IF \E k \in Consumers : pc[k] = "handle" THEN 1..(n - 1) ELSE 1..n
  /\ \A k \in Consumers : pc[k] = "handle" => envelope[k].msg = n
  /\ \A i \in 1..Len(wire) : wire[i].msg = n + i
  /\ (\E c \in Channels : sub[c]) \/ (subs = 0 /\ "queue" \in topo) =>
       /\ \A i \in 1..Len(queue) : queue[i] = n + Len(wire) + i
       /\ n + Len(wire) + Len(queue) = accepted
  /\ subs = 0 => n = 0 /\ wire = <<>>

InTurn == subs <= 1 => \E n \in Nat : Turn(n)

TurnInv == OneChannel /\ Linked /\ InTurn

LEMMA LinkStep ==
  ASSUME FlowInv, Linked, [Next]_vars
  PROVE  /\ Linked'
         /\ wire' = <<>> => \/ wire = <<>> \/ \A c \in Channels : ~sub'[c]
                            \/ \E k \in Consumers : Read(k)
<1> DEFINE Shrinks == \A c \in Channels : sub'[c] => sub[c]
           Ends == \A c \in Channels : ~sub'[c]
<1>1. ASSUME NEW C \in SUBSET Channels, Requeue(C) PROVE Shrinks /\ (C = Channels => Ends)
  BY <1>1 DEF Requeue
<1>2. UNCHANGED sub => Shrinks
  OBVIOUS
<1>3. ASSUME NEW c \in Channels, Fails(c) PROVE Shrinks
  BY <1>1, <1>3 DEF Fails
<1>4. ASSUME UNCHANGED <<link, wire>>, Shrinks \/ link PROVE Linked' /\ UNCHANGED wire
  BY <1>4 DEF Linked
<1>5. ASSUME Ends PROVE Linked'
  BY <1>5 DEF Linked
<1> HIDE DEF Shrinks
<1>6. ASSUME NEW from, NEW to, NEW skip, NEW things, NEW counts,
             Operate(from, to, skip, things, counts), main \notin {"start", "set up", "torn down"}
      PROVE  UNCHANGED <<link, wire>> /\ Shrinks
  BY <1>2, <1>3, <1>6, GuardsFull DEF Operate, FlowInv
<1>7. CASE Setup \/ BeginTeardown \/ Teardown \/ EndOperation
  <2>1. CASE BeginSetup \/ BeginTeardown \/ EndOperation
    BY <1>2, <1>4, <2>1 DEF BeginSetup, BeginTeardown, EndOperation, serverVars
  <2>2. CASE DeclareExchange \/ DeclareQueue \/ BindQueue
    <3>1. UNCHANGED <<link, wire>> /\ Shrinks
      BY <1>6, <2>2 DEF DeclareExchange, DeclareQueue, BindQueue, Operate
    <3> QED
      BY <1>4, <3>1
  <2>3. CASE UnbindQueue \/ DeleteExchange
    <3>1. UNCHANGED <<link, wire>> /\ Shrinks
      BY <1>6, <2>3 DEF UnbindQueue, DeleteExchange, Operate
    <3> QED
      BY <1>4, <3>1
  <2>4. CASE DeleteQueue
    <3>1. UNCHANGED <<link, wire>>
      BY <2>4 DEF DeleteQueue
    <3>2. CASE sub' = [c \in Channels |-> FALSE]
      BY <1>5, <3>1, <3>2
    <3>3. CASE Fails(guard[Main])
      BY <1>3, <1>4, <2>4, <3>1, <3>3, GuardsFull DEF DeleteQueue, FlowInv
    <3> QED
      BY <2>4, <3>2, <3>3 DEF DeleteQueue
  <2> QED
    BY <1>7, <2>1, <2>2, <2>3, <2>4 DEF Setup, Teardown
<1>8. CASE Connect
  BY <1>8 DEF Connect, InitConnection, OpenChannel, serverVars, Linked
<1>9. CASE BeginClose
  BY <1>9 DEF BeginClose, linkVars, serverVars, Linked
<1>10. CASE Close
  <2>1. UNCHANGED wire
    BY <1>10 DEF Close
  <2>2. CASE CloseChannel /\ Requeue({Head(pool)})
    <3>1. Head(pool) \in Channels
      BY <2>2, TailRange DEF CloseChannel, FlowInv, PoolInv, Shape
    <3>2. Shrinks /\ UNCHANGED link
      BY <1>1, <2>2, <3>1 DEF CloseChannel
    <3> QED
      BY <1>4, <2>1, <3>2
  <2>3. CASE Requeue(Channels)
    BY <1>1, <1>5, <2>1, <2>3
  <2> QED
    BY <1>10, <2>2, <2>3 DEF Close
<1>11. CASE ServerLost
  BY <1>1, <1>5, <1>11 DEF ServerLost
<1>12. CASE Reconnected
  <2>1. sub' = sub /\ ~link
    BY <1>12 DEF Reconnected, Reconnect, ReconnectFails
  <2>2. Ends
    BY <2>1 DEF Linked
  <2> QED
    BY <1>5, <2>2
<1>13. ASSUME NEW c \in Channels, Deliver(c)
       PROVE  Linked' /\ wire' # <<>>
  <2>1. UNCHANGED <<link, sub>>
    BY <1>13 DEF Deliver, channelVars
  <2>2. wire \in Seq(Deliveries) /\ \E d : wire' = Append(wire, d)
    BY <1>13 DEF Deliver, FlowInv, Contents
  <2> QED
    BY <2>1, <2>2, AppendProperties DEF Linked
<1>14. ASSUME NEW p \in Producers, Send(p) PROVE Linked' /\ UNCHANGED wire
  BY <1>14 DEF Send, SendAcquire, Publish, serverVars, Linked
<1>15. ASSUME NEW k \in Consumers, Start(k) \/ Stop(k) \/ Join(k) \/ Loop(k)
       PROVE  Linked' /\ (UNCHANGED wire \/ Ends \/ Read(k))
  <2>1. CASE Start(k) \/ Handle(k)
    <3>1. CASE UNCHANGED <<channelVars, sub, wire>>
      BY <3>1 DEF channelVars, Linked
    <3>2. CASE Requeue(Channels)
      BY <1>1, <1>5, <3>2
    <3> QED
      BY <2>1, <3>1, <3>2 DEF Start, Handle
  <2>2. CASE Stop(k) \/ Join(k) \/ LoopAcquire(k) \/ BeginRead(k) \/ ReadNothing(k)
    BY <2>2 DEF Stop, Join, LoopAcquire, BeginRead, ReadNothing, channelVars, linkVars,
       serverVars, Linked
  <2>3. CASE Read(k)
    BY <2>3 DEF Read, linkVars, Linked
  <2>4. CASE BasicConsume(k) \/ Cancel(k) \/ Ack(k)
    <3>1. guard[k] \in Channels /\ UNCHANGED <<link, wire>>
      BY <2>4, GuardsFull DEF BasicConsume, Cancel, Ack, FlowInv
    <3>2. link \/ Shrinks
      <4>1. CASE BasicConsume(k)
        BY <1>3, <3>1, <4>1 DEF BasicConsume, Answers
      <4>2. CASE Cancel(k)
        BY <1>3, <3>1, <4>2 DEF Cancel, Answers
      <4>3. CASE Ack(k)
        BY <1>1, <1>2, <3>1, <4>3 DEF Ack
      <4> QED
        BY <2>4, <4>1, <4>2, <4>3
    <3> QED
      BY <1>4, <3>1, <3>2
  <2> QED
    BY <1>15, <2>1, <2>2, <2>3, <2>4 DEF Loop
<1>16. CASE UNCHANGED vars
  BY <1>16 DEF vars, channelVars, serverVars, Linked
<1> QED
  BY <1>7, <1>8, <1>9, <1>10, <1>11, <1>12, <1>13, <1>14, <1>15, <1>16 DEF Next

LEMMA NarrowsWay ==
  ASSUME FlowInv, Narrows
  PROVE  /\ Deliveries' = Deliveries
         /\ \A d : OnTheWay(d)' => OnTheWay(d)
<1>1. Range(wire') \subseteq Range(wire)
  <2>1. CASE wire' = <<>>
    BY <2>1 DEF Range
  <2> QED
    BY <2>1 DEF Narrows
<1> QED
  BY <1>1 DEF OnTheWay, Narrows, Deliveries, Accepted

LEMMA NarrowsOneChannel ==
  ASSUME FlowInv, Narrows, OneChannel
  PROVE  OneChannel'
<1>1. /\ subs' = subs /\ Deliveries' = Deliveries
      /\ \A d : OnTheWay(d)' => OnTheWay(d)
      /\ \A c \in Channels : sub'[c] => sub[c]
  BY NarrowsWay DEF Narrows
<1> QED
  BY <1>1 DEF OneChannel

(* What closed channels give back is nothing while it matters: the only    *)
(* channel with deliveries is the one with the subscription.               *)
LEMMA QueueStays ==
  ASSUME FlowInv, OneChannel, Narrows, [Next]_vars, subs <= 1,
         (\E c \in Channels : sub'[c]) \/ (subs = 0 /\ "queue" \in topo')
  PROVE  queue' = queue
<1>1. CASE Accepts
  BY <1>1 DEF Accepts, Narrows, FlowInv, Contents
<1>2. ASSUME NEW c \in Channels, Deliver(c) PROVE FALSE
  <2>1. tags[c] \in Nat /\ tags' = tags /\ tags' = [tags EXCEPT ![c] = @ + 1]
    BY <1>2 DEF Deliver, Narrows, FlowInv, Contents
  <2>2. tags'[c] = tags[c] + 1
    BY <2>1 DEF FlowInv, Contents
  <2> QED
    BY <2>1, <2>2
<1>3. CASE Discards
  BY <1>3 DEF Discards
<1>4. CASE Requeues
  <2>1. PICK C \in SUBSET Channels : Requeue(C)
    BY <1>4 DEF Requeues
  <2> DEFINE M == {d.msg : d \in UNION {unacked[c] : c \in C}}
  <2>2. PICK q \in Seq(Accepted) : queue' = q \o queue /\ (M = {} => q = <<>>)
    BY <2>1, RequeueMoves DEF FlowInv
  <2>3. ASSUME NEW c \in C, NEW d \in unacked[c] PROVE FALSE
    <3>1. c \in Channels /\ d \in Deliveries /\ OnTheWay(d) /\ d.ch = c
      BY DEF FlowInv, Contents, Traced, Tagged, OnTheWay
    <3>2. subs # 0
      BY <3>1 DEF FlowInv, Traced, OneReader
    <3>3. PICK e \in Channels : sub'[e]
      BY <3>2
    <3>4. sub[e] /\ e \notin C
      BY <2>1, <3>3 DEF Requeue
    <3>5. d.ch = e
      BY <3>1, <3>4 DEF OneChannel
    <3> QED
      BY <3>1, <3>4, <3>5
  <2>4. M = {}
    BY <2>3
  <2> QED
    BY <2>2, <2>4, ConcatEmptySeq DEF FlowInv, Contents
<1> QED
  BY <1>1, <1>2, <1>3, <1>4, ServerSteps DEF ServerStep, Forgets, FlowInv

LEMMA NarrowsTurn ==
  ASSUME FlowInv, Bound, TurnInv, Narrows, [Next]_vars,
         \A k \in Consumers : (pc[k] = "handle" => pc'[k] = "handle") /\ ~Read(k)
  PROVE  InTurn'
<1> SUFFICES ASSUME subs <= 1 PROVE \E n \in Nat : Turn(n)'
  BY DEF InTurn, Narrows
<1>1. PICK n \in Nat : Turn(n)
  BY DEF TurnInv, InTurn
<1>2. \A k \in Consumers : /\ pc'[k] = "handle" <=> pc[k] = "handle"
                           /\ pc[k] = "handle" => envelope'[k] = envelope[k]
  BY DEF Narrows, Reads
<1>3. subs' = subs /\ handled' = handled /\ accepted' = accepted
      /\ wire' \in {wire, <<>>} /\ \A c \in Channels : sub'[c] => sub[c]
  BY DEF Narrows
<1>4. wire' = wire \/ (wire' = <<>> /\ \A c \in Channels : ~sub'[c])
  BY <1>3, LinkStep DEF TurnInv
<1>5. Len(<<>>) = 0
  OBVIOUS
<1>6. ASSUME (\E c \in Channels : sub'[c]) \/ (subs = 0 /\ "queue" \in topo')
      PROVE  /\ \A i \in 1..Len(queue') : queue'[i] = n + Len(wire') + i
             /\ n + Len(wire') + Len(queue') = accepted
  <2>1. queue' = queue
    BY <1>6, QueueStays DEF TurnInv
  <2>2. wire' = wire
    BY <1>1, <1>4, <1>6 DEF Turn
  <2>3. CASE (\E c \in Channels : sub[c]) \/ (subs = 0 /\ "queue" \in topo)
    BY <1>1, <2>1, <2>2, <2>3 DEF Turn
  <2>4. CASE ~((\E c \in Channels : sub[c]) \/ (subs = 0 /\ "queue" \in topo))
    <3>1. subs = 0 /\ accepted = 0
      BY <1>3, <1>6, <2>4, BoundStep
    <3>2. n = 0 /\ wire = <<>>
      BY <1>1, <3>1 DEF Turn
    <3>3. queue \in Seq({})
      <4>1. Accepted = {}
        BY <3>1 DEF Accepted
      <4> QED
        BY <4>1 DEF FlowInv, Contents
    <3>4. queue = <<>>
      BY <3>3, HeadTailProperties
    <3> QED
      BY <1>5, <2>1, <2>2, <3>1, <3>2, <3>4
  <2> QED
    BY <2>3, <2>4
<1>7. \A i \in 1..Len(wire') : wire'[i].msg = n + i
  BY <1>1, <1>3, <1>5 DEF Turn
<1>8. subs' = 0 => n = 0 /\ wire' = <<>>
  BY <1>1, <1>3 DEF Turn
<1>9. /\ handled' = IF \E k \in Consumers : pc'[k] = "handle" THEN 1..(n - 1) ELSE 1..n
      /\ \A k \in Consumers : pc'[k] = "handle" => envelope'[k].msg = n
  BY <1>1, <1>2, <1>3 DEF Turn
<1> QED
  BY <1>3, <1>6, <1>7, <1>8, <1>9 DEF Turn

LEMMA AcceptTurn ==
  ASSUME FlowInv, Bound, TurnInv, [Next]_vars, NEW p \in Producers, Send(p)
  PROVE  OneChannel' /\ InTurn'
<1>1. UNCHANGED <<sub, subs, unacked, wire, envelope, pc, handled, topo>>
  BY DEF Send, SendAcquire, Publish, brokerVars, serverVars, consumerVars
<1>2. \A d : OnTheWay(d)' => OnTheWay(d) /\ d \in Deliveries
  BY <1>1 DEF OnTheWay, FlowInv, Contents, Range
<1>3. OneChannel'
  BY <1>1, <1>2 DEF TurnInv, OneChannel
<1>4. CASE UNCHANGED <<accepted, queue>>
  <2>1. ASSUME NEW n \in Nat, Turn(n) PROVE Turn(n)'
    BY <1>1, <1>4, <2>1 DEF Turn
  <2>2. subs' = subs
    BY <1>1
  <2> QED
    BY <1>3, <2>1, <2>2 DEF TurnInv, InTurn
<1>5. CASE accepted' = accepted + 1 /\ queue' = Append(queue, accepted + 1)
  <2>6. subs' = subs
    BY <1>1
  <2> SUFFICES ASSUME subs <= 1 PROVE \E n \in Nat : Turn(n)'
    BY <1>3, <2>6 DEF InTurn
  <2>1. PICK n \in Nat : Turn(n)
    BY DEF TurnInv, InTurn
  <2>2. accepted \in Nat /\ Len(wire) \in Nat /\ Len(queue) \in Nat
    BY LenProperties DEF FlowInv, Contents
  <2>3. queue \in Seq(Nat)
    <3>1. Accepted \subseteq Nat
      BY <2>2 DEF Accepted
    <3>2. Len(queue) \in Nat /\ queue \in [1..Len(queue) -> Accepted]
      BY LenProperties DEF FlowInv, Contents
    <3>3. queue \in [1..Len(queue) -> Nat]
      BY <3>1, <3>2
    <3> QED
      BY <3>2, <3>3, SeqDef
  <2>4. /\ Len(queue') = Len(queue) + 1
        /\ \A i \in 1..Len(queue) : queue'[i] = queue[i]
        /\ queue'[Len(queue) + 1] = accepted + 1
    BY <1>5, <2>2, <2>3, AppendProperties
  <2>5. ASSUME \A i \in 1..Len(queue) : queue[i] = n + Len(wire) + i,
               n + Len(wire) + Len(queue) = accepted
        PROVE  /\ \A i \in 1..Len(queue') : queue'[i] = n + Len(wire) + i
               /\ n + Len(wire) + Len(queue') = accepted'
    <3>1. ASSUME NEW i \in 1..Len(queue') PROVE queue'[i] = n + Len(wire) + i
      <4>1. i \in 1..Len(queue) \/ i = Len(queue) + 1
        BY <2>2, <2>4
      <4>2. CASE i \in 1..Len(queue)
        BY <2>4, <2>5, <4>2
      <4>3. CASE i = Len(queue) + 1
        BY <2>2, <2>4, <2>5, <4>3
      <4> QED
        BY <4>1, <4>2, <4>3
    <3>2. n + Len(wire) + Len(queue') = accepted'
      BY <1>5, <2>2, <2>4, <2>5
    <3> QED
      BY <3>1, <3>2
  <2> QED
    BY <1>1, <2>1, <2>5 DEF Turn
<1> QED
  BY <1>1, <1>3, <1>4, <1>5 DEF Send, SendAcquire, Publish, serverVars

LEMMA DeliverTurn ==
  ASSUME FlowInv, TurnInv, NEW c \in Channels, Deliver(c)
  PROVE  OneChannel' /\ InTurn'
<1> DEFINE d == [ch |-> c, tag |-> tags[c] + 1, msg |-> Head(queue)]
<1>1. /\ UNCHANGED <<pc, envelope, handled, subs, sub, accepted, topo>>
      /\ sub[c] /\ queue # <<>> /\ queue' = Tail(queue) /\ wire' = Append(wire, d)
      /\ unacked' = IF NoAck THEN unacked ELSE [unacked EXCEPT ![c] = @ \union {d}]
  BY DEF Deliver, producerVars, consumerVars, brokerVars
<1>2. Head(queue) \in Accepted /\ tags[c] \in Nat /\ Deliveries' = Deliveries
  BY <1>1, TailRange DEF FlowInv, Contents, Accepted, Deliveries
<1>3. d \in Deliveries /\ d.ch = c /\ d.msg = Head(queue)
  BY <1>2 DEF Deliveries
<1> HIDE DEF d
<1>4. Range(wire') = Range(wire) \cup {d}
  BY <1>1, <1>3, AppendRange DEF FlowInv, Contents
<1>5. \A e : OnTheWay(e)' => OnTheWay(e) \/ e = d
  BY <1>1, <1>4 DEF OnTheWay, FlowInv, Contents
<1>6. OneChannel'
  BY <1>1, <1>2, <1>3, <1>5 DEF TurnInv, OneChannel
<1>7. ASSUME subs <= 1 PROVE \E n \in Nat : Turn(n)'
  <2>1. PICK n \in Nat : Turn(n)
    BY <1>7 DEF TurnInv, InTurn
  <2>2. /\ \A i \in 1..Len(queue) : queue[i] = n + Len(wire) + i
        /\ n + Len(wire) + Len(queue) = accepted
        /\ subs # 0
    BY <1>1, <2>1 DEF Turn, FlowInv, Traced, OneReader
  <2>3. /\ Len(wire) \in Nat /\ Len(wire') = Len(wire) + 1
        /\ \A i \in 1..Len(wire) : wire'[i] = wire[i]
        /\ wire'[Len(wire) + 1] = d
    BY <1>1, <1>3, AppendProperties, LenProperties DEF FlowInv, Contents
  <2>4. /\ Len(queue) \in Nat /\ Len(queue) >= 1 /\ Len(queue') = Len(queue) - 1
        /\ Head(queue) = queue[1]
        /\ \A i \in 1..(Len(queue) - 1) : queue'[i] = queue[i + 1]
    BY <1>1, HeadTailProperties DEF FlowInv, Contents
  <2>5. ASSUME NEW i \in 1..Len(wire') PROVE wire'[i].msg = n + i
    <3>1. i \in 1..Len(wire) \/ i = Len(wire) + 1
      BY <2>3
    <3>2. CASE i \in 1..Len(wire)
      BY <2>1, <2>3, <3>2 DEF Turn
    <3>3. CASE i = Len(wire) + 1
      <4>1. queue[1] = n + Len(wire) + 1
        BY <2>2, <2>4
      <4> QED
        BY <1>3, <2>3, <2>4, <3>3, <4>1
    <3> QED
      BY <3>1, <3>2, <3>3
  <2>6. ASSUME NEW i \in 1..Len(queue') PROVE queue'[i] = n + Len(wire') + i
    <3>1. i + 1 \in 1..Len(queue) /\ queue'[i] = queue[i + 1]
      BY <2>4
    <3>2. queue[i + 1] = n + Len(wire) + (i + 1)
      BY <2>2, <3>1
    <3> QED
      BY <2>3, <3>1, <3>2
  <2>7. n + Len(wire') + Len(queue') = accepted'
    BY <1>1, <2>2, <2>3, <2>4
  <2> QED
    BY <1>1, <2>1, <2>2, <2>5, <2>6, <2>7 DEF Turn
<1> QED
  BY <1>1, <1>6, <1>7 DEF InTurn

LEMMA ReadTurn ==
  ASSUME FlowInv, TurnInv, NEW k \in Consumers, Read(k)
  PROVE  OneChannel' /\ InTurn'
<1>1. /\ UNCHANGED <<handled, subs, sub, accepted, unacked, queue, topo>>
      /\ pc[k] = "read" /\ pc' = [pc EXCEPT ![k] = "handle"]
      /\ wire # <<>> /\ wire' = Tail(wire)
      /\ envelope' = [envelope EXCEPT ![k] = Head(wire)]
  BY DEF Read, producerVars, brokerVars
<1>2. /\ pc \in [Consumers -> PcState]
      /\ envelope \in [Consumers -> Deliveries \cup {NoDelivery}]
      /\ Deliveries' = Deliveries
  BY <1>1 DEF FlowInv, PoolInv, Places, Contents, Deliveries, Accepted
<1>3. Range(wire) = Range(wire') \cup {Head(wire)}
  BY <1>1, TailRange DEF FlowInv, Contents
<1>4. /\ pc'[k] = "handle" /\ envelope'[k] = Head(wire)
      /\ \A j \in Consumers \ {k} : pc'[j] = pc[j] /\ envelope'[j] = envelope[j]
  BY <1>1, <1>2
<1>5. \A d : OnTheWay(d)' => OnTheWay(d)
  BY <1>1, <1>3, <1>4 DEF OnTheWay
<1>6. OneChannel'
  BY <1>1, <1>2, <1>5 DEF TurnInv, OneChannel
<1>7. ASSUME subs <= 1 PROVE \E n \in Nat : Turn(n)'
  <2>1. PICK n \in Nat : Turn(n)
    BY <1>7 DEF TurnInv, InTurn
  <2>2. \A j \in Consumers : pc[j] \in Loops => j = k
    BY <1>1, <1>7 DEF FlowInv, Traced, OneReader, Loops
  <2>3. \A j \in Consumers : pc[j] # "handle"
    BY <1>1, <2>2 DEF Loops
  <2>4. /\ Len(wire) \in Nat /\ Len(wire) >= 1 /\ Len(wire') = Len(wire) - 1
        /\ Head(wire) = wire[1]
        /\ \A i \in 1..(Len(wire) - 1) : wire'[i] = wire[i + 1]
    BY <1>1, HeadTailProperties DEF FlowInv, Contents
  <2>5. Head(wire).msg = n + 1
    BY <2>1, <2>4 DEF Turn
  <2>6. \A j \in Consumers : pc'[j] = "handle" => envelope'[j].msg = n + 1
    BY <1>4, <2>3, <2>5
  <2>7. handled' = 1..((n + 1) - 1) /\ \E j \in Consumers : pc'[j] = "handle"
    BY <1>1, <1>4, <2>1, <2>3 DEF Turn
  <2>8. ASSUME NEW i \in 1..Len(wire') PROVE wire'[i].msg = (n + 1) + i
    <3>1. i + 1 \in 1..Len(wire) /\ wire'[i] = wire[i + 1]
      BY <2>4
    <3>2. wire[i + 1].msg = n + (i + 1)
      BY <2>1, <3>1 DEF Turn
    <3> QED
      BY <3>1, <3>2
  <2>9. /\ Len(queue) \in Nat
        /\ \A i \in 1..Len(queue) : n + Len(wire) + i = (n + 1) + Len(wire') + i
        /\ n + Len(wire) + Len(queue) = (n + 1) + Len(wire') + Len(queue)
    BY <2>4, LenProperties DEF FlowInv, Contents
  <2>10. subs # 0
    BY <1>1 DEF FlowInv, Traced, OneReader, Loops
  <2>11. (\E c \in Channels : sub'[c]) \/ (subs' = 0 /\ "queue" \in topo') =>
           /\ \A i \in 1..Len(queue') : queue'[i] = (n + 1) + Len(wire') + i
           /\ (n + 1) + Len(wire') + Len(queue') = accepted'
    BY <1>1, <2>1, <2>9, <2>10 DEF Turn
  <2>12. Turn(n + 1)'
    BY <1>1, <2>6, <2>7, <2>8, <2>10, <2>11 DEF Turn
  <2> QED
    BY <2>12
<1> QED
  BY <1>1, <1>6, <1>7 DEF InTurn

(* The first subscription: everything is still in the queue.               *)
LEMMA SubscribeTurn ==
  ASSUME FlowInv, TurnInv, NEW k \in Consumers, BasicConsume(k), subs' # subs
  PROVE  OneChannel' /\ InTurn'
<1>1. /\ UNCHANGED <<handled, accepted, unacked, queue, wire, envelope, topo>>
      /\ pc[k] = "consume" /\ pc' = [pc EXCEPT ![k] = "loop"]
      /\ sub' = [sub EXCEPT ![guard[k]] = TRUE] /\ subs' = subs + 1 /\ "queue" \in topo
  BY DEF BasicConsume, producerVars, brokerVars
<1>2. /\ pc \in [Consumers -> PcState] /\ subs \in Nat /\ sub \in [Channels -> BOOLEAN]
      /\ Deliveries' = Deliveries
  BY <1>1 DEF FlowInv, PoolInv, Places, Contents, Deliveries, Accepted
<1>3. pc'[k] = "loop" /\ \A j \in Consumers \ {k} : pc'[j] = pc[j]
  BY <1>1, <1>2
<1>4. \A d : OnTheWay(d)' => OnTheWay(d)
  BY <1>1, <1>3 DEF OnTheWay, Reads
<1>5. ASSUME subs' <= 1
      PROVE  /\ subs = 0 /\ \A d \in Deliveries : ~OnTheWay(d)'
             /\ \A c \in Channels : sub'[c] => c = guard[k]
             /\ \A j \in Consumers : pc[j] \notin Loops /\ pc'[j] # "handle"
  <2>1. subs = 0
    BY <1>1, <1>2, <1>5
  <2>2. /\ \A d \in Deliveries : ~OnTheWay(d)
        /\ \A c \in Channels : ~sub[c]
        /\ \A j \in Consumers : pc[j] \notin Loops
    BY <2>1 DEF FlowInv, Traced, OneReader
  <2>3. \A c \in Channels : sub'[c] => c = guard[k]
    BY <1>1, <1>2, <2>2
  <2> QED
    BY <1>3, <1>4, <2>1, <2>2, <2>3 DEF Loops
<1>6. OneChannel'
  BY <1>2, <1>5 DEF OneChannel
<1>7. ASSUME subs' <= 1 PROVE \E n \in Nat : Turn(n)'
  <2>1. PICK n \in Nat : Turn(n)
    BY <1>5, <1>7 DEF TurnInv, InTurn
  <2>2. /\ \A i \in 1..Len(queue) : queue[i] = n + Len(wire) + i
        /\ n + Len(wire) + Len(queue) = accepted
    BY <1>1, <1>5, <1>7, <2>1 DEF Turn
  <2>3. \A j \in Consumers : pc[j] # "handle" /\ pc'[j] # "handle"
    BY <1>5, <1>7 DEF Loops
  <2>4. handled = 1..n /\ (\A i \in 1..Len(wire) : wire[i].msg = n + i)
    BY <2>1, <2>3 DEF Turn
  <2>5. subs' # 0
    BY <1>1, <1>2
  <2> QED
    BY <1>1, <2>2, <2>3, <2>4, <2>5 DEF Turn
<1> QED
  BY <1>6, <1>7 DEF InTurn

(* The handler is called with the message whose turn it is.                *)
LEMMA HandleTurn ==
  ASSUME FlowInv, TurnInv, NEW k \in Consumers, Handle(k), pc' # pc
  PROVE  OneChannel' /\ InTurn'
<1>1. /\ UNCHANGED <<accepted, unacked, queue, wire, envelope, sub, subs, topo>>
      /\ pc[k] = "handle" /\ pc' = [pc EXCEPT ![k] = IF NoAck THEN "loop" ELSE "ack"]
      /\ handled' = handled \union {envelope[k].msg}
  BY DEF Handle, producerVars, channelVars, poolVars, brokerVars
<1>2. /\ pc \in [Consumers -> PcState] /\ envelope[k] \in Deliveries
      /\ Deliveries' = Deliveries
  BY <1>1 DEF FlowInv, PoolInv, Places, Contents, Reads, Deliveries, Accepted
<1>3. pc'[k] \in {"loop", "ack"} /\ \A j \in Consumers \ {k} : pc'[j] = pc[j]
  BY <1>1, <1>2
<1>4. \A j \in Consumers : pc'[j] \in Reads => pc[j] \in Reads
  BY <1>1, <1>3 DEF Reads
<1>5. \A d : OnTheWay(d)' => OnTheWay(d)
  BY <1>1, <1>4 DEF OnTheWay
<1>6. OneChannel'
  BY <1>1, <1>2, <1>5 DEF TurnInv, OneChannel
<1>7. ASSUME subs <= 1 PROVE \E n \in Nat : Turn(n)'
  <2>1. PICK n \in Nat : Turn(n)
    BY <1>7 DEF TurnInv, InTurn
  <2>2. subs # 0 /\ \A j \in Consumers : pc[j] \in Loops => j = k
    BY <1>1, <1>7 DEF FlowInv, Traced, OneReader, Loops
  <2>3. \A j \in Consumers : pc'[j] # "handle"
    BY <1>3, <2>2 DEF Loops
  <2>4. handled = 1..(n - 1) /\ envelope[k].msg = n
    BY <1>1, <2>1 DEF Turn
  <2>5. n >= 1
    <3>1. envelope[k].msg \in Accepted /\ accepted \in Nat
      BY <1>2 DEF Deliveries, FlowInv, Contents
    <3> QED
      BY <2>4, <3>1 DEF Accepted
  <2>6. handled' = 1..n
    BY <1>1, <2>4, <2>5
  <2>7. (\E c \in Channels : sub[c]) \/ (subs = 0 /\ "queue" \in topo) =>
          /\ \A i \in 1..Len(queue) : queue[i] = n + Len(wire) + i
          /\ n + Len(wire) + Len(queue) = accepted
    BY <2>1 DEF Turn
  <2>8. \A i \in 1..Len(wire) : wire[i].msg = n + i
    BY <2>1 DEF Turn
  <2> QED
    BY <1>1, <2>2, <2>3, <2>6, <2>7, <2>8 DEF Turn
<1> QED
  BY <1>1, <1>6, <1>7 DEF InTurn

LEMMA AckTurn ==
  ASSUME FlowInv, TurnInv, NEW k \in Consumers, Ack(k), gone' # gone
  PROVE  OneChannel' /\ InTurn'
<1> DEFINE D == {d \in unacked[guard[k]] : d.tag = envelope[k].tag}
<1>1. /\ UNCHANGED <<handled, accepted, queue, wire, sub, subs, topo>>
      /\ pc[k] = "ack" /\ pc' = [pc EXCEPT ![k] = "loop"]
      /\ unacked' = [unacked EXCEPT ![guard[k]] = @ \ D]
      /\ envelope' = [envelope EXCEPT ![k] = NoDelivery]
  BY DEF Ack, producerVars, brokerVars
<1>2. /\ pc \in [Consumers -> PcState] /\ unacked \in [Channels -> SUBSET Deliveries]
      /\ envelope \in [Consumers -> Deliveries \cup {NoDelivery}]
      /\ Deliveries' = Deliveries
  BY <1>1 DEF FlowInv, PoolInv, Places, Contents, Deliveries, Accepted
<1>3. pc'[k] = "loop" /\ \A j \in Consumers \ {k} : pc'[j] = pc[j] /\ envelope'[j] = envelope[j]
  BY <1>1, <1>2
<1>4. \A c \in Channels : unacked'[c] \subseteq unacked[c]
  BY <1>1, <1>2
<1>5. \A d : OnTheWay(d)' => OnTheWay(d)
  BY <1>1, <1>3, <1>4 DEF OnTheWay, Reads
<1>6. OneChannel'
  BY <1>1, <1>2, <1>5 DEF TurnInv, OneChannel
<1>7. \A j \in Consumers : /\ pc'[j] = "handle" <=> pc[j] = "handle"
                           /\ pc[j] = "handle" => envelope'[j] = envelope[j]
  BY <1>1, <1>3
<1>8. ASSUME NEW n \in Nat, Turn(n) PROVE Turn(n)'
  BY <1>1, <1>7, <1>8 DEF Turn
<1> QED
  BY <1>1, <1>6, <1>8 DEF TurnInv, InTurn

LEMMA TurnInit == Init => TurnInv
<1> SUFFICES ASSUME Init PROVE TurnInv
  OBVIOUS
<1>1. /\ queue = <<>> /\ wire = <<>> /\ accepted = 0 /\ subs = 0 /\ topo = {}
      /\ sub = [c \in Channels |-> FALSE]
      /\ pc = [k \in Consumers |-> "none"] /\ handled = {}
  BY DEF Init
<1>2. \A c \in Channels : ~sub[c]
  BY <1>1
<1>3. handled = 1..0 /\ Len(wire) = 0
  BY <1>1
<1>4. Turn(0)
  BY <1>1, <1>2, <1>3 DEF Turn
<1> QED
  BY <1>2, <1>4 DEF TurnInv, OneChannel, Linked, InTurn

LEMMA TurnStep ==
  ASSUME FlowInv, Bound, TurnInv, [Next]_vars
  PROVE  TurnInv'
<1> DEFINE Calm == \A k \in Consumers : (pc[k] = "handle" => pc'[k] = "handle") /\ ~Read(k)
<1>1. Linked'
  BY LinkStep DEF TurnInv
<1>2. ASSUME Narrows, Calm PROVE OneChannel' /\ InTurn'
  BY <1>2, NarrowsOneChannel, NarrowsTurn DEF TurnInv
<1>3. ASSUME UNCHANGED pc PROVE Calm
  <2>1. ASSUME NEW k \in Consumers, Read(k) PROVE FALSE
    <3>1. pc \in [Consumers -> PcState]
      BY DEF FlowInv, PoolInv, Places
    <3>2. pc[k] = "read" /\ pc'[k] = "handle"
      BY <2>1, <3>1 DEF Read
    <3> QED
      BY <1>3, <3>2
  <2> QED
    BY <1>3, <2>1
<1>4. ASSUME NEW k \in Consumers, NEW here \in PcState, NEW there,
             pc[k] = here, here # "handle", there # "handle", pc' = [pc EXCEPT ![k] = there]
      PROVE  Calm
  <2>1. pc \in [Consumers -> PcState]
    BY DEF FlowInv, PoolInv, Places
  <2>2. /\ pc'[k] # "handle"
        /\ \A j \in Consumers \ {k} : pc'[j] = pc[j]
    BY <1>4, <2>1
  <2>3. ASSUME NEW j \in Consumers, Read(j) PROVE FALSE
    <3>1. pc[j] = "read" /\ pc'[j] = "handle"
      BY <2>1, <2>3 DEF Read
    <3> QED
      BY <2>2, <3>1
  <2> QED
    BY <1>4, <2>2, <2>3
<1> HIDE DEF Calm
<1>5. CASE Setup \/ BeginTeardown \/ Teardown \/ EndOperation
  <2>1. UNCHANGED pc
    BY <1>5 DEF Setup, Teardown, BeginSetup, DeclareExchange, DeclareQueue, BindQueue,
       BeginTeardown, UnbindQueue, DeleteQueue, DeleteExchange, Operate, EndOperation,
       consumerVars
  <2>2. Narrows
    BY <1>5, SetupNarrows
  <2> QED
    BY <1>1, <1>2, <1>3, <2>1, <2>2 DEF TurnInv
<1>6. CASE Connect \/ BeginClose \/ Close \/ ServerLost \/ Reconnected \/ UNCHANGED vars
  <2>1. UNCHANGED pc
    BY <1>6 DEF Connect, BeginClose, Close, ServerLost, Reconnected, vars, consumerVars
  <2>2. Narrows
    BY <1>6, OtherNarrows
  <2> QED
    BY <1>1, <1>2, <1>3, <2>1, <2>2 DEF TurnInv
<1>7. ASSUME NEW c \in Channels, Deliver(c) PROVE OneChannel' /\ InTurn'
  BY <1>7, DeliverTurn
<1>8. ASSUME NEW p \in Producers, Send(p) PROVE OneChannel' /\ InTurn'
  BY <1>8, AcceptTurn
<1>9. ASSUME NEW k \in Consumers, Start(k) \/ Stop(k) \/ Join(k) \/ Loop(k)
      PROVE  OneChannel' /\ InTurn'
  <2> DEFINE Mild == Start(k) \/ Stop(k) \/ Join(k) \/ LoopAcquire(k) \/ BeginRead(k)
                     \/ ReadNothing(k) \/ Cancel(k)
  <2>1. CASE Mild
    <3>1. Narrows
      BY <2>1, ConsumerNarrows
    <3>2. UNCHANGED pc \/ \E here \in PcState, there \in PcState :
            /\ pc[k] = here /\ here # "handle" /\ there # "handle"
            /\ pc' = [pc EXCEPT ![k] = there]
      BY <2>1 DEF Start, Stop, Join, LoopAcquire, BeginRead, ReadNothing, Cancel, PcState
    <3>3. Calm
      BY <1>3, <1>4, <3>2
    <3> QED
      BY <1>2, <3>1, <3>3
  <2>2. CASE BasicConsume(k) /\ subs' = subs
    <3>1. pc[k] = "consume" /\ \E there \in {"loop", "ended"} : pc' = [pc EXCEPT ![k] = there]
      BY <2>2 DEF BasicConsume
    <3>2. Calm
      BY <1>4, <3>1 DEF PcState
    <3> QED
      BY <1>2, <2>2, <3>2, ConsumerNarrows
  <2>3. CASE Handle(k) /\ UNCHANGED pc
    BY <1>2, <1>3, <2>3, ConsumerNarrows
  <2>4. CASE Ack(k) /\ gone' = gone
    <3>1. pc[k] = "ack" /\ pc' = [pc EXCEPT ![k] = "loop"]
      BY <2>4 DEF Ack
    <3>2. Calm
      BY <1>4, <3>1 DEF PcState
    <3> QED
      BY <1>2, <2>4, <3>2, ConsumerNarrows
  <2> QED
    BY <1>9, <2>1, <2>2, <2>3, <2>4, ReadTurn, SubscribeTurn, HandleTurn, AckTurn DEF Loop
<1> QED
  BY <1>1, <1>5, <1>6, <1>7, <1>8, <1>9 DEF Next, TurnInv

(* In the life of one subscription the handler is called with message 1,   *)
(* 2, 3 and so on as the server accepted them: none twice, none left out,  *)
(* whatever is lost, refused or thrown meanwhile; what the server takes    *)
(* back is not delivered a second time.  (Consumer::consume_loop().)       *)
THEOREM HandledInTurn ==
  Spec => [](subs <= 1 =>
               \A k \in Consumers : pc[k] = "handle" => handled = 1..(envelope[k].msg - 1))
<1>1. FlowInv /\ Bound /\ TurnInv /\ [Next]_vars => FlowInv' /\ Bound' /\ TurnInv'
  BY FlowStep, BoundStep, TurnStep
<1>2. TurnInv =>
        (subs <= 1 =>
           \A k \in Consumers : pc[k] = "handle" => handled = 1..(envelope[k].msg - 1))
  BY DEF TurnInv, InTurn, Turn
<1>3. Init => Bound
  BY ConservedInit DEF Conserved
<1> QED
  BY FlowInit, TurnInit, <1>1, <1>2, <1>3, PTL DEF Spec
=============================================================================
