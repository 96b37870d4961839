------------------------------ MODULE LoanPool ------------------------------
(***************************************************************************)
(* What a pool with safe guards promises: every open connection is idle in *)
(* the pool or on loan to exactly one client, who may hold two for a while *)
(* (the one it is giving back and the one it has just been given); none is *)
(* ever out of sight.  RedisConnPool implements this specification, and so *)
(* does RabbitChannels for the channels of its pool.                       *)
(***************************************************************************)

CONSTANTS Clients,   \* the threads that borrow
          Conns      \* the connections there may ever be at one time

VARIABLES open,      \* the connections that exist
          idle,      \* those in the pool
          loans      \* those each client has

loanVars == <<open, idle, loans>>

LoanInit == /\ open = {}
            /\ idle = {}
            /\ loans = [c \in Clients |-> {}]

OpenIdle(X) == /\ X \cap open = {}
               /\ open' = open \cup X
               /\ idle' = idle \cup X
               /\ UNCHANGED loans

CloseIdle(X) == /\ X \subseteq idle
                /\ open' = open \ X
                /\ idle' = idle \ X
                /\ UNCHANGED loans

Lend(c, x) == /\ x \in idle
              /\ idle' = idle \ {x}
              /\ loans' = [loans EXCEPT ![c] = @ \cup {x}]
              /\ UNCHANGED open

GiveBack(c, x) == /\ x \in loans[c]
                  /\ idle' = idle \cup {x}
                  /\ loans' = [loans EXCEPT ![c] = @ \ {x}]
                  /\ UNCHANGED open

Discard(c, x) == /\ x \in loans[c]
                 /\ open' = open \ {x}
                 /\ loans' = [loans EXCEPT ![c] = @ \ {x}]
                 /\ UNCHANGED idle

LoanNext == \/ \E X \in SUBSET Conns : OpenIdle(X) \/ CloseIdle(X)
            \/ \E c \in Clients, x \in Conns : Lend(c, x) \/ GiveBack(c, x) \/ Discard(c, x)

LoanSpec == LoanInit /\ [][LoanNext]_loanVars
=============================================================================
