----------------------------- MODULE LendingPool -----------------------------
(***************************************************************************)
(* What a connection pool promises the threads that borrow from it, with   *)
(* no queue, lock, condition variable or guard object in sight: an open    *)
(* connection is either idle in the pool, lent to exactly one borrower, or *)
(* lost by the borrower that dropped it; only an idle connection is lent,  *)
(* and only an idle one or one that its borrower hands back is closed, so  *)
(* nobody uses a connection that is gone or that somebody else uses.       *)
(* DbConnPool implements this specification.                               *)
(***************************************************************************)

CONSTANTS Clients,   \* the threads that borrow
          Conns,     \* the connections there may ever be at one time
          NoConn     \* no connection

VARIABLES idle,      \* the connections in the pool
          lent,      \* what each client has borrowed, or NoConn
          lost       \* open, and neither idle nor lent

lendingVars == <<idle, lent, lost>>

Open == idle \cup {lent[c] : c \in Clients} \cup lost

LendingInit == /\ idle = {}
               /\ lent = [c \in Clients |-> NoConn]
               /\ lost = {}

(* What the client had is lost when it takes another connection over it.   *)
LoseOld(c) == lost' = lost \cup ({lent[c]} \ {NoConn})

OpenIdle(X) == /\ X \cap Open = {}
               /\ idle' = idle \cup X
               /\ UNCHANGED <<lent, lost>>

CloseIdle(X) == /\ X \subseteq idle
                /\ idle' = idle \ X
                /\ UNCHANGED <<lent, lost>>

Lend(c, x) == /\ x \in idle
              /\ idle' = idle \ {x}
              /\ lent' = [lent EXCEPT ![c] = x]
              /\ LoseOld(c)

LendNothing(c) == /\ lent' = [lent EXCEPT ![c] = NoConn]
                  /\ LoseOld(c)
                  /\ UNCHANGED idle

GiveBack(c) == /\ lent[c] # NoConn
               /\ idle' = idle \cup {lent[c]}
               /\ lent' = [lent EXCEPT ![c] = NoConn]
               /\ UNCHANGED lost

Discard(c) == /\ lent[c] # NoConn
              /\ lent' = [lent EXCEPT ![c] = NoConn]
              /\ UNCHANGED <<idle, lost>>

LendingNext == \/ \E X \in SUBSET Conns : OpenIdle(X)
               \/ \E X \in SUBSET idle : CloseIdle(X)
               \/ \E c \in Clients : \/ \E x \in idle : Lend(c, x)
                                     \/ LendNothing(c) \/ GiveBack(c) \/ Discard(c)

LendingSpec == LendingInit /\ [][LendingNext]_lendingVars
=============================================================================
