---------------------------- MODULE MCDbConnPool ----------------------------
(* Instances of DbConnPool for TLC, with a history variable.               *)
EXTENDS DbConnPool

VARIABLE strays   \* the connections that were lent when shutdown() last ended

NoteStrays == strays' = IF app = "stopping" /\ app' = "down"
                        THEN Cardinality(Alive') ELSE strays

MCInit == Init /\ strays = 0
MCNext == Next /\ NoteStrays
MCFairSpec == MCInit /\ [][MCNext]_<<vars, strays>> /\ Fairness

(* m_current_size counts the open connections, wherever they are, less      *)
(* those that were lent when shutdown() set it to 0: whatever is lent,      *)
(* given back broken, recycled or expanded after that neither repairs the   *)
(* count nor takes it further away.                                         *)
SizeOffByStrays == Cardinality(Alive) = m_current_size + strays
=============================================================================
