--------------------------- MODULE MCRedisConnPool ---------------------------
(* Instances of RedisConnPool for TLC, with a history variable.            *)
EXTENDS RedisConnPool

VARIABLE strays   \* the connections that were lent when shutdown() last ended

Lent == Cardinality({c \in Clients : guard[c] # NoConn})
        + Cardinality({c \in Clients : pc[c] \in InReturn})

NoteStrays == strays' = IF app = "stopping" /\ app' = "down" THEN Lent' ELSE strays

MCInit == Init /\ strays = 0
MCNext == Next /\ NoteStrays
MCFairSpec == MCInit /\ [][MCNext]_<<vars, strays>> /\ Fairness

(* The statistics describe the pool: pending_waiters counts the calls that  *)
(* wait, idle_connections the queue whenever m_mutex is free, and           *)
(* active_connections what is lent or on its way back, less what was lent   *)
(* when shutdown() set it to 0.                                             *)
StatsExact ==
  /\ m_stats.active = Lent - strays
  /\ m_stats.waiters = Cardinality({c \in Clients : pc[c] \in Awake \cup {"waiting"}})
  /\ Unlocked => m_stats.idle = Len(m_conn_queue)
=============================================================================
