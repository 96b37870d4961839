------------------------- MODULE StockRepository -------------------------
(***************************************************************************)
(* The MySQL side of the inventory demo: InventoryRepository               *)
(* (demos/demo1/src/inventory_repository.cpp) on top of MySQLConnection's  *)
(* transaction flag (database-connection-pool/src/MySQLConnection.cpp),    *)
(* for one row of the table `inventory`.                                   *)
(*                                                                         *)
(* A call of deduct_stock() is one pessimistic transaction: begin(),       *)
(* SELECT ... FOR UPDATE, UPDATE, commit().  Every statement may throw, and *)
(* the handler then returns an error WITHOUT rollback(): the guard gives   *)
(* the connection back as it is, with m_transaction still set and the row  *)
(* lock and an executed UPDATE, if it had them, still there.  The next     *)
(* begin() on that connection is a no-op that continues the transaction,   *)
(* and the next commit() makes good what the earlier call had abandoned.   *)
(*                                                                         *)
(* The server is external: a row lock with one owner, lock wait timeouts   *)
(* that fail the statement and not the transaction, a rollback when a      *)
(* connection dies, a snapshot (REPEATABLE READ) that the first plain      *)
(* SELECT of a transaction takes and the later ones repeat, and the row as *)
(* an open transaction has updated it, which nobody else sees.             *)
(***************************************************************************)
EXTENDS Naturals, FiniteSets

CONSTANTS
    Callers,      \* threads that call deduct_stock()
    DbConns,      \* connections of the MySQL pool
    NoConn,       \* no connection
    NoView,       \* a connection that took no snapshot or updated nothing
    NoRow,        \* the row of the item was not inserted yet
    InitStock,    \* the stock bootstrap inserts
    Quantities    \* quantities a call may ask for

ASSUME RepositoryAssumption ==
    /\ NoConn \notin DbConns
    /\ InitStock \in Nat
    /\ Quantities \subseteq Nat \ {0}
    /\ NoView \notin Nat
    /\ NoRow \notin Nat

VARIABLES
    stock,    \* the committed value of the row
    rowLock,  \* the connection whose transaction locked the row
    inTx,     \* m_transaction of each connection
    alive,    \* the server still serves the connection
    view,     \* the snapshot of the transaction left open on a connection
    written,  \* the row as the open transaction of a connection updated it
    pending,  \* history: the quantity that transaction took from the row
    sql,      \* where each call of deduct_stock() is
    conn,     \* the connection in each call's guard
    seen,     \* the local `current`
    qty,      \* the parameter qty
    known,    \* the parameter item_id is an item of the table
    sold,     \* history: the quantity of all calls that returned a new stock
    lost,     \* history: the quantity of commits whose answer was lost
    late      \* history: quantities that another call's commit() made good

txVars == <<view, written, pending>>
connVars == <<inTx, alive, txVars>>
salesVars == <<sold, lost, late>>
callVars == <<sql, conn, seen, qty, known>>
repoVars == <<stock, rowLock, connVars, callVars, salesVars>>

-----------------------------------------------------------------------------
(* Connections *)

Free == DbConns \ {conn[p] : p \in Callers}

\* the server forgets a transaction: its lock, snapshot and updates go
ForgetTransaction(c) ==
    /\ rowLock' = IF rowLock = c THEN NoConn ELSE rowLock
    /\ view' = [view EXCEPT ![c] = NoView]
    /\ written' = [written EXCEPT ![c] = NoView]
    /\ pending' = [pending EXCEPT ![c] = 0]

\* the row as a locking read on the connection sees it
RowIn(c) == IF written[c] # NoView THEN written[c] ELSE stock

\* begin() on an open transaction continues it
Begin(c) == inTx' = [inTx EXCEPT ![c] = TRUE]

\* Mutant of EndTransaction: the flag is reset, the server never told.
EndTransactionFlagOnly(c) ==
    /\ inTx' = [inTx EXCEPT ![c] = FALSE]
    /\ view' = [view EXCEPT ![c] = NoView]
    /\ written' = [written EXCEPT ![c] = NoView]
    /\ pending' = [pending EXCEPT ![c] = 0]
    /\ UNCHANGED rowLock

\* the end of commit() and of rollback(): autocommit again
EndTransaction(c) ==
    /\ inTx' = [inTx EXCEPT ![c] = FALSE]
    /\ ForgetTransaction(c)

\* leaving deduct_stock(): the guard gives the connection back
Leave(p, result) ==
    /\ sql' = [sql EXCEPT ![p] = result]
    /\ conn' = [conn EXCEPT ![p] = NoConn]

-----------------------------------------------------------------------------
(* deduct_stock() *)

RepoInit ==
    /\ stock = NoRow /\ rowLock = NoConn
    /\ inTx = [c \in DbConns |-> FALSE]
    /\ alive = [c \in DbConns |-> TRUE]
    /\ view = [c \in DbConns |-> NoView]
    /\ written = [c \in DbConns |-> NoView]
    /\ pending = [c \in DbConns |-> 0]
    /\ sql = [p \in Callers |-> "idle"]
    /\ conn = [p \in Callers |-> NoConn]
    /\ seen = [p \in Callers |-> 0]
    /\ qty = [p \in Callers |-> 0]
    /\ known = [p \in Callers |-> TRUE]
    /\ sold = 0 /\ lost = 0 /\ late = 0

\* init_stock(): INSERT ... ON DUPLICATE KEY UPDATE stock = stock
InitRow ==
    /\ stock' = IF stock = NoRow THEN InitStock ELSE stock
    /\ UNCHANGED <<rowLock, connVars, callVars, salesVars>>

\* a free connection and begin(); on a dead one a statement throws
OpenTransaction(p) ==
    /\ sql[p] = "conn"
    /\ \E c \in Free :
         \/ /\ alive[c]
            /\ Begin(c)
            /\ conn' = [conn EXCEPT ![p] = c]
            /\ sql' = [sql EXCEPT ![p] = "select"]
         \/ /\ ~alive[c]
            /\ Leave(p, "failed")
            /\ UNCHANGED inTx
    /\ UNCHANGED <<stock, rowLock, alive, txVars, seen, qty, known, salesVars>>

\* the pool has no connection to give within its timeout: kMySQLUnavailable
NoDbConnection(p) ==
    /\ sql[p] = "conn" /\ Free = {}
    /\ Leave(p, "failed")
    /\ UNCHANGED <<stock, rowLock, connVars, seen, qty, known, salesVars>>

\* the pool makes a connection and the server refuses it: the exception of the
\* connector passes get_connection(), which is outside the try, and leaves
\* deduct_stock() with no result
ConnectThrows(p) ==
    /\ sql[p] = "conn" /\ Free # {}
    /\ Leave(p, "idle")
    /\ UNCHANGED <<stock, rowLock, connVars, seen, qty, known, salesVars>>

\* Mutant of SelectForUpdate: a plain SELECT, which takes no lock.
SelectForUpdateUnlocked(p) ==
    /\ sql[p] = "select" /\ known[p]
    /\ seen' = [seen EXCEPT ![p] = RowIn(conn[p])]
    /\ IF RowIn(conn[p]) < qty[p]
       THEN Leave(p, "failed") /\ EndTransaction(conn[p])
       ELSE /\ sql' = [sql EXCEPT ![p] = "update"]
            /\ UNCHANGED <<rowLock, inTx, txVars, conn>>
    /\ UNCHANGED <<stock, alive, qty, known, salesVars>>

\* SELECT ... FOR UPDATE got the row; too little stock rolls back
SelectForUpdate(p) ==
    /\ sql[p] = "select" /\ known[p]
    /\ rowLock \in {NoConn, conn[p]}
    /\ seen' = [seen EXCEPT ![p] = RowIn(conn[p])]
    /\ IF RowIn(conn[p]) < qty[p]
       THEN Leave(p, "failed") /\ EndTransaction(conn[p])
       ELSE /\ rowLock' = conn[p]
            /\ sql' = [sql EXCEPT ![p] = "update"]
            /\ UNCHANGED <<inTx, txVars, conn>>
    /\ UNCHANGED <<stock, alive, qty, known, salesVars>>

\* no such row: rollback() and an error
RowNotFound(p) ==
    /\ sql[p] = "select" /\ ~known[p]
    /\ Leave(p, "failed") /\ EndTransaction(conn[p])
    /\ UNCHANGED <<stock, alive, seen, qty, known, salesVars>>

\* another transaction kept the row for innodb_lock_wait_timeout: the
\* exception leaves the transaction open
LockWaitTimeout(p) ==
    /\ sql[p] = "select" /\ known[p]
    /\ rowLock \notin {NoConn, conn[p]}
    /\ Leave(p, "failed")
    /\ UNCHANGED <<stock, rowLock, connVars, seen, qty, known, salesVars>>

\* UPDATE inventory SET stock = current - qty, visible to nobody else yet
WriteRow(p) ==
    /\ written' = [written EXCEPT ![conn[p]] = seen[p] - qty[p]]
    /\ pending' = [pending EXCEPT ![conn[p]] = @ + qty[p]]

UpdateRow(p) ==
    /\ sql[p] = "update"
    /\ sql' = [sql EXCEPT ![p] = "commit"]
    /\ WriteRow(p)
    /\ UNCHANGED <<stock, rowLock, inTx, alive, view, conn, seen, qty, known,
                   salesVars>>

\* the server commits p's transaction, and what other calls left in it
Committed(p) ==
    /\ stock' = written[conn[p]]
    /\ late' = late + (pending[conn[p]] - qty[p])

Commit(p) ==
    /\ sql[p] = "commit"
    /\ Committed(p)
    /\ sold' = sold + qty[p]
    /\ Leave(p, "ok") /\ EndTransaction(conn[p])
    /\ UNCHANGED <<alive, seen, qty, known, lost>>

\* a statement throws on a connection that lives on, begin() and rollback()
\* included: no rollback(), and the server may have locked the row or updated it
\* before; a prepare_statement() that throws leaves m_pstmt pointing to what it deleted, and
\* the next one deletes it again: nothing may come of it, or the process ends,
\* which Crash covers
StatementError(p) ==
    /\ \/ /\ sql[p] \in {"conn", "select", "update"}
          /\ sql[p] = "conn" => Free # {}
          /\ UNCHANGED <<rowLock, written, pending>>
       \/ /\ sql[p] = "select" /\ known[p] /\ rowLock = NoConn
          /\ rowLock' = conn[p]
          /\ UNCHANGED <<written, pending>>
       \/ sql[p] = "update" /\ WriteRow(p) /\ UNCHANGED rowLock
    /\ Leave(p, "failed")
    /\ UNCHANGED <<stock, inTx, alive, view, seen, qty, known, salesVars>>

\* commit() throws on a connection that lives on, m_transaction still set: the
\* UPDATE stays in the open transaction, or the server rolled it back, or it was
\* committed and setAutoCommit() threw
CommitError(p) ==
    /\ sql[p] = "commit"
    /\ \/ UNCHANGED <<stock, rowLock, txVars, lost, late>>
       \/ ForgetTransaction(conn[p]) /\ UNCHANGED <<stock, lost, late>>
       \/ /\ ForgetTransaction(conn[p])
          /\ Committed(p)
          /\ lost' = lost + qty[p]
    /\ Leave(p, "failed")
    /\ UNCHANGED <<inTx, alive, seen, qty, known, sold>>

\* the connection dies under a statement and the server rolls back; a
\* commit() may have been done before
ConnectionLost(p) ==
    /\ sql[p] \in {"select", "update", "commit"}
    /\ alive' = [alive EXCEPT ![conn[p]] = FALSE]
    /\ ForgetTransaction(conn[p])
    /\ Leave(p, "failed")
    /\ \/ UNCHANGED <<stock, lost, late>>
       \/ /\ sql[p] = "commit"
          /\ Committed(p)
          /\ lost' = lost + qty[p]
    /\ UNCHANGED <<inTx, seen, qty, known, sold>>

\* the pool recycles a connection that was idle for long, dead or not, and makes
\* another in its place when it has none to lend; nothing else replaces one
Recycle(c) ==
    /\ c \in Free
    /\ alive' = [alive EXCEPT ![c] = TRUE]
    /\ EndTransaction(c)
    /\ UNCHANGED <<stock, callVars, salesVars>>

\* get_stock() on a pooled connection: inside a transaction left open it sees
\* what the transaction updated, or takes, then repeats, its snapshot
Snapshot(c) == IF view[c] # NoView THEN view[c] ELSE stock
StockOn(c) == IF ~inTx[c] THEN stock
              ELSE IF written[c] # NoView THEN written[c] ELSE Snapshot(c)
GetStock(c) ==
    /\ c \in Free /\ alive[c]
    /\ view' = IF inTx[c] THEN [view EXCEPT ![c] = Snapshot(c)] ELSE view
    /\ UNCHANGED <<stock, rowLock, inTx, alive, written, pending, callVars,
                   salesVars>>

\* the process dies: the server rolls back what its connections had open
RepoCrash ==
    /\ rowLock' = NoConn
    /\ inTx' = [c \in DbConns |-> FALSE]
    /\ alive' = [c \in DbConns |-> TRUE]
    /\ view' = [c \in DbConns |-> NoView]
    /\ written' = [c \in DbConns |-> NoView]
    /\ pending' = [c \in DbConns |-> 0]
    /\ sql' = [p \in Callers |-> "idle"]
    /\ conn' = [p \in Callers |-> NoConn]
    /\ seen' = [p \in Callers |-> 0]
    /\ qty' = [p \in Callers |-> 0]
    /\ known' = [p \in Callers |-> TRUE]
    /\ UNCHANGED <<stock, salesVars>>

\* the steps of a call that need no fault
RepoStep(p) ==
    \/ OpenTransaction(p) \/ NoDbConnection(p)
    \/ SelectForUpdate(p) \/ RowNotFound(p) \/ LockWaitTimeout(p)
    \/ UpdateRow(p) \/ Commit(p)

-----------------------------------------------------------------------------
(* Properties *)

\* The type invariant.
RepoTypeOK ==
    /\ stock \in Nat \union {NoRow}
    /\ rowLock \in DbConns \union {NoConn}
    /\ inTx \in [DbConns -> BOOLEAN]
    /\ alive \in [DbConns -> BOOLEAN]
    /\ view \in [DbConns -> Nat \union {NoView}]
    /\ written \in [DbConns -> Nat \union {NoView}]
    /\ pending \in [DbConns -> Nat]
    /\ sql \in [Callers -> {"idle", "conn", "select", "update", "commit",
                            "ok", "failed"}]
    /\ conn \in [Callers -> DbConns \union {NoConn}]
    /\ seen \in [Callers -> Nat]
    /\ qty \in [Callers -> Quantities \union {0}]
    /\ known \in [Callers -> BOOLEAN]
    /\ sold \in Nat
    /\ lost \in Nat
    /\ late \in Nat

\* No update is lost: whatever calls ran at the same time, failed half way or
\* continued a transaction another call had left open, the row is what
\* bootstrap inserted less every quantity that was committed: of the calls that
\* said so, of those whose answer was lost, and of those that had abandoned their
\* UPDATE in a transaction which somebody else committed.
\* (deduct_stock(): begin, SELECT ... FOR UPDATE, UPDATE, commit.)
Ledger == stock # NoRow => stock + sold + lost + late = InitStock

\* The row is locked only from inside a transaction: a lock never outlives
\* the m_transaction flag of its connection, so whoever next calls begin(),
\* commit() or rollback() on that connection still reaches it.
LockInTransaction == rowLock # NoConn => inTx[rowLock] /\ alive[rowLock]
=============================================================================
