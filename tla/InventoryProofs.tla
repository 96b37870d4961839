------------------------- MODULE InventoryProofs -------------------------
(***************************************************************************)
(* Proofs about the inventory demo.  Inventory and StockRepository: type   *)
(* correctness, the ledger of the row, the agreement of Redis with MySQL,  *)
(* the replies and the two diagnostics, for every set of callers and       *)
(* connections, every stock and every bound.  App and IniFile, at the end: *)
(* what a configuration file gives, for every file, and the shutdown.      *)
(*                                                                         *)
(* The inductive invariant has three layers: RepoInv says whose is the     *)
(* row while a transaction runs, ServiceInv ties the phases of deduct() to *)
(* it, and the rest are sums over the calls.                               *)
(***************************************************************************)
EXTENDS Inventory, App, FiniteSetTheorems, WellFoundedInduction, TLAPS

-----------------------------------------------------------------------------
(* The inductive invariant *)

(* Transactions: a call holds a connection exactly while its statements    *)
(* run, alone; from the SELECT ... FOR UPDATE to the commit it owns the    *)
(* row, so what it read is still the stock, less what its transaction had  *)
(* taken before.  An UPDATE stands only under the row lock, and the row as *)
(* written is the stock less what the open transaction took.               *)
InStatement == {"select", "update", "commit"}

CallConn == \A p \in Callers : conn[p] # NoConn <=> sql[p] \in InStatement
OwnConn == \A p, q \in Callers : conn[p] = conn[q] /\ conn[p] # NoConn => p = q
OpenConn == \A p \in Callers : conn[p] # NoConn => inTx[conn[p]] /\ alive[conn[p]]
RowOwner == \A p \in Callers : sql[p] \in {"update", "commit"} =>
              /\ rowLock = conn[p]
              /\ sql[p] = "update" => seen[p] + pending[conn[p]] = stock
              /\ sql[p] = "commit" => /\ written[conn[p]] = seen[p] - qty[p]
                                      /\ qty[p] <= pending[conn[p]]
Writers == \A c \in DbConns :
             /\ written[c] = NoView => pending[c] = 0
             /\ written[c] # NoView => rowLock = c /\ written[c] + pending[c] = stock
Read == \A p \in Callers : sql[p] \in {"update", "commit", "ok"} =>
          qty[p] <= seen[p] /\ known[p]
RowThere == \A p \in Callers : sql[p] # "idle" => stock # NoRow
NothingYet == stock = NoRow => sold = 0 /\ lost = 0 /\ late = 0

RepoInv == /\ RepoTypeOK /\ CallConn /\ OwnConn /\ OpenConn /\ RowOwner /\ Writers
           /\ Read /\ RowThere /\ NothingYet /\ Ledger /\ LockInTransaction

(* The phases of deduct().                                                 *)
Running == app \in {"serving", "draining", "stopped"}

Phases == \A p \in Callers : sql[p] # "idle" <=> at[p] \in {"sync", "fallback"}
Guards == \A p \in Callers :
            /\ at[p] \in {"idle", "guard", "done"} => held[p] = 0
            /\ at[p] \in {"eval", "sync", "rollback"} => held[p] = 1
            /\ at[p] = "incrby" => held[p] = 2
Replied == \A p \in Callers : result[p] # "none" <=> at[p] = "done"
Asked == \A p \in Callers : at[p] \notin {"idle", "done"} /\ known[p] => qty[p] > 0
Fallbacks == \A p \in Callers :
               /\ at[p] = "fallback" /\ sql[p] = "ok" => "fallback" \in causes
               /\ rebuild[p] # NoValue => "fallback" \in causes
Started == Running \/ app = "row" => stock # NoRow
Asleep == ~Running => /\ \A p \in Callers : at[p] = "idle" /\ rebuild[p] = NoValue
                      /\ test = NoTest /\ check = NoCheck
ServiceInv == /\ Phases /\ Guards /\ Replied /\ Asked /\ Fallbacks /\ Started
              /\ Asleep

(* Redis and MySQL: the exact case and the one in which only compensations *)
(* were given up or skipped.                                               *)
Kept == {"compensation", "escaped"}
Drift == Running /\ causes \subseteq Kept =>
           /\ cache # Missing /\ cache + TotalReserved <= stock
           /\ causes = {} => cache + TotalReserved = stock

(* The test: while nothing else falls into it only its threads call, for   *)
(* its quantity; what they took is what the row lost since its first       *)
(* reading; what it read later is the stock.                               *)
Undisturbed == {"running", "redis", "reported"}
TestTaken(p) == IF p \in test.threads THEN Taken(p) ELSE 0
TotalTestTaken == Total([p \in Callers |-> TestTaken(p)])

TestCalls ==
    /\ test.at # "none" => \A p \in test.threads : at[p] # "idle" => qty[p] = test.qty
    /\ test.at \in Undisturbed =>
         \A p \in Callers \ test.threads : at[p] \in {"idle", "done"}
    /\ test.at \in {"redis", "reported"} => \A p \in test.threads : at[p] = "done"
TestReads ==
    /\ test.at \in Undisturbed /\ causes = {} /\ test.fresh =>
         test.initial # NoValue /\ test.initial = stock + TotalTestTaken
    /\ test.at \in {"redis", "reported"} /\ causes = {} => test.redis \in {stock, NoValue}
    /\ test.at = "reported" /\ causes = {} /\ test.fresh => test.mysql \in {stock, NoValue}

(* The check: while nothing is under way, what it read from Redis is the   *)
(* stock.                                                                  *)
CheckReads ==
    /\ check.at = "redis" => InFlight = {}
    /\ check.at = "redis" /\ causes = {} => check.redis \in {stock, NoValue}

InventoryInv == /\ TypeOK /\ RepoInv /\ ServiceInv /\ Drift /\ RepliesTrue
                /\ TestCalls /\ TestReads /\ CheckReads /\ NoFalseAlarm

-----------------------------------------------------------------------------
(* Sums over the calls                                                     *)

(* The units of all calls but p.                                           *)
Others(f, p) == UNION {{q} \X (1..f[q]) : q \in Callers \ {p}}

(* The units of finitely many calls are finitely many.                     *)
LEMMA UnitsFinite ==
  ASSUME NEW f \in [Callers -> Nat], NEW S \in SUBSET Callers
  PROVE  /\ IsFiniteSet(UNION {{q} \X (1..f[q]) : q \in S})
         /\ Cardinality(UNION {{q} \X (1..f[q]) : q \in S}) \in Nat
<1> DEFINE Part(q) == {q} \X (1..f[q])
           Parts == {Part(q) : q \in S}
           part == [q \in S |-> Part(q)]
<1>1. \A q \in S : IsFiniteSet(Part(q))
  <2> TAKE q \in S
  <2>1. IsFiniteSet({q}) /\ f[q] \in Nat
    BY FS_Singleton
  <2>2. IsFiniteSet(1..f[q])
    BY <2>1, FS_Interval
  <2> QED
    BY <2>1, <2>2, FS_Product
<1>2. IsFiniteSet(S)
  BY InventoryAssumption, FS_Subset
<1>3. part \in Surjection(S, Parts)
  BY DEF Surjection
<1>4. IsFiniteSet(Parts)
  <2> HIDE DEF Parts, part
  <2> QED
    BY <1>2, <1>3, FS_Surjection
<1>5. IsFiniteSet(UNION Parts)
  BY <1>1, <1>4, FS_UNION
<1> QED
  BY <1>5, FS_CardinalityType

(* A total is a natural number, and it changes by what one call changes.   *)
LEMMA TotalSplit ==
  ASSUME NEW f \in [Callers -> Nat], NEW p \in Callers
  PROVE  /\ IsFiniteSet(Others(f, p))
         /\ Cardinality(Others(f, p)) \in Nat
         /\ Total(f) = Cardinality(Others(f, p)) + f[p]
<1>1. \A q \in Callers : /\ IsFiniteSet({q} \X (1..f[q]))
                         /\ Cardinality({q} \X (1..f[q])) = f[q]
  <2> TAKE q \in Callers
  <2>1. IsFiniteSet({q}) /\ Cardinality({q}) = 1
    BY FS_Singleton
  <2>2. f[q] \in Nat /\ IsFiniteSet(1..f[q]) /\ Cardinality(1..f[q]) = f[q]
    BY FS_Interval
  <2>3. IsFiniteSet({q} \X (1..f[q]))
        /\ Cardinality({q} \X (1..f[q])) = Cardinality({q}) * Cardinality(1..f[q])
    BY <2>1, <2>2, FS_Product
  <2> QED
    BY <2>1, <2>2, <2>3
<1>4. IsFiniteSet(Others(f, p))
  BY UnitsFinite DEF Others
<1>5. Units(f) = Others(f, p) \cup ({p} \X (1..f[p]))
  BY DEF Units, Others
<1>6. Others(f, p) \cap ({p} \X (1..f[p])) = {}
  BY DEF Others
<1>7. Cardinality(Others(f, p)) \in Nat
  BY <1>4, FS_CardinalityType
<1>8. Cardinality(Units(f)) = Cardinality(Others(f, p)) + f[p]
                              - Cardinality(Others(f, p) \cap ({p} \X (1..f[p])))
  BY <1>1, <1>4, <1>5, FS_Union
<1> QED
  BY <1>4, <1>6, <1>7, <1>8, FS_EmptySet DEF Total

LEMMA TotalStep ==
  ASSUME NEW f \in [Callers -> Nat], NEW g \in [Callers -> Nat], NEW p \in Callers,
         \A q \in Callers \ {p} : g[q] = f[q]
  PROVE  Total(f) \in Nat /\ Total(g) \in Nat /\ Total(g) + f[p] = Total(f) + g[p]
<1>1. Others(f, p) = Others(g, p)
  BY DEF Others
<1> QED
  BY <1>1, TotalSplit

LEMMA TotalSame ==
  ASSUME NEW f \in [Callers -> Nat], NEW g \in [Callers -> Nat],
         \A q \in Callers : g[q] = f[q]
  PROVE  Total(g) = Total(f)
<1>1. f = g
  OBVIOUS
<1> QED
  BY <1>1

LEMMA TotalNat ==
  ASSUME NEW f \in [Callers -> Nat]
  PROVE  Total(f) \in Nat
BY UnitsFinite DEF Total, Units

(* The total of a quantity that the calls of one set have and no other.    *)
LEMMA TotalUniform ==
  ASSUME NEW f \in [Callers -> Nat], NEW S \in SUBSET Callers, NEW k \in Nat,
         \A q \in Callers : f[q] = IF q \in S THEN k ELSE 0
  PROVE  Total(f) = Cardinality(S) * k
<1>1. Units(f) = S \X (1..k)
  <2>1. \A q \in Callers \ S : 1..f[q] = {}
    OBVIOUS
  <2> QED
    BY <2>1 DEF Units
<1>2. IsFiniteSet(S)
  BY InventoryAssumption, FS_Subset
<1>3. IsFiniteSet(1..k) /\ Cardinality(1..k) = k
  BY FS_Interval
<1> QED
  BY <1>1, <1>2, <1>3, FS_Product DEF Total

-----------------------------------------------------------------------------
(* Transactions                                                            *)

LEMMA RepoInitInv == RepoInit => RepoInv
BY RepositoryAssumption DEF RepoInit, RepoInv, RepoTypeOK, CallConn, OwnConn, OpenConn,
   RowOwner, Writers, Read, RowThere, NothingYet, Ledger, LockInTransaction, InStatement

(* A call that leaves and whose transaction the server forgets.            *)
LEMMA ForgottenInv ==
  ASSUME RepoInv, NEW p \in Callers, conn[p] # NoConn, NEW r \in {"ok", "failed"},
         Leave(p, r), ForgetTransaction(conn[p]),
         inTx' \in [DbConns -> BOOLEAN], alive' \in [DbConns -> BOOLEAN],
         \A c \in DbConns \ {conn[p]} : inTx'[c] = inTx[c] /\ alive'[c] = alive[c],
         stock' \in Nat, sold' \in Nat, lost' \in Nat, late' \in Nat,
         stock' + sold' + lost' + late' = InitStock,
         seen' \in [Callers -> Nat], \A q \in Callers \ {p} : seen'[q] = seen[q],
         r = "ok" => qty[p] <= seen'[p] /\ known[p],
         stock' # stock => rowLock = conn[p],
         UNCHANGED <<qty, known>>
  PROVE  RepoInv'
<1> USE RepositoryAssumption
<1>0. /\ conn[p] \in DbConns
      /\ written' = [written EXCEPT ![conn[p]] = NoView]
      /\ pending' = [pending EXCEPT ![conn[p]] = 0]
      /\ rowLock' = IF rowLock = conn[p] THEN NoConn ELSE rowLock
      /\ sql' = [sql EXCEPT ![p] = r] /\ conn' = [conn EXCEPT ![p] = NoConn]
  BY DEF RepoInv, RepoTypeOK, Leave, ForgetTransaction
<1>1. RepoTypeOK'
  BY DEF RepoInv, RepoTypeOK, Leave, ForgetTransaction
<1>2. CallConn' /\ OwnConn' /\ OpenConn'
  BY <1>0 DEF RepoInv, RepoTypeOK, CallConn, OwnConn, OpenConn, InStatement
<1>3. \A q \in Callers \ {p} : conn[q] # NoConn => conn[q] # conn[p]
  BY DEF RepoInv, OwnConn
<1>4. RowOwner'
  <2> SUFFICES ASSUME NEW q \in Callers, sql'[q] \in {"update", "commit"}
               PROVE  /\ rowLock' = conn'[q]
                      /\ sql'[q] = "update" => seen'[q] + pending'[conn'[q]] = stock'
                      /\ sql'[q] = "commit" => /\ written'[conn'[q]] = seen'[q] - qty'[q]
                                               /\ qty'[q] <= pending'[conn'[q]]
    BY DEF RowOwner
  <2>1. q # p /\ sql[q] = sql'[q] /\ conn'[q] = conn[q]
    BY <1>0 DEF RepoInv, RepoTypeOK
  <2>2. rowLock = conn[q] /\ conn[q] # NoConn /\ conn[q] \in DbConns
    BY <2>1 DEF RepoInv, RepoTypeOK, RowOwner, CallConn, InStatement
  <2>3. conn[q] # conn[p] /\ stock' = stock /\ seen'[q] = seen[q]
    BY <1>3, <2>1, <2>2
  <2>4. written'[conn[q]] = written[conn[q]] /\ pending'[conn[q]] = pending[conn[q]]
    BY <1>0, <2>2, <2>3 DEF RepoInv, RepoTypeOK
  <2> QED
    BY <1>0, <2>1, <2>2, <2>3, <2>4 DEF RepoInv, RowOwner
<1>5. Writers'
  <2> SUFFICES ASSUME NEW c \in DbConns
               PROVE  /\ written'[c] = NoView => pending'[c] = 0
                      /\ written'[c] # NoView => /\ rowLock' = c
                                                 /\ written'[c] + pending'[c] = stock'
    BY DEF Writers
  <2>1. CASE c = conn[p]
    BY <1>0, <2>1 DEF RepoInv, RepoTypeOK
  <2>2. CASE c # conn[p]
    <3>1. written'[c] = written[c] /\ pending'[c] = pending[c]
      BY <1>0, <2>2 DEF RepoInv, RepoTypeOK
    <3>2. written[c] = NoView => pending[c] = 0
      BY DEF RepoInv, Writers
    <3>3. written[c] # NoView => rowLock = c /\ written[c] + pending[c] = stock
      BY DEF RepoInv, Writers
    <3> QED
      BY <1>0, <2>2, <3>1, <3>2, <3>3
  <2> QED
    BY <2>1, <2>2
<1>6. Read'
  BY <1>0 DEF RepoInv, RepoTypeOK, Read
<1>7. RowThere' /\ NothingYet' /\ Ledger' /\ LockInTransaction'
  BY <1>0 DEF RepoInv, RepoTypeOK, OpenConn, RowThere, NothingYet, Ledger, LockInTransaction
<1> QED
  BY <1>1, <1>2, <1>4, <1>5, <1>6, <1>7 DEF RepoInv

LEMMA EndedInv ==
  ASSUME RepoInv, NEW p \in Callers, conn[p] # NoConn, NEW r \in {"ok", "failed"},
         Leave(p, r), EndTransaction(conn[p]),
         stock' \in Nat, sold' \in Nat, lost' \in Nat, late' \in Nat,
         stock' + sold' + lost' + late' = InitStock,
         seen' \in [Callers -> Nat], \A q \in Callers \ {p} : seen'[q] = seen[q],
         r = "ok" => qty[p] <= seen'[p] /\ known[p],
         stock' # stock => rowLock = conn[p],
         UNCHANGED <<alive, qty, known>>
  PROVE  RepoInv'
<1>1. inTx' \in [DbConns -> BOOLEAN] /\ alive' \in [DbConns -> BOOLEAN]
  BY DEF EndTransaction, RepoInv, RepoTypeOK
<1>2. \A c \in DbConns \ {conn[p]} : inTx'[c] = inTx[c] /\ alive'[c] = alive[c]
  BY DEF EndTransaction, RepoInv, RepoTypeOK
<1>3. ForgetTransaction(conn[p])
  BY DEF EndTransaction
<1> QED
  BY <1>1, <1>2, <1>3, ForgottenInv

(* What a call knows while deduct_stock() runs.                            *)
LEMMA CallFacts ==
  ASSUME RepoInv, NEW p \in Callers
  PROVE  /\ qty[p] \in Nat /\ seen[p] \in Nat /\ seen \in [Callers -> Nat]
         /\ sold \in Nat /\ lost \in Nat /\ late \in Nat
         /\ sql[p] # "idle" => stock \in Nat /\ stock + sold + lost + late = InitStock
         /\ sql[p] \in InStatement =>
              /\ conn[p] # NoConn /\ conn[p] \in DbConns
              /\ inTx[conn[p]] /\ alive[conn[p]] /\ pending[conn[p]] \in Nat
              /\ RowIn(conn[p]) \in Nat /\ RowIn(conn[p]) + pending[conn[p]] = stock
         /\ sql[p] \in {"update", "commit"} =>
              rowLock = conn[p] /\ qty[p] <= seen[p] /\ known[p]
         /\ sql[p] = "update" => seen[p] + pending[conn[p]] = stock
         /\ sql[p] = "commit" => /\ written[conn[p]] = seen[p] - qty[p]
                                 /\ written[conn[p]] \in Nat
                                 /\ written[conn[p]] + pending[conn[p]] = stock
                                 /\ qty[p] <= pending[conn[p]]
<1>1. qty[p] \in Quantities \cup {0}
  BY DEF RepoInv, RepoTypeOK
<1>2. qty[p] \in Nat
  <2>1. \A n \in Quantities : n \in Nat
    BY RepositoryAssumption
  <2> QED
    BY <1>1, <2>1
<1>3. /\ seen[p] \in Nat /\ seen \in [Callers -> Nat]
      /\ sold \in Nat /\ lost \in Nat /\ late \in Nat
      /\ sql[p] # "idle" => stock \in Nat /\ stock + sold + lost + late = InitStock
  <2>1. /\ sold \in Nat /\ lost \in Nat /\ late \in Nat
        /\ seen \in [Callers -> Nat] /\ stock \in Nat \cup {NoRow}
    BY DEF RepoInv, RepoTypeOK
  <2>2. sql[p] # "idle" => stock # NoRow
    BY DEF RepoInv, RowThere
  <2> QED
    BY <2>1, <2>2 DEF RepoInv, Ledger
<1>4. ASSUME sql[p] \in InStatement
      PROVE  /\ conn[p] # NoConn /\ conn[p] \in DbConns
             /\ inTx[conn[p]] /\ alive[conn[p]] /\ pending[conn[p]] \in Nat
             /\ written[conn[p]] \in Nat \cup {NoView} /\ stock \in Nat
             /\ RowIn(conn[p]) \in Nat /\ RowIn(conn[p]) + pending[conn[p]] = stock
  <2>1. conn[p] # NoConn /\ conn[p] \in DbConns /\ inTx[conn[p]] /\ alive[conn[p]]
    BY <1>4 DEF RepoInv, RepoTypeOK, CallConn, OpenConn
  <2>2. pending[conn[p]] \in Nat /\ written[conn[p]] \in Nat \cup {NoView}
    BY <2>1 DEF RepoInv, RepoTypeOK
  <2>3. stock \in Nat
    BY <1>3, <1>4, RepositoryAssumption DEF InStatement
  <2>4. /\ written[conn[p]] = NoView => pending[conn[p]] = 0
        /\ written[conn[p]] # NoView => written[conn[p]] + pending[conn[p]] = stock
    BY <2>1 DEF RepoInv, Writers
  <2> QED
    BY <2>1, <2>2, <2>3, <2>4 DEF RowIn
<1>5. sql[p] \in {"update", "commit"} => rowLock = conn[p] /\ qty[p] <= seen[p] /\ known[p]
  BY DEF RepoInv, RowOwner, Read
<1>6. sql[p] = "update" => seen[p] + pending[conn[p]] = stock
  BY DEF RepoInv, RowOwner
<1>7. ASSUME sql[p] = "commit"
      PROVE  /\ written[conn[p]] = seen[p] - qty[p] /\ written[conn[p]] \in Nat
             /\ written[conn[p]] + pending[conn[p]] = stock /\ qty[p] <= pending[conn[p]]
  <2>1. written[conn[p]] = seen[p] - qty[p] /\ qty[p] <= pending[conn[p]]
    BY <1>7 DEF RepoInv, RowOwner
  <2>2. written[conn[p]] \in Nat
    BY <1>2, <1>3, <1>5, <1>7, <2>1
  <2>3. conn[p] \in DbConns
    BY <1>4, <1>7 DEF InStatement
  <2> QED
    BY <2>1, <2>2, <2>3, RepositoryAssumption DEF RepoInv, Writers
<1> QED
  BY <1>2, <1>3, <1>4, <1>5, <1>6, <1>7

(* What the server commits: the row stays in step with the sales.          *)
LEMMA CommittedFacts ==
  ASSUME RepoInv, NEW p \in Callers, sql[p] = "commit", Committed(p)
  PROVE  /\ conn[p] # NoConn /\ rowLock = conn[p] /\ qty[p] <= seen[p] /\ known[p]
         /\ stock \in Nat /\ stock' \in Nat /\ qty[p] \in Nat
         /\ sold \in Nat /\ lost \in Nat /\ late \in Nat /\ late' \in Nat
         /\ late <= late' /\ stock' + late' + qty[p] = stock + late
         /\ stock + sold + lost + late = InitStock
         /\ stock' + sold + lost + late' + qty[p] = InitStock
<1>1. /\ conn[p] # NoConn /\ rowLock = conn[p] /\ qty[p] <= seen[p] /\ known[p]
      /\ stock \in Nat /\ qty[p] \in Nat /\ sold \in Nat /\ lost \in Nat /\ late \in Nat
      /\ stock + sold + lost + late = InitStock
      /\ written[conn[p]] \in Nat /\ pending[conn[p]] \in Nat
      /\ written[conn[p]] + pending[conn[p]] = stock /\ qty[p] <= pending[conn[p]]
  BY CallFacts DEF InStatement
<1> DEFINE w == written[conn[p]]
           n == pending[conn[p]]
<1>2. stock' = w /\ late' = late + (n - qty[p])
  BY DEF Committed
<1>3. w \in Nat /\ n \in Nat /\ w + n = stock /\ qty[p] <= n
  BY <1>1
<1> HIDE DEF w, n
<1>4. late' \in Nat /\ late <= late' /\ stock' + late' + qty[p] = stock + late
  BY <1>1, <1>2, <1>3
<1>5. stock' + sold + lost + late' + qty[p] = (stock' + late' + qty[p]) + sold + lost
  BY <1>1, <1>2, <1>3, <1>4
<1>6. (stock + late) + sold + lost = stock + sold + lost + late
  BY <1>1
<1> QED
  BY <1>1, <1>2, <1>3, <1>4, <1>5, <1>6

(* A step that leaves the row, its lock and its updates alone.             *)
LEMMA BesideInv ==
  ASSUME RepoInv, NEW p \in Callers, NEW r \in {"idle", "conn", "failed"},
         sql' = [sql EXCEPT ![p] = r], conn' = [conn EXCEPT ![p] = NoConn],
         seen' = seen \/ seen' = [seen EXCEPT ![p] = 0],
         stock # NoRow,
         UNCHANGED <<stock, rowLock, connVars, qty, known, salesVars>>
  PROVE  RepoInv'
<1> USE RepositoryAssumption
<1>0. UNCHANGED <<stock, rowLock, inTx, alive, view, written, pending, qty, known, sold, lost,
                  late>>
  BY DEF connVars, txVars, salesVars
<1>1. RepoTypeOK'
  BY <1>0 DEF RepoInv, RepoTypeOK
<1>2. CallConn' /\ OwnConn' /\ OpenConn'
  BY <1>0 DEF RepoInv, RepoTypeOK, CallConn, OwnConn, OpenConn, InStatement
<1>3. RowOwner' /\ Read'
  BY <1>0 DEF RepoInv, RepoTypeOK, RowOwner, Read
<1>4. Writers' /\ RowThere' /\ NothingYet' /\ Ledger' /\ LockInTransaction'
  BY <1>0 DEF RepoInv, Writers, RowThere, NothingYet, Ledger, LockInTransaction
<1> QED
  BY <1>1, <1>2, <1>3, <1>4 DEF RepoInv

(* An UPDATE that was executed: its call goes on or leaves.                *)
LEMMA WriteRowInv ==
  ASSUME RepoInv, NEW p \in Callers, sql[p] = "update", WriteRow(p),
         \/ sql' = [sql EXCEPT ![p] = "commit"] /\ UNCHANGED conn
         \/ Leave(p, "failed"),
         UNCHANGED <<stock, rowLock, inTx, alive, view, seen, qty, known, salesVars>>
  PROVE  RepoInv'
<1> USE RepositoryAssumption
<1>0. /\ UNCHANGED <<stock, rowLock, inTx, alive, view, seen, qty, known, sold, lost, late>>
      /\ \/ sql' = [sql EXCEPT ![p] = "commit"] /\ UNCHANGED conn
         \/ sql' = [sql EXCEPT ![p] = "failed"] /\ conn' = [conn EXCEPT ![p] = NoConn]
  BY DEF salesVars, Leave
<1>1. /\ conn[p] # NoConn /\ conn[p] \in DbConns /\ rowLock = conn[p]
      /\ qty[p] <= seen[p] /\ qty[p] \in Nat /\ seen[p] \in Nat /\ stock \in Nat
      /\ pending[conn[p]] \in Nat /\ seen[p] + pending[conn[p]] = stock
  BY CallFacts DEF InStatement
<1> DEFINE new == seen[p] - qty[p]
           sum == pending[conn[p]] + qty[p]
<1>2. /\ new \in Nat /\ sum \in Nat /\ new + sum = stock /\ qty[p] <= sum
      /\ written' = [written EXCEPT ![conn[p]] = new]
      /\ pending' = [pending EXCEPT ![conn[p]] = sum]
  BY <1>1 DEF WriteRow
<1>3. new = seen[p] - qty[p]
  OBVIOUS
<1> HIDE DEF new, sum
<1>4. RepoTypeOK'
  BY <1>0, <1>2 DEF RepoInv, RepoTypeOK
<1>5. CallConn' /\ OwnConn' /\ OpenConn'
  BY <1>0, <1>1 DEF RepoInv, RepoTypeOK, CallConn, OwnConn, OpenConn, InStatement
<1>6. RowOwner'
  <2> SUFFICES ASSUME NEW q \in Callers, sql'[q] \in {"update", "commit"}
               PROVE  /\ rowLock' = conn'[q]
                      /\ sql'[q] = "update" => seen'[q] + pending'[conn'[q]] = stock'
                      /\ sql'[q] = "commit" => /\ written'[conn'[q]] = seen'[q] - qty'[q]
                                               /\ qty'[q] <= pending'[conn'[q]]
    BY DEF RowOwner
  <2>1. q = p
    <3> SUFFICES ASSUME q # p PROVE FALSE
      OBVIOUS
    <3>1. sql[q] \in {"update", "commit"}
      BY <1>0 DEF RepoInv, RepoTypeOK
    <3>2. rowLock = conn[q]
      BY <3>1 DEF RepoInv, RowOwner
    <3> QED
      BY <1>1, <3>2 DEF RepoInv, OwnConn
  <2>2. sql'[p] = "commit" /\ conn' = conn
    BY <1>0, <2>1 DEF RepoInv, RepoTypeOK
  <2>3. written'[conn[p]] = new /\ pending'[conn[p]] = sum
    BY <1>1, <1>2 DEF RepoInv, RepoTypeOK
  <2> QED
    BY <1>0, <1>1, <1>2, <1>3, <2>1, <2>2, <2>3
<1>7. Writers'
  <2> SUFFICES ASSUME NEW c \in DbConns
               PROVE  /\ written'[c] = NoView => pending'[c] = 0
                      /\ written'[c] # NoView => /\ rowLock' = c
                                                 /\ written'[c] + pending'[c] = stock'
    BY DEF Writers
  <2>1. CASE c = conn[p]
    <3>1. written'[c] = new /\ pending'[c] = sum
      BY <1>1, <1>2, <2>1 DEF RepoInv, RepoTypeOK
    <3> QED
      BY <1>0, <1>1, <1>2, <2>1, <3>1
  <2>2. CASE c # conn[p]
    <3>1. written'[c] = written[c] /\ pending'[c] = pending[c]
      BY <1>2, <2>2 DEF RepoInv, RepoTypeOK
    <3>2. written[c] = NoView => pending[c] = 0
      BY DEF RepoInv, Writers
    <3>3. written[c] # NoView => rowLock = c /\ written[c] + pending[c] = stock
      BY DEF RepoInv, Writers
    <3> QED
      BY <1>0, <3>1, <3>2, <3>3
  <2> QED
    BY <2>1, <2>2
<1>8. Read' /\ RowThere'
  BY <1>0 DEF RepoInv, RepoTypeOK, Read, RowThere
<1>9. NothingYet' /\ Ledger' /\ LockInTransaction'
  BY <1>0 DEF RepoInv, NothingYet, Ledger, LockInTransaction
<1> QED
  BY <1>4, <1>5, <1>6, <1>7, <1>8, <1>9 DEF RepoInv

(* Locking the row nobody has, before the call goes on or leaves.          *)
LEMMA LockRowInv ==
  ASSUME RepoInv, NEW p \in Callers, sql[p] = "select", known[p],
         rowLock \in {NoConn, conn[p]}, rowLock' = conn[p],
         \/ /\ sql' = [sql EXCEPT ![p] = "update"] /\ UNCHANGED conn
            /\ seen' = [seen EXCEPT ![p] = RowIn(conn[p])]
            /\ ~(RowIn(conn[p]) < qty[p])
         \/ Leave(p, "failed") /\ UNCHANGED seen,
         UNCHANGED <<stock, inTx, alive, txVars, qty, known, salesVars>>
  PROVE  RepoInv'
<1> USE RepositoryAssumption
<1>0. /\ UNCHANGED <<stock, inTx, alive, view, written, pending, qty, known, sold, lost, late>>
      /\ \/ /\ sql' = [sql EXCEPT ![p] = "update"] /\ conn' = conn
            /\ seen' = [seen EXCEPT ![p] = RowIn(conn[p])]
            /\ ~(RowIn(conn[p]) < qty[p])
         \/ /\ sql' = [sql EXCEPT ![p] = "failed"]
            /\ conn' = [conn EXCEPT ![p] = NoConn] /\ seen' = seen
  BY DEF salesVars, txVars, Leave
<1>1. /\ conn[p] # NoConn /\ conn[p] \in DbConns /\ inTx[conn[p]] /\ alive[conn[p]]
      /\ stock \in Nat /\ qty[p] \in Nat /\ pending[conn[p]] \in Nat
      /\ RowIn(conn[p]) \in Nat /\ RowIn(conn[p]) + pending[conn[p]] = stock
  BY CallFacts DEF InStatement
<1>2. \A q \in Callers \ {p} : sql[q] \notin {"update", "commit"}
  <2> SUFFICES ASSUME NEW q \in Callers \ {p}, sql[q] \in {"update", "commit"} PROVE FALSE
    OBVIOUS
  <2>1. rowLock = conn[q] /\ conn[q] # NoConn
    BY DEF RepoInv, RowOwner, CallConn, InStatement
  <2> QED
    BY <2>1 DEF RepoInv, OwnConn
<1>3. RepoTypeOK'
  BY <1>0, <1>1 DEF RepoInv, RepoTypeOK
<1>4. CallConn' /\ OwnConn' /\ OpenConn'
  BY <1>0, <1>1 DEF RepoInv, RepoTypeOK, CallConn, OwnConn, OpenConn, InStatement
<1>5. RowOwner' /\ Read'
  <2>1. \A q \in Callers \ {p} : /\ sql'[q] = sql[q] /\ conn'[q] = conn[q]
                                 /\ seen'[q] = seen[q] /\ qty'[q] = qty[q]
    BY <1>0 DEF RepoInv, RepoTypeOK
  <2>2. \/ sql'[p] = "failed"
        \/ /\ sql'[p] = "update" /\ conn'[p] = conn[p] /\ seen'[p] = RowIn(conn[p])
           /\ qty[p] <= seen'[p]
    BY <1>0, <1>1 DEF RepoInv, RepoTypeOK
  <2>3. RowOwner'
    BY <1>0, <1>1, <1>2, <2>1, <2>2 DEF RowOwner
  <2>4. Read'
    BY <1>0, <1>1, <2>1, <2>2 DEF RepoInv, Read
  <2> QED
    BY <2>3, <2>4
<1>6. Writers'
  BY <1>0 DEF RepoInv, Writers
<1>7. RowThere' /\ NothingYet' /\ Ledger' /\ LockInTransaction'
  BY <1>0, <1>1 DEF RepoInv, RepoTypeOK, RowThere, NothingYet, Ledger, LockInTransaction
<1> QED
  BY <1>3, <1>4, <1>5, <1>6, <1>7 DEF RepoInv

(* Every step of deduct_stock() keeps the invariant.                       *)
LEMMA RepoStepInv ==
  ASSUME RepoInv, NEW p \in Callers, RepoStep(p)
  PROVE  RepoInv'
<1> USE RepositoryAssumption
<1>1. CASE OpenTransaction(p)
  <2>1. PICK c \in DbConns :
          /\ \A q \in Callers : conn[q] # c
          /\ \/ /\ alive[c] /\ Begin(c)
                /\ conn' = [conn EXCEPT ![p] = c]
                /\ sql' = [sql EXCEPT ![p] = "select"]
             \/ Leave(p, "failed") /\ UNCHANGED inTx
    BY <1>1 DEF OpenTransaction, Free
  <2>2. /\ sql[p] = "conn"
        /\ UNCHANGED <<stock, rowLock, alive, view, written, pending, seen, qty, known, sold,
                       lost, late>>
    BY <1>1 DEF OpenTransaction, txVars, salesVars
  <2>3. RepoTypeOK'
    <3>1. inTx' \in [DbConns -> BOOLEAN]
      <4>1. inTx \in [DbConns -> BOOLEAN]
        BY DEF RepoInv, RepoTypeOK
      <4>2. inTx' = inTx \/ inTx' = [inTx EXCEPT ![c] = TRUE]
        BY <2>1 DEF Begin
      <4> QED
        BY <4>1, <4>2
    <3>3. conn' \in [Callers -> DbConns \cup {NoConn}]
      BY <2>1 DEF Leave, RepoInv, RepoTypeOK
    <3>2. sql' \in [Callers -> {"idle", "conn", "select", "update", "commit", "ok", "failed"}]
      BY <2>1 DEF Leave, RepoInv, RepoTypeOK
    <3> QED
      BY <2>2, <3>1, <3>2, <3>3 DEF RepoInv, RepoTypeOK
  <2>4. CallConn' /\ OwnConn' /\ OpenConn'
    BY <2>1, <2>2 DEF Begin, Leave, RepoInv, RepoTypeOK, CallConn, OwnConn, OpenConn, InStatement
  <2>5. RowOwner' /\ Read' /\ RowThere'
    BY <2>1, <2>2 DEF Begin, Leave, RepoInv, RepoTypeOK, RowOwner, Read, RowThere
  <2>6. LockInTransaction'
    BY <2>1, <2>2 DEF Begin, RepoInv, RepoTypeOK, LockInTransaction
  <2>7. Writers' /\ NothingYet' /\ Ledger'
    BY <2>2 DEF RepoInv, Writers, NothingYet, Ledger
  <2> QED
    BY <2>3, <2>4, <2>5, <2>6, <2>7 DEF RepoInv
<1>2. CASE NoDbConnection(p)
  BY <1>2, BesideInv DEF NoDbConnection, Leave, RepoInv, RowThere
<1>3. CASE SelectForUpdate(p)
  <2>1. /\ conn[p] # NoConn /\ stock \in Nat /\ sold \in Nat /\ lost \in Nat /\ late \in Nat
        /\ stock + sold + lost + late = InitStock /\ RowIn(conn[p]) \in Nat
    BY <1>3, CallFacts DEF SelectForUpdate, InStatement
  <2>2. seen' \in [Callers -> Nat] /\ \A q \in Callers \ {p} : seen'[q] = seen[q]
    BY <1>3, <2>1 DEF SelectForUpdate, RepoInv, RepoTypeOK
  <2>3. CASE RowIn(conn[p]) < qty[p]
    <3>1. Leave(p, "failed") /\ EndTransaction(conn[p])
          /\ UNCHANGED <<stock, alive, qty, known, sold, lost, late>>
      BY <1>3, <2>3 DEF SelectForUpdate, salesVars
    <3> QED
      BY <2>1, <2>2, <3>1, EndedInv
  <2>4. CASE ~(RowIn(conn[p]) < qty[p])
    <3>1. /\ sql[p] = "select" /\ known[p]
          /\ rowLock \in {NoConn, conn[p]} /\ rowLock' = conn[p]
          /\ sql' = [sql EXCEPT ![p] = "update"] /\ UNCHANGED conn
          /\ seen' = [seen EXCEPT ![p] = RowIn(conn[p])]
          /\ UNCHANGED <<stock, inTx, alive, txVars, qty, known, salesVars>>
      BY <1>3, <2>4 DEF SelectForUpdate
    <3> QED
      BY <2>4, <3>1, LockRowInv
  <2> QED
    BY <2>3, <2>4
<1>4. CASE RowNotFound(p)
  <2>1. /\ conn[p] # NoConn /\ stock \in Nat /\ sold \in Nat /\ lost \in Nat /\ late \in Nat
        /\ stock + sold + lost + late = InitStock /\ seen \in [Callers -> Nat]
    BY <1>4, CallFacts DEF RowNotFound, InStatement
  <2>2. Leave(p, "failed") /\ EndTransaction(conn[p])
        /\ UNCHANGED <<stock, alive, seen, qty, known, sold, lost, late>>
    BY <1>4 DEF RowNotFound, salesVars
  <2> QED
    BY <2>1, <2>2, EndedInv
<1>5. CASE LockWaitTimeout(p)
  BY <1>5, BesideInv DEF LockWaitTimeout, Leave, RepoInv, RowThere
<1>6. CASE UpdateRow(p)
  BY <1>6, WriteRowInv DEF UpdateRow
<1>7. CASE Commit(p)
  <2>1. /\ sql[p] = "commit" /\ Committed(p) /\ sold' = sold + qty[p]
        /\ Leave(p, "ok") /\ EndTransaction(conn[p])
        /\ UNCHANGED <<alive, seen, qty, known, lost>>
    BY <1>7 DEF Commit
  <2>2. /\ conn[p] # NoConn /\ rowLock = conn[p] /\ qty[p] <= seen[p] /\ known[p]
        /\ stock' \in Nat /\ qty[p] \in Nat /\ sold \in Nat /\ lost \in Nat /\ late' \in Nat
        /\ stock' + sold + lost + late' + qty[p] = InitStock
    BY <2>1, CommittedFacts
  <2>3. /\ stock' \in Nat /\ sold' \in Nat /\ lost' \in Nat /\ late' \in Nat
        /\ stock' + sold' + lost' + late' = InitStock
    BY <2>1, <2>2, RepositoryAssumption
  <2>4. seen' \in [Callers -> Nat] /\ \A q \in Callers \ {p} : seen'[q] = seen[q]
    BY <2>1 DEF RepoInv, RepoTypeOK
  <2> QED
    BY <2>1, <2>2, <2>3, <2>4, EndedInv
<1> QED
  BY <1>1, <1>2, <1>3, <1>4, <1>5, <1>6, <1>7 DEF RepoStep

LEMMA StatementErrorInv ==
  ASSUME RepoInv, NEW p \in Callers, StatementError(p)
  PROVE  RepoInv'
<1>1. /\ Leave(p, "failed")
      /\ UNCHANGED <<stock, inTx, alive, view, seen, qty, known, salesVars>>
  BY DEF StatementError
<1>2. CASE UNCHANGED <<rowLock, written, pending>> /\ sql[p] # "idle"
  BY <1>1, <1>2, BesideInv DEF Leave, connVars, txVars, RepoInv, RowThere
<1>3. CASE /\ sql[p] = "select" /\ known[p] /\ rowLock = NoConn /\ rowLock' = conn[p]
           /\ UNCHANGED <<written, pending>>
  BY <1>1, <1>3, LockRowInv DEF txVars
<1>4. CASE sql[p] = "update" /\ WriteRow(p) /\ UNCHANGED rowLock
  BY <1>1, <1>4, WriteRowInv
<1> QED
  BY <1>2, <1>3, <1>4 DEF StatementError

(* A commit() that throws.                                                 *)
LEMMA CommitErrorInv ==
  ASSUME RepoInv, NEW p \in Callers, CommitError(p)
  PROVE  RepoInv'
<1>1. /\ sql[p] = "commit" /\ Leave(p, "failed")
      /\ UNCHANGED <<inTx, alive, seen, qty, known, sold>>
  BY DEF CommitError
<1>2. CASE UNCHANGED <<stock, rowLock, txVars, lost, late>>
  BY <1>1, <1>2, BesideInv DEF Leave, connVars, salesVars, RepoInv, RowThere
<1>3. CASE /\ ForgetTransaction(conn[p])
           /\ \/ UNCHANGED <<stock, lost, late>>
              \/ Committed(p) /\ lost' = lost + qty[p]
  <2>1. /\ conn[p] # NoConn /\ rowLock = conn[p] /\ stock \in Nat /\ sold \in Nat /\ lost \in Nat
        /\ late \in Nat /\ stock + sold + lost + late = InitStock /\ seen \in [Callers -> Nat]
    BY <1>1, CallFacts DEF InStatement
  <2>2. /\ stock' \in Nat /\ sold' \in Nat /\ lost' \in Nat /\ late' \in Nat
        /\ stock' + sold' + lost' + late' = InitStock
    <3>1. CASE UNCHANGED <<stock, lost, late>>
      BY <1>1, <2>1, <3>1
    <3>2. CASE Committed(p) /\ lost' = lost + qty[p]
      <4>1. /\ stock' \in Nat /\ qty[p] \in Nat /\ sold \in Nat /\ lost \in Nat /\ late' \in Nat
            /\ stock' + sold + lost + late' + qty[p] = InitStock
        BY <1>1, <3>2, CommittedFacts
      <4> QED
        BY <1>1, <3>2, <4>1, RepositoryAssumption
    <3> QED
      BY <1>3, <3>1, <3>2
  <2>3. inTx' \in [DbConns -> BOOLEAN] /\ alive' \in [DbConns -> BOOLEAN]
    BY <1>1 DEF RepoInv, RepoTypeOK
  <2> QED
    BY <1>1, <1>3, <2>1, <2>2, <2>3, ForgottenInv
<1> QED
  BY <1>2, <1>3 DEF CommitError

(* The connection dies: the server drops the lock with it.                 *)
LEMMA ConnectionLostInv ==
  ASSUME RepoInv, NEW p \in Callers, ConnectionLost(p)
  PROVE  RepoInv'
<1>1. /\ sql[p] \in InStatement /\ Leave(p, "failed") /\ ForgetTransaction(conn[p])
      /\ alive' = [alive EXCEPT ![conn[p]] = FALSE]
      /\ UNCHANGED <<inTx, seen, qty, known, sold>>
      /\ \/ UNCHANGED <<stock, lost, late>>
         \/ sql[p] = "commit" /\ Committed(p) /\ lost' = lost + qty[p]
  BY DEF ConnectionLost, InStatement
<1>2. /\ conn[p] # NoConn /\ stock \in Nat /\ sold \in Nat /\ lost \in Nat /\ late \in Nat
      /\ stock + sold + lost + late = InitStock /\ seen \in [Callers -> Nat]
  BY <1>1, CallFacts DEF InStatement
<1>3. /\ stock' \in Nat /\ sold' \in Nat /\ lost' \in Nat /\ late' \in Nat
      /\ stock' + sold' + lost' + late' = InitStock
      /\ stock' # stock => rowLock = conn[p]
  <2>1. CASE UNCHANGED <<stock, lost, late>>
    BY <1>1, <1>2, <2>1
  <2>2. CASE sql[p] = "commit" /\ Committed(p) /\ lost' = lost + qty[p]
    <3>1. /\ stock' \in Nat /\ qty[p] \in Nat /\ sold \in Nat /\ lost \in Nat /\ late' \in Nat
          /\ stock' + sold + lost + late' + qty[p] = InitStock /\ rowLock = conn[p]
      BY <2>2, CommittedFacts
    <3> QED
      BY <1>1, <2>2, <3>1, RepositoryAssumption
  <2> QED
    BY <1>1, <2>1, <2>2
<1>4. inTx' \in [DbConns -> BOOLEAN] /\ alive' \in [DbConns -> BOOLEAN]
  BY <1>1 DEF RepoInv, RepoTypeOK
<1>5. \A c \in DbConns \ {conn[p]} : inTx'[c] = inTx[c] /\ alive'[c] = alive[c]
  BY <1>1 DEF RepoInv, RepoTypeOK
<1> QED
  BY <1>1, <1>2, <1>3, <1>4, <1>5, ForgottenInv

LEMMA RecycleInv ==
  ASSUME RepoInv, NEW c \in DbConns, Recycle(c)
  PROVE  RepoInv'
<1> USE RepositoryAssumption
<1>1. \A p \in Callers : conn[p] # c
  BY DEF Recycle, Free
<1>0. /\ written' = [written EXCEPT ![c] = NoView] /\ pending' = [pending EXCEPT ![c] = 0]
      /\ view' = [view EXCEPT ![c] = NoView] /\ inTx' = [inTx EXCEPT ![c] = FALSE]
      /\ alive' = [alive EXCEPT ![c] = TRUE]
      /\ rowLock' = IF rowLock = c THEN NoConn ELSE rowLock
      /\ UNCHANGED <<stock, sql, conn, seen, qty, known, sold, lost, late>>
  BY DEF Recycle, EndTransaction, ForgetTransaction, callVars, salesVars
<1>2. RepoTypeOK'
  BY <1>0 DEF RepoInv, RepoTypeOK
<1>3. CallConn' /\ OwnConn' /\ OpenConn' /\ Read'
  BY <1>0, <1>1 DEF RepoInv, RepoTypeOK, CallConn, OwnConn, OpenConn, Read, InStatement
<1>4. RowOwner'
  <2> SUFFICES ASSUME NEW q \in Callers, sql[q] \in {"update", "commit"}
               PROVE  /\ rowLock' = conn[q]
                      /\ written'[conn[q]] = written[conn[q]]
                      /\ pending'[conn[q]] = pending[conn[q]]
    BY <1>0 DEF RepoInv, RowOwner
  <2>1. rowLock = conn[q] /\ conn[q] # c
    BY <1>1 DEF RepoInv, RowOwner
  <2> QED
    BY <1>0, <2>1 DEF RepoInv, RepoTypeOK
<1>5. Writers'
  <2> SUFFICES ASSUME NEW d \in DbConns
               PROVE  /\ written'[d] = NoView => pending'[d] = 0
                      /\ written'[d] # NoView => /\ rowLock' = d
                                                 /\ written'[d] + pending'[d] = stock'
    BY DEF Writers
  <2>1. CASE d = c
    BY <1>0, <2>1 DEF RepoInv, RepoTypeOK
  <2>2. CASE d # c
    <3>1. written'[d] = written[d] /\ pending'[d] = pending[d]
      BY <1>0, <2>2 DEF RepoInv, RepoTypeOK
    <3>2. written[d] = NoView => pending[d] = 0
      BY DEF RepoInv, Writers
    <3>3. written[d] # NoView => rowLock = d /\ written[d] + pending[d] = stock
      BY DEF RepoInv, Writers
    <3> QED
      BY <1>0, <2>2, <3>1, <3>2, <3>3
  <2> QED
    BY <2>1, <2>2
<1>6. RowThere' /\ NothingYet' /\ Ledger' /\ LockInTransaction'
  BY <1>0 DEF RepoInv, RepoTypeOK, RowThere, NothingYet, Ledger, LockInTransaction
<1> QED
  BY <1>2, <1>3, <1>4, <1>5, <1>6 DEF RepoInv

LEMMA GetStockInv ==
  ASSUME RepoInv, NEW c \in DbConns, GetStock(c), stock # NoRow
  PROVE  RepoInv'
<1> USE RepositoryAssumption
<1>1. /\ view' = IF inTx[c] THEN [view EXCEPT ![c] = Snapshot(c)] ELSE view
      /\ UNCHANGED <<stock, rowLock, inTx, alive, written, pending, sql, conn, seen, qty, known,
                     sold, lost, late>>
  BY DEF GetStock, callVars, salesVars
<1>2. Snapshot(c) \in Nat
  BY DEF Snapshot, RepoInv, RepoTypeOK
<1>3. RepoTypeOK'
  BY <1>1, <1>2 DEF RepoInv, RepoTypeOK
<1> QED
  BY <1>1, <1>3 DEF RepoInv, CallConn, OwnConn, OpenConn, RowOwner, Writers, Read, RowThere,
     NothingYet, Ledger, LockInTransaction

LEMMA RepoCrashInv ==
  ASSUME RepoInv, RepoCrash
  PROVE  RepoInv'
<1> USE RepositoryAssumption
<1>1. RepoTypeOK'
  BY DEF RepoCrash, salesVars, RepoInv, RepoTypeOK
<1>2. Writers' /\ RowThere' /\ NothingYet' /\ Ledger' /\ LockInTransaction'
  BY DEF RepoCrash, salesVars, RepoInv, Writers, RowThere, NothingYet, Ledger, LockInTransaction
<1>3. CallConn' /\ OwnConn' /\ OpenConn' /\ RowOwner' /\ Read'
  BY DEF RepoCrash, CallConn, OwnConn, OpenConn, RowOwner, Read, InStatement
<1> QED
  BY <1>1, <1>2, <1>3 DEF RepoInv

(* init_stock() before any call.                                           *)
LEMMA InitRowInv ==
  ASSUME RepoInv, InitRow, \A p \in Callers : sql[p] = "idle"
  PROVE  RepoInv'
<1> USE RepositoryAssumption
<1>1. /\ stock' = IF stock = NoRow THEN InitStock ELSE stock
      /\ UNCHANGED <<rowLock, inTx, alive, view, written, pending, sql, conn, seen, qty, known,
                     sold, lost, late>>
  BY DEF InitRow, connVars, txVars, callVars, salesVars
<1>2. RepoTypeOK'
  BY <1>1 DEF RepoInv, RepoTypeOK
<1>3. CallConn' /\ OwnConn' /\ OpenConn' /\ RowOwner' /\ Read'
  BY <1>1 DEF RepoInv, CallConn, OwnConn, OpenConn, RowOwner, Read
<1>4. Writers'
  <2> SUFFICES ASSUME NEW c \in DbConns
               PROVE  /\ written[c] = NoView => pending[c] = 0
                      /\ written[c] # NoView => rowLock = c /\ written[c] + pending[c] = stock'
    BY <1>1 DEF Writers
  <2>1. written[c] \in Nat \cup {NoView} /\ pending[c] \in Nat
    BY DEF RepoInv, RepoTypeOK
  <2>2. /\ written[c] = NoView => pending[c] = 0
        /\ written[c] # NoView => rowLock = c /\ written[c] + pending[c] = stock
    BY DEF RepoInv, Writers
  <2>3. written[c] # NoView => stock \in Nat
    BY <2>1, <2>2
  <2> QED
    BY <1>1, <2>2, <2>3
<1>5. RowThere' /\ NothingYet' /\ Ledger' /\ LockInTransaction'
  BY <1>1 DEF RepoInv, RowThere, NothingYet, Ledger, LockInTransaction
<1> QED
  BY <1>2, <1>3, <1>4, <1>5 DEF RepoInv

(* deduct() calls deduct_stock(), and looks at its result.                 *)
LEMMA Unconnected ==
  ASSUME RepoInv, NEW p \in Callers, sql[p] \notin InStatement
  PROVE  conn = [conn EXCEPT ![p] = NoConn]
<1>1. conn \in [Callers -> DbConns \cup {NoConn}] /\ conn[p] = NoConn
  BY DEF RepoInv, RepoTypeOK, CallConn
<1> QED
  BY <1>1

LEMMA CallRepositoryInv ==
  ASSUME RepoInv, NEW p \in Callers, NEW mode, CallRepository(p, mode), sql[p] = "idle",
         stock # NoRow
  PROVE  RepoInv'
<1>1. conn' = [conn EXCEPT ![p] = NoConn]
  BY Unconnected DEF CallRepository, InStatement
<1> QED
  BY <1>1, BesideInv DEF CallRepository

LEMMA ResultTakenInv ==
  ASSUME RepoInv, NEW p \in Callers, sql[p] \in {"ok", "failed"},
         sql' = [sql EXCEPT ![p] = "idle"], seen' = [seen EXCEPT ![p] = 0],
         UNCHANGED <<stock, rowLock, connVars, conn, qty, known, salesVars>>
  PROVE  RepoInv'
<1>1. conn' = [conn EXCEPT ![p] = NoConn]
  BY Unconnected DEF InStatement
<1> QED
  BY <1>1, BesideInv DEF RepoInv, RowThere

(* A new call sets its parameters while it is in no statement.             *)
LEMMA AskedInv ==
  ASSUME RepoInv, NEW p \in Callers, sql[p] = "idle",
         NEW i \in BOOLEAN, NEW q \in Quantities \cup {0},
         known' = [known EXCEPT ![p] = i], qty' = [qty EXCEPT ![p] = q],
         UNCHANGED <<stock, rowLock, connVars, sql, conn, seen, salesVars>>
  PROVE  RepoInv'
<1> USE RepositoryAssumption
<1>1. UNCHANGED <<stock, rowLock, inTx, alive, view, written, pending, sql, conn, seen, sold,
                  lost, late>>
  BY DEF connVars, txVars, salesVars
<1>2. RepoTypeOK'
  BY <1>1 DEF RepoInv, RepoTypeOK
<1>3. RowOwner' /\ Read'
  BY <1>1 DEF RepoInv, RepoTypeOK, RowOwner, Read
<1> QED
  BY <1>1, <1>2, <1>3 DEF RepoInv, CallConn, OwnConn, OpenConn, Writers, RowThere, NothingYet,
     Ledger, LockInTransaction

LEMMA RepoStutterInv ==
  ASSUME RepoInv, UNCHANGED repoVars
  PROVE  RepoInv'
BY DEF repoVars, connVars, txVars, callVars, salesVars, RepoInv, RepoTypeOK, CallConn, OwnConn,
   OpenConn, RowOwner, Writers, Read, RowThere, NothingYet, Ledger, LockInTransaction

-----------------------------------------------------------------------------
(* Type correctness                                                        *)

(* The pool lends what it has: a call takes one connection at a time, when *)
(* one is free.                                                            *)
LEMMA TypeParts ==
  ASSUME TypeOK
  PROVE  /\ held \in [Callers -> 0..2] /\ attempt \in [Callers -> 0..(RetryTimes - 1)]
         /\ at \in [Callers -> {"idle", "guard", "eval", "sync", "fallback", "rollback",
                                "incrby", "done"}]
         /\ result \in [Callers -> Codes \cup {"none"}]
         /\ RedisFree \in 0..RedisConns
BY DEF TypeOK, CallTypes

LEMMA HeldStep ==
  ASSUME TypeOK, NEW p \in Callers, held' \in [Callers -> 0..2],
         \A q \in Callers \ {p} : held'[q] = held[q],
         held'[p] <= held[p] \/ (RedisFree > 0 /\ held'[p] = held[p] + 1)
  PROVE  (RedisFree \in 0..RedisConns)'
<1>1. held \in [Callers -> Nat] /\ held' \in [Callers -> Nat]
  BY TypeParts
<1>2. /\ Total(held) \in Nat /\ Total(held') \in Nat
      /\ Total(held') + held[p] = Total(held) + held'[p]
  BY <1>1, TotalStep
<1>3. RedisConns \in Nat /\ held[p] \in Nat /\ held'[p] \in Nat
  BY <1>1, InventoryAssumption
<1>4. RedisConns - Total(held) \in 0..RedisConns
  BY TypeParts DEF RedisFree
<1>5. RedisConns - Total(held') \in 0..RedisConns
  BY <1>2, <1>3, <1>4 DEF RedisFree
<1> QED
  BY <1>5 DEF RedisFree, Total, Units

LEMMA NoneHeld == RedisConns - Total([p \in Callers |-> 0]) \in 0..RedisConns
<1> DEFINE f == [p \in Callers |-> 0]
<1>1. f \in [Callers -> Nat] /\ \A q \in Callers : f[q] = IF q \in {} THEN 0 ELSE 0
  OBVIOUS
<1>2. Total(f) = Cardinality({}) * 0
  <2> HIDE DEF f
  <2> QED
    BY <1>1, TotalUniform
<1>3. Cardinality({}) = 0
  BY FS_EmptySet
<1> QED
  BY <1>2, <1>3, InventoryAssumption

LEMMA InitInv == Init => InventoryInv
<1> SUFFICES ASSUME Init PROVE InventoryInv
  OBVIOUS
<1> USE RepositoryAssumption, InventoryAssumption
<1>1. RepoInv
  BY RepoInitInv DEF Init
<1>2. RedisFree \in 0..RedisConns
  BY NoneHeld DEF Init, RedisFree
<1>3. TypeOK
  BY <1>1, <1>2 DEF Init, RepoInv, TypeOK, CallTypes, AuditTypes, WorldTypes, TestState,
     CheckState, Readings, TestQuantities, NoTest, NoCheck, Codes
<1>4. ServiceInv
  BY DEF Init, RepoInit, ServiceInv, Phases, Guards, Replied, Asked, Fallbacks, Started,
     Asleep, Running
<1>5. TotalTaken = 0
  <2> DEFINE f == [p \in Callers |-> Taken(p)]
  <2>1. \A p \in Callers : Taken(p) = 0
    BY DEF Init, RepoInit, Taken, HttpCode
  <2>2. f \in [Callers -> Nat] /\ \A q \in Callers : f[q] = IF q \in {} THEN 0 ELSE 0
    BY <2>1
  <2>3. Total(f) = Cardinality({}) * 0
    <3> HIDE DEF f
    <3> QED
      BY <2>2, TotalUniform
  <2>4. Cardinality({}) = 0
    BY FS_EmptySet
  <2> QED
    BY <2>3, <2>4 DEF TotalTaken
<1>6. Drift /\ RepliesTrue /\ TestCalls /\ TestReads /\ CheckReads /\ NoFalseAlarm
  BY <1>5 DEF Init, RepoInit, Drift, Running, RepliesTrue, TestCalls, TestReads, Undisturbed,
     CheckReads, NoFalseAlarm, NoTest, NoCheck
<1> QED
  BY <1>1, <1>3, <1>4, <1>6 DEF InventoryInv

(* What a returning call leaves.                                           *)
LEMMA ReturnType ==
  ASSUME TypeOK, NEW p \in Callers, NEW code \in Codes, Return(p, code)
  PROVE  /\ at' \in [Callers -> {"idle", "guard", "eval", "sync", "fallback", "rollback",
                                 "incrby", "done"}]
         /\ (RedisFree \in 0..RedisConns)' /\ held' \in [Callers -> 0..2]
         /\ attempt' \in [Callers -> 0..(RetryTimes - 1)]
         /\ result' \in [Callers -> Codes \cup {"none"}]
<1>1. held[p] \in 0..2 /\ held' = [held EXCEPT ![p] = 0]
  BY TypeParts DEF Return
<1>2. /\ held' \in [Callers -> 0..2] /\ held'[p] <= held[p]
      /\ \A q \in Callers \ {p} : held'[q] = held[q]
  BY <1>1, TypeParts
<1>3. (RedisFree \in 0..RedisConns)' /\ held' \in [Callers -> 0..2]
  BY <1>2, HeldStep
<1>4. 0 \in 0..(RetryTimes - 1)
  BY InventoryAssumption
<1> QED
  BY <1>3, <1>4, TypeParts DEF Return

LEMMA NextAttemptType ==
  ASSUME TypeOK, NEW p \in Callers, held[p] > 0, NextAttempt(p)
  PROVE  /\ at' \in [Callers -> {"idle", "guard", "eval", "sync", "fallback", "rollback",
                                 "incrby", "done"}]
         /\ (RedisFree \in 0..RedisConns)' /\ held' \in [Callers -> 0..2]
         /\ attempt' \in [Callers -> 0..(RetryTimes - 1)]
         /\ result' \in [Callers -> Codes \cup {"none"}]
<1>1. CASE attempt[p] + 1 < RetryTimes
  <2>4. held' = [held EXCEPT ![p] = 1] /\ at' = [at EXCEPT ![p] = "rollback"]
        /\ attempt' = [attempt EXCEPT ![p] = @ + 1] /\ result' = result
    BY <1>1 DEF NextAttempt
  <2>1. /\ held' \in [Callers -> 0..2] /\ held'[p] <= held[p]
        /\ \A q \in Callers \ {p} : held'[q] = held[q]
    BY <2>4, TypeParts
  <2>2. (RedisFree \in 0..RedisConns)' /\ held' \in [Callers -> 0..2]
    BY <2>1, HeldStep
  <2>3. attempt[p] + 1 \in 0..(RetryTimes - 1)
    <3>1. attempt[p] \in 0..(RetryTimes - 1) /\ RetryTimes \in Nat
      BY TypeParts, InventoryAssumption
    <3> QED
      BY <1>1, <3>1
  <2> QED
    BY <2>2, <2>3, <2>4, TypeParts
<1>2. CASE ~(attempt[p] + 1 < RetryTimes)
  BY <1>2, ReturnType DEF NextAttempt, Codes
<1> QED
  BY <1>1, <1>2

(* The repository's part of every step.                                    *)
LEMMA ReadRowInv ==
  ASSUME RepoInv, stock # NoRow, NEW v, ReadRow(v)
  PROVE  /\ RepoInv' /\ stock' = stock
         /\ UNCHANGED <<inTx, sql, conn, seen, qty, known, salesVars>>
<1>1. CASE UNCHANGED repoVars
  BY <1>1, RepoStutterInv DEF repoVars, connVars, callVars
<1>2. CASE \E c \in Free : GetStock(c)
  <2>1. PICK c \in DbConns : GetStock(c)
    BY <1>2 DEF Free
  <2>2. RepoInv'
    BY <2>1, GetStockInv
  <2> QED
    BY <2>1, <2>2 DEF GetStock, callVars
<1> QED
  BY <1>1, <1>2 DEF ReadRow

LEMMA RepoNext ==
  ASSUME TypeOK, RepoInv, ServiceInv, Next
  PROVE  RepoInv'
<1>1. CASE Wire \/ CloseRedis \/ CloseMySQL \/ KeyLoss \/ TestRedis \/ TestEscapes
           \/ CheckRedis \/ CheckEscapes \/ InitializeKey
  BY <1>1, RepoStutterInv DEF Wire, CloseRedis, CloseMySQL, KeyLoss, TestRedis, TestEscapes,
     CheckRedis, CheckEscapes, InitializeKey
<1>2. CASE InitializeRow
  <2>1. \A p \in Callers : sql[p] = "idle"
    BY <1>2 DEF InitializeRow, ServiceInv, Asleep, Phases, Running
  <2> QED
    BY <1>2, <2>1, InitRowInv DEF InitializeRow
<1>3. CASE Crash
  BY <1>3, RepoCrashInv DEF Crash
<1>4. CASE RecycleIdle
  BY <1>4, RecycleInv DEF RecycleIdle, Recycle, Free
<1>5. CASE StartTest
  <2>1. stock # NoRow
    BY <1>5 DEF StartTest, ServiceInv, Started, Running
  <2> QED
    BY <1>5, <2>1, ReadRowInv, RepoStutterInv DEF StartTest
<1>6. CASE TestRow
  <2>1. stock # NoRow
    BY <1>6 DEF TestRow, AtRow, ServiceInv, Started, Asleep, NoTest
  <2> QED
    BY <1>6, <2>1, ReadRowInv DEF TestRow
<1>7. CASE CheckRow
  <2>1. stock # NoRow
    BY <1>7 DEF CheckRow, ServiceInv, Started, Asleep, NoCheck
  <2> QED
    BY <1>7, <2>1, ReadRowInv DEF CheckRow
<1>9. CASE CheckRacing
  <2>1. stock # NoRow
    BY <1>9 DEF CheckRacing, ServiceInv, Started, Running
  <2> QED
    BY <1>9, <2>1, ReadRowInv DEF CheckRacing
<1>8. ASSUME NEW p \in Callers, Call(p) \/ Deduct(p) \/ Rebuild(p)
      PROVE  RepoInv'
  <2>1. stock # NoRow \/ at[p] = "idle"
    BY DEF ServiceInv, Started, Asleep
  <2>2. CASE Call(p)
    <3>1. sql[p] = "idle"
      BY <2>2 DEF Call, ServiceInv, Phases
    <3>2. PICK i \in BOOLEAN, q \in Quantities \cup {0} :
            /\ known' = [known EXCEPT ![p] = i]
            /\ qty' = [qty EXCEPT ![p] = IF i THEN q ELSE 0]
      BY <2>2 DEF Call
    <3> DEFINE n == IF i THEN q ELSE 0
    <3>3. n \in Quantities \cup {0} /\ qty' = [qty EXCEPT ![p] = n]
      BY <3>2
    <3>4. UNCHANGED <<stock, rowLock, connVars, sql, conn, seen, salesVars>>
      BY <2>2 DEF Call
    <3> HIDE DEF n
    <3> QED
      BY <3>1, <3>2, <3>3, <3>4, AskedInv
  <2>3. CASE TakeGuard(p) \/ TakeSecondGuard(p) \/ NoSecondGuard(p) \/ IncrBy(p)
             \/ IncrByError(p) \/ Rebuild(p)
    BY <2>3, RepoStutterInv DEF TakeGuard, TakeSecondGuard, NoSecondGuard, IncrBy, IncrByError,
       Rebuild
  <2>4. CASE NoRedisGuard(p) \/ Eval(p) \/ EvalError(p)
    <3>1. sql[p] = "idle" /\ stock # NoRow
      BY <2>1, <2>4 DEF NoRedisGuard, Eval, EvalError, ServiceInv, Phases
    <3>2. (\E mode \in {"sync", "fallback"} : CallRepository(p, mode)) \/ UNCHANGED repoVars
      BY <2>4 DEF NoRedisGuard, Eval, EvalError
    <3> QED
      BY <3>1, <3>2, CallRepositoryInv, RepoStutterInv
  <2>5. CASE Repository(p)
    BY <2>5, RepoStepInv DEF Repository
  <2>6. CASE ShutDown(p)
    BY <2>6, BesideInv DEF ShutDown, Leave, RepoInv, RowThere
  <2>7. CASE RepositoryError(p)
    BY <2>7, StatementErrorInv, CommitErrorInv, ConnectionLostInv DEF RepositoryError
  <2>9. CASE Escaped(p)
    BY <2>9, BesideInv DEF Escaped, ConnectThrows, Leave, RepoInv, RowThere
  <2>8. CASE Deducted(p) \/ NotDeducted(p)
    BY <2>8, ResultTakenInv DEF Deducted, NotDeducted
  <2> QED
    BY <1>8, <2>2, <2>3, <2>4, <2>5, <2>6, <2>7, <2>8, <2>9 DEF Deduct
<1> QED
  BY <1>1, <1>2, <1>3, <1>4, <1>5, <1>6, <1>7, <1>8, <1>9 DEF Next

(* Readings of the stores are readings.                                    *)
LEMMA ReadingTypes ==
  ASSUME TypeOK, RepoInv
  PROVE  /\ \A v : v \in Values => v \in Readings
         /\ \A v : ReadRedis(v) => v \in Readings
         /\ seen \in [Callers -> Nat] /\ \A p \in Callers : qty[p] \in Nat
<1>1. \A v : v \in Values => v \in Readings
  BY RepositoryAssumption DEF Values, Readings
<1>2. \A v : ReadRedis(v) => v \in Readings
  BY DEF ReadRedis, Readings, TypeOK, WorldTypes
<1>3. seen \in [Callers -> Nat]
  BY DEF RepoInv, RepoTypeOK
<1> QED
  BY <1>1, <1>2, <1>3, CallFacts

(* The calls of deduct() and the rebuild threads.                          *)
LEMMA CallTypesStep ==
  ASSUME TypeOK, RepoInv, ServiceInv, Next
  PROVE  CallTypes'
<1> USE RepositoryAssumption, InventoryAssumption
<1>1. ASSUME UNCHANGED serviceVars PROVE CallTypes'
  BY <1>1 DEF serviceVars, TypeOK, CallTypes, RedisFree, Total, Units
<1>2. CASE Crash
  <2>1. (RedisFree \in 0..RedisConns)'
    BY <1>2, NoneHeld DEF Crash, RedisFree
  <2> QED
    BY <1>2, <2>1 DEF Crash, CallTypes, Readings
<1>3. CASE Wire \/ InitializeRow \/ InitializeKey \/ CloseRedis \/ CloseMySQL \/ KeyLoss
           \/ RecycleIdle \/ StartTest \/ TestRedis \/ TestRow \/ TestEscapes
           \/ CheckRedis \/ CheckRow \/ CheckRacing \/ CheckEscapes
  BY <1>1, <1>3 DEF Wire, InitializeRow, InitializeKey, CloseRedis, CloseMySQL, KeyLoss,
     RecycleIdle, StartTest, TestRedis, TestRow, TestEscapes, CheckRedis, CheckRow, CheckRacing,
     CheckEscapes
<1>4. ASSUME NEW p \in Callers, Call(p) \/ Deduct(p) \/ Rebuild(p)
      PROVE  CallTypes'
  <2>0. UNCHANGED held => (RedisFree \in 0..RedisConns)'
    BY DEF TypeOK, CallTypes, RedisFree, Total, Units
  <2>1. ASSUME NEW code \in Codes, Return(p, code), UNCHANGED rebuild
        PROVE  CallTypes'
    BY <2>1, ReturnType DEF TypeOK, CallTypes
  <2>2. ASSUME NEW s \in {"guard", "eval", "sync", "fallback", "rollback"},
               at' = [at EXCEPT ![p] = s], UNCHANGED <<held, attempt, result, rebuild>>
        PROVE  CallTypes'
    BY <2>0, <2>2 DEF TypeOK, CallTypes
  <2>3. CASE Call(p)
    BY <2>1, <2>2, <2>3 DEF Call, Codes
  <2>4. CASE TakeGuard(p) \/ TakeSecondGuard(p)
    <3>1. /\ held' \in [Callers -> 0..2] /\ \A q \in Callers \ {p} : held'[q] = held[q]
          /\ RedisFree > 0 /\ held'[p] = held[p] + 1
      BY <2>4, TypeParts DEF TakeGuard, TakeSecondGuard, Guarded, ServiceInv, Guards
    <3>2. (RedisFree \in 0..RedisConns)'
      BY <3>1, HeldStep
    <3> QED
      BY <2>4, <3>1, <3>2 DEF TakeGuard, TakeSecondGuard, TypeOK, CallTypes
  <2>5. CASE NoRedisGuard(p)
    BY <2>2, <2>5 DEF NoRedisGuard, CallRepository
  <2>6. CASE Eval(p)
    BY <2>1, <2>2, <2>6 DEF Eval, CallRepository, Codes
  <2>7. CASE EvalError(p)
    BY <2>2, <2>7 DEF EvalError, CallRepository
  <2>8. CASE Repository(p) \/ ShutDown(p) \/ RepositoryError(p)
    BY <1>1, <2>8 DEF Repository, ShutDown, RepositoryError
  <2>9. CASE Deducted(p)
    <3>1. seen[p] - qty[p] \in Nat
      <4>1. seen[p] \in Nat /\ qty[p] \in Nat
        BY CallFacts
      <4>2. qty[p] <= seen[p]
        BY <2>9 DEF Deducted, RepoInv, Read
      <4> QED
        BY <4>1, <4>2
    <3>2. rebuild' \in [Callers -> Readings]
      BY <2>9, <3>1 DEF Deducted, TypeOK, CallTypes, Readings
    <3> QED
      BY <2>9, <3>2, ReturnType DEF Deducted, Codes, CallTypes
  <2>10. CASE NotDeducted(p)
    BY <2>1, <2>2, <2>10 DEF NotDeducted, Codes
  <2>11. CASE NoSecondGuard(p) \/ IncrByError(p)
    <3>1. NextAttempt(p) /\ UNCHANGED rebuild /\ at[p] \in {"rollback", "incrby"}
      BY <2>11 DEF NoSecondGuard, IncrByError
    <3>2. held[p] > 0
      BY <3>1 DEF ServiceInv, Guards
    <3> QED
      BY <3>1, <3>2, NextAttemptType DEF TypeOK, CallTypes
  <2>12. CASE IncrBy(p)
    BY <2>1, <2>12 DEF IncrBy, Codes
  <2>13. CASE Rebuild(p)
    BY <2>0, <2>13 DEF Rebuild, TypeOK, CallTypes, Readings
  <2>14. CASE Escaped(p)
    BY <2>1, <2>14 DEF Escaped, Codes
  <2> QED
    BY <1>4, <2>3, <2>4, <2>5, <2>6, <2>7, <2>8, <2>9, <2>10, <2>11, <2>12, <2>13, <2>14
       DEF Deduct
<1> QED
  BY <1>2, <1>3, <1>4 DEF Next

(* The test and the check.                                                 *)
LEMMA AuditTypesStep ==
  ASSUME TypeOK, RepoInv, Next
  PROVE  AuditTypes'
<1> USE RepositoryAssumption, InventoryAssumption
<1>1. ASSUME UNCHANGED auditVars PROVE AuditTypes'
  BY <1>1 DEF auditVars, TypeOK, AuditTypes
<1>2. /\ NoTest \in TestState /\ NoCheck \in CheckState
  BY DEF NoTest, NoCheck, TestState, CheckState, Readings, TestQuantities
<1>3. test \in TestState /\ check \in CheckState
  BY DEF TypeOK, AuditTypes
<1>4. CASE Crash
  BY <1>2, <1>4 DEF Crash, AuditTypes
<1>5. CASE Wire \/ InitializeRow \/ InitializeKey \/ CloseRedis \/ CloseMySQL \/ KeyLoss
           \/ RecycleIdle \/ CheckRacing
  BY <1>1, <1>5 DEF Wire, InitializeRow, InitializeKey, CloseRedis, CloseMySQL, KeyLoss,
     RecycleIdle, CheckRacing
<1>12. CASE TestEscapes \/ CheckEscapes
  BY <1>2, <1>3, <1>12 DEF TestEscapes, CheckEscapes, AuditTypes
<1>6. ASSUME NEW p \in Callers, Call(p) \/ Deduct(p) \/ Rebuild(p)
      PROVE  AuditTypes'
  <2>1. CASE Call(p)
    <3>1. TestWith(p) \in TestState
      BY <1>2, <1>3 DEF TestWith, NoTest, TestState
    <3> QED
      BY <1>2, <2>1, <3>1 DEF Call, AuditTypes
  <2> QED
    BY <1>1, <1>6, <2>1 DEF Deduct, TakeGuard, NoRedisGuard, Eval, EvalError, Repository,
       ShutDown, RepositoryError, Escaped, Deducted, NotDeducted, TakeSecondGuard, NoSecondGuard,
       IncrBy, IncrByError, Rebuild
<1>7. CASE StartTest
  <2> DEFINE f == NoneOpen
  <2>4. f \in BOOLEAN
    BY DEF NoneOpen
  <2>1. PICK q \in TestQuantities, v \in Values, t \in SUBSET Callers :
          test' = IF v = NoValue THEN NoTest
                  ELSE IF Calm
                  THEN [NoTest EXCEPT !.at = "running", !.qty = q, !.initial = v,
                                      !.threads = t, !.fresh = f]
                  ELSE [NoTest EXCEPT !.at = "disturbed", !.qty = q, !.threads = t]
    BY <1>7 DEF StartTest, Groups
  <2> HIDE DEF f
  <2>2. v \in Readings
    BY ReadingTypes
  <2>3. /\ [NoTest EXCEPT !.at = "running", !.qty = q, !.initial = v, !.threads = t,
                          !.fresh = f] \in TestState
        /\ [NoTest EXCEPT !.at = "disturbed", !.qty = q, !.threads = t] \in TestState
    BY <2>2, <2>4 DEF NoTest, TestState, Readings
  <2> QED
    BY <1>2, <1>3, <1>7, <2>1, <2>3 DEF StartTest, AuditTypes
<1>8. CASE TestRedis
  <2>1. PICK v \in Values : test' = [test EXCEPT !.at = "redis", !.redis = v]
    BY <1>8 DEF TestRedis
  <2>2. v \in Readings
    BY ReadingTypes
  <2> QED
    BY <1>3, <1>8, <2>1, <2>2 DEF TestRedis, AuditTypes, TestState
<1>9. CASE TestRow
  <2>0. NoneOpen \in BOOLEAN /\ test.fresh \in BOOLEAN
    BY <1>3 DEF NoneOpen, TestState
  <2>1. PICK v \in Values, b \in BOOLEAN :
          test' = IF test.at = "disturbed" THEN NoTest
                  ELSE [test EXCEPT !.at = "reported", !.mysql = v, !.fresh = b]
    BY <1>9, <2>0 DEF TestRow
  <2>2. v \in Readings
    BY ReadingTypes
  <2> QED
    BY <1>2, <1>3, <1>9, <2>1, <2>2 DEF TestRow, AuditTypes, TestState
<1>10. CASE CheckRedis
  <2>1. PICK v \in Values :
          check' = [NoCheck EXCEPT !.at = "redis", !.redis = v]
    BY <1>10 DEF CheckRedis
  <2>2. v \in Readings
    BY ReadingTypes
  <2>3. [NoCheck EXCEPT !.at = "redis", !.redis = v] \in CheckState
    BY <2>2 DEF NoCheck, CheckState, Readings
  <2> QED
    BY <1>2, <1>3, <1>10, <2>1, <2>3 DEF CheckRedis, AuditTypes
<1>11. CASE CheckRow
  <2>1. PICK v \in Values :
          check' = [check EXCEPT !.at = "reported", !.mysql = v,
                                 !.fresh = v \in {stock, NoValue}]
    BY <1>11 DEF CheckRow
  <2>2. v \in Readings
    BY ReadingTypes
  <2>3. [check EXCEPT !.at = "reported", !.mysql = v, !.fresh = v \in {stock, NoValue}]
          \in CheckState
    <3> DEFINE b == v \in {stock, NoValue}
    <3>1. b \in BOOLEAN
      OBVIOUS
    <3> HIDE DEF b
    <3>2. [check EXCEPT !.at = "reported", !.mysql = v, !.fresh = b] \in CheckState
      BY <1>3, <2>2, <3>1 DEF CheckState
    <3> QED
      BY <3>2 DEF b
  <2> QED
    BY <1>2, <1>3, <1>11, <2>1, <2>3 DEF CheckRow, AuditTypes
<1> QED
  BY <1>4, <1>5, <1>6, <1>7, <1>8, <1>9, <1>10, <1>11, <1>12 DEF Next

(* The program, Redis and the history.                                     *)
LEMMA WorldTypesStep ==
  ASSUME TypeOK, RepoInv, Next
  PROVE  WorldTypes'
<1> DEFINE Recorded == {"restart", "key loss", "lost answer", "lost commit", "late commit",
                        "fallback", "compensation", "escaped"}
<1>1. ASSUME UNCHANGED <<cache, causes, app, faults, crashes>> PROVE WorldTypes'
  BY <1>1 DEF TypeOK, WorldTypes
<1>2. /\ app \in {"down", "wired", "row", "serving", "draining", "stopped"}
      /\ cache \in Nat \cup {Missing}
      /\ causes \subseteq Recorded
      /\ faults \in 0..MaxFaults /\ crashes \in 0..MaxCrashes
  BY DEF TypeOK, WorldTypes
<1>10. cache \in Nat \cup {Missing}
  BY <1>2
<1>3. ASSUME NoFault \/ Fault \/ NoGuard PROVE faults' \in 0..MaxFaults
  <2>1. faults \in 0..MaxFaults /\ MaxFaults \in Nat
    BY <1>2, InventoryAssumption
  <2>2. faults' = faults \/ (faults < MaxFaults /\ faults' = faults + 1)
    BY <1>3 DEF NoGuard, Fault, NoFault
  <2> QED
    BY <2>1, <2>2
<1>4. CASE Wire \/ InitializeRow \/ InitializeKey \/ CloseRedis \/ CloseMySQL
  BY <1>2, <1>4, RepositoryAssumption DEF Wire, InitializeRow, InitializeKey, CloseRedis,
     CloseMySQL, WorldTypes
<1>5. CASE Crash
  <2>1. crashes' \in 0..MaxCrashes
    <3>1. crashes \in 0..MaxCrashes /\ MaxCrashes \in Nat
      BY <1>2, InventoryAssumption
    <3>2. crashes < MaxCrashes /\ crashes' = crashes + 1
      BY <1>5 DEF Crash
    <3> QED
      BY <3>1, <3>2
  <2> QED
    BY <1>2, <1>5, <2>1 DEF Crash, WorldTypes
<1>6. CASE KeyLoss
  BY <1>2, <1>3, <1>6 DEF KeyLoss, WorldTypes
<1>7. CASE RecycleIdle \/ TestRow \/ CheckRow \/ CheckRacing
  BY <1>1, <1>7 DEF RecycleIdle, TestRow, CheckRow, CheckRacing, worldVars
<1>8. CASE StartTest \/ TestRedis \/ TestEscapes \/ CheckRedis \/ CheckEscapes
  BY <1>2, <1>3, <1>8 DEF StartTest, TestRedis, TestEscapes, CheckRedis, CheckEscapes, ReadRedis,
     WorldTypes
<1>9. ASSUME NEW p \in Callers, Call(p) \/ Deduct(p) \/ Rebuild(p)
      PROVE  WorldTypes'
  <2>0. qty[p] \in Nat
    BY CallFacts
  <2>1. CASE Call(p) \/ TakeGuard(p) \/ ShutDown(p) \/ Deducted(p) \/ NotDeducted(p)
             \/ TakeSecondGuard(p)
    BY <1>1, <2>1 DEF Call, TakeGuard, ShutDown, Deducted, NotDeducted, TakeSecondGuard, worldVars
  <2>2. CASE NoRedisGuard(p)
    BY <1>2, <1>3, <2>2 DEF NoRedisGuard, WorldTypes
  <2>3. CASE Eval(p)
    <3>1. cache' \in Nat \cup {Missing}
      <4>1. cache' = cache \/ (cache # Missing /\ cache >= qty[p] /\ cache' = cache - qty[p])
        BY <2>3 DEF Eval
      <4> QED
        BY <1>10, <2>0, <4>1
    <3> QED
      BY <1>2, <2>3, <3>1 DEF Eval, worldVars, WorldTypes
  <2>4. CASE EvalError(p)
    <3>1. cache' \in Nat \cup {Missing}
      <4>1. cache' = cache \/ (cache # Missing /\ cache >= qty[p] /\ cache' = cache - qty[p])
        BY <2>4 DEF EvalError
      <4> QED
        BY <1>10, <2>0, <4>1
    <3>2. causes' \subseteq Recorded
      BY <1>2, <2>4 DEF EvalError
    <3> QED
      BY <1>2, <1>3, <2>4, <3>1, <3>2 DEF EvalError, WorldTypes
  <2>5. CASE Repository(p)
    BY <1>2, <2>5 DEF Repository, CommitCauses, worldVars, WorldTypes
  <2>6. CASE RepositoryError(p)
    BY <1>2, <1>3, <2>6 DEF RepositoryError, CommitCauses, WorldTypes
  <2>12. CASE Escaped(p)
    BY <1>2, <1>3, <2>12 DEF Escaped, WorldTypes
  <2>7. CASE NoSecondGuard(p)
    BY <1>2, <1>3, <2>7 DEF NoSecondGuard, AttemptCause, WorldTypes
  <2>8. Incremented(p) \in Nat
    BY <1>10, <2>0 DEF Incremented
  <2>9. CASE IncrBy(p)
    BY <1>2, <2>8, <2>9 DEF IncrBy, worldVars, WorldTypes
  <2>10. CASE IncrByError(p)
    <3>1. cache' \in Nat \cup {Missing}
      BY <1>2, <2>8, <2>10 DEF IncrByError
    <3>2. causes' \subseteq Recorded
      BY <1>2, <2>10 DEF IncrByError, AttemptCause
    <3> QED
      BY <1>2, <1>3, <2>10, <3>1, <3>2 DEF IncrByError, WorldTypes
  <2>11. CASE Rebuild(p)
    <3>1. rebuild[p] \in Nat \cup {NoValue}
      BY DEF TypeOK, CallTypes, Readings
    <3> QED
      BY <1>2, <1>3, <2>11, <3>1 DEF Rebuild, WorldTypes
  <2> QED
    BY <1>9, <2>1, <2>2, <2>3, <2>4, <2>5, <2>6, <2>7, <2>9, <2>10, <2>11, <2>12 DEF Deduct
<1> QED
  BY <1>4, <1>5, <1>6, <1>7, <1>8, <1>9 DEF Next

-----------------------------------------------------------------------------
(* The phases of deduct()                                                  *)

(* What a step of deduct_stock() does to its caller and to the row.        *)
LEMMA RepoStepEffect ==
  ASSUME RepoInv, NEW p \in Callers, RepoStep(p)
  PROVE  /\ sql[p] \in {"conn", "select", "update", "commit"}
         /\ sql'[p] # "idle" /\ \A q \in Callers \ {p} : sql'[q] = sql[q]
         /\ UNCHANGED <<qty, known, lost>>
         /\ \/ /\ sql'[p] = "ok" /\ known[p] /\ sold' = sold + qty[p]
               /\ stock' + late' + qty[p] = stock + late
            \/ sql'[p] # "ok" /\ UNCHANGED <<stock, sold, late>>
<1>1. sql \in [Callers -> {"idle", "conn", "select", "update", "commit", "ok", "failed"}]
  BY DEF RepoInv, RepoTypeOK
<1>2. CASE OpenTransaction(p) \/ NoDbConnection(p) \/ RowNotFound(p) \/ LockWaitTimeout(p)
           \/ UpdateRow(p)
  BY <1>1, <1>2 DEF OpenTransaction, NoDbConnection, RowNotFound, LockWaitTimeout, UpdateRow,
     Leave, salesVars
<1>3. CASE SelectForUpdate(p)
  BY <1>1, <1>3 DEF SelectForUpdate, Leave, salesVars
<1>4. CASE Commit(p)
  <2>1. stock' + late' + qty[p] = stock + late /\ known[p]
    BY <1>4, CommittedFacts DEF Commit
  <2> QED
    BY <1>1, <1>4, <2>1 DEF Commit, Leave
<1> QED
  BY <1>2, <1>3, <1>4 DEF RepoStep

LEMMA RepoErrorEffect ==
  ASSUME RepoInv, NEW p \in Callers, StatementError(p) \/ CommitError(p) \/ ConnectionLost(p)
  PROVE  /\ sql[p] \in {"conn", "select", "update", "commit"}
         /\ sql' = [sql EXCEPT ![p] = "failed"]
         /\ UNCHANGED <<qty, known, sold>>
         /\ \/ UNCHANGED <<stock, lost, late>>
            \/ lost' = lost + qty[p] /\ stock' + late' + qty[p] = stock + late
<1>1. CASE StatementError(p)
  BY <1>1 DEF StatementError, Leave, salesVars
<1>2. CASE CommitError(p) \/ ConnectionLost(p)
  <2>1. /\ sql[p] \in {"conn", "select", "update", "commit"}
        /\ sql' = [sql EXCEPT ![p] = "failed"] /\ UNCHANGED <<qty, known, sold>>
        /\ \/ UNCHANGED <<stock, lost, late>>
           \/ sql[p] = "commit" /\ Committed(p) /\ lost' = lost + qty[p]
    BY <1>2 DEF CommitError, ConnectionLost, Leave
  <2>2. sql[p] = "commit" /\ Committed(p) => stock' + late' + qty[p] = stock + late
    BY CommittedFacts
  <2> QED
    BY <2>1, <2>2
<1> QED
  BY <1>1, <1>2

LEMMA ReadRowFrame ==
  ASSUME NEW v, ReadRow(v)
  PROVE  UNCHANGED <<stock, inTx, sql, conn, seen, qty, known, salesVars>>
BY DEF ReadRow, GetStock, connVars, callVars, repoVars

LEMMA AuditFrame ==
  ASSUME \/ StartTest \/ TestRedis \/ TestRow \/ TestEscapes
         \/ CheckRedis \/ CheckRow \/ CheckRacing \/ CheckEscapes
  PROVE  /\ UNCHANGED <<stock, inTx, sql, conn, seen, qty, known, salesVars>>
         /\ UNCHANGED <<cache, at, held, attempt, result, rebuild, causes, app, crashes>>
<1>1. UNCHANGED <<stock, inTx, sql, conn, seen, qty, known, salesVars>>
  BY ReadRowFrame DEF StartTest, TestRedis, TestRow, TestEscapes, CheckRedis, CheckRow,
     CheckRacing, CheckEscapes, repoVars, connVars, callVars
<1> QED
  BY <1>1 DEF StartTest, TestRedis, TestRow, TestEscapes, CheckRedis, CheckRow, CheckRacing,
     CheckEscapes, serviceVars, worldVars

(* The calls and the rebuild threads live in a running process.            *)
LEMMA CallerRunning ==
  ASSUME RepoInv, ServiceInv, NEW p \in Callers, Call(p) \/ Deduct(p) \/ Rebuild(p)
  PROVE  Running
<1>1. CASE Call(p) \/ TakeGuard(p) \/ NoRedisGuard(p) \/ Eval(p) \/ EvalError(p)
           \/ TakeSecondGuard(p) \/ NoSecondGuard(p) \/ IncrBy(p) \/ IncrByError(p)
           \/ Rebuild(p)
  <2>1. app = "serving" \/ at[p] # "idle" \/ rebuild[p] # NoValue
    BY <1>1 DEF Call, TakeGuard, NoRedisGuard, Eval, EvalError, TakeSecondGuard,
       NoSecondGuard, IncrBy, IncrByError, Rebuild
  <2> QED
    BY <2>1 DEF ServiceInv, Asleep, Running
<1>2. CASE Repository(p) \/ ShutDown(p) \/ RepositoryError(p) \/ Escaped(p) \/ Deducted(p)
           \/ NotDeducted(p)
  <2>1. sql[p] # "idle"
    BY <1>2, RepoStepEffect, RepoErrorEffect DEF Repository, ShutDown, RepositoryError, Escaped,
       ConnectThrows, Deducted, NotDeducted
  <2> QED
    BY <2>1 DEF ServiceInv, Phases, Asleep
<1> QED
  BY <1>1, <1>2 DEF Deduct

LEMMA ServiceStep ==
  ASSUME InventoryInv, Next, RepoInv', TypeOK'
  PROVE  ServiceInv'
<1> USE DEF InventoryInv
<1>1. CASE Wire \/ CloseRedis \/ CloseMySQL
  BY <1>1 DEF Wire, CloseRedis, CloseMySQL, repoVars, callVars, serviceVars, auditVars,
     ServiceInv, Phases,
     Guards, Replied, Asked, Fallbacks, Started, Asleep, Running
<1>2. CASE InitializeRow
  BY <1>2, RepositoryAssumption DEF InitializeRow, InitRow, callVars, serviceVars,
     auditVars, ServiceInv, Phases, Guards, Replied, Asked, Fallbacks, Started, Asleep,
     Running
<1>3. CASE InitializeKey
  BY <1>3 DEF InitializeKey, repoVars, callVars, serviceVars, auditVars, ServiceInv, Phases,
     Guards, Replied, Asked, Fallbacks, Started, Asleep, Running
<1>4. CASE Crash
  BY <1>4 DEF Crash, RepoCrash, ServiceInv, Phases, Guards, Replied, Asked, Fallbacks, Started,
     Asleep, Running
<1>5. CASE KeyLoss
  BY <1>5 DEF KeyLoss, repoVars, callVars, serviceVars, auditVars, ServiceInv, Phases,
     Guards, Replied, Asked, Fallbacks, Started, Asleep, Running
<1>6. CASE RecycleIdle
  BY <1>6 DEF RecycleIdle, Recycle, EndTransaction, callVars, serviceVars, auditVars, worldVars,
     RepoInv, RepoTypeOK, ServiceInv, Phases, Guards, Replied, Asked, Fallbacks, Started, Asleep,
     Running
<1>7. CASE \/ StartTest \/ TestRedis \/ TestRow \/ TestEscapes
           \/ CheckRedis \/ CheckRow \/ CheckRacing \/ CheckEscapes
  <2>1. Running
    <3>1. NoTest.at = "none" /\ NoCheck.at = "none"
      BY DEF NoTest, NoCheck
    <3>2. Running \/ test.at # "none" \/ check.at # "none"
      BY <1>7 DEF StartTest, TestRedis, TestRow, TestEscapes, AtRow, CheckRedis, CheckRow,
         CheckRacing, CheckEscapes, Running
    <3>3. ~Running => test = NoTest /\ check = NoCheck
      BY DEF ServiceInv, Asleep
    <3> QED
      BY <3>1, <3>2, <3>3 DEF Running
  <2>2. /\ UNCHANGED <<stock, inTx, sql, conn, seen, qty, known, salesVars>>
        /\ UNCHANGED <<cache, at, held, attempt, result, rebuild, causes, app, crashes>>
    BY <1>7, AuditFrame
  <2> QED
    BY <2>1, <2>2 DEF ServiceInv, Phases, Guards, Replied, Asked, Fallbacks, Started, Asleep,
       Running
<1>8. ASSUME NEW p \in Callers, Call(p) \/ Deduct(p) \/ Rebuild(p)
      PROVE  ServiceInv'
  <2>0. Running
    BY <1>8, CallerRunning
  <2>1. CASE Call(p)
    <3>1. PICK i \in BOOLEAN, q \in Quantities \cup {0} :
            /\ known' = [known EXCEPT ![p] = i]
            /\ qty' = [qty EXCEPT ![p] = IF i THEN q ELSE 0]
            /\ IF q = 0 THEN Return(p, "kInvalidArg")
               ELSE at' = [at EXCEPT ![p] = "guard"] /\ UNCHANGED <<held, attempt, result>>
      BY <2>1 DEF Call
    <3>2. q # 0 => q > 0
      BY <3>1, RepositoryAssumption
    <3>3. /\ UNCHANGED <<stock, sql, rebuild, causes, app>>
          /\ at[p] = "idle" /\ qty \in [Callers -> Quantities \cup {0}]
          /\ known \in [Callers -> BOOLEAN]
      BY <2>1 DEF Call, worldVars, RepoInv, RepoTypeOK
    <3>4. CASE q = 0
      BY <2>0, <3>1, <3>3, <3>4 DEF Return, TypeOK, CallTypes, ServiceInv, Phases, Guards, Replied,
         Asked, Fallbacks, Started, Asleep, Running
    <3>5. CASE q # 0
      BY <2>0, <3>1, <3>2, <3>3, <3>5 DEF TypeOK, CallTypes, ServiceInv, Phases, Guards, Replied,
         Asked, Fallbacks, Started, Asleep, Running
    <3> QED
      BY <3>4, <3>5
  <2>2. CASE TakeGuard(p) \/ TakeSecondGuard(p)
    BY <2>0, <2>2 DEF TakeGuard, TakeSecondGuard, repoVars, callVars, auditVars, worldVars,
       TypeOK, CallTypes,
       ServiceInv, Phases, Guards, Replied, Asked, Fallbacks, Started, Asleep, Running
  <2>3. CASE NoRedisGuard(p)
    BY <2>0, <2>3 DEF NoRedisGuard, CallRepository, auditVars, RepoInv, RepoTypeOK, TypeOK,
       CallTypes, ServiceInv, Phases, Guards, Replied, Asked, Fallbacks, Started, Asleep,
       Running
  <2>4. CASE Eval(p)
    BY <2>0, <2>4 DEF Eval, CallRepository, Return, repoVars, callVars, auditVars, worldVars,
       RepoInv,
       RepoTypeOK, TypeOK, CallTypes, ServiceInv, Phases, Guards, Replied, Asked, Fallbacks,
       Started,
       Asleep, Running
  <2>5. CASE EvalError(p)
    <3>1. /\ at[p] = "eval" /\ at' = [at EXCEPT ![p] = "fallback"]
          /\ sql' = [sql EXCEPT ![p] = "conn"] /\ causes \subseteq causes'
          /\ UNCHANGED <<stock, qty, known, held, attempt, result, rebuild, auditVars, app>>
      BY <2>5 DEF EvalError, CallRepository
    <3>2. sql \in [Callers -> {"idle", "conn", "select", "update", "commit", "ok", "failed"}]
      BY DEF RepoInv, RepoTypeOK
    <3> QED
      BY <2>0, <3>1, <3>2 DEF auditVars, TypeOK, CallTypes, ServiceInv, Phases, Guards, Replied,
         Asked, Fallbacks,
         Started, Asleep, Running
  <2>6. CASE Repository(p)
    <3>1. /\ sql[p] \in {"conn", "select", "update", "commit"}
          /\ sql'[p] # "idle" /\ \A q \in Callers \ {p} : sql'[q] = sql[q]
          /\ UNCHANGED <<qty, known, at, held, attempt, result, rebuild, test, check, app>>
      BY <2>6, RepoStepEffect DEF Repository, serviceVars, auditVars, worldVars
    <3>2. at[p] = "fallback" /\ sql'[p] = "ok" => "fallback" \in causes'
      <4>1. at[p] = "fallback" /\ sql'[p] = "ok" => sold' # sold
        BY <2>6, RepoStepEffect, CallFacts DEF Repository, ServiceInv, Asked
      <4> QED
        BY <2>6, <4>1 DEF Repository, CommitCauses
    <3>3. causes \subseteq causes'
      BY <2>6 DEF Repository, CommitCauses
    <3>4. stock' # NoRow
      BY <3>1 DEF RepoInv, RowThere
    <3> QED
      BY <2>0, <3>1, <3>2, <3>3, <3>4 DEF TypeOK, CallTypes, ServiceInv, Phases, Guards, Replied,
         Asked, Fallbacks,
         Started, Asleep, Running
  <2>7. CASE ShutDown(p)
    BY <2>0, <2>7 DEF ShutDown, Leave, serviceVars, auditVars, worldVars, RepoInv,
       RepoTypeOK, TypeOK, ServiceInv, Phases, Guards, Replied, Asked, Fallbacks, Started, Asleep,
       Running
  <2>8. CASE RepositoryError(p)
    <3>1. /\ sql[p] \in {"conn", "select", "update", "commit"}
          /\ sql' = [sql EXCEPT ![p] = "failed"] /\ causes \subseteq causes'
          /\ UNCHANGED <<qty, known, at, held, attempt, result, rebuild, test, check, app>>
      BY <2>8, RepoErrorEffect DEF RepositoryError, CommitCauses, serviceVars, auditVars
    <3>2. sql \in [Callers -> {"idle", "conn", "select", "update", "commit", "ok", "failed"}]
      BY DEF RepoInv, RepoTypeOK
    <3>3. stock' # NoRow
      BY <3>1, <3>2 DEF RepoInv, RowThere
    <3> QED
      BY <2>0, <3>1, <3>2, <3>3 DEF TypeOK, CallTypes, ServiceInv, Phases, Guards, Replied, Asked,
         Fallbacks,
         Started, Asleep, Running
  <2>9. CASE Deducted(p)
    BY <2>0, <2>9 DEF Deducted, Return, auditVars, worldVars, RepoInv, RepoTypeOK, TypeOK,
       CallTypes, ServiceInv, Phases, Guards, Replied, Asked, Fallbacks, Started, Asleep,
       Running
  <2>10. CASE NotDeducted(p)
    BY <2>0, <2>10 DEF NotDeducted, Return, auditVars, worldVars, RepoInv, RepoTypeOK,
       TypeOK, CallTypes, ServiceInv, Phases, Guards, Replied, Asked, Fallbacks, Started, Asleep,
       Running
  <2>11. CASE NoSecondGuard(p) \/ IncrByError(p)
    <3>1. /\ NextAttempt(p) /\ at[p] \in {"rollback", "incrby"}
          /\ UNCHANGED <<repoVars, rebuild, auditVars, app>> /\ causes \subseteq causes'
      BY <2>11 DEF NoSecondGuard, IncrByError, AttemptCause
    <3> QED
      BY <2>0, <3>1 DEF NextAttempt, Return, repoVars, callVars, auditVars, TypeOK,
         CallTypes, ServiceInv, Phases, Guards, Replied, Asked, Fallbacks, Started, Asleep,
         Running
  <2>12. CASE IncrBy(p)
    BY <2>0, <2>12 DEF IncrBy, Return, repoVars, callVars, auditVars, worldVars, TypeOK, CallTypes,
       ServiceInv, Phases, Guards, Replied, Asked, Fallbacks, Started, Asleep, Running
  <2>13. CASE Rebuild(p)
    BY <2>0, <2>13 DEF Rebuild, repoVars, callVars, auditVars, TypeOK, CallTypes, ServiceInv,
       Phases, Guards,
       Replied, Asked, Fallbacks, Started, Asleep, Running
  <2>14. CASE Escaped(p)
    <3>1. /\ sql[p] = "conn" /\ sql' = [sql EXCEPT ![p] = "idle"]
          /\ Return(p, "exception") /\ causes \subseteq causes'
          /\ UNCHANGED <<stock, qty, known, rebuild, test, check, app>>
      BY <2>14 DEF Escaped, ConnectThrows, Leave, auditVars
    <3>2. sql \in [Callers -> {"idle", "conn", "select", "update", "commit", "ok", "failed"}]
      BY DEF RepoInv, RepoTypeOK
    <3> QED
      BY <2>0, <3>1, <3>2 DEF Return, TypeOK, CallTypes, ServiceInv, Phases, Guards, Replied,
         Asked, Fallbacks, Started, Asleep, Running
  <2> QED
    BY <1>8, <2>1, <2>2, <2>3, <2>4, <2>5, <2>6, <2>7, <2>8, <2>9, <2>10, <2>11, <2>12, <2>13,
       <2>14 DEF Deduct
<1> QED
  BY <1>1, <1>2, <1>3, <1>4, <1>5, <1>6, <1>7, <1>8 DEF Next

-----------------------------------------------------------------------------
(* Redis, MySQL and the replies                                            *)

LEMMA HttpOk == \A c \in Codes \cup {"none"} : HttpCode(c) = 0 <=> c = "ok"
BY DEF Codes, HttpCode

(* What a call reserves and has taken, before and after a step.            *)
LEMMA Amounts ==
  ASSUME TypeOK, TypeOK', RepoInv, RepoInv', NEW p \in Callers
  PROVE  /\ Reserved(p) = IF \/ at[p] = "sync" /\ sql[p] # "ok"
                             \/ at[p] \in {"rollback", "incrby"} THEN qty[p] ELSE 0
         /\ Reserved(p)' = IF \/ at'[p] = "sync" /\ sql'[p] # "ok"
                              \/ at'[p] \in {"rollback", "incrby"} THEN qty'[p] ELSE 0
         /\ Taken(p) = IF result[p] = "ok" \/ sql[p] = "ok" THEN qty[p] ELSE 0
         /\ Taken(p)' = IF result'[p] = "ok" \/ sql'[p] = "ok" THEN qty'[p] ELSE 0
         /\ qty[p] \in Nat /\ qty'[p] \in Nat
         /\ Reserved(p) \in Nat /\ Reserved(p)' \in Nat /\ Taken(p) \in Nat /\ Taken(p)' \in Nat
<1>1. result[p] \in Codes \cup {"none"} /\ result'[p] \in Codes \cup {"none"}
  BY DEF TypeOK, CallTypes
<1>2. qty[p] \in Quantities \cup {0} /\ qty'[p] \in Quantities \cup {0}
  BY DEF RepoInv, RepoTypeOK
<1>3. \A n \in Quantities \cup {0} : n \in Nat
  BY RepositoryAssumption
<1>4. /\ Taken(p) = IF result[p] = "ok" \/ sql[p] = "ok" THEN qty[p] ELSE 0
      /\ Taken(p)' = IF result'[p] = "ok" \/ sql'[p] = "ok" THEN qty'[p] ELSE 0
  BY <1>1, HttpOk DEF Taken
<1>5. qty[p] \in Nat /\ qty'[p] \in Nat
  BY <1>2, <1>3
<1> QED
  BY <1>4, <1>5 DEF Reserved

(* One call's step changes the totals by what it changes for that call.    *)
LEMMA SumsStep ==
  ASSUME TypeOK, TypeOK', RepoInv, RepoInv', NEW p \in Callers,
         \A q \in Callers \ {p} : /\ at'[q] = at[q] /\ sql'[q] = sql[q]
                                  /\ qty'[q] = qty[q] /\ result'[q] = result[q]
  PROVE  /\ TotalReserved \in Nat /\ TotalReserved' \in Nat
         /\ TotalReserved' + Reserved(p) = TotalReserved + Reserved(p)'
         /\ TotalTaken \in Nat /\ TotalTaken' \in Nat
         /\ TotalTaken' + Taken(p) = TotalTaken + Taken(p)'
<1> DEFINE r == [q \in Callers |-> Reserved(q)]
           t == [q \in Callers |-> Taken(q)]
<1>1. /\ r \in [Callers -> Nat] /\ r' \in [Callers -> Nat]
      /\ t \in [Callers -> Nat] /\ t' \in [Callers -> Nat]
  BY Amounts
<1>2. \A q \in Callers \ {p} : r'[q] = r[q] /\ t'[q] = t[q]
  BY Amounts
<1>3. /\ r[p] = Reserved(p) /\ r'[p] = Reserved(p)' /\ t[p] = Taken(p) /\ t'[p] = Taken(p)'
  OBVIOUS
<1>4. /\ TotalReserved = Total(r) /\ TotalReserved' = Total(r')
      /\ TotalTaken = Total(t) /\ TotalTaken' = Total(t')
  BY DEF TotalReserved, TotalTaken, Total, Units
<1> HIDE DEF r, t
<1>5. /\ Total(r) \in Nat /\ Total(r') \in Nat /\ Total(r') + r[p] = Total(r) + r'[p]
      /\ Total(t) \in Nat /\ Total(t') \in Nat /\ Total(t') + t[p] = Total(t) + t'[p]
  BY <1>1, <1>2, TotalStep
<1> QED
  BY <1>3, <1>4, <1>5

LEMMA SumsSame ==
  ASSUME UNCHANGED <<at, sql, qty, result>>
  PROVE  TotalReserved' = TotalReserved /\ TotalTaken' = TotalTaken
BY DEF TotalReserved, TotalTaken, Total, Units, Reserved, Taken

(* Before any call both totals are 0.                                      *)
LEMMA SumsZero ==
  ASSUME \A p \in Callers : at[p] = "idle" /\ sql[p] = "idle" /\ result[p] = "none"
  PROVE  TotalReserved = 0 /\ TotalTaken = 0
<1>1. \A p \in Callers : Reserved(p) = 0 /\ Taken(p) = 0
  BY DEF Reserved, Taken, HttpCode
<1> DEFINE r == [p \in Callers |-> Reserved(p)]
           t == [p \in Callers |-> Taken(p)]
<1>2. /\ r \in [Callers -> Nat] /\ \A q \in Callers : r[q] = IF q \in {} THEN 0 ELSE 0
      /\ t \in [Callers -> Nat] /\ \A q \in Callers : t[q] = IF q \in {} THEN 0 ELSE 0
  BY <1>1
<1>3. Total(r) = Cardinality({}) * 0 /\ Total(t) = Cardinality({}) * 0
  <2> HIDE DEF r, t
  <2> QED
    BY <1>2, TotalUniform
<1>4. Cardinality({}) = 0
  BY FS_EmptySet
<1> QED
  BY <1>3, <1>4 DEF TotalReserved, TotalTaken

(* The accounts of a call's step: the row, Redis and the sales move with   *)
(* what the call reserves and has taken, or a cause is recorded.           *)
Accounts(p) ==
    /\ sold' + Taken(p) = sold + Taken(p)'
    /\ causes' = {} => stock' + Taken(p)' = stock + Taken(p)
    /\ causes' \subseteq Kept =>
         /\ cache' # Missing
         /\ cache' + Reserved(p)' + stock <= cache + Reserved(p) + stock'
         /\ causes' = {} => cache' + Reserved(p)' + stock = cache + Reserved(p) + stock'

LEMMA CallerFrame ==
  ASSUME TypeOK, RepoInv, NEW p \in Callers, Call(p) \/ Deduct(p) \/ Rebuild(p)
  PROVE  /\ \A q \in Callers \ {p} : /\ at'[q] = at[q] /\ sql'[q] = sql[q]
                                     /\ qty'[q] = qty[q] /\ result'[q] = result[q]
         /\ causes \subseteq causes' /\ UNCHANGED <<app, crashes>>
         /\ ~Call(p) => UNCHANGED <<test, check, qty, known>>
<1>1. /\ sql \in [Callers -> {"idle", "conn", "select", "update", "commit", "ok", "failed"}]
      /\ qty \in [Callers -> Quantities \cup {0}]
      /\ at \in [Callers -> {"idle", "guard", "eval", "sync", "fallback", "rollback", "incrby",
                             "done"}]
      /\ result \in [Callers -> Codes \cup {"none"}]
  BY DEF RepoInv, RepoTypeOK, TypeOK, CallTypes
<1>2. CASE Call(p)
  BY <1>1, <1>2 DEF Call, Return, worldVars
<1>3. CASE TakeGuard(p) \/ TakeSecondGuard(p) \/ Rebuild(p)
  BY <1>1, <1>3 DEF TakeGuard, TakeSecondGuard, Rebuild, repoVars, callVars, auditVars, worldVars
<1>4. CASE NoRedisGuard(p) \/ EvalError(p)
  BY <1>1, <1>4 DEF NoRedisGuard, EvalError, CallRepository, auditVars
<1>5. CASE Eval(p)
  BY <1>1, <1>5 DEF Eval, CallRepository, Return, repoVars, callVars, auditVars, worldVars
<1>6. CASE Repository(p)
  BY <1>6, RepoStepEffect DEF Repository, CommitCauses, serviceVars, auditVars, worldVars
<1>7. CASE ShutDown(p)
  BY <1>1, <1>7 DEF ShutDown, Leave, serviceVars, auditVars, worldVars
<1>8. CASE RepositoryError(p)
  BY <1>1, <1>8, RepoErrorEffect DEF RepositoryError, CommitCauses, serviceVars, auditVars
<1>12. CASE Escaped(p)
  BY <1>1, <1>12 DEF Escaped, ConnectThrows, Leave, Return, auditVars
<1>9. CASE Deducted(p) \/ NotDeducted(p)
  BY <1>1, <1>9 DEF Deducted, NotDeducted, Return, auditVars, worldVars
<1>10. CASE NoSecondGuard(p) \/ IncrByError(p)
  BY <1>1, <1>10 DEF NoSecondGuard, IncrByError, NextAttempt, AttemptCause, Return, repoVars,
     callVars, auditVars
<1>11. CASE IncrBy(p)
  BY <1>1, <1>11 DEF IncrBy, Return, repoVars, callVars, auditVars, worldVars
<1> QED
  BY <1>2, <1>3, <1>4, <1>5, <1>6, <1>7, <1>8, <1>9, <1>10, <1>11, <1>12 DEF Deduct

LEMMA CallerAccounts ==
  ASSUME InventoryInv, TypeOK', RepoInv', ServiceInv', NEW p \in Callers,
         Call(p) \/ Deduct(p) \/ Rebuild(p)
  PROVE  Accounts(p)
<1> USE DEF InventoryInv
<1>1. Running
  BY CallerRunning
<1>2. causes \subseteq causes'
  BY CallerFrame
<1>3. causes' \subseteq Kept => cache # Missing /\ cache \in Nat /\ stock \in Nat
  BY <1>1, <1>2 DEF Drift, TypeOK, WorldTypes, RepoInv, RepoTypeOK, ServiceInv, Started
<1>4. /\ stock \in Nat /\ sold \in Nat /\ lost \in Nat /\ late \in Nat
      /\ stock' \in Nat /\ late' \in Nat
  <2>1. Running'
    BY <1>1, CallerFrame DEF Running
  <2> QED
    BY <1>1, <2>1 DEF RepoInv, RepoTypeOK, ServiceInv, Started
<1>5. /\ sql \in [Callers -> {"idle", "conn", "select", "update", "commit", "ok", "failed"}]
      /\ qty \in [Callers -> Quantities \cup {0}]
      /\ at \in [Callers -> {"idle", "guard", "eval", "sync", "fallback", "rollback", "incrby",
                             "done"}]
      /\ result \in [Callers -> Codes \cup {"none"}]
  BY DEF RepoInv, RepoTypeOK, TypeOK, CallTypes
<1>6. /\ sql[p] # "idle" <=> at[p] \in {"sync", "fallback"}
      /\ result[p] # "none" <=> at[p] = "done"
      /\ at[p] \notin {"idle", "done"} /\ known[p] => qty[p] > 0
      /\ rebuild[p] # NoValue => "fallback" \in causes
  BY DEF ServiceInv, Phases, Replied, Asked, Fallbacks
<1>17. ASSUME sold' + Taken(p) = sold + Taken(p)',
              \/ "lost answer" \in causes' \/ "lost commit" \in causes'
              \/ "late commit" \in causes' \/ "fallback" \in causes'
       PROVE  Accounts(p)
  BY <1>17 DEF Accounts, Kept
<1>18. ASSUME sold' + Taken(p) = sold + Taken(p)', stock' + Taken(p)' = stock + Taken(p),
              cache \in Nat /\ cache # Missing =>
                 /\ cache' # Missing
                 /\ cache' + Reserved(p)' + stock = cache + Reserved(p) + stock'
       PROVE  Accounts(p)
  <2>1. causes' \subseteq Kept =>
          /\ cache' # Missing
          /\ cache' + Reserved(p)' + stock = cache + Reserved(p) + stock'
    BY <1>3, <1>18
  <2>2. causes' \subseteq Kept =>
          cache' + Reserved(p)' + stock <= cache + Reserved(p) + stock'
    <3>1. CASE causes' \subseteq Kept
      <4>1. cache' \in Nat
        BY <2>1, <3>1 DEF TypeOK, WorldTypes
      <4>2. cache' + Reserved(p)' + stock \in Int
        BY <1>4, <4>1, Amounts
      <4> QED
        BY <2>1, <3>1, <4>2
    <3> QED
      BY <3>1
  <2> QED
    BY <1>18, <2>1, <2>2 DEF Accounts
<1>19. ASSUME Taken(p) = 0, Taken(p)' = 0, UNCHANGED <<sold, stock, cache>>,
              "compensation" \in causes' \/ "escaped" \in causes', Reserved(p)' = 0
       PROVE  Accounts(p)
  <2>1. sold' + Taken(p) = sold + Taken(p)' /\ ~(causes' = {})
        /\ stock' + Taken(p)' = stock + Taken(p)
    BY <1>19
  <2>2. cache \in Nat => cache' + Reserved(p)' + stock <= cache + Reserved(p) + stock'
    BY <1>4, <1>19, Amounts
  <2> QED
    BY <1>3, <1>19, <2>1, <2>2 DEF Accounts
<1>7. CASE Call(p)
  <2>1. /\ at[p] = "idle" /\ at'[p] \in {"guard", "done"} /\ sql' = sql
        /\ at'[p] = "done" => result'[p] = "kInvalidArg"
        /\ at'[p] = "guard" => result' = result
        /\ UNCHANGED <<stock, sold, cache, causes>>
    BY <1>5, <1>7 DEF Call, Return, salesVars
  <2>2. Reserved(p) = 0 /\ Reserved(p)' = 0 /\ Taken(p) = 0 /\ Taken(p)' = 0
    BY <1>6, <2>1, Amounts
  <2> QED
    BY <1>4, <1>18, <2>1, <2>2
<1>8. CASE TakeGuard(p) \/ NoRedisGuard(p)
  <2>1. /\ at[p] = "guard" /\ at'[p] \in {"eval", "fallback"} /\ sql'[p] # "ok"
        /\ UNCHANGED <<stock, sold, cache, causes, result>>
    BY <1>5, <1>6, <1>8 DEF TakeGuard, NoRedisGuard, CallRepository, repoVars, callVars,
       salesVars
  <2>2. Reserved(p) = 0 /\ Reserved(p)' = 0 /\ Taken(p) = 0 /\ Taken(p)' = 0
    BY <1>6, <2>1, Amounts
  <2> QED
    BY <1>4, <1>18, <2>1, <2>2
<1>9. CASE Eval(p) \/ EvalError(p)
  <2>1. /\ at[p] = "eval" /\ sql'[p] # "ok" /\ UNCHANGED <<stock, sold, qty>>
        /\ \/ /\ UNCHANGED cache /\ at'[p] = "fallback" /\ result' = result
           \/ /\ UNCHANGED cache /\ at'[p] = "done" /\ result'[p] = "kStockInsufficient"
           \/ /\ cache # Missing /\ cache' = cache - qty[p] /\ at'[p] = "sync"
              /\ cache >= qty[p] /\ result' = result
           \/ "lost answer" \in causes' /\ at'[p] = "fallback" /\ result' = result
    BY <1>5, <1>6, <1>9 DEF Eval, EvalError, CallRepository, Return, repoVars, callVars,
       salesVars
  <2>2. Reserved(p) = 0 /\ Taken(p) = 0 /\ Taken(p)' = 0
        /\ Reserved(p)' = IF at'[p] = "sync" THEN qty[p] ELSE 0
    BY <1>6, <2>1, Amounts
  <2>3. qty[p] \in Nat
    BY Amounts
  <2>4. sold' + Taken(p) = sold + Taken(p)' /\ stock' + Taken(p)' = stock + Taken(p)
    BY <2>1, <2>2
  <2>5. "lost answer" \in causes' \/ (cache \in Nat /\ cache # Missing =>
                 /\ cache' # Missing
                 /\ cache' + Reserved(p)' + stock = cache + Reserved(p) + stock')
    <3>1. CASE cache' = cache /\ at'[p] # "sync"
      BY <1>4, <2>1, <2>2, <3>1
    <3>2. ASSUME cache \in Nat, cache >= qty[p], cache' = cache - qty[p], at'[p] = "sync"
          PROVE  /\ cache' # Missing
                 /\ cache' + Reserved(p)' + stock = cache + Reserved(p) + stock'
      <4>1. cache' \in Nat
        BY <2>3, <3>2
      <4>2. cache' # Missing
        BY <4>1, InventoryAssumption
      <4>3. Reserved(p)' = qty[p] /\ Reserved(p) = 0 /\ stock' = stock
        BY <2>1, <2>2, <3>2
      <4>4. cache' + Reserved(p)' + stock = cache + Reserved(p) + stock'
        BY <1>4, <2>3, <3>2, <4>3
      <4> QED
        BY <4>2, <4>4
    <3> QED
      BY <2>1, <3>1, <3>2
  <2> QED
    BY <1>17, <1>18, <2>4, <2>5
<1>10. CASE Repository(p)
  <2>1. /\ sql[p] \in {"conn", "select", "update", "commit"} /\ sql'[p] # "idle"
        /\ UNCHANGED <<cache, at, qty, result>>
        /\ \/ /\ sql'[p] = "ok" /\ known[p] /\ sold' = sold + qty[p]
              /\ stock' + late' + qty[p] = stock + late
           \/ sql'[p] # "ok" /\ UNCHANGED <<stock, sold, late>>
    BY <1>10, RepoStepEffect DEF Repository, serviceVars
  <2>2. at[p] \in {"sync", "fallback"}
    BY <1>6, <2>1
  <2>3. qty[p] \in Nat
    BY Amounts
  <2>4. at[p] = "fallback" /\ sql'[p] = "ok" => "fallback" \in causes'
    <3>1. sql'[p] = "ok" => sold' # sold
      BY <1>4, <1>6, <2>1, <2>2, <2>3
    <3> QED
      BY <1>10, <3>1 DEF Repository, CommitCauses
  <2>8. "late commit" \in causes' \/ late' = late
    BY <1>10 DEF Repository, CommitCauses
  <2>5. /\ Taken(p) = 0 /\ Taken(p)' = IF sql'[p] = "ok" THEN qty[p] ELSE 0
        /\ Reserved(p) = IF at[p] = "sync" THEN qty[p] ELSE 0
        /\ Reserved(p)' = IF at[p] = "sync" /\ sql'[p] # "ok" THEN qty[p] ELSE 0
    BY <1>6, <2>1, <2>2, Amounts
  <2>6. sold' + Taken(p) = sold + Taken(p)'
    BY <1>4, <2>1, <2>3, <2>5
  <2>9. late' = late => stock' + Taken(p)' = stock + Taken(p)
    <3> SUFFICES ASSUME late' = late PROVE stock' + Taken(p)' = stock + Taken(p)
      OBVIOUS
    <3>1. CASE sql'[p] = "ok"
      <4>1. stock' + late + qty[p] = stock + late
        BY <2>1, <3>1
      <4>2. stock' + qty[p] = stock
        BY <1>4, <2>3, <4>1
      <4> QED
        BY <1>4, <2>5, <3>1, <4>2
    <3>2. CASE sql'[p] # "ok"
      BY <1>4, <2>1, <2>5, <3>2
    <3> QED
      BY <3>1, <3>2
  <2>7. late' = late => \/ "fallback" \in causes'
                        \/ cache' + Reserved(p)' + stock = cache + Reserved(p) + stock'
                        \/ cache \notin Nat
    BY <1>4, <2>1, <2>2, <2>3, <2>4, <2>5
  <2> QED
    BY <1>17, <1>18, <2>1, <2>6, <2>7, <2>8, <2>9
<1>11. CASE ShutDown(p) \/ RepositoryError(p)
  <2>1. /\ sql[p] \in {"conn", "select", "update", "commit"} /\ sql'[p] = "failed"
        /\ UNCHANGED <<cache, at, qty, result, sold>>
        /\ \/ UNCHANGED stock
           \/ /\ stock' + late' + qty[p] = stock + late /\ lost' = lost + qty[p]
              /\ RepositoryError(p)
    BY <1>5, <1>11, RepoErrorEffect DEF ShutDown, Leave, RepositoryError, serviceVars,
       salesVars
  <2>2. at[p] \in {"sync", "fallback"} /\ qty[p] \in Nat
    BY <1>6, <2>1, Amounts
  <2>3. stock' = stock \/ "lost commit" \in causes' \/ "late commit" \in causes'
    <3>1. CASE /\ stock' + late' + qty[p] = stock + late /\ lost' = lost + qty[p]
               /\ RepositoryError(p)
      <4>1. /\ lost' # lost => "lost commit" \in causes'
            /\ late' # late => "late commit" \in causes'
        BY <3>1 DEF RepositoryError, CommitCauses
      <4>2. lost' = lost /\ late' = late => stock' = stock
        BY <1>4, <2>2, <3>1
      <4> QED
        BY <3>1, <4>1, <4>2
    <3> QED
      BY <2>1, <3>1
  <2>4. /\ Taken(p) = 0 /\ Taken(p)' = 0
        /\ Reserved(p) = IF at[p] = "sync" THEN qty[p] ELSE 0
        /\ Reserved(p)' = IF at[p] = "sync" THEN qty[p] ELSE 0
    BY <1>6, <2>1, <2>2, Amounts
  <2>5. sold' + Taken(p) = sold + Taken(p)'
    BY <2>1, <2>4
  <2> QED
    BY <1>17, <1>18, <2>1, <2>3, <2>4, <2>5
<1>21. CASE Escaped(p)
  <2>1. /\ sql[p] = "conn" /\ sql'[p] = "idle" /\ result'[p] = "exception" /\ at'[p] = "done"
        /\ UNCHANGED <<cache, qty, sold, stock>>
        /\ at[p] = "sync" => "escaped" \in causes'
    BY <1>5, <1>21 DEF Escaped, ConnectThrows, Leave, Return, salesVars
  <2>2. /\ Taken(p) = 0 /\ Taken(p)' = 0 /\ Reserved(p)' = 0
        /\ at[p] # "sync" => Reserved(p) = 0
    BY <1>6, <2>1, Amounts
  <2>3. CASE at[p] = "sync"
    BY <1>19, <2>1, <2>2, <2>3
  <2>4. CASE at[p] # "sync"
    BY <1>4, <1>18, <2>1, <2>2, <2>4
  <2> QED
    BY <2>3, <2>4
<1>12. CASE Deducted(p)
  <2>1. /\ sql[p] = "ok" /\ result'[p] = "ok" /\ at'[p] = "done"
        /\ UNCHANGED <<cache, qty, sold, stock, causes>>
    BY <1>5, <1>12 DEF Deducted, Return, salesVars
  <2>2. /\ Taken(p) = qty[p] /\ Taken(p)' = qty[p] /\ qty[p] \in Nat
        /\ Reserved(p) = 0 /\ Reserved(p)' = 0
    BY <1>6, <2>1, Amounts
  <2> QED
    BY <1>4, <1>18, <2>1, <2>2
<1>13. CASE NotDeducted(p)
  <2>1. /\ sql[p] = "failed" /\ sql'[p] = "idle"
        /\ \/ at[p] = "fallback" /\ at'[p] = "done" /\ result'[p] = "kMySQLUpdateFailed"
           \/ at[p] = "sync" /\ at'[p] = "rollback" /\ result' = result
        /\ UNCHANGED <<cache, qty, sold, stock, causes>>
    BY <1>5, <1>13 DEF NotDeducted, Return, salesVars
  <2>2. /\ Taken(p) = 0 /\ Taken(p)' = 0 /\ qty[p] \in Nat
        /\ Reserved(p)' = Reserved(p) /\ Reserved(p) \in Nat
    BY <1>6, <2>1, Amounts
  <2> QED
    BY <1>4, <1>18, <2>1, <2>2
<1>14. CASE TakeSecondGuard(p)
  <2>1. /\ at[p] = "rollback" /\ at'[p] = "incrby"
        /\ UNCHANGED <<cache, qty, sql, sold, stock, causes, result>>
    BY <1>5, <1>14 DEF TakeSecondGuard, repoVars, callVars, salesVars
  <2>2. /\ Taken(p) = 0 /\ Taken(p)' = 0 /\ qty[p] \in Nat
        /\ Reserved(p)' = Reserved(p) /\ Reserved(p) \in Nat
    BY <1>6, <2>1, Amounts
  <2> QED
    BY <1>4, <1>18, <2>1, <2>2
<1>15. CASE NoSecondGuard(p) \/ IncrByError(p)
  <2>1. attempt[p] \in 0..(RetryTimes - 1) /\ RetryTimes \in Nat
    BY InventoryAssumption DEF TypeOK, CallTypes
  <2>2. /\ at[p] \in {"rollback", "incrby"} /\ UNCHANGED <<qty, sql, sold, stock>>
        /\ UNCHANGED cache \/ "lost answer" \in causes'
        /\ \/ at'[p] = "rollback" /\ result' = result
           \/ at'[p] = "done" /\ result'[p] = "kMySQLUpdateFailed" /\ "compensation" \in causes'
    <3>1. /\ at[p] \in {"rollback", "incrby"} /\ UNCHANGED <<qty, sql, sold, stock>>
          /\ UNCHANGED cache \/ "lost answer" \in causes'
          /\ NextAttempt(p)
          /\ attempt[p] + 1 = RetryTimes => "compensation" \in causes'
      BY <1>15 DEF NoSecondGuard, IncrByError, AttemptCause, repoVars, callVars, salesVars
    <3>2. attempt[p] + 1 < RetryTimes \/ attempt[p] + 1 = RetryTimes
      BY <2>1
    <3> QED
      BY <1>5, <3>1, <3>2 DEF NextAttempt, Return
  <2>3. /\ Taken(p) = 0 /\ Taken(p)' = 0 /\ qty[p] \in Nat
        /\ Reserved(p) = qty[p] /\ Reserved(p)' = IF at'[p] = "done" THEN 0 ELSE qty[p]
    BY <1>6, <2>2, Amounts
  <2>4. CASE at'[p] = "done"
    BY <1>17, <1>19, <2>2, <2>3, <2>4
  <2>5. CASE at'[p] # "done"
    BY <1>17, <1>18, <2>2, <2>3, <2>5
  <2> QED
    BY <2>4, <2>5
<1>16. CASE IncrBy(p)
  <2>1. /\ at[p] = "incrby" /\ at'[p] = "done" /\ result'[p] = "kMySQLUpdateFailed"
        /\ cache' = Incremented(p) /\ UNCHANGED <<qty, sql, sold, stock, causes>>
    BY <1>5, <1>16 DEF IncrBy, Return, repoVars, callVars, salesVars, worldVars
  <2>2. /\ Taken(p) = 0 /\ Taken(p)' = 0 /\ qty[p] \in Nat
        /\ Reserved(p) = qty[p] /\ Reserved(p)' = 0
    BY <1>6, <2>1, Amounts
  <2>3. cache # Missing /\ cache \in Nat => cache' = cache + qty[p] /\ cache' # Missing
    BY <2>1, <2>2, InventoryAssumption DEF Incremented
  <2> QED
    BY <1>4, <1>18, <2>1, <2>2, <2>3
<1>20. CASE Rebuild(p)
  <2>1. "fallback" \in causes' /\ UNCHANGED <<at, sql, qty, result, sold, stock>>
    BY <1>2, <1>6, <1>20 DEF Rebuild, repoVars, callVars, salesVars
  <2>2. Taken(p)' = Taken(p) /\ Taken(p) \in Nat
    BY <2>1, Amounts
  <2> QED
    BY <1>17, <2>1, <2>2
<1> QED
  BY <1>7, <1>8, <1>9, <1>10, <1>11, <1>12, <1>13, <1>14, <1>15, <1>16, <1>20, <1>21 DEF Deduct

(* Redis never drifts by itself, and a reply of 0 stands for a sale.       *)
LEMMA DriftStep ==
  ASSUME InventoryInv, Next, TypeOK', RepoInv', ServiceInv'
  PROVE  Drift' /\ RepliesTrue'
<1> USE DEF InventoryInv
<1>1. ASSUME UNCHANGED <<cache, stock, at, sql, qty, result, sold>>, causes \subseteq causes',
             Running' => Running, crashes' = crashes
      PROVE  Drift' /\ RepliesTrue'
  <2>1. TotalReserved' = TotalReserved /\ TotalTaken' = TotalTaken
    BY <1>1, SumsSame
  <2> QED
    BY <1>1, <2>1 DEF Drift, RepliesTrue
<1>2. CASE Wire \/ CloseRedis \/ CloseMySQL \/ RecycleIdle
  BY <1>1, <1>2 DEF Wire, CloseRedis, CloseMySQL, RecycleIdle, Recycle, repoVars, serviceVars,
     callVars, salesVars, worldVars, Running
<1>3. CASE \/ StartTest \/ TestRedis \/ TestRow \/ TestEscapes
           \/ CheckRedis \/ CheckRow \/ CheckRacing \/ CheckEscapes
  BY <1>1, <1>3, AuditFrame DEF Running, salesVars
<1>4. CASE InitializeRow
  <2>1. UNCHANGED <<at, sql, qty, result, sold, crashes>> /\ ~Running'
    BY <1>4 DEF InitializeRow, InitRow, callVars, salesVars, serviceVars, Running
  <2> QED
    BY <2>1, SumsSame DEF Drift, RepliesTrue
<1>5. CASE InitializeKey
  <2>1. UNCHANGED <<at, sql, qty, result, sold, crashes, stock>> /\ ~Running
        /\ cache' = InitStock /\ causes' = IF stock = InitStock THEN {} ELSE {"restart"}
    BY <1>5 DEF InitializeKey, repoVars, callVars, salesVars, serviceVars, Running
  <2>2. \A p \in Callers : at[p] = "idle" /\ sql[p] = "idle" /\ result[p] = "none"
    BY <2>1 DEF ServiceInv, Asleep, Phases, Replied
  <2>3. TotalReserved' = 0 /\ TotalTaken' = TotalTaken
    BY <2>1, <2>2, SumsZero, SumsSame
  <2>4. cache' # Missing
    BY <2>1, RepositoryAssumption, InventoryAssumption
  <2>5. causes' \subseteq Kept => cache' + TotalReserved' = stock' /\ stock' \in Nat
    BY <2>1, <2>3, RepositoryAssumption DEF Kept
  <2>6. causes' \subseteq Kept => cache' + TotalReserved' <= stock'
    BY <2>5
  <2> QED
    BY <2>1, <2>3, <2>4, <2>5, <2>6 DEF Drift, RepliesTrue
<1>6. CASE Crash
  <2>1. crashes' # 0
    <3>1. crashes \in 0..MaxCrashes /\ MaxCrashes \in Nat
      BY InventoryAssumption DEF TypeOK, WorldTypes
    <3>2. crashes' = crashes + 1
      BY <1>6 DEF Crash
    <3> QED
      BY <3>1, <3>2
  <2> QED
    BY <1>6, <2>1 DEF Crash, Running, Drift, RepliesTrue
<1>7. CASE KeyLoss
  <2>1. UNCHANGED <<at, sql, qty, result, sold, crashes>> /\ "key loss" \in causes'
    BY <1>7 DEF KeyLoss, repoVars, callVars, salesVars, serviceVars
  <2>2. ~(causes' \subseteq Kept)
    BY <2>1 DEF Kept
  <2> QED
    BY <2>1, <2>2, SumsSame DEF Drift, RepliesTrue
<1>8. ASSUME NEW p \in Callers, Call(p) \/ Deduct(p) \/ Rebuild(p)
      PROVE  Drift' /\ RepliesTrue'
  <2>1. Running /\ causes \subseteq causes' /\ crashes' = crashes
    BY <1>8, CallerRunning, CallerFrame
  <2>2. Accounts(p)
    BY <1>8, CallerAccounts
  <2>3. /\ TotalReserved \in Nat /\ TotalReserved' \in Nat
        /\ TotalReserved' + Reserved(p) = TotalReserved + Reserved(p)'
        /\ TotalTaken \in Nat /\ TotalTaken' \in Nat
        /\ TotalTaken' + Taken(p) = TotalTaken + Taken(p)'
    BY <1>8, CallerFrame, SumsStep
  <2>4. Reserved(p) \in Nat /\ Reserved(p)' \in Nat /\ Taken(p) \in Nat /\ Taken(p)' \in Nat
    BY Amounts
  <2>5. Drift'
    <3> SUFFICES ASSUME causes' \subseteq Kept
                 PROVE  /\ cache' # Missing /\ cache' + TotalReserved' <= stock'
                        /\ causes' = {} => cache' + TotalReserved' = stock'
      BY DEF Drift
    <3>1. /\ cache # Missing /\ cache + TotalReserved <= stock
          /\ causes' = {} => cache + TotalReserved = stock
      BY <2>1 DEF Drift
    <3>2. /\ cache' # Missing
          /\ cache' + Reserved(p)' + stock <= cache + Reserved(p) + stock'
          /\ causes' = {} => cache' + Reserved(p)' + stock = cache + Reserved(p) + stock'
      BY <2>2 DEF Accounts
    <3>3. cache \in Nat /\ cache' \in Nat /\ stock \in Nat /\ stock' \in Nat
      BY <2>1, <3>1, <3>2, CallerFrame, <1>8 DEF TypeOK, WorldTypes, RepoInv, RepoTypeOK,
         ServiceInv,
         Started, Running
    <3> HIDE DEF InventoryInv
    <3>4. PICK c \in Nat, cc \in Nat, s \in Nat, ss \in Nat, t \in Nat, tt \in Nat,
               r \in Nat, rr \in Nat :
            /\ c = cache /\ cc = cache' /\ s = stock /\ ss = stock'
            /\ t = TotalReserved /\ tt = TotalReserved'
            /\ r = Reserved(p) /\ rr = Reserved(p)'
      BY <2>3, <2>4, <3>3
    <3>5. /\ tt + r = t + rr /\ c + t <= s /\ cc + rr + s <= c + r + ss
          /\ causes' = {} => c + t = s /\ cc + rr + s = c + r + ss
      BY <2>3, <3>1, <3>2, <3>4
    <3>6. cc + tt <= ss
      BY <3>5
    <3>7. causes' = {} => cc + tt = ss
      BY <3>5
    <3> QED
      BY <3>2, <3>4, <3>6, <3>7
  <2>6. RepliesTrue'
    <3>1. sold \in Nat /\ sold' \in Nat
      BY DEF RepoInv, RepoTypeOK
    <3>2. sold' + Taken(p) = sold + Taken(p)'
      BY <2>2 DEF Accounts
    <3>3. crashes' = 0 => sold = TotalTaken
      BY <2>1 DEF RepliesTrue
    <3>4. crashes' = 0 => sold' = TotalTaken'
      BY <2>3, <2>4, <3>1, <3>2, <3>3
    <3> QED
      BY <3>4 DEF RepliesTrue
  <2> QED
    BY <2>5, <2>6
<1> QED
  BY <1>2, <1>3, <1>4, <1>5, <1>6, <1>7, <1>8 DEF Next

-----------------------------------------------------------------------------
(* The diagnostics                                                         *)

(* A step of deduct() belongs to a call that is under way.                 *)
LEMMA DeductInFlight ==
  ASSUME RepoInv, ServiceInv, NEW p \in Callers, Deduct(p)
  PROVE  at[p] \notin {"idle", "done"}
<1>1. CASE TakeGuard(p) \/ NoRedisGuard(p) \/ Eval(p) \/ EvalError(p)
           \/ TakeSecondGuard(p) \/ NoSecondGuard(p) \/ IncrBy(p) \/ IncrByError(p)
  BY <1>1 DEF TakeGuard, NoRedisGuard, Eval, EvalError, TakeSecondGuard, NoSecondGuard, IncrBy,
     IncrByError
<1>2. CASE Repository(p) \/ ShutDown(p) \/ RepositoryError(p) \/ Escaped(p) \/ Deducted(p)
           \/ NotDeducted(p)
  <2>1. sql[p] # "idle"
    BY <1>2, RepoStepEffect, RepoErrorEffect DEF Repository, ShutDown, RepositoryError, Escaped,
       ConnectThrows, Deducted, NotDeducted
  <2> QED
    BY <2>1 DEF ServiceInv, Phases
<1> QED
  BY <1>1, <1>2 DEF Deduct

(* Nothing under way, nothing reserved.                                    *)
LEMMA CalmZero ==
  ASSUME InFlight = {}
  PROVE  TotalReserved = 0
<1>1. \A p \in Callers : Reserved(p) = 0
  BY DEF InFlight, Reserved
<1> DEFINE r == [p \in Callers |-> Reserved(p)]
<1>2. r \in [Callers -> Nat] /\ \A q \in Callers : r[q] = IF q \in {} THEN 0 ELSE 0
  BY <1>1
<1>3. Total(r) = Cardinality({}) * 0
  <2> HIDE DEF r
  <2> QED
    BY <1>2, TotalUniform
<1> QED
  BY <1>3, FS_EmptySet DEF TotalReserved

(* While nothing is under way and no cause happened, a reading of Redis is *)
(* the stock; a reading of MySQL outside a transaction always is.          *)
LEMMA CalmReading ==
  ASSUME InventoryInv, InFlight = {}, Running, causes = {}, NEW v, ReadRedis(v)
  PROVE  v \in {stock, NoValue}
<1>1. cache # Missing /\ cache + TotalReserved = stock
  BY DEF InventoryInv, Drift
<1>2. cache \in Nat
  BY <1>1 DEF InventoryInv, TypeOK, WorldTypes
<1>3. cache = stock
  BY <1>1, <1>2, CalmZero
<1> QED
  BY <1>1, <1>3 DEF ReadRedis

LEMMA FreshReading ==
  ASSUME NEW v, ReadRow(v), NoneOpen
  PROVE  v \in {stock, NoValue}
BY DEF ReadRow, StockOn, Free, NoneOpen

(* What the threads of the test took moves with their calls.               *)
LEMMA TestSumStep ==
  ASSUME TypeOK, TypeOK', RepoInv, RepoInv', NEW p \in Callers, UNCHANGED test,
         \A q \in Callers \ {p} : /\ sql'[q] = sql[q] /\ qty'[q] = qty[q]
                                  /\ result'[q] = result[q]
  PROVE  /\ TotalTestTaken \in Nat /\ TotalTestTaken' \in Nat
         /\ TotalTestTaken' + TestTaken(p) = TotalTestTaken + TestTaken(p)'
<1> DEFINE t == [q \in Callers |-> TestTaken(q)]
<1>1. t \in [Callers -> Nat] /\ t' \in [Callers -> Nat]
  BY Amounts DEF TestTaken
<1>2. \A q \in Callers \ {p} : t'[q] = t[q]
  BY Amounts DEF TestTaken
<1>3. t[p] = TestTaken(p) /\ t'[p] = TestTaken(p)'
  OBVIOUS
<1>4. TotalTestTaken = Total(t) /\ TotalTestTaken' = Total(t')
  BY DEF TotalTestTaken, Total, Units
<1> HIDE DEF t
<1>5. /\ Total(t) \in Nat /\ Total(t') \in Nat /\ Total(t') + t[p] = Total(t) + t'[p]
  BY <1>1, <1>2, TotalStep
<1> QED
  BY <1>3, <1>4, <1>5

LEMMA TestSumSame ==
  ASSUME UNCHANGED <<sql, qty, result>>, test'.threads = test.threads
  PROVE  TotalTestTaken' = TotalTestTaken
BY DEF TotalTestTaken, Total, Units, TestTaken, Taken

(* Threads that were not called yet took nothing.                          *)
LEMMA TestSumZero ==
  ASSUME \A p \in test'.threads : sql'[p] = "idle" /\ result'[p] = "none"
  PROVE  TotalTestTaken' = 0
<1>1. \A p \in Callers : TestTaken(p)' = 0
  BY DEF TestTaken, Taken, HttpCode
<1> DEFINE t == [p \in Callers |-> TestTaken(p)']
<1>2. t \in [Callers -> Nat] /\ \A q \in Callers : t[q] = IF q \in {} THEN 0 ELSE 0
  BY <1>1
<1>3. Total(t) = Cardinality({}) * 0
  <2> HIDE DEF t
  <2> QED
    BY <1>2, TotalUniform
<1>4. Cardinality({}) = 0
  BY FS_EmptySet
<1>5. TotalTestTaken' = Total(t)
  BY DEF TotalTestTaken, Total, Units
<1> QED
  BY <1>3, <1>4, <1>5

(* The test's own steps.                                                   *)
LEMMA TestStepsInv ==
  ASSUME InventoryInv, TypeOK', RepoInv', StartTest \/ TestRedis \/ TestRow \/ TestEscapes
  PROVE  TestCalls' /\ TestReads'
<1> USE DEF InventoryInv
<1>1. UNCHANGED <<stock, inTx, sql, qty, at, result, causes>>
  BY AuditFrame
<1>2. CASE StartTest
  <2>1. PICK v \in Values :
          /\ \/ ReadRedis(v) /\ v # NoValue
             \/ ReadRow(v)
          /\ \E q \in TestQuantities, t \in Groups :
               /\ \A p \in t : at[p] = "idle"
               /\ test' =
                    IF v = NoValue THEN NoTest
                    ELSE IF Calm
                    THEN [NoTest EXCEPT !.at = "running", !.qty = q, !.initial = v,
                                        !.threads = t, !.fresh = NoneOpen]
                    ELSE [NoTest EXCEPT !.at = "disturbed", !.qty = q, !.threads = t]
    BY <1>2 DEF StartTest
  <2>2. Running
    BY <1>2 DEF StartTest, Running
  <2>3. \/ test' = NoTest
        \/ /\ test'.at = "disturbed" /\ \A p \in test'.threads : at[p] = "idle"
        \/ /\ test'.at = "running" /\ \A p \in test'.threads : at[p] = "idle"
           /\ InFlight = {} /\ v # NoValue /\ test'.initial = v /\ (test'.fresh <=> NoneOpen)
    <3> DEFINE f == NoneOpen
    <3>1. f \in BOOLEAN
      BY DEF NoneOpen
    <3>2. PICK q \in TestQuantities, t \in Groups :
               /\ \A p \in t : at[p] = "idle"
               /\ test' =
                    IF v = NoValue THEN NoTest
                    ELSE IF Calm
                    THEN [NoTest EXCEPT !.at = "running", !.qty = q, !.initial = v,
                                        !.threads = t, !.fresh = f]
                    ELSE [NoTest EXCEPT !.at = "disturbed", !.qty = q, !.threads = t]
      BY <2>1
    <3> HIDE DEF f
    <3>3. \/ test' = NoTest
          \/ /\ test'.at = "disturbed" /\ \A p \in test'.threads : at[p] = "idle"
          \/ /\ test'.at = "running" /\ \A p \in test'.threads : at[p] = "idle"
             /\ InFlight = {} /\ v # NoValue /\ test'.initial = v /\ (test'.fresh <=> f)
      BY <3>1, <3>2 DEF NoTest, Calm
    <3> QED
      BY <3>3 DEF f
  <2>4. CASE test' = NoTest
    BY <2>4 DEF NoTest, TestCalls, TestReads, Undisturbed
  <2>5. CASE test'.at = "disturbed" /\ \A p \in test'.threads : at[p] = "idle"
    BY <1>1, <2>5 DEF TestCalls, TestReads, Undisturbed
  <2>6. CASE /\ test'.at = "running" /\ \A p \in test'.threads : at[p] = "idle"
             /\ InFlight = {} /\ v # NoValue /\ test'.initial = v /\ (test'.fresh <=> NoneOpen)
    <3>1. \A p \in test'.threads : p \in Callers
      BY DEF TypeOK, AuditTypes, TestState
    <3>2. \A p \in test'.threads : sql'[p] = "idle" /\ result'[p] = "none"
      BY <1>1, <2>6, <3>1 DEF ServiceInv, Phases, Replied
    <3>3. TotalTestTaken' = 0 /\ stock \in Nat
      BY <2>2, <3>2, TestSumZero DEF ServiceInv, Started, RepoInv, RepoTypeOK
    <3>4. causes = {} /\ NoneOpen => v \in {stock, NoValue}
      BY <2>1, <2>2, <2>6, CalmReading, FreshReading
    <3> QED
      BY <1>1, <2>6, <3>3, <3>4 DEF TestCalls, TestReads, Undisturbed, InFlight
  <2> QED
    BY <2>3, <2>4, <2>5, <2>6
<1>3. CASE TestRedis
  <2>1. PICK v \in Values : ReadRedis(v) /\ test' = [test EXCEPT !.at = "redis", !.redis = v]
    BY <1>3 DEF TestRedis
  <2>2. test.at = "running" /\ \A p \in test.threads : at[p] = "done"
    BY <1>3 DEF TestRedis, Joined
  <2>3. Running /\ InFlight = {}
    BY <2>2 DEF ServiceInv, Asleep, NoTest, InFlight, TestCalls, Undisturbed
  <2>4. causes = {} => v \in {stock, NoValue}
    BY <2>1, <2>3, CalmReading
  <2>5. test'.at = "redis" /\ test'.redis = v /\ test'.qty = test.qty
        /\ test'.initial = test.initial /\ test'.threads = test.threads
        /\ test'.fresh = test.fresh
    BY <2>1 DEF TypeOK, AuditTypes, TestState
  <2>6. TotalTestTaken' = TotalTestTaken
    BY <1>1, <2>5, TestSumSame
  <2> QED
    BY <1>1, <2>2, <2>4, <2>5, <2>6 DEF TestCalls, TestReads, Undisturbed
<1>4. CASE TestRow
  <2> DEFINE f == test.fresh /\ NoneOpen
  <2>0. f \in BOOLEAN
    BY DEF NoneOpen, TypeOK, AuditTypes, TestState
  <2>1. PICK v \in Values :
          /\ ReadRow(v)
          /\ test' = IF test.at = "disturbed" THEN NoTest
                     ELSE [test EXCEPT !.at = "reported", !.mysql = v, !.fresh = f]
    BY <1>4 DEF TestRow
  <2>3. f => v \in {stock, NoValue}
    BY <2>1, FreshReading
  <2>4. CASE test.at = "disturbed"
    BY <2>1, <2>4 DEF NoTest, TestCalls, TestReads, Undisturbed
  <2>5. CASE test.at # "disturbed"
    <3>1. test.at = "redis"
      BY <1>4, <2>5 DEF TestRow, AtRow
    <3>2. test'.at = "reported" /\ test'.redis = test.redis /\ test'.qty = test.qty
          /\ test'.initial = test.initial /\ test'.threads = test.threads /\ test'.mysql = v
          /\ (test'.fresh <=> f)
      <4> HIDE DEF f
      <4> QED
        BY <2>0, <2>1, <2>5 DEF TypeOK, AuditTypes, TestState
    <3>3. TotalTestTaken' = TotalTestTaken
      BY <1>1, <3>2, TestSumSame
    <3> QED
      BY <1>1, <2>3, <3>1, <3>2, <3>3 DEF TestCalls, TestReads, Undisturbed
  <2> QED
    BY <2>4, <2>5
<1>5. CASE TestEscapes
  BY <1>5 DEF TestEscapes, NoTest, TestCalls, TestReads, Undisturbed
<1> QED
  BY <1>2, <1>3, <1>4, <1>5

LEMMA TestStep ==
  ASSUME InventoryInv, Next, TypeOK', RepoInv', ServiceInv'
  PROVE  TestCalls' /\ TestReads'
<1> USE DEF InventoryInv
<1>0. ASSUME UNCHANGED <<at, sql, qty, result, stock, test>>, causes' = {} => causes = {}
      PROVE  TestCalls' /\ TestReads'
  <2>1. TotalTestTaken' = TotalTestTaken
    BY <1>0, TestSumSame
  <2> QED
    BY <1>0, <2>1 DEF TestCalls, TestReads
<1>1. CASE Wire \/ CloseRedis \/ CloseMySQL \/ KeyLoss
  BY <1>0, <1>1 DEF Wire, CloseRedis, CloseMySQL, KeyLoss, repoVars, callVars, serviceVars,
     auditVars
<1>2. CASE InitializeRow \/ InitializeKey \/ Crash
  <2>1. test' = NoTest
    BY <1>2 DEF InitializeRow, InitializeKey, Crash, auditVars, ServiceInv, Asleep, Running
  <2> QED
    BY <2>1 DEF TestCalls, TestReads, Undisturbed, NoTest
<1>3. CASE RecycleIdle \/ CheckRedis \/ CheckRow \/ CheckRacing \/ CheckEscapes
  BY <1>0, <1>3, AuditFrame DEF RecycleIdle, Recycle, CheckRedis, CheckRow, CheckRacing,
     CheckEscapes, callVars, serviceVars, auditVars
<1>4. CASE StartTest \/ TestRedis \/ TestRow \/ TestEscapes
  BY <1>4, TestStepsInv
<1>5. ASSUME NEW p \in Callers, Call(p) \/ Deduct(p) \/ Rebuild(p)
      PROVE  TestCalls' /\ TestReads'
  <2>1. /\ \A q \in Callers \ {p} : /\ at'[q] = at[q] /\ sql'[q] = sql[q]
                                     /\ qty'[q] = qty[q] /\ result'[q] = result[q]
        /\ causes \subseteq causes'
        /\ Call(p) => test' = TestWith(p)
        /\ ~Call(p) => UNCHANGED <<test, qty>>
    BY <1>5, CallerFrame DEF Call
  <2>2. /\ test.at # "none" =>
             \A q \in test.threads : at[q] # "idle" => qty[q] = test.qty
        /\ test.at \in Undisturbed =>
             \A q \in Callers \ test.threads : at[q] \in {"idle", "done"}
        /\ test.at \in {"redis", "reported"} => \A q \in test.threads : at[q] = "done"
        /\ test.threads \subseteq Callers
        /\ test.at \in {"none", "disturbed"} \cup Undisturbed
    BY DEF TestCalls, TypeOK, AuditTypes, TestState, Undisturbed
  <2>3. CASE Call(p) /\ p \notin test.threads
    <3>1. \/ test' = test /\ test.at \notin Undisturbed
          \/ test' = NoTest
          \/ test'.at = "disturbed" /\ test'.qty = test.qty /\ test'.threads = test.threads
             /\ test.at # "none"
      BY <2>1, <2>2, <2>3 DEF TestWith, NoTest, Undisturbed
    <3>2. \A q \in test.threads : at'[q] = at[q] /\ qty'[q] = qty[q]
      BY <2>1, <2>2, <2>3
    <3>3. CASE test' = NoTest
      BY <3>3 DEF NoTest, TestCalls, TestReads, Undisturbed
    <3>4. CASE test' = test /\ test.at \notin Undisturbed
      BY <2>2, <3>2, <3>4 DEF TestCalls, TestReads, Undisturbed
    <3>5. CASE test'.at = "disturbed" /\ test'.qty = test.qty /\ test'.threads = test.threads
               /\ test.at # "none"
      BY <2>2, <3>2, <3>5 DEF TestCalls, TestReads, Undisturbed
    <3> QED
      BY <3>1, <3>3, <3>4, <3>5
  <2>4. CASE Call(p) /\ p \in test.threads
    <3>1. test' = test /\ causes' = causes /\ stock' = stock /\ at[p] = "idle"
      BY <2>1, <2>4 DEF TestWith, Call
    <3>2. PICK i \in BOOLEAN, q \in Quantities \cup {0} :
            i /\ q = test.qty /\ qty' = [qty EXCEPT ![p] = IF i THEN q ELSE 0]
      BY <2>4 DEF Call
    <3>3. qty'[p] = test.qty
      BY <3>2 DEF RepoInv, RepoTypeOK
    <3>4. test.at \notin {"redis", "reported"}
      BY <2>2, <2>4, <3>1
    <3>5. TestCalls'
      BY <2>1, <2>2, <2>4, <3>1, <3>3, <3>4 DEF TestCalls
    <3>6. TotalTestTaken' = TotalTestTaken
      <4>1. sold' + Taken(p) = sold + Taken(p)' /\ sold' = sold
        BY <1>5, <2>4, CallerAccounts DEF Accounts, Call, salesVars
      <4>2. sold \in Nat /\ Taken(p) \in Nat /\ Taken(p)' \in Nat
        BY Amounts DEF RepoInv, RepoTypeOK
      <4>3. TestTaken(p)' = TestTaken(p) /\ TestTaken(p) \in Nat
        BY <2>4, <3>1, <4>1, <4>2 DEF TestTaken
      <4>4. /\ TotalTestTaken \in Nat /\ TotalTestTaken' \in Nat
            /\ TotalTestTaken' + TestTaken(p) = TotalTestTaken + TestTaken(p)'
        BY <2>1, <3>1, TestSumStep
      <4> QED
        BY <4>3, <4>4
    <3> QED
      BY <3>1, <3>4, <3>5, <3>6 DEF TestReads
  <2>5. CASE Deduct(p)
    <3>1. at[p] \notin {"idle", "done"}
      BY <2>5, DeductInFlight
    <3>2. test' = test /\ qty' = qty
      <4>1. ~Call(p)
        BY <3>1 DEF Call
      <4> QED
        BY <2>1, <4>1
    <3>3. test.at \in Undisturbed => p \in test.threads /\ test.at = "running"
      BY <2>2, <3>1 DEF Undisturbed
    <3>4. TestCalls'
      BY <2>1, <2>2, <3>1, <3>2, <3>3 DEF TestCalls, Undisturbed
    <3>5. p \in test.threads /\ causes' = {} =>
            stock' + TotalTestTaken' = stock + TotalTestTaken
      <4> SUFFICES ASSUME p \in test.threads, causes' = {}
                   PROVE  stock' + TotalTestTaken' = stock + TotalTestTaken
        OBVIOUS
      <4>0. stock \in Nat /\ stock' \in Nat
        <5>1. stock # NoRow /\ stock' # NoRow
          BY <1>5, CallerRunning, CallerFrame DEF ServiceInv, Started, Running
        <5> QED
          BY <5>1 DEF RepoInv, RepoTypeOK
      <4>1. stock' + Taken(p)' = stock + Taken(p)
        BY <1>5, CallerAccounts DEF Accounts
      <4>2. TestTaken(p) = Taken(p) /\ TestTaken(p)' = Taken(p)'
        BY <3>2 DEF TestTaken
      <4>3. Taken(p) \in Nat /\ Taken(p)' \in Nat
        BY Amounts
      <4>4. /\ TotalTestTaken \in Nat /\ TotalTestTaken' \in Nat
            /\ TotalTestTaken' + TestTaken(p) = TotalTestTaken + TestTaken(p)'
        BY <2>1, <3>2, TestSumStep
      <4> QED
        BY <4>0, <4>1, <4>2, <4>3, <4>4
    <3>6. causes' = {} => causes = {}
      BY <2>1
    <3> QED
      BY <3>2, <3>3, <3>4, <3>5, <3>6 DEF TestReads, Undisturbed
  <2>6. CASE Rebuild(p)
    <3>1. "fallback" \in causes /\ UNCHANGED <<at, qty, test>>
      BY <2>6 DEF Rebuild, repoVars, callVars, auditVars, ServiceInv, Fallbacks
    <3>2. causes' # {}
      BY <2>1, <3>1
    <3> QED
      BY <2>2, <3>1, <3>2 DEF TestCalls, TestReads
  <2> QED
    BY <1>5, <2>3, <2>4, <2>5, <2>6
<1> QED
  BY <1>1, <1>2, <1>3, <1>4, <1>5 DEF Next

LEMMA CheckStep ==
  ASSUME InventoryInv, Next, RepoInv'
  PROVE  CheckReads' /\ NoFalseAlarm'
<1> USE DEF InventoryInv
<1>0. check \in CheckState
  BY DEF TypeOK, AuditTypes
<1>1. CASE Wire \/ CloseRedis \/ CloseMySQL \/ KeyLoss
  <2>1. UNCHANGED <<at, stock, check>> /\ (causes' = causes \/ "key loss" \in causes')
    BY <1>1 DEF Wire, CloseRedis, CloseMySQL, KeyLoss, repoVars, serviceVars, auditVars
  <2> QED
    BY <2>1 DEF CheckReads, NoFalseAlarm, InFlight, CheckReply, Consistent, RedisAvailable
<1>2. CASE InitializeRow \/ InitializeKey \/ Crash
  <2>1. check' = NoCheck
    BY <1>2 DEF InitializeRow, InitializeKey, Crash, auditVars, ServiceInv, Asleep, Running
  <2> QED
    BY <2>1 DEF CheckReads, NoFalseAlarm, NoCheck
<1>3. CASE RecycleIdle \/ StartTest \/ TestRedis \/ TestRow \/ TestEscapes \/ CheckRacing
  <2>1. UNCHANGED <<at, stock, check, causes>>
    BY <1>3, AuditFrame DEF RecycleIdle, Recycle, StartTest, TestRedis, TestRow, TestEscapes,
       CheckRacing, serviceVars, auditVars
  <2> QED
    BY <2>1 DEF CheckReads, NoFalseAlarm, InFlight, CheckReply, Consistent, RedisAvailable
<1>4. CASE CheckRedis
  <2>1. PICK v \in Values :
          ReadRedis(v) /\ check' = [NoCheck EXCEPT !.at = "redis", !.redis = v]
    BY <1>4 DEF CheckRedis
  <2>2. InFlight = {} /\ check'.at = "redis" /\ check'.redis = v
    BY <1>4, <2>1 DEF CheckRedis, NoCheck, Calm
  <2>3. Running
    BY <1>4 DEF CheckRedis, Running
  <2>4. UNCHANGED <<at, stock, causes>>
    BY <1>4, AuditFrame
  <2>5. InFlight = {} /\ causes = {} => v \in {stock, NoValue}
    BY <2>1, <2>3, CalmReading
  <2> QED
    BY <2>2, <2>4, <2>5 DEF CheckReads, NoFalseAlarm, InFlight
<1>5. CASE CheckRow
  <2>1. PICK v \in Values :
          check' = [check EXCEPT !.at = "reported", !.mysql = v,
                                 !.fresh = v \in {stock, NoValue}]
    BY <1>5 DEF CheckRow
  <2>2. UNCHANGED <<at, stock, causes>>
    BY <1>5, AuditFrame
  <2>3. /\ check.at = "redis" /\ check'.at = "reported" /\ check'.redis = check.redis
        /\ check'.mysql = v /\ (check'.fresh <=> v \in {stock, NoValue})
    <3> DEFINE f == v \in {stock, NoValue}
    <3>1. f \in BOOLEAN
      OBVIOUS
    <3>2. check' = [check EXCEPT !.at = "reported", !.mysql = v, !.fresh = f]
      BY <2>1
    <3>4. check.at = "redis"
      BY <1>5 DEF CheckRow
    <3> HIDE DEF f
    <3>3. /\ check.at = "redis" /\ check'.at = "reported" /\ check'.redis = check.redis
          /\ check'.mysql = v /\ (check'.fresh <=> f)
      BY <1>0, <3>1, <3>2, <3>4 DEF CheckState
    <3> USE DEF f
    <3> QED
      BY <3>3
  <2>4. check.at = "redis" /\ causes = {} => check.redis \in {stock, NoValue}
    BY DEF CheckReads
  <2> QED
    BY <2>2, <2>3, <2>4 DEF CheckReads, NoFalseAlarm, CheckReply, Consistent, RedisAvailable
<1>8. CASE CheckEscapes
  BY <1>8 DEF CheckEscapes, NoCheck, CheckReads, NoFalseAlarm
<1>6. ASSUME NEW p \in Callers, Call(p) PROVE CheckReads' /\ NoFalseAlarm'
  <2>1. check'.at = "none"
    BY <1>6 DEF Call, NoCheck
  <2> QED
    BY <2>1 DEF CheckReads, NoFalseAlarm
<1>7. ASSUME NEW p \in Callers, Deduct(p) \/ Rebuild(p), ~Call(p)
      PROVE  CheckReads' /\ NoFalseAlarm'
  <2>1. check' = check /\ causes \subseteq causes'
    BY <1>7, CallerFrame
  <2>2. NoFalseAlarm'
    BY <2>1 DEF NoFalseAlarm, CheckReply, Consistent, RedisAvailable
  <2>3. CASE Deduct(p)
    <3>1. p \in InFlight
      BY <2>3, DeductInFlight DEF InFlight
    <3>2. check.at # "redis"
      BY <3>1 DEF CheckReads
    <3> QED
      BY <2>1, <2>2, <3>2 DEF CheckReads
  <2>4. CASE Rebuild(p)
    <3>1. UNCHANGED <<at, stock>> /\ causes' # {}
      BY <2>1, <2>4 DEF Rebuild, repoVars, ServiceInv, Fallbacks
    <3> QED
      BY <2>1, <2>2, <3>1 DEF CheckReads, InFlight
  <2> QED
    BY <1>7, <2>3, <2>4
<1> QED
  BY <1>1, <1>2, <1>3, <1>4, <1>5, <1>6, <1>7, <1>8 DEF Next

-----------------------------------------------------------------------------
(* The theorems                                                            *)

LEMMA Step == InventoryInv /\ [Next]_vars => InventoryInv'
<1> SUFFICES ASSUME InventoryInv, [Next]_vars PROVE InventoryInv'
  OBVIOUS
<1>1. CASE Next
  <2>1. RepoInv'
    BY <1>1, RepoNext DEF InventoryInv
  <2>2. TypeOK'
    BY <1>1, <2>1, CallTypesStep, AuditTypesStep, WorldTypesStep
       DEF InventoryInv, TypeOK, RepoInv
  <2>3. ServiceInv'
    BY <1>1, <2>1, <2>2, ServiceStep
  <2> QED
    BY <1>1, <2>1, <2>2, <2>3, DriftStep, TestStep, CheckStep DEF InventoryInv
<1>2. CASE UNCHANGED vars
  <2>1. UNCHANGED <<repoVars, cache, at, held, attempt, result, rebuild, test, check, causes,
                    app, faults, crashes>>
    BY <1>2 DEF vars
  <2>2. RepoInv'
    BY <2>1, RepoStutterInv DEF InventoryInv
  <2>3. TypeOK'
    BY <2>1, <2>2 DEF InventoryInv, RepoInv, TypeOK, CallTypes, AuditTypes, WorldTypes,
       RedisFree, Total, Units
  <2>4. ServiceInv'
    BY <2>1 DEF InventoryInv, ServiceInv, repoVars, callVars, Phases, Guards, Replied, Asked,
       Fallbacks,
       Started, Asleep, Running
  <2>5. /\ TotalReserved' = TotalReserved /\ TotalTaken' = TotalTaken
        /\ TotalTestTaken' = TotalTestTaken
    BY <2>1, SumsSame, TestSumSame DEF repoVars, callVars
  <2>6. Drift' /\ RepliesTrue' /\ TestCalls' /\ TestReads' /\ CheckReads'
    BY <2>1, <2>5 DEF InventoryInv, Drift, RepliesTrue, TestCalls, TestReads, CheckReads,
       repoVars, callVars, salesVars, Running, InFlight
  <2>7. NoFalseAlarm'
    BY <2>1 DEF InventoryInv, NoFalseAlarm, CheckReply, Consistent, RedisAvailable
  <2> QED
    BY <2>2, <2>3, <2>4, <2>6, <2>7 DEF InventoryInv
<1> QED
  BY <1>1, <1>2

(* The invariant holds in every state of the inventory service.            *)
THEOREM InventoryCorrect == Spec => []InventoryInv
BY InitInv, Step, PTL DEF Spec

(* Every variable keeps its type: the Redis pool never lends more than it  *)
(* has, and no fault and no crash is counted beyond its bound.             *)
THEOREM TypeCorrect == Spec => []TypeOK
<1>1. InventoryInv => TypeOK
  BY DEF InventoryInv
<1> QED
  BY <1>1, InventoryCorrect, PTL

(* deduct_stock(): the row is the initial stock less what was committed,   *)
(* for any number of concurrent calls, errors and lost connections.        *)
THEOREM LedgerKept == Spec => []Ledger
<1>1. InventoryInv => Ledger
  BY DEF InventoryInv, RepoInv
<1> QED
  BY <1>1, InventoryCorrect, PTL

(* The handlers that return without rollback() never leave a lock on a     *)
(* connection whose flag says there is no transaction.                     *)
THEOREM LockReachable == Spec => []LockInTransaction
<1>1. InventoryInv => LockInTransaction
  BY DEF InventoryInv, RepoInv
<1> QED
  BY <1>1, InventoryCorrect, PTL

(* Redis, MySQL and the calls under way agree unless a recorded cause      *)
(* happened.                                                               *)
THEOREM CacheAgrees == Spec => []CacheExact
<1>1. InventoryInv => CacheExact
  BY DEF InventoryInv, Drift, Running, CacheExact
<1> QED
  BY <1>1, InventoryCorrect, PTL

(* A compensation given up or skipped makes Redis promise less than MySQL  *)
(* has, never more.                                                        *)
THEOREM Undersells == Spec => []CompensationUndersells
<1>1. InventoryInv => CompensationUndersells
  BY DEF InventoryInv, Drift, Kept, Running, CompensationUndersells
<1> QED
  BY <1>1, InventoryCorrect, PTL

(* The calls answered 0 are the sales.                                     *)
THEOREM RepliesAreSales == Spec => []RepliesTrue
<1>1. InventoryInv => RepliesTrue
  BY DEF InventoryInv
<1> QED
  BY <1>1, InventoryCorrect, PTL

(* When every call of a test has returned, what they took is the number of *)
(* successes times the quantity.                                           *)
LEMMA TakenIsSuccesses ==
  ASSUME InventoryInv, test.at = "reported"
  PROVE  Successes \in Nat /\ TotalTestTaken = Successes * test.qty /\ test.qty \in Nat
<1> USE DEF InventoryInv
<1> DEFINE S == {p \in test.threads : result[p] = "ok"}
           f == [p \in Callers |-> TestTaken(p)]
<1>0. test.threads \subseteq Callers
  BY DEF TypeOK, AuditTypes, TestState
<1>1. \A p \in test.threads : at[p] = "done" /\ qty[p] = test.qty /\ sql[p] = "idle"
  BY <1>0 DEF TestCalls, ServiceInv, Phases
<1>2. test.qty \in Nat
  <2>1. test.qty \in Quantities \cup {0}
    BY DEF TypeOK, AuditTypes, TestState, TestQuantities
  <2>2. \A n \in Quantities : n \in Nat
    BY RepositoryAssumption
  <2> QED
    BY <2>1, <2>2
<1>3. \A p \in Callers : TestTaken(p) = IF p \in S THEN test.qty ELSE 0
  <2> TAKE p \in Callers
  <2>1. result[p] \in Codes \cup {"none"}
    BY DEF TypeOK, CallTypes
  <2> QED
    BY <1>1, <2>1, HttpOk DEF TestTaken, Taken
<1>4. f \in [Callers -> Nat] /\ \A q \in Callers : f[q] = IF q \in S THEN test.qty ELSE 0
  BY <1>2, <1>3
<1>5. Total(f) = Cardinality(S) * test.qty
  <2> HIDE DEF f, S
  <2>1. S \subseteq Callers
    BY <1>0 DEF S
  <2> QED
    BY <1>2, <1>4, <2>1, TotalUniform
<1>6. Cardinality(S) \in Nat
  <2>1. S \subseteq Callers
    BY <1>0
  <2> QED
    BY <2>1, InventoryAssumption, FS_Subset, FS_CardinalityType
<1> QED
  BY <1>2, <1>5, <1>6 DEF Successes, TotalTestTaken

LEMMA DiagnosticsTrue == InventoryInv => ReportsTrue
<1> SUFFICES ASSUME InventoryInv PROVE TestPasses
  BY DEF InventoryInv, ReportsTrue
<1> SUFFICES ASSUME test.at = "reported", causes = {}, test.redis # NoValue,
                    test.fresh, test.mysql # NoValue
             PROVE  /\ TestReply.code = 0 /\ TestReply.data_consistent
                    /\ TestReply.theoretical_remain = stock
  BY DEF TestPasses
<1>1. /\ test.initial # NoValue /\ test.initial = stock + TotalTestTaken
      /\ test.redis = stock /\ test.mysql = stock
  BY DEF InventoryInv, TestReads, Undisturbed
<1>2. stock \in Nat
  <2>1. Running
    BY DEF InventoryInv, ServiceInv, Asleep, NoTest
  <2> QED
    BY <2>1 DEF InventoryInv, ServiceInv, Started, RepoInv, RepoTypeOK
<1>3. test.initial - Successes * test.qty = stock
  <2>1. PICK s \in Nat, t \in Nat :
          s = stock /\ t = Successes * test.qty /\ t = TotalTestTaken
    BY <1>2, TakenIsSuccesses
  <2>2. test.initial = s + t
    BY <1>1, <2>1
  <2>3. s + t - t = s
    OBVIOUS
  <2> QED
    BY <2>1, <2>2, <2>3
<1>4. DataConsistent
  BY <1>1, <1>3 DEF DataConsistent
<1>5. DataConsistent \in BOOLEAN
  BY DEF DataConsistent
<1> QED
  BY <1>3, <1>4 DEF TestReply

(* The concurrent test passes and the consistency check raises no alarm    *)
(* unless the stores did drift.                                            *)
THEOREM Diagnostics == Spec => []ReportsTrue
BY DiagnosticsTrue, InventoryCorrect, PTL

(* However many calls deduct at once, over any number of restarts, the shop *)
(* sells no more than it had; and in one run of the process the calls that *)
(* were answered 0 got no more than that.                                  *)
THEOREM NeverOversold ==
  Spec => [](sold + lost + late <= InitStock /\ (crashes = 0 => TotalTaken <= InitStock))
<1>1. ASSUME InventoryInv
      PROVE  sold + lost + late <= InitStock /\ (crashes = 0 => TotalTaken <= InitStock)
  <2>1. /\ stock \in Nat \cup {NoRow} /\ sold \in Nat /\ lost \in Nat /\ late \in Nat
        /\ InitStock \in Nat
        /\ stock # NoRow => stock + sold + lost + late = InitStock
        /\ stock = NoRow => sold = 0 /\ lost = 0 /\ late = 0
        /\ crashes = 0 => sold = TotalTaken
    BY <1>1, RepositoryAssumption
       DEF InventoryInv, RepoInv, RepoTypeOK, Ledger, NothingYet, RepliesTrue
  <2>2. sold + lost + late <= InitStock
    BY <2>1
  <2> QED
    BY <2>1, <2>2
<1> QED
  BY <1>1, InventoryCorrect, PTL

(* The row changes in one way only: at the COMMIT of a call that is the    *)
(* owner of its lock, by the quantity of that call and those that earlier  *)
(* calls had abandoned in the same transaction.  A statement that read the *)
(* stock without the lock, or a second transaction on the row, could not   *)
(* promise it.                                                             *)
CommitsUnderLock(p) ==
  /\ sql[p] = "commit" /\ conn[p] # NoConn /\ rowLock = conn[p] /\ known[p]
  /\ late <= late' /\ stock' + qty[p] + (late' - late) = stock

LEMMA CommitLocked ==
  ASSUME RepoInv, NEW p \in Callers, stock' # stock,
         RepoStep(p) \/ StatementError(p) \/ CommitError(p) \/ ConnectionLost(p)
  PROVE  CommitsUnderLock(p)
<1>1. sql[p] = "commit" /\ Committed(p)
  BY DEF RepoStep, OpenTransaction, NoDbConnection, SelectForUpdate, RowNotFound,
     LockWaitTimeout, UpdateRow, Commit, StatementError, CommitError, ConnectionLost
<1>2. /\ conn[p] # NoConn /\ rowLock = conn[p] /\ known[p]
      /\ stock \in Nat /\ stock' \in Nat /\ qty[p] \in Nat /\ late \in Nat /\ late' \in Nat
      /\ late <= late' /\ stock' + late' + qty[p] = stock + late
  BY <1>1, CommittedFacts
<1>3. stock' + qty[p] + (late' - late) = stock
  BY <1>2
<1> QED
  BY <1>1, <1>2, <1>3 DEF CommitsUnderLock

LEMMA RowMoves ==
  ASSUME InventoryInv, Next, stock # NoRow, stock' # stock
  PROVE  \E p \in Callers : CommitsUnderLock(p)
<1> USE DEF InventoryInv
<1>1. ASSUME Wire \/ InitializeRow \/ InitializeKey \/ CloseRedis \/ CloseMySQL \/ Crash
             \/ KeyLoss \/ RecycleIdle
      PROVE  FALSE
  BY <1>1 DEF Wire, InitializeRow, InitRow, InitializeKey, CloseRedis, CloseMySQL, Crash,
     RepoCrash, KeyLoss, RecycleIdle, Recycle, repoVars
<1>2. ASSUME \/ StartTest \/ TestRedis \/ TestRow \/ TestEscapes
             \/ CheckRedis \/ CheckRow \/ CheckRacing \/ CheckEscapes
      PROVE  FALSE
  BY <1>2, AuditFrame
<1>3. ASSUME NEW p \in Callers, Call(p) \/ Deduct(p) \/ Rebuild(p)
      PROVE  CommitsUnderLock(p)
  <2>1. CASE Repository(p)
    BY <2>1, CommitLocked DEF Repository
  <2>2. CASE RepositoryError(p)
    BY <2>2, CommitLocked DEF RepositoryError
  <2>3. ASSUME ~Repository(p), ~RepositoryError(p) PROVE stock' = stock
    BY <1>3, <2>3 DEF Call, Deduct, TakeGuard, NoRedisGuard, Eval, EvalError, ShutDown,
       Escaped, ConnectThrows, Deducted, NotDeducted, TakeSecondGuard, NoSecondGuard, IncrBy,
       IncrByError, Rebuild,
       CallRepository, repoVars
  <2> QED
    BY <2>1, <2>2, <2>3
<1> QED
  BY <1>1, <1>2, <1>3 DEF Next

THEOREM RowChangesUnderLock ==
  Spec => [][stock # NoRow /\ stock' # stock =>
               \E p \in Callers : CommitsUnderLock(p)]_vars
<1>1. InventoryInv /\ [Next]_vars
        => [stock # NoRow /\ stock' # stock => \E p \in Callers : CommitsUnderLock(p)]_vars
  BY RowMoves
<1> QED
  BY <1>1, InventoryCorrect, PTL DEF Spec

-----------------------------------------------------------------------------
(* Sequences read one element after the other, for the configuration file. *)
LEMMA LeastNumber ==
  ASSUME NEW T \in SUBSET Nat, T # {}
  PROVE  \E m \in T : \A k \in T : m <= k
<1> DEFINE R == {ss \in Nat \X Nat : ss[1] < ss[2]}
<1>1. IsWellFoundedOn(R, Nat)
  BY NatLessThanWellFounded DEF OpToRel
<1>2. \E m \in T : \A k \in T : ~ (<<k, m>> \in R)
  <2> HIDE DEF R
  <2> QED
    BY <1>1, WFMin
<1>3. ASSUME NEW k \in T, NEW m \in T, ~ (<<k, m>> \in R) PROVE m <= k
  <2>1. k \in Nat /\ m \in Nat /\ ~ (k < m)
    BY <1>3
  <2> QED
    BY <2>1
<1> QED
  <2> HIDE DEF R
  <2> QED
    BY <1>2, <1>3

(* What holds of 0 and of every next number up to n holds up to n.         *)
LEMMA UpTo ==
  ASSUME NEW n \in Nat, NEW P \in SUBSET Nat, 0 \in P,
         \A i \in 1..n : i - 1 \in P => i \in P
  PROVE  \A i \in 0..n : i \in P
<1> DEFINE T == {i \in 0..n : i \notin P}
<1>1. CASE T = {}
  BY <1>1
<1>2. CASE T # {}
  <2>1. PICK m \in T : \A k \in T : m <= k
    <3>1. T \in SUBSET Nat
      OBVIOUS
    <3> HIDE DEF T
    <3> QED
      BY <1>2, <3>1, LeastNumber
  <2>2. m \in 1..n /\ m \notin P /\ m - 1 \in 0..n /\ ~ (m <= m - 1)
    BY <2>1
  <2>3. m - 1 \in P
    BY <2>1, <2>2
  <2> QED
    BY <2>2, <2>3
<1> QED
  BY <1>1, <1>2

-----------------------------------------------------------------------------
(* IniFile.  load() goes through the file line by line; the function of    *)
(* what it has after each line exists, because what it has after one line  *)
(* is enough to have it after the next.                                    *)
LEMMA LoadedIs ==
  ASSUME NEW S, NEW lines \in Seq(S)
  PROVE  /\ Loaded(lines)[0] = Opened
         /\ \A i \in 1..Len(lines) : Loaded(lines)[i] = ReadLine(Loaded(lines)[i - 1], lines[i])
<1> DEFINE n == Len(lines)
           Def(f) == f = [i \in 0..n |-> IF i = 0 THEN Opened ELSE ReadLine(f[i - 1], lines[i])]
           Upto(f, m) == /\ DOMAIN f = 0..m
                         /\ \A i \in 0..m : f[i] = IF i = 0 THEN Opened
                                                   ELSE ReadLine(f[i - 1], lines[i])
           P == {m \in Nat : \E f : Upto(f, m)}
<1>1. n \in Nat
  OBVIOUS
<1>2. 0 \in P
  <2>1. Upto([i \in 0..0 |-> Opened], 0)
    OBVIOUS
  <2> QED
    BY <2>1
<1>3. ASSUME NEW m \in 1..n, m - 1 \in P PROVE m \in P
  <2>1. PICK f : Upto(f, m - 1)
    BY <1>3
  <2> DEFINE h == [i \in 0..m |-> IF i = m THEN ReadLine(f[m - 1], lines[m]) ELSE f[i]]
  <2>2. ASSUME NEW i \in 0..m
        PROVE  h[i] = IF i = 0 THEN Opened ELSE ReadLine(h[i - 1], lines[i])
    <3>1. CASE i = m
      <4>1. h[i] = ReadLine(f[m - 1], lines[m]) /\ h[i - 1] = f[m - 1] /\ i # 0
        BY <3>1
      <4> QED
        BY <3>1, <4>1
    <3>2. CASE i # m
      <4>1. i \in 0..(m - 1) /\ h[i] = f[i] /\ (i # 0 => h[i - 1] = f[i - 1])
        BY <3>2
      <4> HIDE DEF h
      <4> QED
        BY <2>1, <4>1
    <3> QED
      BY <3>1, <3>2
  <2>3. DOMAIN h = 0..m
    OBVIOUS
  <2> HIDE DEF h
  <2>4. Upto(h, m)
    BY <2>2, <2>3
  <2> QED
    BY <2>4
<1>4. n \in P
  <2>1. P \in SUBSET Nat /\ n \in 0..n
    BY <1>1
  <2> HIDE DEF P, n
  <2> QED
    BY <1>1, <1>2, <1>3, <2>1, UpTo
<1>5. \E f : Def(f)
  <2>1. PICK f : Upto(f, n)
    BY <1>4
  <2> DEFINE h == [i \in 0..n |-> f[i]]
  <2>2. ASSUME NEW i \in 0..n
        PROVE  h[i] = IF i = 0 THEN Opened ELSE ReadLine(h[i - 1], lines[i])
    <3>1. h[i] = f[i] /\ (i # 0 => h[i - 1] = f[i - 1])
      BY <1>1
    <3> HIDE DEF h
    <3> QED
      BY <2>1, <3>1
  <2>3. h = [i \in 0..n |-> h[i]]
    OBVIOUS
  <2> HIDE DEF h
  <2>4. Def(h)
    BY <2>2, <2>3
  <2> QED
    BY <2>4
<1>6. Def(Loaded(lines))
  <2>1. Loaded(lines) = CHOOSE f : Def(f)
    BY DEF Loaded
  <2> HIDE DEF Def
  <2> QED
    BY <1>5, <2>1
<1>7. \A i \in 0..n : Loaded(lines)[i] = IF i = 0 THEN Opened
                                          ELSE ReadLine(Loaded(lines)[i - 1], lines[i])
  BY <1>6
<1> QED
  BY <1>1, <1>7

(* The header a line stands under is the line itself or that of the line   *)
(* before.                                                                 *)
LEMMA HeaderIs ==
  ASSUME NEW S, NEW lines \in Seq(S)
  PROVE  /\ Header(lines, 0) = 0
         /\ \A i \in 1..Len(lines) :
              Header(lines, i) = IF lines[i].is = "section" THEN i ELSE Header(lines, i - 1)
         /\ \A i \in 0..Len(lines) : Header(lines, i) \in 0..i
<1> DEFINE n == Len(lines)
           before(i) == {j \in 1..i : lines[j].is = "section"}
           P == {i \in Nat : Header(lines, i) \in 0..i}
<1>1. n \in Nat
  OBVIOUS
<1>2. \A i : Header(lines, i) = IF before(i) = {} THEN 0
                                ELSE CHOOSE j \in before(i) : \A k \in before(i) : k <= j
  BY DEF Header
<1>3. Header(lines, 0) = 0
  BY <1>2
<1>4. ASSUME NEW i \in 1..n
      PROVE  Header(lines, i) = IF lines[i].is = "section" THEN i ELSE Header(lines, i - 1)
  <2>1. CASE lines[i].is = "section"
    <3>1. i \in before(i) /\ \A k \in before(i) : k <= i
      BY <2>1
    <3>2. \A j \in before(i) : (\A k \in before(i) : k <= j) => j = i
      <4>1. before(i) \subseteq Int
        OBVIOUS
      <4> QED
        BY <3>1, <4>1
    <3> HIDE DEF before
    <3> QED
      BY <1>2, <2>1, <3>1, <3>2
  <2>2. CASE lines[i].is # "section"
    <3>1. before(i) = before(i - 1)
      BY <2>2
    <3> HIDE DEF before
    <3> QED
      BY <1>2, <2>2, <3>1
  <2> QED
    BY <2>1, <2>2
<1>5. \A i \in 0..n : i \in P
  <2>1. P \in SUBSET Nat /\ 0 \in P
    BY <1>3
  <2>2. ASSUME NEW i \in 1..n, i - 1 \in P PROVE i \in P
    BY <1>4, <2>2
  <2> HIDE DEF P, n
  <2> QED
    BY <1>1, <2>1, <2>2, UpTo
<1> QED
  BY <1>3, <1>4, <1>5

(* The section that load() is in after i lines, as the writer sees it.     *)
InSection(lines, i) ==
  IF Named(lines, i) THEN lines[Header(lines, i)].name
  ELSE IF \E j \in (Header(lines, i) + 1)..i : lines[j].is = "pair" THEN "Global" ELSE NoText

LEMMA GlobalNamed == "Global" # NoText
  BY Zenon DEF NoText

LEMMA SectionIs ==
  ASSUME NEW S, NEW lines \in Seq(S), NEW i \in 1..Len(lines)
  PROVE  /\ InSection(lines, 0) = NoText
         /\ lines[i].is = "section" =>
              /\ InSection(lines, i) = lines[i].name
              /\ \A s : Opens(lines, i, s) <=> s = lines[i].name
         /\ lines[i].is = "pair" =>
              /\ InSection(lines, i) = SectionOf(lines, i)
              /\ SectionOf(lines, i) = IF InSection(lines, i - 1) = NoText THEN "Global"
                                       ELSE InSection(lines, i - 1)
              /\ \A s : Opens(lines, i, s) <=> s = "Global" /\ InSection(lines, i - 1) = NoText
         /\ lines[i].is \notin {"section", "pair"} =>
              /\ InSection(lines, i) = InSection(lines, i - 1)
              /\ \A s : ~Opens(lines, i, s)
<1> DEFINE h == Header(lines, i)
           g == Header(lines, i - 1)
<1>1. i \in Nat /\ h \in 0..i /\ g \in 0..(i - 1) /\ Header(lines, 0) = 0
      /\ h = IF lines[i].is = "section" THEN i ELSE g
  BY HeaderIs
<1>2. InSection(lines, 0) = NoText
  BY <1>1 DEF InSection, Named
<1>3. CASE lines[i].is = "section"
  <2>1. h = i /\ (h + 1)..i = {} /\ i # 0
    BY <1>1, <1>3
  <2> HIDE DEF h
  <2>2. InSection(lines, i) = lines[i].name
    BY <2>1 DEF InSection, Named, h
  <2>3. \A s : Opens(lines, i, s) <=> s = lines[i].name
    BY <1>3 DEF Opens
  <2> QED
    BY <1>2, <1>3, <2>2, <2>3
<1>4. CASE lines[i].is # "section"
  <2>1. Named(lines, i) <=> Named(lines, i - 1)
    BY <1>1, <1>4 DEF Named
  <2>2. CASE Named(lines, i)
    <3>1. InSection(lines, i) = lines[g].name /\ InSection(lines, i - 1) = lines[g].name
          /\ lines[g].name # NoText /\ SectionOf(lines, i) = lines[g].name
      BY <1>1, <1>4, <2>1, <2>2 DEF InSection, Named, SectionOf
    <3>2. \A s : ~Opens(lines, i, s)
      BY <1>4, <2>2 DEF Opens
    <3> QED
      BY <1>2, <1>4, <3>1, <3>2
  <2>3. CASE ~Named(lines, i)
    <3>1. SectionOf(lines, i) = "Global"
      BY <2>3 DEF SectionOf
    <3>2. \A j : j \in (h + 1)..i <=> j \in (g + 1)..(i - 1) \/ j = i
      BY <1>1, <1>4
    <3>3. InSection(lines, i) = IF \E j \in (h + 1)..i : lines[j].is = "pair" THEN "Global" ELSE NoText
      BY <2>3 DEF InSection
    <3>4. InSection(lines, i - 1) =
            IF \E j \in (g + 1)..(i - 1) : lines[j].is = "pair" THEN "Global" ELSE NoText
      BY <2>1, <2>3 DEF InSection
    <3>5. \A s : Opens(lines, i, s) <=>
            /\ s = "Global" /\ lines[i].is = "pair"
            /\ \A j \in (g + 1)..(i - 1) : lines[j].is # "pair"
      BY <1>1, <1>4, <2>3 DEF Opens
    <3> HIDE DEF h, g
    <3>6. InSection(lines, i - 1) = NoText <=> \A j \in (g + 1)..(i - 1) : lines[j].is # "pair"
      BY <3>4, GlobalNamed
    <3>7. lines[i].is = "pair" => InSection(lines, i) = "Global"
      BY <3>2, <3>3
    <3>8. ASSUME lines[i].is # "pair" PROVE InSection(lines, i) = InSection(lines, i - 1)
      <4>1. (\E j \in (h + 1)..i : lines[j].is = "pair")
              <=> \E j \in (g + 1)..(i - 1) : lines[j].is = "pair"
        BY <3>2, <3>8
      <4> QED
        BY <3>3, <3>4, <4>1
    <3>9. InSection(lines, i - 1) \in {NoText, "Global"}
      BY <3>4
    <3> QED
      BY <1>2, <1>4, <3>1, <3>5, <3>6, <3>7, <3>8, <3>9
  <2> QED
    BY <2>2, <2>3
<1> QED
  BY <1>3, <1>4

(* What the first i lines give a key of a section, and the last of it.     *)
GivingTo(lines, i, s, k) ==
  {j \in 1..i : /\ lines[j].is = "pair" /\ lines[j].key = k /\ SectionOf(lines, j) = s
                /\ \A m \in (j + 1)..i : ~Opens(lines, m, s)}

LastOf(lines, g) == IF g = {} THEN NoText ELSE lines[CHOOSE i \in g : \A j \in g : j <= i].value

LEMMA GivingIs ==
  ASSUME NEW S, NEW lines \in Seq(S), NEW i \in 1..Len(lines), NEW s, NEW k
  PROVE  LET before == IF Opens(lines, i, s) THEN {} ELSE GivingTo(lines, i - 1, s, k)
         IN  GivingTo(lines, i, s, k) =
               IF lines[i].is = "pair" /\ lines[i].key = k /\ SectionOf(lines, i) = s
               THEN before \cup {i} ELSE before
<1> DEFINE gives(j) == lines[j].is = "pair" /\ lines[j].key = k /\ SectionOf(lines, j) = s
           opens(m) == Opens(lines, m, s)
<1>1. \A j : j \in 1..i <=> j \in 1..(i - 1) \/ j = i
  OBVIOUS
<1>2. \A j \in 1..(i - 1) : \A m : m \in (j + 1)..i <=> m \in (j + 1)..(i - 1) \/ m = i
  OBVIOUS
<1>3. (i + 1)..i = {}
  OBVIOUS
<1>4. GivingTo(lines, i, s, k) = {j \in 1..i : gives(j) /\ \A m \in (j + 1)..i : ~opens(m)}
  BY DEF GivingTo
<1>5. GivingTo(lines, i - 1, s, k) =
        {j \in 1..(i - 1) : gives(j) /\ \A m \in (j + 1)..(i - 1) : ~opens(m)}
  BY DEF GivingTo
<1> HIDE DEF gives, opens
<1>6. ASSUME NEW j PROVE j \in GivingTo(lines, i, s, k) <=>
         \/ ~opens(i) /\ j \in GivingTo(lines, i - 1, s, k)
         \/ gives(i) /\ j = i
  <2>1. CASE j \in 1..(i - 1)
    <3>1. (\A m \in (j + 1)..i : ~opens(m)) <=> ~opens(i) /\ \A m \in (j + 1)..(i - 1) : ~opens(m)
      BY <1>2, <2>1
    <3>2. j # i /\ j \in 1..i
      BY <1>1, <2>1
    <3> QED
      BY <1>4, <1>5, <2>1, <3>1, <3>2
  <2>2. CASE j = i
    <3>1. i \notin 1..(i - 1) /\ i \in 1..i
      OBVIOUS
    <3> QED
      BY <1>3, <1>4, <1>5, <2>2, <3>1
  <2>3. CASE j \notin 1..i
    <3>1. j # i /\ j \notin 1..(i - 1)
      BY <1>1, <2>3
    <3> QED
      BY <1>4, <1>5, <2>3, <3>1
  <2> QED
    BY <1>1, <2>1, <2>2, <2>3
<1>7. opens(i) <=> Opens(lines, i, s)
  BY DEF opens
<1>8. gives(i) <=> lines[i].is = "pair" /\ lines[i].key = k /\ SectionOf(lines, i) = s
  BY DEF gives
<1> QED
  BY <1>6, <1>7, <1>8

LEMMA LastIs ==
  ASSUME NEW lines, NEW i \in Nat, NEW g \in SUBSET (1..(i - 1))
  PROVE  LastOf(lines, g \cup {i}) = lines[i].value
<1> DEFINE G == g \cup {i}
<1>1. i \in G /\ \A j \in G : j <= i
  OBVIOUS
<1>2. \A m \in G : (\A j \in G : j <= m) => m = i
  <2>1. G \subseteq Int
    OBVIOUS
  <2> QED
    BY <1>1, <2>1
<1> HIDE DEF G
<1>3. (CHOOSE m \in G : \A j \in G : j <= m) = i
  BY <1>1, <1>2
<1>4. LastOf(lines, G) = lines[i].value
  BY <1>1, <1>3 DEF LastOf
<1> QED
  BY <1>4 DEF G

(* What load() has after i lines is what the writer finds in them.         *)
ReadSoFar(lines, i) ==
  LET st == Loaded(lines)[i]
  IN  /\ DOMAIN st = {"section", "ini"}
      /\ st.section = InSection(lines, i)
      /\ st.section # NoText => st.section \in DOMAIN st.ini
      /\ \A s, k : /\ s \in DOMAIN st.ini =>
                        Text(st.ini[s], k) = LastOf(lines, GivingTo(lines, i, s, k))
                   /\ s \notin DOMAIN st.ini => GivingTo(lines, i, s, k) = {}

LEMMA TextIs ==
  ASSUME NEW f, NEW k, NEW v, NEW x
  PROVE  Text(EmptySection, k) = NoText /\ Text(Put(f, k, v), x) = IF x = k THEN v ELSE Text(f, x)
<1>1. Text(EmptySection, k) = NoText
  BY DEF Text, EmptySection
<1>2. Text(Put(f, k, v), x) = IF x = k THEN v ELSE Text(f, x)
  BY DEF Text, Put
<1> QED
  BY <1>1, <1>2

(* One more line.                                                          *)
LEMMA ReadSection1 ==
  ASSUME NEW S, NEW lines \in Seq(S), NEW i \in 1..Len(lines), ReadSoFar(lines, i - 1),
         lines[i].is = "section"
  PROVE  ReadSoFar(lines, i)
<1> DEFINE st == Loaded(lines)[i - 1]
           nm == lines[i].name
           new == [section |-> nm, ini |-> Put(st.ini, nm, EmptySection)]
<1>1. Loaded(lines)[i] = new
  BY LoadedIs DEF ReadLine, ReadSection
<1>2. DOMAIN new = {"section", "ini"} /\ new.section = nm /\ DOMAIN new.ini = DOMAIN st.ini \cup {nm}
      /\ \A s \in DOMAIN new.ini : new.ini[s] = IF s = nm THEN EmptySection ELSE st.ini[s]
  BY DEF Put
<1>3. InSection(lines, i) = nm /\ \A s : Opens(lines, i, s) <=> s = nm
  BY SectionIs
<1>4. \A s, k : GivingTo(lines, i, s, k) = IF s = nm THEN {} ELSE GivingTo(lines, i - 1, s, k)
  <2> TAKE s, k
  <2>1. lines[i].is # "pair" /\ (Opens(lines, i, s) <=> s = nm)
    BY <1>3
  <2>2. GivingTo(lines, i, s, k) =
          IF Opens(lines, i, s) THEN {} ELSE GivingTo(lines, i - 1, s, k)
    BY <2>1, GivingIs
  <2> QED
    BY <2>1, <2>2
<1>5. LastOf(lines, {}) = NoText
  BY DEF LastOf
<1>6. \A s, k : /\ s \in DOMAIN st.ini =>
                     Text(st.ini[s], k) = LastOf(lines, GivingTo(lines, i - 1, s, k))
                /\ s \notin DOMAIN st.ini => GivingTo(lines, i - 1, s, k) = {}
  BY DEF ReadSoFar
<1> HIDE DEF new, st, nm
<1>7. ASSUME NEW s, NEW k
      PROVE  /\ s \in DOMAIN new.ini => Text(new.ini[s], k) = LastOf(lines, GivingTo(lines, i, s, k))
             /\ s \notin DOMAIN new.ini => GivingTo(lines, i, s, k) = {}
  <2>1. CASE s = nm
    BY <1>2, <1>4, <1>5, <2>1, TextIs
  <2>2. CASE s # nm
    BY <1>2, <1>4, <1>6, <2>2
  <2> QED
    BY <2>1, <2>2
<1> QED
  BY <1>1, <1>2, <1>3, <1>7 DEF ReadSoFar

LEMMA ReadPair1 ==
  ASSUME NEW S, NEW lines \in Seq(S), NEW i \in 1..Len(lines), ReadSoFar(lines, i - 1),
         lines[i].is = "pair"
  PROVE  ReadSoFar(lines, i)
<1> DEFINE st == Loaded(lines)[i - 1]
           in == InGlobal(st)
           l == lines[i]
           new == [in EXCEPT !.ini[in.section] = Put(@, l.key, l.value)]
<1>1. Loaded(lines)[i] = new
  BY LoadedIs DEF ReadLine, ReadPair
<1>2. /\ DOMAIN st = {"section", "ini"}
      /\ st.section = InSection(lines, i - 1)
      /\ st.section # NoText => st.section \in DOMAIN st.ini
      /\ \A s, k : /\ s \in DOMAIN st.ini =>
                        Text(st.ini[s], k) = LastOf(lines, GivingTo(lines, i - 1, s, k))
                   /\ s \notin DOMAIN st.ini => GivingTo(lines, i - 1, s, k) = {}
  BY DEF ReadSoFar
<1>3. /\ InSection(lines, i) = SectionOf(lines, i)
      /\ SectionOf(lines, i) = IF st.section = NoText THEN "Global" ELSE st.section
      /\ \A s : Opens(lines, i, s) <=> s = "Global" /\ st.section = NoText
  <2>1. /\ InSection(lines, i) = SectionOf(lines, i)
        /\ SectionOf(lines, i) = IF InSection(lines, i - 1) = NoText THEN "Global"
                                 ELSE InSection(lines, i - 1)
        /\ \A s : Opens(lines, i, s) <=> s = "Global" /\ InSection(lines, i - 1) = NoText
    BY SectionIs
  <2> HIDE DEF st
  <2> QED
    BY <1>2, <2>1
<1>4. \A s, k : GivingTo(lines, i, s, k) =
           LET before == IF Opens(lines, i, s) THEN {} ELSE GivingTo(lines, i - 1, s, k)
           IN  IF l.key = k /\ SectionOf(lines, i) = s THEN before \cup {i} ELSE before
  BY GivingIs
<1>5. \A s, k : GivingTo(lines, i - 1, s, k) \in SUBSET (1..(i - 1))
  BY DEF GivingTo
(* The section that the pair goes to is there, opened by it or before.     *)
<1>6. /\ DOMAIN in = {"section", "ini"}
      /\ in.section = SectionOf(lines, i) /\ in.section # NoText
      /\ in.section \in DOMAIN in.ini
      /\ \A s, k : /\ s \in DOMAIN in.ini => Text(in.ini[s], k) =
                        IF Opens(lines, i, s) THEN NoText ELSE LastOf(lines, GivingTo(lines, i - 1, s, k))
                   /\ s \notin DOMAIN in.ini => GivingTo(lines, i - 1, s, k) = {}
                   /\ Opens(lines, i, s) => s = in.section
  <2>1. CASE st.section = NoText
    <3>1. in = [section |-> "Global", ini |-> Put(st.ini, "Global", EmptySection)]
      BY <2>1 DEF InGlobal
    <3>2. DOMAIN in.ini = DOMAIN st.ini \cup {"Global"}
          /\ \A s \in DOMAIN in.ini : in.ini[s] = IF s = "Global" THEN EmptySection ELSE st.ini[s]
      BY <3>1 DEF Put
    <3> HIDE DEF in
    <3>3. DOMAIN in = {"section", "ini"} /\ in.section = "Global"
      BY <3>1
    <3>4. \A s : Opens(lines, i, s) <=> s = "Global"
      BY <1>3, <2>1
    <3>6. SectionOf(lines, i) = "Global"
      BY <1>3, <2>1
    <3> HIDE DEF st
    <3>5. ASSUME NEW s, NEW k
          PROVE  /\ s \in DOMAIN in.ini => Text(in.ini[s], k) =
                        IF Opens(lines, i, s) THEN NoText ELSE LastOf(lines, GivingTo(lines, i - 1, s, k))
                 /\ s \notin DOMAIN in.ini => GivingTo(lines, i - 1, s, k) = {}
      <4>1. CASE s = "Global"
        BY <3>2, <3>4, <4>1, TextIs
      <4>2. CASE s # "Global"
        BY <1>2, <3>2, <3>4, <4>2
      <4> QED
        BY <4>1, <4>2
    <3> QED
      BY <3>2, <3>3, <3>4, <3>5, <3>6, GlobalNamed
  <2>2. CASE st.section # NoText
    <3>1. in = st
      BY <2>2 DEF InGlobal
    <3> HIDE DEF in, st
    <3> QED
      BY <1>2, <1>3, <2>2, <3>1
  <2> QED
    BY <2>1, <2>2
<1> HIDE DEF st, in
<1>7. /\ DOMAIN new = {"section", "ini"} /\ new.section = in.section
      /\ DOMAIN new.ini = DOMAIN in.ini
      /\ \A s \in DOMAIN new.ini :
           new.ini[s] = IF s = in.section THEN Put(in.ini[s], l.key, l.value) ELSE in.ini[s]
  BY <1>6
<1> HIDE DEF new, l
<1>8. ASSUME NEW s, NEW k
      PROVE  /\ s \in DOMAIN new.ini => Text(new.ini[s], k) = LastOf(lines, GivingTo(lines, i, s, k))
             /\ s \notin DOMAIN new.ini => GivingTo(lines, i, s, k) = {}
  <2>0. /\ GivingTo(lines, i, s, k) =
             LET before == IF Opens(lines, i, s) THEN {} ELSE GivingTo(lines, i - 1, s, k)
             IN  IF l.key = k /\ SectionOf(lines, i) = s THEN before \cup {i} ELSE before
        /\ GivingTo(lines, i - 1, s, k) \in SUBSET (1..(i - 1))
        /\ s \in DOMAIN in.ini => Text(in.ini[s], k) =
             IF Opens(lines, i, s) THEN NoText ELSE LastOf(lines, GivingTo(lines, i - 1, s, k))
        /\ s \notin DOMAIN in.ini => GivingTo(lines, i - 1, s, k) = {}
        /\ Opens(lines, i, s) => s = in.section
        /\ in.section = SectionOf(lines, i) /\ in.section \in DOMAIN in.ini
    BY <1>4, <1>5, <1>6
  <2>1. CASE s # in.section
    <3>1. GivingTo(lines, i, s, k) = GivingTo(lines, i - 1, s, k) /\ ~Opens(lines, i, s)
      BY <2>0, <2>1
    <3> QED
      BY <1>7, <2>0, <2>1, <3>1
  <2>2. CASE s = in.section /\ k = l.key
    <3>1. PICK g \in SUBSET (1..(i - 1)) : GivingTo(lines, i, s, k) = g \cup {i}
      BY <2>0, <2>2
    <3>2. LastOf(lines, g \cup {i}) = lines[i].value
      <4>1. i \in Nat
        OBVIOUS
      <4> QED
        BY <4>1, LastIs
    <3>3. LastOf(lines, GivingTo(lines, i, s, k)) = l.value
      BY <3>1, <3>2 DEF l
    <3>4. s \in DOMAIN new.ini /\ new.ini[s] = Put(in.ini[s], l.key, l.value)
      BY <1>7, <2>0, <2>2
    <3>5. Text(new.ini[s], k) = l.value
      <4>1. Text(Put(in.ini[s], l.key, l.value), k) =
              IF k = l.key THEN l.value ELSE Text(in.ini[s], k)
        <5>1. PICK f, y, v : f = in.ini[s] /\ y = l.key /\ v = l.value
          OBVIOUS
        <5>2. Text(Put(f, y, v), k) = IF k = y THEN v ELSE Text(f, k)
          BY TextIs
        <5> QED
          BY <5>1, <5>2
      <4> QED
        BY <2>2, <3>4, <4>1
    <3> QED
      BY <3>3, <3>4, <3>5
  <2>3. CASE s = in.section /\ k # l.key
    <3>1. GivingTo(lines, i, s, k) =
            IF Opens(lines, i, s) THEN {} ELSE GivingTo(lines, i - 1, s, k)
      BY <2>0, <2>3
    <3>2. LastOf(lines, {}) = NoText
      BY DEF LastOf
    <3>3. s \in DOMAIN new.ini /\ new.ini[s] = Put(in.ini[s], l.key, l.value)
      BY <1>7, <2>0, <2>3
    <3>4. Text(new.ini[s], k) = Text(in.ini[s], k)
      <4>1. Text(Put(in.ini[s], l.key, l.value), k) =
              IF k = l.key THEN l.value ELSE Text(in.ini[s], k)
        <5>1. PICK f, y, v : f = in.ini[s] /\ y = l.key /\ v = l.value
          OBVIOUS
        <5>2. Text(Put(f, y, v), k) = IF k = y THEN v ELSE Text(f, k)
          BY TextIs
        <5> QED
          BY <5>1, <5>2
      <4> QED
        BY <2>3, <3>3, <4>1
    <3> QED
      BY <2>0, <2>3, <3>1, <3>2, <3>3, <3>4
  <2> QED
    BY <2>1, <2>2, <2>3
<1> QED
  BY <1>1, <1>3, <1>6, <1>7, <1>8 DEF ReadSoFar

LEMMA ReadRight ==
  ASSUME NEW S, NEW lines \in Seq(S)
  PROVE  \A s, k : Written(lines, s, k) =
           IF HasSection(Parsed(lines), s) THEN Text(Parsed(lines)[s], k) ELSE NoText
<1> DEFINE n == Len(lines)
           P == {i \in Nat : ReadSoFar(lines, i)}
<1>1. n \in Nat /\ DOMAIN lines = 1..n
  OBVIOUS
<1>2. 0 \in P
  <2>1. /\ DOMAIN Opened = {"section", "ini"} /\ Opened.section = NoText /\ DOMAIN Opened.ini = {}
    BY DEF Opened
  <2>2. \A s, k : GivingTo(lines, 0, s, k) = {}
    BY DEF GivingTo
  <2>3. InSection(lines, 0) = NoText
    <3>1. Header(lines, 0) = 0 /\ (0 + 1)..0 = {}
      BY HeaderIs
    <3> QED
      BY <3>1 DEF InSection, Named
  <2> QED
    BY <2>1, <2>2, <2>3, LoadedIs DEF ReadSoFar
<1>3. ASSUME NEW i \in 1..n, i - 1 \in P PROVE i \in P
  <2>1. ReadSoFar(lines, i - 1)
    BY <1>3
  <2>2. CASE lines[i].is = "section"
    BY <2>1, <2>2, ReadSection1
  <2>3. CASE lines[i].is = "pair"
    BY <2>1, <2>3, ReadPair1
  <2>4. CASE lines[i].is \notin {"section", "pair"}
    <3>1. Loaded(lines)[i] = Loaded(lines)[i - 1]
      BY <2>4, LoadedIs DEF ReadLine
    <3>2. \A s : ~Opens(lines, i, s)
      BY <2>4, SectionIs
    <3>3. \A s, k : GivingTo(lines, i, s, k) = GivingTo(lines, i - 1, s, k)
      <4> TAKE s, k
      <4>1. ~Opens(lines, i, s) /\ lines[i].is # "pair"
        BY <2>4, <3>2
      <4> QED
        BY <4>1, GivingIs
    <3>4. InSection(lines, i) = InSection(lines, i - 1)
      BY <2>4, SectionIs
    <3> HIDE DEF n
    <3>5. ReadSoFar(lines, i)
      BY <2>1, <3>1, <3>3, <3>4 DEF ReadSoFar
    <3> QED
      BY <3>5
  <2> QED
    BY <2>2, <2>3, <2>4
<1>4. n \in P
  <2>1. P \in SUBSET Nat /\ n \in 0..n
    BY <1>1
  <2> HIDE DEF P, n
  <2> QED
    BY <1>1, <1>2, <1>3, <2>1, UpTo
<1>5. \A s, k : Written(lines, s, k) = LastOf(lines, GivingTo(lines, n, s, k))
  BY <1>1 DEF Written, Giving, LastOf, GivingTo
<1>6. LastOf(lines, {}) = NoText
  BY DEF LastOf
<1>7. ReadSoFar(lines, n) /\ Parsed(lines) = Loaded(lines)[n].ini
  BY <1>4 DEF Parsed
<1> HIDE DEF n
<1>8. ASSUME NEW s, NEW k
      PROVE  Written(lines, s, k) =
               IF HasSection(Parsed(lines), s) THEN Text(Parsed(lines)[s], k) ELSE NoText
  <2>1. /\ s \in DOMAIN Parsed(lines) =>
             Text(Parsed(lines)[s], k) = LastOf(lines, GivingTo(lines, n, s, k))
        /\ s \notin DOMAIN Parsed(lines) => GivingTo(lines, n, s, k) = {}
    BY <1>7 DEF ReadSoFar
  <2>2. Written(lines, s, k) = LastOf(lines, GivingTo(lines, n, s, k))
    BY <1>5
  <2> QED
    BY <1>6, <2>1, <2>2 DEF HasSection
<1> QED
  BY <1>8

-----------------------------------------------------------------------------
(* App.  Nothing is read before load_config(); what is read is not changed *)
(* afterwards.                                                             *)
ConfigInv ==
  /\ file \in Files \cup {Absent}
  /\ pc = "load" => ini = <<>>
  /\ after \in {"serving", "exit"}
  /\ ReadsWhatIsWritten

LEMMA LoadsRight == AppAssumption /\ ConfigInv /\ LoadConfig => ReadsWhatIsWritten'
<1> SUFFICES ASSUME AppAssumption, ConfigInv, LoadConfig, \A s \in Required : HasSection(ini', s)
             PROVE  ReadsWhatIsWritten'
  BY DEF LoadConfig, ReadsWhatIsWritten
<1>1. pc = "load" /\ file' = file /\ config' = [s \in Required |-> AsInt(Text(ini'[s], Key[s]))]
  BY DEF LoadConfig
<1>2. CASE file = Absent
  <2>1. ini' = ini /\ ini = <<>> /\ DOMAIN ini' = {}
    BY <1>1, <1>2 DEF ConfigInv, LoadConfig
  <2>2. Required = {} /\ DOMAIN Key = {}
    BY <2>1 DEF HasSection, Required
  <2>3. Range(Key) = {}
    BY <2>2 DEF Range
  <2> QED
    BY <2>2, <2>3 DEF ReadsWhatIsWritten
<1>3. CASE file # Absent
  <2>1. ini' = Parsed(file) /\ file \in Seq(Range(file))
    BY <1>3 DEF LoadConfig, ConfigInv, AppAssumption
  <2>2. \A s, k : Written(file, s, k) = IF HasSection(ini', s) THEN Text(ini'[s], k) ELSE NoText
    BY <2>1, ReadRight
  <2>3. \A s \in Required : Written(file, s, Key[s]) = Text(ini'[s], Key[s])
    BY <2>2
  <2> QED
    BY <1>1, <2>2, <2>3 DEF ReadsWhatIsWritten
<1> QED
  BY <1>2, <1>3

LEMMA ConfigStep == AppAssumption /\ ConfigInv /\ [AppNext]_appVars => ConfigInv'
<1> SUFFICES ASSUME AppAssumption, ConfigInv, [AppNext]_appVars PROVE ConfigInv'
  OBVIOUS
<1>1. CASE LoadConfig
  <2>1. pc' \in {"logger", "exit"}
    BY <1>1 DEF LoadConfig
  <2> QED
    BY <1>1, <2>1, LoadsRight DEF LoadConfig, ConfigInv
<1>2. ASSUME UNCHANGED <<file, ini, config>>, after' \in {"serving", "exit"}, pc # "load",
             pc \in {"exit", "gone"} => pc' \in {"exit", "gone"}, pc' # "load"
      PROVE  ConfigInv'
  BY <1>2 DEF ConfigInv, ReadsWhatIsWritten
<1>3. CASE InitLogger \/ InitDatabasePool \/ InitRedisPool
  <2>1. /\ UNCHANGED <<file, ini, config, after>>
        /\ pc \in {"logger", "mysql", "redis"} /\ pc' \in {"mysql", "redis", "bootstrap"}
    BY <1>3 DEF InitLogger, InitDatabasePool, InitRedisPool, Start
  <2> QED
    BY <1>2, <2>1 DEF ConfigInv
<1>4. CASE DatabaseRefused \/ RunBootstrap \/ RunReturns \/ Exit \/ TermSignal
  <2>1. /\ UNCHANGED <<file, ini, config>>
        /\ after' \in {after, "serving", "exit"}
        /\ \/ pc \in {"bootstrap", "serving"} /\ pc' \in {"serving", "exit", "cleanup"}
           \/ pc \in {"mysql", "exit"} /\ pc' = "gone"
    BY <1>4 DEF DatabaseRefused, RunBootstrap, RunReturns, Exit, TermSignal
  <2> QED
    BY <1>2, <2>1 DEF ConfigInv
<1>5. CASE Cleanup
  <2>1. /\ UNCHANGED <<file, ini, config, after>>
        /\ pc \in {"cleanup", "cleanup2", "cleanup3"} /\ pc' \in {"cleanup2", "cleanup3", after}
    BY <1>5 DEF Cleanup, CleanupOrder, NextCleanup
  <2> QED
    BY <1>2, <2>1 DEF ConfigInv
<1>6. CASE Quit
  <2>1. UNCHANGED <<file, ini, config, after, pc>> /\ pc \in {"serving", "cleanup"}
    BY <1>6 DEF Quit
  <2> QED
    BY <1>2, <2>1 DEF ConfigInv
<1>7. CASE UNCHANGED appVars
  BY <1>7 DEF appVars, ConfigInv, ReadsWhatIsWritten
<1> QED
  BY <1>1, <1>3, <1>4, <1>5, <1>6, <1>7 DEF AppNext, Main

(* For every file, however long, in whatever order its sections and pairs   *)
(* stand: the configuration is what a reader of the file finds in it.      *)
THEOREM ConfigurationRead == AppSpec => []ReadsWhatIsWritten
<1>1. AppInit => ConfigInv
  BY DEF AppInit, ConfigInv, ReadsWhatIsWritten
<1>2. ConfigInv /\ [AppNext]_appVars => ConfigInv'
  BY ConfigStep, AppAssumption
<1>3. ConfigInv => ReadsWhatIsWritten
  BY DEF ConfigInv
<1> QED
  BY <1>1, <1>2, <1>3, PTL DEF AppSpec

(* cleanup_resources() goes in one order, every time; main() reaches its   *)
(* end only by way of it, once Drogon was asked to quit.                   *)
InCleanup == {"cleanup", "cleanup2", "cleanup3"}
BeforeRun == {"load", "logger", "mysql", "redis", "bootstrap"}
Down == {x \in Resources : res[x] = "down"}

ShutdownInv ==
  /\ res \in [Resources -> {"none", "up", "down"}]
  /\ after \in {"serving", "exit"}
  /\ pc \in BeforeRun \cup InCleanup \cup {"serving", "exit", "gone"}
  /\ pc \in BeforeRun => ~quit /\ Down = {}
  /\ pc = "cleanup2" => "redis" \in Down
  /\ pc = "cleanup3" => {"redis", "mysql"} \subseteq Down
  /\ pc \in InCleanup /\ after = "exit" => quit
  /\ pc # "gone" /\ "logger" \in Down => Down = Resources
  /\ quit /\ pc \in {"exit", "gone"} => Down = Resources

LEMMA ShutdownStep == ShutdownInv /\ [AppNext]_appVars => ShutdownInv'
<1> SUFFICES ASSUME ShutdownInv, [AppNext]_appVars PROVE ShutdownInv'
  OBVIOUS
<1> USE DEF ShutdownInv, BeforeRun, InCleanup
<1>1. ASSUME res' = res PROVE Down' = Down
  BY <1>1 DEF Down
<1>2. CASE LoadConfig
  <2>1. UNCHANGED <<res, quit, after>> /\ pc = "load" /\ pc' \in {"logger", "exit"}
    BY <1>2 DEF LoadConfig
  <2> QED
    BY <1>1, <2>1 DEF Resources
<1>3. CASE InitLogger \/ InitDatabasePool \/ InitRedisPool
  <2>1. /\ UNCHANGED <<quit, after>> /\ pc \in BeforeRun /\ pc' \in BeforeRun
        /\ \E x \in Resources : res' = [res EXCEPT ![x] = "up"]
    BY <1>3 DEF InitLogger, InitDatabasePool, InitRedisPool, Start, Resources
  <2>2. Down' = {}
    BY <2>1 DEF Down
  <2> QED
    BY <2>1, <2>2
<1>4. CASE RunBootstrap \/ TermSignal \/ Quit \/ RunReturns
  <2>1. res' = res /\ Down' = Down
    BY <1>1, <1>4 DEF RunBootstrap, TermSignal, Quit, RunReturns
  <2> QED
    BY <1>4, <2>1 DEF RunBootstrap, TermSignal, Quit, RunReturns, Resources
<1>5. CASE Cleanup
  <2>1. UNCHANGED <<quit, after>> /\ pc \in InCleanup
    BY <1>5 DEF Cleanup, CleanupOrder
  <2>2. ASSUME NEW x \in Resources, res' = [res EXCEPT ![x] = "down"]
        PROVE  Down' = Down \cup {x} /\ res' \in [Resources -> {"none", "up", "down"}]
    BY <2>2 DEF Down
  <2>3. CASE pc = "cleanup"
    <3>1. pc' = "cleanup2" /\ res' = [res EXCEPT !["redis"] = "down"]
      BY <1>5, <2>3 DEF Cleanup, CleanupOrder, NextCleanup
    <3>2. Down' = Down \cup {"redis"} /\ res' \in [Resources -> {"none", "up", "down"}]
      BY <2>2, <3>1 DEF Resources
    <3> QED
      BY <2>1, <2>3, <3>1, <3>2 DEF Resources
  <2>4. CASE pc = "cleanup2"
    <3>1. pc' = "cleanup3" /\ res' = [res EXCEPT !["mysql"] = "down"]
      BY <1>5, <2>4 DEF Cleanup, CleanupOrder, NextCleanup
    <3>2. Down' = Down \cup {"mysql"} /\ res' \in [Resources -> {"none", "up", "down"}]
      BY <2>2, <3>1 DEF Resources
    <3> QED
      BY <2>1, <2>4, <3>1, <3>2 DEF Resources
  <2>5. CASE pc = "cleanup3"
    <3>1. pc' = after /\ res' = [res EXCEPT !["logger"] = "down"]
      BY <1>5, <2>5 DEF Cleanup, CleanupOrder, NextCleanup
    <3>2. Down' = Down \cup {"logger"} /\ res' \in [Resources -> {"none", "up", "down"}]
      BY <2>2, <3>1 DEF Resources
    <3>3. Down' = Resources
      BY <2>5, <3>2 DEF Resources, Down
    <3> QED
      BY <2>1, <2>5, <3>1, <3>2, <3>3
  <2> QED
    BY <2>1, <2>3, <2>4, <2>5
<1>6. CASE Exit
  <2>1. /\ UNCHANGED <<quit, after>> /\ pc = "exit" /\ pc' = "gone"
        /\ res' \in [Resources -> {"none", "up", "down"}]
        /\ \A x \in Resources : res[x] = "down" => res'[x] = "down"
    BY <1>6 DEF Exit
  <2>2. Down = Resources => Down' = Resources
    BY <2>1 DEF Down
  <2> QED
    BY <2>1, <2>2
<1>7. CASE DatabaseRefused
  BY <1>1, <1>7 DEF DatabaseRefused
<1>8. CASE UNCHANGED appVars
  BY <1>1, <1>8 DEF appVars
<1> QED
  BY <1>2, <1>3, <1>4, <1>5, <1>6, <1>7, <1>8 DEF AppNext, Main

(* The safety part of QuitShutsDown: however TERM signals and the request  *)
(* to quit interleave, a program that was asked to quit does not get to    *)
(* its end with a pool or the logger running, and the logger is the last   *)
(* to go, so that the shutdown of both pools can still be logged.          *)
THEOREM QuitEndsDown ==
  AppSpec => [](/\ quit /\ pc \in {"exit", "gone"} => \A x \in Resources : res[x] = "down"
                /\ pc # "gone" /\ res["logger"] = "down" =>
                     res["redis"] = "down" /\ res["mysql"] = "down")
<1>1. AppInit => ShutdownInv
  <2> SUFFICES ASSUME AppInit PROVE ShutdownInv
    OBVIOUS
  <2>1. res = [x \in Resources |-> "none"] /\ pc = "load" /\ quit = FALSE /\ after = "exit"
    BY DEF AppInit
  <2>2. Down = {}
    BY <2>1 DEF Down
  <2>3. "logger" \notin Down /\ pc \in BeforeRun
    BY <2>1, <2>2 DEF BeforeRun
  <2> QED
    BY <2>1, <2>2, <2>3 DEF ShutdownInv, BeforeRun, InCleanup
<1>2. ShutdownInv => /\ quit /\ pc \in {"exit", "gone"} => \A x \in Resources : res[x] = "down"
                     /\ pc # "gone" /\ res["logger"] = "down" =>
                          res["redis"] = "down" /\ res["mysql"] = "down"
  BY DEF ShutdownInv, Down, Resources
<1> QED
  BY <1>1, <1>2, ShutdownStep, PTL DEF AppSpec
=============================================================================
