---------------------------- MODULE Inventory ----------------------------
(***************************************************************************)
(* The inventory demo (demos/demo1): InventoryService, the Lua script,     *)
(* ConsistencyChecker, ConcurrentTestService, the HTTP replies and the     *)
(* bootstrap, composed with the MySQL side of StockRepository.             *)
(*                                                                         *)
(* deduct() takes from Redis first, in one atomic script, and then from    *)
(* MySQL; when MySQL refuses, rollback_redis() gives the quantity back,    *)
(* with further connections of the Redis pool, up to m_retry_times         *)
(* attempts.  Without a Redis connection, or when the script throws or     *)
(* finds no key, fallback_to_mysql() takes from MySQL alone and a detached *)
(* thread later writes the stock it saw into Redis.  An exception of the   *)
(* MySQL connector that get_connection() lets out passes deduct() too, and *)
(* the quantity taken from Redis is not given back.                        *)
(*                                                                         *)
(* Redis is external: a key with a value or without, commands that are     *)
(* atomic, that may fail, and that may be executed though their answer is  *)
(* lost.  Drogon is external: it answers an exception of a handler with    *)
(* 500.  Faults counts all injected faults, up to MaxFaults.               *)
(***************************************************************************)
EXTENDS StockRepository, Integers

CONSTANTS
    RedisConns,    \* max_active of the Redis pool
    RetryTimes,    \* m_retry_times
    Missing,       \* Redis has no such key
    NoValue,       \* no rebuild thread; a reading that failed
    MaxFaults,     \* bound on injected faults
    MaxCrashes     \* bound on restarts of the process

ASSUME InventoryAssumption ==
    /\ IsFiniteSet(Callers)
    /\ RedisConns \in Nat \ {0}
    /\ RetryTimes \in Nat \ {0}
    /\ MaxFaults \in Nat /\ MaxCrashes \in Nat
    /\ Missing \notin Nat /\ NoValue \notin Nat

VARIABLES
    app,       \* main(): how far App::init() and App::run() are
    cache,     \* the value of the item's key in Redis
    at,        \* where each call of deduct() is
    held,      \* Redis connections in the guards of each call
    attempt,   \* `attempt` of rollback_redis()
    result,    \* what deduct() returned: "ok" or an error code
    rebuild,   \* the value a detached rebuild thread is about to write
    test,      \* ConcurrentTestService::run(): where it is and its locals
    check,     \* ConsistencyChecker::check(): where it is and its locals
    causes,    \* history: why Redis and MySQL may differ since bootstrap
    faults,    \* faults injected
    crashes    \* crashes of the process

serviceVars == <<at, held, attempt, result, rebuild>>
auditVars == <<test, check>>
worldVars == <<app, faults, crashes>>
vars == <<repoVars, cache, at, held, attempt, result, rebuild, test, check,
          causes, app, faults, crashes>>

Codes == {"ok", "kInvalidArg", "kStockInsufficient", "kMySQLUpdateFailed",
          "exception"}

\* InventoryController::deduct(): the code of the HTTP reply, or Drogon's status
HttpCode(code) == CASE code = "ok" -> 0
                    [] code \in {"kStockInsufficient", "kInvalidArg"} -> -1
                    [] code = "exception" -> 500
                    [] OTHER -> -500

NoTest == [at |-> "none", qty |-> 0, initial |-> NoValue, redis |-> NoValue,
           mysql |-> NoValue, fresh |-> FALSE, threads |-> {}]
NoCheck == [at |-> "none", redis |-> NoValue, mysql |-> NoValue, fresh |-> FALSE]

Init ==
    /\ RepoInit
    /\ cache = Missing
    /\ at = [p \in Callers |-> "idle"]
    /\ held = [p \in Callers |-> 0]
    /\ attempt = [p \in Callers |-> 0]
    /\ result = [p \in Callers |-> "none"]
    /\ rebuild = [p \in Callers |-> NoValue]
    /\ test = NoTest /\ check = NoCheck
    /\ causes = {}
    /\ app = "down" /\ faults = 0 /\ crashes = 0

-----------------------------------------------------------------------------
(* Helpers *)

\* what an amount per call sums up to: the number of units of all calls
Units(amount) == UNION {{p} \X (1..amount[p]) : p \in Callers}
Total(amount) == Cardinality(Units(amount))

RedisFree == RedisConns - Total(held)

\* get_connection() of the Redis pool gives a connection
Guarded == RedisFree > 0 /\ app # "draining" /\ app # "stopped"

Fault == faults < MaxFaults /\ faults' = faults + 1
NoFault == UNCHANGED faults

\* get_connection() of the Redis pool gives an empty guard: every connection
\* stayed in use for its timeout, a new one could not be made, or the pool is
\* shut down
NoGuard == (~Guarded /\ NoFault) \/ Fault

InFlight == {p \in Callers : at[p] \notin {"idle", "done"}}
Calm == InFlight = {} /\ \A p \in Callers : rebuild[p] = NoValue

\* deduct() returns: its guards go
Return(p, code) ==
    /\ at' = [at EXCEPT ![p] = "done"]
    /\ held' = [held EXCEPT ![p] = 0]
    /\ attempt' = [attempt EXCEPT ![p] = 0]
    /\ result' = [result EXCEPT ![p] = code]

-----------------------------------------------------------------------------
(* Start and crash of the process *)

\* App::init(): configuration, logger, both pools, the components; when a
\* part fails main() ends and nothing has happened
Wire ==
    /\ app = "down"
    /\ app' = "wired"
    /\ UNCHANGED <<repoVars, cache, serviceVars, auditVars, causes, faults, crashes>>

\* initialize(): the row first ...
InitializeRow ==
    /\ app = "wired"
    /\ InitRow
    /\ app' = "row"
    /\ UNCHANGED <<cache, serviceVars, auditVars, causes, faults, crashes>>

\* ... then the key, always with the initial stock; then the server runs
InitializeKey ==
    /\ app = "row"
    /\ cache' = InitStock
    /\ app' = "serving"
    /\ causes' = IF stock = InitStock THEN {} ELSE {"restart"}
    /\ UNCHANGED <<repoVars, serviceVars, auditVars, faults, crashes>>

\* cleanup_resources(), as the signal handler runs it under the requests: the
\* Redis pool is shut down first ...
CloseRedis ==
    /\ app = "serving" /\ crashes < MaxCrashes
    /\ app' = "draining"
    /\ UNCHANGED <<repoVars, cache, serviceVars, auditVars, causes, faults, crashes>>

\* ... then the MySQL pool
CloseMySQL ==
    /\ app = "draining"
    /\ app' = "stopped"
    /\ UNCHANGED <<repoVars, cache, serviceVars, auditVars, causes, faults, crashes>>

\* run_bootstrap() failed, run() returned, or the process died: the stores
\* keep their state
Crash ==
    /\ app # "down" /\ crashes < MaxCrashes
    /\ app' = "down" /\ crashes' = crashes + 1
    /\ RepoCrash
    /\ at' = [p \in Callers |-> "idle"]
    /\ held' = [p \in Callers |-> 0]
    /\ attempt' = [p \in Callers |-> 0]
    /\ result' = [p \in Callers |-> "none"]
    /\ rebuild' = [p \in Callers |-> NoValue]
    /\ test' = NoTest /\ check' = NoCheck
    /\ causes' = causes \union {"restart"}
    /\ UNCHANGED <<cache, faults>>

\* Redis evicts or forgets the key
KeyLoss ==
    /\ app = "serving" /\ cache # Missing /\ Fault
    /\ cache' = Missing
    /\ causes' = causes \union {"key loss"}
    /\ UNCHANGED <<repoVars, serviceVars, auditVars, app, crashes>>

-----------------------------------------------------------------------------
(* deduct() *)

\* a request that is no thread of the test falls into it: what the test then
\* measures is anything, so its readings are not kept ("disturbed")
TestWith(p) ==
    IF p \in test.threads \/ test.at \in {"none", "disturbed"} THEN test
    ELSE IF test.at = "reported" THEN NoTest
    ELSE [NoTest EXCEPT !.at = "disturbed", !.qty = test.qty, !.threads = test.threads]

\* an HTTP request for any item and quantity, or a thread of the concurrent
\* test, calls deduct(); an id or a quantity that is not positive is refused;
\* the quantity asked of an unknown item touches nothing and is not kept
Call(p) ==
    /\ app = "serving" /\ at[p] = "idle"
    /\ \E i \in BOOLEAN, q \in Quantities \union {0} :
         /\ p \in test.threads => i /\ q = test.qty
         /\ known' = [known EXCEPT ![p] = i]
         /\ qty' = [qty EXCEPT ![p] = IF i THEN q ELSE 0]
         /\ IF q = 0
            THEN Return(p, "kInvalidArg")
            ELSE at' = [at EXCEPT ![p] = "guard"] /\ UNCHANGED <<held, attempt, result>>
    /\ check' = NoCheck
    /\ test' = TestWith(p)
    /\ UNCHANGED <<stock, rowLock, connVars, sql, conn, seen, salesVars, cache,
                   rebuild, causes, worldVars>>

TakeGuard(p) ==
    /\ at[p] = "guard" /\ Guarded
    /\ held' = [held EXCEPT ![p] = 1]
    /\ at' = [at EXCEPT ![p] = "eval"]
    /\ UNCHANGED <<repoVars, cache, attempt, result, rebuild, auditVars, causes,
                   worldVars>>

\* the call of m_repo.deduct_stock(), with or without the key decremented
CallRepository(p, mode) ==
    /\ at' = [at EXCEPT ![p] = mode]
    /\ sql' = [sql EXCEPT ![p] = "conn"]
    /\ UNCHANGED <<stock, rowLock, connVars, conn, seen, qty, known, salesVars>>

\* Redis unavailable: fallback_to_mysql()
NoRedisGuard(p) ==
    /\ at[p] = "guard" /\ NoGuard
    /\ CallRepository(p, "fallback")
    /\ UNCHANGED <<cache, held, attempt, result, rebuild, auditVars, causes, app,
                   crashes>>

\* Mutant of Eval: the script does not compare the stock with the quantity.
EvalUnchecked(p) ==
    /\ at[p] = "eval"
    /\ IF ~known[p] \/ cache = Missing
       THEN CallRepository(p, "fallback") /\ UNCHANGED <<cache, held, attempt, result>>
       ELSE /\ cache' = cache - qty[p]
            /\ CallRepository(p, "sync")
            /\ UNCHANGED <<held, attempt, result>>
    /\ UNCHANGED <<rebuild, auditVars, causes, worldVars>>

\* the Lua script: no key, too little stock, or DECRBY
Eval(p) ==
    /\ at[p] = "eval"
    /\ \/ /\ ~known[p] \/ cache = Missing
          /\ CallRepository(p, "fallback")
          /\ UNCHANGED <<cache, held, attempt, result>>
       \/ /\ known[p] /\ cache # Missing /\ cache < qty[p]
          /\ Return(p, "kStockInsufficient")
          /\ UNCHANGED <<repoVars, cache>>
       \/ /\ known[p] /\ cache # Missing /\ cache >= qty[p]
          /\ cache' = cache - qty[p]
          /\ CallRepository(p, "sync")
          /\ UNCHANGED <<held, attempt, result>>
    /\ UNCHANGED <<rebuild, auditVars, causes, worldVars>>

\* eval() throws, executed or not, and is taken for a missing key
EvalError(p) ==
    /\ at[p] = "eval" /\ Fault
    /\ CallRepository(p, "fallback")
    /\ \/ UNCHANGED <<cache, causes>>
       \/ /\ known[p] /\ cache # Missing /\ cache >= qty[p]
          /\ cache' = cache - qty[p]
          /\ causes' = causes \union {"lost answer"}
    /\ UNCHANGED <<held, attempt, result, rebuild, auditVars, app, crashes>>

\* the MySQL pool is shut down: deduct_stock() gets no connection
ShutDown(p) ==
    /\ app = "stopped" /\ sql[p] = "conn"
    /\ Leave(p, "failed")
    /\ UNCHANGED <<stock, rowLock, connVars, seen, qty, known, salesVars, cache,
                   serviceVars, auditVars, causes, worldVars>>

\* the history of a commit: a fallback leaves the key behind, the caller may not
\* have been told, and it may hold what another call had abandoned
CommitCauses(p) ==
    causes' = causes
        \union (IF at[p] = "fallback" /\ sold' # sold THEN {"fallback"} ELSE {})
        \union (IF lost' # lost THEN {"lost commit"} ELSE {})
        \union (IF late' # late THEN {"late commit"} ELSE {})

\* a step of deduct_stock()
Repository(p) ==
    /\ app = "stopped" => sql[p] # "conn"
    /\ RepoStep(p)
    /\ CommitCauses(p)
    /\ UNCHANGED <<cache, serviceVars, auditVars, worldVars>>

RepositoryError(p) ==
    /\ Fault
    /\ app = "stopped" => sql[p] # "conn"
    /\ StatementError(p) \/ CommitError(p) \/ ConnectionLost(p)
    /\ CommitCauses(p)
    /\ UNCHANGED <<cache, serviceVars, auditVars, app, crashes>>

\* the exception of a refused connect passes deduct() and its callers: nothing is
\* given back to Redis.  In a thread of the concurrent test nothing catches it
\* and the process ends, which Crash covers
Escaped(p) ==
    /\ Fault /\ app # "stopped" /\ p \notin test.threads
    /\ ConnectThrows(p)
    /\ Return(p, "exception")
    /\ causes' = IF at[p] = "sync" THEN causes \union {"escaped"} ELSE causes
    /\ UNCHANGED <<cache, rebuild, auditVars, app, crashes>>

RecycleIdle ==
    /\ \E c \in DbConns : Recycle(c)
    /\ UNCHANGED <<cache, serviceVars, auditVars, causes, worldVars>>

\* MySQL took the quantity: deduct() returns; a fallback also starts the
\* thread that will write the stock it saw
Deducted(p) ==
    /\ at[p] \in {"sync", "fallback"} /\ sql[p] = "ok"
    /\ sql' = [sql EXCEPT ![p] = "idle"]
    /\ seen' = [seen EXCEPT ![p] = 0]
    /\ Return(p, "ok")
    /\ rebuild' = IF at[p] = "fallback"
                  THEN [rebuild EXCEPT ![p] = seen[p] - qty[p]] ELSE rebuild
    /\ UNCHANGED <<stock, rowLock, connVars, conn, qty, known, salesVars,
                   cache, auditVars, causes, worldVars>>

\* Mutant of NotDeducted: nothing is given back to Redis.
NotDeductedKept(p) ==
    /\ at[p] \in {"sync", "fallback"} /\ sql[p] = "failed"
    /\ sql' = [sql EXCEPT ![p] = "idle"]
    /\ seen' = [seen EXCEPT ![p] = 0]
    /\ Return(p, "kMySQLUpdateFailed")
    /\ UNCHANGED <<stock, rowLock, connVars, conn, qty, known, salesVars,
                   cache, rebuild, auditVars, causes, worldVars>>

\* Mutant of NotDeducted: db_result is not looked at.
NotDeductedIgnored(p) ==
    /\ sql[p] = "failed"
    /\ sql' = [sql EXCEPT ![p] = "idle"]
    /\ seen' = [seen EXCEPT ![p] = 0]
    /\ Return(p, "ok")
    /\ UNCHANGED <<stock, rowLock, connVars, conn, qty, known, salesVars,
                   cache, rebuild, auditVars, causes, worldVars>>

\* MySQL refused: a fallback returns the error, else rollback_redis()
NotDeducted(p) ==
    /\ sql[p] = "failed"
    /\ sql' = [sql EXCEPT ![p] = "idle"]
    /\ seen' = [seen EXCEPT ![p] = 0]
    /\ \/ /\ at[p] = "fallback"
          /\ Return(p, "kMySQLUpdateFailed")
       \/ /\ at[p] = "sync"
          /\ at' = [at EXCEPT ![p] = "rollback"]
          /\ UNCHANGED <<held, attempt, result>>
    /\ UNCHANGED <<stock, rowLock, connVars, conn, qty, known, salesVars,
                   cache, rebuild, auditVars, causes, worldVars>>

-----------------------------------------------------------------------------
(* rollback_redis() and async_rebuild_redis() *)

\* a second connection, while the first guard of deduct() still holds one
TakeSecondGuard(p) ==
    /\ at[p] = "rollback" /\ Guarded
    /\ held' = [held EXCEPT ![p] = 2]
    /\ at' = [at EXCEPT ![p] = "incrby"]
    /\ UNCHANGED <<repoVars, cache, attempt, result, rebuild, auditVars, causes,
                   worldVars>>

\* the attempt failed; after the last one the quantity stays taken
NextAttempt(p) ==
    IF attempt[p] + 1 < RetryTimes
    THEN /\ attempt' = [attempt EXCEPT ![p] = @ + 1]
         /\ at' = [at EXCEPT ![p] = "rollback"]
         /\ held' = [held EXCEPT ![p] = 1]
         /\ UNCHANGED result
    ELSE Return(p, "kMySQLUpdateFailed")

\* the history of a failed attempt: given up, or executed without an answer
AttemptCause(p, executed) ==
    causes' = causes
        \union (IF executed THEN {"lost answer"} ELSE {})
        \union (IF attempt[p] + 1 = RetryTimes THEN {"compensation"} ELSE {})

\* Mutant of NoSecondGuard: the pool waits for a connection without a timeout.
NoSecondGuardEver(p) ==
    /\ at[p] = "rollback" /\ Fault
    /\ NextAttempt(p)
    /\ AttemptCause(p, FALSE)
    /\ UNCHANGED <<repoVars, cache, rebuild, auditVars, app, crashes>>

NoSecondGuard(p) ==
    /\ at[p] = "rollback" /\ NoGuard
    /\ NextAttempt(p)
    /\ AttemptCause(p, FALSE)
    /\ UNCHANGED <<repoVars, cache, rebuild, auditVars, app, crashes>>

\* INCRBY makes the key when there is none
Incremented(p) == IF cache = Missing THEN qty[p] ELSE cache + qty[p]

\* Mutant of IncrBy: the loop goes on after a success.
IncrByAgain(p) ==
    /\ at[p] = "incrby"
    /\ cache' = Incremented(p)
    /\ NextAttempt(p)
    /\ UNCHANGED <<repoVars, rebuild, auditVars, causes, worldVars>>

IncrBy(p) ==
    /\ at[p] = "incrby"
    /\ cache' = Incremented(p)
    /\ Return(p, "kMySQLUpdateFailed")
    /\ UNCHANGED <<repoVars, rebuild, auditVars, causes, worldVars>>

\* incrby() throws, executed or not, and the loop goes on
IncrByError(p) ==
    /\ at[p] = "incrby" /\ Fault
    /\ \E executed \in BOOLEAN :
         /\ cache' = IF executed THEN Incremented(p) ELSE cache
         /\ AttemptCause(p, executed)
    /\ NextAttempt(p)
    /\ UNCHANGED <<repoVars, rebuild, auditVars, app, crashes>>

\* the detached thread writes its value, or gives up without a word
Rebuild(p) ==
    /\ rebuild[p] # NoValue
    /\ \/ /\ Guarded /\ NoFault
          /\ cache' = rebuild[p]
       \/ NoGuard /\ UNCHANGED cache
    /\ rebuild' = [rebuild EXCEPT ![p] = NoValue]
    /\ UNCHANGED <<repoVars, at, held, attempt, result, auditVars, causes, app,
                   crashes>>

-----------------------------------------------------------------------------
(* Reading both stores: ConcurrentTestService and ConsistencyChecker *)

\* get_redis_stock(): the value, or an error when there is no connection, no
\* key, or the command fails
ReadRedis(v) ==
    \/ /\ Guarded /\ NoFault
       /\ v = IF cache = Missing THEN NoValue ELSE cache
    \/ NoGuard /\ v = NoValue

\* get_mysql_stock(): the value, or an error when the pool gives no connection or
\* a dead one
ReadRow(v) ==
    \/ /\ app # "stopped"
       /\ \E c \in Free : GetStock(c) /\ v = StockOn(c)
    \/ /\ app = "stopped" \/ Free = {} \/ \E c \in Free : ~alive[c]
       /\ v = NoValue /\ UNCHANGED repoVars

Readings == Nat \union {NoValue}
Values == 0..(InitStock + InitStock) \union {NoValue}

\* concurrent_test() of the controller checks no quantity: every call of a test
\* with 0 is then refused
TestQuantities == Quantities \union {0}

\* no connection of the pool is inside a transaction that somebody left open
NoneOpen == \A c \in DbConns : ~inTx[c]

\* the threads of a test; a test with none is left out
Groups == (SUBSET Callers) \ {{}}

\* the initial stock from Redis, else from MySQL; then the threads start, under
\* whatever else is under way
StartTest ==
    /\ app = "serving" /\ test.at \in {"none", "reported"}
    /\ \E q \in TestQuantities, v \in Values, t \in Groups :
         /\ \A p \in t : at[p] = "idle"
         /\ \/ ReadRedis(v) /\ v # NoValue /\ UNCHANGED repoVars
            \/ ReadRedis(NoValue) /\ ReadRow(v)
         /\ test' =
              IF v = NoValue THEN NoTest
              ELSE IF Calm
              THEN [NoTest EXCEPT !.at = "running", !.qty = q, !.initial = v,
                                  !.threads = t, !.fresh = NoneOpen]
              ELSE [NoTest EXCEPT !.at = "disturbed", !.qty = q, !.threads = t]
    /\ UNCHANGED <<cache, serviceVars, check, causes, app, crashes>>

Joined == \A p \in test.threads : at[p] = "done"

\* every thread joined, then the final value in Redis ...
TestRedis ==
    /\ test.at = "running" /\ Joined
    /\ \E v \in Values :
         ReadRedis(v) /\ test' = [test EXCEPT !.at = "redis", !.redis = v]
    /\ UNCHANGED <<repoVars, cache, serviceVars, check, causes, app, crashes>>

AtRow == test.at = "redis" \/ (test.at = "disturbed" /\ Joined)

\* ... and in MySQL; fresh: no transaction was left open at either end
TestRow ==
    /\ AtRow
    /\ \E v \in Values :
         /\ ReadRow(v)
         /\ test' = IF test.at = "disturbed" THEN NoTest
                    ELSE [test EXCEPT !.at = "reported", !.mysql = v,
                                      !.fresh = @ /\ NoneOpen]
    /\ UNCHANGED <<cache, serviceVars, check, causes, worldVars>>

\* the read of the row throws out of the test and of its handler: no report
TestEscapes ==
    /\ AtRow
    /\ Fault /\ app # "stopped" /\ Free # {}
    /\ test' = NoTest
    /\ UNCHANGED <<repoVars, cache, serviceVars, check, causes, app, crashes>>

\* Mutant of Successes: refused calls are counted too.
SuccessesAll == Cardinality(test.threads)

\* success_count
Successes == Cardinality({p \in test.threads : result[p] = "ok"})

\* data_consistent of the response
DataConsistent ==
    /\ test.redis = test.mysql
    /\ test.redis = test.initial - Successes * test.qty

\* make_error(): a negative code is a bad request
MakeError(code) == [status |-> IF code < 0 THEN 400 ELSE 200, code |-> code]

\* the HTTP reply of the test; a run() that could not start is answered -500
TestReply ==
    IF test.at # "reported" THEN MakeError(-500)
    ELSE [status |-> 200, code |-> 0,
          theoretical_remain |-> test.initial - Successes * test.qty,
          actual_redis_stock |-> test.redis, actual_mysql_stock |-> test.mysql,
          data_consistent |-> DataConsistent]

\* check(): Redis first ...
CheckRedis ==
    /\ app = "serving" /\ check.at = "none" /\ Calm
    /\ \E v \in Values :
         ReadRedis(v) /\ check' = [NoCheck EXCEPT !.at = "redis", !.redis = v]
    /\ UNCHANGED <<repoVars, cache, serviceVars, test, causes, app, crashes>>

\* ... then MySQL; fresh: not through a transaction somebody left open
CheckRow ==
    /\ check.at = "redis"
    /\ \E v \in Values :
         /\ ReadRow(v)
         /\ check' = [check EXCEPT !.at = "reported", !.mysql = v,
                                   !.fresh = v \in {stock, NoValue}]
    /\ UNCHANGED <<cache, serviceVars, test, causes, worldVars>>

\* what a check finds while a call is under way is anything: its readings are not
\* kept, and only the transaction its get_stock() may continue is changed
CheckRacing ==
    /\ app \in {"serving", "draining", "stopped"}
    /\ \E v \in Values : ReadRow(v)
    /\ UNCHANGED <<cache, serviceVars, auditVars, causes, worldVars>>

\* the same exception out of check()
CheckEscapes ==
    /\ check.at = "redis"
    /\ Fault /\ app # "stopped" /\ Free # {}
    /\ check' = NoCheck
    /\ UNCHANGED <<repoVars, cache, serviceVars, test, causes, app, crashes>>

\* the report's fields redis_available and consistent
RedisAvailable == check.redis # NoValue
Consistent == RedisAvailable /\ check.redis = check.mysql

\* the HTTP reply of the check: without Redis its stock is null
CheckReply ==
    [status |-> 200, code |-> 0, mysql_stock |-> check.mysql,
     redis_stock |-> IF RedisAvailable THEN check.redis ELSE NoValue,
     consistent |-> Consistent]

-----------------------------------------------------------------------------
Deduct(p) ==
    \/ TakeGuard(p) \/ NoRedisGuard(p) \/ Eval(p) \/ EvalError(p)
    \/ Repository(p) \/ ShutDown(p) \/ RepositoryError(p) \/ Escaped(p)
    \/ Deducted(p) \/ NotDeducted(p)
    \/ TakeSecondGuard(p) \/ NoSecondGuard(p) \/ IncrBy(p) \/ IncrByError(p)

Next ==
    \/ Wire \/ InitializeRow \/ InitializeKey \/ CloseRedis \/ CloseMySQL \/ Crash
    \/ KeyLoss \/ RecycleIdle
    \/ \E p \in Callers : Call(p) \/ Deduct(p) \/ Rebuild(p)
    \/ StartTest \/ TestRedis \/ TestRow \/ TestEscapes
    \/ CheckRedis \/ CheckRow \/ CheckRacing \/ CheckEscapes

Spec == Init /\ [][Next]_vars

\* threads run, and the waits of the pools and of the row lock time out
Fairness == \A p \in Callers : WF_vars(Deduct(p))

FairSpec == Spec /\ Fairness

-----------------------------------------------------------------------------
(* Properties *)

TestState == [at : {"none", "running", "disturbed", "redis", "reported"},
              qty : TestQuantities, initial : Readings, redis : Readings,
              mysql : Readings, fresh : BOOLEAN, threads : SUBSET Callers]
CheckState == [at : {"none", "redis", "reported"}, redis : Readings,
               mysql : Readings, fresh : BOOLEAN]

CallTypes ==
    /\ at \in [Callers -> {"idle", "guard", "eval", "sync", "fallback",
                           "rollback", "incrby", "done"}]
    /\ held \in [Callers -> 0..2]
    /\ RedisFree \in 0..RedisConns
    /\ attempt \in [Callers -> 0..(RetryTimes - 1)]
    /\ result \in [Callers -> Codes \union {"none"}]
    /\ rebuild \in [Callers -> Readings]
AuditTypes == test \in TestState /\ check \in CheckState
WorldTypes ==
    /\ app \in {"down", "wired", "row", "serving", "draining", "stopped"}
    /\ cache \in Nat \union {Missing}
    /\ causes \subseteq {"restart", "key loss", "lost answer", "lost commit",
                         "late commit", "fallback", "compensation", "escaped"}
    /\ faults \in 0..MaxFaults
    /\ crashes \in 0..MaxCrashes

\* The type invariant.
TypeOK == RepoTypeOK /\ CallTypes /\ AuditTypes /\ WorldTypes

\* what p took from Redis and has neither taken from MySQL nor given back
Reserved(p) ==
    IF \/ at[p] = "sync" /\ sql[p] # "ok"
       \/ at[p] \in {"rollback", "incrby"}
    THEN qty[p] ELSE 0

TotalReserved == Total([p \in Callers |-> Reserved(p)])

\* what the call p took from MySQL, as its reply says or is about to say
Taken(p) == IF HttpCode(result[p]) = 0 \/ sql[p] = "ok" THEN qty[p] ELSE 0
TotalTaken == Total([p \in Callers |-> Taken(p)])

\* Redis never drifts by itself.  Unless one of the eight recorded causes
\* happened, the key is at every moment the row less what the calls under way
\* have taken from Redis and not yet from MySQL, whatever their interleaving,
\* and however many of them MySQL refused.
\* (deduct(), Lua script, deduct_stock(), rollback_redis().)
CacheExact == app \in {"serving", "draining", "stopped"} /\ causes = {} =>
    cache # Missing /\ cache + TotalReserved = stock

\* A compensation that was given up, or skipped by an exception that passes
\* deduct(), only makes the shop sell too little: the key is then below the row,
\* and Redis promises nothing MySQL does not have.
CompensationUndersells ==
  (/\ app \in {"serving", "draining", "stopped"}
   /\ causes \subseteq {"compensation", "escaped"}) =>
    cache # Missing /\ cache + TotalReserved <= stock

\* when nothing made the stores drift, no other request fell into the test, no
\* transaction was left open and the readings of the test succeeded, its reply
\* says PASS, with what is left in the row
TestPasses == test.at = "reported" /\ causes = {} /\ test.redis # NoValue
                 /\ test.fresh /\ test.mysql # NoValue =>
    /\ TestReply.code = 0 /\ TestReply.data_consistent
    /\ TestReply.theoretical_remain = stock

\* a reply of check() made while nothing was under way, through a connection
\* outside any left-open transaction, calls the stores different only if one of
\* the causes happened
NoFalseAlarm ==
    check.at = "reported" /\ check.fresh /\ causes = {}
      /\ check.mysql # NoValue /\ CheckReply.redis_stock # NoValue =>
    CheckReply.consistent

\* The two diagnostics of the demo are right: the concurrent test passes and the
\* consistency check raises no alarm, unless the stores did drift.
\* (ConcurrentTestService::run() after the join; ConsistencyChecker::check(); the
\* controller's replies to both.)
ReportsTrue == TestPasses /\ NoFalseAlarm

\* The code of a reply is true of the row: the calls answered 0 account for all
\* that was sold in this run of the process, so a refusal (-1, -500) never
\* stands for a sale, except the one whose commit lost its answer or that
\* somebody else committed later.
RepliesTrue == crashes = 0 => sold = TotalTaken

\* Every call of deduct() answers, though it asks the pool for a second
\* connection while it holds one, unless the process dies.
Answered == \A p \in Callers : at[p] = "guard" ~> at[p] \in {"done", "idle"}
=============================================================================
