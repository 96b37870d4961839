# TLA+ models of the backend common components

This directory holds TLA+ specifications of the components in `src/`, the TLC
configurations that model-check them, and TLAPS proofs about them. It is kept
beside the code: every definition of a component module is a translation of
lines of the source (`PROJECT.json`, "map", names them), and a change to those
lines calls for the same change here.

    tlc -workers 2 -config ThreadPoolElastic.cfg MCThreadPool   # one run
    tlapm ThreadPoolProofs.tla                                  # one set of proofs

## 1. The system

The repository is a set of C++ libraries and one demo that uses most of them.
Nothing here is one program; the components interact through calls, through
objects whose destructor hands something back (guards), and through the threads
that a component starts for itself.

| component (under `src/`) | state | operations | module |
|---|---|---|---|
| `thread-pool/linux-implementation` | task queue, live/busy/exit counters, shutdown flag, thread slots | `submit()`, worker loop, manager loop, destructor | `ThreadPool` |
| `thread-pool/stl-implementation` | the same on `std::thread` | the same | `StlThreadPool` |
| `database-connection-pool` | connection queue, size, initialized/recycle flags, guards | `init()`, `get_connection()`, `return_connection()`, guard operations, recycle thread, `shutdown()` | `DbConnPool` |
| `database-connection-pool`, MySQL classes | open/closed link, transaction flag | connect, begin/commit, statements that throw | link in `DbConnPool`, transactions in `StockRepository` |
| `redis-connection-pool` | as the database pool, and statistics | as the database pool, with health checks and creations that fail | `RedisConnPool` |
| `demos/demo1`, repository | one row, its lock, open transactions | `init_stock()`, `deduct_stock()`, `get_stock()` | `StockRepository` |
| `demos/demo1`, service, checker, test | a key in Redis, calls, detached rebuild threads | `initialize()`, `deduct()`, fallback, rollback, `check()`, concurrent test | `Inventory` |
| `demos/demo1`, application | configuration, which resources run | `init()`, `run()`, TERM handler, cleanup | `App` |
| `rabbitMQ-pool`, connection, channel, pool, guard | connection and its mutex, channels, queue of idle channels | `init()`, `reconnect()`, `acquire()`/`release()`, channel operations | `RabbitChannels` |
| `rabbitMQ-pool`, broker, producer, consumer | topology, messages, deliveries, the consumer's flag and thread | `setup()`/`teardown()`, `send()`, `start()`/`stop()`/`join()`, consume loop | `RabbitClient` |
| `log` | level, line counter, buffer, stream, file and backups | `init()`, `log()`, rotation, flush, `shutdown()` | `Logger` |
| `ini`, `value` | sections and keys | `load()`, lookups | `IniFile` |
| `error`, `result` | a chain of causes; a tagged union | construction, copy, move, assignment, unwrapping, `EF_TRY` | `ErrorResult` |
| `cross-domain-communication` | descriptors owned by communicators | create, move, bind, listen, connect, accept, send, receive, close | `Communicator` |
| `TaskDispatcher`, `simple_logger` | none of their own | forwarding, printing | none |
| examples, tests, benchmarks, build files | | read for what the components promise | none |

How they interact:

* The inventory service has a reference to both connection pools; a request
  borrows a Redis connection (`RedisConnGuard`), runs the Lua script, borrows a
  MySQL connection (`PooledConnGuard`) in the repository, perhaps a second Redis
  connection to give stock back, and may start a detached thread to rebuild the
  cache. The application starts the logger, both pools and the bootstrap, reads
  its configuration through `ini`, and shuts everything down.
* A guard calls `return_connection()` of its pool in its destructor. The pool's
  recycle thread takes the same mutex as the borrowers.
* All channels of a RabbitMQ connection share the mutex of the `Connection`;
  a consumer keeps it while it waits for a message. Broker, producers and
  consumers borrow channels from one `ChannelPool`.
* A thread pool calls `run()` of the task it was given and deletes the task.
* Functions of the demo return `Result`s that carry `Error`s.

Hard behaviour, and what makes each component correct:

* **Thread pools.** Submitters, workers, manager and destructor interleave over
  two mutexes and two conditions; the manager decides on stale samples; the
  shutdown flag is written outside the locks. Correct: an accepted task is never
  lost or run twice, the counters are exact, no signal is lost, the destructor
  polls to an end.
* **Connection pools.** A connection goes from queue to guard and back through
  threads that wait with a timeout, while a recycle thread rotates the queue,
  creations fail, and `shutdown()` and `init()` come and go. Correct: one owner
  per connection, none deleted in use, the minimum kept, counts and statistics
  off by no more than `shutdown()` made them, every call returns.
* **Inventory.** Two stores without a common transaction, connections that come
  back with a transaction open, answers that get lost. Correct: MySQL never
  loses an update, Redis differs from it only for known causes and, when only a
  compensation failed, on the safe side; replies are true.
* **RabbitMQ.** A lost connection, channels the server closes, an
  acknowledgement after the handler, a flag that is read between messages.
  Correct: the pool keeps its channels, no message is lost unhandled, a stopped
  consumer ends, `setup()` tells the truth.
* **Log.** Limit and rotation outside the lock. Correct: a line is whole, and
  lost only in the ways that are written down; errors survive a crash.
* **Ini, Result, Communicator.** Sequential; correct if every order of calls
  keeps what the file says, one owner per block, one owner per descriptor.
* **Application.** Correct if whatever it started is shut down in the end.

`PROJECT.json` "hazards" lists every hazard at its line with the properties that
cover it.

## 2. Modules

| module | what it is |
|---|---|
| `TaskPool` | what a thread pool owes its callers: a bounded FIFO queue, each task started at most once and in order, no task refused before closing; whether closing drops or drains the queue is left open |
| `ThreadPool` | the pthread pool, state machine of all its threads |
| `StlThreadPool` | the STL pool: extends `ThreadPool`, whose actions it reuses |
| `LendingPool` | what the MySQL pool promises: a connection is idle, lent to one borrower, or lost; only an idle one is lent; nobody's connection is closed by another |
| `DbConnPool` | the MySQL connection pool, its guards, recycle thread, `init()` and `shutdown()` |
| `LoanPool` | what a pool with safe guards promises: everything open is idle or on loan to one client, and nothing is out of sight |
| `RedisConnPool` | the Redis connection pool, with health checks and statistics |
| `StockRepository` | one row of the inventory table, pooled connections with their transaction flag, `deduct_stock()` statement by statement |
| `Inventory` | service, script, checker, test and restart, composed with `StockRepository` (EXTENDS) |
| `RabbitChannels` | connection, channels, channel pool and guards |
| `RabbitClient` | broker, producers and consumers, composed with `RabbitChannels` (EXTENDS) |
| `Logger` | threads that log into one file with rotation |
| `Communicator` | communicators, descriptors and sockets |
| `ErrorResult` | who owns which block of the heap through `Error` and `Result` |
| `IniFile` | `load()` line by line, and the file as its writer reads it |
| `App` | the demo's process, composed with `IniFile` (EXTENDS) |
| `MC...` | constants, symmetry and history variables for the runs of the module named |
| `ThreadPoolProofs` | theorems about `ThreadPool` and `StlThreadPool` |
| `DbConnPoolProofs`, `RedisConnPoolProofs` | theorems about the connection pools |
| `InventoryProofs` | theorems about `StockRepository` and `Inventory`, and about the process around them: `App` and `IniFile` |
| `RabbitProofs` | theorems about `RabbitChannels` and `RabbitClient` |
| `LoggerProofs`, `CommunicatorProofs`, `ErrorResultProofs` | theorems about the module named |

Refinements (the `INSTANCE ... WITH` near the end of each module):
`ThreadPool` and `StlThreadPool` implement `TaskPool`, `DbConnPool` implements
`LendingPool`, `RedisConnPool` and `RabbitChannels` (inside `RabbitClient`)
implement `LoanPool`.

Operators marked "Mutant of ..." are a plausible bug each that no specification
uses. They are the `mutants` of `PROJECT.json`: put in the place of the
definition they are named after, TLC finds the property violated, which shows
that the property looks at that code.

### 2.1 ThreadPool (`thread-pool/linux-implementation/src/threadPool.cpp`)

The shared members keep their names (`m_taskQ`, `m_live_threads`,
`m_busy_threads`, `m_exit_threads`, `m_is_shutdown`). `call[t]` is the program
counter of the `submit()` call that brings task `t`; `worker[w]` and `task[w]`
the program counter and local of the thread in slot `w`; `manager`, `qsize`,
`live_num`, `busy_num`, `signals` those of the manager; `dtor` the destructor.

A section of code under `m_queue_mutex` or `m_pool_mutex` is one action.

* `SubmitEnter` is the unlocked shutdown test; `SubmitWait`, `SubmitPush` the
  locked part; `SpuriousSubmit` a return of `pthread_cond_wait` without signal.
* `WorkerWait`, `WorkerTake` (which pops the task *and* signals `m_full`),
  `WorkerRetire`, `WorkerShutdown` are the ways out of the locked loop of
  `work()`; `WorkerBusy`, `WorkerRun`, `WorkerIdle` the rest of it; `ThreadExit`
  clears the slot in `thread_exit_()`.
* `ManagerReadQueue`, `ManagerReadPool`, `ManagerAdd`, `ManagerShrink`,
  `ManagerSignal` are the five separate sections of one round of `manager()`.
* `DestroyFlag`, `DestroyBroadcast`, `DestroyJoin`, `DestroyPoll`,
  `DestroyFinish` are the steps of the destructor. The last destroys the mutexes
  and conditions; `dtor` is then "undefined" if a `submit()` sleeps on `m_full`,
  which nobody wakes, and "destroyed" otherwise. `Stands` is a pool before that.

Choices of the model:

* A thread is identified with its slot; a slot is reused after `ThreadExit`.
* `m_exit_threads` is read in `work()` under `m_queue_mutex` only; as just the
  holder of that mutex lowers it and the manager only sets it to a value of at
  least 1, the read and the decrement that follow are equal to one atomic step.
* `submit()` of a null task and `set_check_freq()` change no state here (the
  second only changes how long a sleep lasts; a sleep has no length in the
  model).
* `TaskPool` does not say what becomes of the tasks that are queued when the pool
  closes. The documents promise that they run, the code drops them (section 5);
  the refinement holds of either, and is no evidence that they run.
* Steps of a `submit()` on a destroyed pool are undefined behaviour of the
  caller and left out. `pthread_create` is assumed to succeed (listed as a
  hazard).

### 2.2 DbConnPool (`database-connection-pool/src/ConnectionPool.cpp`, `pooledConnGuard.cpp`)

`m_conn_queue`, `m_current_size`, `m_initialized`, `m_recycle_running` keep
their names; `m_mutex` records who holds it from step to step. `link[x]` is the
connection object at address `x`: deleted or never made, open, or closed by its
user. `pc[c]` is where client `c` is in `get_connection()`, `guard[c]` what its
guard variable holds. `recycler`, `left`, `quota` are the recycle thread, `app`
the thread that calls `init()` and `shutdown()`.

* `GetEnter` reads `m_initialized` before the lock; `GetTake`, `GetWait`,
  `GetExpand` are the branches of the locked part; `ExpandOne` one iteration of
  `expand_connections()`, `ExpandThrow` a driver that throws in it,
  `ExpandTake` its end.
* `WaitEnds` (timeout or spurious wakeup), `WakeTake`, `WakeEmpty`: the single
  `wait_for()` and what follows it.
* `ReturnValid`, `ReturnInvalid` are `return_connection()`, reached from
  `release()` and the guard's destructor; `Deliver` is the move assignment of
  the guard, which forgets the connection it held.
* `RecycleWake`, `RecycleStart`, `RecycleDrop`, `RecycleRotate`, `RecycleEnd`
  are the recycle thread; `Age` is time passing.
* `InitPool`, `StopRecycle`, `Shutdown` are the application.

Choices of the model:

* The two loops that keep `m_mutex` are several actions, so that what holds
  *during* them is checked too; every other locked section is one action.
* The scan refers to the front of the queue (`ConnectionPool.cpp:318`), pops it
  (`:333`) and pushes what the reference shows (`:334`). The entry has no
  destructor, so its bytes are still there unless it was the last of its block of
  the deque, whose memory is then given up. The model does not count blocks:
  each rotation either keeps the entry (`RecycleRotate`) or is undefined
  (`RecycleStale`, `recycler = "undefined"`). The model stops there with `m_mutex`
  taken. `OldestFirst` and `GetReturns` are about `Defined` behaviours, and the
  other invariants say nothing of what a program does after such a push either.
* `idle` in a queue entry stands for the comparison of its time stamp with
  `m_max_idle_time`; `Age` sets it for a prefix of the queue, as the stamps of
  the entries are ordered. The scan reads the clock once, so no entry ages
  while it runs.
* Each client has one guard variable. A second guard is a second client.
* `init()` fills the container without the lock. The model lets it run only
  when no client is inside the pool; a client that enters before is listed as a
  hazard (a data race).
* The moved-from guard that is destroyed at the end of the assignment has no
  connection; `release()` on it does nothing that the pool can see.
* `ServeSpec` is a pool in service: `init()` once, `shutdown()` never; the
  theorem `CountExact` is about it. `Spec` allows both at any moment, with
  clients inside `get_connection()` or with connections borrowed.
* `MCDbConnPool` adds one history variable, `strays`: how many connections were
  lent when `shutdown()` last set the count to 0. `SizeOffByStrays` says that
  this is exactly how far `m_current_size` is off ever after.
* Deleting the singleton (`destroy_instance()`) is not modelled: guards and
  waiters that outlive it are undefined behaviour.

### 2.3 RedisConnPool (`redis-connection-pool/src/RedisConnectionPool.cpp`, `RedisConnGuard.cpp`)

Like `DbConnPool`, with these differences of the code:

* The guard's move assignment releases what it held first, so `Deliver` leaves
  the old connection in `back[c]` and the client goes on to give it back: it
  then has two connections, one in its guard and one on its way.
* `Check` is the PING, which `return_connection()` sends without the lock, and
  which may fail whenever it likes. A healthy connection goes back in one locked
  step (`ReturnHealthy`). A broken one is deleted and `m_current_size--` is
  executed without the lock, so it is a read (`DeleteBack`, into `seen[c]`) and
  a write (`WriteSize`); if another thread changed the size in between, its
  updates are lost or this one is. The rest (`Refill`) is locked again.
* A creation may fail (`CreateFails`), and counts in `m_current_size` all the
  same; a client whose creations all failed waits (`ExpandWait`).
* `m_stats` holds the four members of `PoolStatistics` that describe the
  present. The running totals, the waiting times and the time stamps are left
  out: nothing in the pool depends on them. `m_stats_mutex` is taken for a few
  assignments inside a section of `m_mutex` and never the other way round, so it
  adds no interleaving that a property here could see, except to
  `get_statistics()`, which returns what `m_stats` is at that moment.
* The scan uses a popped entry too (`RedisConnectionPool.cpp:367`, `:382`, `:383`):
  `RecycleStale`, as in `DbConnPool`.
* `init()` cannot fail as a whole; any number of its creations can.
* `strays` in `MCRedisConnPool` plays the same part for `active_connections`.

### 2.4 StlThreadPool (`thread-pool/stl-implementation/src/threadPool.cpp`)

Submitters, workers and manager decide as in the pthread pool, so their actions
are those of `ThreadPool`, guarded by `Runs` (the process and the pool still
exist). New are:

* `deciding`: a worker that found the queue empty holds the mutex until it
  waits (`WorkerDecide`, `WorkerSleep`). The destructor passes through the mutex
  once (`PassMutex`) so that its `notify_all()` cannot fall into that gap.
* `teardown`: `SpawnThrows` is a `std::thread` constructor that throws in
  `manager()` ("aborted"). `DestroyMembers` destroys the members after the polling,
  the slots before the conditions: a slot whose worker has lowered
  `m_live_threads` but not yet detached ends the process ("terminated"), and
  otherwise a `submit()` asleep on `m_full` makes it undefined ("undefined"). Only
  "destroyed" is a destructor that returned.

### 2.5 StockRepository and Inventory (`demos/demo1`)

`sql[p]` is where call `p` is in `deduct_stock()`: `OpenTransaction`,
`SelectForUpdate`, `UpdateRow`, `Commit`, one statement each, with
`LockWaitTimeout`, `StatementError`, `CommitError` and `ConnectionLost` as the ways
to fail. An error leaves *without* `rollback()`: the connection goes back with
`inTx` set, perhaps the row locked and perhaps the UPDATE executed (`Leave`), and
the next `begin()` on it continues that transaction. `written[c]` is the row as the
open transaction of `c` has updated it, which a locking read on `c` sees
(`RowIn`); `pending[c]` is what it took in all. Whoever commits on `c` commits all
of it (`Committed`). `Recycle` is the pool replacing an idle connection, which
ends its transaction. `view` is the snapshot that a plain `SELECT` of an open
transaction repeats. `sold`, `lost` and `late` are histories of what was committed
and answered, committed without an answer, and committed by another call than the
one that had updated the row.

`ConnectThrows` is the exception that `get_connection()` lets out when MySQL
refuses a connect. It is called outside the `try` of `deduct_stock()` and
`get_stock()`, so the exception passes `deduct()` (`Escaped`: no result, nothing
given back to Redis), the test (`TestEscapes`) and the checker (`CheckEscapes`). In
a thread of the concurrent test nothing catches it and the process ends, which
`Crash` covers.

`at[p]` is where `p` is in `deduct()`: guard, script (`Eval`, `EvalError`),
repository, `Deducted`/`NotDeducted`, `rollback_redis()` (`TakeSecondGuard`,
`IncrBy`, `NextAttempt`), fallback and `Rebuild`, the detached thread. `held`
counts the Redis connections in a call's guards: the second is asked for while
the first is held. `StartTest`..`TestRow` are the concurrent test, `CheckRedis`,
`CheckRow` the consistency checker. Requests come in at any time, also while the
test runs: it is then "disturbed", goes on, and its readings are not kept, as they
may be anything (`TestWith`). A check made beside running calls is `CheckRacing`;
what it finds is not kept either. `Wire`, `InitializeRow`, `InitializeKey` are
`App::init()` and the bootstrap, `CloseRedis`, `CloseMySQL` the cleanup.

Choices of the model:

* One item; `causes` records why Redis may differ from MySQL since bootstrap:
  a restart, a key Redis lost, a script or an increment executed though its
  answer was lost, a commit executed though its answer was lost, a commit that
  made good what another call had abandoned, a fallback, a compensation given up,
  an exception that escaped `deduct()`. `CacheExact` says there is no ninth.
* Faults are counted together, up to `MaxFaults`, as are restarts.
* A pooled connection is any free one: the order of the queue is the business of
  `DbConnPool`. A pool with none free makes the caller time out.
* `prepare_statement()` deletes the old statement before it makes the new one;
  if that throws, a later call deletes it twice. What then happens is covered by
  the call going on or the process crashing.
* `get_stock_for_update()` and `update_stock()` have no caller and are left out.

### 2.6 RabbitChannels and RabbitClient (`rabbitMQ-pool`)

`mutex` is the one of the connection; only a reader (`consume_message()`) holds
it from one step to the next, so every other operation is one action. `link` and
`live` are the server's view, `mInit` and `mOpen` the client's, which goes stale:
`LoseLink`, `Reconnect`, `ReconnectFails` and `Refused` change one without the
other. `pool` and `guard` are `ChannelPool` and `ChannelGuard`.

The server (external) has one exchange, queue and binding; messages are numbered
as it accepts them. `unacked[c]` is what was delivered on channel `c`, `wire`
what was sent over the connection and not yet read, `gone` what the server has
forgotten. `pc[k]` is the consumer's loop: `LoopAcquire`, `BasicConsume`,
`BeginRead`, `Read`/`ReadNothing`, `Handle`, `Ack`, `Cancel`. A delivery that is
read is the next one of the *connection*, and its tag is acknowledged on the
reader's own channel, where it may stand for another message or for none.
`main` is the thread that sets up, tears down and ends the program. What a closed
channel had not acknowledged goes back to the head of the queue in the order of
its tags: `Requeued` is the set of the enumerations of those deliveries with
rising tags (there is one), and `Requeue` takes one of them.

Not in the model: `queue_purge()`, `basic_nack()`, `exchange_bind()`,
`exchange_unbind()`, `set_rpc_timeout()`, which no component or example uses;
several exchanges and queues.

### 2.7 Logger (`log`)

`log()` is `Log` (the test of level and limit, unlocked), `RotateFlush`,
`RotateReset`, `RotateClose`, `RotateRename`, `RotateReopen` (the statements of
`rotate()`, unlocked) and `AppendLine` (locked). A line is its number, level and
three lengths: what is counted, what was really written, what was asked for.
`WriteArg` is `write_arg()` with the size it is given. A backup is named by the
second of its rotation. Threads inside `rotate()` at once are a data race by the
language; the model takes the outcomes in which each statement acts as a whole,
and begins no new call afterwards. A file that cannot be renamed is removed, or is
kept when that fails too (`RotateRename`); the count starts from 0 either way.
`WriteFails` is a stream that takes nothing more, on a full disk for instance: what
is flushed into it is lost until the file is opened anew. `events` is a history of
what the five ways to lose a line need, and of files that were kept. Lines longer than the buffer leaves room for are not in the
instance: the program then logs bytes it never wrote (section 5). The sums over
the arguments and over the buffer (`Sums`, `Total`, `Written`) are recursive
functions on the positions of a sequence. `NoFile` stands for a file that does
not exist and is no set of lines; the prefix of a line is not empty and leaves
room in the buffer, as the timestamp and the place in the source do.

### 2.8 Communicator (`cross-domain-communication`)

`comm[s]` is the object in variable `s` of a program, `fdTable` and `socket` the
kernel's (external): numbers are reused, lowest first. `holds[s]` is a history:
the socket that `s` was made with. A failing call changes nothing and is no
action. Addresses are cut to the room of `sockaddr_un`, and told through the
`domain` of the object.

### 2.9 ErrorResult (`error`)

An error is a chain of links, each with its place and its text, inline or in a
block of the heap; a `Result` holds a value with one block, or a chain. A step
with undefined behaviour has the effect a build shows or ends the program.
`lost` is a history of the blocks an assignment left behind.

### 2.10 IniFile and App (`ini`, `demos/demo1/src/app.cpp`)

`Loaded(lines)[i]` is where `load()` is after `i` lines, each read by `ReadLine`, and
`Parsed` what it has kept in the end; `Written` says, without going through the
file line by line, which line counts for a key. An empty text has a name (`NoText`).
`App` (`AppInit`, `AppNext`, `AppSpec`; `Absent` is a file that does not open) reads
its configuration
(`LoadConfig`), starts three resources (a MySQL that refuses the connect ends the
process: `DatabaseRefused`), runs bootstrap and Drogon (external), and
cleans up; `TermSignal` is the handler, which cleans up too and does not ask
Drogon to quit. A field of the configuration that the file does not give is 0.

## 3. The runs

Passing runs, each explored completely:

| run | instance | shows |
|---|---|---|
| `pool_elastic` | 3 tasks, 1..2 threads, room for 2, grows by 2, fair | types; exact counters; task ownership; the destructor, called at any moment, polls to an end, and returns unless a `submit()` sleeps |
| `pool_fixed` | 3 tasks, 2 of 2 threads, room for 2, fair | refinement of `TaskPool`; no lost wakeup; every accepted task runs and every blocked `submit()` gets in |
| `stl_pool` | 2 tasks, 0..2 threads, room for 1, fair | the destructor polls to an end, and destroys the members properly unless a `submit()` sleeps or a thread is not detached; refinement of `TaskPool` |
| `db` | 2 clients, maximum 1, 3 addresses, restarts at any moment, fair | one owner per connection, order of the queue, the minimum, the count, refinement of `LendingPool`, every call returns |
| `redis` | 2 clients, 1..2 connections, failing creations, restarts at any moment, fair | the recycle thread, the statistics, refinement of `LoanPool`, every call returns |
| `inventory` | 2 callers, 2 MySQL and 2 Redis connections, stock 2, quantities 1 and 2, 2 attempts, 1 fault, 1 restart, fair | ledger, lock and transaction, cache, compensation, diagnostics, replies, every call answers |
| `rabbit` | main, 1 producer, 1 consumer, 2 channels, 3 messages, 2 starts, 2 faults, reads time out, fair | no message lost, `setup()` and `teardown()` truthful, refinement of `LoanPool`, a stopped consumer ends |
| `logger` | 2 threads, limit 1, buffer 12, prefix 2, 4 lines, 2 seconds, 1 fault | types; lines whole; none lost but in five ways; errors durable; the file bounded while rotations take it away |
| `communicator` | 3 variables, 3 descriptors, 3 sockets, unix, stream/dgram/raw, queue of 1 | each object holds its own socket and tells its address |
| `result` | 2 errors, 2 + 2 results, 4 blocks, chains of 2 | one owner per block |
| `app` | every file of up to 5 lines of 7 kinds, and none, fair | the configuration is what the file says; a program asked to quit shuts everything down |

One run finds a statement of the documents violated (a finding in
`PROJECT.json`): `rabbit_work`, two consumers on one connection with prefetch 1
and no fault, as in `examples/work/consumer.cpp`. README.md:347 of
`rabbitMQ-pool` says that a message is acknowledged after its callback; the run
acknowledges one that no handler has seen. It is also why `NoMessageLost` is
about one subscription in the life of a connection.

**Bounds.** Two slots and growth by two give a round of growth that the room
left cuts short, and a thread that retires and comes back; three tasks with room
for two block a submitter, also one on which the destructor closes. One
destructor meets every ordering of them. Two clients are
a holder and a waiter, and the holder is the newcomer that steals the connection
the waiter was notified of; one connection more than the maximum (three
addresses, maximum one) is a pool that is opened again over borrowed
connections. A creation needs a free address, which bounds the restarts.
`LowestSize` bounds the one counter that would otherwise grow without end: a
stale write of the Redis pool's `m_current_size` is explored if what it writes
is within `LowestSize..MaxSize`; outside, only the other outcome of the race is.
Two callers with stock two and quantities one and two compete for the last unit;
one fault and one restart are enough for each recorded cause and for a
transaction left open with or without its UPDATE, but not for two causes at
once. Three messages and two
starts give a redelivery behind a new message and a consumer that comes back to
deliveries of the one before it. Four lines with limit one make three rotations,
and lines gather in the buffer while `set_max_lines(0)` holds; two seconds make
both collision and none. Three descriptors are a listener, a client
and an accepted one, with a number given out again. Five lines of a file contain
a section opened again with a key on either side. `MaxChain`, `MaxQueue`,
`MaxSockets`, `MaxSent`, `MaxStarts`, `MaxFaults`, `MaxCrashes`, `MaxLogs` and
`MaxSeconds` are bounds of the instance and nothing else; in `Logger` no setter
is called once two lines or fewer are left to log.

`CHECK_DEADLOCK FALSE` is set in every run: the system may stop when its tasks are
done, its borrowers keep what they borrowed, or the process has ended. What must
not stop is stated as a leads-to property instead.

**Symmetry** is used only in runs without liveness: threads of the logger,
variables of the communicator, errors, results and blocks of `result`; they are
only compared for equality and chosen by `\E`.

**Fairness.** `ThreadPool!FairSpec`: weak fairness of each thread the pool owns,
of a `submit()` that has entered, and of a destructor that has begun: the
operating system keeps scheduling a thread that can run, and `run()` returns.
`StlFairSpec` is the same without the submitters. `Fairness` of the connection
pools: weak fairness of the end of a wait (it has a timeout) and of the recycle
thread; strong fairness of a client inside a call, because it needs `m_mutex`
and others take it in between: `std::mutex` is assumed not to starve one thread
for ever. `Inventory`: weak fairness of each call of `deduct()`; a wait for a
connection ends by its timeout, a wait for the row lock by InnoDB's.
`RabbitClient`: threads that can run do. `App`: `main()` goes on, and
`app.run()` returns once Drogon was asked to quit, strongly, as signals may come
in between. Nothing is assumed of the environment: tasks need not be submitted,
a client need not give its connection back, no signal need come, messages need
not arrive.

## 4. What is proved

`tlapm` checks every proof to the last leaf. The theorems hold for every value
of the constants that satisfies the `ASSUME` of the module: finitely many slots,
addresses, clients or threads, minimum at most maximum, and null values that are
not real ones. Each inductive invariant named below was first checked by TLC as an
invariant of the run of its module.

| theorem | property |
|---|---|
| `ThreadPoolProofs!TypeCorrect` | `TypeOK` |
| `ThreadPoolProofs!CountersCorrect` | `CountersExact` |
| `ThreadPoolProofs!TasksNeverLost`, `StlKeepsTasks` | `TaskOwnership`, of either pool |
| `ThreadPoolProofs!ImplementsPromise` | `ImplementsTaskPool` |
| `ThreadPoolProofs!FixedPoolLosesNoWakeup` | `NoLostWakeup`, for min = max |
| `ThreadPoolProofs!OnlyShrinkingLosesWakeups`, `StlKeepsWakeups` | `NoLostWakeup`, of either pool of any size, while nobody is asked to retire |
| `ThreadPoolProofs!NothingRunsAfter`, `NothingRunsAfterStl` | after the polling of the destructor no worker or manager of either pool moves and no counter changes (action property, no run of its own) |
| `ThreadPoolProofs!StlImplementsPromise` | `StlImplementsTaskPool` |
| `ThreadPoolProofs!NobodySleepsThrough` | no worker of the STL pool sleeps after the destructor's notification (no run of its own) |
| `DbConnPoolProofs!TypeCorrect`, `LoopsLocked` | `TypeOK`, `LockedLoops` (no run of their own) |
| `DbConnPoolProofs!OneOwner` | `SoleOwner` |
| `DbConnPoolProofs!ImplementsLending` | `ImplementsLendingPool` |
| `DbConnPoolProofs!SparesMin` | `RecycleSparesMin` |
| `DbConnPoolProofs!FrontIsOldest` | `OldestFirst`, until a scan reads reused memory |
| `DbConnPoolProofs!CountExact` | `SizeExact`, of a pool in service (no run of its own) |
| `DbConnPoolProofs!CountOverRestarts` | `SizeOffByStrays` |
| `RedisConnPoolProofs!TypeCorrect` | `TypeOK` (no run of its own) |
| `RedisConnPoolProofs!ImplementsLoans` | `ImplementsLoanPool` |
| `RedisConnPoolProofs!RecyclesRight` | `RecycleExact`, until a scan reads reused memory |
| `RedisConnPoolProofs!StatsCorrect` | `StatsExact` |
| `InventoryProofs!TypeCorrect` | `TypeOK` (no run of its own) |
| `InventoryProofs!LedgerKept`, `LockReachable` | `Ledger`, `LockInTransaction` |
| `InventoryProofs!CacheAgrees`, `Undersells` | `CacheExact`, `CompensationUndersells` |
| `InventoryProofs!RepliesAreSales`, `Diagnostics` | `RepliesTrue`, `ReportsTrue` |
| `InventoryProofs!NeverOversold` | no more is sold than there was (no run of its own) |
| `InventoryProofs!RowChangesUnderLock` | the row changes at a COMMIT by the owner of its lock only, by what the transaction took in all (action property, no run of its own) |
| `InventoryProofs!ConfigurationRead` | `ReadsWhatIsWritten` |
| `InventoryProofs!QuitEndsDown` | the safety half of `QuitShutsDown` (no run of its own) |
| `RabbitProofs!GuardsOwn`, `TagsName` | the invariants under the next three (no run of their own) |
| `RabbitProofs!ImplementsLoans` | `ImplementsLoanPool` |
| `RabbitProofs!TellsTruly` | `ToldTruly` |
| `RabbitProofs!LosesNothing` | `NoMessageLost` |
| `RabbitProofs!MessagesConserved` | while the queue exists every accepted message is ready, unacknowledged or acknowledged, and acknowledged ones never come back (no run of its own) |
| `RabbitProofs!AtLeastOnce` | a message no handler was called with is still the server's to deliver (no run of its own) |
| `RabbitProofs!HandledInTurn` | one subscription is handled in the order of acceptance, without a gap or a repetition (no run of its own) |
| `LoggerProofs!LoggerTyped`, `LoggedWhole` | `TypeOK`, `LinesWhole` |
| `LoggerProofs!NothingLost`, `ErrorsStay`, `StaysBounded` | `NoLineLost`, `ErrorsDurable`, `FileBounded` |
| `LoggerProofs!StoredOnce` | no line is in two places of buffer, file and backups (no run of its own) |
| `CommunicatorProofs!HoldsAlways` | `HoldsItsSocket` |
| `CommunicatorProofs!OneCommunicatorEach` | two communicators never reach one socket (no run of its own) |
| `CommunicatorProofs!NeverGivenAway` | no step gives a descriptor in use to another socket, or reopens a closed one (action property, no run of its own) |
| `ErrorResultProofs!BooksBalance` | the invariant under the next (no run of its own) |
| `ErrorResultProofs!OwnedOnce` | `OneOwner` |

**ThreadPool.** The counters need a typed state only: the proof follows how a
step changes the set `Live` or `Busy` and uses the cardinality lemmas for one
element added or removed; the growth step adds a whole set, whose size the
manager computed under the same lock. `TaskOwnership` is inductive with the
types. The refinement uses both: that `Accept` finds its task unknown is
`Accounted`, that a finished task was running is `HoldsTask`. `NoLostWakeup` is
proved from the type and from the fact that with min = max the manager never
asks a thread to retire (`m_exit_threads = 0`); the pigeonhole lies in the
count of woken workers. `OnlyShrinkingLosesWakeups` takes just that as its
hypothesis, so in a pool that grows retirement is the one cause of a lost wakeup.
`NothingRunsAfter` needs `EndInv`: a worker or manager that is past its last use of a
member stays past it, and with `m_live_threads = 0` `CountersExact` leaves no worker
that is not. What can still move are callers left in `submit()`, and the slot that
`thread_exit_()` clears after the worker was counted out. It holds on the
undefined end too, as what it says of workers and counters does not need `m_full`.

**StlThreadPool.** Every step of it is a step of the pthread pool, or changes none of
that pool's variables (`WorkerDecide`, `PassMutex`, `SpawnThrows`, `DestroyMembers`),
or is `WorkerSleep`, which puts a worker to sleep and touches no task: its
invariant and refinement are those of `ThreadPool`. `NobodySleepsThrough` follows the
destructor (`Passed`): after `RaiseFlag` only a worker that had already decided to
wait may go to sleep, and `PassMutex` goes through only when no such worker is left.
`StlKeepsWakeups` adds that a worker that has decided found the queue empty and that
it has been empty since (`DecidedOnEmpty`), as it keeps the mutex.

**DbConnPool.** `Typed` is `TypeOK`, `LockedLoops` and `ExpandsSome`: a client
that expands began with at least one connection to make, or has made some, so
the queue is not empty when it takes the front. Without it the type of the
queue is not inductive. `Sole` adds `SoleOwner`, and carries the refinement.
`RecycleSparesMin` and `OldestFirst` follow from `Typed`, the second with the
lemma that the rotations of one scan keep the entries in order (an entry that
is idle is dropped until the quota is spent, so what is rotated is not idle).
`SizeExact` needs `Counted`: at most one client creates at a time
(`OneCreates`), and nothing is open before `init()` (`Unused`). Over restarts the
same count holds with `strays` added to it.

**RedisConnPool.** Two layers. `Typed`: the types, that a loop which keeps
`m_mutex` is alone (`LockedLoops`), and that a client has a connection on its way back
exactly while it is in `return_connection()` (`Handing`). `Owned`: no entry twice in the queue (`NoRepeat`), a
connection in one hand only (`TwoHands`; a client has two, its guard and what it
gives back), and everything held is open (`Held`). From it each step is mapped to
one step of `LoanPool` or to none. `RecycleExact` adds that idle entries are in
front during a scan, `StatsExact` that each step changes the counters by as much as
the sets they count.

**Inventory.** Three layers again, one per party. `RepoInv` is the repository's:
the lock, the transaction flag, what the owner of the lock has read and what its
transaction has updated agree with where its call is, an abandoned UPDATE being in
the transaction that owns the lock, with `written` and `pending` together the
committed row; `LockInTransaction` and `Ledger` come from it. `ServiceInv`
says which Redis connections are held and what each call has reserved or taken.
The last layer adds the sums: the key, the row, and the reservations and sales under
way differ by nothing (`Drift`) unless a cause is recorded. A sum over callers is
the number of pairs of a caller and a unit, which is why the set of callers must be
finite and why adding or dropping one caller's share is a fact about cardinalities.
`ReportsTrue` needs what each reading of the test and of the checker was true of
when it was made (`TestReads`, `CheckReads`), and that a request which falls into
the test takes it out of the states the property is about. `NeverOversold` and
`RowChangesUnderLock` follow from the same invariant: `Ledger` with nothing sold before
there is a row (`NothingYet`), and the lock with what its owner has read and
updated.

**App and IniFile.** That `Loaded(lines)` is a function with the recursion it is
written with is proved by the least-number principle; then `ReadSoFar`, a statement
about the first `i` lines, is carried from one line to the next: a section is there
exactly if one of these lines opens it, and its keys have the last values given since
it was last opened. For `i` the whole file that is `Written`. The process itself
needs an invariant about what `cleanup_resources()` has shut down (`ShutdownInv`).

**Rabbit.** `Places` says of every channel that it is in the queue, in one guard or
not yet made, `Uses` that a guard is full exactly where the code uses it; that is
`OneOwner` of the pool, and every step is a loan, a return or nothing.
`ToldTruly` follows what `setup()` has done at each of its stages (`Stages`).
`NoMessageLost` needs where every accepted message is (`Contents`), that a tag names
one message of its channel for good (`Tagged`), that what a reader is about to
acknowledge was handled (`HandledFirst`), and that with one subscription nobody
else's delivery is read (`OneReader`).
`MessagesConserved` is about the server's side and needs no bound on subscriptions:
closing channels moves their unacknowledged messages, each once, to the front of the
queue (`RequeueMoves`), and a message is in the queue at most once, and never there
and in hand or forgotten (`Apart`); before the queue exists nothing is accepted
(`Bound`). With `NoMessageLost` that gives `AtLeastOnce`. `HandledInTurn` counts what
was read: message `n` is the last read, the wire holds the next ones in order and the
queue those after it (`Turn`). Nothing may be requeued in the middle of this, which
holds because only the channel with the subscription has deliveries (`OneChannel`),
and when that channel closes the subscription is over.

**Logger.** `LogInv` is the types with five parts. `LinesWhole` is an invariant of
what `log()` computed, and rests on lemmas about the recursive functions: that
`append_args()` writes the sum of the lengths, if they fit. `Calm`: as long as no
event is recorded at most one thread is inside `rotate()`, and buffer, stream and
file stand to each other as its place in it says. `Numbers`: the line in a
thread's hands is in no file yet. `Kept` is the account of the lines, `ErrorsDurable`
in it. `Bounded`: the counted lines and the threads about to append are together
fewer than the limit and the number of threads, once no file was kept. `StoredOnce` is inductive beside these
with `Fresh`: the line in a thread's hands is in no file or backup either, so that what
it appends is new wherever it ends; `Calm` says when the buffer may be in the file
already.

**Communicator.** `Tables` and `Exclusive` say that valid objects and open
descriptors correspond one to one, `Rows` and `Linked` that the descriptor of an
object refers to the socket it was made with and that peers know each other's names,
`Unique` that a bound name is one socket's. That the kernel can give out the lowest
free descriptor is the least-number principle.
`NeverGivenAway` needs no more: a new socket takes a number that is free, and the
variable that is closed or assigned to was the only one with its number.

**ErrorResult.** Two levels. Inside one chain no two fields name the same block, and
the first link is no block (`Neat`): lemmas say so of a copy, of what a move leaves,
and of a chain put behind an object. Between the variables, the sets of blocks they
hold are apart and make up the heap without what was lost (`Books`); every step is one
of five transfers of such sets. That there is exactly one place in exactly one
variable follows from both.

**Recursion and sums.** What a recursive function computes is proved here from the
least-number principle (`LeastNumber`, from well-foundedness of the naturals) and
not by the library's induction theorem, which takes an operator as a parameter.

**Only model-checked.** Liveness (`SubmittedTaskRuns`, `BlockedSubmitProceeds`,
`DestructorReturns`, `StlDestructorReturns`, `GetReturns`, `Answered`, `StopJoins`,
`QuitShutsDown`): the prover has no rules for fairness and `ENABLED`. Every other
property of a passing run is safety or a refinement and is proved.

## 5. Where code and documents disagree

Besides the finding of section 3, reading the code for these models showed
disagreements that need no run to see, or whose run is not kept:

* Thread pools. `thread-pool/README.md:50` and `:118` promise that all submitted
  tasks run when the pool is closed; `work()` leaves as soon as the flag is set
  (`threadPool.cpp:220`) and the queue is dropped. `SubmittedTaskRuns` is
  therefore about a pool that is not shut down first. The destructor destroys
  `m_full` under a `submit()` that sleeps on it and that it never wakes
  (`threadPool.cpp:61`; in the STL pool with the members, `threadPool.cpp:65`),
  which is undefined. `:51` promises that the destructor destroys all threads;
  a worker lowers `m_live_threads` before its last use of the pool (`:223`), and in
  the STL pool such a slot is a joinable `std::thread`
  (`thread-pool/stl-implementation/README.md:36`), whose destruction ends the process
  where `:38` has the destructor return. `tests/test_threadpool.cpp:277`
  expects at least `min` live threads; two rounds of the manager can retire more
  (`:174`), and as `live_num` may be old by then the pool can be left with fewer
  than `min`, even none, until the manager adds again. `:284` expects every task of an elastic pool to run; a worker woken
  for a task may retire instead (`:207`), so `SubmittedTaskRuns` is checked for a
  pool of fixed size.
* Both connection pools. The recycle scan pushes an entry through a reference that
  `pop()` has invalidated (`ConnectionPool.cpp:318`, `RedisConnectionPool.cpp:367`).
  With libstdc++ the bytes are still there, except when the entry was the last of
  its block of the deque and the block was freed: what goes back is then
  undefined.
* MySQL pool. `README.md:264` says guards leak no connection; move assignment
  drops the one the guard held (`pooledConnGuard.cpp:29`). Connections lent
  across `shutdown()` are never counted again.
* Redis pool. `RedisConnectionPool.h:6` promises expansion below the maximum;
  failed creations count too (`RedisConnectionPool.cpp:294`), so the pool can
  stay dry. A branch of `get_connection()` called unreachable is reached by a
  spurious wakeup. `total_connections` is not updated for a broken connection.
* Inventory. `get_connection()` is called outside the `try` in
  `inventory_repository.cpp:51` and `:100`; a MySQL that refuses the connect
  throws through `deduct()`, and the quantity taken from Redis is not given back,
  although `inventory_service.cpp:131` compensates every other failure. An
  error after `execute_update()` leaves the UPDATE in an open transaction, and
  the next call that is lent the connection commits it (`:91`). `plan.md:62` calls the bootstrap's overwriting of the key a means
  of consistency; after a restart MySQL keeps its row and Redis is set to the
  initial stock.
* RabbitMQ. `README.md:367` calls the consumer thread safe; a second `start()`
  without `join()` after the loop ended by itself ends the process
  (`consumer.cpp:81`). `:371` asks for a new `ChannelPool` after `reconnect()`;
  nothing stops the use of the old one.
* Log. `README.md:3` says thread safe; limit and rotation are outside the lock.
  `README.md:92` and `log.h:24` say a WARNING is flushed at once; the code
  flushes from ERROR on. `rotate()` says that it removed the file without looking
  whether `remove()` did (`log.cpp:220`), and counts from 0; a file that stays
  grows past its limit. `flush_buffer()` does not look at the stream (`:190`). A line longer than the buffer less twice the prefix
  counts characters that were not written, and logs what the stack held.
* Ini. A section that appears twice loses the keys of its first appearance.
* Error. `result.h:47` says a result holds a value or an error; assignments
  across states destroy the wrong one. `EF_CHECK` lacks a semicolon
  (`macros.h:65`), and the const `unwrap()` does not compile when used.
* Communicator. `recvFrom()` assigns through `Address&`, which copies nothing: the
  caller is not told the sender (`communicator.h:123`).

## 6. What is not modelled

* `TaskDispatcher` forwards to `submit()`, `simple_logger` prints.
* Deleting a singleton (`ConnectionPool::destroy_instance()`) under its users,
  and `init()` of a connection pool while clients enter it: undefined behaviour
  with no outcome to enumerate.
* A `pthread_create` that fails, and tasks that submit tasks.
* What a program does after undefined behaviour: the models stop at it
  ("undefined"), and the properties that could be broken by it name it.
* What the test and the checker report while other requests run, as nothing can be
  said of it.
* HTTP routing, JSON, validation of requests; the layout of messages, error
  texts and timestamps; console output; statements and result sets of the
  drivers; `setSockOpt()`; lengths of payloads.
* Running totals and waiting times of the statistics.
* Examples, tests, benchmarks and build files.

## 7. Plan

Done: every component above has its module, its run and the mutants of its
properties; every safety property of a run has its theorem, as have all the
refinements. What is left is a second item in `Inventory`, whose rows and keys do not
meet.
