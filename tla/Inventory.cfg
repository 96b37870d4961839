\* Two callers, two connections of each pool, one fault of any kind and one restart.
SPECIFICATION FairSpec
CONSTANTS
  Callers = {p1, p2}
  DbConns = {c1, c2}
  NoConn = NoConn
  NoView = NoView
  NoRow = NoRow
  InitStock = 2
  Quantities = {1, 2}
  RedisConns = 2
  RetryTimes = 2
  Missing = Missing
  NoValue = NoValue
  MaxFaults = 1
  MaxCrashes = 1
INVARIANTS
  Ledger
  LockInTransaction
  CacheExact
  CompensationUndersells
  ReportsTrue
  RepliesTrue
PROPERTY Answered
CHECK_DEADLOCK FALSE
