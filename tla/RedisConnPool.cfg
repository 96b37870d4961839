\* Two clients compete for two connections, some of which cannot be made, of a pool that
\* is shut down and started again at any moment, under fair scheduling.
SPECIFICATION MCFairSpec
CONSTANTS
  Clients = {c1, c2}
  Conns = {x1, x2}
  MinSize = 1
  MaxSize = 2
  OpNum = 2
  LowestSize = 0
  Recycler = Recycler
  NoConn = NoConn
  NoOwner = NoOwner
INVARIANTS RecycleExact StatsExact
PROPERTIES ImplementsLoanPool GetReturns
CHECK_DEADLOCK FALSE
