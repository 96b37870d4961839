\* Two clients compete for the one connection of a pool that is shut down and started
\* again at any moment, under fair scheduling.  Three addresses bound the run.
SPECIFICATION MCFairSpec
CONSTANTS
  Clients = {c1, c2}
  Conns = {x1, x2, x3}
  MinSize = 1
  MaxSize = 1
  OpNum = 2
  Recycler = Recycler
  NoConn = NoConn
  NoOwner = NoOwner
INVARIANTS SoleOwner OldestFirst RecycleSparesMin SizeOffByStrays
PROPERTIES ImplementsLendingPool GetReturns
CHECK_DEADLOCK FALSE
