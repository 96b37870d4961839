\* An elastic pool of one or two threads, three submit() calls, room for two, destroyed at any moment, under fair scheduling.
SPECIFICATION FairSpec
CONSTANTS
  Tasks = {t1, t2, t3}
  Workers = {w1, w2}
  MinThreads = 1
  OpNum = 2
  Capacity = 2
  NoTask = NoTask
INVARIANTS TypeOK CountersExact TaskOwnership
PROPERTY DestructorReturns
CHECK_DEADLOCK FALSE
