\* An elastic STL pool of at most two threads, room for one task, destroyed at any moment.
SPECIFICATION StlFairSpec
CONSTANTS
  Tasks = {t1, t2}
  Workers = {w1, w2}
  MinThreads = 0
  OpNum = 2
  Capacity = 1
  NoTask = NoTask
PROPERTIES StlDestructorReturns StlImplementsTaskPool
CHECK_DEADLOCK FALSE
