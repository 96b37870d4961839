\* A pool whose size is fixed (min = max = 2), three submit() calls, room for two, under fair scheduling.
SPECIFICATION FairSpec
CONSTANTS
  Tasks = {t1, t2, t3}
  Workers = {w1, w2}
  MinThreads = 2
  OpNum = 1
  Capacity = 2
  NoTask = NoTask
INVARIANT NoLostWakeup
PROPERTIES ImplementsTaskPool SubmittedTaskRuns BlockedSubmitProceeds
CHECK_DEADLOCK FALSE
