\* Two threads, files of one line, a buffer of twelve characters, two seconds, one fault.
SPECIFICATION Spec
CONSTANTS
  Threads = {t1, t2}
  Limit = 1
  BufSize = 12
  Prefix = 2
  Messages <- SomeMessages
  NoFile = NoFile
  MaxLogs = 4
  MaxSeconds = 1
  MaxFaults = 1
SYMMETRY ThreadSymmetry
INVARIANTS
  TypeOK
  LinesWhole
  NoLineLost
  ErrorsDurable
  FileBounded
CHECK_DEADLOCK FALSE
