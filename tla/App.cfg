\* Every file of up to five lines of seven kinds, and none.
SPECIFICATION AppFairSpec
CONSTANTS
  Key <- TwoKeys
  Number <- OneNumber
  Files <- SomeFiles
  Absent <- NoFile
INVARIANT ReadsWhatIsWritten
PROPERTY QuitShutsDown
CHECK_DEADLOCK FALSE
