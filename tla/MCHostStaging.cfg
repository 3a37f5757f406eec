CONSTANTS
  Workers = {w1}
  Caller = host
  Copies = 2
  MaxChunks = 3
  Sources <- MCSources
  Blank = "blank"
  IoThreads = {i1, i2}
  Requests = 2
  MaxJobs = 4
  Constants <- MCConstants
SPECIFICATION StagingSpec
INVARIANTS
  CopyComplete
  NoLateWrites
  StagedHolds
  DirectReadComplete
  NoJobOutlivesItsRead
PROPERTIES
  StagingEnds
  ThreadsJoin
CHECK_DEADLOCK FALSE
