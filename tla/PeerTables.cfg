SPECIFICATION Spec
CONSTANTS
  Frames <- MCFrames
  NULL = NULL
  MaxID = 3
  PageRecords = 2
  CachePages = 0
  StepEnlarge = 1
  Values <- MCValues
  MaxChanges = 2
  MaxFaults = 2
  Exposed = {}
INVARIANTS
  TypeOK
  ReadsOwnChanges
  MarkedIsListed
  LogRestores
VIEW MCView
CHECK_DEADLOCK FALSE
