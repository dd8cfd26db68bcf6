SPECIFICATION Spec
CONSTANTS
  Frames <- MCFrames
  NULL = NULL
  MaxID = 3
  PageRecords = 2
  CachePages = 0
  StepEnlarge = 1
  MaxVersion = 1
  MaxQueue = 2
  MaxBehind = 2
  MaxFaults = 3
  Exposed = {}
INVARIANTS
  TypeOK
  CacheConsistent
  PackagesMatchBlocks
  RestartFindsLastID
PROPERTIES
  ImplementsPackedTable
VIEW MCView
CHECK_DEADLOCK FALSE
