SPECIFICATION Spec
CONSTANTS
  Types <- MCTypes
  MaxFiles = 3
  Devices = 2
  FileNum = 4
  IndexBlock = 2
  Uninitialised <- MCUninitialised
  MaxFaults = 2
  FREE = FREE
  Exposed = {}
INVARIANTS
  TypeOK
  CountsMatchDisk
  CallsSucceed
PROPERTIES
  KeepsPlaces
CHECK_DEADLOCK FALSE
