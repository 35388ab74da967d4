CONSTANTS
  PortCount = 2
  LinkUp = {2}
  SataDrives = {2}
  Lba48 = {2}
  SectorCount = 4
  MaxSectors = 2
  Lba28Limit = 2
  TimerRuns = TRUE
  Timeout = 2
  Lbas = {1, 5}
  Counts = {0, 1, 3}
  U64 = 8
SPECIFICATION Spec
INVARIANTS
  DmaMemoryIsHeld
  PublishedOnlyReady
  ReadsDeliver
PROPERTIES
  RequestReturns
CHECK_DEADLOCK FALSE
