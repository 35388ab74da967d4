CONSTANTS
  U16 = 8
  U32 = 32
  EntryMask = 16
  ReservedMin = 14
  Fat12Max = 2
  Fat16Max = 5
  EntrySize = 2
  MinSector = 4
  MaxSector = 8
  SectorSizes = {2, 4, 8, 16}
  BootSectors <- MCBootSectors
  DirSectors = {5, 6}
  Inodes <- MCInodes
  MaxMounts = 2
SPECIFICATION Spec
INVARIANTS
  HeldExactly
  ClustersOnVolume
  AnsweredIsWritten
PROPERTY OnlyOwnEntry
CHECK_DEADLOCK FALSE
