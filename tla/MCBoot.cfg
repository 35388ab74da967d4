CONSTANTS
  PageSize = 2
  MaxRegions = 4
  KernelStart <- MCKernelStart
  KernelEnd <- MCKernelEnd
  DescriptorSizes = {1, 3}
  RamPages = 11
  Owners <- MCOwners
  Segments <- MCSegments
  PerPage = 4
  Screen = {12}
  MaxFirmware = 1
SPECIFICATION Spec
INVARIANTS
  CleanKeepsMap
  HandoverSound
  ReleasesOnlyFreeMemory
  ReleasesAllMemory
CHECK_DEADLOCK FALSE
