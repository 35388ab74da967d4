CONSTANTS
  PageCount <- MCPageCount
  MaxOrder <- MCMaxOrder
  Ram <- MCRam
  Kernel <- MCKernel
SPECIFICATION Spec
INVARIANTS
  BlocksDisjoint
  NoPageLost
  ListsAgree
  CountersExact
  FreeChecksNeverFire
PROPERTIES
  ReleaseCoalesces
  AbstractSpec
CHECK_DEADLOCK FALSE
