CONSTANTS
  Fanout = 2
  Roots = 4
  U64 = 64
  PhysPages = 8
  Virts = {7, 8, 11, 20, 50, 63}
  Physes = {0, 4}
  Sizes = {0, 2, 5}
  MaxAreas = 2
SPECIFICATION Spec
INVARIANTS
  TranslatesTheAreas
  SecondPassIsPrepared
