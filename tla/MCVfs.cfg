CONSTANTS
  a = a
  b = b
  Names = {a, b}
  Dentries = {1, 2, 3, 4, 5}
  Devices = {}
  Mounts = {1, 2, 3}
  MaxPath = 2
  MaxTaken = 2
SPECIFICATION Spec
SYMMETRY NamePermutations
INVARIANTS
  RefsExact
  NothingDangles
  WalkFollowsMounts
  WalkStaysInItsMount
CHECK_DEADLOCK FALSE
