CONSTANTS
  a = a
  b = b
  Names = {a, b}
  Dentries = {1, 2, 3, 4, 5}
  Devices = {1}
  Mounts = {1, 2, 3}
  MaxPath = 2
  MaxTaken = 2
SPECIFICATION Spec
SYMMETRY NamePermutations
INVARIANT MountedRootsLive
CHECK_DEADLOCK FALSE
