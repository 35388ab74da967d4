CONSTANTS
  small = small
  large = large
  f1 = f1
  f2 = f2
  Classes <- MCClasses
  ObjSize <- MCObjSize
  FramePool <- MCFrames
  FrameSize = 12
  Header = 1
  MaxCorrupt = 2
  MaxRefused = 1
SPECIFICATION Spec
SYMMETRY MCSymmetry
INVARIANTS
  NoSharing
  FramesHeldExactlyWhileUsed
  CountsAgree
  OnlySkippedObjectsAreLost
PROPERTIES
  AbstractSpec
