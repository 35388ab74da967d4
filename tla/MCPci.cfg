CONSTANTS
  other = other
  NoTable = other
  Tables <- MCTables
  Slots <- MCSlots
  Uppers = {2}
  ExtBlocks = {1}
  MaxDevices = 2
  MaxFunctions = 4
  MaxRefused = 1
SPECIFICATION PciSpec
INVARIANTS
  FunctionsZeroListed
  ControllerEnabled
CHECK_DEADLOCK FALSE
