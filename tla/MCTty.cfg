CONSTANTS
  U32 = 16
  U64 = 256
  EarlyCalls <- MCEarlyCalls
  Rows = 2
  Cols = 3
  CharSize = 2
  Height = 5
  Messages <- MCMessages
  HandlerMessage <- MCHandlerMessage
  PanicMessage <- MCPanicMessage
  NL = "nl"
  CR = "cr"
  MaxChars = 8
  MaxInterrupts = 2
SPECIFICATION TtySpec
INVARIANTS
  ScreenShowsText
  CursorLostOnlyAtFullRow
  PanicIsShown
  TextIsMeant
CHECK_DEADLOCK FALSE
