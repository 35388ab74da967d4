CONSTANTS
  Lines = {0, 1}
  MaxMs = 2
SPECIFICATION Spec
PROPERTIES
  ClockRuns
