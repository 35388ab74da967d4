CONSTANTS
  Lines = {0, 1, 7, 12}
  MaxMs = 2
SPECIFICATION Spec
INVARIANTS
  AllAcknowledged
  LinesReopen
PROPERTIES
  RegistrationUndisturbed
  LinesAreServed
