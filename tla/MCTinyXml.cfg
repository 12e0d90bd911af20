CONSTANTS
  Files <- MCFiles
SPECIFICATION Spec
INVARIANTS
  RoundTrip
PROPERTIES
  ReadsAllOrNothing
CHECK_DEADLOCK FALSE
