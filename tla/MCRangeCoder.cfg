SPECIFICATION Spec
CONSTANTS
  Values = 4
  Base = 5
  CountLimit = 7
  Slack = 8
  MaxSymbols = 12
  MaxLength = 7
INVARIANTS
  RoundTrip
  WithinArray
CHECK_DEADLOCK FALSE
