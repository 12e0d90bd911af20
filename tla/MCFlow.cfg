SPECIFICATION Spec
CONSTANTS
  DefaultRoundTripTime = 8
  TimeoutLimit = 2
  TimeoutMinimum = 32
  TimeoutMaximum = 64
  PingInterval = 8
  Width = 128
  Turn = 8
  Lifetime = 96
  Start = 100
  MaxTime = 260
  MaxSends = 1
  MaxAnswers = 2
INVARIANTS
  NotGivenUpEarly
  NobodyWaitsForEver
  IdleIsProbed
  MeasuredRight
CHECK_DEADLOCK FALSE
