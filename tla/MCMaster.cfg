SPECIFICATION Spec
CONSTANTS
  h1 = h1
  h2 = h2
  Endpoints <- MCEndpoints
  Leavers <- MCEndpoints
  ListTimeout = 2
  Refresh = 1
  MaxTime = 7
INVARIANTS
  ListedOnce
  ListMatchesRecords
  AnswersAreFresh
CHECK_DEADLOCK FALSE
