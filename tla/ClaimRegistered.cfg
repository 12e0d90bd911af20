SPECIFICATION Spec
CONSTANTS
  h1 = h1
  h2 = h2
  Endpoints <- MCEndpoints
  Leavers = {}
  ListTimeout = 2
  Refresh = 1
  MaxTime = 7
PROPERTY
  RegisteredIsListed
CHECK_DEADLOCK FALSE
