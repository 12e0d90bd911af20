CONSTANTS
  a1 = a1
  a2 = a2
  Peers <- MCPeers
  Cost <- MCNoCost
  MoveOrders <- MCNoOrders
  Size = 4
  MaxPlayers = 2
  MaxArmy = 4
  StartDelay = 1
  MaxJoins = 3
  MaxHexbank = 0
  MaxTries = 6
  MaxDials = 2
  MaxKeys = 2
  MaxInputs = 4
SPECIFICATION FairSession
PROPERTIES
  StartReachesClients
  MatchDeclared
  ReadyLeadsToStart
