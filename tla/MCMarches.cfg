CONSTANTS
  a1 = a1
  a2 = a2
  Peers <- MCPeers
  Cost <- MCCost
  MoveOrders <- MCOrders
  Size = 4
  MaxPlayers = 2
  MaxArmy = 5
  StartDelay = 0
  MaxJoins = 2
  MaxHexbank = 1
  MaxTries = 5
  Behind <- MCBehind
  MaxDown = 1
SPECIFICATION GameSpec
INVARIANTS
  TilesReferToArmies
  PositionsFollow
PROPERTIES
  StaysInSight
