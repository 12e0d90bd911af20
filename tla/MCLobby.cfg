CONSTANTS
  a1 = a1
  a2 = a2
  a3 = a3
  Peers <- MCPeers
  Cost <- MCCost
  MoveOrders <- MCNoOrders
  Size = 4
  MaxPlayers = 3
  MaxArmy = 4
  StartDelay = 3
  MaxJoins = 4
  MaxHexbank = 0
  MaxTries = 0
SYMMETRY PeerSymmetry
SPECIFICATION CountdownSpec
INVARIANTS
  TypeOK
  AddressOwnership
  SurvivorRemains
  DefeatFindsKing
  CornersShared
PROPERTIES
  MatchSafety
  StartsAfterCountdown
