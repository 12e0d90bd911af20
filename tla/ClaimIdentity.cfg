CONSTANTS
  a1 = a1
  a2 = a2
  Peers <- MCPeers
  Cost <- MCNoCost
  MoveOrders <- MCNoOrders
  Size = 4
  MaxPlayers = 2
  MaxArmy = 4
  StartDelay = 0
  MaxJoins = 3
  MaxHexbank = 0
  MaxTries = 6
  MaxDials = 3
  MaxKeys = 2
  MaxInputs = 5
SYMMETRY PeerSymmetry
SPECIFICATION SessionSpec
INVARIANTS
  OwnIdentity
