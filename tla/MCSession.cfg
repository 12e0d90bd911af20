CONSTANTS
  a1 = a1
  a2 = a2
  Peers <- MCPeers
  Cost <- MCCost
  MoveOrders <- MCNoOrders
  Size = 4
  MaxPlayers = 2
  MaxArmy = 5
  StartDelay = 0
  MaxJoins = 3
  MaxHexbank = 1
  MaxTries = 7
  MaxDials = 3
  MaxKeys = 3
  MaxInputs = 5
SYMMETRY PeerSymmetry
SPECIFICATION SessionSpec
INVARIANTS
  NothingBeforeStart
  ReadyAgreement
  GameAgreement
  NewsFindsItsSubject
  IncomeAgreement
PROPERTIES
  Spec
