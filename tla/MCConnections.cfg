SPECIFICATION SessionsSpec
CONSTANTS
  Windows = 6
  WindowSize = 2
  FreeWindows = 3
  UnseqWindowSize = 2
  FreeUnseq = 3
  FragmentLength = 2
  Nobody = Nobody
  MaxPacketCommands = 4
  TransitLimit = 4
  c1 = c1
  s = s
  m = m
  Server = s
  Master = m
  Players = {c1}
  ServerPeers = 2
  MasterPeers = 1
  Channels = 1
  Verdicts = {TRUE, FALSE}
  MaxConnects = 5
  MaxSays = 1
  MaxFaults = 1
  Batch = 1
  Menus <- MCMenus
INVARIANTS
  StrangersAreOld
  NobodyStuck
  ObjectsMatchPeers
  BroadcastOnce
  EndsAgree
CHECK_DEADLOCK FALSE
