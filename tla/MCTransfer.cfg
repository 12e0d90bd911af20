SPECIFICATION FairSpec
CONSTANTS
  Windows = 6
  WindowSize = 2
  FreeWindows = 3
  UnseqWindowSize = 2
  FreeUnseq = 3
  FragmentLength = 2
  Nobody = Nobody
  MaxPacketCommands = 4
  TransitLimit = 6
  a = a
  b = b
  Sender = a
  Receiver = b
  Menus <- MCMenus
INVARIANTS
  WholeOnceInOrder
  AcknowledgedIsThere
  AccountsBalance
PROPERTIES
  Delivers
  EventuallySettled
CHECK_DEADLOCK FALSE
