CONSTANTS
  Size <- MCSize
  Refused = {4}
  Lists <- MCLists
  Window = 2
  BlockMod = 3
  MaxBlocks = 3
  MaxCommands = 4
  PacketBackup = 3
  Margin = 0
  MaxEntities = 2
  ServerRing = 5
  Views <- MCViews
  MaxOut = 6
  MaxForeign = 1
  MaxEpoch = 2
  MaxInFlight = 1
SPECIFICATION Spec
CHECK_DEADLOCK FALSE
PROPERTY AnyLostGamestateResent
