CONSTANTS
  Max = 2
  MaxServer = 3
  MaxClient = 2
  MaxInFlight = 1
SPECIFICATION Spec
INVARIANTS TypeOK NoGap KeysAgreeWithRoom GameTold
PROPERTIES ServerCommandsInOrder ClientCommandsInOrder ServerCommandDelivered
