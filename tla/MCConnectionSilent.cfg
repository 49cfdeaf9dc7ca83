CONSTANTS
  Peers = {p1, p2}
  NoPeer = NoPeer
  NSlots = 2
  NChallenges = 2
  MaxConcurrent = 1
  Timeout = 1
  TimeoutFrames = 1
  ZombieTime = 1
  ReconnectLimit = 1
  MaxAttempts = 1
  MaxIssued = 2
  MaxKicks = 1
SPECIFICATION Spec
INVARIANTS SilentIsDropped
