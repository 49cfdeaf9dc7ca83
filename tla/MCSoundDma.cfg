CONSTANTS
  Ring = 7
  Queue = 4
  PreStep = 3
  MinAhead = 5
  MaxAhead = 6
  TimeLimit = 7
  MaxBuffers = 0
SPECIFICATION Spec
CHECK_DEADLOCK FALSE
INVARIANTS TypeOK FreshUnlessLate NoUnderrun
PROPERTIES SoundtimeExact SoundGoesOn
