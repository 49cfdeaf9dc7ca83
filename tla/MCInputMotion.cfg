CONSTANTS
  Size = 3
  scA = scA
  scNone = scNone
  shiftBit = shiftBit
  button1 = button1
  wheelUp = wheelUp
  wheelDown = wheelDown
  kA = kA
  kShift = kShift
  kMouse1 = kMouse1
  kWheelUp = kWheelUp
  kWheelDown = kWheelDown
  NoKey = NoKey
  WheelUp = wheelUp
  WheelDown = wheelDown
  Scancodes <- MCScancodes
  Bits <- MCBits
  Buttons <- MCButtons
  Keys <- MCKeys
  KeyOf <- MCKeyOf
  Moves <- MCMoves
  Rollover = 2
  MaxReports = 2
SPECIFICATION Spec
INVARIANT MotionConserved
