CONSTANTS
  Size = 3
  QueueSize = 2
  PushSize = 2
  scMinus = scMinus
  scKpMinus = scKpMinus
  scGrave = scGrave
  scEscape = scEscape
  shiftBit = shiftBit
  wheelUp = wheelUp
  wheelDown = wheelDown
  kMinus = kMinus
  kGrave = kGrave
  kEscape = kEscape
  kShift = kShift
  kWheelUp = kWheelUp
  kWheelDown = kWheelDown
  NoKey = NoKey
  K_CONSOLE = K_CONSOLE
  Console = kGrave
  K_SHIFT = kShift
  K_ESCAPE = kEscape
  Printable = {kMinus}
  WheelUp = wheelUp
  WheelDown = wheelDown
  Scancodes <- MCScancodes
  Bits <- MCBits
  Buttons = {}
  Keys <- MCKeys
  KeyOf <- MCKeyOf
  Moves <- MCMoves
  Rollover = 1
  MaxReports = 2
SPECIFICATION PipeSpec
INVARIANTS NoStuckKey HeldKeyIsDown MotionMerged
