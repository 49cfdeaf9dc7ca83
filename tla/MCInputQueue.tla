---- MODULE MCInputQueue ----
\* A small instance of InputQueue: a ring of three slots, two scancodes of
\* which one is not mapped, one modifier bit, one mouse button and the wheel.
EXTENDS InputQueue

CONSTANTS scA, scNone, shiftBit, button1, wheelUp, wheelDown,
          kA, kShift, kMouse1, kWheelUp, kWheelDown

MCScancodes == {scA, scNone}
MCBits == {shiftBit}
MCButtons == {button1}
MCKeys == {kA, kShift, kMouse1, kWheelUp, kWheelDown}
MCKeyOf ==
  [s \in {scA, scNone, shiftBit, button1, wheelUp, wheelDown} |->
     CASE s = scA -> kA [] s = shiftBit -> kShift [] s = button1 -> kMouse1
       [] s = wheelUp -> kWheelUp [] s = wheelDown -> kWheelDown
       [] OTHER -> NoKey]
MCMoves == {[x |-> 0, y |-> 0], [x |-> 1, y |-> 1]}
====
