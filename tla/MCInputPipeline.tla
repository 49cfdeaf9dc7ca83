---- MODULE MCInputPipeline ----
\* A small instance of InputPipeline: the two '-' keys of the keyboard share
\* one keycode, which also queues a character; the console key, Escape, a Shift
\* bit and the wheel have their own.
EXTENDS InputPipeline

CONSTANTS scMinus, scKpMinus, scGrave, scEscape, shiftBit, wheelUp, wheelDown,
          kMinus, kGrave, kEscape, kShift, kWheelUp, kWheelDown

MCScancodes == {scMinus, scKpMinus, scGrave, scEscape}
MCBits == {shiftBit}
MCKeys == {kMinus, kGrave, kEscape, kShift, kWheelUp, kWheelDown}
MCKeyOf ==
  [s \in MCScancodes \union {shiftBit, wheelUp, wheelDown} |->
     CASE s \in {scMinus, scKpMinus} -> kMinus [] s = scGrave -> kGrave
       [] s = scEscape -> kEscape [] s = shiftBit -> kShift
       [] s = wheelUp -> kWheelUp [] OTHER -> kWheelDown]
MCMoves == {[x |-> 0, y |-> 0], [x |-> 1, y |-> 0]}
====
