----------------------------- MODULE InputQueue ------------------------------
(* The keyboard and mouse path of the bare-metal port (src/kernel.cpp,        *)
(* input_queue.h, circle_input.c): the USB report handlers run in interrupt   *)
(* context and push key events into a ring without locks, the frame loop      *)
(* drains it in IN_Frame.                                                     *)
(*                                                                            *)
(* The producer steps once per access to the shared ring, and the consumer    *)
(* too, so every place where an interrupt can fall in IN_Frame is a state.    *)
(* On the single core of the port a handler runs to its end before the frame  *)
(* loop goes on; those executions are a subset of the ones modelled here.     *)
EXTENDS Integers, Sequences, FiniteSets

CONSTANTS
  Size,        \* INPUT_QUEUE_SIZE
  Scancodes,   \* the USB scancodes a keyboard report may hold
  Rollover,    \* how many scancodes one report holds
  Bits,        \* modifier bits of a keyboard report
  Buttons,     \* button bits of a mouse report
  WheelUp, WheelDown,
  Keys,        \* Q3 keycodes
  NoKey,       \* keycode 0: a scancode the map does not know
  KeyOf,       \* s_UsbToQ3KeyMap and the K_ constants of the bits
  Moves,       \* the displacements a mouse report may hold
  MaxReports   \* bound on the reports of one behaviour

Wheel == {WheelUp, WheelDown}
Sources == Scancodes \union Bits \union Buttons \union Wheel
Event == [key : Keys, down : BOOLEAN]
NoEvent == [key |-> NoKey, down |-> FALSE]   \* zero-initialised storage
Motion == [x : Int, y : Int]

ASSUME RingAssumption ==
  /\ Size \in Nat \ {0, 1}
  /\ MaxReports \in Nat /\ Rollover \in Nat
  /\ NoKey \notin Keys
  /\ Scancodes \intersect (Bits \union Buttons \union Wheel) = {}
  /\ Bits \intersect (Buttons \union Wheel) = {} /\ Buttons \intersect Wheel = {}
  /\ KeyOf \in [Sources -> Keys \union {NoKey}]
  /\ \A b \in Bits \union Buttons \union Wheel : KeyOf[b] # NoKey
  /\ Moves \subseteq Motion

VARIABLES
  ring,        \* g_inputQueue
  head, tail,  \* g_queueHead, g_queueTail
  prev,        \* s_PrevKeys, s_PrevModifiers and s_nPrevButtons together
  todo,        \* the PushKeyEvent calls the running handler still has to make
  pushing,     \* the call that has filled its slot and not moved g_queueHead yet
  delta,       \* g_mouseDeltaX and g_mouseDeltaY
  pc,          \* where IN_Frame is
  ev,          \* its local copy of the event
  moved,       \* its locals dx and dy
  lost,        \* history: keys whose latest PushKeyEvent found the ring full
  total,       \* history: all the motion the mouse reported
  used,        \* history: all the motion IN_Frame passed on
  reports      \* history: how many reports were handled

ringVars  == <<ring, head, tail>>
isrVars   == <<prev, todo, pushing, lost, reports>>
mouseVars == <<delta, moved, total, used>>
mainVars  == <<pc, ev>>
vars == <<ringVars, isrVars, mouseVars, mainVars>>

Still == [x |-> 0, y |-> 0]
Plus(a, b) == [x |-> a.x + b.x, y |-> a.y + b.y]
\* Mutant: the index does not wrap.
NextSlotUnwrapped(i) == i + 1
NextSlot(i) == (i + 1) % Size

\* A PushKeyEvent call; lower ranks are called first, equal ranks in any order
\* (the order of the scancodes in the report is the keyboard's).
Call(rank, src, key, down) ==
  [rank |-> rank, src |-> src, event |-> [key |-> key, down |-> down]]
Calls == [rank : 0..3, src : Sources \union Keys,
          event : [key : Keys \union {NoKey}, down : BOOLEAN]]

Init ==
  /\ ring = [i \in 0..(Size - 1) |-> NoEvent]
  /\ head = 0 /\ tail = 0
  /\ prev = {} /\ todo = {} /\ pushing = {}
  /\ delta = Still /\ moved = Still /\ total = Still /\ used = Still
  /\ pc = "frame" /\ ev = NoEvent
  /\ lost = {} /\ reports = 0

-----------------------------------------------------------------------------
(* The interrupt handlers.                                                   *)

\* One event for each key whose group of bits changed: down while any bit of
\* the group is set.
BitCalls(bits, before, rank) ==
  { Call(rank, k, k, \E b \in bits : KeyOf[b] = k) :
      k \in { KeyOf[b] : b \in (bits \ before) \union (before \ bits) } }

KeyStatusHandlerRaw(bits, codes) ==
  LET before == prev \intersect (Scancodes \union Bits) IN
  /\ todo = {} /\ pushing = {}
  /\ reports < MaxReports
  /\ bits \union codes # before
  /\ todo' = BitCalls(bits, before \intersect Bits, 0)
       \union { Call(1, s, KeyOf[s], TRUE)  : s \in codes \ before }
       \union { Call(2, s, KeyOf[s], FALSE) : s \in (before \intersect Scancodes) \ codes }
  /\ prev' = (prev \intersect Buttons) \union bits \union codes
  /\ reports' = reports + 1
  /\ UNCHANGED <<ringVars, pushing, lost, mouseVars, mainVars>>

MouseStatusHandler(buttons, move, wheel) ==
  /\ todo = {} /\ pushing = {}
  /\ reports < MaxReports
  /\ delta' = Plus(delta, move)
  /\ total' = Plus(total, move)
  /\ todo' = BitCalls(buttons, prev \intersect Buttons, 0)
       \union { Call(1, w, KeyOf[w], TRUE)  : w \in wheel }
       \union { Call(2, w, KeyOf[w], FALSE) : w \in wheel }
  /\ prev' = (prev \ Buttons) \union buttons
  /\ reports' = reports + 1
  /\ UNCHANGED <<ringVars, pushing, lost, moved, used, mainVars>>

Report ==
  \/ \E bits \in SUBSET Bits, codes \in SUBSET Scancodes :
       Cardinality(codes) <= Rollover /\ KeyStatusHandlerRaw(bits, codes)
  \/ \E buttons \in SUBSET Buttons, move \in Moves,
        wheel \in {{}, {WheelUp}, {WheelDown}} :
       MouseStatusHandler(buttons, move, wheel)

\* The calls the handler may make now.
Due == { c \in todo : \A d \in todo : c.rank <= d.rank }

PushUnmapped(c) ==                       \* if (key == 0) return
  /\ pushing = {} /\ c \in Due
  /\ c.event.key = NoKey
  /\ todo' = todo \ {c}
  /\ UNCHANGED <<ringVars, prev, pushing, lost, reports, mouseVars, mainVars>>

PushFull(c) ==                           \* next == g_queueTail: nothing is stored
  /\ pushing = {} /\ c \in Due
  /\ c.event.key # NoKey
  /\ NextSlot(head) = tail
  /\ todo' = todo \ {c}
  /\ lost' = lost \union {c.event.key}
  /\ UNCHANGED <<ringVars, prev, pushing, reports, mouseVars, mainVars>>

\* Mutant: no check for a full ring.
PushStoreUnchecked(c) ==
  /\ pushing = {} /\ c \in Due
  /\ c.event.key # NoKey
  /\ ring' = [ring EXCEPT ![head] = c.event]
  /\ todo' = todo \ {c}
  /\ pushing' = {c}
  /\ UNCHANGED <<head, tail, prev, lost, reports, mouseVars, mainVars>>

PushStore(c) ==                          \* the slot is filled ...
  /\ pushing = {} /\ c \in Due
  /\ c.event.key # NoKey
  /\ NextSlot(head) # tail
  /\ ring' = [ring EXCEPT ![head] = c.event]
  /\ todo' = todo \ {c}
  /\ pushing' = {c}
  /\ UNCHANGED <<head, tail, prev, lost, reports, mouseVars, mainVars>>

PushPublish(c) ==                        \* ... and only then g_queueHead moves
  /\ head' = NextSlot(head)
  /\ pushing' = {}
  /\ lost' = lost \ {c.event.key}
  /\ UNCHANGED <<ring, tail, prev, todo, reports, mouseVars, mainVars>>

Handler ==
  \/ Report
  \/ \E c \in todo : PushUnmapped(c) \/ PushFull(c) \/ PushStore(c)
  \/ \E c \in pushing : PushPublish(c)

-----------------------------------------------------------------------------
(* IN_Frame, called once per frame.                                          *)

EnterFrame ==
  /\ pc = "frame"
  /\ pc' = "ring"
  /\ UNCHANGED <<ringVars, isrVars, mouseVars, ev>>

\* Mutant: a ring that has wrapped looks empty.
RingEmptyUnwrapped ==
  /\ pc = "ring" /\ tail >= head
  /\ pc' = "mouse"
  /\ UNCHANGED <<ringVars, isrVars, mouseVars, ev>>

RingEmpty ==
  /\ pc = "ring" /\ tail = head
  /\ pc' = "mouse"
  /\ UNCHANGED <<ringVars, isrVars, mouseVars, ev>>

ReadSlot ==
  /\ pc = "ring" /\ tail # head
  /\ ev' = ring[tail]
  /\ pc' = "advance"
  /\ UNCHANGED <<ringVars, isrVars, mouseVars>>

AdvanceTail ==
  /\ pc = "advance"
  /\ tail' = NextSlot(tail)
  /\ pc' = "dispatch"
  /\ UNCHANGED <<ring, head, isrVars, mouseVars, ev>>

\* g_queueTail is volatile, g_inputQueue is not and no barrier stands between
\* the copy of the slot and the store to g_queueTail: the compiler may emit
\* the store first.
AdvanceTailFirst ==
  /\ pc = "ring" /\ tail # head
  /\ tail' = NextSlot(tail)
  /\ pc' = "late"
  /\ UNCHANGED <<ring, head, isrVars, mouseVars, ev>>

\* The slot that tail has just left.
LateSlot == IF tail = 0 THEN Size - 1 ELSE tail - 1

ReadSlotLate ==
  /\ pc = "late"
  /\ ev' = ring[LateSlot]
  /\ pc' = "dispatch"
  /\ UNCHANGED <<ringVars, isrVars, mouseVars>>

\* The event goes to Com_QueueEvent (InputPipeline says how).
DispatchEvent ==
  /\ pc = "dispatch"
  /\ pc' = "ring" /\ ev' = NoEvent
  /\ UNCHANGED <<ringVars, isrVars, mouseVars>>

PollStill ==
  /\ pc = "mouse" /\ delta = Still
  /\ pc' = "frame"
  /\ UNCHANGED <<ringVars, isrVars, mouseVars, ev>>

PollX ==
  /\ pc = "mouse" /\ delta # Still
  /\ moved' = [x |-> delta.x, y |-> moved.y]
  /\ pc' = "y"
  /\ UNCHANGED <<ringVars, isrVars, delta, total, used, ev>>

PollY ==
  /\ pc = "y"
  /\ moved' = [x |-> moved.x, y |-> delta.y]
  /\ pc' = "clearX"
  /\ UNCHANGED <<ringVars, isrVars, delta, total, used, ev>>

\* Mutant: g_mouseDeltaX is not reset.
ClearXForgotten ==
  /\ pc = "clearX"
  /\ pc' = "clearY"
  /\ UNCHANGED <<ringVars, isrVars, mouseVars, ev>>

ClearX ==
  /\ pc = "clearX"
  /\ delta' = [x |-> 0, y |-> delta.y]
  /\ pc' = "clearY"
  /\ UNCHANGED <<ringVars, isrVars, moved, total, used, ev>>

ClearY ==
  /\ pc = "clearY"
  /\ delta' = [x |-> delta.x, y |-> 0]
  /\ pc' = "motion"
  /\ UNCHANGED <<ringVars, isrVars, moved, total, used, ev>>

DispatchMotion ==
  /\ pc = "motion"
  /\ used' = Plus(used, moved) /\ moved' = Still
  /\ pc' = "frame"
  /\ UNCHANGED <<ringVars, isrVars, delta, total, ev>>

Drain == \/ RingEmpty \/ ReadSlot \/ AdvanceTail
         \/ AdvanceTailFirst \/ ReadSlotLate \/ DispatchEvent
Poll == PollStill \/ PollX \/ PollY \/ ClearX \/ ClearY \/ DispatchMotion
IN_Frame == EnterFrame \/ Drain \/ Poll

Next == Handler \/ IN_Frame

\* The frame loop of _main runs for ever; a handler may always be delayed.
Fairness == WF_vars(IN_Frame)
Spec == Init /\ [][Next]_vars /\ Fairness

-----------------------------------------------------------------------------
(* Properties.                                                               *)

\* The slots in use between tail t and head h, oldest first, and what they hold.
Count(h, t) == IF h >= t THEN h - t ELSE h - t + Size
SlotAt(t, i) == IF t + i < Size THEN t + i ELSE t + i - Size
Contents(r, h, t) == [i \in 1..Count(h, t) |-> r[SlotAt(t, i - 1)]]
Queue == Contents(ring, head, tail)
\* The event IN_Frame has taken out of the ring.
Hand == IF pc = "late" THEN <<ring[LateSlot]>>
        ELSE IF pc = "dispatch" THEN <<ev>> ELSE <<>>

Abstract == INSTANCE EventFifo WITH
  Event <- Event, Capacity <- Size - 1, queue <- Queue, hand <- Hand, lost <- lost

Locations == {"frame", "ring", "advance", "late", "dispatch", "mouse",
              "y", "clearX", "clearY", "motion"}

\* Every variable keeps its type.
TypeOK ==
  /\ ring \in [0..(Size - 1) -> Event \union {NoEvent}]
  /\ head \in 0..(Size - 1) /\ tail \in 0..(Size - 1)
  /\ prev \subseteq Sources
  /\ todo \subseteq Calls
  /\ pushing \subseteq Calls /\ \A c, d \in pushing : c = d
  /\ delta \in Motion /\ moved \in Motion /\ total \in Motion /\ used \in Motion
  /\ pc \in Locations
  /\ ev \in Event \union {NoEvent}
  /\ lost \subseteq Keys
  /\ reports \in Nat

\* The ring is a lossless bounded FIFO with Size - 1 places for every order of
\* the handlers' stores and IN_Frame's loads, even when the compiler moves the
\* copy of the slot after the store to g_queueTail (PushKeyEvent, IN_Frame).
RingIsFifo == Abstract!Spec

\* An interrupt never overwrites the slot IN_Frame is about to copy: the copy
\* made after g_queueTail has moved still finds the event (the free slot that
\* PushKeyEvent keeps between head and tail is what protects it).
SlotSafe ==
  [][/\ pc = "ring" /\ tail # head => ring'[tail] = ring[tail]
     /\ pc = "late" => ring'[LateSlot] = ring[LateSlot]]_vars

\* Motion is never counted twice: what IN_Frame passed on, what it is about to
\* pass on and what is still accumulated never exceed what the mouse reported
\* (stated for runs whose displacements are not negative).
MotionNotInvented ==
  LET clearedX == pc \in {"clearY", "motion"}
      clearedY == pc = "motion"
  IN /\ used.x + delta.x + (IF clearedX THEN moved.x ELSE 0) <= total.x
     /\ used.y + delta.y + (IF clearedY THEN moved.y ELSE 0) <= total.y

\* "Accumulate Mouse Movement Deltas for IN_Frame()" (kernel.cpp): between two
\* frames all the motion reported so far was passed on or is still accumulated.
MotionConserved == pc = "frame" => Plus(used, delta) = total

\* A key event in the ring is dispatched, however many interrupts arrive.
EveryEventDispatched ==
  \A k \in Keys : \A d \in BOOLEAN :
    LET e == [key |-> k, down |-> d] IN
    (\E i \in 1..Len(Queue) : Queue[i] = e) ~> (pc = "dispatch" /\ ev = e)
=============================================================================
