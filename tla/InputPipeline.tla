---------------------------- MODULE InputPipeline ----------------------------
(* From the USB report to keys[].down: InputQueue composed with the engine's  *)
(* event queue (Com_QueueEvent, Com_GetSystemEvent, Com_PushEvent,            *)
(* Com_Milliseconds, Com_GetEvent, Com_EventLoop in qcommon/common.c).        *)
(* IN_Frame fills the event queue, Com_EventLoop empties it, once per frame   *)
(* and in this order; Com_Milliseconds may be called while an event is        *)
(* processed and moves what is left to the queue of pushed events.            *)
(* CON_Input of the port returns NULL, so no event carries a block of memory. *)
EXTENDS InputQueue

CONSTANTS
  QueueSize,   \* MAX_QUEUED_EVENTS
  PushSize,    \* MAX_PUSHED_EVENTS
  Printable,   \* the keycodes that also queue a SE_CHAR event
  Console,     \* the keycode of ` and ~
  K_CONSOLE,   \* the keycode IN_Frame queues for it
  K_SHIFT, K_ESCAPE   \* Shift and Escape together act as the console key does

ASSUME QueueAssumption ==
  /\ QueueSize \in Nat \ {0} /\ PushSize \in Nat \ {0}
  /\ Printable \subseteq Keys /\ Console \notin Printable
  \* no scancode, bit or button has the keycode of the wheel or of the console
  /\ K_CONSOLE \notin Keys
  /\ \A w \in Wheel : \A s \in Sources \ {w} : KeyOf[s] # KeyOf[w]

VARIABLES
  sys,         \* eventQueue, eventHead, eventTail
  pushed,      \* com_pushedEvents, com_pushedEventsHead, com_pushedEventsTail
  phase,       \* where Com_Frame is: "input", "events", or in Com_Milliseconds
  keys,        \* the keys with keys[].down set
  turned,      \* cl.mouseDx, cl.mouseDy: the motion CL_MouseEvent received
  evicted,     \* history: keys whose latest SE_KEY was overwritten in a queue
  cleared,     \* history: keys the engine released by itself, without an event
  crossed,     \* history: keys of which one scancode was released while another was held
  spilled      \* history: the motion of SE_MOUSE events that were overwritten

engineVars == <<sys, pushed, phase, keys, turned, evicted, cleared, crossed, spilled>>

EmptyQueue(n) == [slot |-> [i \in 0..(n - 1) |-> [type |-> "none"]], head |-> 0, tail |-> 0]

SE_KEY(key, down) == [type |-> "key", key |-> key, down |-> down]
SE_CHAR(key)      == [type |-> "char", key |-> key]
SE_MOUSE(move)    == [type |-> "mouse", move |-> move]

\* The events waiting in a queue, oldest first.
Waiting(qu, n) == [i \in 1..(qu.head - qu.tail) |-> qu.slot[(qu.tail + i - 1) % n]]
IsEmpty(qu) == qu.head = qu.tail

\* Store at the head of a queue of n places, over the oldest event when full.
Store(qu, e, n) ==
  [slot |-> [qu.slot EXCEPT ![qu.head % n] = e],
   head |-> qu.head + 1,
   tail |-> IF qu.head - qu.tail >= n THEN qu.tail + 1 ELSE qu.tail]

\* Mutant: the new motion replaces that of the event it is merged into.
QueueEventReplacing(qu, e) ==
  LET last == (qu.head + QueueSize - 1) % QueueSize IN
  IF e.type = "mouse" /\ ~IsEmpty(qu) /\ qu.slot[last].type = "mouse"
  THEN [qu EXCEPT !.slot[last].move = e.move]
  ELSE Store(qu, e, QueueSize)

\* Com_QueueEvent: motion is added to a SE_MOUSE event queued last.
QueueEvent(qu, e) ==
  LET last == (qu.head + QueueSize - 1) % QueueSize IN
  IF e.type = "mouse" /\ ~IsEmpty(qu) /\ qu.slot[last].type = "mouse"
  THEN [qu EXCEPT !.slot[last].move = Plus(@, e.move)]
  ELSE Store(qu, e, QueueSize)

\* The event the next Store overwrites: none or one.
Overwritten(qu, n) ==
  IF qu.head - qu.tail >= n THEN <<qu.slot[qu.head % n]>> ELSE <<>>
KeysOf(evs) == { evs[i].key : i \in { j \in 1..Len(evs) : evs[j].type = "key" } }
Share(e) == IF e.type = "mouse" THEN e.move ELSE Still
MotionOf(evs) ==
  LET sum[i \in 0..Len(evs)] == IF i = 0 THEN Still ELSE Plus(sum[i - 1], Share(evs[i]))
  IN sum[Len(evs)]

\* Mutant: a printable key queues its character instead of its press.
TranslateCharOnly(e) ==
  IF e.down /\ e.key \in Printable THEN <<SE_CHAR(e.key)>> ELSE <<SE_KEY(e.key, e.down)>>

\* What IN_Frame queues for one event of the ring. The case of the character
\* (ApplyShiftToChar) is left out.
Translate(e) ==
  IF e.key = Console
  THEN IF e.down THEN <<SE_KEY(K_CONSOLE, TRUE), SE_KEY(K_CONSOLE, FALSE)>> ELSE <<>>
  ELSE <<SE_KEY(e.key, e.down)>>
         \o (IF e.down /\ e.key \in Printable THEN <<SE_CHAR(e.key)>> ELSE <<>>)

\* Com_QueueEvent, and the history of what it overwrote.
QueueStep(acc, e) ==
  LET qu == QueueEvent(acc.queue, e) IN
  [queue |-> qu,
   gone  |-> IF qu.head = acc.queue.head THEN acc.gone   \* merged, nothing stored
             ELSE acc.gone \o Overwritten(acc.queue, QueueSize)]

\* One Com_QueueEvent after the other, two at most.
QueueAll(evs) ==
  LET start == [queue |-> sys, gone |-> <<>>]
      done  == CASE evs = <<>>   -> start
                 [] Len(evs) = 1 -> QueueStep(start, evs[1])
                 [] OTHER        -> QueueStep(QueueStep(start, evs[1]), evs[2])
  IN
  /\ sys' = done.queue
  /\ evicted' = evicted \union KeysOf(done.gone)
  /\ spilled' = Plus(spilled, MotionOf(done.gone))

PipeInit ==
  /\ Init
  /\ sys = EmptyQueue(QueueSize) /\ pushed = EmptyQueue(PushSize)
  /\ phase = "input"
  /\ keys = {} /\ turned = Still
  /\ evicted = {} /\ cleared = {} /\ crossed = {} /\ spilled = Still

-----------------------------------------------------------------------------
KeysIn(sources) == { KeyOf[s] : s \in sources }

Interrupt ==
  /\ Handler
  /\ crossed' = (crossed \ KeysIn(prev' \ prev))
                \union (KeysIn(prev \ prev') \intersect KeysIn(prev'))
  /\ UNCHANGED <<sys, pushed, phase, keys, turned, evicted, cleared, spilled>>

StartFrame == phase = "input" /\ EnterFrame /\ UNCHANGED engineVars

FetchEvent ==
  /\ RingEmpty \/ ReadSlot \/ AdvanceTail \/ AdvanceTailFirst \/ ReadSlotLate
  /\ UNCHANGED engineVars

QueueKeyEvent ==
  /\ DispatchEvent
  /\ QueueAll(Translate(ev))
  /\ UNCHANGED <<pushed, phase, keys, turned, cleared, crossed>>

PollMotion ==
  /\ PollX \/ PollY \/ ClearX \/ ClearY
  /\ UNCHANGED engineVars

\* IN_Frame returns and Com_Frame goes on to Com_EventLoop.
NoMotion ==
  /\ PollStill
  /\ phase' = "events"
  /\ UNCHANGED <<sys, pushed, keys, turned, evicted, cleared, crossed, spilled>>

QueueMotion ==
  /\ DispatchMotion
  /\ QueueAll(<<SE_MOUSE(moved)>>)
  /\ phase' = "events"
  /\ UNCHANGED <<pushed, keys, turned, cleared, crossed>>

-----------------------------------------------------------------------------
(* Com_EventLoop.                                                            *)

\* Mutant: pushed events last.
FromPushedLast == IsEmpty(sys)

\* Com_GetEvent: pushed events first.
FromPushed == ~IsEmpty(pushed)
Source == IF FromPushed THEN pushed ELSE sys
SourceSize == IF FromPushed THEN PushSize ELSE QueueSize
GotEvent == Source.slot[Source.tail % SourceSize]
Consume ==
  IF FromPushed
  THEN pushed' = [pushed EXCEPT !.tail = @ + 1] /\ UNCHANGED sys
  ELSE sys' = [sys EXCEPT !.tail = @ + 1] /\ UNCHANGED pushed

TogglesConsole(k) == k = K_CONSOLE \/ (k = K_ESCAPE /\ K_SHIFT \in keys)

\* Key_SetCatcher releases all keys when the catcher changes, as UI_KEY_CLEARSTATES
\* does at any time. Which catcher is set makes no difference to the keys, so the
\* catcher is no variable: what may set one may release all keys or none.
Key_ClearStates == keys' = {} /\ cleared' = cleared \union keys
MayClearStates == Key_ClearStates \/ UNCHANGED <<keys, cleared>>

\* CL_KeyEvent. A press that toggles the console always runs Key_ClearStates;
\* any other event may (Escape, Message_Key, the user interface, cgame).
KeyEvent ==
  /\ phase = "events" /\ ~IsEmpty(Source) /\ GotEvent.type = "key"
  /\ LET k == GotEvent.key
         now == IF GotEvent.down THEN keys \union {k} ELSE keys \ {k} IN
     /\ \/ /\ ~(GotEvent.down /\ TogglesConsole(k))
           /\ keys' = now /\ cleared' = cleared \ {k}
        \/ keys' = {} /\ cleared' = (cleared \ {k}) \union now
     \* a pushed event may be older than one that was overwritten in eventQueue
     /\ evicted' = IF IsEmpty(pushed) THEN evicted \ {k} ELSE evicted
  /\ Consume
  /\ UNCHANGED <<phase, turned, crossed, spilled, vars>>

CharEvent ==
  /\ phase = "events" /\ ~IsEmpty(Source) /\ GotEvent.type = "char"
  /\ MayClearStates
  /\ Consume
  /\ UNCHANGED <<phase, turned, evicted, crossed, spilled, vars>>

MouseEvent ==
  /\ phase = "events" /\ ~IsEmpty(Source) /\ GotEvent.type = "mouse"
  /\ turned' = Plus(turned, GotEvent.move)
  /\ MayClearStates
  /\ Consume
  /\ UNCHANGED <<phase, evicted, crossed, spilled, vars>>

\* The catcher changes elsewhere in the frame: a packet, a command, the server's
\* frame, cgame or the user interface (Key_SetCatcher).
ChangeCatcher ==
  /\ phase = "events"
  /\ Key_ClearStates
  /\ UNCHANGED <<sys, pushed, phase, turned, evicted, crossed, spilled, vars>>

\* The command "togglemenu": CL_KeyEvent with a press and a release of Escape,
\* whether or not the player holds it (Con_ToggleMenu_f).
ToggleMenu ==
  /\ phase = "events"
  /\ \/ /\ ~TogglesConsole(K_ESCAPE)
        /\ keys' = keys \ {K_ESCAPE} /\ cleared' = cleared \union (keys \intersect {K_ESCAPE})
     \/ Key_ClearStates
  /\ UNCHANGED <<sys, pushed, phase, turned, evicted, crossed, spilled, vars>>

LoopDone ==
  /\ phase = "events" /\ IsEmpty(Source)
  /\ phase' = "input"
  /\ UNCHANGED <<sys, pushed, keys, turned, evicted, cleared, crossed, spilled, vars>>

\* Com_Error(ERR_DROP) in a handler: longjmp out of the frame, the events that
\* are left stay queued.
AbortFrame ==
  /\ phase = "events" /\ ~IsEmpty(Source)
  /\ phase' = "input"
  /\ UNCHANGED <<sys, pushed, keys, turned, evicted, cleared, crossed, spilled, vars>>

\* Com_Milliseconds, called by code that handles an event.
Milliseconds ==
  /\ phase = "events" /\ ~IsEmpty(sys)
  /\ phase' = "milliseconds"
  /\ UNCHANGED <<sys, pushed, keys, turned, evicted, cleared, crossed, spilled, vars>>

PushEvent ==
  /\ phase = "milliseconds" /\ ~IsEmpty(sys)
  /\ pushed' = Store(pushed, sys.slot[sys.tail % QueueSize], PushSize)
  /\ sys' = [sys EXCEPT !.tail = @ + 1]
  /\ evicted' = evicted \union KeysOf(Overwritten(pushed, PushSize))
  /\ spilled' = Plus(spilled, MotionOf(Overwritten(pushed, PushSize)))
  /\ UNCHANGED <<phase, keys, turned, cleared, crossed, vars>>

MillisecondsDone ==
  /\ phase = "milliseconds" /\ IsEmpty(sys)
  /\ phase' = "events"
  /\ UNCHANGED <<sys, pushed, keys, turned, evicted, cleared, crossed, spilled, vars>>

EventLoop == \/ KeyEvent \/ CharEvent \/ MouseEvent \/ ChangeCatcher \/ ToggleMenu
             \/ LoopDone \/ AbortFrame \/ Milliseconds \/ PushEvent \/ MillisecondsDone

PipeNext ==
  \/ Interrupt \/ StartFrame \/ FetchEvent \/ QueueKeyEvent
  \/ PollMotion \/ NoMotion \/ QueueMotion
  \/ EventLoop

PipeSpec == PipeInit /\ [][PipeNext]_<<vars, engineVars>>

-----------------------------------------------------------------------------
(* Properties.                                                               *)

\* Everything reported so far has reached CL_KeyEvent and CL_MouseEvent.
Drained == /\ todo = {} /\ pushing = {} /\ head = tail
           /\ pc = "frame" /\ IsEmpty(sys) /\ IsEmpty(pushed)

Held(k) == k \in KeysIn(prev)

\* A key the player has released is still down in the engine only when its
\* release was lost at a full ring (PushKeyEvent) or overwritten in a full
\* event queue (Com_QueueEvent, Com_PushEvent).
NoStuckKey ==
  Drained => \A k \in keys : k \in lost \union evicted \/ Held(k)

\* A key the player holds is down in the engine unless an event was lost, the
\* engine released the key itself (Key_ClearStates at a change of the catcher or
\* the console, "togglemenu"), or another scancode of the same keycode was
\* released in the meantime (the two '-', Enter and arrow keys share theirs).
HeldKeyIsDown ==
  Drained => \A k \in Keys \ {Console} :
    Held(k) => k \in keys \union lost \union evicted \union cleared \union crossed

\* Merging SE_MOUSE events neither loses nor repeats motion: what was
\* delivered, is queued or was overwritten adds up to what IN_Frame passed on.
MotionMerged ==
  LET queued == Plus(MotionOf(Waiting(sys, QueueSize)), MotionOf(Waiting(pushed, PushSize)))
  IN Plus(Plus(turned, queued), spilled) = used
=============================================================================
