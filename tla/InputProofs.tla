----------------------------- MODULE InputProofs -----------------------------
(* Proofs about the input of the port: first InputQueue, for a ring of any    *)
(* size, any scancode map and any number of reports, then InputPipeline, for  *)
(* event queues of any size as well.                                          *)
EXTENDS InputPipeline, FiniteSetTheorems, WellFoundedInduction, TLAPS

\* The successor of a slot, without the remainder.
LEMMA NextSlotIs ==
  ASSUME NEW i \in 0..(Size - 1)
  PROVE  /\ NextSlot(i) = IF i + 1 = Size THEN 0 ELSE i + 1
         /\ NextSlot(i) \in 0..(Size - 1)
<1>0. Size \in Nat /\ Size > 1
  BY RingAssumption
<1>1. CASE i + 1 = Size
  <2>1. Size % Size = 0
    BY <1>0
  <2> QED BY <1>0, <1>1, <2>1 DEF NextSlot
<1>2. CASE i + 1 # Size
  <2>1. i + 1 \in 0..(Size - 1)
    BY <1>0, <1>2
  <2>2. (i + 1) % Size = i + 1
    BY <1>0, <2>1
  <2> QED BY <1>0, <1>2, <2>1, <2>2 DEF NextSlot
<1> QED BY <1>1, <1>2

-----------------------------------------------------------------------------
(* The calls of a handler, by themselves.                                     *)

\* The calls made for changed modifier or button bits are PushKeyEvent calls.
LEMMA BitCallsType ==
  ASSUME NEW bits, bits \subseteq Bits \union Buttons,
         NEW before, before \subseteq Bits \union Buttons
  PROVE  BitCalls(bits, before, 0) \subseteq Calls
<1>1. \A b \in bits \union before : KeyOf[b] \in Keys
  BY RingAssumption DEF Sources
<1>2. SUFFICES ASSUME NEW k \in { KeyOf[b] : b \in (bits \ before) \union (before \ bits) }
               PROVE  Call(0, k, k, \E b \in bits : KeyOf[b] = k) \in Calls
  BY DEF BitCalls
<1>3. k \in Keys
  BY <1>1, <1>2
<1>4. (\E b \in bits : KeyOf[b] = k) \in BOOLEAN
  OBVIOUS
<1> QED BY <1>3, <1>4 DEF Call, Calls

\* So are those made for scancodes and for the wheel.
LEMMA KeyCallsType ==
  ASSUME NEW codes, codes \subseteq Scancodes \union Wheel,
         NEW rank \in {1, 2}, NEW down \in BOOLEAN
  PROVE  { Call(rank, s, KeyOf[s], down) : s \in codes } \subseteq Calls
<1>1. \A s \in codes : s \in Sources /\ KeyOf[s] \in Keys \union {NoKey}
  BY RingAssumption DEF Sources
<1> QED BY <1>1 DEF Call, Calls

-----------------------------------------------------------------------------
(* Type correctness.                                                          *)

\* The sum of two displacements is one.
LEMMA MotionType ==
  ASSUME NEW a \in Motion, NEW b \in Motion
  PROVE  Plus(a, b) \in Motion
  BY DEF Motion, Plus

\* Every step of a handler or of IN_Frame keeps the types.
LEMMA TypeStep == TypeOK /\ [Next]_vars => TypeOK'
<1> SUFFICES ASSUME TypeOK, [Next]_vars PROVE TypeOK'
  OBVIOUS
<1> USE DEF TypeOK
<1>0. Size \in Nat /\ Size > 1
  BY RingAssumption
<1>1. ASSUME NEW bits \in SUBSET Bits, NEW codes \in SUBSET Scancodes,
             KeyStatusHandlerRaw(bits, codes)
      PROVE  TypeOK'
  <2> DEFINE before == prev \intersect (Scancodes \union Bits)
  <2>1. BitCalls(bits, before \intersect Bits, 0) \subseteq Calls
    BY BitCallsType
  <2>2. { Call(1, s, KeyOf[s], TRUE) : s \in codes \ before } \subseteq Calls
    BY KeyCallsType
  <2>3. { Call(2, s, KeyOf[s], FALSE) : s \in (before \intersect Scancodes) \ codes }
           \subseteq Calls
    BY KeyCallsType
  <2>4. todo' \subseteq Calls
    BY <1>1, <2>1, <2>2, <2>3 DEF KeyStatusHandlerRaw
  <2>5. prev' \subseteq Sources /\ reports' \in Nat
    BY <1>1 DEF KeyStatusHandlerRaw, Sources
  <2> QED BY <1>1, <2>4, <2>5 DEF KeyStatusHandlerRaw, ringVars, mouseVars, mainVars
<1>2. ASSUME NEW buttons \in SUBSET Buttons, NEW move \in Moves,
             NEW wheel \in {{}, {WheelUp}, {WheelDown}},
             MouseStatusHandler(buttons, move, wheel)
      PROVE  TypeOK'
  <2>1. BitCalls(buttons, prev \intersect Buttons, 0) \subseteq Calls
    BY BitCallsType
  <2>2. { Call(1, w, KeyOf[w], TRUE) : w \in wheel } \subseteq Calls
    BY KeyCallsType DEF Wheel
  <2>3. { Call(2, w, KeyOf[w], FALSE) : w \in wheel } \subseteq Calls
    BY KeyCallsType DEF Wheel
  <2>4. todo' \subseteq Calls
    BY <1>2, <2>1, <2>2, <2>3 DEF MouseStatusHandler
  <2>5. prev' \subseteq Sources /\ reports' \in Nat
    BY <1>2 DEF MouseStatusHandler, Sources
  <2>6. delta' \in Motion /\ total' \in Motion
    BY <1>2, MotionType, RingAssumption DEF MouseStatusHandler
  <2> QED BY <1>2, <2>4, <2>5, <2>6 DEF MouseStatusHandler, ringVars, mainVars
<1>3. ASSUME NEW c \in todo, PushUnmapped(c) PROVE TypeOK'
  BY <1>3 DEF PushUnmapped, ringVars, mouseVars, mainVars
<1>4. ASSUME NEW c \in todo, PushFull(c) PROVE TypeOK'
  <2>1. c.event.key \in Keys
    BY <1>4 DEF PushFull, Calls
  <2> QED BY <1>4, <2>1 DEF PushFull, ringVars, mouseVars, mainVars
<1>5. ASSUME NEW c \in todo, PushStore(c) PROVE TypeOK'
  <2>1. c.event \in Event
    BY <1>5 DEF PushStore, Calls, Event
  <2> QED BY <1>5, <2>1 DEF PushStore, mouseVars, mainVars
<1>6. ASSUME NEW c \in pushing, PushPublish(c) PROVE TypeOK'
  BY <1>6, NextSlotIs DEF PushPublish, mouseVars, mainVars
<1>7. ASSUME AdvanceTail \/ AdvanceTailFirst PROVE TypeOK'
  BY <1>7, NextSlotIs DEF AdvanceTail, AdvanceTailFirst, isrVars, mouseVars, Locations
<1>8. ASSUME ReadSlot PROVE TypeOK'
  BY <1>8 DEF ReadSlot, ringVars, isrVars, mouseVars, Locations
<1>9. ASSUME ReadSlotLate PROVE TypeOK'
  <2>1. LateSlot \in 0..(Size - 1)
    BY <1>0 DEF LateSlot
  <2> QED BY <1>9, <2>1 DEF ReadSlotLate, ringVars, isrVars, mouseVars, Locations
<1>10. ASSUME EnterFrame \/ RingEmpty \/ DispatchEvent \/ PollStill PROVE TypeOK'
  BY <1>10 DEF EnterFrame, RingEmpty, DispatchEvent, PollStill,
               ringVars, isrVars, mouseVars, Locations
<1>11. ASSUME PollX \/ PollY \/ ClearX \/ ClearY PROVE TypeOK'
  <2>1. moved' \in Motion /\ delta' \in Motion
    BY <1>11 DEF PollX, PollY, ClearX, ClearY, Motion
  <2> QED BY <1>11, <2>1 DEF PollX, PollY, ClearX, ClearY, ringVars, isrVars, Locations
<1>12. ASSUME DispatchMotion PROVE TypeOK'
  BY <1>12, MotionType DEF DispatchMotion, ringVars, isrVars, Still, Motion, Locations
<1>13. ASSUME UNCHANGED vars PROVE TypeOK'
  BY <1>13 DEF vars, ringVars, isrVars, mouseVars, mainVars
<1> QED
  BY <1>1, <1>2, <1>3, <1>4, <1>5, <1>6, <1>7, <1>8, <1>9, <1>10, <1>11, <1>12, <1>13
  DEF Next, Handler, Report, IN_Frame, Drain, Poll

\* The ring, the handlers' pending calls and IN_Frame's locals keep their types
\* through every interleaving (kernel.cpp, circle_input.c).
THEOREM TypeCorrect == Spec => []TypeOK
<1>1. Init => TypeOK
  BY RingAssumption DEF Init, TypeOK, NoEvent, Still, Motion, Locations
<1> QED BY <1>1, TypeStep, PTL DEF Spec

-----------------------------------------------------------------------------
(* The ring implements the bounded FIFO.                                      *)

\* What holds between the accesses of the two sides to the ring:
\*   - a filled and unpublished slot is the one at head, it holds the event,
\*     and publishing it does not make the ring look empty;
\*   - the slots in use, and the one IN_Frame has just left, hold key events;
\*   - the copy made before g_queueTail moves is still that of the slot.
InUse(s, h, t) == IF t <= h THEN t <= s /\ s < h ELSE t <= s \/ s < h
RingInv ==
  /\ TypeOK
  /\ \A c \in pushing : /\ c.event \in Event
                       /\ ring[head] = c.event
                       /\ NextSlot(head) # tail
  /\ \A s \in 0..(Size - 1) : InUse(s, head, tail) => ring[s] \in Event
  /\ pc = "late" => ring[LateSlot] \in Event
  /\ pc = "advance" => tail # head /\ ev = ring[tail]
  /\ pc = "dispatch" => ev \in Event

\* Every step keeps the slots between tail and head filled and the hand valid.
LEMMA RingInvStep == RingInv /\ [Next]_vars => RingInv'
<1> SUFFICES ASSUME RingInv, [Next]_vars PROVE RingInv'
  OBVIOUS
<1>0. Size \in Nat /\ Size > 1 /\ TypeOK'
  BY RingAssumption, TypeStep DEF RingInv
<1> USE <1>0 DEF RingInv, InUse
<1>1. ASSUME NEW bits \in SUBSET Bits, NEW codes \in SUBSET Scancodes,
             KeyStatusHandlerRaw(bits, codes)
      PROVE  RingInv'
  BY <1>1 DEF KeyStatusHandlerRaw, ringVars, mainVars, LateSlot
<1>2. ASSUME NEW buttons \in SUBSET Buttons, NEW move \in Moves,
             NEW wheel \in {{}, {WheelUp}, {WheelDown}},
             MouseStatusHandler(buttons, move, wheel)
      PROVE  RingInv'
  BY <1>2 DEF MouseStatusHandler, ringVars, mainVars, LateSlot
<1>3. ASSUME NEW c \in todo, PushUnmapped(c) \/ PushFull(c) PROVE RingInv'
  BY <1>3 DEF PushUnmapped, PushFull, ringVars, mainVars, LateSlot
<1>4. ASSUME NEW c \in todo, PushStore(c) PROVE RingInv'
  <2>1. c.event \in Event /\ pushing' = {c} /\ head' = head /\ tail' = tail
        /\ ring' = [ring EXCEPT ![head] = c.event] /\ pc' = pc /\ ev' = ev
    BY <1>4 DEF PushStore, Calls, Event, TypeOK, mainVars
  <2>2. head \in 0..(Size - 1) /\ tail \in 0..(Size - 1)
        /\ ring \in [0..(Size - 1) -> Event \union {NoEvent}]
    BY DEF TypeOK
  <2>3. NextSlot(head) # tail /\ NextSlot(head) = IF head + 1 = Size THEN 0 ELSE head + 1
    BY <1>4, <2>2, NextSlotIs DEF PushStore
  <2>4. ring'[head] = c.event /\ \A s \in 0..(Size - 1) : s # head => ring'[s] = ring[s]
    BY <2>1, <2>2
  <2>5. LateSlot \in 0..(Size - 1) /\ LateSlot # head /\ LateSlot' = LateSlot
    BY <2>1, <2>2, <2>3 DEF LateSlot
  <2>6. NextSlot(head)' = NextSlot(head)
    BY <2>1 DEF NextSlot
  <2> QED BY <2>1, <2>2, <2>3, <2>4, <2>5, <2>6
<1>5. ASSUME NEW c \in pushing, PushPublish(c) PROVE RingInv'
  <2>1. head \in 0..(Size - 1) /\ tail \in 0..(Size - 1)
    BY DEF TypeOK
  <2>2. head' = IF head + 1 = Size THEN 0 ELSE head + 1
    BY <1>5, <2>1, NextSlotIs DEF PushPublish
  <2>3. head' # tail /\ pushing' = {} /\ tail' = tail /\ ring' = ring /\ pc' = pc /\ ev' = ev
    BY <1>5 DEF PushPublish, mainVars
  <2>4. \A s \in 0..(Size - 1) : InUse(s, head', tail') => InUse(s, head, tail) \/ s = head
    BY <2>1, <2>2, <2>3
  <2>5. LateSlot' = LateSlot
    BY <2>3 DEF LateSlot
  <2> QED BY <2>1, <2>3, <2>4, <2>5
<1>6. ASSUME ReadSlot PROVE RingInv'
  BY <1>6 DEF ReadSlot, ringVars, isrVars
<1>7. ASSUME AdvanceTail \/ AdvanceTailFirst PROVE RingInv'
  <2>1. head \in 0..(Size - 1) /\ tail \in 0..(Size - 1) /\ tail # head
    BY <1>7 DEF TypeOK, AdvanceTail, AdvanceTailFirst
  <2>2. tail' = IF tail + 1 = Size THEN 0 ELSE tail + 1
    BY <1>7, <2>1, NextSlotIs DEF AdvanceTail, AdvanceTailFirst
  <2>3. UNCHANGED <<ring, head, pushing, ev>>
    BY <1>7 DEF AdvanceTail, AdvanceTailFirst, isrVars
  <2>4. \A s \in 0..(Size - 1) : InUse(s, head', tail') => InUse(s, head, tail)
    BY <2>1, <2>2, <2>3
  <2>5. LateSlot' = tail /\ ring[tail] \in Event
    BY <2>1, <2>2 DEF LateSlot
  <2>6. NextSlot(head) = (IF head + 1 = Size THEN 0 ELSE head + 1) /\ NextSlot(head)' = NextSlot(head)
    BY <2>1, <2>3, NextSlotIs DEF NextSlot
  <2>7. NextSlot(head) # tail'
    BY <2>1, <2>2, <2>6
  <2>8. pc' \in {"dispatch", "late"} /\ (pc' = "dispatch" => ev = ring[tail])
    BY <1>7 DEF AdvanceTail, AdvanceTailFirst
  <2> QED BY <2>3, <2>4, <2>5, <2>6, <2>7, <2>8
<1>8. ASSUME ReadSlotLate PROVE RingInv'
  BY <1>8 DEF ReadSlotLate, ringVars, isrVars
<1>9. ASSUME EnterFrame \/ RingEmpty \/ DispatchEvent \/ Poll PROVE RingInv'
  BY <1>9 DEF EnterFrame, RingEmpty, DispatchEvent, Poll, PollStill, PollX, PollY,
              ClearX, ClearY, DispatchMotion, ringVars, isrVars
<1>10. ASSUME UNCHANGED vars PROVE RingInv'
  BY <1>10 DEF vars, ringVars, isrVars, mainVars, LateSlot
<1> QED
  BY <1>1, <1>2, <1>3, <1>4, <1>5, <1>6, <1>7, <1>8, <1>9, <1>10
  DEF Next, Handler, Report, IN_Frame, Drain

\* The inductive invariant of the ring holds in every reachable state.
LEMMA RingInvAlways == Spec => []RingInv
<1>1. Init => RingInv
  BY RingAssumption DEF Init, RingInv, InUse, TypeOK, NoEvent, Still, Motion, Locations
<1> QED BY <1>1, RingInvStep, PTL DEF Spec

\* Every slot in use between tail t and head h of ring r holds an event.
Filled(r, h, t) == \A s \in 0..(Size - 1) : InUse(s, h, t) => r[s] \in Event

\* Sequence q holds, in order, the slots in use between t and h of ring r.
Holds(q, r, h, t) ==
  /\ q \in Seq(Event) /\ Len(q) = Count(h, t)
  /\ \A i \in 1..Count(h, t) : q[i] = r[SlotAt(t, i - 1)]

\* The slots counted from tail are slots in use.
LEMMA SlotsInUse ==
  ASSUME NEW h \in 0..(Size - 1), NEW t \in 0..(Size - 1)
  PROVE  /\ Count(h, t) \in 0..(Size - 1)
         /\ \A i \in 1..Count(h, t) :
              SlotAt(t, i - 1) \in 0..(Size - 1) /\ InUse(SlotAt(t, i - 1), h, t)
<1>1. Size \in Nat /\ Size > 1
  BY RingAssumption
<1>2. Count(h, t) \in 0..(Size - 1)
  BY <1>1 DEF Count
<1>3. ASSUME NEW i \in 1..Count(h, t)
      PROVE  SlotAt(t, i - 1) \in 0..(Size - 1) /\ InUse(SlotAt(t, i - 1), h, t)
  BY <1>1, <1>3 DEF Count, SlotAt, InUse
<1> QED BY <1>2, <1>3

\* The queue a ring stands for: its length and its elements.
LEMMA QueueShape ==
  ASSUME NEW r, NEW h \in 0..(Size - 1), NEW t \in 0..(Size - 1), Filled(r, h, t)
  PROVE  Holds(Contents(r, h, t), r, h, t)
<1>1. Count(h, t) \in Nat
  BY RingAssumption, SlotsInUse
<1>2. ASSUME NEW i \in 1..Count(h, t) PROVE r[SlotAt(t, i - 1)] \in Event
  <2>1. SlotAt(t, i - 1) \in 0..(Size - 1) /\ InUse(SlotAt(t, i - 1), h, t)
    BY SlotsInUse
  <2>2. ASSUME NEW s \in 0..(Size - 1), InUse(s, h, t) PROVE r[s] \in Event
    BY <2>2 DEF Filled
  <2> QED BY <2>1, <2>2
<1> QED BY <1>1, <1>2 DEF Contents, Holds

\* Two sequences of one length that agree at every index are one sequence.
LEMMA SameSeq ==
  ASSUME NEW S, NEW s \in Seq(S), NEW t \in Seq(S), Len(s) = Len(t),
         \A i \in 1..Len(s) : s[i] = t[i]
  PROVE  s = t
  OBVIOUS

\* A ring whose slots in use are the same stands for the same queue.
LEMMA QueueSame ==
  ASSUME NEW r, NEW q, NEW h \in 0..(Size - 1), NEW t \in 0..(Size - 1),
         \A s \in 0..(Size - 1) : InUse(s, h, t) => r[s] \in Event /\ q[s] = r[s]
  PROVE  Contents(q, h, t) = Contents(r, h, t)
<1>0. Filled(r, h, t)
  BY DEF Filled
<1>1. Holds(Contents(r, h, t), r, h, t)
  BY <1>0, QueueShape
<1>2. Filled(q, h, t)
  BY DEF Filled
<1>3. Holds(Contents(q, h, t), q, h, t)
  BY <1>2, QueueShape
<1>4. ASSUME NEW i \in 1..Count(h, t) PROVE Contents(q, h, t)[i] = Contents(r, h, t)[i]
  <2>1. q[SlotAt(t, i - 1)] = r[SlotAt(t, i - 1)]
    BY SlotsInUse
  <2> QED BY <1>1, <1>3, <2>1 DEF Holds
<1> QED BY <1>1, <1>3, <1>4, SameSeq DEF Holds

\* Publishing the slot at head appends what it holds.
LEMMA QueueAppend ==
  ASSUME NEW r, NEW h \in 0..(Size - 1), NEW t \in 0..(Size - 1), NEW e \in Event,
         Filled(r, h, t), r[h] = e, NextSlot(h) # t
  PROVE  /\ Count(h, t) < Size - 1
         /\ Contents(r, NextSlot(h), t) = Append(Contents(r, h, t), e)
<1> DEFINE n == Count(h, t)
           old == Contents(r, h, t)
           new == Contents(r, NextSlot(h), t)
<1>1. Size \in Nat /\ Size > 1 /\ NextSlot(h) \in 0..(Size - 1)
      /\ NextSlot(h) = IF h + 1 = Size THEN 0 ELSE h + 1
  BY RingAssumption, NextSlotIs
<1>2. Count(NextSlot(h), t) = n + 1 /\ n < Size - 1 /\ SlotAt(t, n) = h
  BY <1>1 DEF Count, SlotAt
<1>3. Filled(r, NextSlot(h), t)
  BY <1>1 DEF InUse, Filled
<1>4. old \in Seq(Event) /\ Len(old) = n
      /\ \A i \in 1..n : old[i] = r[SlotAt(t, i - 1)]
  <2>1. Holds(Contents(r, h, t), r, h, t)
    BY QueueShape
  <2> QED BY <2>1 DEF Holds
<1>5. new \in Seq(Event) /\ Len(new) = n + 1
      /\ \A i \in 1..(n + 1) : new[i] = r[SlotAt(t, i - 1)]
  <2>1. Holds(Contents(r, NextSlot(h), t), r, NextSlot(h), t)
    BY <1>1, <1>3, QueueShape
  <2> QED BY <1>2, <2>1 DEF Holds
<1>6. Append(old, e) \in Seq(Event) /\ Len(Append(old, e)) = n + 1
      /\ \A i \in 1..(n + 1) : Append(old, e)[i] = IF i = n + 1 THEN e ELSE old[i]
  BY <1>4
<1>7. n \in Nat
  BY SlotsInUse
<1>8. \A i \in 1..(n + 1) : new[i] = Append(old, e)[i]
  <2> HIDE DEF n, old, new
  <2>1. SUFFICES ASSUME NEW i \in 1..(n + 1) PROVE new[i] = Append(old, e)[i]
    OBVIOUS
  <2>2. new[i] = r[SlotAt(t, i - 1)]
    BY <1>5
  <2>3. CASE i = n + 1
    <3>1. i - 1 = n
      BY <1>7, <2>3
    <3> QED BY <1>2, <1>6, <2>2, <2>3, <3>1
  <2>4. CASE i # n + 1
    <3>1. i \in 1..n
      BY <1>7, <2>4
    <3> QED BY <1>4, <1>6, <2>2, <2>4, <3>1
  <2> QED BY <2>3, <2>4
<1> QED BY <1>2, <1>5, <1>6, <1>8, SameSeq

\* Moving tail takes the oldest event out.
LEMMA QueueTail ==
  ASSUME NEW r, NEW h \in 0..(Size - 1), NEW t \in 0..(Size - 1), h # t, Filled(r, h, t)
  PROVE  /\ Contents(r, h, t) # <<>>
         /\ Head(Contents(r, h, t)) = r[t]
         /\ Contents(r, h, NextSlot(t)) = Tail(Contents(r, h, t))
<1> DEFINE n == Count(h, t)
           old == Contents(r, h, t)
           new == Contents(r, h, NextSlot(t))
<1>1. Size \in Nat /\ Size > 1 /\ NextSlot(t) \in 0..(Size - 1)
      /\ NextSlot(t) = IF t + 1 = Size THEN 0 ELSE t + 1
  BY RingAssumption, NextSlotIs
<1>2. n \in 1..(Size - 1) /\ Count(h, NextSlot(t)) = n - 1 /\ SlotAt(t, 0) = t
  BY <1>1 DEF Count, SlotAt
<1>3. \A i \in 1..(n - 1) : SlotAt(NextSlot(t), i - 1) = SlotAt(t, i)
  BY <1>1, <1>2 DEF SlotAt
<1>4. Filled(r, h, NextSlot(t))
  BY <1>1 DEF InUse, Filled
<1>5. old \in Seq(Event) /\ Len(old) = n
      /\ \A i \in 1..n : old[i] = r[SlotAt(t, i - 1)]
  <2>1. Holds(Contents(r, h, t), r, h, t)
    BY QueueShape
  <2> QED BY <2>1 DEF Holds
<1>6. new \in Seq(Event) /\ Len(new) = n - 1
      /\ \A i \in 1..(n - 1) : new[i] = r[SlotAt(NextSlot(t), i - 1)]
  <2>1. Holds(Contents(r, h, NextSlot(t)), r, h, NextSlot(t))
    BY <1>1, <1>4, QueueShape
  <2> QED BY <1>2, <2>1 DEF Holds
<1>7. old # <<>> /\ Head(old) = r[t]
  BY <1>2, <1>5
<1>8. Tail(old) \in Seq(Event) /\ Len(Tail(old)) = n - 1
      /\ \A i \in 1..(n - 1) : Tail(old)[i] = old[i + 1]
  BY <1>2, <1>5, <1>7
<1>9. \A i \in 1..(n - 1) : new[i] = Tail(old)[i]
  <2>1. SUFFICES ASSUME NEW i \in 1..(n - 1) PROVE new[i] = Tail(old)[i]
    OBVIOUS
  <2>2. i + 1 \in 1..n /\ (i + 1) - 1 = i
    BY <1>2
  <2>3. old[i + 1] = r[SlotAt(t, i)]
    BY <1>5, <2>2
  <2>4. new[i] = r[SlotAt(t, i)]
    BY <1>3, <1>6
  <2>5. Tail(old)[i] = old[i + 1]
    BY <1>8
  <2> QED BY <2>3, <2>4, <2>5
<1> QED BY <1>6, <1>7, <1>8, <1>9, SameSeq

-----------------------------------------------------------------------------
(* Every step of the ring is a step of the FIFO or leaves it alone.           *)

LEMMA RingShape ==
  ASSUME RingInv
  PROVE  /\ Size \in Nat /\ Size > 1 /\ head \in 0..(Size - 1) /\ tail \in 0..(Size - 1)
         /\ ring \in [0..(Size - 1) -> Event \union {NoEvent}]
         /\ Filled(ring, head, tail)
         /\ Holds(Queue, ring, head, tail)
<1>1. Filled(ring, head, tail) /\ head \in 0..(Size - 1) /\ tail \in 0..(Size - 1)
  BY DEF RingInv, TypeOK, Filled
<1>2. Holds(Queue, ring, head, tail)
  BY <1>1, QueueShape DEF Queue
<1> QED BY <1>1, <1>2, RingAssumption DEF RingInv, TypeOK

\* A full ring drops the event.
LEMMA PushFullLoses ==
  ASSUME RingInv, NEW c \in todo, PushFull(c)
  PROVE  /\ c.event \in Event /\ Len(Queue) = Size - 1
         /\ UNCHANGED <<Queue, Hand>> /\ lost' = lost \union {c.event.key}
<1>1. Count(head, tail) = Size - 1
  <2>1. /\ tail = IF head + 1 = Size THEN 0 ELSE head + 1
        /\ Size \in Nat /\ head \in 0..(Size - 1)
    BY RingShape, NextSlotIs DEF PushFull
  <2> QED BY <2>1 DEF Count
<1>2. Len(Queue) = Size - 1
  BY <1>1, RingShape DEF Holds
<1>3. UNCHANGED <<Queue, Hand>>
  BY DEF PushFull, ringVars, mainVars, Queue, Hand, LateSlot
<1>4. c.event \in Event
  BY DEF PushFull, RingInv, TypeOK, Calls, Event
<1> QED BY <1>2, <1>3, <1>4 DEF PushFull

\* Filling the free slot changes nothing for IN_Frame.
LEMMA PushStoreHides ==
  ASSUME RingInv, NEW c \in todo, PushStore(c)
  PROVE  UNCHANGED <<Queue, Hand, lost>>
<1>1. ring' = [ring EXCEPT ![head] = c.event]
      /\ UNCHANGED <<head, tail, pc, ev, lost>>
  BY DEF PushStore, mainVars
<1>2. NextSlot(head) # tail /\ NextSlot(head) = IF head + 1 = Size THEN 0 ELSE head + 1
  BY RingShape, NextSlotIs DEF PushStore
<1>3. \A s \in 0..(Size - 1) : InUse(s, head, tail) => ring'[s] = ring[s]
  BY RingShape, <1>1 DEF InUse
<1>4. LateSlot \in 0..(Size - 1) /\ LateSlot # head /\ LateSlot' = LateSlot
  BY RingShape, <1>1, <1>2 DEF LateSlot
<1>5. Queue' = Queue
  <2>1. \A s \in 0..(Size - 1) : InUse(s, head, tail) =>
          ring[s] \in Event /\ ring'[s] = ring[s]
    BY RingShape, <1>3 DEF Filled
  <2>2. Contents(ring', head, tail) = Contents(ring, head, tail)
    BY RingShape, <2>1, QueueSame, ZenonT(60)
  <2> QED BY <1>1, <2>2 DEF Queue
<1>6. Hand' = Hand
  BY RingShape, <1>1, <1>4 DEF Hand
<1> QED BY <1>1, <1>5, <1>6

\* Moving g_queueHead appends the event.
LEMMA PublishAppends ==
  ASSUME RingInv, NEW c \in pushing, PushPublish(c)
  PROVE  /\ c.event \in Event /\ Len(Queue) < Size - 1
         /\ Queue' = Append(Queue, c.event) /\ Hand' = Hand
         /\ lost' = lost \ {c.event.key}
<1>1. head' = NextSlot(head) /\ lost' = lost \ {c.event.key}
      /\ UNCHANGED <<ring, tail, pc, ev>>
  BY DEF PushPublish, mainVars
<1>2. c.event \in Event /\ ring[head] = c.event /\ NextSlot(head) # tail
  BY DEF RingInv
<1>3. Count(head, tail) < Size - 1
  BY RingShape, <1>2, QueueAppend
<1>4. Len(Queue) < Size - 1
  BY <1>3, RingShape DEF Holds
<1>5. Queue' = Append(Queue, c.event)
  BY RingShape, <1>1, <1>2, QueueAppend DEF Queue
<1>6. Hand' = Hand
  BY <1>1 DEF Hand, LateSlot
<1> QED BY <1>1, <1>2, <1>4, <1>5, <1>6

\* Moving g_queueTail takes the oldest event.
LEMMA AdvanceTakes ==
  ASSUME RingInv, AdvanceTail \/ AdvanceTailFirst
  PROVE  /\ Hand = <<>> /\ Queue # <<>> /\ Hand' = <<Head(Queue)>>
         /\ Queue' = Tail(Queue) /\ UNCHANGED lost
<1>1. tail # head /\ pc \in {"advance", "ring"} /\ tail' = NextSlot(tail)
      /\ UNCHANGED <<ring, head, ev, lost>>
  BY DEF AdvanceTail, AdvanceTailFirst, isrVars, RingInv
<1>2. Hand = <<>>
  BY <1>1 DEF Hand
<1>3. Hand' = <<ring[tail]>>
  <2>1. CASE AdvanceTail
    BY <1>1, <2>1 DEF AdvanceTail, Hand, RingInv
  <2>2. CASE AdvanceTailFirst
    <3>1. tail' = IF tail + 1 = Size THEN 0 ELSE tail + 1
      BY RingShape, <1>1, NextSlotIs
    <3>2. LateSlot' = tail
      BY RingShape, <3>1 DEF LateSlot
    <3>3. pc' = "late"
      BY <2>2 DEF AdvanceTailFirst
    <3> QED BY <1>1, <3>2, <3>3 DEF Hand
  <2> QED BY <2>1, <2>2
<1>4. Queue # <<>> /\ Head(Queue) = ring[tail] /\ Queue' = Tail(Queue)
  <2>1. Contents(ring, head, tail) # <<>> /\ Head(Contents(ring, head, tail)) = ring[tail]
        /\ Contents(ring, head, NextSlot(tail)) = Tail(Contents(ring, head, tail))
    BY RingShape, <1>1, QueueTail
  <2> QED BY <1>1, <2>1 DEF Queue
<1> QED BY <1>1, <1>2, <1>3, <1>4

\* The steps that leave the queue, the hand and the losses alone.
LEMMA QuietSteps ==
  ASSUME \/ ReadSlot \/ EnterFrame \/ RingEmpty \/ Poll \/ ReadSlotLate
         \/ Report \/ \E c \in todo : PushUnmapped(c)
         \/ UNCHANGED vars
  PROVE  UNCHANGED <<Queue, Hand, lost>>
<1>1. ASSUME UNCHANGED ringVars, UNCHANGED mainVars, UNCHANGED lost
      PROVE  UNCHANGED <<Queue, Hand, lost>>
  BY <1>1 DEF ringVars, mainVars, Queue, Hand, LateSlot
<1>2. ASSUME ReadSlot \/ EnterFrame \/ RingEmpty \/ Poll
      PROVE  UNCHANGED <<Queue, Hand, lost>>
  <2>1. UNCHANGED <<ring, head, tail, lost>>
    BY <1>2 DEF ReadSlot, EnterFrame, RingEmpty, Poll, PollStill, PollX, PollY,
                ClearX, ClearY, DispatchMotion, ringVars, isrVars
  <2>2. Hand = <<>> /\ Hand' = <<>>
    BY <1>2 DEF ReadSlot, EnterFrame, RingEmpty, Poll, PollStill, PollX, PollY,
                ClearX, ClearY, DispatchMotion, Hand
  <2> QED BY <2>1, <2>2 DEF Queue
<1>3. ASSUME ReadSlotLate PROVE UNCHANGED <<Queue, Hand, lost>>
  BY <1>3 DEF ReadSlotLate, ringVars, isrVars, Queue, Hand
<1>4. ASSUME Report \/ \E c \in todo : PushUnmapped(c)
      PROVE  UNCHANGED <<Queue, Hand, lost>>
  BY <1>1, <1>4 DEF Report, KeyStatusHandlerRaw, MouseStatusHandler, PushUnmapped
<1>5. ASSUME UNCHANGED vars PROVE UNCHANGED <<Queue, Hand, lost>>
  BY <1>1, <1>5 DEF vars, isrVars
<1> QED BY <1>2, <1>3, <1>4, <1>5

\* Handing the event over empties the hand.
LEMMA DispatchHandsOver ==
  ASSUME DispatchEvent
  PROVE  Hand = <<ev>> /\ Hand' = <<>> /\ UNCHANGED <<Queue, lost>>
<1>1. Hand = <<ev>> /\ Hand' = <<>>
  BY DEF DispatchEvent, Hand
<1> QED BY <1>1 DEF DispatchEvent, ringVars, isrVars, Queue

\* Every step is a step of the bounded FIFO or leaves it as it is.
LEMMA RefinementStep ==
  RingInv /\ [Next]_vars => [Abstract!Next]_(Abstract!vars)
<1> SUFFICES ASSUME RingInv, [Next]_vars
             PROVE  Abstract!Next \/ UNCHANGED <<Queue, Hand, lost>>
  BY DEF Abstract!vars
<1>1. ASSUME NEW c \in todo, PushFull(c) PROVE Abstract!Lose(c.event) /\ c.event \in Event
  BY <1>1, PushFullLoses DEF Abstract!Lose
<1>2. ASSUME NEW c \in todo, PushStore(c) PROVE UNCHANGED <<Queue, Hand, lost>>
  BY <1>2, PushStoreHides
<1>3. ASSUME NEW c \in pushing, PushPublish(c)
      PROVE  Abstract!Put(c.event) /\ c.event \in Event
  BY <1>3, PublishAppends DEF Abstract!Put
<1>4. ASSUME AdvanceTail \/ AdvanceTailFirst PROVE Abstract!Take
  BY <1>4, AdvanceTakes DEF Abstract!Take
<1>5. ASSUME DispatchEvent PROVE Abstract!Dispatch
  BY <1>5, DispatchHandsOver DEF Abstract!Dispatch
<1> QED
  BY <1>1, <1>2, <1>3, <1>4, <1>5, QuietSteps
  DEF Next, Handler, IN_Frame, Drain, Abstract!Next

\* For every size of the ring and every interleaving the lock-free ring of
\* PushKeyEvent and IN_Frame is a bounded FIFO: no event is overwritten, lost
\* below capacity, repeated or reordered.
THEOREM RingImplementsFifo == Spec => RingIsFifo
<1>1. Init => Abstract!Init
  <2>1. ASSUME Init PROVE Queue = <<>> /\ Hand = <<>> /\ lost = {}
    <3>1. Count(head, tail) = 0
      BY <2>1 DEF Init, Count
    <3> QED BY <2>1, <3>1 DEF Init, Queue, Contents, Hand
  <2> QED BY <2>1 DEF Abstract!Init
<1> QED
  BY <1>1, RingInvAlways, RefinementStep, PTL DEF Spec, RingIsFifo, Abstract!Spec

-----------------------------------------------------------------------------
(* What an interrupt may do to the slot IN_Frame is about to copy.            *)

\* No interleaving overwrites a slot between g_queueTail's passing it and the
\* copy, so the missing barrier in IN_Frame is harmless.
THEOREM SlotIsSafe == Spec => SlotSafe
<1> DEFINE Safe == /\ pc = "ring" /\ tail # head => ring'[tail] = ring[tail]
                   /\ pc = "late" => ring'[LateSlot] = ring[LateSlot]
<1>1. RingInv /\ [Next]_vars => [Safe]_vars
  <2> SUFFICES ASSUME RingInv, [Next]_vars PROVE Safe
    OBVIOUS
  <2>0. Size \in Nat /\ Size > 1 /\ head \in 0..(Size - 1) /\ tail \in 0..(Size - 1)
        /\ ring \in [0..(Size - 1) -> Event \union {NoEvent}]
    BY RingAssumption DEF RingInv, TypeOK
  <2>1. ASSUME NEW c \in todo, PushStore(c) PROVE Safe
    <3>1. NextSlot(head) # tail /\ NextSlot(head) = IF head + 1 = Size THEN 0 ELSE head + 1
      BY <2>0, <2>1, NextSlotIs DEF PushStore
    <3>2. LateSlot \in 0..(Size - 1) /\ LateSlot # head
      BY <2>0, <3>1 DEF LateSlot
    <3>3. ring' = [ring EXCEPT ![head] = c.event]
      BY <2>1 DEF PushStore
    <3> QED BY <2>0, <3>2, <3>3
  <2>2. ASSUME UNCHANGED ring PROVE Safe
    BY <2>2
  <2>3. (\E c \in todo : PushStore(c)) \/ UNCHANGED ring
    BY DEF Next, Handler, Report, KeyStatusHandlerRaw, MouseStatusHandler, PushUnmapped,
           PushFull, PushPublish, IN_Frame, EnterFrame, Drain, RingEmpty, ReadSlot,
           AdvanceTail, AdvanceTailFirst, ReadSlotLate, DispatchEvent, Poll, PollStill,
           PollX, PollY, ClearX, ClearY, DispatchMotion, vars, ringVars
  <2> QED BY <2>1, <2>2, <2>3
<1> QED BY <1>1, RingInvAlways, PTL DEF Spec, SlotSafe

-----------------------------------------------------------------------------
(* Mouse motion.                                                              *)

\* The accumulators only grow between the reads of IN_Frame and its stores of
\* zero, so what a store wipes out is at least what was read.
MotionInv ==
  /\ TypeOK
  /\ MotionNotInvented
  /\ pc \in {"y", "clearX"} => moved.x <= delta.x
  /\ pc \in {"clearX", "clearY"} => moved.y <= delta.y

\* Every step keeps the motion passed on within what was reported.
LEMMA MotionStep ==
  ASSUME \A m \in Moves : m.x >= 0 /\ m.y >= 0
  PROVE  MotionInv /\ [Next]_vars => MotionInv'
<1> SUFFICES ASSUME MotionInv, [Next]_vars PROVE MotionInv'
  OBVIOUS
<1>0. TypeOK /\ TypeOK' /\ \A v \in {delta, moved, total, used} : v.x \in Int /\ v.y \in Int
  BY TypeStep DEF MotionInv, TypeOK, Motion
<1>1. ASSUME NEW buttons \in SUBSET Buttons, NEW move \in Moves,
             NEW wheel \in {{}, {WheelUp}, {WheelDown}},
             MouseStatusHandler(buttons, move, wheel)
      PROVE  MotionInv'
  <2>1. move.x \in Int /\ move.y \in Int /\ move.x >= 0 /\ move.y >= 0
    BY RingAssumption DEF Motion
  <2> QED BY <1>0, <1>1, <2>1 DEF MouseStatusHandler, MotionInv, MotionNotInvented, Plus, mainVars
<1>2. ASSUME PollX \/ PollY \/ PollStill PROVE MotionInv'
  BY <1>0, <1>2 DEF PollX, PollY, PollStill, mouseVars, MotionInv, MotionNotInvented
<1>3. ASSUME ClearX \/ ClearY PROVE MotionInv'
  BY <1>0, <1>3 DEF ClearX, ClearY, MotionInv, MotionNotInvented
<1>4. ASSUME DispatchMotion PROVE MotionInv'
  BY <1>0, <1>4 DEF DispatchMotion, MotionInv, MotionNotInvented, Plus
<1>5. ASSUME EnterFrame \/ Drain PROVE MotionInv'
  BY <1>0, <1>5 DEF EnterFrame, Drain, RingEmpty, ReadSlot, AdvanceTail, AdvanceTailFirst,
                    ReadSlotLate, DispatchEvent, mouseVars, MotionInv, MotionNotInvented
<1>6. ASSUME UNCHANGED mouseVars, UNCHANGED mainVars PROVE MotionInv'
  BY <1>0, <1>6 DEF mouseVars, mainVars, MotionInv, MotionNotInvented
<1>7. ASSUME NEW bits \in SUBSET Bits, NEW codes \in SUBSET Scancodes,
             KeyStatusHandlerRaw(bits, codes)
      PROVE  MotionInv'
  BY <1>6, <1>7 DEF KeyStatusHandlerRaw
<1>8. ASSUME NEW c, PushUnmapped(c) \/ PushFull(c) \/ PushStore(c) \/ PushPublish(c)
      PROVE  MotionInv'
  BY <1>6, <1>8 DEF PushUnmapped, PushFull, PushStore, PushPublish
<1>9. ASSUME UNCHANGED vars PROVE MotionInv'
  BY <1>6, <1>9 DEF vars
<1> QED BY <1>1, <1>2, <1>3, <1>4, <1>5, <1>7, <1>8, <1>9
        DEF Next, Handler, Report, IN_Frame, Poll

\* A mouse that moves in one direction never sees more motion arrive in the
\* engine than it reported, for every race of its reports with IN_Frame.
THEOREM MotionIsNotInvented ==
  ASSUME \A m \in Moves : m.x >= 0 /\ m.y >= 0
  PROVE  Spec => []MotionNotInvented
<1>1. Init => MotionInv
  BY RingAssumption DEF Init, MotionInv, MotionNotInvented, TypeOK, NoEvent, Still,
                        Motion, Locations
<1>2. MotionInv /\ [Next]_vars => MotionInv'
  BY MotionStep
<1>3. MotionInv => MotionNotInvented
  BY DEF MotionInv
<1> QED BY <1>1, <1>2, <1>3, PTL DEF Spec

-----------------------------------------------------------------------------
(* The event queues of the engine.                                            *)

\* What is queued, with the keycodes that can be.
EngineEvents ==
  [type : {"key"}, key : (Keys \ {Console}) \union {K_CONSOLE}, down : BOOLEAN]
    \union [type : {"char"}, key : Keys] \union [type : {"mouse"}, move : Motion]

\* Any set of natural numbers but the empty one has a least number: induction,
\* without an operator for the provers to instantiate.
LEMMA LeastNatural ==
  ASSUME NEW T \in SUBSET Nat, T # {}
  PROVE  \E m \in T : \A k \in T : m <= k
<1>1. PICK n \in T : TRUE
  OBVIOUS
<1> DEFINE S == 0..n
           Below(k) == T \intersect (0..k)
           F == {Below(k) : k \in T \intersect S}
           R == StrictSubsetOrdering(S)
<1>2. n \in Nat /\ T \subseteq Nat
  OBVIOUS
<1>3. IsFiniteSet(S)
  BY <1>2, FS_Interval
<1>4. F \subseteq FiniteSubsetsOf(S)
  <2>1. FiniteSubsetsOf(S) = SUBSET S
    BY <1>3, FS_FiniteSubsetsOfFinite
  <2> QED BY <1>2, <2>1
<1>5. F # {}
  <2>1. n \in T \intersect S
    BY <1>2
  <2>2. Below(n) \in F
    BY <2>1
  <2> QED BY <2>2
<1>6. IsWellFoundedOn(R, FiniteSubsetsOf(S))
  BY FS_StrictSubsetOrderingWellFounded
<1> HIDE DEF R, F
<1>7. PICK x \in F : \A y \in F : <<y, x>> \notin R
  BY <1>4, <1>5, <1>6, WFMin
<1>8. PICK m \in T \intersect S : x = Below(m)
  BY DEF F
<1>9. ASSUME NEW k \in T, k < m PROVE FALSE
  <2>1. k \in T \intersect S /\ m \in Nat /\ k \in Nat
    BY <1>2, <1>8, <1>9
  <2>2. Below(k) \in F
    BY <2>1 DEF F
  <2>3. Below(k) \subseteq Below(m) /\ Below(k) # Below(m)
    BY <1>8, <1>9, <2>1
  <2>4. Below(k) \in SUBSET S /\ Below(m) \in SUBSET S
    BY <1>2, <1>8, <2>1
  <2>5. <<Below(k), Below(m)>> \in R
    BY <2>3, <2>4 DEF R, StrictSubsetOrdering
  <2> QED BY <1>7, <1>8, <2>2, <2>5
<1> QED BY <1>2, <1>8, <1>9

-----------------------------------------------------------------------------
(* The motion of a sequence of events.                                        *)

\* f has the sums over the first events of s.
Sums(s, f) ==
  /\ f \in [0..Len(s) -> Motion]
  /\ f[0] = Still
  /\ \A i \in 1..Len(s) : f[i] = Plus(f[i - 1], Share(s[i]))

LEMMA ShareType ==
  ASSUME NEW e \in EngineEvents
  PROVE  Share(e) \in Motion
BY DEF EngineEvents, Share, Motion, Still

\* Sums over events that agree are the same sums.
LEMMA SumsAgree ==
  ASSUME NEW s \in Seq(EngineEvents), NEW t \in Seq(EngineEvents), NEW f, NEW g,
         Sums(s, f), Sums(t, g), NEW n \in Nat, n <= Len(s), n <= Len(t),
         \A i \in 1..n : s[i] = t[i]
  PROVE  f[n] = g[n]
<1> DEFINE T == {i \in 0..n : f[i] # g[i]}
<1> SUFFICES ASSUME f[n] # g[n] PROVE FALSE
  OBVIOUS
<1>1. T \in SUBSET Nat /\ T # {}
  OBVIOUS
<1>2. PICK m \in T : \A k \in T : m <= k
  BY <1>1, LeastNatural
<1>3. m \in 0..n /\ f[m] # g[m] /\ f[0] = g[0]
  BY DEF Sums
<1>4. m \in 1..n /\ m - 1 \in 0..n /\ m - 1 \notin T
  BY <1>2, <1>3
<1>5. f[m - 1] = g[m - 1]
  BY <1>4
<1>6. m \in 1..Len(s) /\ m \in 1..Len(t) /\ s[m] = t[m]
  BY <1>4
<1> QED BY <1>3, <1>5, <1>6 DEF Sums

\* There are such sums, so the recursion of MotionOf ends.
LEMMA SumsExist ==
  ASSUME NEW s \in Seq(EngineEvents)
  PROVE  \E f : Sums(s, f)
<1> DEFINE n == Len(s)
           Upto(k, f) == /\ f \in [0..k -> Motion] /\ f[0] = Still
                         /\ \A i \in 1..k : f[i] = Plus(f[i - 1], Share(s[i]))
           T == {k \in 0..n : ~ \E f : Upto(k, f)}
<1>1. n \in Nat
  OBVIOUS
<1> SUFFICES ASSUME T # {} PROVE FALSE
  BY <1>1 DEF Sums
<1>2. T \in SUBSET Nat
  BY <1>1
<1> HIDE DEF n
<1>3. PICK m \in T : \A k \in T : m <= k
  BY <1>2, LeastNatural
<1>4. m \in 0..n
  OBVIOUS
<1>5. m # 0
  <2>1. Upto(0, [i \in 0..0 |-> Still])
    BY DEF Still, Motion
  <2> QED BY <2>1
<1>6. m - 1 \in 0..n /\ m - 1 \notin T
  BY <1>1, <1>3, <1>4, <1>5
<1>7. PICK f : Upto(m - 1, f)
  BY <1>6
<1> DEFINE g == [i \in 0..m |-> IF i = m THEN Plus(f[m - 1], Share(s[m])) ELSE f[i]]
<1>8. Share(s[m]) \in Motion
  BY <1>1, <1>4, <1>5, ShareType DEF n
<1>9. f[m - 1] \in Motion
  BY <1>1, <1>4, <1>5, <1>7
<1>10. Plus(f[m - 1], Share(s[m])) \in Motion
  BY <1>8, <1>9, MotionType
<1>11. g \in [0..m -> Motion]
  BY <1>1, <1>4, <1>5, <1>7, <1>10
<1>12. \A i \in 1..m : g[i] = Plus(g[i - 1], Share(s[i]))
  BY <1>1, <1>4, <1>5, <1>7
<1>13. g[0] = Still
  BY <1>4, <1>5, <1>7
<1>14. Upto(m, g)
  BY <1>11, <1>12, <1>13
<1> QED BY <1>14

LEMMA MotionIsSum ==
  ASSUME NEW s \in Seq(EngineEvents), NEW f, Sums(s, f)
  PROVE  MotionOf(s) = f[Len(s)] /\ MotionOf(s) \in Motion
<1> DEFINE n == Len(s)
           sum == CHOOSE g : g = [i \in 0..n |-> IF i = 0 THEN Still
                                                 ELSE Plus(g[i - 1], Share(s[i]))]
<1>1. n \in Nat /\ f \in [0..n -> Motion]
  BY DEF Sums
<1>2. f = [i \in 0..n |-> IF i = 0 THEN Still ELSE Plus(f[i - 1], Share(s[i]))]
  BY <1>1 DEF Sums
<1>3. sum = [i \in 0..n |-> IF i = 0 THEN Still ELSE Plus(sum[i - 1], Share(s[i]))]
  BY <1>2
<1>4. MotionOf(s) = sum[n]
  BY DEF MotionOf
<1> HIDE DEF sum, n
<1> DEFINE T == {i \in 0..n : f[i] # sum[i]}
<1>5. T = {}
  <2> SUFFICES ASSUME T # {} PROVE FALSE
    OBVIOUS
  <2>1. T \in SUBSET Nat
    BY <1>1
  <2>2. PICK m \in T : \A k \in T : m <= k
    BY <2>1, LeastNatural
  <2>3. m \in 0..n /\ f[m] # sum[m]
    OBVIOUS
  <2>4. f[0] = Still /\ sum[0] = Still
    BY <1>1, <1>2, <1>3
  <2>5. m \in 1..n /\ m - 1 \in 0..n /\ m - 1 \notin T
    BY <1>1, <2>2, <2>3, <2>4
  <2>6. f[m - 1] = sum[m - 1]
    BY <2>5
  <2>7. f[m] = Plus(f[m - 1], Share(s[m]))
    BY <2>5 DEF Sums, n
  <2>8. sum[m] = Plus(sum[m - 1], Share(s[m]))
    <3>1. \A i \in 0..n : sum[i] = IF i = 0 THEN Still ELSE Plus(sum[i - 1], Share(s[i]))
      BY <1>3, Zenon
    <3>2. m \in 0..n /\ m # 0
      BY <1>1, <2>5
    <3> QED BY <3>1, <3>2, Zenon
  <2> QED BY <2>3, <2>6, <2>7, <2>8
<1>6. f[n] = sum[n] /\ f[n] \in Motion
  BY <1>1, <1>5
<1> QED BY <1>4, <1>6 DEF n

LEMMA MotionOfType ==
  ASSUME NEW s \in Seq(EngineEvents)
  PROVE  MotionOf(s) \in Motion
BY SumsExist, MotionIsSum

LEMMA MotionEmpty == MotionOf(<<>>) = Still
<1>1. <<>> \in Seq(EngineEvents) /\ Len(<<>>) = 0
  OBVIOUS
<1>2. PICK f : Sums(<<>>, f)
  BY <1>1, SumsExist
<1> QED BY <1>1, <1>2, MotionIsSum DEF Sums

\* Two sequences that differ in the last event at most.
LEMMA MotionLast ==
  ASSUME NEW s \in Seq(EngineEvents), NEW t \in Seq(EngineEvents),
         Len(s) > 0, Len(t) = Len(s), \A i \in 1..(Len(s) - 1) : s[i] = t[i]
  PROVE  \E m \in Motion : /\ MotionOf(s) = Plus(m, Share(s[Len(s)]))
                           /\ MotionOf(t) = Plus(m, Share(t[Len(s)]))
<1>1. PICK f : Sums(s, f)
  BY SumsExist
<1>2. PICK g : Sums(t, g)
  BY SumsExist
<1> DEFINE n == Len(s)
<1>3. n \in Nat /\ n > 0 /\ n - 1 \in Nat /\ n \in 1..n
  OBVIOUS
<1>4. f[n - 1] = g[n - 1]
  BY <1>1, <1>2, <1>3, SumsAgree
<1>5. f[n] = Plus(f[n - 1], Share(s[n])) /\ g[n] = Plus(g[n - 1], Share(t[n]))
  BY <1>1, <1>2, <1>3 DEF Sums
<1>6. f[n - 1] \in Motion
  BY <1>1, <1>3 DEF Sums
<1>7. MotionOf(s) = f[n] /\ MotionOf(t) = g[n]
  BY <1>1, <1>2, MotionIsSum
<1> QED BY <1>4, <1>5, <1>6, <1>7

LEMMA MotionAppend ==
  ASSUME NEW s \in Seq(EngineEvents), NEW e \in EngineEvents
  PROVE  MotionOf(Append(s, e)) = Plus(MotionOf(s), Share(e))
<1> DEFINE t == Append(s, e)
           n == Len(s)
<1>1. t \in Seq(EngineEvents) /\ n \in Nat /\ Len(t) = n + 1 /\ t[n + 1] = e
      /\ \A i \in 1..n : t[i] = s[i]
  OBVIOUS
<1>2. PICK f : Sums(s, f)
  BY SumsExist
<1> HIDE DEF t
<1>3. PICK g : Sums(t, g)
  BY <1>1, SumsExist
<1>4. f[n] = g[n]
  BY <1>1, <1>2, <1>3, SumsAgree
<1>5. n + 1 \in 1..(n + 1) /\ (n + 1) - 1 = n
  BY <1>1
<1>6. g[n + 1] = Plus(g[n], Share(e))
  BY <1>1, <1>3, <1>5 DEF Sums
<1>7. MotionOf(s) = f[n] /\ MotionOf(t) = g[n + 1]
  BY <1>1, <1>2, <1>3, MotionIsSum
<1> QED BY <1>4, <1>6, <1>7 DEF t

LEMMA MotionOne ==
  ASSUME NEW e \in EngineEvents
  PROVE  MotionOf(<<e>>) = Share(e)
<1>1. <<>> \in Seq(EngineEvents) /\ Append(<<>>, e) = <<e>>
  OBVIOUS
<1>2. MotionOf(<<e>>) = Plus(Still, Share(e))
  BY <1>1, MotionAppend, MotionEmpty
<1> QED BY <1>2, ShareType DEF Plus, Still, Motion

LEMMA PlusLaws ==
  ASSUME NEW a \in Motion, NEW b \in Motion, NEW c \in Motion
  PROVE  /\ Plus(a, b) = Plus(b, a) /\ Plus(Plus(a, b), c) = Plus(a, Plus(b, c))
         /\ Plus(a, Still) = a /\ Plus(Still, a) = a
BY DEF Motion, Plus, Still

LEMMA MotionTail ==
  ASSUME NEW s \in Seq(EngineEvents), s # <<>>
  PROVE  MotionOf(s) = Plus(Share(Head(s)), MotionOf(Tail(s)))
<1> DEFINE t == Tail(s)
           n == Len(s)
           h == Share(Head(s))
<1>1. t \in Seq(EngineEvents) /\ n \in Nat /\ n > 0 /\ Len(t) = n - 1
      /\ \A i \in 1..(n - 1) : t[i] = s[i + 1]
  OBVIOUS
<1>2. s[1] \in EngineEvents /\ h = Share(s[1])
  BY <1>1
<1>3. h \in Motion
  BY <1>2, ShareType
<1>4. PICK f : Sums(s, f)
  BY SumsExist
<1> HIDE DEF t, h
<1>5. PICK g : Sums(t, g)
  BY <1>1, SumsExist
<1> HIDE DEF n
<1> DEFINE T == {i \in 0..(n - 1) : f[i + 1] # Plus(h, g[i])}
<1>6. T = {}
  <2> SUFFICES ASSUME T # {} PROVE FALSE
    OBVIOUS
  <2>1. T \in SUBSET Nat
    BY <1>1
  <2>2. PICK m \in T : \A k \in T : m <= k
    BY <2>1, LeastNatural
  <2>3. m \in 0..(n - 1) /\ f[m + 1] # Plus(h, g[m])
    OBVIOUS
  <2>4. f[1] = Plus(h, g[0])
    <3>1. f[1] = Plus(f[1 - 1], h) /\ f[0] = Still /\ g[0] = Still
      BY <1>1, <1>2, <1>4, <1>5 DEF Sums, n
    <3> QED BY <1>3, <3>1, PlusLaws
  <2>5. m # 0
    BY <2>3, <2>4
  <2>6. m \in 1..(n - 1) /\ m - 1 \in 0..(n - 1) /\ m - 1 \notin T /\ (m - 1) + 1 = m
        /\ m + 1 \in 1..n /\ (m + 1) - 1 = m
    BY <1>1, <2>2, <2>3, <2>5
  <2>7. f[m] = Plus(h, g[m - 1])
    BY <2>6
  <2>8. f[m + 1] = Plus(f[m], Share(s[m + 1]))
    BY <1>4, <2>6 DEF Sums, n
  <2>9. g[m] = Plus(g[m - 1], Share(t[m])) /\ t[m] = s[m + 1] /\ g[m - 1] \in Motion
        /\ t[m] \in EngineEvents
    BY <1>1, <1>5, <2>6 DEF Sums
  <2>10. Share(t[m]) \in Motion
    BY <2>9, ShareType
  <2> QED BY <1>3, <2>3, <2>7, <2>8, <2>9, <2>10, PlusLaws
<1>7. f[n] = Plus(h, g[n - 1])
  <2>1. n - 1 \in 0..(n - 1) /\ (n - 1) + 1 = n
    BY <1>1
  <2> QED BY <1>6, <2>1
<1>8. MotionOf(s) = f[n] /\ MotionOf(t) = g[n - 1]
  BY <1>1, <1>4, <1>5, MotionIsSum DEF n
<1> QED BY <1>7, <1>8 DEF t, h

-----------------------------------------------------------------------------
(* A queue of n places.                                                       *)

Slots == EngineEvents \union {[type |-> "none"]}
QueueTyped(qu, n) ==
  /\ qu \in [slot : [0..(n - 1) -> Slots], head : Nat, tail : Nat]
  /\ qu.tail <= qu.head /\ qu.head <= qu.tail + n
  /\ \A i \in qu.tail..(qu.head - 1) : qu.slot[i % n] \in EngineEvents

LEMMA Multiple ==
  ASSUME NEW d \in Nat, d > 0, NEW n \in Int
  PROVE  n * d <= 0 \/ n * d >= d
<1>1. CASE n <= 0
  BY <1>1, SMTT(20)
<1>2. CASE n >= 1
  <2>1. (n - 1) * d >= 0
    BY <1>2, SMTT(20)
  <2>2. (n - 1) * d = n * d - d
    BY SMTT(20)
  <2> QED BY <2>1, <2>2, SMTT(20)
<1> QED BY <1>1, <1>2

\* Two indices less than a round apart have different slots, a round apart the same.
LEMMA SlotsDiffer ==
  ASSUME NEW d \in Nat, d > 0, NEW x \in Nat, NEW y \in Nat
  PROVE  /\ x % d \in 0..(d - 1)
         /\ x < y /\ y < x + d => x % d # y % d
         /\ y = x + d => x % d = y % d
<1> DEFINE p == x \div d
           q == y \div d
           r == x % d
           s == y % d
           m == (q - p) * d
<1>1. x = d * p + r /\ p \in Int /\ r \in 0..(d - 1)
  OBVIOUS
<1>2. y = d * q + s /\ q \in Int /\ s \in 0..(d - 1)
  OBVIOUS
<1> HIDE DEF p, q, r, s
<1>3. y - x = m + (s - r)
  BY <1>1, <1>2, SMTT(20)
<1>4. m \in Int /\ (m <= 0 \/ m >= d)
  <2> DEFINE k == q - p
  <2>1. k \in Int
    BY <1>1, <1>2
  <2> HIDE DEF k
  <2>2. k * d <= 0 \/ k * d >= d
    BY <2>1, Multiple
  <2>3. k * d \in Int
    BY <2>1
  <2> QED BY <2>2, <2>3 DEF k
<1>5. m - d <= 0 \/ m - d >= d
  <2> DEFINE k == (q - p) - 1
  <2>1. k \in Int
    BY <1>1, <1>2
  <2>2. k * d = m - d
    BY <1>1, <1>2, SMTT(20)
  <2> HIDE DEF k
  <2>3. k * d <= 0 \/ k * d >= d
    BY <2>1, Multiple
  <2> QED BY <2>2, <2>3
<1>6. m + d <= 0 \/ m + d >= d
  <2> DEFINE k == (q - p) + 1
  <2>1. k \in Int
    BY <1>1, <1>2
  <2>2. k * d = m + d
    BY <1>1, <1>2, SMTT(20)
  <2> HIDE DEF k
  <2>3. k * d <= 0 \/ k * d >= d
    BY <2>1, Multiple
  <2> QED BY <2>2, <2>3
<1> HIDE DEF m
<1>7. x < y /\ y < x + d => r # s
  BY <1>1, <1>2, <1>3, <1>4
<1>8. y = x + d => r = s
  BY <1>1, <1>2, <1>3, <1>4, <1>5, <1>6
<1> QED BY <1>1, <1>7, <1>8 DEF r, s

LEMMA WaitingType ==
  ASSUME NEW n \in Nat, n > 0, NEW qu, QueueTyped(qu, n)
  PROVE  /\ Waiting(qu, n) \in Seq(EngineEvents) /\ Len(Waiting(qu, n)) = qu.head - qu.tail
         /\ qu.head - qu.tail \in 0..n
         /\ \A i \in 1..(qu.head - qu.tail) :
              /\ Waiting(qu, n)[i] = qu.slot[(qu.tail + (i - 1)) % n]
              /\ Waiting(qu, n)[i] \in EngineEvents
         /\ IsEmpty(qu) <=> Waiting(qu, n) = <<>>
<1>1. qu.head \in Nat /\ qu.tail \in Nat /\ qu.tail <= qu.head /\ qu.head <= qu.tail + n
  BY DEF QueueTyped
<1> DEFINE c == qu.head - qu.tail
<1>2. c \in 0..n /\ c \in Nat
  BY <1>1
<1>3. ASSUME NEW i \in 1..c PROVE qu.slot[(qu.tail + (i - 1)) % n] \in EngineEvents
  <2>1. qu.tail + (i - 1) \in qu.tail..(qu.head - 1)
    BY <1>1, <1>2
  <2> QED BY <2>1 DEF QueueTyped
<1>4. Waiting(qu, n) = [i \in 1..c |-> qu.slot[(qu.tail + (i - 1)) % n]]
  BY DEF Waiting
<1>5. IsEmpty(qu) <=> c = 0
  BY <1>1 DEF IsEmpty
<1> HIDE DEF c
<1>6. Waiting(qu, n) \in Seq(EngineEvents) /\ Len(Waiting(qu, n)) = c
  BY <1>2, <1>3, <1>4
<1>7. Waiting(qu, n) = <<>> <=> c = 0
  BY <1>2, <1>6
<1> QED BY <1>2, <1>3, <1>4, <1>5, <1>6, <1>7 DEF c

\* An event taken out is the oldest one.
LEMMA TakenOut ==
  ASSUME NEW n \in Nat, n > 0, NEW qu, QueueTyped(qu, n), ~IsEmpty(qu)
  PROVE  /\ QueueTyped([qu EXCEPT !.tail = @ + 1], n)
         /\ Waiting(qu, n) # <<>> /\ qu.slot[qu.tail % n] = Head(Waiting(qu, n))
         /\ qu.slot[qu.tail % n] \in EngineEvents
         /\ Waiting([qu EXCEPT !.tail = @ + 1], n) = Tail(Waiting(qu, n))
<1> DEFINE new == [qu EXCEPT !.tail = @ + 1]
           W == Waiting(qu, n)
           c == qu.head - qu.tail
<1>1. /\ qu \in [slot : [0..(n - 1) -> Slots], head : Nat, tail : Nat]
      /\ qu.head \in Nat /\ qu.tail \in Nat /\ qu.tail <= qu.head /\ qu.head <= qu.tail + n
      /\ qu.tail # qu.head
  BY DEF QueueTyped, IsEmpty
<1>2. new.slot = qu.slot /\ new.head = qu.head /\ new.tail = qu.tail + 1
      /\ new \in [slot : [0..(n - 1) -> Slots], head : Nat, tail : Nat]
  BY <1>1
<1>3. QueueTyped(new, n)
  <2>1. \A i \in new.tail..(new.head - 1) : i \in qu.tail..(qu.head - 1)
    BY <1>1, <1>2
  <2> QED BY <1>1, <1>2, <2>1 DEF QueueTyped
<1>4. W \in Seq(EngineEvents) /\ Len(W) = c /\ c \in Nat /\ c > 0
      /\ \A i \in 1..c : W[i] = qu.slot[(qu.tail + (i - 1)) % n] /\ W[i] \in EngineEvents
  BY <1>1, WaitingType, SMTT(30)
<1> DEFINE V == Waiting(new, n)
<1>5. /\ V \in Seq(EngineEvents) /\ Len(V) = new.head - new.tail
      /\ \A i \in 1..(new.head - new.tail) : V[i] = new.slot[(new.tail + (i - 1)) % n]
  BY <1>3, WaitingType
<1> HIDE DEF new, V, W
<1>6. Len(V) = c - 1 /\ new.head - new.tail = c - 1
  BY <1>1, <1>2, <1>5
<1>7. W # <<>> /\ Head(W) = W[1] /\ W[1] = qu.slot[qu.tail % n] /\ W[1] \in EngineEvents
  <2>1. 1 \in 1..c /\ qu.tail + (1 - 1) = qu.tail
    BY <1>1, <1>4
  <2> QED BY <1>4, <2>1
<1>8. Tail(W) \in Seq(EngineEvents) /\ Len(Tail(W)) = c - 1
      /\ \A i \in 1..(c - 1) : Tail(W)[i] = W[i + 1]
  BY <1>4, <1>7
<1>9. ASSUME NEW i \in 1..(c - 1) PROVE V[i] = Tail(W)[i]
  <2>1. i + 1 \in 1..c /\ qu.tail + ((i + 1) - 1) = (qu.tail + 1) + (i - 1)
    BY <1>1, <1>4
  <2>2. W[i + 1] = qu.slot[(qu.tail + ((i + 1) - 1)) % n]
    BY <1>4, <2>1
  <2>3. V[i] = qu.slot[((qu.tail + 1) + (i - 1)) % n]
    BY <1>2, <1>5, <1>6
  <2> QED BY <1>8, <2>1, <2>2, <2>3
<1>10. V = Tail(W)
  BY <1>5, <1>6, <1>8, <1>9, SameSeq
<1> QED BY <1>3, <1>7, <1>10 DEF new, V, W

\* An event stored is the newest one; when all places are taken it takes that of
\* the oldest.
LEMMA Stored ==
  ASSUME NEW n \in Nat, n > 0, NEW qu, QueueTyped(qu, n), NEW e \in EngineEvents
  PROVE  LET W == Waiting(qu, n)
             full == Len(W) >= n
         IN /\ QueueTyped(Store(qu, e, n), n)
            /\ Waiting(Store(qu, e, n), n) = Append(IF full THEN Tail(W) ELSE W, e)
            /\ Overwritten(qu, n) = IF full THEN <<Head(W)>> ELSE <<>>
            /\ full => W # <<>>
<1> DEFINE W == Waiting(qu, n)
           c == qu.head - qu.tail
           full == c >= n
           K == IF full THEN Tail(W) ELSE W
           new == Store(qu, e, n)
           V == Waiting(new, n)
<1>1. /\ qu \in [slot : [0..(n - 1) -> Slots], head : Nat, tail : Nat]
      /\ qu.head \in Nat /\ qu.tail \in Nat /\ qu.tail <= qu.head /\ qu.head <= qu.tail + n
      /\ \A i \in qu.tail..(qu.head - 1) : qu.slot[i % n] \in EngineEvents
  BY DEF QueueTyped
<1>a. qu.head \in Nat /\ qu.tail \in Nat /\ qu.tail <= qu.head /\ qu.head <= qu.tail + n
  BY <1>1
<1>b. c \in 0..n /\ c \in Nat /\ (full <=> c = n)
  BY <1>a
<1>2. /\ W \in Seq(EngineEvents) /\ Len(W) = c /\ c \in 0..n /\ c \in Nat
      /\ \A i \in 1..c : W[i] = qu.slot[(qu.tail + (i - 1)) % n] /\ W[i] \in EngineEvents
  BY <1>1, WaitingType, SMTT(30)
<1>3. qu.head % n \in 0..(n - 1)
  BY <1>1, SlotsDiffer
<1>4. /\ new = [slot |-> [qu.slot EXCEPT ![qu.head % n] = e], head |-> qu.head + 1,
                tail |-> IF full THEN qu.tail + 1 ELSE qu.tail]
      /\ new.slot = [qu.slot EXCEPT ![qu.head % n] = e]
      /\ new.head = qu.head + 1
      /\ new.tail = IF full THEN qu.tail + 1 ELSE qu.tail
  BY <1>1 DEF Store
<1>c. /\ new.head = qu.head + 1 /\ new.head \in Nat /\ new.tail \in Nat
      /\ full => new.tail = qu.tail + 1 /\ qu.head = qu.tail + n
      /\ ~full => new.tail = qu.tail /\ qu.head < qu.tail + n
      /\ new.tail <= new.head /\ new.head <= new.tail + n /\ qu.head < new.tail + n
      /\ qu.tail <= new.tail /\ new.tail <= qu.head
  <2>1. CASE full
    <3>1. new.tail = qu.tail + 1 /\ qu.head = qu.tail + n
      BY <1>a, <1>b, <1>4, <2>1
    <3>2. new.head = qu.head + 1
      BY <1>4
    <3> QED BY <1>a, <2>1, <3>1, <3>2
  <2>2. CASE ~full
    <3>1. new.tail = qu.tail /\ qu.head < qu.tail + n
      BY <1>a, <1>b, <1>4, <2>2
    <3>2. new.head = qu.head + 1
      BY <1>4
    <3> QED BY <1>a, <2>2, <3>1, <3>2
  <2> QED BY <2>1, <2>2
<1>5. new.slot[qu.head % n] = e /\ new.slot \in [0..(n - 1) -> Slots]
  BY <1>1, <1>3, <1>4 DEF Slots
<1>6. ASSUME NEW i \in new.tail..(qu.head - 1)
      PROVE  new.slot[i % n] = qu.slot[i % n] /\ qu.slot[i % n] \in EngineEvents
  <2>1. i \in Nat /\ i < qu.head /\ qu.head < i + n /\ i \in qu.tail..(qu.head - 1)
    BY <1>a, <1>c
  <2>2. i % n # qu.head % n /\ i % n \in 0..(n - 1)
    BY <1>1, <2>1, SlotsDiffer
  <2> QED BY <1>1, <1>3, <1>4, <2>1, <2>2
<1>7. QueueTyped(new, n)
  <2>1. new.tail <= new.head /\ new.head <= new.tail + n /\ new.head \in Nat /\ new.tail \in Nat
    BY <1>c
  <2>2. new \in [slot : [0..(n - 1) -> Slots], head : Nat, tail : Nat]
    BY <1>4, <1>5, <2>1
  <2>3. ASSUME NEW i \in new.tail..(new.head - 1) PROVE new.slot[i % n] \in EngineEvents
    <3>1. i = qu.head \/ i \in new.tail..(qu.head - 1)
      BY <1>a, <1>c
    <3> QED BY <1>5, <1>6, <3>1
  <2> QED BY <2>1, <2>2, <2>3 DEF QueueTyped
<1> DEFINE k == new.head - new.tail
<1>8. /\ V \in Seq(EngineEvents) /\ Len(V) = k
      /\ \A i \in 1..k : V[i] = new.slot[(new.tail + (i - 1)) % n]
  BY <1>7, WaitingType
<1> HIDE DEF new, V, W
<1>9. full => W # <<>> /\ Head(W) = W[1] /\ c = n /\ 1 \in 1..c
  BY <1>2
<1>10. full => Head(W) = qu.slot[qu.head % n]
  <2> SUFFICES ASSUME full PROVE Head(W) = qu.slot[qu.head % n]
    OBVIOUS
  <2>1. qu.tail + (1 - 1) = qu.tail /\ qu.head = qu.tail + n
    BY <1>1, <1>9
  <2>2. qu.tail % n = qu.head % n
    BY <1>1, <2>1, SlotsDiffer
  <2>3. W[1] = qu.slot[(qu.tail + (1 - 1)) % n]
    BY <1>2, <1>9
  <2> QED BY <1>9, <2>1, <2>2, <2>3
<1>11. Overwritten(qu, n) = IF full THEN <<Head(W)>> ELSE <<>>
  BY <1>10 DEF Overwritten
<1>12. /\ K \in Seq(EngineEvents) /\ Len(K) = k - 1 /\ k - 1 \in Nat /\ k \in Nat
       /\ \A i \in 1..(k - 1) : K[i] = qu.slot[(new.tail + (i - 1)) % n]
  <2>1. CASE ~full
    <3>1. k - 1 = c /\ new.tail = qu.tail /\ k - 1 \in Nat /\ k \in Nat
      BY <1>a, <1>b, <1>c, <2>1
    <3>2. K = W
      BY <2>1
    <3> QED BY <1>2, <3>1, <3>2
  <2>2. CASE full
    <3>1. /\ Tail(W) \in Seq(EngineEvents) /\ Len(Tail(W)) = c - 1
          /\ \A i \in 1..(c - 1) : Tail(W)[i] = W[i + 1]
      BY <1>2, <1>9, <2>2
    <3>2. k = c /\ c \in Nat /\ new.tail = qu.tail + 1 /\ k - 1 \in Nat
      BY <1>a, <1>b, <1>c, <2>2
    <3>3. ASSUME NEW i \in 1..(c - 1)
          PROVE  W[i + 1] = qu.slot[((qu.tail + 1) + (i - 1)) % n]
      <4>1. i + 1 \in 1..c /\ qu.tail + ((i + 1) - 1) = (qu.tail + 1) + (i - 1)
        BY <1>a, <1>b
      <4>2. W[i + 1] = qu.slot[(qu.tail + ((i + 1) - 1)) % n]
        BY <1>2, <4>1
      <4> QED BY <4>1, <4>2
    <3>4. K = Tail(W)
      BY <2>2
    <3> HIDE DEF K, c, k
    <3> QED BY <3>1, <3>2, <3>3, <3>4
  <2> QED BY <2>1, <2>2
<1>13. k - 1 = qu.head - new.tail /\ k = (k - 1) + 1 /\ new.tail \in Nat
  BY <1>a, <1>c
<1> HIDE DEF K, k
<1>14. /\ Append(K, e) \in Seq(EngineEvents) /\ Len(Append(K, e)) = k
       /\ \A i \in 1..k : Append(K, e)[i] = IF i = k THEN e ELSE K[i]
  BY <1>12, <1>13
<1>15. ASSUME NEW i \in 1..k PROVE V[i] = Append(K, e)[i]
  <2>1. V[i] = new.slot[(new.tail + (i - 1)) % n]
    BY <1>8 DEF k
  <2>2. CASE i = k
    <3>1. new.tail + (i - 1) = qu.head
      BY <1>a, <1>13, <2>2
    <3> QED BY <1>5, <1>14, <2>1, <2>2, <3>1
  <2>3. CASE i # k
    <3>1. i \in 1..(k - 1) /\ new.tail + (i - 1) \in new.tail..(qu.head - 1)
      <4>1. k \in Nat /\ k - 1 \in Nat
        BY <1>12
      <4> QED BY <1>a, <1>13, <2>3, <4>1
    <3>2. V[i] = qu.slot[(new.tail + (i - 1)) % n]
      BY <1>6, <2>1, <3>1
    <3> QED BY <1>12, <1>14, <2>3, <3>1, <3>2
  <2> QED BY <2>2, <2>3
<1>16. V = Append(K, e)
  BY <1>8, <1>14, <1>15, SameSeq, SMTT(30) DEF k
<1> QED BY <1>2, <1>7, <1>9, <1>11, <1>16 DEF new, V, W, K

\* A SE_MOUSE event adds to one queued last, and nothing else changes.
LEMMA Merged ==
  ASSUME NEW qu, QueueTyped(qu, QueueSize), NEW e \in EngineEvents, e.type = "mouse",
         ~IsEmpty(qu), NEW last, last = (qu.head + (QueueSize - 1)) % QueueSize,
         qu.slot[last].type = "mouse"
  PROVE  LET W == Waiting(qu, QueueSize)
             new == [qu EXCEPT !.slot[last].move = Plus(@, e.move)]
             V == Waiting(new, QueueSize)
             c == Len(W)
         IN /\ QueueTyped(new, QueueSize)
            /\ Len(V) = c /\ c > 0
            /\ \A i \in 1..(c - 1) : V[i] = W[i]
            /\ W[c].type = "mouse" /\ V[c].type = "mouse"
            /\ Share(V[c]) = Plus(Share(W[c]), Share(e))
<1> DEFINE n == QueueSize
           W == Waiting(qu, n)
           c == qu.head - qu.tail
           old == qu.slot[last]
           m == [old EXCEPT !.move = Plus(@, e.move)]
           new == [qu EXCEPT !.slot[last].move = Plus(@, e.move)]
           V == Waiting(new, n)
<1>1. /\ qu \in [slot : [0..(n - 1) -> Slots], head : Nat, tail : Nat]
      /\ qu.head \in Nat /\ qu.tail \in Nat /\ qu.tail <= qu.head /\ qu.head <= qu.tail + n
      /\ \A i \in qu.tail..(qu.head - 1) : qu.slot[i % n] \in EngineEvents
      /\ n \in Nat /\ n > 0 /\ qu.head # qu.tail
  BY QueueAssumption DEF QueueTyped, IsEmpty
<1>a. /\ qu.head \in Nat /\ qu.tail \in Nat /\ qu.tail < qu.head
      /\ qu.head <= qu.tail + n /\ n \in Nat /\ n > 0
  BY <1>1
<1>b. c > 0 /\ c \in Nat
  BY <1>a
<1>2. /\ W \in Seq(EngineEvents) /\ Len(W) = c /\ c \in 0..n /\ c > 0 /\ c \in Nat
      /\ \A i \in 1..c : W[i] = qu.slot[(qu.tail + (i - 1)) % n]
  BY <1>a, <1>b, WaitingType
<1>3. qu.head - 1 \in Nat /\ qu.head - 1 \in qu.tail..(qu.head - 1)
      /\ qu.head + (n - 1) = (qu.head - 1) + n /\ qu.head + (n - 1) \in Nat
  <2>1. qu.head - 1 \in Nat /\ qu.tail <= qu.head - 1
    BY <1>a
  <2> QED BY <1>a, <2>1
<1>4. last = (qu.head - 1) % n /\ last \in 0..(n - 1)
  BY <1>1, <1>3, SlotsDiffer
<1>5. old \in EngineEvents /\ old.type = "mouse"
  BY <1>1, <1>3, <1>4
<1>6. old \in [type : {"mouse"}, move : Motion] /\ e \in [type : {"mouse"}, move : Motion]
  BY <1>5 DEF EngineEvents
<1>7. Plus(old.move, e.move) \in Motion
  BY <1>6, MotionType
<1>8. /\ m = [type |-> "mouse", move |-> Plus(old.move, e.move)] /\ m \in EngineEvents
      /\ m.type = "mouse" /\ Share(m) = Plus(Share(old), Share(e))
  <2>1. m = [type |-> "mouse", move |-> Plus(old.move, e.move)]
    BY <1>6
  <2> QED BY <1>6, <1>7, <2>1 DEF EngineEvents, Share
<1>9. /\ new.slot = [qu.slot EXCEPT ![last] = m] /\ new.head = qu.head /\ new.tail = qu.tail
      /\ new = [qu EXCEPT !.slot = [qu.slot EXCEPT ![last] = m]]
  BY <1>1
<1> HIDE DEF m, new, old
<1>10. new.slot \in [0..(n - 1) -> Slots] /\ new.slot[last] = m
  BY <1>1, <1>4, <1>8, <1>9 DEF Slots
<1>11. ASSUME NEW i \in qu.tail..(qu.head - 1), i # qu.head - 1
       PROVE  new.slot[i % n] = qu.slot[i % n]
  <2>1. i \in Nat /\ i < qu.head - 1 /\ qu.head - 1 < i + n
    BY <1>a, <1>11
  <2>2. i % n # last /\ i % n \in 0..(n - 1)
    BY <1>a, <1>3, <1>4, <2>1, SlotsDiffer, ZenonT(60)
  <2> QED BY <1>1, <1>4, <1>9, <2>2
<1>12. QueueTyped(new, n)
  <2>1. new \in [slot : [0..(n - 1) -> Slots], head : Nat, tail : Nat]
    BY <1>1, <1>9, <1>10
  <2>2. ASSUME NEW i \in qu.tail..(qu.head - 1) PROVE new.slot[i % n] \in EngineEvents
    <3>1. CASE i = qu.head - 1
      BY <1>4, <1>8, <1>10, <3>1
    <3>2. CASE i # qu.head - 1
      BY <1>1, <1>11, <3>2
    <3> QED BY <3>1, <3>2
  <2> QED BY <1>1, <1>9, <2>1, <2>2 DEF QueueTyped
<1>13. /\ V \in Seq(EngineEvents) /\ Len(V) = c
       /\ \A i \in 1..c : V[i] = new.slot[(qu.tail + (i - 1)) % n]
  <2>1. new.head - new.tail = c
    BY <1>9
  <2>2. new.tail = qu.tail
    BY <1>9
  <2> HIDE DEF c
  <2> QED BY <1>a, <1>12, <2>1, <2>2, WaitingType
<1> HIDE DEF V, W
<1>14. W[c] = old /\ V[c] = m
  <2>1. c \in 1..c /\ qu.tail + (c - 1) = qu.head - 1
    BY <1>a, <1>b
  <2>2. W[c] = qu.slot[(qu.tail + (c - 1)) % n] /\ V[c] = new.slot[(qu.tail + (c - 1)) % n]
    BY <1>2, <1>13, <2>1
  <2> QED BY <1>4, <1>10, <2>1, <2>2 DEF old
<1>15. ASSUME NEW i \in 1..(c - 1) PROVE V[i] = W[i]
  <2>1. i \in 1..c /\ qu.tail + (i - 1) \in qu.tail..(qu.head - 1)
        /\ qu.tail + (i - 1) # qu.head - 1
    BY <1>a, <1>b
  <2>2. W[i] = qu.slot[(qu.tail + (i - 1)) % n] /\ V[i] = new.slot[(qu.tail + (i - 1)) % n]
    BY <1>2, <1>13, <2>1
  <2> QED BY <1>11, <2>1, <2>2
<1> QED BY <1>2, <1>5, <1>8, <1>12, <1>13, <1>14, <1>15 DEF V, W, new

-----------------------------------------------------------------------------
(* Key events in a line, and what follows them.                               *)

\* Event e stands somewhere in line s.
Occurs(s, e) == \E i \in 1..Len(s) : s[i] = e

\* Every bad event of line s is followed by a good one.
Settled(s, bad, good) ==
  \A i \in 1..Len(s) : s[i] = bad => \E j \in (i + 1)..Len(s) : s[j] = good

LEMMA AppendKeeps ==
  ASSUME NEW S, NEW s \in Seq(S), NEW e \in S, NEW bad, NEW good
  PROVE  /\ Occurs(Append(s, e), e)
         /\ \A f : Occurs(s, f) => Occurs(Append(s, e), f)
         /\ Settled(s, bad, good) /\ e # bad => Settled(Append(s, e), bad, good)
         /\ e = good /\ bad # good => Settled(Append(s, e), bad, good)
<1> DEFINE t == Append(s, e)
           n == Len(s)
<1>1. n \in Nat /\ Len(t) = n + 1 /\ t[n + 1] = e /\ \A i \in 1..n : t[i] = s[i]
  OBVIOUS
<1>2. \A i \in 1..n : i \in 1..(n + 1) /\ n + 1 \in (i + 1)..(n + 1)
  BY <1>1
<1>3. n + 1 \in 1..(n + 1) /\ \A i \in 1..(n + 1) : i = n + 1 \/ i \in 1..n
  BY <1>1
<1>4. \A i \in 1..n : \A j \in (i + 1)..n : j \in 1..n /\ j \in (i + 1)..(n + 1)
  BY <1>1
<1> HIDE DEF n, t
<1>5. Occurs(t, e) /\ \A f : Occurs(s, f) => Occurs(t, f)
  BY <1>1, <1>2, <1>3 DEF Occurs, n
<1>6. ASSUME Settled(s, bad, good), e # bad PROVE Settled(t, bad, good)
  <2> SUFFICES ASSUME NEW i \in 1..(n + 1), t[i] = bad
               PROVE  \E j \in (i + 1)..(n + 1) : t[j] = good
    BY <1>1 DEF Settled
  <2>1. i \in 1..n /\ s[i] = bad
    BY <1>1, <1>3, <1>6
  <2>2. PICK j \in (i + 1)..n : s[j] = good
    BY <1>6, <2>1 DEF Settled, n
  <2> QED BY <1>1, <1>4, <2>1, <2>2
<1>7. ASSUME e = good, bad # good PROVE Settled(t, bad, good)
  <2> SUFFICES ASSUME NEW i \in 1..(n + 1), t[i] = bad
               PROVE  \E j \in (i + 1)..(n + 1) : t[j] = good
    BY <1>1 DEF Settled
  <2>1. i \in 1..n
    BY <1>1, <1>3, <1>7
  <2> QED BY <1>1, <1>2, <1>7, <2>1
<1> QED BY <1>5, <1>6, <1>7 DEF t

LEMMA TailKeeps ==
  ASSUME NEW S, NEW s \in Seq(S), s # <<>>, NEW bad, NEW good
  PROVE  /\ \A f : Occurs(s, f) => f = Head(s) \/ Occurs(Tail(s), f)
         /\ Settled(s, bad, good) => /\ Settled(Tail(s), bad, good)
                                     /\ Head(s) = bad => Occurs(Tail(s), good)
<1> DEFINE t == Tail(s)
           n == Len(s) - 1
<1>1. n \in Nat /\ Len(s) = n + 1 /\ Len(t) = n /\ Head(s) = s[1]
      /\ \A i \in 1..n : t[i] = s[i + 1]
  OBVIOUS
<1>2. \A i \in 1..(n + 1) : i = 1 \/ (i - 1 \in 1..n /\ (i - 1) + 1 = i)
  BY <1>1
<1>3. \A i \in 1..n : i + 1 \in 1..(n + 1)
  BY <1>1
<1>4. \A i \in 1..n : \A j \in ((i + 1) + 1)..(n + 1) :
        j - 1 \in (i + 1)..n /\ j - 1 \in 1..n /\ (j - 1) + 1 = j
  BY <1>1
<1>5. 1 \in 1..(n + 1) /\ \A j \in (1 + 1)..(n + 1) : j - 1 \in 1..n /\ (j - 1) + 1 = j
  BY <1>1
<1> HIDE DEF n, t
<1>6. ASSUME NEW f, Occurs(s, f) PROVE f = Head(s) \/ Occurs(t, f)
  <2>1. PICK i \in 1..(n + 1) : s[i] = f
    BY <1>1, <1>6 DEF Occurs
  <2>2. CASE i = 1
    BY <1>1, <2>1, <2>2
  <2>3. CASE i - 1 \in 1..n /\ (i - 1) + 1 = i
    <3>1. t[i - 1] = f
      BY <1>1, <2>1, <2>3
    <3> QED BY <1>1, <2>3, <3>1 DEF Occurs
  <2> QED BY <1>2, <2>2, <2>3
<1>7. ASSUME Settled(s, bad, good)
      PROVE  Settled(t, bad, good) /\ (Head(s) = bad => Occurs(t, good))
  <2>1. ASSUME NEW i \in 1..n, t[i] = bad
        PROVE  \E j \in (i + 1)..n : t[j] = good
    <3>1. i + 1 \in 1..(n + 1) /\ s[i + 1] = bad
      BY <1>1, <1>3, <2>1
    <3>2. PICK j \in ((i + 1) + 1)..(n + 1) : s[j] = good
      BY <1>1, <1>7, <2>1, <3>1 DEF Settled
    <3>3. j - 1 \in (i + 1)..n /\ j - 1 \in 1..n /\ (j - 1) + 1 = j
      BY <1>4
    <3>4. t[j - 1] = good
      BY <1>1, <3>2, <3>3
    <3> QED BY <3>3, <3>4
  <2>2. ASSUME s[1] = bad PROVE Occurs(t, good)
    <3>1. PICK j \in (1 + 1)..(n + 1) : s[j] = good
      BY <1>1, <1>5, <1>7, <2>2 DEF Settled
    <3>2. j - 1 \in 1..n /\ (j - 1) + 1 = j
      BY <1>5
    <3>3. t[j - 1] = good
      BY <1>1, <3>1, <3>2
    <3> QED BY <1>1, <3>2, <3>3 DEF Occurs
  <2>3. Settled(t, bad, good)
    BY <1>1, <2>1 DEF Settled
  <2> QED BY <1>1, <2>2, <2>3
<1> QED BY <1>6, <1>7 DEF t

\* A line of which only the last event changed, and is no key event.
LEMMA LastKeeps ==
  ASSUME NEW s \in Seq(EngineEvents), NEW t \in Seq(EngineEvents), Len(t) = Len(s), Len(s) > 0,
         \A i \in 1..(Len(s) - 1) : t[i] = s[i],
         s[Len(s)].type # "key", t[Len(s)].type # "key",
         NEW bad, NEW good, bad.type = "key", good.type = "key"
  PROVE  /\ Occurs(s, good) => Occurs(t, good)
         /\ Settled(s, bad, good) => Settled(t, bad, good)
<1> DEFINE n == Len(s)
<1>1. n \in Nat /\ Len(s) = n /\ Len(t) = n /\ n > 0
  OBVIOUS
<1>2. \A i \in 1..n : i = n \/ i \in 1..(n - 1)
  BY <1>1
<1>3. s[n].type # "key" /\ t[n].type # "key" /\ \A i \in 1..(n - 1) : t[i] = s[i]
  OBVIOUS
<1>4. \A i \in 1..n : \A j \in (i + 1)..n : j \in 1..n
  BY <1>1
<1> HIDE DEF n
<1>5. \A f \in {bad, good} : \A i \in 1..n : s[i] = f <=> t[i] = f
  BY <1>2, <1>3
<1> QED BY <1>1, <1>4, <1>5 DEF Occurs, Settled

\* The keys of one event more.
LEMMA KeysAppend ==
  ASSUME NEW s \in Seq(EngineEvents), NEW e \in EngineEvents
  PROVE  /\ KeysOf(s) \subseteq KeysOf(Append(s, e))
         /\ e.type = "key" => e.key \in KeysOf(Append(s, e))
<1> DEFINE t == Append(s, e)
           n == Len(s)
<1>1. n \in Nat /\ Len(t) = n + 1 /\ t[n + 1] = e /\ \A i \in 1..n : t[i] = s[i]
  OBVIOUS
<1>2. n + 1 \in 1..(n + 1) /\ \A i \in 1..n : i \in 1..(n + 1)
  BY <1>1
<1> HIDE DEF t
<1>3. ASSUME NEW k \in KeysOf(s) PROVE k \in KeysOf(t)
  <2>1. PICK i \in 1..n : s[i].type = "key" /\ k = s[i].key
    BY DEF KeysOf
  <2> QED BY <1>1, <1>2, <2>1 DEF KeysOf
<1>4. ASSUME e.type = "key" PROVE e.key \in KeysOf(t)
  BY <1>1, <1>2, <1>4 DEF KeysOf
<1> QED BY <1>3, <1>4 DEF t

-----------------------------------------------------------------------------
(* What storing or merging an event does to a line of events.                 *)

\* The key event IN_Frame queues, and its parts.
LEMMA KeyEventsAre ==
  ASSUME NEW k \in (Keys \ {Console}) \union {K_CONSOLE}, NEW d \in BOOLEAN
  PROVE  /\ SE_KEY(k, d) \in EngineEvents /\ SE_KEY(k, d).type = "key"
         /\ SE_KEY(k, d).key = k /\ SE_KEY(k, d).down = d
         /\ SE_KEY(k, ~d) # SE_KEY(k, d)
<1>1. SE_KEY(k, d).down = d /\ SE_KEY(k, ~d).down = ~d
  BY DEF SE_KEY
<1> QED BY <1>1 DEF SE_KEY, EngineEvents

\* Line W, of which the events in gone were overwritten, became line V, and
\* those in more were overwritten, when e was queued: no motion is lost but that
\* of the overwritten events, no key event but theirs, and the order stays.
Carries(W, gone, V, more, e) ==
  /\ Plus(MotionOf(V), MotionOf(more)) = Plus(Plus(MotionOf(W), MotionOf(gone)), Share(e))
  /\ KeysOf(gone) \subseteq KeysOf(more)
  /\ \A k \in Keys \ {Console}, d \in BOOLEAN :
       /\ Occurs(W, SE_KEY(k, d)) => Occurs(V, SE_KEY(k, d)) \/ k \in KeysOf(more)
       /\ e = SE_KEY(k, d) => /\ Occurs(V, SE_KEY(k, d))
                              /\ Settled(V, SE_KEY(k, ~d), SE_KEY(k, d))
       /\ Settled(W, SE_KEY(k, ~d), SE_KEY(k, d)) /\ e # SE_KEY(k, ~d)
            => Settled(V, SE_KEY(k, ~d), SE_KEY(k, d))

LEMMA PlusSwap ==
  ASSUME NEW a \in Motion, NEW b \in Motion, NEW c \in Motion, NEW d \in Motion
  PROVE  Plus(Plus(b, d), Plus(c, a)) = Plus(Plus(Plus(a, b), c), d)
BY DEF Motion, Plus

\* An event is appended, to what remains of a line when its oldest event goes.
LEMMA AppendCarries ==
  ASSUME NEW W \in Seq(EngineEvents), NEW gone \in Seq(EngineEvents), NEW e \in EngineEvents
  PROVE  /\ Carries(W, gone, Append(W, e), gone, e)
         /\ W # <<>> => Carries(W, gone, Append(Tail(W), e), Append(gone, Head(W)), e)
<1>1. MotionOf(W) \in Motion /\ MotionOf(gone) \in Motion /\ Share(e) \in Motion
  BY MotionOfType, ShareType
<1>2. Plus(MotionOf(Append(W, e)), MotionOf(gone))
        = Plus(Plus(MotionOf(W), MotionOf(gone)), Share(e))
  <2>1. MotionOf(Append(W, e)) = Plus(MotionOf(W), Share(e))
    BY MotionAppend
  <2> QED BY <1>1, <2>1 DEF Motion, Plus
<1>3. ASSUME NEW k \in Keys \ {Console}, NEW d \in BOOLEAN
      PROVE  /\ Occurs(W, SE_KEY(k, d)) => Occurs(Append(W, e), SE_KEY(k, d))
             /\ e = SE_KEY(k, d) => /\ Occurs(Append(W, e), SE_KEY(k, d))
                                    /\ Settled(Append(W, e), SE_KEY(k, ~d), SE_KEY(k, d))
             /\ Settled(W, SE_KEY(k, ~d), SE_KEY(k, d)) /\ e # SE_KEY(k, ~d)
                  => Settled(Append(W, e), SE_KEY(k, ~d), SE_KEY(k, d))
  <2> DEFINE good == SE_KEY(k, d)
             bad == SE_KEY(k, ~d)
  <2>1. bad # good
    BY KeyEventsAre
  <2> HIDE DEF good, bad
  <2>2. /\ Occurs(Append(W, e), e)
        /\ Occurs(W, good) => Occurs(Append(W, e), good)
        /\ e = good /\ bad # good => Settled(Append(W, e), bad, good)
        /\ Settled(W, bad, good) /\ e # bad => Settled(Append(W, e), bad, good)
    BY AppendKeeps
  <2> QED BY <2>1, <2>2 DEF good, bad
<1>4. Carries(W, gone, Append(W, e), gone, e)
  BY <1>2, <1>3 DEF Carries
<1>5. ASSUME W # <<>>
      PROVE  Carries(W, gone, Append(Tail(W), e), Append(gone, Head(W)), e)
  <2> DEFINE T == Tail(W)
             h == Head(W)
             more == Append(gone, h)
  <2>1. T \in Seq(EngineEvents) /\ h \in EngineEvents
    BY <1>5
  <2>2. Plus(MotionOf(Append(T, e)), MotionOf(more))
          = Plus(Plus(MotionOf(W), MotionOf(gone)), Share(e))
    <3>1. MotionOf(W) = Plus(Share(h), MotionOf(T)) /\ MotionOf(T) \in Motion
          /\ Share(h) \in Motion
      BY <1>5, <2>1, MotionTail, MotionOfType, ShareType
    <3>2. MotionOf(Append(T, e)) = Plus(MotionOf(T), Share(e))
      BY <2>1, MotionAppend
    <3>3. MotionOf(more) = Plus(MotionOf(gone), Share(h))
      BY <2>1, MotionAppend
    <3> HIDE DEF T, h, more
    <3> QED BY <1>1, <3>1, <3>2, <3>3, PlusSwap
  <2>3. KeysOf(gone) \subseteq KeysOf(more) /\ (h.type = "key" => h.key \in KeysOf(more))
    BY <2>1, KeysAppend
  <2> HIDE DEF more
  <2>4. ASSUME NEW k \in Keys \ {Console}, NEW d \in BOOLEAN
        PROVE  /\ Occurs(W, SE_KEY(k, d)) => Occurs(Append(T, e), SE_KEY(k, d)) \/ k \in KeysOf(more)
               /\ e = SE_KEY(k, d) => /\ Occurs(Append(T, e), SE_KEY(k, d))
                                      /\ Settled(Append(T, e), SE_KEY(k, ~d), SE_KEY(k, d))
               /\ Settled(W, SE_KEY(k, ~d), SE_KEY(k, d)) /\ e # SE_KEY(k, ~d)
                    => Settled(Append(T, e), SE_KEY(k, ~d), SE_KEY(k, d))
    <3> DEFINE good == SE_KEY(k, d)
               bad == SE_KEY(k, ~d)
    <3>1. good.type = "key" /\ good.key = k /\ bad # good
      BY KeyEventsAre
    <3> HIDE DEF good, bad
    <3>2. /\ Occurs(W, good) => good = h \/ Occurs(T, good)
          /\ Settled(W, bad, good) => Settled(T, bad, good)
      BY <1>5, TailKeeps
    <3>3. /\ Occurs(T, good) => Occurs(Append(T, e), good)
          /\ Occurs(Append(T, e), e)
          /\ Settled(T, bad, good) /\ e # bad => Settled(Append(T, e), bad, good)
          /\ e = good => Settled(Append(T, e), bad, good)
      <4> HIDE DEF T
      <4> QED BY <2>1, <3>1, AppendKeeps
    <3>4. Occurs(W, good) => Occurs(Append(T, e), good) \/ k \in KeysOf(more)
      BY <2>3, <3>1, <3>2, <3>3
    <3>5. e = good => Occurs(Append(T, e), good) /\ Settled(Append(T, e), bad, good)
      BY <3>3
    <3>6. Settled(W, bad, good) /\ e # bad => Settled(Append(T, e), bad, good)
      BY <3>2, <3>3
    <3> QED BY <3>4, <3>5, <3>6 DEF good, bad
  <2> QED BY <2>2, <2>3, <2>4 DEF Carries, more
<1> QED BY <1>4, <1>5

\* Com_PushEvent, and Com_QueueEvent when it does not merge.
LEMMA StoreCarries ==
  ASSUME NEW n \in Nat, n > 0, NEW qu, QueueTyped(qu, n), NEW e \in EngineEvents,
         NEW gone \in Seq(EngineEvents)
  PROVE  LET new == Store(qu, e, n)
             more == gone \o Overwritten(qu, n)
         IN /\ QueueTyped(new, n) /\ more \in Seq(EngineEvents)
            /\ Carries(Waiting(qu, n), gone, Waiting(new, n), more, e)
<1> DEFINE W == Waiting(qu, n)
           new == Store(qu, e, n)
           O == Overwritten(qu, n)
           full == Len(W) >= n
<1>1. W \in Seq(EngineEvents)
  BY WaitingType
<1>2. /\ QueueTyped(new, n)
      /\ Waiting(new, n) = Append(IF full THEN Tail(W) ELSE W, e)
      /\ O = IF full THEN <<Head(W)>> ELSE <<>>
      /\ full => W # <<>>
  BY Stored
<1> HIDE DEF W, new, O, full
<1>3. CASE full
  <2>1. gone \o O = Append(gone, Head(W)) /\ Head(W) \in EngineEvents
    BY <1>1, <1>2, <1>3
  <2>2. Append(gone, Head(W)) \in Seq(EngineEvents)
    BY <2>1
  <2>3. Carries(W, gone, Append(Tail(W), e), Append(gone, Head(W)), e)
    BY <1>1, <1>2, <1>3, AppendCarries
  <2> QED BY <1>2, <1>3, <2>1, <2>2, <2>3 DEF W, new, O
<1>4. CASE ~full
  <2>1. gone \o O = gone
    BY <1>2, <1>4
  <2>2. Carries(W, gone, Append(W, e), gone, e)
    BY <1>1, AppendCarries
  <2> QED BY <1>2, <1>4, <2>1, <2>2 DEF W, new, O
<1> QED BY <1>3, <1>4

\* Com_QueueEvent.
LEMMA QueueStepCarries ==
  ASSUME NEW qu, QueueTyped(qu, QueueSize), NEW gone \in Seq(EngineEvents),
         NEW e \in EngineEvents
  PROVE  LET r == QueueStep([queue |-> qu, gone |-> gone], e)
         IN /\ QueueTyped(r.queue, QueueSize) /\ r.gone \in Seq(EngineEvents)
            /\ r = [queue |-> r.queue, gone |-> r.gone]
            /\ Carries(Waiting(qu, QueueSize), gone, Waiting(r.queue, QueueSize), r.gone, e)
<1> DEFINE n == QueueSize
           last == (qu.head + (n - 1)) % n
           merge == e.type = "mouse" /\ ~IsEmpty(qu) /\ qu.slot[last].type = "mouse"
           r == QueueStep([queue |-> qu, gone |-> gone], e)
           new == [qu EXCEPT !.slot[last].move = Plus(@, e.move)]
<1>1. n \in Nat /\ n > 0 /\ qu.head \in Nat /\ qu.head + 1 # qu.head
  BY QueueAssumption DEF QueueTyped
<1>2. CASE merge
  <2>1. QueueEvent(qu, e) = new /\ new.head = qu.head
    <3>1. QueueEvent(qu, e) = new
      BY <1>2 DEF QueueEvent
    <3>2. new.head = qu.head
      BY DEF QueueTyped
    <3> QED BY <3>1, <3>2
  <2> DEFINE W == Waiting(qu, n)
             V == Waiting(new, n)
             c == Len(W)
  <2>2. r = [queue |-> new, gone |-> gone]
    BY <2>1 DEF QueueStep
  <2>3. /\ QueueTyped(new, n)
        /\ Len(V) = c /\ c > 0
        /\ \A i \in 1..(c - 1) : V[i] = W[i]
        /\ W[c].type = "mouse" /\ V[c].type = "mouse"
        /\ Share(V[c]) = Plus(Share(W[c]), Share(e))
    BY <1>2, Merged, SMTT(30)
  <2>4. W \in Seq(EngineEvents) /\ V \in Seq(EngineEvents)
    BY <1>1, <2>3, WaitingType
  <2> HIDE DEF W, V, new, r, merge
  <2>5. Plus(MotionOf(V), MotionOf(gone)) = Plus(Plus(MotionOf(W), MotionOf(gone)), Share(e))
    <3>1. PICK m \in Motion : /\ MotionOf(W) = Plus(m, Share(W[c]))
                              /\ MotionOf(V) = Plus(m, Share(V[c]))
      <4>1. \A i \in 1..(c - 1) : W[i] = V[i]
        BY <2>3
      <4> QED BY <2>3, <2>4, <4>1, MotionLast
    <3>2. c \in 1..c /\ W[c] \in EngineEvents
      BY <2>3, <2>4
    <3>3. Share(W[c]) \in Motion /\ Share(e) \in Motion /\ MotionOf(gone) \in Motion
      BY <3>2, ShareType, MotionOfType
    <3> DEFINE w == Share(W[c])
               v == Share(V[c])
               x == Share(e)
               g == MotionOf(gone)
    <3>4. v = Plus(w, x)
      BY <2>3
    <3> HIDE DEF w, v, x, g
    <3>5. Plus(Plus(m, v), g) = Plus(Plus(Plus(m, w), g), x)
      BY <3>3, <3>4, SMTT(30) DEF Motion, Plus, w, x, g
    <3> QED BY <3>1, <3>5 DEF w, v, x, g
  <2>6. ASSUME NEW k \in Keys \ {Console}, NEW d \in BOOLEAN
        PROVE  /\ Occurs(W, SE_KEY(k, d)) => Occurs(V, SE_KEY(k, d)) \/ k \in KeysOf(gone)
               /\ e = SE_KEY(k, d) => /\ Occurs(V, SE_KEY(k, d))
                                      /\ Settled(V, SE_KEY(k, ~d), SE_KEY(k, d))
               /\ Settled(W, SE_KEY(k, ~d), SE_KEY(k, d)) /\ e # SE_KEY(k, ~d)
                    => Settled(V, SE_KEY(k, ~d), SE_KEY(k, d))
    <3>1. SE_KEY(k, d).type = "key" /\ SE_KEY(k, ~d).type = "key"
      BY DEF SE_KEY
    <3>2. e # SE_KEY(k, d)
      BY <1>2, <3>1 DEF merge
    <3>3. W[Len(W)].type # "key" /\ V[Len(W)].type # "key"
      BY <2>3 DEF c
    <3> DEFINE good == SE_KEY(k, d)
               bad == SE_KEY(k, ~d)
    <3>4. e # good /\ good.type = "key" /\ bad.type = "key"
      BY <3>1, <3>2
    <3>5. Len(V) = Len(W) /\ Len(W) > 0 /\ \A i \in 1..(Len(W) - 1) : V[i] = W[i]
      BY <2>3 DEF c
    <3> HIDE DEF good, bad
    <3>6. (Occurs(W, good) => Occurs(V, good)) /\ (Settled(W, bad, good) => Settled(V, bad, good))
      BY <2>4, <3>3, <3>4, <3>5, LastKeeps
    <3> QED BY <3>4, <3>6 DEF good, bad
  <2>7. Carries(W, gone, V, gone, e)
    BY <2>5, <2>6 DEF Carries
  <2>8. r.queue = new /\ r.gone = gone
    BY <2>2
  <2> QED BY <2>2, <2>3, <2>7, <2>8 DEF W, V, r
<1>3. CASE ~merge
  <2>1. QueueEvent(qu, e) = Store(qu, e, n)
    BY <1>3 DEF QueueEvent
  <2>2. Store(qu, e, n).head # qu.head
    BY <1>1 DEF Store
  <2>3. r = [queue |-> Store(qu, e, n), gone |-> gone \o Overwritten(qu, n)]
    BY <2>1, <2>2 DEF QueueStep
  <2> HIDE DEF r, n
  <2>4. r.queue = Store(qu, e, n) /\ r.gone = gone \o Overwritten(qu, n)
    BY <2>3
  <2>5. /\ QueueTyped(Store(qu, e, n), n) /\ gone \o Overwritten(qu, n) \in Seq(EngineEvents)
        /\ Carries(Waiting(qu, n), gone, Waiting(Store(qu, e, n), n), gone \o Overwritten(qu, n), e)
    BY <1>1, StoreCarries DEF n
  <2> QED BY <2>3, <2>4, <2>5 DEF r, n
<1> QED BY <1>2, <1>3

\* What queueing the events evs does to the line of eventQueue.
QueuesAll(W, V, more, evs) ==
  /\ Plus(MotionOf(V), MotionOf(more)) = Plus(MotionOf(W), MotionOf(evs))
  /\ \A k \in Keys \ {Console}, d \in BOOLEAN :
       /\ Occurs(W, SE_KEY(k, d)) => Occurs(V, SE_KEY(k, d)) \/ k \in KeysOf(more)
       /\ ~Occurs(evs, SE_KEY(k, ~d)) =>
            /\ Settled(W, SE_KEY(k, ~d), SE_KEY(k, d)) => Settled(V, SE_KEY(k, ~d), SE_KEY(k, d))
            /\ evs # <<>> /\ evs[1] = SE_KEY(k, d) =>
                 /\ Settled(V, SE_KEY(k, ~d), SE_KEY(k, d))
                 /\ Occurs(V, SE_KEY(k, d)) \/ k \in KeysOf(more)

LEMMA QueueAllCarries ==
  ASSUME QueueTyped(sys, QueueSize), NEW evs \in Seq(EngineEvents), Len(evs) <= 2, QueueAll(evs)
  PROVE  \E qu, more :
           /\ QueueTyped(qu, QueueSize) /\ more \in Seq(EngineEvents)
           /\ QueuesAll(Waiting(sys, QueueSize), Waiting(qu, QueueSize), more, evs)
           /\ sys' = qu /\ evicted' = evicted \union KeysOf(more)
           /\ spilled' = Plus(spilled, MotionOf(more))
<1> DEFINE n == QueueSize
           W == Waiting(sys, n)
           start == [queue |-> sys, gone |-> <<>>]
           done == CASE evs = <<>>   -> start
                     [] Len(evs) = 1 -> QueueStep(start, evs[1])
                     [] OTHER        -> QueueStep(QueueStep(start, evs[1]), evs[2])
<1>1. /\ sys' = done.queue /\ evicted' = evicted \union KeysOf(done.gone)
      /\ spilled' = Plus(spilled, MotionOf(done.gone))
  BY DEF QueueAll
<1>2. <<>> \in Seq(EngineEvents) /\ MotionOf(<<>>) = Still /\ n \in Nat /\ n > 0
  BY MotionEmpty, QueueAssumption
<1>3. W \in Seq(EngineEvents) /\ MotionOf(W) \in Motion
  BY <1>2, WaitingType, MotionOfType
<1> SUFFICES /\ QueueTyped(done.queue, n) /\ done.gone \in Seq(EngineEvents)
             /\ QueuesAll(W, Waiting(done.queue, n), done.gone, evs)
  BY <1>1
<1>4. CASE evs = <<>>
  <2>1. done.queue = sys /\ done.gone = <<>>
    BY <1>4
  <2>2. MotionOf(evs) = Still
    BY <1>2, <1>4
  <2>3. QueuesAll(W, W, <<>>, evs)
    BY <1>2, <1>4, <2>2 DEF QueuesAll
  <2> QED BY <1>2, <2>1, <2>3
<1>5. CASE evs # <<>>
  <2> DEFINE a == evs[1]
             one == QueueStep(start, a)
             V == Waiting(one.queue, n)
  <2>1. a \in EngineEvents /\ Len(evs) \in {1, 2}
    <3>1. Len(evs) \in Nat /\ Len(evs) # 0
      BY <1>5
    <3>2. 1 \in 1..Len(evs)
      BY <3>1
    <3>3. evs[1] \in EngineEvents
      BY <3>2
    <3>4. Len(evs) \in {1, 2}
      <4> DEFINE c == Len(evs)
      <4>1. c \in Nat /\ c # 0 /\ c <= 2
        BY <3>1
      <4> HIDE DEF c
      <4>2. c = 1 \/ c = 2
        BY <4>1
      <4> QED BY <4>2 DEF c
    <3> QED BY <3>3, <3>4
  <2>2. /\ QueueTyped(one.queue, n) /\ one.gone \in Seq(EngineEvents)
        /\ one = [queue |-> one.queue, gone |-> one.gone]
        /\ Carries(W, <<>>, V, one.gone, a)
    BY <1>2, <2>1, QueueStepCarries
  <2>3. CASE Len(evs) = 1
    <3>1. done = one
      BY <1>5, <2>3
    <3>2. evs = <<a>>
      BY <2>3
    <3>3. MotionOf(evs) = Share(a) /\ Share(a) \in Motion
      BY <2>1, <3>2, MotionOne, ShareType
    <3>4. Occurs(evs, a) /\ evs[1] = a /\ \A f : Occurs(evs, f) => f = a
      BY <2>3, <3>2 DEF Occurs
    <3> HIDE DEF a, one, V, W, done
    <3>5. Plus(MotionOf(V), MotionOf(one.gone)) = Plus(MotionOf(W), MotionOf(evs))
      <4>1. Plus(MotionOf(W), MotionOf(<<>>)) = MotionOf(W)
        BY <1>2, <1>3, PlusLaws DEF Motion, Still
      <4> QED BY <2>2, <3>3, <4>1 DEF Carries
    <3>6. QueuesAll(W, V, one.gone, evs)
      BY <2>2, <3>4, <3>5 DEF Carries, QueuesAll
    <3> QED BY <2>2, <3>1, <3>6 DEF V
  <2>4. CASE Len(evs) = 2
    <3> DEFINE b == evs[2]
               two == QueueStep(one, b)
               U == Waiting(two.queue, n)
    <3>1. done = two
      BY <1>5, <2>4
    <3>2. evs = Append(<<a>>, b) /\ b \in EngineEvents /\ <<a>> \in Seq(EngineEvents)
      BY <2>1, <2>4
    <3>3. /\ MotionOf(evs) = Plus(Share(a), Share(b)) /\ Share(a) \in Motion /\ Share(b) \in Motion
      BY <2>1, <3>2, MotionOne, MotionAppend, ShareType
    <3>4. Occurs(evs, a) /\ Occurs(evs, b) /\ evs[1] = a
      BY <2>4 DEF Occurs
    <3> HIDE DEF one
    <3>5. /\ QueueTyped(two.queue, n) /\ two.gone \in Seq(EngineEvents)
          /\ Carries(V, one.gone, U, two.gone, b)
      <4> DEFINE r == QueueStep([queue |-> one.queue, gone |-> one.gone], b)
      <4>1. r = two
        BY <2>2
      <4>2. /\ QueueTyped(r.queue, n) /\ r.gone \in Seq(EngineEvents)
            /\ Carries(V, one.gone, Waiting(r.queue, n), r.gone, b)
        BY <2>2, <3>2, QueueStepCarries
      <4> HIDE DEF r
      <4> QED BY <4>1, <4>2
    <3> HIDE DEF a, b, V, W, U, done, two
    <3>6. Plus(MotionOf(U), MotionOf(two.gone)) = Plus(MotionOf(W), MotionOf(evs))
      <4>1. Plus(MotionOf(W), MotionOf(<<>>)) = MotionOf(W)
        BY <1>2, <1>3, PlusLaws DEF Motion, Still
      <4>2. Plus(MotionOf(V), MotionOf(one.gone)) = Plus(MotionOf(W), Share(a))
        BY <2>2, <4>1 DEF Carries
      <4>3. Plus(MotionOf(U), MotionOf(two.gone)) = Plus(Plus(MotionOf(W), Share(a)), Share(b))
        BY <3>5, <4>2 DEF Carries
      <4> QED BY <1>3, <3>3, <4>3, PlusLaws
    <3>7. ASSUME NEW k \in Keys \ {Console}, NEW d \in BOOLEAN
          PROVE  /\ Occurs(W, SE_KEY(k, d)) => Occurs(U, SE_KEY(k, d)) \/ k \in KeysOf(two.gone)
                 /\ ~Occurs(evs, SE_KEY(k, ~d)) =>
                      /\ Settled(W, SE_KEY(k, ~d), SE_KEY(k, d))
                           => Settled(U, SE_KEY(k, ~d), SE_KEY(k, d))
                      /\ evs # <<>> /\ evs[1] = SE_KEY(k, d) =>
                           /\ Settled(U, SE_KEY(k, ~d), SE_KEY(k, d))
                           /\ Occurs(U, SE_KEY(k, d)) \/ k \in KeysOf(two.gone)
      <4> DEFINE good == SE_KEY(k, d)
                 bad == SE_KEY(k, ~d)
      <4>1. /\ Occurs(W, good) => Occurs(V, good) \/ k \in KeysOf(one.gone)
            /\ a = good => Occurs(V, good) /\ Settled(V, bad, good)
            /\ Settled(W, bad, good) /\ a # bad => Settled(V, bad, good)
        BY <2>2 DEF Carries
      <4>2. /\ Occurs(V, good) => Occurs(U, good) \/ k \in KeysOf(two.gone)
            /\ Settled(V, bad, good) /\ b # bad => Settled(U, bad, good)
            /\ KeysOf(one.gone) \subseteq KeysOf(two.gone)
        BY <3>5 DEF Carries
      <4> HIDE DEF good, bad
      <4>3. ~Occurs(evs, bad) => a # bad /\ b # bad
        BY <3>4
      <4> QED BY <3>4, <4>1, <4>2, <4>3 DEF good, bad
    <3>8. QueuesAll(W, U, two.gone, evs)
      BY <3>6, <3>7 DEF QueuesAll
    <3> QED BY <3>1, <3>5, <3>8 DEF U
  <2> QED BY <2>1, <2>3, <2>4
<1> QED BY <1>4, <1>5

LEMMA TwoEvents ==
  ASSUME NEW a \in EngineEvents, NEW b \in EngineEvents
  PROVE  <<a>> \o <<b>> = <<a, b>>
<1> DEFINE s == <<a>> \o <<b>>
           t == <<a, b>>
<1>1. <<a>> \in Seq(EngineEvents) /\ Len(<<a>>) = 1 /\ <<b>> \in Seq(EngineEvents) /\ Len(<<b>>) = 1
  OBVIOUS
<1>2. s \in Seq(EngineEvents) /\ Len(s) = 2 /\ s[1] = a /\ s[2] = b
  BY <1>1
<1>3. t \in Seq(EngineEvents) /\ Len(t) = 2 /\ t[1] = a /\ t[2] = b
  OBVIOUS
<1> HIDE DEF s, t
<1>4. s = t
  BY <1>2, <1>3
<1> QED BY <1>4 DEF s, t

\* What IN_Frame makes of an event of the ring.
LEMMA TranslateIs ==
  ASSUME NEW e \in Event
  PROVE  /\ Translate(e) \in Seq(EngineEvents) /\ Len(Translate(e)) <= 2
         /\ MotionOf(Translate(e)) = Still
         /\ \A k \in Keys \ {Console}, d \in BOOLEAN :
              /\ Occurs(Translate(e), SE_KEY(k, d)) => e = [key |-> k, down |-> d]
              /\ e = [key |-> k, down |-> d] =>
                   Translate(e) # <<>> /\ Translate(e)[1] = SE_KEY(k, d)
<1> DEFINE t == Translate(e)
<1>1. e.key \in Keys /\ e.down \in BOOLEAN /\ e = [key |-> e.key, down |-> e.down]
  BY DEF Event
<1>2. /\ SE_KEY(K_CONSOLE, TRUE) \in EngineEvents /\ SE_KEY(K_CONSOLE, FALSE) \in EngineEvents
      /\ Share(SE_KEY(K_CONSOLE, TRUE)) = Still /\ Share(SE_KEY(K_CONSOLE, FALSE)) = Still
  BY DEF SE_KEY, EngineEvents, Share
<1>3. e.key # Console => SE_KEY(e.key, e.down) \in EngineEvents
  BY <1>1 DEF SE_KEY, EngineEvents
<1>4. /\ SE_CHAR(e.key) \in EngineEvents /\ Share(SE_CHAR(e.key)) = Still
      /\ Share(SE_KEY(e.key, e.down)) = Still
  BY <1>1 DEF SE_CHAR, SE_KEY, EngineEvents, Share
<1>5. t = CASE e.key = Console /\ e.down  -> <<SE_KEY(K_CONSOLE, TRUE), SE_KEY(K_CONSOLE, FALSE)>>
            [] e.key = Console /\ ~e.down -> <<>>
            [] e.key # Console /\ e.down /\ e.key \in Printable
                 -> <<SE_KEY(e.key, e.down), SE_CHAR(e.key)>>
            [] OTHER -> <<SE_KEY(e.key, e.down)>>
  <2>1. CASE e.key = Console
    BY <1>1, <2>1 DEF Translate
  <2>2. CASE e.key # Console /\ e.down /\ e.key \in Printable
    <3> DEFINE a == SE_KEY(e.key, e.down)
               b == SE_CHAR(e.key)
    <3>1. t = <<a>> \o <<b>>
      BY <2>2 DEF Translate
    <3>2. <<a>> \o <<b>> = <<a, b>>
      <4>1. a \in EngineEvents /\ b \in EngineEvents
        BY <1>3, <1>4, <2>2
      <4> HIDE DEF a, b
      <4> QED BY <4>1, TwoEvents
    <3> QED BY <2>2, <3>1, <3>2
  <2>3. CASE e.key # Console /\ ~(e.down /\ e.key \in Printable)
    <3>1. t = <<SE_KEY(e.key, e.down)>> \o <<>>
      BY <2>3 DEF Translate
    <3> QED BY <2>3, <3>1
  <2> QED BY <2>1, <2>2, <2>3
<1> HIDE DEF t
<1>6. \A k \in Keys \ {Console}, d \in BOOLEAN :
        /\ SE_KEY(K_CONSOLE, TRUE) # SE_KEY(k, d) /\ SE_KEY(K_CONSOLE, FALSE) # SE_KEY(k, d)
        /\ SE_CHAR(e.key) # SE_KEY(k, d)
        /\ SE_KEY(e.key, e.down) = SE_KEY(k, d) <=> e = [key |-> k, down |-> d]
  <2> TAKE k \in Keys \ {Console}, d \in BOOLEAN
  <2>1. /\ SE_KEY(k, d).key = k /\ SE_KEY(k, d).down = d /\ SE_KEY(k, d).type = "key"
        /\ SE_KEY(K_CONSOLE, TRUE).key = K_CONSOLE /\ SE_KEY(K_CONSOLE, FALSE).key = K_CONSOLE
        /\ SE_CHAR(e.key).type = "char"
        /\ SE_KEY(e.key, e.down).key = e.key /\ SE_KEY(e.key, e.down).down = e.down
    BY DEF SE_KEY, SE_CHAR
  <2>2. k # K_CONSOLE
    BY QueueAssumption
  <2>3. SE_KEY(K_CONSOLE, TRUE) # SE_KEY(k, d) /\ SE_KEY(K_CONSOLE, FALSE) # SE_KEY(k, d)
    BY <2>1, <2>2
  <2>4. SE_CHAR(e.key) # SE_KEY(k, d)
    BY <2>1
  <2>5. SE_KEY(e.key, e.down) = SE_KEY(k, d) => e.key = k /\ e.down = d
    BY <2>1
  <2>6. e.key = k /\ e.down = d => SE_KEY(e.key, e.down) = SE_KEY(k, d)
    OBVIOUS
  <2>7. e = [key |-> k, down |-> d] <=> e.key = k /\ e.down = d
    BY <1>1
  <2> QED BY <2>3, <2>4, <2>5, <2>6, <2>7
<1>7. CASE e.key = Console /\ e.down
  <2>1. t = <<SE_KEY(K_CONSOLE, TRUE), SE_KEY(K_CONSOLE, FALSE)>>
    BY <1>5, <1>7
  <2> DEFINE a == SE_KEY(K_CONSOLE, TRUE)
             b == SE_KEY(K_CONSOLE, FALSE)
  <2>2. a \in EngineEvents /\ b \in EngineEvents /\ Share(a) = Still /\ Share(b) = Still /\ t = <<a, b>>
    BY <1>2, <2>1
  <2> HIDE DEF a, b
  <2>3. t \in Seq(EngineEvents) /\ Len(t) = 2 /\ MotionOf(t) = Still
    <3>1. t = Append(<<a>>, b) /\ <<a>> \in Seq(EngineEvents)
      BY <2>2
    <3>2. MotionOf(t) = Plus(Still, Still)
      BY <2>2, <3>1, MotionAppend, MotionOne
    <3> QED BY <2>2, <3>2 DEF Plus, Still
  <2>4. \A f : Occurs(t, f) => f = a \/ f = b
    BY <2>2 DEF Occurs
  <2>5. \A k \in Keys \ {Console}, d \in BOOLEAN : e # [key |-> k, down |-> d]
    BY <1>7
  <2>6. \A k \in Keys \ {Console}, d \in BOOLEAN : ~Occurs(t, SE_KEY(k, d))
    BY <1>6, <2>4 DEF a, b
  <2> QED BY <2>3, <2>5, <2>6 DEF t
<1>8. CASE e.key = Console /\ ~e.down
  <2>1. t = <<>>
    BY <1>5, <1>8
  <2>2. \A f : ~Occurs(t, f)
    BY <2>1 DEF Occurs
  <2>3. \A k \in Keys \ {Console}, d \in BOOLEAN : e # [key |-> k, down |-> d]
    BY <1>8
  <2>4. t \in Seq(EngineEvents) /\ Len(t) <= 2 /\ MotionOf(t) = Still
    BY <2>1, MotionEmpty
  <2> QED BY <2>2, <2>3, <2>4 DEF t
<1>9. CASE e.key # Console /\ e.down /\ e.key \in Printable
  <2> DEFINE a == SE_KEY(e.key, e.down)
             b == SE_CHAR(e.key)
  <2>1. t = <<a, b>>
    BY <1>5, <1>9
  <2>2. a \in EngineEvents /\ b \in EngineEvents /\ Share(a) = Still /\ Share(b) = Still
    BY <1>3, <1>4, <1>9
  <2> HIDE DEF a, b
  <2>3. t \in Seq(EngineEvents) /\ Len(t) = 2 /\ MotionOf(t) = Still /\ t # <<>> /\ t[1] = a
    <3>1. t = Append(<<a>>, b) /\ <<a>> \in Seq(EngineEvents)
      BY <2>1, <2>2
    <3>2. MotionOf(t) = Plus(Still, Still)
      BY <2>2, <3>1, MotionAppend, MotionOne
    <3> QED BY <2>1, <2>2, <3>2 DEF Plus, Still
  <2>4. \A f : Occurs(t, f) => f = a \/ f = b
    BY <2>1 DEF Occurs
  <2>5. \A k \in Keys \ {Console}, d \in BOOLEAN :
          /\ b # SE_KEY(k, d)
          /\ a = SE_KEY(k, d) <=> e = [key |-> k, down |-> d]
    BY <1>6 DEF a, b
  <2>6. \A k \in Keys \ {Console}, d \in BOOLEAN :
          Occurs(t, SE_KEY(k, d)) => e = [key |-> k, down |-> d]
    BY <2>4, <2>5
  <2>7. \A k \in Keys \ {Console}, d \in BOOLEAN :
          e = [key |-> k, down |-> d] => t # <<>> /\ t[1] = SE_KEY(k, d)
    BY <2>3, <2>5
  <2> QED BY <2>3, <2>6, <2>7 DEF t
<1>10. CASE e.key # Console /\ ~(e.down /\ e.key \in Printable)
  <2> DEFINE a == SE_KEY(e.key, e.down)
  <2>1. t = <<a>>
    BY <1>5, <1>10
  <2>2. a \in EngineEvents /\ Share(a) = Still
    BY <1>3, <1>4, <1>10
  <2> HIDE DEF a
  <2>3. t \in Seq(EngineEvents) /\ Len(t) <= 2 /\ MotionOf(t) = Still /\ t # <<>> /\ t[1] = a
    BY <2>1, <2>2, MotionOne
  <2>4. \A f : Occurs(t, f) => f = a
    BY <2>1 DEF Occurs
  <2> QED BY <1>6, <2>3, <2>4 DEF a, t
<1> QED BY <1>1, <1>7, <1>8, <1>9, <1>10

-----------------------------------------------------------------------------
(* The types of the pipeline.                                                 *)

SysLine == Waiting(sys, QueueSize)
PushedLine == Waiting(pushed, PushSize)

\* The queues hold engine events, every key that is down is a key of the engine,
\* and the wheel is never held.
PipeTyped ==
  /\ RingInv
  /\ QueueTyped(sys, QueueSize) /\ QueueTyped(pushed, PushSize)
  /\ keys \subseteq Keys \ {Console}
  /\ turned \in Motion /\ spilled \in Motion
  /\ prev \intersect Wheel = {}

\* A step of the pipeline is a step of the ring or leaves the ring alone.
LEMMA PipeIsNext == PipeNext => [Next]_vars
BY DEF PipeNext, Interrupt, StartFrame, FetchEvent, QueueKeyEvent, PollMotion, NoMotion,
       QueueMotion, EventLoop, KeyEvent, CharEvent, MouseEvent, ChangeCatcher, ToggleMenu,
       LoopDone, AbortFrame, Milliseconds, PushEvent, MillisecondsDone, Next, IN_Frame, Drain, Poll

\* Com_GetEvent takes the oldest pushed event, or the oldest queued one when
\* nothing is pushed.
LEMMA ConsumeTakes ==
  ASSUME PipeTyped, ~IsEmpty(Source), Consume
  PROVE  /\ GotEvent \in EngineEvents
         /\ QueueTyped(sys', QueueSize) /\ QueueTyped(pushed', PushSize)
         /\ \/ /\ ~IsEmpty(pushed) /\ PushedLine # <<>> /\ SysLine' = SysLine
               /\ GotEvent = Head(PushedLine) /\ PushedLine' = Tail(PushedLine)
            \/ /\ IsEmpty(pushed) /\ PushedLine = <<>> /\ SysLine # <<>> /\ PushedLine' = <<>>
               /\ GotEvent = Head(SysLine) /\ SysLine' = Tail(SysLine)
<1>1. /\ QueueSize \in Nat /\ QueueSize > 0 /\ PushSize \in Nat /\ PushSize > 0
      /\ QueueTyped(sys, QueueSize) /\ QueueTyped(pushed, PushSize)
  BY QueueAssumption DEF PipeTyped
<1>2. CASE ~IsEmpty(pushed)
  <2>1. /\ GotEvent = pushed.slot[pushed.tail % PushSize] /\ sys' = sys
        /\ pushed' = [pushed EXCEPT !.tail = @ + 1]
    BY <1>2 DEF GotEvent, Source, SourceSize, FromPushed, Consume
  <2>2. /\ QueueTyped([pushed EXCEPT !.tail = @ + 1], PushSize)
        /\ PushedLine # <<>> /\ pushed.slot[pushed.tail % PushSize] = Head(PushedLine)
        /\ pushed.slot[pushed.tail % PushSize] \in EngineEvents
        /\ Waiting([pushed EXCEPT !.tail = @ + 1], PushSize) = Tail(PushedLine)
    BY <1>1, <1>2, TakenOut DEF PushedLine
  <2> QED BY <1>1, <1>2, <2>1, <2>2 DEF PushedLine, SysLine
<1>3. CASE IsEmpty(pushed)
  <2>1. /\ GotEvent = sys.slot[sys.tail % QueueSize] /\ pushed' = pushed
        /\ sys' = [sys EXCEPT !.tail = @ + 1] /\ ~IsEmpty(sys)
    BY <1>3 DEF GotEvent, Source, SourceSize, FromPushed, Consume
  <2>2. /\ QueueTyped([sys EXCEPT !.tail = @ + 1], QueueSize)
        /\ SysLine # <<>> /\ sys.slot[sys.tail % QueueSize] = Head(SysLine)
        /\ sys.slot[sys.tail % QueueSize] \in EngineEvents
        /\ Waiting([sys EXCEPT !.tail = @ + 1], QueueSize) = Tail(SysLine)
    BY <1>1, <2>1, TakenOut DEF SysLine
  <2>3. PushedLine = <<>>
    BY <1>1, <1>3, WaitingType DEF PushedLine
  <2> QED BY <1>1, <1>3, <2>1, <2>2, <2>3 DEF PushedLine, SysLine
<1> QED BY <1>2, <1>3

\* Com_Milliseconds moves the oldest event of eventQueue behind the pushed ones.
LEMMA PushMoves ==
  ASSUME PipeTyped, PushEvent
  PROVE  /\ QueueTyped(sys', QueueSize) /\ QueueTyped(pushed', PushSize)
         /\ SysLine # <<>> /\ SysLine' = Tail(SysLine)
         /\ \E gone \in Seq(EngineEvents) :
              /\ Carries(PushedLine, <<>>, PushedLine', gone, Head(SysLine))
              /\ evicted' = evicted \union KeysOf(gone)
              /\ spilled' = Plus(spilled, MotionOf(gone))
<1> DEFINE e == sys.slot[sys.tail % QueueSize]
           gone == Overwritten(pushed, PushSize)
           new == Store(pushed, e, PushSize)
<1>1. /\ QueueSize \in Nat /\ QueueSize > 0 /\ PushSize \in Nat /\ PushSize > 0
      /\ QueueTyped(sys, QueueSize) /\ QueueTyped(pushed, PushSize)
  BY QueueAssumption DEF PipeTyped
<1>2. /\ ~IsEmpty(sys) /\ pushed' = new /\ sys' = [sys EXCEPT !.tail = @ + 1]
      /\ evicted' = evicted \union KeysOf(gone) /\ spilled' = Plus(spilled, MotionOf(gone))
  BY DEF PushEvent
<1>3. /\ QueueTyped([sys EXCEPT !.tail = @ + 1], QueueSize)
      /\ SysLine # <<>> /\ e = Head(SysLine) /\ e \in EngineEvents
      /\ Waiting([sys EXCEPT !.tail = @ + 1], QueueSize) = Tail(SysLine)
  BY <1>1, <1>2, TakenOut DEF SysLine
<1>4. <<>> \in Seq(EngineEvents)
  OBVIOUS
<1> HIDE DEF e
<1>5. /\ QueueTyped(new, PushSize) /\ <<>> \o gone \in Seq(EngineEvents)
      /\ Carries(PushedLine, <<>>, Waiting(new, PushSize), <<>> \o gone, e)
  BY <1>1, <1>3, <1>4, StoreCarries DEF PushedLine
<1>6. <<>> \o gone = gone
  <2>1. gone = <<>> \/ gone = <<pushed.slot[pushed.head % PushSize]>>
    BY DEF Overwritten
  <2> HIDE DEF gone
  <2> QED BY <2>1
<1> HIDE DEF gone, new
<1>7. gone \in Seq(EngineEvents) /\ Carries(PushedLine, <<>>, Waiting(new, PushSize), gone, e)
  BY <1>5, <1>6
<1>8. SysLine' = Tail(SysLine) /\ PushedLine' = Waiting(new, PushSize)
  BY <1>2, <1>3 DEF SysLine, PushedLine
<1> QED BY <1>2, <1>3, <1>5, <1>7, <1>8

\* Every step keeps the types.
LEMMA PipeTypedStep == PipeTyped /\ [PipeNext]_<<vars, engineVars>> => PipeTyped'
<1> SUFFICES ASSUME PipeTyped, [PipeNext]_<<vars, engineVars>> PROVE PipeTyped'
  OBVIOUS
<1>1. RingInv'
  BY PipeIsNext, RingInvStep DEF PipeTyped
<1>2. prev' \intersect Wheel = {}
  <2>1. ASSUME NEW bits \in SUBSET Bits, NEW codes \in SUBSET Scancodes,
               KeyStatusHandlerRaw(bits, codes)
        PROVE  prev' \intersect Wheel = {}
    BY <2>1, RingAssumption DEF KeyStatusHandlerRaw, PipeTyped
  <2>2. ASSUME NEW buttons \in SUBSET Buttons, NEW move \in Moves,
               NEW wheel \in {{}, {WheelUp}, {WheelDown}},
               MouseStatusHandler(buttons, move, wheel)
        PROVE  prev' \intersect Wheel = {}
    BY <2>2, RingAssumption DEF MouseStatusHandler, PipeTyped
  <2>3. Report \/ UNCHANGED prev
    BY PipeIsNext DEF Next, Handler, PushUnmapped, PushFull, PushStore, PushPublish, IN_Frame,
           EnterFrame, Drain, RingEmpty, ReadSlot, AdvanceTail, AdvanceTailFirst, ReadSlotLate,
           DispatchEvent, Poll, PollStill, PollX, PollY, ClearX, ClearY, DispatchMotion,
           vars, isrVars
  <2> QED BY <2>1, <2>2, <2>3 DEF Report, PipeTyped
<1>3. ASSUME UNCHANGED <<sys, pushed, keys, turned, spilled>> PROVE PipeTyped'
  BY <1>1, <1>2, <1>3 DEF PipeTyped
<1>4. ASSUME NEW evs \in Seq(EngineEvents), Len(evs) <= 2, QueueAll(evs),
             UNCHANGED <<pushed, keys, turned>>
      PROVE  PipeTyped'
  <2>1. PICK qu, more :
           /\ QueueTyped(qu, QueueSize) /\ more \in Seq(EngineEvents)
           /\ sys' = qu /\ spilled' = Plus(spilled, MotionOf(more))
    BY <1>4, QueueAllCarries DEF PipeTyped
  <2>2. spilled' \in Motion
    BY <2>1, MotionOfType, MotionType DEF PipeTyped
  <2> QED BY <1>1, <1>2, <1>4, <2>1, <2>2 DEF PipeTyped
<1>5. CASE QueueKeyEvent
  <2>1. ev \in Event
    BY <1>5 DEF QueueKeyEvent, DispatchEvent, PipeTyped, RingInv
  <2>2. Translate(ev) \in Seq(EngineEvents) /\ Len(Translate(ev)) <= 2
    BY <2>1, TranslateIs
  <2> QED BY <1>4, <1>5, <2>2 DEF QueueKeyEvent
<1>6. CASE QueueMotion
  <2>1. moved \in Motion
    BY DEF PipeTyped, RingInv, TypeOK
  <2>2. SE_MOUSE(moved) \in EngineEvents
    BY <2>1 DEF SE_MOUSE, EngineEvents
  <2>3. <<SE_MOUSE(moved)>> \in Seq(EngineEvents) /\ Len(<<SE_MOUSE(moved)>>) <= 2
    BY <2>2
  <2> QED BY <1>4, <1>6, <2>3 DEF QueueMotion
<1>7. ASSUME ~IsEmpty(Source), Consume, keys' \subseteq Keys \ {Console}, turned' \in Motion,
             UNCHANGED spilled
      PROVE  PipeTyped'
  BY <1>1, <1>2, <1>7, ConsumeTakes DEF PipeTyped
<1>8. CASE KeyEvent
  <2>1. GotEvent \in EngineEvents /\ GotEvent.type = "key"
    BY <1>8, ConsumeTakes DEF KeyEvent
  <2>2. GotEvent.key \in (Keys \ {Console}) \union {K_CONSOLE}
    BY <2>1 DEF EngineEvents
  <2>3. \/ keys' = {} \/ keys' = keys \ {GotEvent.key}
        \/ GotEvent.key # K_CONSOLE /\ keys' = keys \union {GotEvent.key}
    BY <1>8 DEF KeyEvent, TogglesConsole
  <2>4. keys' \subseteq Keys \ {Console}
    BY <2>2, <2>3 DEF PipeTyped
  <2>5. turned \in Motion
    BY DEF PipeTyped
  <2> QED BY <1>7, <1>8, <2>4, <2>5 DEF KeyEvent
<1>9. CASE CharEvent
  <2>1. keys' \subseteq Keys \ {Console} /\ turned \in Motion
    BY <1>9 DEF PipeTyped, CharEvent, MayClearStates, Key_ClearStates
  <2> QED BY <1>7, <1>9, <2>1 DEF CharEvent
<1>10. CASE MouseEvent
  <2>1. GotEvent \in EngineEvents /\ GotEvent.type = "mouse"
    BY <1>10, ConsumeTakes DEF MouseEvent
  <2>2. GotEvent.move \in Motion
    BY <2>1 DEF EngineEvents
  <2>3. keys' \subseteq Keys \ {Console} /\ turned' \in Motion
    BY <1>10, <2>2, MotionType DEF PipeTyped, MouseEvent, MayClearStates, Key_ClearStates
  <2> QED BY <1>7, <1>10, <2>3 DEF MouseEvent
<1>11. CASE PushEvent
  <2>1. QueueTyped(sys', QueueSize) /\ QueueTyped(pushed', PushSize)
    BY <1>11, PushMoves
  <2>2. PICK gone \in Seq(EngineEvents) : spilled' = Plus(spilled, MotionOf(gone))
    BY <1>11, PushMoves
  <2>3. spilled' \in Motion
    BY <2>2, MotionOfType, MotionType DEF PipeTyped
  <2> QED BY <1>1, <1>2, <1>11, <2>1, <2>3 DEF PipeTyped, PushEvent
<1>12. CASE Interrupt \/ StartFrame \/ FetchEvent \/ PollMotion \/ NoMotion \/ LoopDone
              \/ AbortFrame \/ Milliseconds \/ MillisecondsDone
  BY <1>3, <1>12 DEF Interrupt, StartFrame, FetchEvent, PollMotion, NoMotion, LoopDone,
         AbortFrame, Milliseconds, MillisecondsDone, engineVars
<1>13. CASE UNCHANGED <<vars, engineVars>>
  BY <1>3, <1>13 DEF engineVars
<1>14. CASE ChangeCatcher \/ ToggleMenu
  <2>1. keys' \subseteq keys /\ UNCHANGED <<sys, pushed, turned, spilled>>
    BY <1>14 DEF ChangeCatcher, ToggleMenu, Key_ClearStates
  <2> QED BY <1>1, <1>2, <2>1 DEF PipeTyped
<1> QED BY <1>5, <1>6, <1>8, <1>9, <1>10, <1>11, <1>12, <1>13, <1>14 DEF PipeNext, EventLoop

-----------------------------------------------------------------------------
(* Motion in the event queues.                                                *)

\* What was delivered, what the two queues hold, and what was overwritten.
Ledger(t, s, p, l) == Plus(Plus(t, Plus(s, p)), l)

\* The motion delivered, queued and overwritten, in parts.
LEMMA MotionParts ==
  ASSUME PipeTyped
  PROVE  /\ SysLine \in Seq(EngineEvents) /\ PushedLine \in Seq(EngineEvents)
         /\ MotionOf(SysLine) \in Motion /\ MotionOf(PushedLine) \in Motion
         /\ turned \in Motion /\ spilled \in Motion /\ used \in Motion /\ moved \in Motion
         /\ MotionMerged <=>
              Ledger(turned, MotionOf(SysLine), MotionOf(PushedLine), spilled) = used
<1>1. SysLine \in Seq(EngineEvents) /\ PushedLine \in Seq(EngineEvents)
  <2>1. /\ QueueSize \in Nat /\ QueueSize > 0 /\ PushSize \in Nat /\ PushSize > 0
        /\ QueueTyped(sys, QueueSize) /\ QueueTyped(pushed, PushSize)
    BY QueueAssumption DEF PipeTyped
  <2> QED BY <2>1, WaitingType DEF SysLine, PushedLine
<1> QED BY <1>1, MotionOfType DEF PipeTyped, RingInv, TypeOK, MotionMerged, Ledger, SysLine, PushedLine

\* What a queue holds now and what it overwrote, and what it held and was given.
Trade(s1, m, s, x) ==
  s1 \in Motion /\ m \in Motion /\ s \in Motion /\ x \in Motion /\ Plus(s1, m) = Plus(s, x)

LEMMA TradeParts ==
  ASSUME NEW s1, NEW m, NEW s, NEW x, Trade(s1, m, s, x)
  PROVE  s1.x + m.x = s.x + x.x /\ s1.y + m.y = s.y + x.y
<1>1. Plus(s1, m).x = Plus(s, x).x /\ Plus(s1, m).y = Plus(s, x).y
  BY DEF Trade
<1> QED BY <1>1 DEF Plus

\* What is queued is added.
LEMMA PlusQueued ==
  ASSUME NEW s1, NEW m, NEW s, NEW x, Trade(s1, m, s, x)
  PROVE  \A t, p, l \in Motion :
           Ledger(t, s1, p, Plus(l, m)) = Plus(Ledger(t, s, p, l), x)
<1> SUFFICES ASSUME NEW t \in Motion, NEW p \in Motion, NEW l \in Motion
             PROVE  Ledger(t, s1, p, Plus(l, m)) = Plus(Ledger(t, s, p, l), x)
  OBVIOUS
<1>1. \A v \in {t, s, p, l, s1, m, x} : v.x \in Int /\ v.y \in Int
  BY DEF Motion, Trade
<1>a. s1.x + m.x = s.x + x.x /\ s1.y + m.y = s.y + x.y
  BY TradeParts
<1>2. (t.x + (s1.x + p.x)) + (l.x + m.x) = ((t.x + (s.x + p.x)) + l.x) + x.x
  BY <1>1, <1>a
<1>3. (t.y + (s1.y + p.y)) + (l.y + m.y) = ((t.y + (s.y + p.y)) + l.y) + x.y
  BY <1>1, <1>a
<1> QED BY <1>2, <1>3 DEF Ledger, Plus

\* What moves from one queue to the other stays counted.
LEMMA PlusMoved ==
  ASSUME NEW p1, NEW m, NEW p, NEW h, Trade(p1, m, p, h)
  PROVE  \A t, s1, l \in Motion :
           Ledger(t, s1, p1, Plus(l, m)) = Ledger(t, Plus(h, s1), p, l)
<1> SUFFICES ASSUME NEW t \in Motion, NEW s1 \in Motion, NEW l \in Motion
             PROVE  Ledger(t, s1, p1, Plus(l, m)) = Ledger(t, Plus(h, s1), p, l)
  OBVIOUS
<1>1. \A v \in {t, p, l, s1, p1, m, h} : v.x \in Int /\ v.y \in Int
  BY DEF Motion, Trade
<1>2. (t.x + (s1.x + p1.x)) + (l.x + m.x) = (t.x + ((h.x + s1.x) + p.x)) + l.x
  BY <1>1, TradeParts
<1>3. (t.y + (s1.y + p1.y)) + (l.y + m.y) = (t.y + ((h.y + s1.y) + p.y)) + l.y
  BY <1>1, TradeParts
<1> QED BY <1>2, <1>3 DEF Ledger, Plus

\* No step loses motion or counts it twice.
LEMMA MergedStep ==
  PipeTyped /\ PipeTyped' /\ MotionMerged /\ [PipeNext]_<<vars, engineVars>> => MotionMerged'
<1> SUFFICES ASSUME PipeTyped, PipeTyped', MotionMerged, [PipeNext]_<<vars, engineVars>>
             PROVE  MotionMerged'
  OBVIOUS
<1> DEFINE s == MotionOf(SysLine)
           p == MotionOf(PushedLine)
           s1 == MotionOf(SysLine')
           p1 == MotionOf(PushedLine')
<1>1. /\ s \in Motion /\ p \in Motion /\ turned \in Motion /\ spilled \in Motion
      /\ used \in Motion /\ moved \in Motion /\ Ledger(turned, s, p, spilled) = used
  BY MotionParts
<1>2. /\ s1 \in Motion /\ p1 \in Motion /\ turned' \in Motion /\ spilled' \in Motion
      /\ used' \in Motion
      /\ MotionMerged' <=> Ledger(turned', s1, p1, spilled') = used'
  <2>1. /\ QueueSize \in Nat /\ QueueSize > 0 /\ PushSize \in Nat /\ PushSize > 0
        /\ QueueTyped(sys', QueueSize) /\ QueueTyped(pushed', PushSize)
    BY QueueAssumption DEF PipeTyped
  <2>2. Waiting(sys', QueueSize) \in Seq(EngineEvents)
        /\ Waiting(pushed', PushSize) \in Seq(EngineEvents)
    BY <2>1, WaitingType
  <2>3. SysLine' = Waiting(sys', QueueSize) /\ PushedLine' = Waiting(pushed', PushSize)
    BY DEF SysLine, PushedLine
  <2>4. s1 \in Motion /\ p1 \in Motion
    BY <2>2, <2>3, MotionOfType
  <2> QED BY <2>3, <2>4 DEF PipeTyped, RingInv, TypeOK, MotionMerged, Ledger
<1> HIDE DEF s, p, s1, p1
<1>3. ASSUME UNCHANGED <<sys, pushed, turned, spilled, used>> PROVE MotionMerged'
  <2>1. s1 = s /\ p1 = p
    BY <1>3 DEF s, p, s1, p1, SysLine, PushedLine
  <2> QED BY <1>1, <1>2, <1>3, <2>1
<1>4. ASSUME NEW evs \in Seq(EngineEvents), Len(evs) <= 2, QueueAll(evs),
             UNCHANGED <<pushed, turned>>, used' = Plus(used, MotionOf(evs))
      PROVE  MotionMerged'
  <2>1. PICK qu, more :
           /\ more \in Seq(EngineEvents)
           /\ QueuesAll(SysLine, Waiting(qu, QueueSize), more, evs)
           /\ sys' = qu /\ spilled' = Plus(spilled, MotionOf(more))
    BY <1>4, QueueAllCarries DEF PipeTyped, SysLine
  <2> DEFINE m == MotionOf(more)
             x == MotionOf(evs)
  <2>2. p1 = p /\ Plus(s1, m) = Plus(s, x)
    BY <1>4, <2>1 DEF s, p, s1, p1, SysLine, PushedLine, QueuesAll
  <2>3. m \in Motion /\ x \in Motion
    BY <1>4, <2>1, MotionOfType
  <2>4. spilled' = Plus(spilled, m) /\ turned' = turned /\ used' = Plus(used, x)
    BY <1>4, <2>1
  <2> HIDE DEF m, x
  <2>5. Ledger(turned, s1, p, Plus(spilled, m)) = Plus(Ledger(turned, s, p, spilled), x)
    <3>1. Trade(s1, m, s, x)
      BY <1>1, <1>2, <2>2, <2>3 DEF Trade
    <3> QED BY <1>1, <3>1, PlusQueued
  <2> QED BY <1>1, <1>2, <2>2, <2>4, <2>5
<1>5. CASE QueueKeyEvent
  <2>1. ev \in Event
    BY <1>5 DEF QueueKeyEvent, DispatchEvent, PipeTyped, RingInv
  <2>2. /\ Translate(ev) \in Seq(EngineEvents) /\ Len(Translate(ev)) <= 2
        /\ MotionOf(Translate(ev)) = Still
    BY <2>1, TranslateIs
  <2>3. used' = used /\ Plus(used, Still) = used
    BY <1>1, <1>5, PlusLaws DEF QueueKeyEvent, DispatchEvent, mouseVars
  <2> QED BY <1>4, <1>5, <2>2, <2>3 DEF QueueKeyEvent
<1>6. CASE QueueMotion
  <2>1. SE_MOUSE(moved) \in EngineEvents /\ Share(SE_MOUSE(moved)) = moved
    BY <1>1 DEF SE_MOUSE, EngineEvents, Share
  <2>2. <<SE_MOUSE(moved)>> \in Seq(EngineEvents) /\ Len(<<SE_MOUSE(moved)>>) <= 2
        /\ MotionOf(<<SE_MOUSE(moved)>>) = moved
    BY <2>1, MotionOne
  <2>3. used' = Plus(used, moved)
    BY <1>6 DEF QueueMotion, DispatchMotion
  <2> QED BY <1>4, <1>6, <2>2, <2>3 DEF QueueMotion
<1>7. ASSUME ~IsEmpty(Source), Consume, turned' = Plus(turned, Share(GotEvent)),
             UNCHANGED <<spilled, used>>
      PROVE  MotionMerged'
  <2> DEFINE g == Share(GotEvent)
  <2>1. g \in Motion
    BY <1>7, ConsumeTakes, ShareType
  <2>2. (p1 = p /\ s = Plus(g, s1)) \/ (s1 = s /\ p = Plus(g, p1))
    <3>1. CASE /\ PushedLine # <<>> /\ SysLine' = SysLine
               /\ GotEvent = Head(PushedLine) /\ PushedLine' = Tail(PushedLine)
      BY <3>1, MotionTail, MotionParts DEF s, p, s1, p1
    <3>2. CASE /\ PushedLine = <<>> /\ SysLine # <<>> /\ PushedLine' = <<>>
               /\ GotEvent = Head(SysLine) /\ SysLine' = Tail(SysLine)
      BY <3>2, MotionTail, MotionParts DEF s, p, s1, p1
    <3> QED BY <1>7, <3>1, <3>2, ConsumeTakes
  <2>3. turned' = Plus(turned, g) /\ spilled' = spilled /\ used' = used
    BY <1>7
  <2> HIDE DEF g
  <2>4. Ledger(Plus(turned, g), s1, p1, spilled) = Ledger(turned, s, p, spilled)
    BY <1>1, <1>2, <2>1, <2>2 DEF Ledger, Motion, Plus
  <2> QED BY <1>1, <1>2, <2>3, <2>4
<1>8. CASE KeyEvent \/ CharEvent \/ MouseEvent
  <2>1. ~IsEmpty(Source) /\ Consume /\ UNCHANGED <<spilled, used>>
    BY <1>8 DEF KeyEvent, CharEvent, MouseEvent, vars, mouseVars
  <2>2. turned' = Plus(turned, Share(GotEvent))
    <3>1. CASE KeyEvent \/ CharEvent
      <4>1. Share(GotEvent) = Still /\ turned' = turned
        BY <3>1 DEF KeyEvent, CharEvent, Share
      <4> QED BY <1>1, <4>1, PlusLaws
    <3>2. CASE MouseEvent
      BY <3>2 DEF MouseEvent, Share
    <3> QED BY <1>8, <3>1, <3>2
  <2> QED BY <1>7, <2>1, <2>2
<1>9. CASE PushEvent
  <2> DEFINE h == Share(Head(SysLine))
  <2>1. /\ SysLine # <<>> /\ SysLine' = Tail(SysLine)
        /\ turned' = turned /\ used' = used
    BY <1>9, PushMoves DEF PushEvent, vars, mouseVars
  <2>2. s = Plus(h, s1) /\ h \in Motion
    <3>1. SysLine \in Seq(EngineEvents)
      BY MotionParts
    <3>2. Head(SysLine) \in EngineEvents
      BY <2>1, <3>1
    <3> QED BY <2>1, <3>1, <3>2, MotionTail, ShareType DEF s, s1
  <2>3. PICK gone \in Seq(EngineEvents) :
          /\ Carries(PushedLine, <<>>, PushedLine', gone, Head(SysLine))
          /\ spilled' = Plus(spilled, MotionOf(gone))
    BY <1>9, PushMoves
  <2> DEFINE m == MotionOf(gone)
  <2>4. m \in Motion
    BY MotionOfType
  <2>5. Plus(p1, m) = Plus(p, h)
    <3>1. Plus(p1, m) = Plus(Plus(p, MotionOf(<<>>)), h)
      BY <2>3 DEF Carries, p, p1
    <3> QED BY <1>1, <3>1, MotionEmpty, PlusLaws
  <2>6. spilled' = Plus(spilled, m)
    BY <2>3
  <2> HIDE DEF h, m
  <2>7. Ledger(turned, s1, p1, Plus(spilled, m)) = Ledger(turned, s, p, spilled)
    <3>1. Trade(p1, m, p, h)
      BY <1>1, <1>2, <2>2, <2>4, <2>5 DEF Trade
    <3> QED BY <1>1, <1>2, <2>2, <3>1, PlusMoved
  <2> QED BY <1>1, <1>2, <2>1, <2>6, <2>7
<1>10. CASE Interrupt
  <2>1. used' = used
    BY <1>10 DEF Interrupt, Handler, Report, KeyStatusHandlerRaw, MouseStatusHandler, PushUnmapped,
           PushFull, PushStore, PushPublish, mouseVars
  <2> QED BY <1>3, <1>10, <2>1 DEF Interrupt
<1>11. CASE StartFrame \/ FetchEvent \/ PollMotion \/ NoMotion
  <2>1. used' = used
    BY <1>11 DEF StartFrame, FetchEvent, PollMotion, NoMotion, EnterFrame, RingEmpty, ReadSlot,
           AdvanceTail, AdvanceTailFirst, ReadSlotLate, PollStill, PollX, PollY, ClearX, ClearY,
           mouseVars
  <2> QED BY <1>3, <1>11, <2>1 DEF StartFrame, FetchEvent, PollMotion, NoMotion, engineVars
<1>12. CASE ChangeCatcher \/ ToggleMenu \/ LoopDone \/ AbortFrame \/ Milliseconds
              \/ MillisecondsDone \/ UNCHANGED <<vars, engineVars>>
  BY <1>3, <1>12 DEF ChangeCatcher, ToggleMenu, LoopDone, AbortFrame, Milliseconds,
         MillisecondsDone, engineVars, vars, mouseVars
<1> QED BY <1>5, <1>6, <1>8, <1>9, <1>10, <1>11, <1>12 DEF PipeNext, EventLoop

LEMMA EmptyTyped ==
  ASSUME NEW n \in Nat, n > 0
  PROVE  QueueTyped(EmptyQueue(n), n) /\ IsEmpty(EmptyQueue(n)) /\ Waiting(EmptyQueue(n), n) = <<>>
<1>1. QueueTyped(EmptyQueue(n), n) /\ IsEmpty(EmptyQueue(n))
  BY DEF EmptyQueue, QueueTyped, Slots, IsEmpty
<1> QED BY <1>1, WaitingType

\* The pipeline keeps its types in every reachable state.
LEMMA PipeTypedAlways == PipeSpec => []PipeTyped
<1>1. PipeInit => PipeTyped
  <2> SUFFICES ASSUME PipeInit PROVE PipeTyped
    OBVIOUS
  <2>1. RingInv
    BY RingAssumption DEF PipeInit, Init, RingInv, InUse, TypeOK, NoEvent, Still, Motion, Locations
  <2>2. QueueTyped(sys, QueueSize) /\ QueueTyped(pushed, PushSize)
    BY QueueAssumption, EmptyTyped DEF PipeInit
  <2> QED BY <2>1, <2>2 DEF PipeInit, Init, PipeTyped, Still, Motion
<1> QED BY <1>1, PipeTypedStep, PTL DEF PipeSpec

\* Com_QueueEvent merges SE_MOUSE events and both queues overwrite their oldest
\* event when they are full: whatever the sizes of the queues and however often
\* Com_Milliseconds moves events, the motion CL_MouseEvent received, that still
\* queued and that overwritten add up to what IN_Frame passed on.
THEOREM MotionIsMerged == PipeSpec => []MotionMerged
<1>1. PipeInit => MotionMerged
  <2> SUFFICES ASSUME PipeInit PROVE MotionMerged
    OBVIOUS
  <2>1. Waiting(sys, QueueSize) = <<>> /\ Waiting(pushed, PushSize) = <<>>
    BY QueueAssumption, EmptyTyped DEF PipeInit
  <2> QED BY <2>1, MotionEmpty DEF MotionMerged, PipeInit, Init, Plus, Still
<1> QED BY <1>1, MergedStep, PipeTypedAlways, PTL DEF PipeSpec

-----------------------------------------------------------------------------
(* The chain of a key: from the report of the keyboard to keys[].down.        *)

KeyEventOf(k, d) == [key |-> k, down |-> d]

\* The player wants key k down (d) or up (~d).
Wants(k, d) == IF d THEN Held(k) /\ k \notin crossed ELSE ~Held(k)

\* The handler still has to push that event of k, or k's latest event was lost.
Calling(k, d) == \E c \in todo \union pushing : c.event = KeyEventOf(k, d)
Fresh(k, d) == k \in lost \/ Calling(k, d)

\* Further on, such an event is in the ring, the hand, eventQueue or the pushed
\* events, or was overwritten.
InRing(k, d) == Fresh(k, d) \/ Occurs(Queue, KeyEventOf(k, d))
InHand(k, d) == InRing(k, d) \/ Hand = <<KeyEventOf(k, d)>>
InSys(k, d) == InHand(k, d) \/ Occurs(SysLine, SE_KEY(k, d))
InPushed(k, d) == InSys(k, d) \/ k \in evicted \/ Occurs(PushedLine, SE_KEY(k, d))

\* The call of the opposite event is followed by the call of this one.
CallsEnd(k, d) ==
  \A c \in todo \union pushing : c.event = KeyEventOf(k, ~d) =>
    \E f \in todo : f.event = KeyEventOf(k, d) /\ f.rank > c.rank

\* At every stage, an opposite event is followed by one the player wants.
Chain(k, d) ==
  /\ CallsEnd(k, d)
  /\ Fresh(k, d) \/ Settled(Queue, KeyEventOf(k, ~d), KeyEventOf(k, d))
  /\ Hand = <<KeyEventOf(k, ~d)>> => InRing(k, d)
  /\ InHand(k, d) \/ Settled(SysLine, SE_KEY(k, ~d), SE_KEY(k, d))
  /\ InSys(k, d) \/ k \in evicted \/ Settled(PushedLine, SE_KEY(k, ~d), SE_KEY(k, d))
  /\ (k \in keys <=> ~d) => InPushed(k, d) \/ (d /\ k \in cleared)

KeyInv == \A k \in Keys \ {Console}, d \in BOOLEAN : Wants(k, d) => Chain(k, d)

LEMMA KeyEventsDiffer ==
  ASSUME NEW k, NEW d \in BOOLEAN
  PROVE  KeyEventOf(k, ~d) # KeyEventOf(k, d) /\ KeyEventOf(k, d).key = k
         /\ KeyEventOf(k, d).down = d
BY DEF KeyEventOf

\* With the event wanted still to be pushed, the rest of the chain does not matter.
LEMMA FreshChain ==
  ASSUME NEW k, NEW d, CallsEnd(k, d)', Fresh(k, d)'
  PROVE  Chain(k, d)'
BY DEF Chain, InRing, InHand, InSys, InPushed

\* A step of the handler that leaves the engine's queues alone.
LEMMA HandlerChain ==
  ASSUME NEW k, NEW d, Chain(k, d), CallsEnd(k, d)', InRing(k, d) => InRing(k, d)',
         Fresh(k, d)' \/ Settled(Queue, KeyEventOf(k, ~d), KeyEventOf(k, d))',
         UNCHANGED <<Hand, sys, pushed, keys, evicted, cleared>>
  PROVE  Chain(k, d)'
<1>1. UNCHANGED <<SysLine, PushedLine>>
  BY DEF SysLine, PushedLine
<1>2. /\ InHand(k, d) => InHand(k, d)'
      /\ InSys(k, d) => InSys(k, d)'
      /\ InPushed(k, d) => InPushed(k, d)'
  BY <1>1 DEF InHand, InSys, InPushed
<1> QED BY <1>1, <1>2 DEF Chain

\* The calls of a report, by key.
ReportCalls(k) ==
  /\ \A c \in todo' : c.event = KeyEventOf(k, TRUE) =>
       \/ Held(k)'
       \/ \E f \in todo' : f.event = KeyEventOf(k, FALSE) /\ f.rank > c.rank
  /\ \A c \in todo' : c.event = KeyEventOf(k, FALSE) =>
       k \in KeysIn(prev \ prev') \/ ~Held(k)'
  /\ k \in KeysIn(prev' \ prev) => \E c \in todo' : c.event = KeyEventOf(k, TRUE)
  /\ k \in KeysIn(prev \ prev') /\ ~Held(k)' => \E c \in todo' : c.event = KeyEventOf(k, FALSE)

\* The calls B for a group of bits, by key.
BitCallsOf(B, bits, before, k) ==
  /\ \A c \in B : c.event = KeyEventOf(k, TRUE) => \E b \in bits : KeyOf[b] = k
  /\ \A c \in B : c.event = KeyEventOf(k, FALSE) => \E b \in before \ bits : KeyOf[b] = k
  /\ \A b \in (bits \ before) \union (before \ bits) : KeyOf[b] = k =>
       IF \E x \in bits : KeyOf[x] = k
       THEN \E c \in B : c.event = KeyEventOf(k, TRUE)
       ELSE \E c \in B : c.event = KeyEventOf(k, FALSE)

LEMMA BitCallsAre ==
  ASSUME NEW bits, NEW before, NEW k
  PROVE  BitCallsOf(BitCalls(bits, before, 0), bits, before, k)
<1>1. ASSUME NEW c \in BitCalls(bits, before, 0)
      PROVE  \E b \in (bits \ before) \union (before \ bits) :
               c.event = KeyEventOf(KeyOf[b], \E x \in bits : KeyOf[x] = KeyOf[b])
  <2>1. PICK x \in { KeyOf[b] : b \in (bits \ before) \union (before \ bits) } :
          c = Call(0, x, x, \E b \in bits : KeyOf[b] = x)
    BY DEF BitCalls
  <2>2. PICK b \in (bits \ before) \union (before \ bits) : x = KeyOf[b]
    OBVIOUS
  <2> DEFINE v == \E y \in bits : KeyOf[y] = x
  <2>3. c = Call(0, x, x, v)
    BY <2>1
  <2> HIDE DEF v
  <2>4. c.event = KeyEventOf(x, v)
    BY <2>3 DEF Call, KeyEventOf
  <2> QED BY <2>2, <2>4 DEF v
<1>2. ASSUME NEW c \in BitCalls(bits, before, 0), c.event = KeyEventOf(k, TRUE)
      PROVE  \E b \in bits : KeyOf[b] = k
  <2>1. PICK b \in (bits \ before) \union (before \ bits) :
          c.event = KeyEventOf(KeyOf[b], \E x \in bits : KeyOf[x] = KeyOf[b])
    BY <1>1
  <2> DEFINE v == \E x \in bits : KeyOf[x] = KeyOf[b]
  <2>2. c.event = KeyEventOf(KeyOf[b], v)
    BY <2>1
  <2>3. v \in BOOLEAN
    OBVIOUS
  <2> HIDE DEF v
  <2>4. KeyOf[b] = k /\ v
    BY <1>2, <2>2, <2>3 DEF KeyEventOf
  <2> QED BY <2>4 DEF v
<1>3. ASSUME NEW c \in BitCalls(bits, before, 0), c.event = KeyEventOf(k, FALSE)
      PROVE  \E b \in before \ bits : KeyOf[b] = k
  <2>1. PICK b \in (bits \ before) \union (before \ bits) :
          c.event = KeyEventOf(KeyOf[b], \E x \in bits : KeyOf[x] = KeyOf[b])
    BY <1>1
  <2> DEFINE v == \E x \in bits : KeyOf[x] = KeyOf[b]
  <2>2. c.event = KeyEventOf(KeyOf[b], v)
    BY <2>1
  <2>3. v \in BOOLEAN
    OBVIOUS
  <2> HIDE DEF v
  <2>4. KeyOf[b] = k /\ ~v
    BY <1>3, <2>2, <2>3 DEF KeyEventOf
  <2> QED BY <2>4 DEF v
<1>4. ASSUME NEW b \in (bits \ before) \union (before \ bits), KeyOf[b] = k
      PROVE  IF \E x \in bits : KeyOf[x] = k
             THEN \E c \in BitCalls(bits, before, 0) : c.event = KeyEventOf(k, TRUE)
             ELSE \E c \in BitCalls(bits, before, 0) : c.event = KeyEventOf(k, FALSE)
  <2> DEFINE v == \E x \in bits : KeyOf[x] = k
             c == Call(0, k, k, v)
  <2>1. c \in BitCalls(bits, before, 0)
    BY <1>4 DEF BitCalls
  <2>2. c.event = KeyEventOf(k, v)
    BY DEF Call, KeyEventOf
  <2>3. v = TRUE \/ v = FALSE
    OBVIOUS
  <2>4. v <=> \E x \in bits : KeyOf[x] = k
    OBVIOUS
  <2> HIDE DEF v, c
  <2> QED BY <2>1, <2>2, <2>3, <2>4
<1> QED BY <1>2, <1>3, <1>4 DEF BitCallsOf

\* The calls for a set of scancodes, or for the wheel.
LEMMA CallsAre ==
  ASSUME NEW r, NEW S, NEW d \in BOOLEAN
  PROVE  /\ \A c \in { Call(r, s, KeyOf[s], d) : s \in S } :
              \E s \in S : c.event = KeyEventOf(KeyOf[s], d) /\ c.rank = r
         /\ \A s \in S : \E c \in { Call(r, x, KeyOf[x], d) : x \in S } :
              c.event = KeyEventOf(KeyOf[s], d) /\ c.rank = r
<1>1. \A s : Call(r, s, KeyOf[s], d).event = KeyEventOf(KeyOf[s], d)
              /\ Call(r, s, KeyOf[s], d).rank = r
  BY DEF Call, KeyEventOf
<1> QED BY <1>1

\* A keyboard report.
LEMMA KeyboardCalls ==
  ASSUME PipeTyped, NEW bits \in SUBSET Bits, NEW codes \in SUBSET Scancodes,
         KeyStatusHandlerRaw(bits, codes), NEW k
  PROVE  ReportCalls(k)
<1> DEFINE before == prev \intersect (Scancodes \union Bits)
           old == before \intersect Bits
           B == BitCalls(bits, old, 0)
           P == { Call(1, s, KeyOf[s], TRUE)  : s \in codes \ before }
           R == { Call(2, s, KeyOf[s], FALSE) : s \in (before \intersect Scancodes) \ codes }
<1>1. todo' = (B \union P) \union R /\ prev' = ((prev \intersect Buttons) \union bits) \union codes
  BY DEF KeyStatusHandlerRaw
<1>2. prev \subseteq (Scancodes \union Bits) \union Buttons
  BY DEF PipeTyped, RingInv, TypeOK, Sources
<1>3. /\ \A s \in bits \ old : s \in prev' \ prev
      /\ \A s \in codes \ before : s \in prev' \ prev
      /\ \A s \in old \ bits : s \in prev \ prev'
      /\ \A s \in (before \intersect Scancodes) \ codes : s \in prev \ prev'
      /\ \A s \in prev' \ prev : s \in bits \ old \/ s \in codes \ before
      /\ \A s \in prev \ prev' : s \in old \ bits \/ s \in (before \intersect Scancodes) \ codes
      /\ \A s \in bits : s \in prev'
  BY <1>1, <1>2, RingAssumption
<1>4. /\ \A c \in P : \E s \in codes \ before :
                        c.event = KeyEventOf(KeyOf[s], TRUE) /\ c.rank = 1
      /\ \A s \in codes \ before : \E c \in P :
           c.event = KeyEventOf(KeyOf[s], TRUE) /\ c.rank = 1
  <2> HIDE DEF before
  <2> QED BY CallsAre DEF P
<1>a. /\ \A c \in R : \E s \in (before \intersect Scancodes) \ codes :
                        c.event = KeyEventOf(KeyOf[s], FALSE) /\ c.rank = 2
      /\ \A s \in (before \intersect Scancodes) \ codes : \E c \in R :
           c.event = KeyEventOf(KeyOf[s], FALSE) /\ c.rank = 2
  <2> HIDE DEF before
  <2> QED BY CallsAre DEF R
<1>5. BitCallsOf(B, bits, old, k)
  BY BitCallsAre
<1>6. \A x, y : KeyEventOf(x, TRUE) = KeyEventOf(y, TRUE) => x = y
  BY DEF KeyEventOf
<1>7. \A x, y : KeyEventOf(x, FALSE) = KeyEventOf(y, FALSE) => x = y
  BY DEF KeyEventOf
<1>8. \A x, y : KeyEventOf(x, TRUE) # KeyEventOf(y, FALSE)
  BY DEF KeyEventOf
<1> HIDE DEF before, old, B, P, R
<1>9. ASSUME NEW c \in todo', c.event = KeyEventOf(k, TRUE) PROVE Held(k)'
  <2>1. CASE c \in B
    BY <1>3, <1>5, <1>9, <2>1 DEF Held, KeysIn, BitCallsOf
  <2>2. CASE c \in P
    BY <1>3, <1>4, <1>6, <1>9, <2>2, ZenonT(60) DEF Held, KeysIn
  <2>3. CASE c \in R
    <3>1. \E s : c.event = KeyEventOf(KeyOf[s], FALSE)
      BY <1>a, <2>3
    <3> QED BY <1>8, <1>9, <3>1
  <2> QED BY <1>1, <2>1, <2>2, <2>3
<1>10. ASSUME NEW c \in todo', c.event = KeyEventOf(k, FALSE)
       PROVE  k \in KeysIn(prev \ prev')
  <2>1. CASE c \in B
    BY <1>3, <1>5, <1>10, <2>1 DEF KeysIn, BitCallsOf
  <2>2. CASE c \in P
    <3>1. \E s : c.event = KeyEventOf(KeyOf[s], TRUE)
      BY <1>4, <2>2
    <3> QED BY <1>8, <1>10, <3>1
  <2>3. CASE c \in R
    <3>1. PICK s \in (before \intersect Scancodes) \ codes : c.event = KeyEventOf(KeyOf[s], FALSE)
      BY <1>a, <2>3
    <3>2. KeyOf[s] = k
      BY <1>7, <1>10, <3>1
    <3> QED BY <1>3, <3>2 DEF KeysIn
  <2> QED BY <1>1, <2>1, <2>2, <2>3
<1>11. ASSUME NEW s \in prev' \ prev, KeyOf[s] = k
       PROVE  \E c \in todo' : c.event = KeyEventOf(k, TRUE)
  <2>1. CASE s \in bits \ old
    <3>1. \E x \in bits : KeyOf[x] = k
      BY <1>11, <2>1
    <3> QED BY <1>1, <1>5, <1>11, <2>1, <3>1 DEF BitCallsOf
  <2>2. CASE s \in codes \ before
    BY <1>1, <1>4, <1>11, <2>2
  <2> QED BY <1>3, <2>1, <2>2
<1>12. ASSUME NEW s \in prev \ prev', KeyOf[s] = k, ~Held(k)'
       PROVE  \E c \in todo' : c.event = KeyEventOf(k, FALSE)
  <2>1. CASE s \in old \ bits
    <3>1. ~ \E x \in bits : KeyOf[x] = k
      BY <1>3, <1>12 DEF Held, KeysIn
    <3> QED BY <1>1, <1>5, <1>12, <2>1, <3>1 DEF BitCallsOf
  <2>2. CASE s \in (before \intersect Scancodes) \ codes
    BY <1>1, <1>a, <1>12, <2>2
  <2> QED BY <1>3, <2>1, <2>2
<1> QED BY <1>9, <1>10, <1>11, <1>12 DEF ReportCalls, KeysIn

\* A mouse report.
LEMMA MouseCalls ==
  ASSUME PipeTyped, PipeTyped', NEW buttons \in SUBSET Buttons, NEW move,
         NEW wheel \in SUBSET Wheel, MouseStatusHandler(buttons, move, wheel), NEW k
  PROVE  ReportCalls(k)
<1> DEFINE old == prev \intersect Buttons
           B == BitCalls(buttons, old, 0)
           P == { Call(1, w, KeyOf[w], TRUE)  : w \in wheel }
           R == { Call(2, w, KeyOf[w], FALSE) : w \in wheel }
<1>1. todo' = (B \union P) \union R /\ prev' = (prev \ Buttons) \union buttons
  BY DEF MouseStatusHandler
<1>2. /\ \A s \in buttons \ old : s \in prev' \ prev
      /\ \A s \in old \ buttons : s \in prev \ prev'
      /\ \A s \in prev' \ prev : s \in buttons \ old
      /\ \A s \in prev \ prev' : s \in old \ buttons
      /\ \A s \in buttons : s \in prev'
  BY <1>1
<1>3. ASSUME NEW w \in wheel PROVE ~Held(KeyOf[w])'
  <2>1. \A s \in prev' : s \in Sources \ {w}
    BY <1>3 DEF PipeTyped, RingInv, TypeOK
  <2>2. w \in Wheel
    BY <1>3
  <2> QED BY <2>1, <2>2, QueueAssumption DEF Held, KeysIn
<1>4. /\ \A c \in P : \E w \in wheel : c.event = KeyEventOf(KeyOf[w], TRUE) /\ c.rank = 1
      /\ \A w \in wheel : \E c \in P : c.event = KeyEventOf(KeyOf[w], TRUE) /\ c.rank = 1
  BY CallsAre
<1>a. /\ \A c \in R : \E w \in wheel : c.event = KeyEventOf(KeyOf[w], FALSE) /\ c.rank = 2
      /\ \A w \in wheel : \E c \in R : c.event = KeyEventOf(KeyOf[w], FALSE) /\ c.rank = 2
  BY CallsAre
<1>5. BitCallsOf(B, buttons, old, k)
  BY BitCallsAre
<1>6. \A x, y : KeyEventOf(x, TRUE) = KeyEventOf(y, TRUE) => x = y
  BY DEF KeyEventOf
<1>7. \A x, y : KeyEventOf(x, FALSE) = KeyEventOf(y, FALSE) => x = y
  BY DEF KeyEventOf
<1>8. \A x, y : KeyEventOf(x, TRUE) # KeyEventOf(y, FALSE)
  BY DEF KeyEventOf
<1> HIDE DEF old, B, P, R
<1>9. ASSUME NEW c \in todo', c.event = KeyEventOf(k, TRUE)
      PROVE  Held(k)' \/ \E f \in todo' : f.event = KeyEventOf(k, FALSE) /\ f.rank > c.rank
  <2>1. CASE c \in B
    BY <1>2, <1>5, <1>9, <2>1 DEF Held, KeysIn, BitCallsOf
  <2>2. CASE c \in P
    <3>1. PICK w \in wheel : c.event = KeyEventOf(KeyOf[w], TRUE) /\ c.rank = 1
      BY <1>4, <2>2
    <3>2. KeyOf[w] = k
      BY <1>6, <1>9, <3>1
    <3>3. PICK f \in R : f.event = KeyEventOf(KeyOf[w], FALSE) /\ f.rank = 2
      BY <1>a
    <3>4. f \in todo' /\ f.event = KeyEventOf(k, FALSE)
      BY <1>1, <3>2, <3>3
    <3>5. f.rank > c.rank
      BY <3>1, <3>3
    <3> QED BY <3>4, <3>5
  <2>3. CASE c \in R
    <3>1. \E s : c.event = KeyEventOf(KeyOf[s], FALSE)
      BY <1>a, <2>3
    <3> QED BY <1>8, <1>9, <3>1
  <2> QED BY <1>1, <2>1, <2>2, <2>3
<1>10. ASSUME NEW c \in todo', c.event = KeyEventOf(k, FALSE)
       PROVE  k \in KeysIn(prev \ prev') \/ ~Held(k)'
  <2>1. CASE c \in B
    BY <1>2, <1>5, <1>10, <2>1 DEF KeysIn, BitCallsOf
  <2>2. CASE c \in P
    <3>1. \E s : c.event = KeyEventOf(KeyOf[s], TRUE)
      BY <1>4, <2>2
    <3> QED BY <1>8, <1>10, <3>1
  <2>3. CASE c \in R
    <3>1. PICK w \in wheel : c.event = KeyEventOf(KeyOf[w], FALSE)
      BY <1>a, <2>3
    <3>2. KeyOf[w] = k
      BY <1>7, <1>10, <3>1
    <3> QED BY <1>3, <3>2
  <2> QED BY <1>1, <2>1, <2>2, <2>3
<1>11. ASSUME NEW s \in prev' \ prev, KeyOf[s] = k
       PROVE  \E c \in todo' : c.event = KeyEventOf(k, TRUE)
  <2>1. s \in buttons \ old
    BY <1>2
  <2>2. \E x \in buttons : KeyOf[x] = k
    BY <1>11, <2>1
  <2> QED BY <1>1, <1>5, <1>11, <2>1, <2>2 DEF BitCallsOf
<1>12. ASSUME NEW s \in prev \ prev', KeyOf[s] = k, ~Held(k)'
       PROVE  \E c \in todo' : c.event = KeyEventOf(k, FALSE)
  <2>1. s \in old \ buttons
    BY <1>2
  <2>2. ~ \E x \in buttons : KeyOf[x] = k
    BY <1>2, <1>12 DEF Held, KeysIn
  <2> QED BY <1>1, <1>5, <1>12, <2>1, <2>2 DEF BitCallsOf
<1> QED BY <1>9, <1>10, <1>11, <1>12 DEF ReportCalls, KeysIn

\* A report that changes what the player wants of a key makes the call for it,
\* and no other.
LEMMA ReportKeyInv ==
  ASSUME PipeTyped, PipeTyped', KeyInv, Interrupt, Report
  PROVE  KeyInv'
<1> SUFFICES ASSUME NEW k \in Keys \ {Console}, NEW d \in BOOLEAN, Wants(k, d)'
             PROVE  Chain(k, d)'
  BY DEF KeyInv
<1>1. ReportCalls(k)
  <2>1. {{}, {WheelUp}, {WheelDown}} \subseteq SUBSET Wheel
    BY DEF Wheel
  <2> QED BY <2>1, KeyboardCalls, MouseCalls DEF Report
<1>2. todo = {} /\ pushing = {} /\ pushing' = {}
  BY DEF Report, KeyStatusHandlerRaw, MouseStatusHandler
<1>3. /\ UNCHANGED <<Queue, Hand, lost, sys, pushed, keys, evicted, cleared>>
      /\ crossed' = (crossed \ KeysIn(prev' \ prev))
                      \union (KeysIn(prev \ prev') \intersect KeysIn(prev'))
  BY QuietSteps DEF Interrupt
<1>4. /\ CallsEnd(k, d)'
      /\ (\E c \in todo' : c.event = KeyEventOf(k, d)) \/ Wants(k, d)
  <2>1. CASE d = TRUE
    <3>1. Held(k)' /\ k \notin crossed'
      BY <2>1 DEF Wants
    <3>2. k \notin KeysIn(prev \ prev') /\ (k \notin crossed \/ k \in KeysIn(prev' \ prev))
      BY <1>3, <3>1 DEF Held
    <3>3. \A c \in todo' : c.event # KeyEventOf(k, FALSE)
      BY <1>1, <3>1, <3>2 DEF ReportCalls
    <3>4. CallsEnd(k, TRUE)'
      <4>1. ~TRUE = FALSE
        OBVIOUS
      <4> QED BY <1>2, <3>3, <4>1 DEF CallsEnd
    <3>5. CASE k \in KeysIn(prev' \ prev)
      BY <1>1, <2>1, <3>4, <3>5 DEF ReportCalls
    <3>6. CASE k \notin KeysIn(prev' \ prev)
      <4>1. Held(k)
        BY <3>1, <3>6 DEF Held, KeysIn
      <4>2. Wants(k, TRUE)
        BY <3>2, <3>6, <4>1 DEF Wants
      <4> QED BY <2>1, <3>4, <4>2
    <3> QED BY <3>5, <3>6
  <2>2. CASE d = FALSE
    <3>1. ~Held(k)'
      BY <2>2 DEF Wants
    <3>2. CallsEnd(k, FALSE)'
      <4>1. ~FALSE = TRUE
        OBVIOUS
      <4> QED BY <1>1, <1>2, <3>1, <4>1 DEF CallsEnd, ReportCalls
    <3>3. CASE Held(k)
      <4>1. k \in KeysIn(prev \ prev')
        BY <3>1, <3>3 DEF Held, KeysIn
      <4> QED BY <1>1, <2>2, <3>1, <3>2, <4>1 DEF ReportCalls
    <3>4. CASE ~Held(k)
      BY <2>2, <3>2, <3>4 DEF Wants
    <3> QED BY <3>3, <3>4
  <2> QED BY <2>1, <2>2
<1>5. CASE \E c \in todo' : c.event = KeyEventOf(k, d)
  <2>1. Fresh(k, d)'
    BY <1>5 DEF Fresh, Calling
  <2> QED BY <1>4, <2>1, FreshChain
<1>6. CASE Wants(k, d)
  <2>1. Chain(k, d)
    BY <1>6 DEF KeyInv
  <2>2. Fresh(k, d) => Fresh(k, d)'
    BY <1>2, <1>3 DEF Fresh, Calling
  <2>3. InRing(k, d) => InRing(k, d)'
    BY <1>3, <2>2 DEF InRing
  <2>4. Fresh(k, d)' \/ Settled(Queue, KeyEventOf(k, ~d), KeyEventOf(k, d))'
    BY <1>3, <2>1, <2>2 DEF Chain
  <2> QED BY <1>3, <1>4, <2>1, <2>3, <2>4, HandlerChain
<1> QED BY <1>4, <1>5, <1>6

\* What the player wants changes only when a report comes.
LEMMA WantsSame ==
  ASSUME NEW k, NEW d, UNCHANGED <<prev, crossed>>, Wants(k, d)'
  PROVE  Wants(k, d)
BY DEF Wants, Held

\* The calls of lower rank are made first.
LEMMA PushKeyInv ==
  ASSUME PipeTyped, KeyInv, Interrupt,
         NEW c, (c \in todo /\ (PushUnmapped(c) \/ PushFull(c) \/ PushStore(c)))
                  \/ (c \in pushing /\ PushPublish(c))
  PROVE  KeyInv'
<1> SUFFICES ASSUME NEW k \in Keys \ {Console}, NEW d \in BOOLEAN, Wants(k, d)'
             PROVE  Chain(k, d)'
  BY DEF KeyInv
<1> DEFINE good == KeyEventOf(k, d)
           bad == KeyEventOf(k, ~d)
<1>1. UNCHANGED <<prev, crossed, sys, pushed, keys, evicted, cleared>>
  <2>1. prev' = prev
    BY DEF PushUnmapped, PushFull, PushStore, PushPublish
  <2>2. crossed' = crossed
    BY <2>1 DEF Interrupt, KeysIn
  <2> QED BY <2>1, <2>2 DEF Interrupt
<1>2. Chain(k, d)
  BY <1>1, WantsSame DEF KeyInv
<1>3. CallsEnd(k, d) /\ (Fresh(k, d) \/ Settled(Queue, bad, good))
  BY <1>2 DEF Chain
<1>4. RingInv /\ NoKey \notin Keys /\ k # NoKey
  BY RingAssumption DEF PipeTyped
<1>5. good.key = k /\ bad.key = k /\ bad # good
  BY KeyEventsDiffer DEF KeyEventOf
<1>6. /\ \A x \in todo \union pushing : x.rank \in 0..3
      /\ \A x, y \in pushing : x = y
  BY <1>4 DEF RingInv, TypeOK, Calls
<1> HIDE DEF good, bad
<1>7. CallsEnd(k, d) <=> \A x \in todo \union pushing : x.event = bad =>
                            \E f \in todo : f.event = good /\ f.rank > x.rank
  BY DEF CallsEnd, good, bad
<1>8. CallsEnd(k, d)' <=> \A x \in todo' \union pushing' : x.event = bad =>
                             \E f \in todo' : f.event = good /\ f.rank > x.rank
  BY DEF CallsEnd, good, bad
<1>9. /\ Fresh(k, d) <=> k \in lost \/ \E x \in todo \union pushing : x.event = good
      /\ Fresh(k, d)' <=> k \in lost' \/ \E x \in todo' \union pushing' : x.event = good
  BY DEF Fresh, Calling, good
<1>10. ASSUME c \in Due, todo' = todo \ {c}, pushing = {}, pushing' \subseteq {c}
       PROVE  CallsEnd(k, d)'
  <2> SUFFICES ASSUME NEW x \in todo' \union pushing', x.event = bad
               PROVE  \E f \in todo' : f.event = good /\ f.rank > x.rank
    BY <1>8
  <2>1. x \in todo /\ c \in todo /\ c.rank <= x.rank
    BY <1>10 DEF Due
  <2>2. PICK f \in todo : f.event = good /\ f.rank > x.rank
    BY <1>3, <1>7, <2>1
  <2>3. f.rank \in 0..3 /\ c.rank \in 0..3 /\ x.rank \in 0..3
    BY <1>6, <2>1, <2>2
  <2>4. f # c
    BY <2>1, <2>2, <2>3
  <2> QED BY <1>10, <2>2, <2>4
<1>11. ASSUME Fresh(k, d)', UNCHANGED Hand, CallsEnd(k, d)' PROVE Chain(k, d)'
  BY <1>11, FreshChain
<1>12. ASSUME Fresh(k, d) => Fresh(k, d)', UNCHANGED <<Hand, Queue>>, CallsEnd(k, d)'
       PROVE  Chain(k, d)'
  <2>1. InRing(k, d) => InRing(k, d)'
    BY <1>12 DEF InRing
  <2>2. Fresh(k, d)' \/ Settled(Queue, KeyEventOf(k, ~d), KeyEventOf(k, d))'
    BY <1>3, <1>12 DEF good, bad
  <2> QED BY <1>1, <1>2, <1>12, <2>1, <2>2, HandlerChain
<1>13. CASE c \in todo /\ PushUnmapped(c)
  <2>1. /\ c \in Due /\ todo' = todo \ {c} /\ pushing = {} /\ pushing' = {}
        /\ c.event.key = NoKey /\ lost' = lost
    BY <1>13 DEF PushUnmapped
  <2>2. UNCHANGED <<Queue, Hand>>
    BY <1>13, QuietSteps
  <2>3. Fresh(k, d) => Fresh(k, d)'
    BY <1>4, <1>5, <1>9, <2>1
  <2> QED BY <1>10, <1>12, <2>1, <2>2, <2>3
<1>14. CASE c \in todo /\ PushFull(c)
  <2>1. /\ c \in Due /\ todo' = todo \ {c} /\ pushing = {} /\ pushing' = {}
        /\ lost' = lost \union {c.event.key}
    BY <1>14 DEF PushFull
  <2>2. UNCHANGED <<Queue, Hand>>
    BY <1>4, <1>14, PushFullLoses
  <2>3. Fresh(k, d) => Fresh(k, d)'
    BY <1>5, <1>9, <2>1
  <2> QED BY <1>10, <1>12, <2>1, <2>2, <2>3
<1>15. CASE c \in todo /\ PushStore(c)
  <2>1. /\ c \in Due /\ todo' = todo \ {c} /\ pushing = {} /\ pushing' = {c}
        /\ lost' = lost
    BY <1>15 DEF PushStore
  <2>2. UNCHANGED <<Queue, Hand>>
    BY <1>4, <1>15, PushStoreHides
  <2>3. Fresh(k, d) => Fresh(k, d)'
    BY <1>9, <2>1
  <2> QED BY <1>10, <1>12, <2>1, <2>2, <2>3
<1>16. CASE c \in pushing /\ PushPublish(c)
  <2>1. pushing' = {} /\ todo' = todo
    BY <1>16 DEF PushPublish
  <2>2. /\ c.event \in Event /\ Queue' = Append(Queue, c.event) /\ Hand' = Hand
        /\ lost' = lost \ {c.event.key}
    BY <1>4, <1>16, PublishAppends
  <2>3. CallsEnd(k, d)'
    BY <1>3, <1>7, <1>8, <2>1
  <2>4. Queue \in Seq(Event)
    BY <1>4, RingShape DEF Holds
  <2>5. /\ Occurs(Queue', c.event)
        /\ \A f : Occurs(Queue, f) => Occurs(Queue', f)
        /\ Settled(Queue, bad, good) /\ c.event # bad => Settled(Queue', bad, good)
        /\ c.event = good => Settled(Queue', bad, good)
    BY <1>5, <2>2, <2>4, AppendKeeps
  <2>6. CASE c.event = bad
    <3>1. Fresh(k, d)'
      BY <1>3, <1>7, <1>9, <1>16, <2>1, <2>6
    <3> QED BY <1>11, <2>2, <2>3, <3>1
  <2>7. CASE c.event = good
    <3>1. InRing(k, d)' /\ Settled(Queue, KeyEventOf(k, ~d), KeyEventOf(k, d))'
      BY <2>5, <2>7 DEF InRing, good, bad
    <3> QED BY <1>1, <1>2, <2>2, <2>3, <3>1, HandlerChain
  <2>8. CASE c.event # bad /\ c.event # good
    <3>1. c.event.key # k
      <4>1. c.event = KeyEventOf(c.event.key, c.event.down) /\ c.event.down \in BOOLEAN
        BY <2>2 DEF Event, KeyEventOf
      <4>2. c.event.down = d \/ c.event.down = ~d
        BY <4>1
      <4> QED BY <2>8, <4>1, <4>2 DEF good, bad
    <3>2. Fresh(k, d) => Fresh(k, d)'
      BY <1>6, <1>9, <1>16, <2>1, <2>2, <2>8, <3>1
    <3>3. InRing(k, d) => InRing(k, d)'
      BY <2>5, <3>2 DEF InRing
    <3>4. Fresh(k, d)' \/ Settled(Queue, KeyEventOf(k, ~d), KeyEventOf(k, d))'
      BY <1>3, <2>5, <2>8, <3>2 DEF good, bad
    <3> QED BY <1>1, <1>2, <2>2, <2>3, <3>3, <3>4, HandlerChain
  <2> QED BY <2>6, <2>7, <2>8
<1> QED BY <1>13, <1>14, <1>15, <1>16

\* Nothing of the chain changes.
LEMMA ChainSame ==
  ASSUME KeyInv, UNCHANGED <<Queue, Hand, lost, prev, todo, pushing, crossed,
                             sys, pushed, keys, evicted, cleared>>
  PROVE  KeyInv'
<1> SUFFICES ASSUME NEW k \in Keys \ {Console}, NEW d \in BOOLEAN, Wants(k, d)'
             PROVE  Chain(k, d)'
  BY DEF KeyInv
<1>1. Chain(k, d)
  BY WantsSame DEF KeyInv
<1>2. CallsEnd(k, d)' /\ (Fresh(k, d) <=> Fresh(k, d)')
  BY <1>1 DEF Chain, CallsEnd, Fresh, Calling
<1>3. InRing(k, d) => InRing(k, d)'
  BY <1>2 DEF InRing
<1>4. Fresh(k, d)' \/ Settled(Queue, KeyEventOf(k, ~d), KeyEventOf(k, d))'
  BY <1>1, <1>2 DEF Chain
<1> QED BY <1>1, <1>2, <1>3, <1>4, HandlerChain

\* IN_Frame takes the oldest event of the ring.
LEMMA TakeKeyInv ==
  ASSUME PipeTyped, KeyInv, AdvanceTail \/ AdvanceTailFirst, UNCHANGED engineVars
  PROVE  KeyInv'
<1> SUFFICES ASSUME NEW k \in Keys \ {Console}, NEW d \in BOOLEAN, Wants(k, d)'
             PROVE  Chain(k, d)'
  BY DEF KeyInv
<1> DEFINE good == KeyEventOf(k, d)
           bad == KeyEventOf(k, ~d)
<1>1. /\ UNCHANGED <<prev, todo, pushing, lost>>
      /\ UNCHANGED <<crossed, sys, pushed, keys, evicted, cleared>>
  BY DEF AdvanceTail, AdvanceTailFirst, isrVars, engineVars
<1>2. Chain(k, d)
  BY <1>1, WantsSame DEF KeyInv
<1>3. CallsEnd(k, d)' /\ (Fresh(k, d) <=> Fresh(k, d)')
  BY <1>1, <1>2 DEF Chain, CallsEnd, Fresh, Calling
<1>4. /\ Hand = <<>> /\ Queue # <<>> /\ Hand' = <<Head(Queue)>> /\ Queue' = Tail(Queue)
      /\ Queue \in Seq(Event)
  BY AdvanceTakes, RingShape DEF PipeTyped, Holds
<1>5. Fresh(k, d) \/ Settled(Queue, bad, good)
  BY <1>2 DEF Chain
<1> HIDE DEF good, bad
<1>6. /\ \A f : Occurs(Queue, f) => f = Head(Queue) \/ Occurs(Queue', f)
      /\ Settled(Queue, bad, good) => Settled(Queue', bad, good)
                                        /\ (Head(Queue) = bad => Occurs(Queue', good))
  BY <1>4, TailKeeps
<1>7. Fresh(k, d)' \/ Settled(Queue', bad, good)
  BY <1>3, <1>5, <1>6
<1>8. Hand' = <<bad>> => InRing(k, d)'
  <2> SUFFICES ASSUME Hand' = <<bad>> PROVE InRing(k, d)'
    OBVIOUS
  <2>1. Head(Queue) = bad
    <3>1. <<Head(Queue)>>[1] = <<bad>>[1]
      BY <1>4
    <3> QED BY <3>1
  <2> QED BY <1>3, <1>5, <1>6, <2>1 DEF InRing, good
<1>9. InHand(k, d) => InHand(k, d)'
  <2>1. InHand(k, d) => Fresh(k, d) \/ Occurs(Queue, good)
    BY <1>4 DEF InHand, InRing, good
  <2>2. Occurs(Queue, good) => Hand' = <<good>> \/ Occurs(Queue', good)
    BY <1>4, <1>6
  <2> QED BY <1>3, <2>1, <2>2 DEF InHand, InRing, good
<1>10. UNCHANGED <<SysLine, PushedLine>>
  BY <1>1 DEF SysLine, PushedLine
<1>11. /\ InSys(k, d) => InSys(k, d)'
       /\ InPushed(k, d) => InPushed(k, d)'
  BY <1>1, <1>9, <1>10 DEF InSys, InPushed
<1> QED BY <1>1, <1>2, <1>3, <1>7, <1>8, <1>9, <1>10, <1>11 DEF Chain, good, bad

\* Events are queued that do not go against what the player wants.
LEMMA QueueChain ==
  ASSUME PipeTyped, NEW k \in Keys \ {Console}, NEW d \in BOOLEAN, Chain(k, d),
         NEW evs \in Seq(EngineEvents), Len(evs) <= 2, QueueAll(evs),
         ~Occurs(evs, SE_KEY(k, ~d)),
         InHand(k, d) => InHand(k, d)' \/ (evs # <<>> /\ evs[1] = SE_KEY(k, d)),
         UNCHANGED <<prev, todo, pushing, lost, Queue, pushed, keys, cleared>>, Hand' \in {<<>>, Hand}
  PROVE  Chain(k, d)'
<1> DEFINE good == SE_KEY(k, d)
           bad == SE_KEY(k, ~d)
<1>1. CallsEnd(k, d)' /\ (Fresh(k, d) <=> Fresh(k, d)') /\ (InRing(k, d) <=> InRing(k, d)')
  BY DEF Chain, CallsEnd, Fresh, Calling, InRing
<1>2. /\ Fresh(k, d)' \/ Settled(Queue, KeyEventOf(k, ~d), KeyEventOf(k, d))'
      /\ Hand' = <<KeyEventOf(k, ~d)>> => InRing(k, d)'
  <2>1. Hand' = <<KeyEventOf(k, ~d)>> => Hand = <<KeyEventOf(k, ~d)>>
    OBVIOUS
  <2>2. Fresh(k, d)' \/ Settled(Queue, KeyEventOf(k, ~d), KeyEventOf(k, d))'
    BY <1>1 DEF Chain
  <2> QED BY <1>1, <2>1, <2>2 DEF Chain
<1>3. PICK qu, more :
        /\ QueuesAll(SysLine, Waiting(qu, QueueSize), more, evs)
        /\ sys' = qu /\ evicted' = evicted \union KeysOf(more)
  BY QueueAllCarries DEF PipeTyped, SysLine
<1>4. SysLine' = Waiting(qu, QueueSize) /\ PushedLine' = PushedLine
  BY <1>3 DEF SysLine, PushedLine
<1>5. /\ Occurs(SysLine, good) => Occurs(SysLine', good) \/ k \in KeysOf(more)
      /\ ~Occurs(evs, bad) =>
           /\ Settled(SysLine, bad, good) => Settled(SysLine', bad, good)
           /\ evs # <<>> /\ evs[1] = good =>
                /\ Settled(SysLine', bad, good)
                /\ Occurs(SysLine', good) \/ k \in KeysOf(more)
  BY <1>3, <1>4 DEF QueuesAll
<1>6. /\ InHand(k, d) \/ Settled(SysLine, bad, good)
      /\ InSys(k, d) \/ k \in evicted \/ Settled(PushedLine, bad, good)
      /\ (k \in keys <=> ~d) => InPushed(k, d) \/ (d /\ k \in cleared)
  BY DEF Chain
<1>7. InHand(k, d)' \/ Settled(SysLine', bad, good)
  BY <1>5, <1>6
<1>8. InSys(k, d) => InSys(k, d)' \/ k \in evicted'
  BY <1>3, <1>5 DEF InSys
<1>9. k \in evicted => k \in evicted'
  BY <1>3
<1>10. InPushed(k, d) => InPushed(k, d)'
  BY <1>4, <1>8, <1>9 DEF InPushed
<1>11. InSys(k, d)' \/ k \in evicted' \/ Settled(PushedLine', bad, good)
  BY <1>4, <1>6, <1>8, <1>9
<1>12. (k \in keys' <=> ~d) => InPushed(k, d)' \/ (d /\ k \in cleared')
  BY <1>6, <1>10
<1> QED BY <1>1, <1>2, <1>7, <1>11, <1>12 DEF Chain

\* IN_Frame queues what it makes of a key event.
LEMMA QueueKeyKeyInv ==
  ASSUME PipeTyped, KeyInv, QueueKeyEvent
  PROVE  KeyInv'
<1> SUFFICES ASSUME NEW k \in Keys \ {Console}, NEW d \in BOOLEAN, Wants(k, d)'
             PROVE  Chain(k, d)'
  BY DEF KeyInv
<1> DEFINE evs == Translate(ev)
<1>1. /\ Hand = <<ev>> /\ Hand' = <<>>
      /\ UNCHANGED <<prev, todo, pushing, lost, Queue, pushed, keys, cleared, crossed>>
      /\ QueueAll(evs)
  BY DispatchHandsOver DEF QueueKeyEvent, DispatchEvent, isrVars
<1>2. Chain(k, d)
  BY <1>1, WantsSame DEF KeyInv
<1>3. ev \in Event
  BY DEF QueueKeyEvent, DispatchEvent, PipeTyped, RingInv
<1>4. /\ evs \in Seq(EngineEvents) /\ Len(evs) <= 2
      /\ Occurs(evs, SE_KEY(k, ~d)) => ev = KeyEventOf(k, ~d)
      /\ ev = KeyEventOf(k, d) => evs # <<>> /\ evs[1] = SE_KEY(k, d)
  BY <1>3, TranslateIs DEF KeyEventOf
<1> HIDE DEF evs
<1>5. \A f : Hand = <<f>> <=> ev = f
  <2>1. \A f : <<ev>> = <<f>> => ev = f
    <3> SUFFICES ASSUME NEW f, <<ev>> = <<f>> PROVE ev = f
      OBVIOUS
    <3>1. <<ev>>[1] = <<f>>[1]
      OBVIOUS
    <3> QED BY <3>1
  <2> QED BY <1>1, <2>1
<1>6. InRing(k, d) <=> InRing(k, d)'
  BY <1>1 DEF InRing, Fresh, Calling
<1>7. CASE ev = KeyEventOf(k, ~d)
  <2>1. InRing(k, d)'
    BY <1>2, <1>5, <1>6, <1>7 DEF Chain
  <2>2. CallsEnd(k, d)' /\ (Fresh(k, d) <=> Fresh(k, d)')
    BY <1>1, <1>2 DEF Chain, CallsEnd, Fresh, Calling
  <2>3. Fresh(k, d)' \/ Settled(Queue, KeyEventOf(k, ~d), KeyEventOf(k, d))'
    BY <1>1, <1>2, <2>2 DEF Chain
  <2> QED BY <2>1, <2>2, <2>3 DEF Chain, InHand, InSys, InPushed
<1>8. CASE ev # KeyEventOf(k, ~d)
  <2>1. InHand(k, d) => InHand(k, d)' \/ (evs # <<>> /\ evs[1] = SE_KEY(k, d))
    BY <1>4, <1>5, <1>6 DEF InHand
  <2>2. ~Occurs(evs, SE_KEY(k, ~d))
    BY <1>4, <1>8
  <2> QED BY <1>1, <1>2, <1>4, <2>1, <2>2, QueueChain
<1> QED BY <1>7, <1>8

\* IN_Frame queues motion.
LEMMA QueueMotionKeyInv ==
  ASSUME PipeTyped, KeyInv, QueueMotion
  PROVE  KeyInv'
<1> SUFFICES ASSUME NEW k \in Keys \ {Console}, NEW d \in BOOLEAN, Wants(k, d)'
             PROVE  Chain(k, d)'
  BY DEF KeyInv
<1> DEFINE evs == <<SE_MOUSE(moved)>>
<1>1. /\ UNCHANGED <<Queue, Hand, lost>>
      /\ UNCHANGED <<prev, todo, pushing, pushed, keys, cleared, crossed>>
      /\ QueueAll(evs)
  <2>1. Poll /\ UNCHANGED isrVars
    BY DEF QueueMotion, DispatchMotion, Poll
  <2> QED BY <2>1, QuietSteps DEF QueueMotion, isrVars
<1>2. Chain(k, d)
  BY <1>1, WantsSame DEF KeyInv
<1>3. moved \in Motion
  BY DEF PipeTyped, RingInv, TypeOK
<1>4. SE_MOUSE(moved) \in EngineEvents /\ SE_MOUSE(moved).type = "mouse"
  BY <1>3 DEF SE_MOUSE, EngineEvents
<1>5. /\ evs \in Seq(EngineEvents) /\ Len(evs) <= 2
      /\ \A f : Occurs(evs, f) => f = SE_MOUSE(moved)
  BY <1>4 DEF Occurs
<1>6. ~Occurs(evs, SE_KEY(k, ~d))
  BY <1>4, <1>5 DEF SE_KEY
<1>7. InHand(k, d) => InHand(k, d)'
  BY <1>1 DEF InHand, InRing, Fresh, Calling
<1> HIDE DEF evs
<1> QED BY <1>1, <1>2, <1>5, <1>6, <1>7, QueueChain

\* The ring's side of the chain, in a step of Com_EventLoop.
LEMMA RingSide ==
  ASSUME NEW k, NEW d, Chain(k, d), UNCHANGED vars
  PROVE  /\ CallsEnd(k, d)'
         /\ Fresh(k, d)' \/ Settled(Queue, KeyEventOf(k, ~d), KeyEventOf(k, d))'
         /\ Hand' = <<KeyEventOf(k, ~d)>> => InRing(k, d)'
         /\ InHand(k, d) <=> InHand(k, d)'
<1>1. UNCHANGED <<Queue, Hand, lost, todo, pushing>>
  BY QuietSteps DEF vars, isrVars
<1> QED BY <1>1 DEF Chain, CallsEnd, InHand, InRing, Fresh, Calling

\* CL_KeyEvent: what an event does to its key, and to the others.
LEMMA KeyEventDoes ==
  ASSUME KeyEvent, NEW k, NEW d \in BOOLEAN, (k \in keys' <=> ~d), ~(d /\ k \in cleared')
  PROVE  /\ ~(GotEvent.key = k /\ GotEvent.down = d)
         /\ GotEvent.key # k => (k \in keys <=> ~d) /\ ~(d /\ k \in cleared)
<1> DEFINE j == GotEvent.key
           down == GotEvent.down
<1>1. \/ keys' = {}
         /\ cleared' = (cleared \ {j}) \union (IF down THEN keys \union {j} ELSE keys \ {j})
      \/ down /\ keys' = keys \union {j} /\ cleared' = cleared \ {j}
      \/ ~down /\ keys' = keys \ {j} /\ cleared' = cleared \ {j}
  BY DEF KeyEvent
<1> HIDE DEF j
<1>2. CASE d = TRUE
  <2>1. k \notin keys' /\ k \notin cleared'
    BY <1>2
  <2>2. k # j \/ GotEvent.down # d
    BY <1>1, <1>2, <2>1
  <2>3. k # j => k \notin keys /\ k \notin cleared
    BY <1>1, <2>1
  <2> QED BY <1>2, <2>2, <2>3 DEF j
<1>3. CASE d = FALSE
  <2>1. k \in keys'
    BY <1>3
  <2>2. k # j \/ GotEvent.down # d
    BY <1>1, <1>3, <2>1
  <2>3. k # j => k \in keys
    BY <1>1, <2>1
  <2> QED BY <1>3, <2>2, <2>3 DEF j
<1> QED BY <1>2, <1>3

\* The engine releases keys itself: Key_ClearStates, "togglemenu".
LEMMA KeysReleased ==
  ASSUME KeyInv, UNCHANGED <<Queue, Hand, lost, prev, todo, pushing, crossed,
                             sys, pushed, evicted>>,
         keys' \subseteq keys, cleared \union (keys \ keys') \subseteq cleared'
  PROVE  KeyInv'
<1> SUFFICES ASSUME NEW k \in Keys \ {Console}, NEW d \in BOOLEAN, Wants(k, d)'
             PROVE  Chain(k, d)'
  BY DEF KeyInv
<1>1. Chain(k, d)
  BY WantsSame DEF KeyInv
<1>2. UNCHANGED <<SysLine, PushedLine>>
  BY DEF SysLine, PushedLine
<1>3. /\ CallsEnd(k, d)' /\ (Fresh(k, d) <=> Fresh(k, d)')
      /\ InRing(k, d) <=> InRing(k, d)'
      /\ InHand(k, d) <=> InHand(k, d)'
      /\ InSys(k, d) <=> InSys(k, d)'
      /\ InPushed(k, d) <=> InPushed(k, d)'
  BY <1>1, <1>2 DEF Chain, CallsEnd, Fresh, Calling, InRing, InHand, InSys, InPushed
<1>4. (k \in keys' <=> ~d) => InPushed(k, d)' \/ (d /\ k \in cleared')
  <2>1. (k \in keys <=> ~d) => InPushed(k, d)' \/ (d /\ k \in cleared)
    BY <1>1, <1>3 DEF Chain
  <2>2. CASE d = TRUE
    BY <2>1, <2>2
  <2>3. CASE d = FALSE
    BY <2>1, <2>3
  <2> QED BY <2>2, <2>3
<1> QED BY <1>1, <1>2, <1>3, <1>4 DEF Chain

\* An event is taken by Com_EventLoop.
LEMMA ConsumeChain ==
  ASSUME PipeTyped, NEW k \in Keys \ {Console}, NEW d \in BOOLEAN, Chain(k, d),
         ~IsEmpty(Source), Consume, UNCHANGED vars,
         evicted' = IF IsEmpty(pushed) /\ GotEvent.type = "key" THEN evicted \ {GotEvent.key}
                    ELSE evicted,
         (k \in keys' <=> ~d) /\ ~(d /\ k \in cleared') =>
           /\ GotEvent # SE_KEY(k, d)
           /\ GotEvent # SE_KEY(k, ~d) => (k \in keys <=> ~d) /\ ~(d /\ k \in cleared)
  PROVE  Chain(k, d)'
<1> DEFINE good == SE_KEY(k, d)
           bad == SE_KEY(k, ~d)
           g == GotEvent
           wrong == (k \in keys' <=> ~d) /\ ~(d /\ k \in cleared')
<1>1. /\ CallsEnd(k, d)'
      /\ Fresh(k, d)' \/ Settled(Queue, KeyEventOf(k, ~d), KeyEventOf(k, d))'
      /\ Hand' = <<KeyEventOf(k, ~d)>> => InRing(k, d)'
      /\ InHand(k, d) <=> InHand(k, d)'
  BY RingSide
<1>2. /\ InHand(k, d) \/ Settled(SysLine, bad, good)
      /\ InSys(k, d) \/ k \in evicted \/ Settled(PushedLine, bad, good)
      /\ (k \in keys <=> ~d) => InPushed(k, d) \/ (d /\ k \in cleared)
  BY DEF Chain
<1>3. SysLine \in Seq(EngineEvents) /\ PushedLine \in Seq(EngineEvents)
  BY MotionParts
<1>4. wrong => g # good /\ (g # bad => InPushed(k, d))
  BY <1>2
<1>5. SUFFICES /\ InHand(k, d)' \/ Settled(SysLine', bad, good)
               /\ InSys(k, d)' \/ k \in evicted' \/ Settled(PushedLine', bad, good)
               /\ wrong => InPushed(k, d)'
  BY <1>1 DEF Chain
<1> HIDE DEF good, bad, wrong
<1>6. CASE /\ ~IsEmpty(pushed) /\ PushedLine # <<>> /\ SysLine' = SysLine
           /\ GotEvent = Head(PushedLine) /\ PushedLine' = Tail(PushedLine)
  <2>1. evicted' = evicted
    BY <1>6
  <2>2. InSys(k, d) <=> InSys(k, d)'
    BY <1>1, <1>6 DEF InSys
  <2>3. /\ \A f : Occurs(PushedLine, f) => f = g \/ Occurs(PushedLine', f)
        /\ Settled(PushedLine, bad, good) => Settled(PushedLine', bad, good)
                                               /\ (g = bad => Occurs(PushedLine', good))
    BY <1>3, <1>6, TailKeeps
  <2>4. wrong /\ g = bad => InPushed(k, d)'
    BY <1>2, <2>1, <2>2, <2>3 DEF InPushed, good
  <2>5. wrong /\ g # bad => InPushed(k, d)'
    BY <1>4, <2>1, <2>2, <2>3 DEF InPushed, good
  <2> QED BY <1>1, <1>2, <1>6, <2>1, <2>2, <2>3, <2>4, <2>5
<1>7. CASE /\ IsEmpty(pushed) /\ PushedLine = <<>> /\ SysLine # <<>> /\ PushedLine' = <<>>
           /\ GotEvent = Head(SysLine) /\ SysLine' = Tail(SysLine)
  <2>1. /\ \A f : Occurs(SysLine, f) => f = g \/ Occurs(SysLine', f)
        /\ Settled(SysLine, bad, good) => Settled(SysLine', bad, good)
                                            /\ (g = bad => Occurs(SysLine', good))
    BY <1>3, <1>7, TailKeeps
  <2>2. Settled(PushedLine', bad, good) /\ ~Occurs(PushedLine, good)
    BY <1>7 DEF Settled, Occurs
  <2>3. wrong /\ g = bad => InPushed(k, d)'
    BY <1>1, <1>2, <2>1 DEF InPushed, InSys, good
  <2>4. g # good /\ g # bad /\ k \in evicted => k \in evicted'
    <3> SUFFICES ASSUME g # good, g # bad, g.type = "key", g.key = k PROVE FALSE
      OBVIOUS
    <3>1. g \in EngineEvents
      BY ConsumeTakes
    <3>2. g.down \in BOOLEAN /\ g = [type |-> "key", key |-> k, down |-> g.down]
      BY <3>1 DEF EngineEvents
    <3>3. g.down = d \/ g.down = ~d
      BY <3>2
    <3> QED BY <3>2, <3>3 DEF SE_KEY, good, bad
  <2>5. wrong /\ g # bad => InPushed(k, d)'
    <3> SUFFICES ASSUME wrong, g # bad PROVE InPushed(k, d)'
      OBVIOUS
    <3>1. g # good /\ (InSys(k, d) \/ k \in evicted)
      BY <1>4, <2>2 DEF InPushed, good
    <3>2. InSys(k, d) => InSys(k, d)'
      BY <1>1, <2>1, <3>1 DEF InSys, good
    <3> QED BY <2>4, <3>1, <3>2 DEF InPushed
  <2> QED BY <1>1, <1>2, <2>1, <2>2, <2>3, <2>5
<1> QED BY <1>6, <1>7, ConsumeTakes

\* Com_EventLoop hands an event to the client.
LEMMA ConsumeKeyInv ==
  ASSUME PipeTyped, KeyInv, KeyEvent \/ CharEvent \/ MouseEvent
  PROVE  KeyInv'
<1> SUFFICES ASSUME NEW k \in Keys \ {Console}, NEW d \in BOOLEAN, Wants(k, d)'
             PROVE  Chain(k, d)'
  BY DEF KeyInv
<1>1. ~IsEmpty(Source) /\ Consume /\ UNCHANGED vars /\ UNCHANGED crossed
  BY DEF KeyEvent, CharEvent, MouseEvent
<1>2. Chain(k, d)
  BY <1>1, WantsSame DEF KeyInv, vars, isrVars
<1>3. /\ SE_KEY(k, d).type = "key" /\ SE_KEY(k, d).key = k /\ SE_KEY(k, d).down = d
      /\ SE_KEY(k, ~d).type = "key" /\ SE_KEY(k, ~d).key = k /\ SE_KEY(k, ~d).down = ~d
  BY DEF SE_KEY
<1>4. CASE KeyEvent
  <2>1. /\ evicted' = IF IsEmpty(pushed) THEN evicted \ {GotEvent.key} ELSE evicted
        /\ GotEvent.type = "key"
    BY <1>4 DEF KeyEvent
  <2>2. GotEvent \in EngineEvents
    BY <1>1, ConsumeTakes
  <2>3. GotEvent.key = k => GotEvent = SE_KEY(k, d) \/ GotEvent = SE_KEY(k, ~d)
    <3>1. GotEvent.down \in BOOLEAN
          /\ GotEvent = [type |-> "key", key |-> GotEvent.key, down |-> GotEvent.down]
      BY <2>1, <2>2 DEF EngineEvents
    <3>2. GotEvent.down = d \/ GotEvent.down = ~d
      BY <3>1
    <3> QED BY <3>1, <3>2 DEF SE_KEY
  <2>4. (k \in keys' <=> ~d) /\ ~(d /\ k \in cleared') =>
           /\ GotEvent # SE_KEY(k, d)
           /\ GotEvent # SE_KEY(k, ~d) => (k \in keys <=> ~d) /\ ~(d /\ k \in cleared)
    BY <1>3, <1>4, <2>3, KeyEventDoes
  <2> QED BY <1>1, <1>2, <2>1, <2>4, ConsumeChain
<1>5. CASE CharEvent \/ MouseEvent
  <2>1. GotEvent.type # "key" /\ UNCHANGED evicted /\ MayClearStates
    BY <1>5 DEF CharEvent, MouseEvent
  <2>2. GotEvent # SE_KEY(k, d)
    BY <1>3, <2>1
  <2>3. (k \in keys' <=> ~d) /\ ~(d /\ k \in cleared') =>
           (k \in keys <=> ~d) /\ ~(d /\ k \in cleared)
    <3>1. \/ keys' = {} /\ cleared' = cleared \union keys
          \/ keys' = keys /\ cleared' = cleared
      BY <2>1 DEF MayClearStates, Key_ClearStates
    <3>2. CASE d = TRUE
      BY <3>1, <3>2
    <3>3. CASE d = FALSE
      BY <3>1, <3>3
    <3> QED BY <3>2, <3>3
  <2> QED BY <1>1, <1>2, <2>1, <2>2, <2>3, ConsumeChain
<1> QED BY <1>4, <1>5

\* Com_Milliseconds moves an event behind the pushed ones.
LEMMA PushKeyKeyInv ==
  ASSUME PipeTyped, KeyInv, PushEvent
  PROVE  KeyInv'
<1> SUFFICES ASSUME NEW k \in Keys \ {Console}, NEW d \in BOOLEAN, Wants(k, d)'
             PROVE  Chain(k, d)'
  BY DEF KeyInv
<1> DEFINE good == SE_KEY(k, d)
           bad == SE_KEY(k, ~d)
           h == Head(SysLine)
<1>1. UNCHANGED vars /\ UNCHANGED <<keys, cleared, crossed>>
  BY DEF PushEvent
<1>2. Chain(k, d)
  BY <1>1, WantsSame DEF KeyInv, vars, isrVars
<1>3. /\ CallsEnd(k, d)'
      /\ Fresh(k, d)' \/ Settled(Queue, KeyEventOf(k, ~d), KeyEventOf(k, d))'
      /\ Hand' = <<KeyEventOf(k, ~d)>> => InRing(k, d)'
      /\ InHand(k, d) <=> InHand(k, d)'
  BY <1>1, <1>2, RingSide
<1>4. /\ InHand(k, d) \/ Settled(SysLine, bad, good)
      /\ InSys(k, d) \/ k \in evicted \/ Settled(PushedLine, bad, good)
      /\ (k \in keys <=> ~d) => InPushed(k, d) \/ (d /\ k \in cleared)
  BY <1>2 DEF Chain
<1>5. SysLine \in Seq(EngineEvents) /\ SysLine # <<>> /\ SysLine' = Tail(SysLine)
  BY MotionParts, PushMoves
<1>6. PICK gone \in Seq(EngineEvents) :
        /\ Carries(PushedLine, <<>>, PushedLine', gone, h)
        /\ evicted' = evicted \union KeysOf(gone)
  BY PushMoves
<1> HIDE DEF h
<1>7. /\ Occurs(PushedLine, good) => Occurs(PushedLine', good) \/ k \in evicted'
      /\ h = good => Occurs(PushedLine', good) /\ Settled(PushedLine', bad, good)
      /\ Settled(PushedLine, bad, good) /\ h # bad => Settled(PushedLine', bad, good)
      /\ k \in evicted => k \in evicted'
  BY <1>6 DEF Carries
<1> HIDE DEF good, bad
<1>8. /\ Occurs(SysLine, good) => good = h \/ Occurs(SysLine', good)
      /\ Settled(SysLine, bad, good) => Settled(SysLine', bad, good)
                                          /\ (h = bad => Occurs(SysLine', good))
  BY <1>5, TailKeeps DEF h
<1>9. InHand(k, d)' \/ Settled(SysLine', bad, good)
  BY <1>3, <1>4, <1>8
<1>10. InSys(k, d) => InSys(k, d)' \/ h = good
  BY <1>3, <1>8 DEF InSys, good
<1>11. InPushed(k, d) => InPushed(k, d)'
  BY <1>7, <1>10 DEF InPushed, good
<1>12. h = bad => InSys(k, d)'
  BY <1>3, <1>4, <1>8 DEF InSys, good
<1>13. InSys(k, d)' \/ k \in evicted' \/ Settled(PushedLine', bad, good)
  BY <1>4, <1>7, <1>10, <1>12
<1>14. (k \in keys' <=> ~d) => InPushed(k, d)' \/ (d /\ k \in cleared')
  BY <1>1, <1>4, <1>11
<1> QED BY <1>3, <1>9, <1>13, <1>14 DEF Chain, good, bad

\* Every step keeps the chain of every key.
LEMMA KeyInvStep ==
  PipeTyped /\ PipeTyped' /\ KeyInv /\ [PipeNext]_<<vars, engineVars>> => KeyInv'
<1> SUFFICES ASSUME PipeTyped, PipeTyped', KeyInv, [PipeNext]_<<vars, engineVars>>
             PROVE  KeyInv'
  OBVIOUS
<1>1. CASE Interrupt
  <2>1. CASE Report
    BY <1>1, <2>1, ReportKeyInv
  <2>2. CASE \E c \in todo : PushUnmapped(c) \/ PushFull(c) \/ PushStore(c)
    BY <1>1, <2>2, PushKeyInv
  <2>3. CASE \E c \in pushing : PushPublish(c)
    BY <1>1, <2>3, PushKeyInv
  <2> QED BY <1>1, <2>1, <2>2, <2>3 DEF Interrupt, Handler
<1>2. CASE (AdvanceTail \/ AdvanceTailFirst) /\ UNCHANGED engineVars
  BY <1>2, TakeKeyInv
<1>3. CASE QueueKeyEvent
  BY <1>3, QueueKeyKeyInv
<1>4. CASE QueueMotion
  BY <1>4, QueueMotionKeyInv
<1>5. CASE KeyEvent \/ CharEvent \/ MouseEvent
  BY <1>5, ConsumeKeyInv
<1>6. CASE PushEvent
  BY <1>6, PushKeyKeyInv
<1>7. CASE /\ ReadSlot \/ EnterFrame \/ RingEmpty \/ Poll \/ ReadSlotLate \/ UNCHANGED vars
           /\ UNCHANGED <<crossed, sys, pushed, keys, evicted, cleared>>
  <2>1. UNCHANGED <<Queue, Hand, lost>>
    BY <1>7, QuietSteps
  <2>2. UNCHANGED <<prev, todo, pushing>>
    BY <1>7 DEF ReadSlot, EnterFrame, RingEmpty, Poll, PollStill, PollX, PollY, ClearX, ClearY,
           DispatchMotion, ReadSlotLate, vars, isrVars
  <2> QED BY <1>7, <2>1, <2>2, ChainSame
<1>8. CASE StartFrame \/ FetchEvent \/ PollMotion \/ NoMotion
  BY <1>2, <1>7, <1>8 DEF StartFrame, FetchEvent, PollMotion, NoMotion, Poll, engineVars
<1>9. CASE LoopDone \/ AbortFrame \/ Milliseconds \/ MillisecondsDone
             \/ UNCHANGED <<vars, engineVars>>
  BY <1>7, <1>9 DEF LoopDone, AbortFrame, Milliseconds, MillisecondsDone, engineVars
<1>10. CASE ChangeCatcher \/ ToggleMenu
  <2>1. /\ UNCHANGED vars /\ UNCHANGED <<crossed, sys, pushed, evicted>>
        /\ keys' \subseteq keys /\ cleared \union (keys \ keys') \subseteq cleared'
    BY <1>10 DEF ChangeCatcher, ToggleMenu, Key_ClearStates
  <2>2. UNCHANGED <<Queue, Hand, lost, prev, todo, pushing>>
    BY <2>1, QuietSteps DEF vars, isrVars
  <2> QED BY <2>1, <2>2, KeysReleased
<1> QED BY <1>1, <1>3, <1>4, <1>5, <1>6, <1>8, <1>9, <1>10 DEF PipeNext, EventLoop

\* The chain holds in every reachable state.
LEMMA KeyInvAlways == PipeSpec => []KeyInv
<1>1. PipeInit => KeyInv
  <2> SUFFICES ASSUME PipeInit, NEW k \in Keys \ {Console}, NEW d \in BOOLEAN, Wants(k, d)
               PROVE  Chain(k, d)
    BY DEF KeyInv
  <2>1. d = FALSE
    BY DEF PipeInit, Init, Wants, Held, KeysIn
  <2>2. SysLine = <<>> /\ PushedLine = <<>>
    BY QueueAssumption, EmptyTyped DEF PipeInit, SysLine, PushedLine
  <2>3. Queue = <<>> /\ Hand = <<>>
    <3>1. Count(head, tail) = 0
      BY DEF PipeInit, Init, Count
    <3> QED BY <3>1 DEF PipeInit, Init, Queue, Contents, Hand
  <2>4. \A bad, good : Settled(<<>>, bad, good)
    BY DEF Settled
  <2>5. CallsEnd(k, d) /\ k \notin keys
    BY DEF PipeInit, Init, CallsEnd
  <2>6. Hand # <<KeyEventOf(k, ~d)>>
    BY <2>3
  <2> QED BY <2>1, <2>2, <2>3, <2>4, <2>5, <2>6 DEF Chain
<1> QED BY <1>1, KeyInvStep, PipeTypedAlways, PTL DEF PipeSpec

\* Nothing is left of the chain when everything reported has arrived.
LEMMA DrainedChain ==
  ASSUME PipeTyped, Drained, NEW k, NEW d
  PROVE  InPushed(k, d) => k \in lost \union evicted
<1>1. SysLine = <<>> /\ PushedLine = <<>>
  BY QueueAssumption, WaitingType DEF PipeTyped, Drained, SysLine, PushedLine
<1>2. Queue = <<>> /\ Hand = <<>>
  <2>1. tail \in Nat
    BY RingAssumption DEF PipeTyped, RingInv, TypeOK
  <2>2. Count(head, tail) = 0
    BY <2>1 DEF Drained, Count
  <2> QED BY <2>2 DEF Drained, Queue, Contents, Hand
<1>3. ~Calling(k, d)
  BY DEF Drained, Calling
<1>4. \A f : ~Occurs(<<>>, f)
  BY DEF Occurs
<1>5. Hand # <<KeyEventOf(k, d)>>
  BY <1>2
<1> QED BY <1>1, <1>2, <1>3, <1>4, <1>5 DEF InPushed, InSys, InHand, InRing, Fresh

\* A key the player let go stays down in the engine only when an event of that
\* key was lost at the full ring (PushKeyEvent) or overwritten in a full event
\* queue (Com_QueueEvent, Com_PushEvent): for every keyboard, every size of the
\* three queues and every interleaving of the interrupts with the frame.
THEOREM NoKeyStuck == PipeSpec => []NoStuckKey
<1>1. PipeTyped /\ KeyInv => NoStuckKey
  <2> SUFFICES ASSUME PipeTyped, KeyInv, Drained, NEW k \in keys, ~Held(k)
               PROVE  k \in lost \union evicted
    BY DEF NoStuckKey
  <2>1. k \in Keys \ {Console}
    BY DEF PipeTyped
  <2>2. Chain(k, FALSE)
    BY <2>1 DEF KeyInv, Wants
  <2>3. InPushed(k, FALSE)
    BY <2>2 DEF Chain
  <2> QED BY <2>3, DrainedChain
<1> QED BY <1>1, PipeTypedAlways, KeyInvAlways, PTL

\* A key the player holds is down in the engine, but for lost and overwritten
\* events, keys the engine released itself (Key_ClearStates at a change of the
\* catcher or the console, "togglemenu"), and a second scancode of the same
\* keycode let go meanwhile (KeyStatusHandlerRaw).
THEOREM HeldKeysAreDown == PipeSpec => []HeldKeyIsDown
<1>1. PipeTyped /\ KeyInv => HeldKeyIsDown
  <2> SUFFICES ASSUME PipeTyped, KeyInv, Drained, NEW k \in Keys \ {Console}, Held(k),
                      k \notin keys, k \notin cleared, k \notin crossed
               PROVE  k \in lost \union evicted
    BY DEF HeldKeyIsDown
  <2>1. Chain(k, TRUE)
    BY DEF KeyInv, Wants
  <2>2. InPushed(k, TRUE)
    BY <2>1 DEF Chain
  <2> QED BY <2>2, DrainedChain
<1> QED BY <1>1, PipeTypedAlways, KeyInvAlways, PTL
=============================================================================
