--------------------------- MODULE ConnectionProofs ---------------------------
(* Proofs about Connection, for every number of clients, of slots and of       *)
(* challenges and all values of the timeouts.                                  *)
EXTENDS Connection, TLAPS, FiniteSetTheorems, WellFoundedInduction

-----------------------------------------------------------------------------
(* The invariant.                                                             *)

\* A client that has not been heard is counted while it is silent, and its
\* silence is no longer than what has been counted.
SilenceCounted ==
  \A i \in Slots :
    Live(slots[i]) /\ slots[i].just =>
      slots[i].quiet <= Timeout + slots[i].timeouts /\ slots[i].timeouts <= TimeoutFrames

IInv == TypeOK /\ OneSlotPerPeer /\ GameAgrees /\ SilenceCounted

-----------------------------------------------------------------------------
(* Slots.                                                                     *)

LEMMA Limits ==
  /\ Timeout \in Nat /\ TimeoutFrames \in Nat /\ ReconnectLimit \in Nat /\ MaxConcurrent \in Nat
  /\ ZombieTime \in Nat /\ ZombieTime <= Timeout /\ NSlots \in Nat
  /\ MaxIssued \in Nat /\ MaxKicks \in Nat /\ QuietCap \in Nat /\ NoPeer \notin Peers
  /\ QuietCap = Timeout + TimeoutFrames + 1
BY ConnectionAssumption DEF QuietCap

\* A set of slots has a first one.
LEMMA LeastIn ==
  ASSUME NEW S \in SUBSET Slots, S # {}
  PROVE  Least(S) \in S
<1> DEFINE R == OpToRel(<, Nat)
<1>1. \A i, k \in Nat : i < k => <<i, k>> \in R
  BY DEF OpToRel
<1>2. S \subseteq Nat
  BY Limits DEF Slots
<1>3. IsWellFoundedOn(R, Nat)
  BY NatLessThanWellFounded
<1> HIDE DEF R
<1>4. PICK i \in S : \A k \in S : <<k, i>> \notin R
  BY <1>2, <1>3, WFMin
<1>5. ASSUME NEW k \in S PROVE i <= k
  <2>1. <<k, i>> \notin R /\ i \in Nat /\ k \in Nat
    BY <1>2, <1>4
  <2>2. ~(k < i)
    BY <1>1, <2>1
  <2> QED BY <2>1, <2>2
<1> QED BY <1>4, <1>5 DEF Least

LEMMA SlotsFinite == IsFiniteSet(Slots)
BY FS_Interval, Limits DEF Slots

LEMMA FreeSlotType == FreeSlot \in Slot /\ BotSlot \in Slot
<1>1. FreeSlot \in Slot
  BY Limits DEF FreeSlot, Slot
<1>2. 0 \in 0..QuietCap
  BY Limits
<1>3. BotSlot \in Slot
  BY <1>1, <1>2, Zenon DEF BotSlot, Slot
<1> QED BY <1>1, <1>3

LEMMA DroppedType ==
  ASSUME NEW s \in Slot
  PROVE  /\ Dropped(s) \in Slot /\ Dropped(s).state \in {"free", "zombie"}
         /\ Dropped(s).state = "free" => Dropped(s) = FreeSlot
         /\ Dropped(s).peer \in {s.peer, NoPeer}
         /\ ~IsBot(s) => Dropped(s).state = "zombie" /\ Dropped(s).peer = s.peer
BY FreeSlotType DEF Dropped, Slot, FreeSlot, IsBot

LEMMA AgedType ==
  ASSUME NEW s \in Slot
  PROVE  /\ Aged(s) \in Slot
         /\ Aged(s).state = s.state /\ Aged(s).peer = s.peer /\ Aged(s).just = s.just
         /\ Aged(s).challenge = s.challenge /\ Aged(s).timeouts = s.timeouts
         /\ Aged(s).quiet <= s.quiet + 1
<1> DEFINE q == IF s.quiet < QuietCap /\ ~IsBot(s) THEN s.quiet + 1 ELSE s.quiet
           r == IF s.since < ReconnectLimit THEN s.since + 1 ELSE s.since
<1>1. q \in 0..QuietCap /\ r \in 0..ReconnectLimit /\ q <= s.quiet + 1
  BY Limits DEF Slot
<1>2. Aged(s) = [s EXCEPT !.quiet = q, !.since = r]
  BY DEF Aged
<1> HIDE DEF q, r
<1>3. Aged(s) \in Slot
  BY <1>1, <1>2, Zenon DEF Slot
<1>4. /\ Aged(s).state = s.state /\ Aged(s).peer = s.peer /\ Aged(s).just = s.just
      /\ Aged(s).challenge = s.challenge /\ Aged(s).timeouts = s.timeouts /\ Aged(s).quiet = q
  BY <1>2 DEF Slot
<1> QED BY <1>1, <1>3, <1>4

\* A frame does to a slot what SV_CheckTimeouts says: it sets a zombie free whose
\* time is over, drops a client that was never heard, or counts its silence.
LEMMA CheckedType ==
  ASSUME NEW s \in Slot
  PROVE  /\ Checked(s) \in Slot
         /\ Checked(s).state \in {"free", s.state} /\ Checked(s).peer \in {s.peer, NoPeer}
         /\ Checked(s).state # "free" =>
              Checked(s).peer = s.peer /\ Checked(s).challenge = s.challenge
         /\ ~ZombieOver(s) /\ ~TimedOut(s) => Checked(s).state = s.state
         /\ ~ZombieOver(s) => Checked(s).peer = s.peer /\ Checked(s).just = s.just
                              /\ Checked(s).quiet = s.quiet
         /\ TimedOut(s) => Checked(s).state = "free"
         /\ Silent(s) /\ ~TimedOut(s) => Checked(s).timeouts = s.timeouts + 1
<1>1. CASE ZombieOver(s)
  <2>1. Checked(s) = Freed(s) /\ s.state = "zombie" /\ ~Silent(s)
    BY <1>1 DEF Checked, Silent, TimedOut, ZombieOver
  <2>2. Freed(s) \in Slot /\ Freed(s).state = "free" /\ Freed(s).peer \in {s.peer, NoPeer}
    BY FreeSlotType DEF Freed, Slot, FreeSlot
  <2> QED BY <1>1, <2>1, <2>2
<1>2. CASE TimedOut(s)
  <2>1. /\ Checked(s) = [s EXCEPT !.state = "free", !.timeouts = TimeoutFrames + 1]
        /\ ~ZombieOver(s)
    BY <1>2 DEF Checked, Silent, TimedOut
  <2>2. TimeoutFrames + 1 \in 0..(TimeoutFrames + 1)
    BY Limits
  <2>3. Checked(s) \in Slot
    BY <2>1, <2>2, Zenon DEF Slot
  <2>4. /\ Checked(s).state = "free" /\ Checked(s).peer = s.peer /\ Checked(s).just = s.just
        /\ Checked(s).quiet = s.quiet
    BY <2>1 DEF Slot
  <2> QED BY <1>2, <2>1, <2>3, <2>4
<1>3. CASE Silent(s) /\ ~TimedOut(s)
  <2>1. Checked(s) = [s EXCEPT !.timeouts = s.timeouts + 1] /\ ~ZombieOver(s)
    BY <1>3 DEF Checked, Silent, TimedOut
  <2>2. s.timeouts + 1 \in 0..(TimeoutFrames + 1)
    BY <1>3, Limits DEF Slot, TimedOut
  <2> QED BY <1>3, <2>1, <2>2 DEF Slot
<1>4. CASE ~ZombieOver(s) /\ ~Silent(s)
  <2>1. Checked(s) = [s EXCEPT !.timeouts = 0] /\ ~TimedOut(s)
    BY <1>4 DEF Checked, TimedOut
  <2> QED BY <1>4, <2>1, Limits DEF Slot
<1> QED BY <1>1, <1>2, <1>3, <1>4 DEF TimedOut

LEMMA ClearedType ==
  ASSUME NEW D, challenges \in [Entries -> Challenge]
  PROVE  ClearedFor(D) \in [Entries -> Challenge]
<1>1. NoChallenge \in Challenge
  BY DEF NoChallenge, Challenge
<1> QED BY <1>1 DEF ClearedFor

-----------------------------------------------------------------------------
(* What the steps do to the slots.                                            *)

\* The slot of a message is the only one of its machine.
LEMMA SlotOfPeer ==
  ASSUME IInv, NEW p \in Peers, NEW i \in SlotsOf(p)
  PROVE  /\ i \in Slots /\ slots[i].peer = p /\ slots[i].state # "free" /\ p # NoPeer
         /\ SlotsOf(p) = {i} /\ ~IsBot(slots[i])
BY Limits DEF IInv, OneSlotPerPeer, SlotsOf, IsBot

LEMMA SlotForIs ==
  ASSUME IInv, NEW p \in Peers, NEW i \in SlotFor(p)
  PROVE  /\ i \in Slots
         /\ slots[i].state = "free" \/ (slots[i].peer = p /\ i \in SlotsOf(p))
         /\ \A k \in Slots \ {i} : slots[k].state # "free" => slots[k].peer # p
<1>1. CASE SlotsOf(p) # {}
  <2>1. i \in SlotsOf(p)
    BY <1>1 DEF SlotFor
  <2>2. SlotsOf(p) = {i}
    BY <2>1, SlotOfPeer
  <2> QED BY <2>1, <2>2 DEF SlotsOf
<1>2. CASE SlotsOf(p) = {}
  BY <1>2 DEF SlotFor, SlotsOf
<1> QED BY <1>1, <1>2

\* What no step does to a slot: give a zombie's to another machine or, with
\* sv_maxconcurrent 1, take a client out of the game other than by a drop.
SlotStep(s, t) ==
  /\ s.state = "zombie" => t.peer = s.peer \/ t.state = "free"
  /\ MaxConcurrent = 1 /\ Heard(s) /\ ~IsBot(s) =>
       t.state = "zombie" \/ (Heard(t) /\ t.challenge = s.challenge)

SlotsInv == slots \in [Slots -> Slot] /\ game \subseteq Slots
            /\ OneSlotPerPeer /\ GameAgrees /\ SilenceCounted

SlotsKept == SlotsInv' /\ \A i \in Slots : SlotStep(slots[i], slots'[i])

\* No slot has machine p but perhaps slot i.
NoOther(p, i) == \A k \in Slots \ {i} : slots[k].state # "free" => slots[k].peer # p

\* A slot that is what the invariant asks for, in a step that leaves the others.
LEMMA OneSlotChanges ==
  ASSUME SlotsInv, NEW i \in Slots, NEW t \in Slot, slots' = [slots EXCEPT ![i] = t],
         t.state # "free" /\ t.peer # NoPeer => NoOther(t.peer, i),
         game' \in {game, game \union {i}, game \ {i}},
         Live(t) => i \in game', i \in game' => Live(t) \/ Refused(t),
         Live(t) /\ t.just => t.quiet <= Timeout + t.timeouts /\ t.timeouts <= TimeoutFrames,
         SlotStep(slots[i], t)
  PROVE  SlotsKept
<1>1. slots' \in [Slots -> Slot] /\ game' \subseteq Slots
  BY DEF SlotsInv
<1>2. slots'[i] = t /\ \A k \in Slots \ {i} : slots'[k] = slots[k]
  BY DEF SlotsInv
<1>3. OneSlotPerPeer'
  BY <1>2 DEF SlotsInv, OneSlotPerPeer, NoOther
<1>4. GameAgrees'
  BY <1>2 DEF SlotsInv, GameAgrees
<1>5. SilenceCounted'
  BY <1>2 DEF SlotsInv, SilenceCounted
<1>6. \A k \in Slots : SlotStep(slots[k], slots'[k])
  BY <1>2 DEF SlotStep
<1> QED BY <1>1, <1>3, <1>4, <1>5, <1>6 DEF SlotsKept, SlotsInv

LEMMA SlotsUnchanged ==
  ASSUME SlotsInv, UNCHANGED <<slots, game>>
  PROVE  SlotsKept
BY DEF SlotsKept, SlotsInv, OneSlotPerPeer, GameAgrees, SilenceCounted, SlotStep

\* A drop: the slot is a zombie or, a bot's, free.
LEMMA DropKeeps ==
  ASSUME SlotsInv, NEW i \in Slots, NEW s \in Slot, SV_DropClient(i, s),
         s.peer = slots[i].peer, s.challenge = slots[i].challenge, slots[i].state # "free",
         IsBot(s) <=> IsBot(slots[i])
  PROVE  SlotsKept
<1> DEFINE t == Dropped(s)
<1>1. /\ t \in Slot /\ t.state \in {"free", "zombie"} /\ t.peer \in {s.peer, NoPeer}
      /\ ~IsBot(s) => t.state = "zombie" /\ t.peer = s.peer
  BY DroppedType
<1> HIDE DEF t
<1>2. slots' = [slots EXCEPT ![i] = t] /\ game' = game \ {i}
  BY DEF SV_DropClient, t
<1>3. ~Live(t)
  BY <1>1 DEF Live
<1>4. t.state # "free" /\ t.peer # NoPeer => NoOther(t.peer, i)
  BY <1>1 DEF SlotsInv, OneSlotPerPeer, NoOther
<1>5. SlotStep(slots[i], t)
  BY <1>1 DEF SlotStep, IsBot, Heard, Live
<1> QED BY <1>1, <1>2, <1>3, <1>4, <1>5, OneSlotChanges

-----------------------------------------------------------------------------
(* The steps.                                                                 *)

LEMMA IsSlotsInv == ASSUME IInv PROVE SlotsInv
BY DEF IInv, TypeOK, SlotsInv

LEMMA DirectConnectKeeps ==
  ASSUME IInv, NEW m \in net, SV_DirectConnect(m)
  PROVE  SlotsKept
<1> SlotsInv
  BY IsSlotsInv
<1>1. m.type = "connect" /\ m.peer \in Peers /\ m.num \in Nat /\ m.peer # NoPeer
  BY Limits DEF IInv, TypeOK, Packet, SV_DirectConnect
<1>2. CASE SlotFor(m.peer) = {}
  BY <1>2, SlotsUnchanged DEF SV_DirectConnect
<1>3. CASE SlotFor(m.peer) # {}
  <2> DEFINE i == Least(SlotFor(m.peer))
  <2>1. SlotFor(m.peer) \subseteq Slots
    BY DEF SlotFor, SlotsOf
  <2>2. i \in SlotFor(m.peer)
    BY <1>3, <2>1, LeastIn
  <2>3. Accept(i, m) \/ Refuse(i, m)
    BY <1>3 DEF SV_DirectConnect
  <2> HIDE DEF i
  <2>4. /\ i \in Slots
        /\ slots[i].state = "free" \/ (slots[i].peer = m.peer /\ i \in SlotsOf(m.peer))
        /\ \A k \in Slots \ {i} : slots[k].state # "free" => slots[k].peer # m.peer
    BY <1>1, <2>2, SlotForIs
  <2>5. ASSUME MaxConcurrent = 1 PROVE ~Heard(slots[i])
    <3>1. SUFFICES ASSUME Heard(slots[i]) PROVE FALSE
      OBVIOUS
    <3> DEFINE H == {k \in SlotsOf(m.peer) : Heard(slots[k])}
    <3>2. Cardinality(H) < 1
      BY <2>5 DEF SV_DirectConnect, Admitted
    <3>3. i \in H
      BY <2>4, <3>1 DEF Heard, Live
    <3>4. H \subseteq Slots
      BY DEF SlotsOf
    <3> HIDE DEF H
    <3>5. IsFiniteSet(H) /\ Cardinality(H) \in Nat
      BY <3>4, SlotsFinite, FS_Subset, FS_CardinalityType
    <3>6. Cardinality(H) = 0
      BY <3>2, <3>5
    <3> QED BY <3>3, <3>5, <3>6, FS_EmptySet
  <2>6. CASE Accept(i, m)
    <3> DEFINE t == [state |-> "connected", peer |-> m.peer, challenge |-> m.num, quiet |-> 0,
                     since |-> 0, just |-> TRUE, timeouts |-> 0]
    <3>1. t \in Slot
      BY <1>1, Limits DEF Slot
    <3>2. slots' = [slots EXCEPT ![i] = t] /\ game' = game \union {i}
      BY <2>6 DEF Accept
    <3>3. Live(t) /\ t.peer = m.peer /\ t.quiet = 0 /\ t.timeouts = 0
      BY DEF Live
    <3>4. SlotStep(slots[i], t)
      BY <2>4, <2>5 DEF SlotStep
    <3>5. NoOther(t.peer, i)
      BY <2>4, <3>3 DEF NoOther
    <3> HIDE DEF t
    <3>6. t.quiet <= Timeout + t.timeouts /\ t.timeouts <= TimeoutFrames
      BY <3>3, Limits
    <3>7. i \in game'
      BY <3>2
    <3> QED BY <2>4, <3>1, <3>2, <3>3, <3>4, <3>5, <3>6, <3>7, OneSlotChanges
  <2>7. CASE Refuse(i, m)
    <3> DEFINE t == [FreeSlot EXCEPT !.peer = m.peer, !.challenge = m.num]
    <3>1. t \in Slot
      BY <1>1, FreeSlotType, Zenon DEF Slot
    <3>2. slots' = [slots EXCEPT ![i] = t] /\ game' = game
      BY <2>7 DEF Refuse
    <3>3. t.state = "free" /\ t.peer = m.peer /\ ~t.just
      BY DEF FreeSlot
    <3> HIDE DEF t
    <3>4. SlotStep(slots[i], t)
      BY <2>5, <3>3 DEF SlotStep
    <3>5. ~Live(t)
      BY <3>3 DEF Live
    <3>6. Refused(t)
      BY <1>1, <3>3 DEF Refused
    <3> QED BY <2>4, <3>1, <3>2, <3>3, <3>4, <3>5, <3>6, OneSlotChanges
  <2> QED BY <2>3, <2>6, <2>7
<1> QED BY <1>2, <1>3

\* The slot of the client whose message is accepted, as it is when it is executed.
LEMMA RenewedType ==
  ASSUME NEW s \in Slot
  PROVE  LET t == [s EXCEPT !.quiet = 0, !.just = FALSE]
         IN  /\ t \in Slot /\ t.state = s.state /\ t.peer = s.peer
             /\ t.challenge = s.challenge /\ ~t.just
<1>1. 0 \in 0..QuietCap
  BY Limits
<1>2. [s EXCEPT !.quiet = 0, !.just = FALSE] \in Slot
  BY <1>1, Zenon DEF Slot
<1>3. LET t == [s EXCEPT !.quiet = 0, !.just = FALSE]
      IN  /\ t.state = s.state /\ t.peer = s.peer /\ t.challenge = s.challenge /\ ~t.just
  BY DEF Slot
<1> QED BY <1>2, <1>3

\* A step of a client's connection, with its message executed.
LEMMA AdvanceKeeps ==
  ASSUME SlotsInv, NEW i \in Slots, NEW t \in Slot, slots' = [slots EXCEPT ![i] = t],
         Live(slots[i]), Live(t), ~t.just, t.peer = slots[i].peer,
         t.challenge = slots[i].challenge, game' = game
  PROVE  SlotsKept
<1>1. t.peer # NoPeer => NoOther(t.peer, i)
  BY DEF SlotsInv, OneSlotPerPeer, NoOther, Live
<1>2. i \in game
  BY DEF SlotsInv, GameAgrees
<1>3. SlotStep(slots[i], t)
  BY DEF SlotStep, Heard, Live
<1> QED BY <1>1, <1>2, <1>3, OneSlotChanges

LEMMA ExecuteKeeps ==
  ASSUME SlotsInv, NEW i \in Slots, Live(slots[i]), ~IsBot(slots[i]),
         NEW m, m.current \in BOOLEAN, m.quit \in BOOLEAN, SV_ExecuteClientMessage(i, m)
  PROVE  SlotsKept
<1> DEFINE s == [slots[i] EXCEPT !.quiet = 0, !.just = FALSE]
<1>1. slots[i] \in Slot
  BY DEF SlotsInv
<1>2. /\ s \in Slot /\ s.state = slots[i].state /\ s.peer = slots[i].peer
      /\ s.challenge = slots[i].challenge /\ ~s.just
  BY <1>1, RenewedType
<1>3. SendGameState(i, s) \/ SV_DropClient(i, s) \/ SV_UserMove(i, s)
  BY DEF SV_ExecuteClientMessage
<1> HIDE DEF s
<1>4. Live(s) /\ ~IsBot(s)
  BY <1>2 DEF Live, IsBot
<1>5. ASSUME NEW x \in {"connected", "primed", "active"},
             slots' = [slots EXCEPT ![i] = [s EXCEPT !.state = x]], game' = game
      PROVE  SlotsKept
  <2> DEFINE t == [s EXCEPT !.state = x]
  <2>1. /\ t \in Slot /\ t.state = x /\ t.peer = s.peer /\ t.challenge = s.challenge
        /\ t.just = s.just
    BY <1>2 DEF Slot
  <2> HIDE DEF t
  <2>2. Live(t)
    BY <2>1 DEF Live
  <2> QED BY <1>2, <1>5, <2>1, <2>2, AdvanceKeeps DEF t
<1>6. CASE SendGameState(i, s)
  <2>1. CASE slots' = [slots EXCEPT ![i] = s]
    BY <1>2, <1>4, <1>6, <2>1, AdvanceKeeps DEF SendGameState
  <2>2. CASE slots' = [slots EXCEPT ![i] =
               [s EXCEPT !.state = IF s.state = "connected" THEN "primed" ELSE s.state]]
    BY <1>4, <1>5, <1>6, <2>2 DEF SendGameState, Live
  <2> QED BY <1>6, <2>1, <2>2 DEF SendGameState
<1>7. CASE SV_DropClient(i, s)
  BY <1>2, <1>4, <1>7, DropKeeps DEF Live
<1>8. CASE SV_UserMove(i, s)
  BY <1>4, <1>5, <1>8 DEF SV_UserMove, Live
<1> QED BY <1>3, <1>6, <1>7, <1>8

LEMMA PacketEventKeeps ==
  ASSUME IInv, NEW m \in net, SV_PacketEvent(m)
  PROVE  SlotsKept
<1> SlotsInv
  BY IsSlotsInv
<1>1. m.peer \in Peers /\ m.current \in BOOLEAN /\ m.quit \in BOOLEAN
  BY DEF IInv, TypeOK, Packet, SV_PacketEvent
<1>2. PICK i \in SlotsOf(m.peer) :
        IF slots[i].state = "zombie" THEN ZombieMessage(i) ELSE SV_ExecuteClientMessage(i, m)
  BY DEF SV_PacketEvent
<1>3. i \in Slots /\ slots[i].state # "free" /\ ~IsBot(slots[i])
  BY <1>1, SlotOfPeer
<1>4. CASE slots[i].state = "zombie"
  BY <1>2, <1>4, SlotsUnchanged DEF ZombieMessage
<1>5. CASE slots[i].state # "zombie"
  <2>1. Live(slots[i])
    BY <1>3, <1>5 DEF SlotsInv, Slot, Live
  <2> QED BY <1>1, <1>2, <1>3, <1>5, <2>1, ExecuteKeeps
<1> QED BY <1>4, <1>5

LEMMA KickKeeps ==
  ASSUME SlotsInv, NEW i \in Slots, SV_Kick_f(i)
  PROVE  SlotsKept
<1> DEFINE t == [slots[i] EXCEPT !.quiet = 0]
<1>1. slots[i] \in Slot /\ slots[i].state # "free"
  BY DEF SlotsInv, SV_Kick_f
<1>2. /\ t \in Slot /\ t.state = slots[i].state /\ t.peer = slots[i].peer
      /\ t.challenge = slots[i].challenge
  BY <1>1, Limits DEF Slot
<1> HIDE DEF t
<1>3. CASE slots[i].state = "zombie"
  <2>1. slots' = [slots EXCEPT ![i] = t] /\ game' = game
    BY <1>3 DEF SV_Kick_f, t
  <2>2. ~Live(t) /\ SlotStep(slots[i], t)
    BY <1>2, <1>3 DEF Live, SlotStep, Heard
  <2>3. i \notin game
    BY <1>3 DEF SlotsInv, GameAgrees, Live, Refused
  <2>4. t.peer # NoPeer => NoOther(t.peer, i)
    BY <1>2, <1>3 DEF SlotsInv, OneSlotPerPeer, NoOther
  <2> QED BY <1>2, <2>1, <2>2, <2>3, <2>4, OneSlotChanges
<1>4. CASE slots[i].state # "zombie"
  <2>1. SV_DropClient(i, t)
    BY <1>4 DEF SV_Kick_f, t
  <2>2. IsBot(t) <=> IsBot(slots[i])
    BY <1>2 DEF IsBot
  <2> QED BY <1>1, <1>2, <2>1, <2>2, DropKeeps
<1> QED BY <1>3, <1>4

LEMMA GameDropKeeps ==
  ASSUME SlotsInv, NEW i \in Slots, SV_GameDropClient(i)
  PROVE  SlotsKept
<1>1. slots[i] \in Slot /\ slots[i].state # "free"
  BY DEF SlotsInv, SV_GameDropClient, Live
<1> QED BY <1>1, DropKeeps DEF SV_GameDropClient

\* A step that changes many slots, each by itself: no slot gets another machine.
LEMMA SlotsChange ==
  ASSUME SlotsInv, slots' \in [Slots -> Slot], game' \subseteq Slots,
         \A i \in Slots :
           /\ slots'[i].state # "free" =>
                slots[i].state # "free" /\ slots'[i].peer \in {slots[i].peer, NoPeer}
           /\ Live(slots'[i]) => i \in game'
           /\ i \in game' => Live(slots'[i]) \/ Refused(slots'[i])
           /\ Live(slots'[i]) /\ slots'[i].just =>
                slots'[i].quiet <= Timeout + slots'[i].timeouts
                  /\ slots'[i].timeouts <= TimeoutFrames
           /\ SlotStep(slots[i], slots'[i])
  PROVE  SlotsKept
<1>1. OneSlotPerPeer'
  BY DEF SlotsInv, OneSlotPerPeer
<1>2. GameAgrees'
  BY DEF GameAgrees
<1>3. SilenceCounted'
  BY DEF SilenceCounted
<1> QED BY <1>1, <1>2, <1>3 DEF SlotsKept, SlotsInv

LEMMA SpawnServerKeeps ==
  ASSUME SlotsInv, SV_SpawnServer
  PROVE  SlotsKept
<1> DEFINE bots    == {i \in Slots : IsBot(slots[i])}
           clients == {i \in Slots : Live(slots[i])} \ bots
<1>1. PICK killed \in {{}, bots}, denied \in SUBSET clients :
        /\ slots' = [i \in Slots |->
             IF i \in killed \union denied THEN Dropped(slots[i])
             ELSE IF i \in clients THEN [slots[i] EXCEPT !.state = "connected"]
             ELSE slots[i]]
        /\ game' = (clients \ denied) \union (bots \ killed)
  BY DEF SV_SpawnServer
<1>2. game' \subseteq Slots
  BY <1>1
<1>3. ASSUME NEW i \in Slots
      PROVE  /\ slots'[i] \in Slot
             /\ slots'[i].state # "free" =>
                  slots[i].state # "free" /\ slots'[i].peer \in {slots[i].peer, NoPeer}
             /\ Live(slots'[i]) => i \in game'
             /\ i \in game' => Live(slots'[i]) \/ Refused(slots'[i])
             /\ Live(slots'[i]) /\ slots'[i].just =>
                  slots'[i].quiet <= Timeout + slots'[i].timeouts
                    /\ slots'[i].timeouts <= TimeoutFrames
             /\ SlotStep(slots[i], slots'[i])
  <2>1. slots[i] \in Slot
    BY DEF SlotsInv
  <2>2. CASE i \in killed \union denied
    <3>1. slots'[i] = Dropped(slots[i]) /\ Live(slots[i]) /\ i \notin game'
      BY <1>1, <2>2 DEF IsBot, Live
    <3>2. /\ Dropped(slots[i]) \in Slot /\ Dropped(slots[i]).state \in {"free", "zombie"}
          /\ Dropped(slots[i]).peer \in {slots[i].peer, NoPeer}
          /\ ~IsBot(slots[i]) => Dropped(slots[i]).state = "zombie"
      BY <2>1, DroppedType
    <3>3. ~Live(slots'[i])
      BY <3>1, <3>2 DEF Live
    <3>4. SlotStep(slots[i], slots'[i])
      BY <3>1, <3>2 DEF SlotStep, Live
    <3> QED BY <3>1, <3>2, <3>3, <3>4 DEF Live
  <2>3. CASE i \in clients /\ i \notin killed \union denied
    <3> DEFINE t == [slots[i] EXCEPT !.state = "connected"]
    <3>1. slots'[i] = t /\ i \in game' /\ Live(slots[i]) /\ ~IsBot(slots[i])
      BY <1>1, <2>3
    <3>2. /\ t \in Slot /\ t.state = "connected" /\ t.peer = slots[i].peer
          /\ t.challenge = slots[i].challenge /\ t.quiet = slots[i].quiet
          /\ t.just = slots[i].just /\ t.timeouts = slots[i].timeouts
      BY <2>1 DEF Slot
    <3> HIDE DEF t
    <3>3. Live(t) /\ SlotStep(slots[i], t)
      BY <3>1, <3>2 DEF Live, SlotStep, Heard
    <3>4. t.just => t.quiet <= Timeout + t.timeouts /\ t.timeouts <= TimeoutFrames
      BY <3>1, <3>2 DEF SlotsInv, SilenceCounted
    <3> HIDE DEF clients, bots
    <3> QED BY <3>1, <3>2, <3>3, <3>4 DEF Live
  <2>4. CASE i \notin clients /\ i \notin killed \union denied
    <3>1. slots'[i] = slots[i]
      BY <1>1, <2>4
    <3>2. i \in game' <=> i \in bots
      BY <1>1, <2>4
    <3>3. Live(slots[i]) <=> i \in bots
      BY <2>4 DEF IsBot, Live
    <3>4. Live(slots[i]) /\ slots[i].just =>
            slots[i].quiet <= Timeout + slots[i].timeouts /\ slots[i].timeouts <= TimeoutFrames
      BY DEF SlotsInv, SilenceCounted
    <3>5. SlotStep(slots[i], slots[i])
      BY DEF SlotStep
    <3> HIDE DEF clients, bots
    <3> QED BY <2>1, <3>1, <3>2, <3>3, <3>4, <3>5
  <2> QED BY <2>2, <2>3, <2>4
<1>4. slots' \in [Slots -> Slot]
  <2>1. slots' = [i \in Slots |-> slots'[i]]
    BY <1>1
  <2> QED BY <1>3, <2>1
<1> QED BY <1>2, <1>3, <1>4, SlotsChange

\* One frame of the server: a slot is set free or keeps what it had.
LEMMA FrameKeeps ==
  ASSUME SlotsInv, NEW i \in Slots, slots'[i] = Checked(Aged(slots[i])),
         i \in game' <=> i \in game /\ ~(TimedOut(Aged(slots[i])) /\ slots[i].state # "zombie")
  PROVE  /\ slots'[i] \in Slot
         /\ slots'[i].state # "free" =>
              slots[i].state # "free" /\ slots'[i].peer \in {slots[i].peer, NoPeer}
         /\ Live(slots'[i]) => i \in game'
         /\ i \in game' => Live(slots'[i]) \/ Refused(slots'[i])
         /\ Live(slots'[i]) /\ slots'[i].just =>
              slots'[i].quiet <= Timeout + slots'[i].timeouts
                /\ slots'[i].timeouts <= TimeoutFrames
         /\ SlotStep(slots[i], slots'[i])
<1> DEFINE s == slots[i]
           a == Aged(s)
           t == Checked(a)
<1>1. /\ s \in Slot
      /\ Live(s) => i \in game
      /\ i \in game => Live(s) \/ Refused(s)
      /\ Live(s) /\ s.just => s.quiet <= Timeout + s.timeouts /\ s.timeouts <= TimeoutFrames
  BY DEF SlotsInv, GameAgrees, SilenceCounted
<1>2. /\ a \in Slot /\ a.state = s.state /\ a.peer = s.peer /\ a.just = s.just
      /\ a.challenge = s.challenge /\ a.timeouts = s.timeouts /\ a.quiet <= s.quiet + 1
  BY <1>1, AgedType
<1> HIDE DEF s, a
<1>3. /\ t \in Slot /\ t.state \in {"free", a.state} /\ t.peer \in {a.peer, NoPeer}
      /\ t.state # "free" => t.peer = a.peer /\ t.challenge = a.challenge
      /\ ~ZombieOver(a) /\ ~TimedOut(a) => t.state = a.state
      /\ ~ZombieOver(a) => t.peer = a.peer /\ t.just = a.just /\ t.quiet = a.quiet
      /\ TimedOut(a) => t.state = "free"
      /\ Silent(a) /\ ~TimedOut(a) => t.timeouts = a.timeouts + 1
  BY <1>2, CheckedType
<1> HIDE DEF t
<1>4. slots'[i] = t /\ (i \in game' <=> i \in game /\ ~(TimedOut(a) /\ s.state # "zombie"))
  BY DEF t, a, s
<1>5. TimedOut(a) => Silent(a) /\ ~ZombieOver(a) /\ a.just
  BY DEF TimedOut, Silent
<1>6. Live(t) => i \in game'
  BY <1>1, <1>2, <1>3, <1>4, <1>5 DEF Live, ZombieOver, TimedOut
<1>7. i \in game' => Live(t) \/ Refused(t)
  <2>1. SUFFICES ASSUME i \in game' PROVE Live(t) \/ Refused(t)
    OBVIOUS
  <2>2. i \in game /\ (Live(s) \/ Refused(s)) /\ s.state # "zombie" /\ ~TimedOut(a)
    BY <1>1, <1>4, <2>1 DEF Live, Refused
  <2>3. ~ZombieOver(a)
    BY <1>2, <2>2 DEF ZombieOver
  <2> QED BY <1>2, <1>3, <2>2, <2>3 DEF Live, Refused
<1>8. Live(t) /\ t.just => t.quiet <= Timeout + t.timeouts /\ t.timeouts <= TimeoutFrames
  <2>1. SUFFICES ASSUME Live(t), t.just
                 PROVE  t.quiet <= Timeout + t.timeouts /\ t.timeouts <= TimeoutFrames
    OBVIOUS
  <2>2. Live(s) /\ ~ZombieOver(a) /\ t.state # "free" /\ t.quiet = a.quiet /\ a.just /\ s.just
    BY <1>2, <1>3, <2>1 DEF Live, ZombieOver
  <2>3. /\ s.quiet <= Timeout + s.timeouts /\ s.timeouts <= TimeoutFrames
        /\ s.quiet \in Nat /\ s.timeouts \in Nat /\ t.timeouts \in Nat /\ a.quiet \in Nat
        /\ t.timeouts \in 0..(TimeoutFrames + 1)
    BY <1>1, <1>2, <1>3, <2>2, Limits DEF Slot
  <2>4. CASE Silent(a)
    <3>1. ~TimedOut(a)
      BY <1>3, <2>2
    <3>2. t.timeouts = a.timeouts + 1 /\ a.timeouts < TimeoutFrames
      BY <1>2, <1>3, <2>3, <2>4, <3>1, Limits DEF TimedOut
    <3> QED BY <1>2, <2>2, <2>3, <3>2, Limits
  <2>5. CASE ~Silent(a)
    <3>1. a.quiet <= Timeout
      BY <2>2, <2>3, <2>5, Limits DEF Silent
    <3>2. t.timeouts = 0
      BY <1>2, <2>2, <2>5 DEF t, Checked, TimedOut, Slot
    <3> QED BY <2>2, <3>1, <3>2, Limits
  <2> QED BY <2>4, <2>5
<1>9. SlotStep(s, t)
  <2>1. s.state = "zombie" => t.peer = s.peer \/ t.state = "free"
    BY <1>2, <1>3
  <2>2. ASSUME Heard(s) PROVE Heard(t) /\ t.challenge = s.challenge
    <3>1. Live(s) /\ ~s.just
      BY <2>2 DEF Heard
    <3>2. ~ZombieOver(a) /\ ~TimedOut(a)
      BY <1>2, <1>5, <3>1 DEF Live, ZombieOver
    <3>3. t.state = s.state /\ t.just = s.just /\ t.state # "free"
      BY <1>2, <1>3, <3>1, <3>2 DEF Live
    <3> QED BY <1>2, <1>3, <3>1, <3>3 DEF Heard, Live
  <2> QED BY <2>1, <2>2 DEF SlotStep
<1>10. t.state # "free" => s.state # "free" /\ t.peer \in {s.peer, NoPeer}
  BY <1>2, <1>3
<1> QED BY <1>3, <1>4, <1>6, <1>7, <1>8, <1>9, <1>10 DEF s

LEMMA CheckTimeoutsKeeps ==
  ASSUME SlotsInv, SV_CheckTimeouts
  PROVE  SlotsKept
<1> DEFINE dropped == {i \in Slots : TimedOut(Aged(slots[i])) /\ slots[i].state # "zombie"}
<1>1. slots' = [i \in Slots |-> Checked(Aged(slots[i]))] /\ game' = game \ dropped
  BY DEF SV_CheckTimeouts
<1>2. game' \subseteq Slots
  BY <1>1 DEF SlotsInv
<1>3. \A i \in Slots :
        /\ slots'[i] = Checked(Aged(slots[i]))
        /\ i \in game' <=> i \in game /\ ~(TimedOut(Aged(slots[i])) /\ slots[i].state # "zombie")
  BY <1>1
<1> HIDE DEF dropped
<1>4. \A i \in Slots :
         /\ slots'[i] \in Slot
         /\ slots'[i].state # "free" =>
              slots[i].state # "free" /\ slots'[i].peer \in {slots[i].peer, NoPeer}
         /\ Live(slots'[i]) => i \in game'
         /\ i \in game' => Live(slots'[i]) \/ Refused(slots'[i])
         /\ Live(slots'[i]) /\ slots'[i].just =>
              slots'[i].quiet <= Timeout + slots'[i].timeouts
                /\ slots'[i].timeouts <= TimeoutFrames
         /\ SlotStep(slots[i], slots'[i])
  BY <1>3, FrameKeeps
<1>5. slots' \in [Slots -> Slot]
  <2>1. slots' = [i \in Slots |-> slots'[i]]
    BY <1>1
  <2> QED BY <1>4, <2>1
<1> QED BY <1>2, <1>4, <1>5, SlotsChange

-----------------------------------------------------------------------------
(* The rest of the state keeps its type.                                      *)

RestType ==
  /\ challenges \in [Entries -> Challenge] /\ peers \in [Peers -> Peer] /\ net \subseteq Packet
  /\ issued \in 0..MaxIssued /\ kicks \in 0..MaxKicks

LEMMA SendType ==
  ASSUME IInv, NEW m \in Packet, Send(m)
  PROVE  net' \subseteq Packet
BY DEF IInv, TypeOK, Send

LEMMA MessageType ==
  ASSUME IInv, NEW p \in Peers, NEW quit \in BOOLEAN, SendMessage(p, quit)
  PROVE  net' \subseteq Packet
<1> DEFINE m == [type |-> "message", peer |-> p, num |-> peers[p].challenge,
                 current |-> peers[p].state = "primed", quit |-> quit]
<1>1. peers[p].challenge \in Nat
  BY DEF IInv, TypeOK, Peer
<1>2. m \in Packet
  BY <1>1 DEF Packet
<1> HIDE DEF m
<1>3. net' = {k \in net : ~(k.type = "message" /\ k.peer = p)} \union {m}
  BY DEF SendMessage, m
<1> QED BY <1>2, <1>3 DEF IInv, TypeOK

\* A packet of each handler's type has the fields the handler reads.
LEMMA PacketFields ==
  ASSUME NEW m \in Packet
  PROVE  /\ m.peer \in Peers
         /\ m.type = "getchallenge" => m.nonce \in Nat
         /\ m.type = "challengeResponse" => m.nonce \in Nat /\ m.num \in Nat
         /\ m.type \in {"connect", "connectResponse", "message"} => m.num \in Nat
         /\ m.type = "message" => [m EXCEPT !.current = FALSE] \in Packet
<1>1. CASE m \in [type : {"getchallenge"}, peer : Peers, nonce : Nat]
  BY <1>1
<1>2. CASE m \in [type : {"challengeResponse"}, peer : Peers, nonce : Nat, num : Nat]
  BY <1>2
<1>3. CASE m \in [type : {"connect", "connectResponse"}, peer : Peers, num : Nat]
  BY <1>3
<1>4. CASE m \in [type : {"message"}, peer : Peers, num : Nat, current : BOOLEAN, quit : BOOLEAN]
  <2>1. [m EXCEPT !.current = FALSE]
          \in [type : {"message"}, peer : Peers, num : Nat, current : BOOLEAN, quit : BOOLEAN]
    BY <1>4
  <2> QED BY <1>4, <2>1 DEF Packet
<1> QED BY <1>1, <1>2, <1>3, <1>4 DEF Packet

LEMMA GetChallengeType == ASSUME IInv, NEW m \in net, SV_GetChallenge(m) PROVE RestType'
<1>1. m \in Packet /\ m.peer \in Peers /\ m.nonce \in Nat
  BY PacketFields DEF IInv, TypeOK, SV_GetChallenge
<1>2. issued' \in 0..MaxIssued /\ issued' \in Nat
  BY Limits DEF IInv, TypeOK, SV_GetChallenge
<1> DEFINE c == [peer |-> m.peer, num |-> issued', connected |-> FALSE]
           r == [type |-> "challengeResponse", peer |-> m.peer, nonce |-> m.nonce,
                 num |-> issued']
<1>3. c \in Challenge /\ r \in Packet
  BY <1>1, <1>2 DEF Challenge, Packet
<1> HIDE DEF c, r
<1>4. challenges' = [challenges EXCEPT ![OldestEntry(m.peer)] = c] /\ Send(r)
  BY DEF SV_GetChallenge, c, r
<1>5. challenges' \in [Entries -> Challenge]
  BY <1>3, <1>4 DEF IInv, TypeOK
<1>6. net' \subseteq Packet
  BY <1>3, <1>4, SendType
<1> QED BY <1>2, <1>5, <1>6 DEF RestType, SV_GetChallenge, IInv, TypeOK

LEMMA DirectConnectType == ASSUME IInv, NEW m \in net, SV_DirectConnect(m) PROVE RestType'
<1>1. m \in Packet /\ m.peer \in Peers /\ m.num \in Nat
  BY PacketFields DEF IInv, TypeOK, SV_DirectConnect
<1>2. \A c \in Challenge : [c EXCEPT !.connected = TRUE] \in Challenge
  BY DEF Challenge
<1>3. challenges' \in [Entries -> Challenge]
  BY <1>2 DEF SV_DirectConnect, IInv, TypeOK
<1> DEFINE r == [type |-> "connectResponse", peer |-> m.peer, num |-> m.num]
<1>4. r \in Packet
  BY <1>1 DEF Packet
<1> HIDE DEF r
<1>5. UNCHANGED net \/ Send(r)
  BY DEF SV_DirectConnect, Accept, Refuse, r
<1>6. net' \subseteq Packet
  BY <1>4, <1>5, SendType DEF IInv, TypeOK
<1> QED BY <1>3, <1>6 DEF RestType, SV_DirectConnect, IInv, TypeOK

LEMMA ChallengesCleared ==
  ASSUME IInv, NEW i, NEW s, SV_DropClient(i, s)
  PROVE  challenges' \in [Entries -> Challenge]
BY ClearedType DEF SV_DropClient, IInv, TypeOK

LEMMA PacketEventType == ASSUME IInv, NEW m \in net, SV_PacketEvent(m) PROVE RestType'
<1>1. challenges' \in [Entries -> Challenge]
  <2>1. PICK i \in Slots :
          IF slots[i].state = "zombie" THEN ZombieMessage(i) ELSE SV_ExecuteClientMessage(i, m)
    BY DEF SV_PacketEvent, SlotsOf
  <2>2. challenges' = challenges \/ \E s : SV_DropClient(i, s)
    BY <2>1 DEF ZombieMessage, SV_ExecuteClientMessage, SendGameState, SV_UserMove
  <2> QED BY <2>2, ChallengesCleared DEF IInv, TypeOK
<1> QED BY <1>1 DEF RestType, SV_PacketEvent, IInv, TypeOK

LEMMA KickType ==
  ASSUME IInv, NEW i \in Slots, SV_Kick_f(i) \/ SV_GameDropClient(i)
  PROVE  RestType'
<1>1. challenges' = challenges \/ \E s : SV_DropClient(i, s)
  BY DEF SV_Kick_f, SV_GameDropClient
<1>2. challenges' \in [Entries -> Challenge]
  BY <1>1, ChallengesCleared DEF IInv, TypeOK
<1>3. kicks' \in 0..MaxKicks
  BY Limits DEF SV_Kick_f, SV_GameDropClient, IInv, TypeOK
<1> QED BY <1>2, <1>3 DEF RestType, SV_Kick_f, SV_GameDropClient, IInv, TypeOK

LEMMA SpawnServerType == ASSUME IInv, SV_SpawnServer PROVE RestType'
<1>1. challenges' \in [Entries -> Challenge]
  <2>1. \E D : challenges' = ClearedFor(D)
    BY DEF SV_SpawnServer
  <2> QED BY <2>1, ClearedType DEF IInv, TypeOK
<1>2. net' \subseteq Packet
  <2>1. \A m \in net :
          (IF m.type = "message" THEN [m EXCEPT !.current = FALSE] ELSE m) \in Packet
    BY PacketFields DEF IInv, TypeOK
  <2>2. net' = {IF m.type = "message" THEN [m EXCEPT !.current = FALSE] ELSE m : m \in net}
    BY DEF SV_SpawnServer
  <2> QED BY <2>1, <2>2
<1>3. \A c \in Peer : [c EXCEPT !.state = "connected"] \in Peer
  BY DEF Peer
<1>4. peers' \in [Peers -> Peer]
  BY <1>3 DEF SV_SpawnServer, IInv, TypeOK
<1>5. kicks' \in 0..MaxKicks
  BY Limits DEF SV_SpawnServer, IInv, TypeOK
<1> QED BY <1>1, <1>2, <1>4, <1>5 DEF RestType, SV_SpawnServer, IInv, TypeOK

LEMMA CheckTimeoutsType == ASSUME IInv, SV_CheckTimeouts PROVE RestType'
<1>1. \E D : challenges' = ClearedFor(D)
  BY DEF SV_CheckTimeouts
<1> QED BY <1>1, ClearedType DEF RestType, SV_CheckTimeouts, IInv, TypeOK

\* The steps of the clients.
LEMMA ClientType ==
  ASSUME IInv,
         \/ \E m \in net : CL_ChallengeResponse(m) \/ CL_ConnectResponse(m)
         \/ \E p \in Peers :
              \/ CL_Connect_f(p) \/ CL_CheckForResend(p) \/ CL_ParseGamestate(p)
              \/ CL_WritePacket(p) \/ CL_Disconnect(p)
  PROVE  RestType' /\ UNCHANGED <<slots, game>>
<1>1. UNCHANGED serverVars
  BY DEF CL_ChallengeResponse, CL_ConnectResponse, CL_Connect_f, CL_CheckForResend,
         CL_ParseGamestate, CL_WritePacket, CL_Disconnect
<1>2. peers' \in [Peers -> Peer] /\ net' \subseteq Packet
  <2>0. peers \in [Peers -> Peer] /\ net \subseteq Packet
    BY DEF IInv, TypeOK
  <2>1. ASSUME NEW m \in net, CL_ChallengeResponse(m)
        PROVE  peers' \in [Peers -> Peer] /\ net' \subseteq Packet
    <3>1. m.peer \in Peers /\ m.num \in Nat
      BY <2>0, <2>1, PacketFields DEF CL_ChallengeResponse
    <3>2. peers' = [peers EXCEPT ![m.peer].state = "challenging", ![m.peer].challenge = m.num]
      BY <2>1 DEF CL_ChallengeResponse
    <3> QED BY <2>0, <2>1, <3>1, <3>2 DEF Peer, CL_ChallengeResponse
  <2>2. ASSUME NEW m \in net, CL_ConnectResponse(m)
        PROVE  peers' \in [Peers -> Peer] /\ net' \subseteq Packet
    BY <2>0, <2>2 DEF Peer, CL_ConnectResponse
  <2>3. ASSUME NEW p \in Peers, CL_Connect_f(p)
        PROVE  peers' \in [Peers -> Peer] /\ net' \subseteq Packet
    BY <2>0, <2>3 DEF Peer, CL_Connect_f
  <2>4. ASSUME NEW p \in Peers, CL_CheckForResend(p)
        PROVE  peers' \in [Peers -> Peer] /\ net' \subseteq Packet
    <3> DEFINE g == [type |-> "getchallenge", peer |-> p, nonce |-> peers[p].challenge]
               c == [type |-> "connect", peer |-> p, num |-> peers[p].challenge]
    <3>1. g \in Packet /\ c \in Packet
      BY <2>0 DEF Packet, Peer
    <3> HIDE DEF g, c
    <3>2. Send(g) \/ Send(c)
      BY <2>4 DEF CL_CheckForResend, g, c
    <3>3. net' \subseteq Packet
      BY <3>1, <3>2, SendType
    <3> QED BY <2>0, <2>4, <3>3 DEF CL_CheckForResend, serverVars
  <2>5. ASSUME NEW p \in Peers, CL_ParseGamestate(p)
        PROVE  peers' \in [Peers -> Peer] /\ net' \subseteq Packet
    BY <2>0, <2>5 DEF Peer, CL_ParseGamestate
  <2>6. ASSUME NEW p \in Peers, CL_WritePacket(p)
        PROVE  peers' \in [Peers -> Peer] /\ net' \subseteq Packet
    BY <2>0, <2>6, MessageType DEF CL_WritePacket
  <2>7. ASSUME NEW p \in Peers, CL_Disconnect(p)
        PROVE  peers' \in [Peers -> Peer] /\ net' \subseteq Packet
    <3>1. net' \subseteq Packet
      BY <2>0, <2>7, MessageType DEF CL_Disconnect
    <3>2. peers' \in [Peers -> Peer]
      BY <2>0, <2>7 DEF Peer, CL_Disconnect
    <3> QED BY <3>1, <3>2
  <2> QED BY <2>1, <2>2, <2>3, <2>4, <2>5, <2>6, <2>7
<1> QED BY <1>1, <1>2 DEF RestType, serverVars, IInv, TypeOK

-----------------------------------------------------------------------------
(* The theorems.                                                              *)

LEMMA InitInv == Init => IInv
<1> SUFFICES ASSUME Init PROVE IInv
  OBVIOUS
<1>1. \A i \in Slots :
        /\ slots[i].peer = NoPeer /\ ~slots[i].just
        /\ slots[i].state = IF i \in game THEN "active" ELSE "free"
  BY DEF Init, BotSlot, FreeSlot
<1>2. slots \in [Slots -> Slot] /\ game \subseteq Slots
  BY FreeSlotType DEF Init
<1>3. TypeOK
  <2>1. challenges \in [Entries -> Challenge]
    BY DEF Init, Challenge, NoChallenge
  <2>2. peers \in [Peers -> Peer]
    BY DEF Init, Peer
  <2> QED BY <1>2, <2>1, <2>2, Limits DEF TypeOK, Init
<1>4. OneSlotPerPeer
  BY <1>1 DEF OneSlotPerPeer
<1>5. GameAgrees
  BY <1>1 DEF GameAgrees, Live
<1>6. SilenceCounted
  BY <1>1 DEF SilenceCounted
<1> QED BY <1>3, <1>4, <1>5, <1>6 DEF IInv

\* A step of the specification keeps the invariant and takes a slot from no zombie
\* and no playing client.
LEMMA NextInv == ASSUME IInv, [Next]_vars PROVE IInv' /\ SlotsKept
<1> SlotsInv
  BY IsSlotsInv
<1>1. ASSUME NEW m \in net, SV_GetChallenge(m) PROVE RestType' /\ SlotsKept
  BY <1>1, GetChallengeType, SlotsUnchanged DEF SV_GetChallenge
<1>2. ASSUME NEW m \in net, SV_DirectConnect(m) PROVE RestType' /\ SlotsKept
  BY <1>2, DirectConnectType, DirectConnectKeeps
<1>3. ASSUME NEW m \in net, SV_PacketEvent(m) PROVE RestType' /\ SlotsKept
  BY <1>3, PacketEventType, PacketEventKeeps
<1>4. ASSUME NEW i \in Slots, SV_Kick_f(i) PROVE RestType' /\ SlotsKept
  BY <1>4, KickType, KickKeeps
<1>5. ASSUME NEW i \in Slots, SV_GameDropClient(i) PROVE RestType' /\ SlotsKept
  BY <1>5, KickType, GameDropKeeps
<1>6. ASSUME SV_CheckTimeouts PROVE RestType' /\ SlotsKept
  BY <1>6, CheckTimeoutsType, CheckTimeoutsKeeps
<1>7. ASSUME SV_SpawnServer PROVE RestType' /\ SlotsKept
  BY <1>7, SpawnServerType, SpawnServerKeeps
<1>8. ASSUME \/ \E m \in net : CL_ChallengeResponse(m) \/ CL_ConnectResponse(m)
             \/ \E p \in Peers :
                  \/ CL_Connect_f(p) \/ CL_CheckForResend(p) \/ CL_ParseGamestate(p)
                  \/ CL_WritePacket(p) \/ CL_Disconnect(p)
      PROVE  RestType' /\ SlotsKept
  BY <1>8, ClientType, SlotsUnchanged
<1>9. ASSUME UNCHANGED vars PROVE RestType' /\ SlotsKept
  BY <1>9, SlotsUnchanged DEF vars, serverVars, RestType, IInv, TypeOK
<1>10. RestType' /\ SlotsKept
  BY <1>1, <1>2, <1>3, <1>4, <1>5, <1>6, <1>7, <1>8, <1>9 DEF Next
<1>11. IInv'
  BY <1>10 DEF RestType, SlotsKept, SlotsInv, IInv, TypeOK
<1> QED BY <1>10, <1>11

LEMMA InvAlways == Spec => []IInv
<1>1. IInv /\ [Next]_vars => IInv'
  BY NextInv
<1> QED BY InitInv, <1>1, PTL DEF Spec

\* The server's tables keep their type for every number of clients, slots and
\* challenges; in particular timeoutCount never passes its bound (SV_CheckTimeouts).
THEOREM TypeCorrect == Spec => []TypeOK
<1>1. IInv => TypeOK
  BY DEF IInv
<1> QED BY InvAlways, <1>1, PTL

\* No machine ever holds two slots (SV_DirectConnect, SV_PacketEvent).
THEOREM SlotsAreUnique == Spec => []OneSlotPerPeer
<1>1. IInv => OneSlotPerPeer
  BY DEF IInv
<1> QED BY InvAlways, <1>1, PTL

\* The game has the clients the server has, through connections, refusals, drops,
\* timeouts and new maps (ClientConnect, ClientDisconnect).
THEOREM GameFollowsServer == Spec => []GameAgrees
<1>1. IInv => GameAgrees
  BY DEF IInv
<1> QED BY InvAlways, <1>1, PTL

\* A client never heard is dropped within TimeoutFrames of sv_timeout.
THEOREM UnheardAreDropped == Spec => []UnheardIsDropped
<1>1. IInv => UnheardIsDropped
  <2> SUFFICES ASSUME IInv, NEW i \in Slots, Live(slots[i]), slots[i].just
               PROVE  slots[i].quiet <= Timeout + TimeoutFrames
    BY DEF UnheardIsDropped
  <2>1. slots[i].quiet <= Timeout + slots[i].timeouts /\ slots[i].timeouts <= TimeoutFrames
    BY DEF IInv, SilenceCounted
  <2>2. slots[i].quiet \in Nat /\ slots[i].timeouts \in Nat
    BY Limits DEF IInv, TypeOK, Slot
  <2> QED BY <2>1, <2>2, Limits
<1> QED BY InvAlways, <1>1, PTL

\* The slot of a zombie goes to no other machine (SV_DirectConnect).
THEOREM ZombiesAreKept == Spec => ZombieKept
<1>1. IInv /\ [Next]_vars =>
        [\A i \in Slots : slots[i].state = "zombie" =>
           slots'[i].peer = slots[i].peer \/ slots'[i].state = "free"]_vars
  BY NextInv DEF SlotsKept, SlotStep
<1> QED BY InvAlways, <1>1, PTL DEF Spec, ZombieKept

\* With sv_maxconcurrent at its default, 1, no connect packet takes a client that
\* plays out of the game (SV_DirectConnect).
THEOREM PlayersAreNotReset == ASSUME MaxConcurrent = 1 PROVE Spec => PlayingNotReset
<1>1. IInv /\ [Next]_vars =>
        [\A i \in Slots : Heard(slots[i]) /\ ~IsBot(slots[i]) =>
           slots'[i].state = "zombie"
             \/ (Heard(slots'[i]) /\ slots'[i].challenge = slots[i].challenge)]_vars
  BY NextInv DEF SlotsKept, SlotStep
<1> QED BY InvAlways, <1>1, PTL DEF Spec, PlayingNotReset
=============================================================================
