---------------------------- MODULE ReliableProofs ----------------------------
(* Proofs about ReliableCommands: for rings of every size and whatever is lost, *)
(* the commands arrive in order in both directions, no message under way skips  *)
(* one, and the game is told once that a client is gone.                        *)
EXTENDS ReliableCommands, TLAPS, SequenceTheorems, WellFoundedInduction

-----------------------------------------------------------------------------
(* The invariant.                                                             *)

\* The functions over successive numbers, which the messages carry.
Numbered == UNION {[(lo + 1)..hi -> Nat] : lo \in Nat, hi \in Nat}
Snapshots == [ack : Nat, cmds : Numbered]
Packets == [ack : Nat, key : Nat, cmds : Numbered]

\* The ring has the last Max commands, each in the slot of its number; at the
\* start slot 0 has number 0.
Ring(cmds, seq) == \A i \in 0..seq : seq - i < Max => cmds[i % Max] = i

\* The commands of a message go from one that its receiver has, or the next, to
\* one that its sender has added.
Joins(cmds, has, added) ==
  \E lo \in 0..has, hi \in 0..added : cmds \in [(lo + 1)..hi -> Nat]

\* Every command is the one of its number.
Exact(cmds) == \A n \in DOMAIN cmds : cmds[n] = n

\* Later messages acknowledge as much or more.
Ordered(channel) == \A i, k \in 1..Len(channel) : i <= k => channel[i].ack <= channel[k].ack

ToClient(m) ==
  /\ m.ack \in cl.ack..sv.last
  /\ Joins(m.cmds, cl.got, sv.seq)
  /\ ~Overrun(sv) => Exact(m.cmds)

ToServer(m) ==
  /\ m.ack \in sv.ack..cl.got
  /\ Joins(m.cmds, sv.last, cl.seq)
  /\ ~Overrun(cl) => Exact(m.cmds)
  /\ ~Overrun(sv) => m.key = m.ack

Typed == TypeOK /\ toClient \in Seq(Snapshots) /\ toServer \in Seq(Packets)

Inbound == Ordered(toClient) /\ \A i \in 1..Len(toClient) : ToClient(toClient[i])
Outbound == Ordered(toServer) /\ \A i \in 1..Len(toServer) : ToServer(toServer[i])

\* A side that is in the game has room for what it has added.
Rings ==
  /\ sv.state = "active" => sv.seq - sv.ack <= Max
  /\ ~Overrun(sv) => Ring(sv.cmds, sv.seq) /\ Ring(cl.gotCmds, cl.got)
  /\ cl.state = "active" => cl.seq - cl.ack <= Max
  /\ ~Overrun(cl) => Ring(cl.cmds, cl.seq)

\* What is acknowledged was received, what was received was sent.
Counts ==
  /\ sv.ack <= cl.got /\ cl.got <= sv.seq
  /\ cl.ack <= sv.last /\ sv.last <= cl.seq
  /\ cl.ran <= cl.got /\ \A n \in cl.snaps : n <= cl.got

InOrder(done) == \A i \in 1..Len(done) : done[i] = i

Executed ==
  /\ sv.state = "active" => Len(svDone) = sv.last
  /\ ~Overrun(cl) => InOrder(svDone)
  /\ cl.state = "active" => Len(clDone) = cl.ran
  /\ ~Overrun(sv) => InOrder(clDone)

IInv == Typed /\ Inbound /\ Outbound /\ Rings /\ Counts /\ Executed /\ KeysAgreeWithRoom /\ GameTold

-----------------------------------------------------------------------------
(* Rings.                                                                     *)

LEMMA Limits ==
  Max \in Nat /\ Max > 1 /\ MaxServer \in Nat /\ MaxClient \in Nat /\ MaxInFlight \in Nat
BY ReliableAssumption

\* Different numbers less than a ring apart have different slots.
LEMMA Multiple ==
  ASSUME NEW q \in Int
  PROVE  q * Max <= 0 \/ q * Max >= Max
<1>1. CASE q <= 0
  BY <1>1, Limits, SMTT(20)
<1>2. CASE q >= 1
  BY <1>2, Limits, SMTT(20)
<1> QED BY <1>1, <1>2

LEMMA OwnSlot ==
  ASSUME NEW i \in Nat, NEW k \in Nat, i < k, k - i < Max
  PROVE  i % Max # k % Max
<1>1. i = Max * (i \div Max) + (i % Max) /\ i \div Max \in Int /\ i % Max \in 0..(Max - 1)
  BY Limits
<1>2. k = Max * (k \div Max) + (k % Max) /\ k \div Max \in Int /\ k % Max \in 0..(Max - 1)
  BY Limits
<1>3. ASSUME i % Max = k % Max PROVE FALSE
  <2> DEFINE a == i \div Max
             b == k \div Max
             r == i % Max
  <2>1. i = Max * a + r /\ k = Max * b + r /\ a \in Int /\ b \in Int /\ r \in Int
    BY <1>1, <1>2, <1>3
  <2> HIDE DEF a, b, r
  <2> DEFINE d == b - a
  <2>2. d \in Int /\ k - i = d * Max
    BY <2>1, Limits
  <2> HIDE DEF d
  <2> DEFINE x == d * Max
  <2>3. x <= 0 \/ x >= Max
    BY <2>2, Multiple
  <2>4. x \in Int /\ k - i = x
    BY <2>2, Limits
  <2> HIDE DEF x
  <2> QED BY <2>3, <2>4, Limits
<1> QED BY <1>3

LEMMA SlotNumber ==
  ASSUME NEW i \in Nat
  PROVE  i % Max \in 0..(Max - 1)
BY Limits

LEMMA RingInit == Ring(NoCommands, 0)
BY SlotNumber, Limits DEF Ring, NoCommands

\* A command goes over the one Max before it.
LEMMA RingStored ==
  ASSUME NEW seq \in Nat, NEW cmds \in [0..(Max - 1) -> Nat], Ring(cmds, seq)
  PROVE  Ring([cmds EXCEPT ![(seq + 1) % Max] = seq + 1], seq + 1)
<1> DEFINE new == [cmds EXCEPT ![(seq + 1) % Max] = seq + 1]
<1>1. (seq + 1) % Max \in 0..(Max - 1) /\ seq + 1 \in Nat
  <2>1. seq + 1 \in Nat
    OBVIOUS
  <2> QED BY <2>1, SlotNumber
<1>2. new[(seq + 1) % Max] = seq + 1
  BY <1>1
<1>3. ASSUME NEW i \in 0..seq, seq + 1 - i < Max
      PROVE  new[i % Max] = i
  <2>1. i \in Nat /\ i < seq + 1
    OBVIOUS
  <2>2. i % Max # (seq + 1) % Max
    BY <1>1, <1>3, <2>1, OwnSlot
  <2>3. i % Max \in 0..(Max - 1)
    BY <2>1, SlotNumber
  <2>4. cmds[i % Max] = i
    BY <1>3, Limits DEF Ring
  <2> QED BY <1>1, <2>2, <2>3, <2>4
<1> HIDE DEF new
<1>4. Ring(new, seq + 1)
  <2> SUFFICES ASSUME NEW i \in 0..(seq + 1), seq + 1 - i < Max
               PROVE  new[i % Max] = i
    BY DEF Ring
  <2>1. CASE i = seq + 1
    BY <1>2, <2>1
  <2>2. CASE i \in 0..seq
    BY <1>3, <2>2
  <2> QED BY <2>1, <2>2
<1> QED BY <1>4 DEF new

\* The commands of a ring that are not acknowledged, when it has room for them.
LEMMA UnacknowledgedOf ==
  ASSUME NEW seq \in Nat, NEW ack \in 0..seq, NEW cmds \in [0..(Max - 1) -> Nat]
  PROVE  LET f == [i \in (ack + 1)..seq |-> cmds[i % Max]]
         IN  /\ f \in [(ack + 1)..seq -> Nat]
             /\ seq - ack <= Max /\ Ring(cmds, seq) => Exact(f)
<1> DEFINE f == [i \in (ack + 1)..seq |-> cmds[i % Max]]
<1>1. f \in [(ack + 1)..seq -> Nat]
  <2>1. \A i \in (ack + 1)..seq : i \in Nat
    OBVIOUS
  <2>2. \A i \in (ack + 1)..seq : i % Max \in 0..(Max - 1)
    BY <2>1, SlotNumber
  <2> QED BY <2>2
<1>2. ASSUME seq - ack <= Max, Ring(cmds, seq)
      PROVE  \A n \in (ack + 1)..seq : cmds[n % Max] = n
  BY <1>2, Limits DEF Ring
<1>3. seq - ack <= Max /\ Ring(cmds, seq) => Exact(f)
  BY <1>2 DEF Exact
<1> QED BY <1>1, <1>3

LEMMA InNumbered ==
  ASSUME NEW lo \in Nat, NEW hi \in Nat, NEW f \in [(lo + 1)..hi -> Nat]
  PROVE  f \in Numbered
<1> DEFINE F(a, b) == [(a + 1)..b -> Nat]
<1>1. Numbered = UNION {F(a, b) : a \in Nat, b \in Nat}
  BY DEF Numbered
<1>2. f \in F(lo, hi)
  OBVIOUS
<1> HIDE DEF F
<1>3. F(lo, hi) \in {F(a, b) : a \in Nat, b \in Nat}
  OBVIOUS
<1> QED BY <1>1, <1>2, <1>3

\* Among numbers up to hi there is a last one.
LEMMA LastIn ==
  ASSUME NEW hi \in Nat, NEW S \in SUBSET (0..hi), S # {}
  PROVE  LET last == CHOOSE n \in S : \A k \in S : k <= n
         IN  last \in S /\ \A k \in S : k <= last
<1> DEFINE R == OpToRel(<, Nat)
           T == {n \in Nat : hi - n \in S}
<1>1. \A i, k \in Nat : i < k => <<i, k>> \in R
  BY DEF OpToRel
<1>2. IsWellFoundedOn(R, Nat)
  BY NatLessThanWellFounded
<1>3. T # {} /\ T \subseteq Nat
  <2>1. PICK k \in S : TRUE
    OBVIOUS
  <2>2. hi - k \in Nat /\ hi - (hi - k) = k
    OBVIOUS
  <2> QED BY <2>2
<1> HIDE DEF R
<1>4. \E n \in T : \A k \in T : <<k, n>> \notin R
  <2> HIDE DEF T
  <2> QED BY <1>2, <1>3, WFMin
<1>5. PICK n \in T : \A k \in T : <<k, n>> \notin R
  BY <1>4
<1>6. hi - n \in S /\ n \in Nat
  OBVIOUS
<1>7. ASSUME NEW k \in S PROVE k <= hi - n
  <2>1. hi - k \in T /\ hi - k \in Nat
    <3>1. hi - k \in Nat /\ hi - (hi - k) = k
      OBVIOUS
    <3> QED BY <3>1
  <2>2. ~(hi - k < n)
    <3>1. <<hi - k, n>> \notin R
      BY <1>5, <2>1
    <3> QED BY <1>1, <1>6, <2>1, <3>1
  <2> QED BY <1>6, <2>1, <2>2
<1> QED BY <1>6, <1>7

-----------------------------------------------------------------------------
(* Messages under way.                                                        *)

\* A message is sent, or lost at once.
LEMMA Sent ==
  ASSUME NEW M, NEW ch \in Seq(M), NEW m \in M, Len(ch) <= MaxInFlight
  PROVE  /\ Send(ch, m) \in Seq(M) /\ Len(Send(ch, m)) <= MaxInFlight
         /\ Len(Send(ch, m)) \in {Len(ch), Len(ch) + 1}
         /\ \A i \in 1..Len(Send(ch, m)) :
              Send(ch, m)[i] = IF i <= Len(ch) THEN ch[i] ELSE m
<1>1. CASE Len(ch) < MaxInFlight
  <2>1. Send(ch, m) = Append(ch, m)
    BY <1>1 DEF Send
  <2> QED BY <1>1, <2>1, Limits
<1>2. CASE ~(Len(ch) < MaxInFlight)
  BY <1>2, Limits DEF Send
<1> QED BY <1>1, <1>2

\* A message is received: it and those before it are gone.
LEMMA Delivered ==
  ASSUME NEW M, NEW ch \in Seq(M), NEW i \in 1..Len(ch)
  PROVE  /\ SubSeq(ch, i + 1, Len(ch)) \in Seq(M)
         /\ Len(SubSeq(ch, i + 1, Len(ch))) = Len(ch) - i
         /\ \A k \in 1..(Len(ch) - i) : SubSeq(ch, i + 1, Len(ch))[k] = ch[k + i]
<1>1. SubSeq(ch, i + 1, Len(ch)) \in Seq(M)
  BY SubSeqProperties
<1>2. /\ Len(SubSeq(ch, i + 1, Len(ch))) = Len(ch) - i
      /\ \A k \in 1..(Len(ch) - i) : SubSeq(ch, i + 1, Len(ch))[k] = ch[k + i]
  BY SubSeqProperties
<1> QED BY <1>1, <1>2

-----------------------------------------------------------------------------
(* What the operations make of the server's client_t and the client's clc.    *)

LEMMA StoredBySv ==
  ASSUME NEW c \in ServerClient
  PROVE  /\ Stored(c) \in ServerClient /\ Stored(c).seq = c.seq + 1
         /\ Stored(c).cmds = [c.cmds EXCEPT ![(c.seq + 1) % Max] = c.seq + 1]
         /\ Stored(c).ack = c.ack /\ Stored(c).last = c.last /\ Stored(c).state = c.state
         /\ Stored(c).calls = c.calls /\ Stored(c).bye = c.bye
<1> DEFINE new == [c.cmds EXCEPT ![(c.seq + 1) % Max] = c.seq + 1]
<1>1. new \in [0..(Max - 1) -> Nat] /\ c.seq + 1 \in Nat
  <2>1. c.seq + 1 \in Nat /\ c.cmds \in [0..(Max - 1) -> Nat]
    BY DEF ServerClient
  <2> QED BY <2>1, SlotNumber
<1>2. Stored(c) = [c EXCEPT !.seq = c.seq + 1, !.cmds = new]
  BY DEF Stored, ServerClient
<1> HIDE DEF new
<1>3. Stored(c) \in ServerClient
  BY <1>1, <1>2, Zenon DEF ServerClient
<1>4. /\ Stored(c).seq = c.seq + 1 /\ Stored(c).cmds = new
      /\ Stored(c).ack = c.ack /\ Stored(c).last = c.last /\ Stored(c).state = c.state
      /\ Stored(c).calls = c.calls /\ Stored(c).bye = c.bye
  BY <1>2 DEF ServerClient
<1> QED BY <1>3, <1>4 DEF new

LEMMA StoredByCl ==
  ASSUME NEW c \in Connection
  PROVE  /\ Stored(c) \in Connection /\ Stored(c).seq = c.seq + 1
         /\ Stored(c).cmds = [c.cmds EXCEPT ![(c.seq + 1) % Max] = c.seq + 1]
         /\ Stored(c).ack = c.ack /\ Stored(c).got = c.got /\ Stored(c).gotCmds = c.gotCmds
         /\ Stored(c).snaps = c.snaps /\ Stored(c).ran = c.ran /\ Stored(c).state = c.state
<1> DEFINE new == [c.cmds EXCEPT ![(c.seq + 1) % Max] = c.seq + 1]
<1>1. new \in [0..(Max - 1) -> Nat] /\ c.seq + 1 \in Nat
  <2>1. c.seq + 1 \in Nat /\ c.cmds \in [0..(Max - 1) -> Nat]
    BY DEF Connection
  <2> QED BY <2>1, SlotNumber
<1>2. Stored(c) = [c EXCEPT !.seq = c.seq + 1, !.cmds = new]
  BY DEF Stored, Connection
<1> HIDE DEF new
<1>3. Stored(c) \in Connection
  BY <1>1, <1>2, Zenon DEF Connection
<1>4. /\ Stored(c).seq = c.seq + 1 /\ Stored(c).cmds = new
      /\ Stored(c).ack = c.ack /\ Stored(c).got = c.got /\ Stored(c).gotCmds = c.gotCmds
      /\ Stored(c).snaps = c.snaps /\ Stored(c).ran = c.ran /\ Stored(c).state = c.state
  BY <1>2 DEF Connection
<1> QED BY <1>3, <1>4 DEF new

LEMMA DisconnectedIs ==
  ASSUME NEW c \in Connection
  PROVE  /\ Disconnected(c) \in Connection /\ Disconnected(c).seq = c.seq + 1
         /\ Disconnected(c).cmds = [c.cmds EXCEPT ![(c.seq + 1) % Max] = c.seq + 1]
         /\ Disconnected(c).ack = c.ack /\ Disconnected(c).got = c.got
         /\ Disconnected(c).gotCmds = c.gotCmds /\ Disconnected(c).snaps = c.snaps
         /\ Disconnected(c).ran = c.ran /\ Disconnected(c).state = "disconnected"
<1> DEFINE d == Stored(c)
<1>1. /\ d \in Connection /\ d.seq = c.seq + 1
      /\ d.cmds = [c.cmds EXCEPT ![(c.seq + 1) % Max] = c.seq + 1]
      /\ d.ack = c.ack /\ d.got = c.got /\ d.gotCmds = c.gotCmds
      /\ d.snaps = c.snaps /\ d.ran = c.ran
  BY StoredByCl
<1>2. c.seq + 1 \in Nat
  BY DEF Connection
<1>3. Disconnected(c) = [d EXCEPT !.bye = c.seq + 1, !.state = "disconnected"]
  BY DEF Disconnected
<1> HIDE DEF d
<1>4. Disconnected(c) \in Connection
  BY <1>1, <1>2, <1>3, Zenon DEF Connection
<1>5. /\ Disconnected(c).seq = d.seq /\ Disconnected(c).cmds = d.cmds
      /\ Disconnected(c).ack = d.ack /\ Disconnected(c).got = d.got
      /\ Disconnected(c).gotCmds = d.gotCmds /\ Disconnected(c).snaps = d.snaps
      /\ Disconnected(c).ran = d.ran /\ Disconnected(c).state = "disconnected"
  BY <1>1, <1>3 DEF Connection
<1> QED BY <1>1, <1>4, <1>5

LEMMA ToldIs ==
  ASSUME NEW c \in ServerClient
  PROVE  /\ Told(c) \in ServerClient /\ Told(c).calls = c.calls + 1 /\ Told(c).seq = c.seq
         /\ Told(c).cmds = c.cmds /\ Told(c).ack = c.ack /\ Told(c).last = c.last
         /\ Told(c).state = c.state /\ Told(c).bye = c.bye
BY DEF Told, ServerClient

\* An overflow: the print and the disconnect go past the number left out, the
\* ring is overrun and the game told once more.
LEMMA OverflowIs ==
  ASSUME NEW c \in ServerClient, c.seq + 1 - c.ack = Max + 1
  PROVE  LET d == OverflowDrop(c)
         IN  /\ d \in ServerClient /\ d.seq = c.seq + 3 /\ d.ack = c.ack /\ d.last = c.last
             /\ d.state = "zombie" /\ d.calls = c.calls + 1 /\ Overrun(d)
<1> DEFINE a == [c EXCEPT !.seq = c.seq + 1]
           print == Stored(a)
           told == Told(print)
           bye == Stored(told)
           d == OverflowDrop(c)
<1>1. /\ a \in ServerClient /\ a.seq = c.seq + 1 /\ a.ack = c.ack /\ a.last = c.last
      /\ a.calls = c.calls
  BY DEF ServerClient
<1>2. d = [bye EXCEPT !.state = "zombie", !.bye = bye.seq]
  BY DEF OverflowDrop
<1> HIDE DEF a, d
<1>3. /\ print \in ServerClient /\ print.seq = c.seq + 2 /\ print.ack = c.ack
      /\ print.last = c.last /\ print.calls = c.calls
  <2>1. /\ print \in ServerClient /\ print.seq = a.seq + 1 /\ print.ack = a.ack
        /\ print.last = a.last /\ print.calls = a.calls
    BY <1>1, StoredBySv
  <2> HIDE DEF print
  <2> QED BY <1>1, <2>1 DEF ServerClient
<1> HIDE DEF print
<1>4. /\ told \in ServerClient /\ told.seq = c.seq + 2 /\ told.ack = c.ack
      /\ told.last = c.last /\ told.calls = c.calls + 1
  BY <1>3, ToldIs
<1> HIDE DEF told
<1>5. /\ bye \in ServerClient /\ bye.seq = c.seq + 3 /\ bye.ack = c.ack
      /\ bye.last = c.last /\ bye.calls = c.calls + 1
  <2>1. /\ bye \in ServerClient /\ bye.seq = told.seq + 1 /\ bye.ack = told.ack
        /\ bye.last = told.last /\ bye.calls = told.calls
    BY <1>4, StoredBySv
  <2> HIDE DEF bye
  <2> QED BY <1>4, <2>1 DEF ServerClient
<1> HIDE DEF bye
<1>6. bye.seq \in Nat
  BY <1>5 DEF ServerClient
<1>7. d \in ServerClient
  BY <1>2, <1>5, <1>6, Zenon DEF ServerClient
<1>8. /\ d.seq = bye.seq /\ d.ack = bye.ack /\ d.last = bye.last
      /\ d.calls = bye.calls /\ d.state = "zombie"
  BY <1>2, <1>5 DEF ServerClient
<1>9. Overrun(d)
  <2>1. d.seq = c.seq + 3 /\ d.ack = c.ack
    BY <1>5, <1>8
  <2>2. c.seq \in Nat /\ c.ack \in Nat
    BY DEF ServerClient
  <2> QED BY <2>1, <2>2, Limits DEF Overrun
<1> QED BY <1>5, <1>7, <1>8, <1>9 DEF d

\* What the invariant says of the server's client_t by itself.
GoodServer(c) ==
  /\ c \in ServerClient /\ c.ack <= c.seq
  /\ c.state = "active" => c.seq - c.ack <= Max
  /\ ~Overrun(c) => Ring(c.cmds, c.seq)
  /\ c.state = "zombie" <=> c.calls > 0
  /\ c.calls <= IF Overrun(c) THEN 2 ELSE 1

\* A command is added, or the ring is overrun.
LEMMA AddIs ==
  ASSUME NEW c \in ServerClient, c.ack <= c.seq, c.state = "active",
         c.seq - c.ack <= Max, Ring(c.cmds, c.seq)
  PROVE  LET d == AddServerCommand(c)
         IN  /\ d \in ServerClient /\ d.ack = c.ack /\ d.last = c.last /\ d.seq > c.seq
             /\ \/ /\ d.state = "active" /\ d.seq - d.ack <= Max /\ Ring(d.cmds, d.seq)
                   /\ d.calls = c.calls
                \/ d.state = "zombie" /\ Overrun(d) /\ d.calls = c.calls + 1
<1> DEFINE d == AddServerCommand(c)
<1>0. c.seq \in Nat /\ c.ack \in Nat /\ c.cmds \in [0..(Max - 1) -> Nat]
  BY DEF ServerClient
<1>1. CASE c.seq + 1 - c.ack = Max + 1
  <2>1. d = OverflowDrop(c)
    BY <1>1 DEF AddServerCommand
  <2> HIDE DEF d
  <2> QED BY <1>0, <1>1, <2>1, OverflowIs DEF d
<1>2. CASE c.seq + 1 - c.ack # Max + 1
  <2>1. d = Stored(c)
    BY <1>2 DEF AddServerCommand
  <2>2. /\ d \in ServerClient /\ d.seq = c.seq + 1 /\ d.ack = c.ack /\ d.last = c.last
        /\ d.cmds = [c.cmds EXCEPT ![(c.seq + 1) % Max] = c.seq + 1]
        /\ d.state = "active" /\ d.calls = c.calls
    BY <2>1, StoredBySv
  <2>3. Ring(d.cmds, d.seq)
    BY <1>0, <2>2, RingStored
  <2>4. d.seq - d.ack <= Max
    BY <1>0, <1>2, <2>2, Limits
  <2> HIDE DEF d
  <2> QED BY <1>0, <2>2, <2>3, <2>4 DEF d
<1> QED BY <1>1, <1>2

LEMMA DropIs ==
  ASSUME NEW c \in ServerClient, GoodServer(c), c.state = "active"
  PROVE  LET d == DropClient(c)
         IN  GoodServer(d) /\ d.state = "zombie" /\ d.ack = c.ack /\ d.last = c.last /\ d.seq > c.seq
<1> DEFINE a == AddServerCommand(c)
           b == Told(a)
           e == AddServerCommand(b)
           d == DropClient(c)
<1>1. /\ c.ack <= c.seq /\ c.seq - c.ack <= Max /\ Ring(c.cmds, c.seq) /\ c.calls = 0
      /\ c.seq \in Nat /\ c.ack \in Nat
  BY Limits DEF GoodServer, Overrun, ServerClient
<1>2. /\ a \in ServerClient /\ a.ack = c.ack /\ a.last = c.last /\ a.seq > c.seq
      /\ \/ a.state = "active" /\ a.seq - a.ack <= Max /\ Ring(a.cmds, a.seq) /\ a.calls = 0
         \/ a.state = "zombie" /\ Overrun(a) /\ a.calls = 1
  BY <1>1, AddIs
<1> HIDE DEF a
<1>3. /\ b \in ServerClient /\ b.calls = a.calls + 1 /\ b.seq = a.seq /\ b.cmds = a.cmds
      /\ b.ack = a.ack /\ b.last = a.last /\ b.state = a.state
  BY <1>2, ToldIs
<1>4. d = [e EXCEPT !.state = "zombie", !.bye = IF e.state = "zombie" THEN e.bye ELSE e.seq]
  BY DEF DropClient, a, b, e
<1> HIDE DEF b, d
<1>5. /\ e \in ServerClient /\ e.ack = c.ack /\ e.last = c.last /\ e.seq > c.seq
      /\ \/ Overrun(e) /\ e.calls = 2
         \/ e.calls = 1 /\ e.seq - e.ack <= Max /\ Ring(e.cmds, e.seq)
  <2>0. a.seq \in Nat /\ b.seq \in Nat
    BY <1>2, <1>3 DEF ServerClient
  <2>1. CASE a.state = "zombie"
    <3>1. e = b
      BY <1>3, <2>1 DEF AddServerCommand
    <3> HIDE DEF e
    <3> QED BY <1>2, <1>3, <2>1, <3>1 DEF Overrun
  <2>2. CASE a.state = "active" /\ a.seq - a.ack <= Max /\ Ring(a.cmds, a.seq) /\ a.calls = 0
    <3>1. b.ack <= b.seq
      BY <1>1, <1>2, <1>3, <2>0
    <3>2. /\ e \in ServerClient /\ e.ack = b.ack /\ e.last = b.last /\ e.seq > b.seq
          /\ \/ e.seq - e.ack <= Max /\ Ring(e.cmds, e.seq) /\ e.calls = b.calls
             \/ Overrun(e) /\ e.calls = b.calls + 1
      BY <1>3, <2>2, <3>1, AddIs
    <3> HIDE DEF e
    <3>3. e.seq > c.seq
      BY <1>1, <1>2, <1>3, <2>0, <3>2 DEF ServerClient
    <3> QED BY <1>2, <1>3, <2>2, <3>2, <3>3
  <2> QED BY <1>2, <2>1, <2>2
<1> HIDE DEF e
<1>6. e.seq \in Nat /\ e.ack \in Nat /\ (IF e.state = "zombie" THEN e.bye ELSE e.seq) \in Nat
  BY <1>5 DEF ServerClient
<1>7. d \in ServerClient
  BY <1>4, <1>5, <1>6, Zenon DEF ServerClient
<1>8. /\ d.seq = e.seq /\ d.ack = e.ack /\ d.last = e.last /\ d.cmds = e.cmds
      /\ d.calls = e.calls /\ d.state = "zombie"
  BY <1>4, <1>5 DEF ServerClient
<1>9. GoodServer(d)
  <2>1. d.ack <= d.seq
    BY <1>1, <1>5, <1>6, <1>8
  <2>2. ~Overrun(d) => Ring(d.cmds, d.seq)
    BY <1>5, <1>8 DEF Overrun
  <2>3. d.calls > 0 /\ d.calls <= IF Overrun(d) THEN 2 ELSE 1
    BY <1>5, <1>8 DEF Overrun
  <2> QED BY <1>7, <1>8, <2>1, <2>2, <2>3 DEF GoodServer
<1> QED BY <1>5, <1>8, <1>9 DEF d

\* The client has the commands of a message that it did not have.
LEMMA ReceivedIs ==
  ASSUME NEW c \in Connection, NEW hi \in Nat, NEW cmds, Joins(cmds, c.got, hi)
  PROVE  LET d == Received(c, cmds)
         IN  /\ d \in Connection /\ d.seq = c.seq /\ d.ack = c.ack /\ d.cmds = c.cmds
             /\ d.state = c.state /\ d.ran = c.ran /\ d.snaps = c.snaps
             /\ d.got >= c.got /\ (d.got <= hi \/ d.got = c.got)
             /\ Exact(cmds) /\ Ring(c.gotCmds, c.got) => Ring(d.gotCmds, d.got)
<1> DEFINE d == Received(c, cmds)
           new == {n \in DOMAIN cmds : n > c.got}
           last == CHOOSE n \in new : \A k \in new : k <= n
           here(i) == {n \in new : n % Max = i}
           top(i) == CHOOSE n \in here(i) : \A k \in here(i) : k <= n
           slots == [i \in 0..(Max - 1) |-> IF here(i) = {} THEN c.gotCmds[i] ELSE cmds[top(i)]]
<1>1. PICK lo \in 0..c.got, to \in 0..hi : cmds \in [(lo + 1)..to -> Nat]
  BY DEF Joins
<1>2. /\ c.got \in Nat /\ lo \in Nat /\ to \in Nat /\ to <= hi
      /\ c.gotCmds \in [0..(Max - 1) -> Nat]
  BY <1>1 DEF Connection
<1>3. new = (c.got + 1)..to
  BY <1>1, <1>2
<1>4. CASE new = {}
  <2>1. d = c
    BY <1>4 DEF Received
  <2> HIDE DEF d
  <2> QED BY <1>2, <2>1 DEF d
<1>5. CASE new # {}
  <2>0. d = [c EXCEPT !.got = last, !.gotCmds = slots]
    BY <1>5 DEF Received
  <2>1. last = to /\ to > c.got
    <3>1. to > c.got
      BY <1>2, <1>3, <1>5
    <3>2. to \in new /\ \A k \in new : k <= to
      BY <1>2, <1>3, <3>1
    <3>3. last \in new /\ \A k \in new : k <= last
      <4> HIDE DEF new
      <4> QED BY <3>2
    <3> HIDE DEF last
    <3> QED BY <1>2, <1>3, <3>1, <3>2, <3>3
  <2> HIDE DEF d, last
  <2>2. ASSUME NEW i \in 0..(Max - 1), here(i) # {}
        PROVE  top(i) \in here(i) /\ \A k \in here(i) : k <= top(i)
    <3>1. here(i) \in SUBSET (0..to)
      BY <1>2, <1>3
    <3> HIDE DEF here
    <3> QED BY <1>2, <2>2, <3>1, LastIn
  <2> HIDE DEF top
  <2>3. slots \in [0..(Max - 1) -> Nat]
    <3>1. ASSUME NEW i \in 0..(Max - 1)
          PROVE  (IF here(i) = {} THEN c.gotCmds[i] ELSE cmds[top(i)]) \in Nat
      BY <1>1, <1>2, <1>3, <2>2
    <3> HIDE DEF here
    <3> QED BY <3>1
  <2>4. Exact(cmds) /\ Ring(c.gotCmds, c.got) => Ring(slots, to)
    <3> SUFFICES ASSUME Exact(cmds), Ring(c.gotCmds, c.got), NEW k \in 0..to, to - k < Max
                 PROVE  slots[k % Max] = k
      BY DEF Ring
    <3>0. k \in Nat /\ k <= to /\ k % Max \in 0..(Max - 1)
      <4>1. k \in Nat /\ k <= to
        BY <1>2
      <4> QED BY <4>1, SlotNumber
    <3>1. \A n \in new : n % Max = k % Max => n <= k
      <4> SUFFICES ASSUME NEW n \in new, n % Max = k % Max, n > k PROVE FALSE
        BY <1>2, <1>3, <3>0
      <4>1. n \in Nat /\ n <= to /\ n - k < Max
        BY <1>2, <1>3, <3>0, Limits
      <4> QED BY <3>0, <4>1, OwnSlot
    <3>2. CASE k > c.got
      <4>1. k \in here(k % Max)
        BY <1>2, <1>3, <3>0, <3>2
      <4>2. top(k % Max) = k
        BY <1>2, <1>3, <2>2, <3>0, <3>1, <4>1
      <4>3. slots[k % Max] = cmds[k]
        BY <3>0, <4>1, <4>2
      <4>4. k \in DOMAIN cmds
        BY <1>1, <1>2, <3>0, <3>2
      <4> QED BY <4>3, <4>4 DEF Exact
    <3>3. CASE k <= c.got
      <4>1. here(k % Max) = {}
        BY <1>2, <1>3, <3>0, <3>1, <3>3
      <4>2. slots[k % Max] = c.gotCmds[k % Max]
        BY <3>0, <4>1
      <4>3. k \in 0..c.got
        BY <1>2, <3>0, <3>3
      <4>4. c.got - k < Max
        BY <1>2, <2>1, <3>0, <3>3, Limits
      <4> QED BY <4>2, <4>3, <4>4 DEF Ring
    <3> QED BY <1>2, <3>0, <3>2, <3>3
  <2> HIDE DEF slots, new
  <2>5. d \in Connection
    BY <1>2, <2>0, <2>1, <2>3, Zenon DEF Connection
  <2>6. /\ d.seq = c.seq /\ d.ack = c.ack /\ d.cmds = c.cmds
        /\ d.state = c.state /\ d.ran = c.ran /\ d.snaps = c.snaps
        /\ d.got = to /\ d.gotCmds = slots
    BY <2>0, <2>1 DEF Connection
  <2> QED BY <1>2, <2>1, <2>4, <2>5, <2>6 DEF d
<1> QED BY <1>4, <1>5

\* The server executes the commands of a message from the one after last on; of
\* those it has not executed none is left out.
LEMMA LastRunIs ==
  ASSUME NEW cmds, NEW hi \in Nat, Joins(cmds, sv.last, hi), sv.last \in Nat
  PROVE  /\ ~Gap(cmds)
         /\ LastRun(cmds) \in Nat /\ LastRun(cmds) >= sv.last
         /\ LastRun(cmds) <= hi \/ LastRun(cmds) = sv.last
         /\ \A k \in (sv.last + 1)..LastRun(cmds) : k \in DOMAIN cmds /\ cmds[k] \in Nat
<1>1. PICK lo \in 0..sv.last, to \in 0..hi : cmds \in [(lo + 1)..to -> Nat]
  BY DEF Joins
<1>2. lo \in Nat /\ to \in Nat /\ to <= hi
  BY <1>1
<1>3. Fresh(cmds) = (sv.last + 1)..to
  BY <1>1, <1>2 DEF Fresh
<1>4. ~Gap(cmds)
  BY <1>2, <1>3 DEF Gap
<1> DEFINE stop == IF Goodbye(cmds) = {} THEN Fresh(cmds)
                   ELSE {n \in Fresh(cmds) : \A g \in Goodbye(cmds) : n <= g}
           last == CHOOSE n \in stop : \A k \in stop : k <= n
<1>5. LastRun(cmds) = IF stop = {} THEN sv.last ELSE last
  BY DEF LastRun
<1>6. stop \subseteq (sv.last + 1)..to
  BY <1>3
<1> HIDE DEF stop
<1>7. stop # {} => last \in stop
  <2>1. stop \in SUBSET (0..to)
    BY <1>2, <1>6
  <2> QED BY <1>2, <2>1, LastIn
<1> HIDE DEF last
<1>8. LastRun(cmds) = sv.last \/ LastRun(cmds) \in (sv.last + 1)..to
  BY <1>5, <1>6, <1>7
<1>9. LastRun(cmds) \in Nat /\ LastRun(cmds) >= sv.last
      /\ (LastRun(cmds) <= hi \/ LastRun(cmds) = sv.last)
  BY <1>2, <1>8
<1>10. \A k \in (sv.last + 1)..LastRun(cmds) : k \in DOMAIN cmds /\ cmds[k] \in Nat
  BY <1>1, <1>2, <1>8
<1> QED BY <1>4, <1>9, <1>10

-----------------------------------------------------------------------------
(* The messages under way stay as good as they were.                          *)

\* The counts, for the steps that only count.
LEMMA Numbers ==
  ASSUME IInv
  PROVE  /\ sv.seq \in Nat /\ sv.ack \in Nat /\ sv.last \in Nat
         /\ cl.seq \in Nat /\ cl.ack \in Nat /\ cl.got \in Nat /\ cl.ran \in Nat
BY DEF IInv, Typed, TypeOK, ServerClient, Connection

LEMMA Fields ==
  ASSUME IInv
  PROVE  /\ sv \in ServerClient /\ cl \in Connection
         /\ sv.seq \in Nat /\ sv.ack \in Nat /\ sv.last \in Nat /\ sv.calls \in Nat
         /\ cl.seq \in Nat /\ cl.ack \in Nat /\ cl.got \in Nat /\ cl.ran \in Nat
         /\ sv.cmds \in [0..(Max - 1) -> Nat] /\ cl.cmds \in [0..(Max - 1) -> Nat]
         /\ cl.gotCmds \in [0..(Max - 1) -> Nat] /\ cl.snaps \subseteq Nat
         /\ sv.state \in {"active", "zombie"} /\ cl.state \in {"active", "disconnected"}
         /\ toClient \in Seq(Snapshots) /\ Len(toClient) <= MaxInFlight
         /\ toServer \in Seq(Packets) /\ Len(toServer) <= MaxInFlight
         /\ svDone \in Seq(Nat) /\ clDone \in Seq(Nat)
BY DEF IInv, Typed, TypeOK, ServerClient, Connection

\* The counts of the two sides, and their rings while they have room.
LEMMA Room ==
  ASSUME IInv
  PROVE  /\ sv.ack <= cl.got /\ cl.got <= sv.seq /\ sv.ack <= sv.seq
         /\ cl.ack <= sv.last /\ sv.last <= cl.seq /\ cl.ack <= cl.seq /\ cl.ran <= cl.got
         /\ sv.state = "active" => ~Overrun(sv)
         /\ cl.state = "active" => ~Overrun(cl)
         /\ ~Overrun(sv) => sv.seq - sv.ack <= Max /\ Ring(sv.cmds, sv.seq) /\ Ring(cl.gotCmds, cl.got)
         /\ ~Overrun(cl) => cl.seq - cl.ack <= Max /\ Ring(cl.cmds, cl.seq)
<1>1. /\ sv.ack <= cl.got /\ cl.got <= sv.seq /\ cl.ack <= sv.last /\ sv.last <= cl.seq
      /\ cl.ran <= cl.got
  BY DEF IInv, Counts
<1>2. /\ sv.state = "active" => sv.seq - sv.ack <= Max
      /\ ~Overrun(sv) => Ring(sv.cmds, sv.seq) /\ Ring(cl.gotCmds, cl.got)
      /\ cl.state = "active" => cl.seq - cl.ack <= Max
      /\ ~Overrun(cl) => Ring(cl.cmds, cl.seq)
  BY DEF IInv, Rings
<1>3. (~Overrun(sv) <=> sv.seq - sv.ack <= Max) /\ (~Overrun(cl) <=> cl.seq - cl.ack <= Max)
  BY Numbers, Limits DEF Overrun
<1>4. sv.ack <= sv.seq /\ cl.ack <= cl.seq
  BY <1>1, Numbers
<1> QED BY <1>1, <1>2, <1>3, <1>4

LEMMA ServerIsGood == ASSUME IInv PROVE GoodServer(sv)
BY Fields, Room DEF IInv, GoodServer, GameTold

\* Nothing is taken back, and who has overrun its ring stays so.
Grows ==
  /\ sv' \in ServerClient /\ cl' \in Connection
  /\ sv'.seq >= sv.seq /\ sv'.last >= sv.last /\ cl'.got >= cl.got /\ cl'.seq >= cl.seq
  /\ Overrun(sv) => Overrun(sv')
  /\ Overrun(cl) => Overrun(cl')

LEMMA JoinsMore ==
  ASSUME NEW cmds, NEW has \in Nat, NEW added \in Nat, Joins(cmds, has, added),
         NEW has2 \in Nat, NEW added2 \in Nat, has2 >= has, added2 >= added
  PROVE  Joins(cmds, has2, added2)
<1>1. PICK lo \in 0..has, hi \in 0..added : cmds \in [(lo + 1)..hi -> Nat]
  BY DEF Joins
<1>2. lo \in 0..has2 /\ hi \in 0..added2
  BY <1>1
<1> QED BY <1>1, <1>2 DEF Joins

LEMMA ToClientStays ==
  ASSUME IInv, Grows, NEW m \in Snapshots, ToClient(m), m.ack >= cl'.ack
  PROVE  ToClient(m)'
<1>1. /\ sv'.seq \in Nat /\ sv'.last \in Nat /\ cl'.got \in Nat /\ cl'.ack \in Nat
      /\ m.ack \in Nat
  BY DEF Grows, ServerClient, Connection, Snapshots
<1>2. Joins(m.cmds, cl'.got, sv'.seq)
  BY <1>1, Fields, JoinsMore DEF Grows, ToClient
<1>3. m.ack \in cl'.ack..sv'.last
  BY <1>1, Fields DEF Grows, ToClient
<1>4. ~Overrun(sv') => Exact(m.cmds)
  BY DEF Grows, ToClient
<1> QED BY <1>2, <1>3, <1>4 DEF ToClient

LEMMA ToServerStays ==
  ASSUME IInv, Grows, NEW m \in Packets, ToServer(m), m.ack >= sv'.ack
  PROVE  ToServer(m)'
<1>1. /\ cl'.seq \in Nat /\ sv'.last \in Nat /\ cl'.got \in Nat /\ sv'.ack \in Nat
      /\ m.ack \in Nat
  BY DEF Grows, ServerClient, Connection, Packets
<1>2. Joins(m.cmds, sv'.last, cl'.seq)
  BY <1>1, Fields, JoinsMore DEF Grows, ToServer
<1>3. m.ack \in sv'.ack..cl'.got
  BY <1>1, Fields DEF Grows, ToServer
<1>4. (~Overrun(cl') => Exact(m.cmds)) /\ (~Overrun(sv') => m.key = m.ack)
  BY DEF Grows, ToServer
<1> QED BY <1>2, <1>3, <1>4 DEF ToServer

LEMMA InboundUnchanged ==
  ASSUME IInv, Grows, toClient' = toClient, cl'.ack = cl.ack
  PROVE  Inbound'
<1>1. \A i \in 1..Len(toClient) : toClient[i] \in Snapshots /\ ToClient(toClient[i])
  BY Fields DEF IInv, Inbound
<1>2. \A i \in 1..Len(toClient) : toClient[i].ack >= cl'.ack
  BY <1>1, Fields DEF ToClient
<1>3. \A m \in Snapshots : ToClient(m) /\ m.ack >= cl'.ack => ToClient(m)'
  BY ToClientStays
<1>4. ASSUME NEW i \in 1..Len(toClient) PROVE ToClient(toClient[i])'
  <2>1. PICK m \in Snapshots : m = toClient[i]
    BY <1>1
  <2>2. ToClient(m) /\ m.ack >= cl'.ack
    BY <1>1, <1>2, <2>1
  <2>3. ToClient(m)'
    BY <1>3, <2>2
  <2>4. m = toClient'[i]
    BY <2>1
  <2> QED BY <2>3, <2>4
<1>5. Ordered(toClient')
  BY DEF IInv, Inbound
<1> QED BY <1>4, <1>5 DEF Inbound

LEMMA OutboundUnchanged ==
  ASSUME IInv, Grows, toServer' = toServer, sv'.ack = sv.ack
  PROVE  Outbound'
<1>1. \A i \in 1..Len(toServer) : toServer[i] \in Packets /\ ToServer(toServer[i])
  BY Fields DEF IInv, Outbound
<1>2. \A i \in 1..Len(toServer) : toServer[i].ack >= sv'.ack
  BY <1>1, Fields DEF ToServer
<1>3. \A m \in Packets : ToServer(m) /\ m.ack >= sv'.ack => ToServer(m)'
  BY ToServerStays
<1>4. ASSUME NEW i \in 1..Len(toServer) PROVE ToServer(toServer[i])'
  <2>1. PICK m \in Packets : m = toServer[i]
    BY <1>1
  <2>2. ToServer(m) /\ m.ack >= sv'.ack
    BY <1>1, <1>2, <2>1
  <2>3. ToServer(m)'
    BY <1>3, <2>2
  <2>4. m = toServer'[i]
    BY <2>1
  <2> QED BY <2>3, <2>4
<1>5. Ordered(toServer')
  BY DEF IInv, Outbound
<1> QED BY <1>4, <1>5 DEF Outbound

\* Order and length of a channel after a message is sent and after one is received.
LEMMA SentOrdered ==
  ASSUME NEW M, NEW ch \in Seq(M), NEW m \in M, Len(ch) <= MaxInFlight, Ordered(ch),
         \A k \in M : k.ack \in Nat, \A i \in 1..Len(ch) : ch[i].ack <= m.ack
  PROVE  Ordered(Send(ch, m))
<1> DEFINE s == Send(ch, m)
<1>1. /\ Len(s) \in {Len(ch), Len(ch) + 1}
      /\ \A i \in 1..Len(s) : s[i] = IF i <= Len(ch) THEN ch[i] ELSE m
  BY Sent
<1> HIDE DEF s
<1>2. ASSUME NEW i \in 1..Len(s), NEW k \in 1..Len(s), i <= k
      PROVE  s[i].ack <= s[k].ack
  <2>1. CASE k <= Len(ch)
    BY <1>1, <1>2, <2>1 DEF Ordered
  <2>2. CASE ~(k <= Len(ch)) /\ i <= Len(ch)
    BY <1>1, <1>2, <2>2
  <2>3. CASE ~(k <= Len(ch)) /\ ~(i <= Len(ch))
    BY <1>1, <1>2, <2>3
  <2> QED BY <1>2, <2>1, <2>2, <2>3
<1> QED BY <1>2 DEF Ordered, s

LEMMA DeliveredOrdered ==
  ASSUME NEW M, NEW ch \in Seq(M), NEW i \in 1..Len(ch), Ordered(ch)
  PROVE  LET s == SubSeq(ch, i + 1, Len(ch))
         IN  Ordered(s) /\ \A k \in 1..Len(s) : ch[i].ack <= s[k].ack
<1> DEFINE s == SubSeq(ch, i + 1, Len(ch))
<1>1. /\ Len(s) = Len(ch) - i
      /\ \A k \in 1..Len(s) : s[k] = ch[k + i] /\ k + i \in 1..Len(ch)
  BY Delivered
<1> HIDE DEF s
<1>2. \A k \in 1..Len(s) : ch[i].ack <= s[k].ack
  BY <1>1 DEF Ordered
<1>3. ASSUME NEW j \in 1..Len(s), NEW k \in 1..Len(s), j <= k
      PROVE  s[j].ack <= s[k].ack
  <2>1. j + i \in 1..Len(ch) /\ k + i \in 1..Len(ch) /\ s[j] = ch[j + i] /\ s[k] = ch[k + i]
    BY <1>1
  <2>2. j + i <= k + i
    BY <1>3, <2>1
  <2> QED BY <2>1, <2>2 DEF Ordered
<1> QED BY <1>2, <1>3 DEF Ordered, s

-----------------------------------------------------------------------------
(* The steps of the server.                                                   *)

\* The server adds commands, and perhaps drops the client.
LEMMA ServerAdds ==
  ASSUME IInv, sv.state = "active", GoodServer(sv'), sv'.ack = sv.ack, sv'.last = sv.last,
         sv'.seq > sv.seq, UNCHANGED <<cl, toClient, toServer, misread, svDone, clDone>>
  PROVE  IInv'
<1>1. ~Overrun(sv)
  BY Room
<1>2. sv' \in ServerClient /\ sv'.seq \in Nat
  BY DEF GoodServer, ServerClient
<1>3. Grows
  BY <1>1, <1>2, Fields DEF Grows
<1>4. Inbound' /\ Outbound'
  BY <1>3, InboundUnchanged, OutboundUnchanged
<1>5. Typed'
  BY <1>2 DEF IInv, Typed, TypeOK
<1>6. Rings'
  BY <1>1 DEF IInv, Rings, GoodServer
<1>7. Counts'
  BY <1>2, Fields DEF IInv, Counts
<1>8. Executed'
  BY <1>1 DEF IInv, Executed
<1>9. KeysAgreeWithRoom'
  BY DEF IInv, KeysAgreeWithRoom
<1>10. GameTold'
  BY DEF GoodServer, GameTold
<1> QED BY <1>4, <1>5, <1>6, <1>7, <1>8, <1>9, <1>10 DEF IInv

LEMMA AddInv == ASSUME IInv, SV_AddServerCommand PROVE IInv' /\ sv'.seq > sv.seq
<1>1. /\ sv.state = "active" /\ sv' = AddServerCommand(sv)
      /\ UNCHANGED <<cl, toClient, toServer, misread, svDone, clDone>>
  BY DEF SV_AddServerCommand
<1>2. GoodServer(sv) /\ ~Overrun(sv) /\ sv.calls = 0 /\ sv.seq - sv.ack <= Max
  BY <1>1, ServerIsGood, Room, Fields DEF GoodServer
<1>3. /\ sv' \in ServerClient /\ sv'.ack = sv.ack /\ sv'.last = sv.last /\ sv'.seq > sv.seq
      /\ \/ /\ sv'.state = "active" /\ sv'.seq - sv'.ack <= Max /\ Ring(sv'.cmds, sv'.seq)
            /\ sv'.calls = 0
         \/ sv'.state = "zombie" /\ Overrun(sv') /\ sv'.calls = 1
  <2>1. sv.ack <= sv.seq /\ Ring(sv.cmds, sv.seq)
    BY <1>2 DEF GoodServer
  <2> QED BY <1>1, <1>2, <2>1, Fields, AddIs
<1>4. GoodServer(sv')
  <2>1. sv'.ack <= sv'.seq
    BY <1>2, <1>3, Fields DEF GoodServer, ServerClient
  <2> QED BY <1>3, <2>1 DEF GoodServer
<1> QED BY <1>1, <1>3, <1>4, ServerAdds

LEMMA DropInv == ASSUME IInv, SV_DropClient PROVE IInv' /\ sv'.seq > sv.seq
<1>1. /\ sv.state = "active" /\ sv' = DropClient(sv)
      /\ UNCHANGED <<cl, toClient, toServer, misread, svDone, clDone>>
  BY DEF SV_DropClient
<1>2. GoodServer(sv') /\ sv'.ack = sv.ack /\ sv'.last = sv.last /\ sv'.seq > sv.seq
  BY <1>1, ServerIsGood, Fields, DropIs
<1> QED BY <1>1, <1>2, ServerAdds

LEMMA SnapshotInv == ASSUME IInv, SV_SendClientSnapshot PROVE IInv'
<1> DEFINE m == [ack |-> sv.last, cmds |-> Unacknowledged(sv)]
<1>1. toClient' = Send(toClient, m) /\ UNCHANGED <<sv, cl, toServer, misread, svDone, clDone>>
  BY DEF SV_SendClientSnapshot
<1>2. sv.ack <= sv.seq /\ sv.ack <= cl.got /\ cl.ack <= sv.last
  BY ServerIsGood DEF GoodServer, IInv, Counts
<1>3. /\ Unacknowledged(sv) \in [(sv.ack + 1)..sv.seq -> Nat]
      /\ ~Overrun(sv) => Exact(Unacknowledged(sv))
  <2>1. ~Overrun(sv) => sv.seq - sv.ack <= Max /\ Ring(sv.cmds, sv.seq)
    BY Room
  <2>2. sv.ack \in 0..sv.seq /\ sv.seq \in Nat /\ sv.cmds \in [0..(Max - 1) -> Nat]
    BY <1>2, Fields
  <2> QED BY <2>1, <2>2, UnacknowledgedOf DEF Unacknowledged
<1>4. m \in Snapshots /\ m.ack = sv.last
  BY <1>3, Fields, InNumbered DEF Snapshots
<1>5. ToClient(m)
  <2>1. Joins(m.cmds, cl.got, sv.seq)
    <3>1. sv.ack \in 0..cl.got /\ sv.seq \in 0..sv.seq
      BY <1>2, Fields
    <3> QED BY <1>3, <3>1 DEF Joins
  <2> QED BY <1>2, <1>3, <2>1, Fields DEF ToClient
<1>6. \A i \in 1..Len(toClient) : ToClient(toClient[i]) /\ toClient[i].ack <= m.ack
  BY <1>4 DEF IInv, Inbound, ToClient
<1> HIDE DEF m
<1>7. /\ toClient' \in Seq(Snapshots) /\ Len(toClient') <= MaxInFlight
      /\ \A i \in 1..Len(toClient') : ToClient(toClient'[i])
  <2>1. /\ Send(toClient, m) \in Seq(Snapshots) /\ Len(Send(toClient, m)) <= MaxInFlight
        /\ Len(Send(toClient, m)) \in {Len(toClient), Len(toClient) + 1}
        /\ \A i \in 1..Len(Send(toClient, m)) :
             Send(toClient, m)[i] = IF i <= Len(toClient) THEN toClient[i] ELSE m
    BY <1>4, Fields, Sent
  <2> QED BY <1>1, <1>5, <1>6, <2>1
<1>8. Ordered(toClient')
  <2>1. \A k \in Snapshots : k.ack \in Nat
    BY DEF Snapshots
  <2> QED BY <1>1, <1>4, <1>6, <2>1, Fields, SentOrdered DEF IInv, Inbound
<1>9. Inbound'
  BY <1>1, <1>7, <1>8 DEF Inbound, ToClient
<1>10. Grows
  BY <1>1, Fields DEF Grows
<1>11. Outbound'
  BY <1>1, <1>10, OutboundUnchanged
<1>12. Typed'
  BY <1>1, <1>7 DEF IInv, Typed, TypeOK
<1> QED BY <1>1, <1>9, <1>11, <1>12
        DEF IInv, Rings, Counts, Executed, KeysAgreeWithRoom, GameTold

\* The acknowledgement of a message is believed.
LEMMA Legible ==
  ASSUME IInv, NEW m \in Packets, ToServer(m), sv.state = "active"
  PROVE  ~Illegible(m) /\ m.ack >= sv.ack /\ m.ack <= cl.got /\ m.ack \in Nat /\ m.ack <= sv.seq
         /\ sv.seq - m.ack <= Max
<1>1. m.ack \in Nat /\ m.ack >= sv.ack /\ m.ack <= cl.got
  BY Fields DEF Packets, ToServer
<1>2. m.ack <= sv.seq /\ sv.seq - sv.ack <= Max
  BY <1>1, Room, Fields
<1>3. sv.seq \in Nat /\ sv.ack \in Nat /\ Max \in Nat
  BY Numbers, Limits
<1>4. sv.seq - m.ack <= Max
  BY <1>1, <1>2, <1>3
<1>5. ~Illegible(m)
  BY <1>1, <1>3, <1>4 DEF Illegible
<1> QED BY <1>1, <1>2, <1>4, <1>5

\* The server has read a message: it has a new acknowledgement, has executed the
\* commands up to LastRun, or has dropped the client.
LEMMA ServerReads ==
  ASSUME IInv, NEW i \in 1..Len(toServer), sv.state = "active", GoodServer(sv'),
         sv'.ack = toServer[i].ack, sv'.seq >= sv.seq,
         sv'.last = LastRun(toServer[i].cmds),
         svDone' = svDone \o [k \in 1..(sv'.last - sv.last) |-> toServer[i].cmds[sv.last + k]],
         misread' \subseteq {Max},
         toServer' = SubSeq(toServer, i + 1, Len(toServer)),
         UNCHANGED <<cl, toClient, clDone>>
  PROVE  IInv' /\ Len(svDone') \in Len(svDone)..cl.seq
<1> DEFINE m == toServer[i]
<1>1. m \in Packets /\ ToServer(m)
  BY Fields DEF IInv, Outbound
<1>2. /\ m.ack >= sv.ack /\ m.ack <= cl.got /\ m.ack \in Nat
  BY <1>1, Legible
<1>3. /\ sv'.last \in Nat /\ sv'.last >= sv.last /\ sv'.last <= cl.seq
      /\ \A k \in (sv.last + 1)..sv'.last : k \in DOMAIN m.cmds /\ m.cmds[k] \in Nat
  <2>1. Joins(m.cmds, sv.last, cl.seq) /\ sv.last <= cl.seq
    BY <1>1 DEF ToServer, IInv, Counts
  <2> QED BY <2>1, Fields, LastRunIs
<1>4. sv' \in ServerClient /\ sv'.seq \in Nat /\ sv'.ack <= sv'.seq
  BY DEF GoodServer, ServerClient
<1>5. ~Overrun(sv)
  BY Room
<1>6. Grows
  <2>1. cl \in Connection /\ cl' = cl
    BY Fields
  <2>2. cl'.got >= cl.got /\ cl'.seq >= cl.seq
    BY <2>1, Numbers
  <2> QED BY <1>3, <1>4, <1>5, <2>1, <2>2 DEF Grows
<1>7. Inbound'
  BY <1>6, InboundUnchanged
<1>8. /\ toServer' \in Seq(Packets) /\ Len(toServer') = Len(toServer) - i
      /\ \A k \in 1..Len(toServer') : toServer'[k] = toServer[k + i]
  BY Fields, Delivered
<1>9. Outbound'
  <2>1. Ordered(toServer') /\ \A k \in 1..Len(toServer') : m.ack <= toServer'[k].ack
    BY Fields, DeliveredOrdered DEF IInv, Outbound
  <2>2. ASSUME NEW k \in 1..Len(toServer')
        PROVE  toServer'[k] \in Packets /\ ToServer(toServer'[k])
    <3>1. toServer'[k] = toServer[k + i] /\ k + i \in 1..Len(toServer)
      <4>1. Len(toServer) \in Nat
        BY Fields
      <4>2. i \in Nat /\ k \in Nat /\ 1 <= k /\ k <= Len(toServer')
        BY <1>8, <4>1
      <4>3. Len(toServer') = Len(toServer) - i /\ toServer'[k] = toServer[k + i]
        BY <1>8
      <4>4. k <= Len(toServer) - i
        BY <4>2, <4>3
      <4>5. k + i \in 1..Len(toServer)
        BY <4>1, <4>2, <4>4
      <4> QED BY <4>3, <4>5
    <3>2. toServer[k + i] \in Packets
      BY <3>1, Fields
    <3> QED BY <3>1, <3>2 DEF IInv, Outbound
  <2>3. \A k \in 1..Len(toServer') : toServer'[k].ack >= sv'.ack
    BY <1>2, <2>1, <2>2 DEF Packets
  <2>4. \A p \in Packets : ToServer(p) /\ p.ack >= sv'.ack => ToServer(p)'
    BY <1>6, ToServerStays
  <2> QED BY <2>1, <2>2, <2>3, <2>4 DEF Outbound
<1> DEFINE run == [k \in 1..(sv'.last - sv.last) |-> m.cmds[sv.last + k]]
<1>10. /\ sv'.last - sv.last \in Nat /\ run \in Seq(Nat) /\ Len(run) = sv'.last - sv.last
       /\ \A k \in 1..(sv'.last - sv.last) :
            run[k] = m.cmds[sv.last + k] /\ sv.last + k \in DOMAIN m.cmds
  <2>1. sv'.last - sv.last \in Nat
    BY <1>3, Fields
  <2>2. \A k \in 1..(sv'.last - sv.last) : sv.last + k \in (sv.last + 1)..sv'.last
    <3>1. sv.last \in Nat /\ sv'.last \in Nat
      BY <1>3, Numbers
    <3> DEFINE a == sv.last
               b == sv'.last
    <3>2. a \in Nat /\ b \in Nat
      BY <3>1
    <3> HIDE DEF a, b
    <3>3. \A k \in 1..(b - a) : a + k \in (a + 1)..b
      BY <3>2
    <3> QED BY <3>3 DEF a, b
  <2>3. \A k \in 1..(sv'.last - sv.last) :
          m.cmds[sv.last + k] \in Nat /\ sv.last + k \in DOMAIN m.cmds
    BY <1>3, <2>2
  <2> DEFINE c == m.cmds
             l == sv.last
             n == sv'.last - sv.last
  <2> HIDE DEF m
  <2>4. n \in Nat /\ \A k \in 1..n : c[l + k] \in Nat /\ l + k \in DOMAIN c
    BY <2>1, <2>3
  <2> HIDE DEF c, l, n
  <2>5. LET r == [k \in 1..n |-> c[l + k]]
        IN  r \in Seq(Nat) /\ Len(r) = n /\ \A k \in 1..n : r[k] = c[l + k]
    BY <2>4
  <2> QED BY <2>4, <2>5 DEF c, l, n
<1> HIDE DEF run
<1>11. /\ svDone' \in Seq(Nat) /\ Len(svDone') = Len(svDone) + (sv'.last - sv.last)
       /\ \A k \in 1..Len(svDone') :
            svDone'[k] = IF k <= Len(svDone) THEN svDone[k] ELSE run[k - Len(svDone)]
  <2>1. svDone' = svDone \o run
    BY DEF run
  <2>2. svDone \in Seq(Nat)
    BY Fields
  <2> DEFINE r == run
             d == svDone
             n == sv'.last - sv.last
             e == svDone'
  <2>3. r \in Seq(Nat) /\ Len(r) = n /\ n \in Nat /\ d \in Seq(Nat) /\ e = d \o r
    BY <1>10, <2>1, <2>2
  <2> HIDE DEF r, d, n, e
  <2>4. /\ d \o r \in Seq(Nat) /\ Len(d \o r) = Len(d) + n
        /\ \A k \in 1..Len(d \o r) : (d \o r)[k] = IF k <= Len(d) THEN d[k] ELSE r[k - Len(d)]
    BY <2>3, ConcatProperties
  <2>5. /\ e \in Seq(Nat) /\ Len(e) = Len(d) + n
        /\ \A k \in 1..Len(e) : e[k] = IF k <= Len(d) THEN d[k] ELSE r[k - Len(d)]
    BY <2>3, <2>4
  <2> QED BY <2>5, ZenonT(60) DEF r, d, n, e
<1>12. Executed'
  <2>1. Len(svDone) = sv.last
    BY DEF IInv, Executed
  <2>2. Len(svDone') = sv'.last
    <3> DEFINE a == sv.last
               b == sv'.last
               l == Len(svDone')
    <3>1. a \in Nat /\ b \in Nat
      BY <1>3, Numbers
    <3>2. l = a + (b - a)
      BY <1>11, <2>1, Zenon
    <3> HIDE DEF a, b, l
    <3>3. l = b
      BY <3>1, <3>2
    <3> QED BY <3>3 DEF b, l
  <2>3. ASSUME ~Overrun(cl) PROVE InOrder(svDone')
    <3>1. Exact(m.cmds) /\ InOrder(svDone)
      BY <1>1, <2>3 DEF ToServer, IInv, Executed
    <3>2. ASSUME NEW k \in 1..Len(svDone') PROVE svDone'[k] = k
      <4>1. CASE k <= Len(svDone)
        BY <1>11, <3>1, <4>1, Fields DEF InOrder
      <4>2. CASE ~(k <= Len(svDone))
        <5>1. k - sv.last \in 1..(sv'.last - sv.last) /\ sv.last + (k - sv.last) = k
          <6>1. k \in 1..sv'.last /\ k > sv.last /\ sv.last \in Nat /\ sv'.last \in Nat
            BY <1>3, <2>1, <2>2, <3>2, <4>2, Numbers
          <6> QED BY <6>1
        <5>2. svDone'[k] = m.cmds[k] /\ k \in DOMAIN m.cmds
          BY <1>10, <1>11, <2>1, <4>2, <5>1
        <5> QED BY <3>1, <5>2 DEF Exact
      <4> QED BY <4>1, <4>2
    <3> QED BY <3>2 DEF InOrder
  <2> QED BY <2>2, <2>3, <1>5 DEF IInv, Executed
<1>13. Typed'
  <2>1. Len(toServer') <= MaxInFlight
    BY <1>8, Fields, Limits
  <2> QED BY <1>4, <1>8, <1>11, <2>1 DEF IInv, Typed, TypeOK
<1>14. Rings'
  BY <1>5 DEF IInv, Rings, GoodServer
<1>15. Counts'
  <2>0. /\ cl.got <= sv.seq /\ cl.ack <= sv.last /\ cl.got \in Nat /\ cl.ack \in Nat
        /\ sv.seq \in Nat /\ sv.last \in Nat
    BY Room, Numbers
  <2>1. cl.got <= sv'.seq /\ cl.ack <= sv'.last
    BY <1>3, <1>4, <2>0
  <2> QED BY <1>2, <1>3, <2>1 DEF IInv, Counts
<1>16. KeysAgreeWithRoom' /\ GameTold'
  BY DEF KeysAgreeWithRoom, GameTold, GoodServer
<1>17. Len(svDone') \in Len(svDone)..cl.seq
  <2>1. Len(svDone) = sv.last /\ sv.last \in Nat /\ cl.seq \in Nat
    BY Numbers DEF IInv, Executed
  <2>2. Len(svDone') = sv'.last
    BY <1>3, <1>11, <2>1
  <2> QED BY <1>3, <2>1, <2>2
<1> QED BY <1>7, <1>9, <1>12, <1>13, <1>14, <1>15, <1>16, <1>17 DEF IInv

LEMMA ReadInv ==
  ASSUME IInv, NEW i \in 1..Len(toServer), SV_ExecuteClientMessage(i)
  PROVE  IInv' /\ sv'.seq >= sv.seq /\ Len(svDone') \in Len(svDone)..cl.seq
<1>0. PICK m \in Packets : m = toServer[i] /\ ToServer(m)
  BY Fields DEF IInv, Outbound
<1> DEFINE ack == [sv EXCEPT !.ack = m.ack]
           run == [ack EXCEPT !.last = LastRun(m.cmds)]
<1>1. sv.state = "active" /\ UNCHANGED <<cl, toClient, clDone>>
      /\ toServer' = SubSeq(toServer, i + 1, Len(toServer))
  BY DEF SV_ExecuteClientMessage
<1>2. /\ ~Illegible(m) /\ m.ack >= sv.ack /\ m.ack <= cl.got /\ m.ack \in Nat
      /\ m.ack <= sv.seq /\ sv.seq - m.ack <= Max
  BY <1>0, <1>1, Legible
<1>3. ~Gap(m.cmds) /\ LastRun(m.cmds) \in Nat
  <2>1. Joins(m.cmds, sv.last, cl.seq) /\ sv.last \in Nat /\ cl.seq \in Nat
    BY <1>0, Numbers DEF ToServer
  <2> QED BY <2>1, LastRunIs
<1>4. /\ run \in ServerClient /\ run.seq = sv.seq /\ run.ack = m.ack /\ run.last = LastRun(m.cmds)
      /\ run.cmds = sv.cmds /\ run.state = "active" /\ run.calls = sv.calls
  <2>1. /\ ack \in ServerClient /\ ack.seq = sv.seq /\ ack.ack = m.ack /\ ack.cmds = sv.cmds
        /\ ack.state = "active" /\ ack.calls = sv.calls
    BY <1>1, <1>2, Fields DEF ServerClient
  <2> HIDE DEF ack
  <2>2. run \in ServerClient
    BY <1>3, <2>1 DEF ServerClient
  <2>3. /\ run.seq = ack.seq /\ run.ack = ack.ack /\ run.last = LastRun(m.cmds)
        /\ run.cmds = ack.cmds /\ run.state = ack.state /\ run.calls = ack.calls
    BY <2>1 DEF ServerClient
  <2> HIDE DEF run
  <2> QED BY <2>1, <2>2, <2>3
<1>5. /\ svDone' = svDone \o [k \in 1..(run.last - sv.last) |-> m.cmds[sv.last + k]]
      /\ \/ sv' = DropClient(run) /\ UNCHANGED misread
         \/ /\ sv' = run
            /\ misread' = IF m.key = sv.cmds[m.ack % Max] THEN misread
                          ELSE misread \union {sv.seq - m.ack}
  BY <1>0, <1>2, <1>3 DEF SV_ExecuteClientMessage
<1> HIDE DEF ack, run
<1>6. GoodServer(run)
  <2>1. ~Overrun(sv) /\ Ring(sv.cmds, sv.seq) /\ sv.calls = 0
    BY <1>1, Room, ServerIsGood, Fields DEF GoodServer
  <2>2. run.ack <= run.seq /\ run.seq - run.ack <= Max
    BY <1>2, <1>4
  <2> QED BY <1>4, <2>1, <2>2 DEF GoodServer
<1>7. /\ GoodServer(sv') /\ sv'.ack = m.ack /\ sv'.last = LastRun(m.cmds) /\ sv'.seq >= sv.seq
      /\ misread' \subseteq {Max}
  <2>1. misread \subseteq {Max}
    BY DEF IInv, KeysAgreeWithRoom
  <2>2. CASE sv' = DropClient(run) /\ UNCHANGED misread
    <3>1. GoodServer(sv') /\ sv'.ack = run.ack /\ sv'.last = run.last /\ sv'.seq > run.seq
      BY <1>4, <1>6, <2>2, DropIs
    <3>2. sv'.seq \in Nat /\ sv.seq \in Nat
      BY <3>1, Numbers DEF GoodServer, ServerClient
    <3>3. sv'.seq >= sv.seq
      BY <1>4, <3>1, <3>2
    <3> QED BY <1>4, <2>1, <2>2, <3>1, <3>3
  <2>3. CASE /\ sv' = run
             /\ misread' = IF m.key = sv.cmds[m.ack % Max] THEN misread
                           ELSE misread \union {sv.seq - m.ack}
    <3>1. sv.seq - m.ack < Max => m.key = sv.cmds[m.ack % Max]
      <4>1. ~Overrun(sv) /\ Ring(sv.cmds, sv.seq) /\ m.key = m.ack
        BY <1>0, <1>1, Room DEF ToServer
      <4>2. m.ack \in 0..sv.seq
        BY <1>2, Numbers
      <4> QED BY <4>1, <4>2 DEF Ring
    <3>2. sv.seq - m.ack < Max \/ sv.seq - m.ack = Max
      BY <1>2, Numbers, Limits
    <3>3. misread' \subseteq {Max}
      BY <2>1, <2>3, <3>1, <3>2
    <3>4. sv'.seq >= sv.seq
      BY <1>4, <2>3, Numbers
    <3> QED BY <1>4, <1>6, <2>3, <3>3, <3>4
  <2> QED BY <1>5, <2>2, <2>3
<1>8. /\ sv'.ack = toServer[i].ack /\ sv'.last = LastRun(toServer[i].cmds)
      /\ svDone' = svDone \o [k \in 1..(sv'.last - sv.last) |-> toServer[i].cmds[sv.last + k]]
  BY <1>0, <1>4, <1>5, <1>7
<1> QED BY <1>1, <1>7, <1>8, ServerReads

-----------------------------------------------------------------------------
(* The steps of the client.                                                   *)

\* What the invariant says of the client's clc by itself.
GoodClient(c) ==
  /\ c \in Connection /\ c.ack <= c.seq
  /\ c.state = "active" => c.seq - c.ack <= Max
  /\ ~Overrun(c) => Ring(c.cmds, c.seq)

LEMMA ClientIsGood == ASSUME IInv PROVE GoodClient(cl)
BY Fields, Room DEF GoodClient

\* A command is added, with room for it or as the last one.
LEMMA ClientAdds ==
  ASSUME NEW c \in Connection, GoodClient(c), c.state = "active"
  PROVE  /\ c.seq - c.ack < Max => GoodClient(Stored(c))
         /\ GoodClient(Disconnected(c))
<1>0. /\ c.seq \in Nat /\ c.ack \in Nat /\ c.cmds \in [0..(Max - 1) -> Nat]
      /\ c.ack <= c.seq /\ c.seq - c.ack <= Max
  BY DEF GoodClient, Connection
<1>1. Ring(c.cmds, c.seq)
  BY <1>0, Limits DEF GoodClient, Overrun
<1>2. Ring([c.cmds EXCEPT ![(c.seq + 1) % Max] = c.seq + 1], c.seq + 1)
  BY <1>0, <1>1, RingStored
<1>3. c.ack <= c.seq + 1 /\ (c.seq - c.ack < Max => c.seq + 1 - c.ack <= Max)
  BY <1>0, Limits
<1>4. c.seq - c.ack < Max => GoodClient(Stored(c))
  <2> DEFINE d == Stored(c)
  <2>1. /\ d \in Connection /\ d.seq = c.seq + 1 /\ d.ack = c.ack
        /\ d.cmds = [c.cmds EXCEPT ![(c.seq + 1) % Max] = c.seq + 1]
    BY StoredByCl
  <2> HIDE DEF d
  <2>2. Ring(d.cmds, d.seq) /\ d.ack <= d.seq
    BY <1>2, <1>3, <2>1
  <2>3. c.seq - c.ack < Max => d.seq - d.ack <= Max
    <3>1. d.seq = c.seq + 1 /\ d.ack = c.ack
      BY <2>1
    <3> QED BY <1>0, <3>1, Limits
  <2>4. c.seq - c.ack < Max => GoodClient(d)
    BY <2>1, <2>2, <2>3 DEF GoodClient
  <2> QED BY <2>4 DEF d
<1>5. GoodClient(Disconnected(c))
  <2> DEFINE d == Disconnected(c)
  <2>1. /\ d \in Connection /\ d.seq = c.seq + 1 /\ d.ack = c.ack /\ d.state = "disconnected"
        /\ d.cmds = [c.cmds EXCEPT ![(c.seq + 1) % Max] = c.seq + 1]
    BY DisconnectedIs
  <2> HIDE DEF d
  <2>2. GoodClient(d)
    BY <1>2, <1>3, <2>1 DEF GoodClient
  <2> QED BY <2>2 DEF d
<1> QED BY <1>4, <1>5

\* The client adds commands, sends what it has, or moves on in the list of
\* snapshots: what it has received stays.
LEMMA ClientActs ==
  ASSUME IInv, cl.state = "active", GoodClient(cl'), cl'.seq >= cl.seq, cl'.ack = cl.ack,
         cl'.got = cl.got, cl'.gotCmds = cl.gotCmds, cl'.ran <= cl.got, cl'.snaps \subseteq cl.snaps,
         toServer' = toServer \/ toServer' = Send(toServer, Packet(cl')),
         clDone' \in Seq(Nat), cl'.state = "active" => Len(clDone') = cl'.ran,
         ~Overrun(sv) => InOrder(clDone'),
         UNCHANGED <<sv, toClient, misread, svDone>>
  PROVE  IInv'
<1>1. /\ cl' \in Connection /\ cl'.seq \in Nat /\ cl'.ack \in Nat /\ cl'.got \in Nat
      /\ cl'.cmds \in [0..(Max - 1) -> Nat] /\ cl'.gotCmds \in [0..(Max - 1) -> Nat]
  BY DEF GoodClient, Connection
<1>2. Grows
  <2>1. ~Overrun(cl) /\ sv \in ServerClient
    BY Room, Fields
  <2>2. sv.seq >= sv.seq /\ sv.last >= sv.last /\ cl.got >= cl.got
    BY Numbers
  <2> QED BY <1>1, <2>1, <2>2 DEF Grows
<1>3. Inbound'
  BY <1>2, InboundUnchanged
<1>4. cl'.ack <= cl'.seq /\ cl'.ack <= sv.last /\ sv.ack <= cl'.got
  <2>1. cl.ack <= sv.last /\ sv.ack <= cl.got
    BY Room
  <2> QED BY <2>1 DEF GoodClient
<1>5. /\ Unacknowledged(cl') \in [(cl'.ack + 1)..cl'.seq -> Nat]
      /\ ~Overrun(cl') => Exact(Unacknowledged(cl'))
  <2>1. ~Overrun(cl') => cl'.seq - cl'.ack <= Max /\ Ring(cl'.cmds, cl'.seq)
    BY <1>1, Limits DEF GoodClient, Overrun
  <2>2. cl'.ack \in 0..cl'.seq
    BY <1>1, <1>4
  <2> QED BY <1>1, <2>1, <2>2, UnacknowledgedOf DEF Unacknowledged
<1>6. cl'.gotCmds[cl'.got % Max] \in Nat /\ (~Overrun(sv) => cl'.gotCmds[cl'.got % Max] = cl'.got)
  <2>1. cl'.got % Max \in 0..(Max - 1)
    BY <1>1, SlotNumber
  <2>2. ASSUME ~Overrun(sv) PROVE cl'.gotCmds[cl'.got % Max] = cl'.got
    <3>1. Ring(cl'.gotCmds, cl'.got)
      BY <2>2, Room
    <3>2. cl'.got \in 0..cl'.got /\ cl'.got - cl'.got < Max
      BY <1>1, Limits
    <3> QED BY <3>1, <3>2 DEF Ring
  <2> QED BY <1>1, <2>1, <2>2
<1>7. PICK m \in Packets : m = Packet(cl')
  <2>1. Unacknowledged(cl') \in Numbered
    BY <1>1, <1>5, InNumbered
  <2> QED BY <1>1, <1>6, <2>1 DEF Packets, Packet
<1>8. m.ack = cl'.got /\ m.key = cl'.gotCmds[cl'.got % Max] /\ m.cmds = Unacknowledged(cl')
  BY <1>7 DEF Packet
<1>9. ToServer(m)'
  <2>1. sv.last \in Nat /\ cl'.seq \in Nat
    BY <1>1, Numbers
  <2>2. Joins(m.cmds, sv.last, cl'.seq)
    <3>1. cl'.ack \in 0..sv.last /\ cl'.seq \in 0..cl'.seq
      BY <1>1, <1>4, <2>1
    <3> QED BY <1>5, <1>8, <3>1 DEF Joins
  <2>3. m.ack \in sv.ack..cl'.got
    BY <1>1, <1>4, <1>8, Numbers
  <2>4. (~Overrun(cl') => Exact(m.cmds)) /\ (~Overrun(sv) => m.key = m.ack)
    BY <1>5, <1>6, <1>8
  <2>5. sv' = sv
    OBVIOUS
  <2> QED BY <2>2, <2>3, <2>4, <2>5 DEF ToServer
<1>10. \A i \in 1..Len(toServer) : toServer[i] \in Packets /\ ToServer(toServer[i])
  BY Fields DEF IInv, Outbound
<1>11. \A i \in 1..Len(toServer) : toServer[i].ack <= m.ack
  <2>1. m.ack = cl.got
    BY <1>8
  <2> QED BY <1>10, <2>1, Numbers DEF ToServer, Packets
<1>12. \A p \in Packets : ToServer(p) => ToServer(p)'
  <2>1. \A p \in Packets : ToServer(p) => p.ack >= sv'.ack
    BY Numbers DEF ToServer, Packets
  <2> QED BY <1>2, <2>1, ToServerStays
<1>13. /\ toServer' \in Seq(Packets) /\ Len(toServer') <= MaxInFlight /\ Ordered(toServer')
       /\ \A i \in 1..Len(toServer') :
            toServer'[i] = m \/ \E k \in 1..Len(toServer) : toServer'[i] = toServer[k]
  <2>1. toServer \in Seq(Packets) /\ Len(toServer) <= MaxInFlight /\ Ordered(toServer)
    BY Fields DEF IInv, Outbound
  <2>2. CASE toServer' = toServer
    BY <2>1, <2>2
  <2>3. CASE toServer' = Send(toServer, m)
    <3>1. /\ Send(toServer, m) \in Seq(Packets) /\ Len(Send(toServer, m)) <= MaxInFlight
          /\ Len(Send(toServer, m)) \in {Len(toServer), Len(toServer) + 1}
          /\ \A i \in 1..Len(Send(toServer, m)) :
               Send(toServer, m)[i] = IF i <= Len(toServer) THEN toServer[i] ELSE m
      BY <2>1, Sent
    <3>2. Ordered(toServer')
      <4>1. \A k \in Packets : k.ack \in Nat
        BY DEF Packets
      <4> QED BY <1>11, <2>1, <2>3, <4>1, SentOrdered
    <3> QED BY <2>1, <2>3, <3>1, <3>2
  <2> QED BY <1>7, <2>2, <2>3
<1>14. Outbound'
  <2>1. ASSUME NEW i \in 1..Len(toServer') PROVE ToServer(toServer[i])'
    <3>1. PICK p \in Packets : p = toServer'[i] /\ ToServer(p)'
      <4>1. CASE toServer'[i] = m
        BY <1>9, <4>1
      <4>2. CASE \E k \in 1..Len(toServer) : toServer'[i] = toServer[k]
        <5>1. PICK k \in 1..Len(toServer) : toServer'[i] = toServer[k]
          BY <4>2
        <5>2. PICK p \in Packets : p = toServer[k] /\ ToServer(p)
          BY <1>10
        <5>3. ToServer(p)'
          BY <1>12, <5>2
        <5> QED BY <5>1, <5>2, <5>3
      <4> QED BY <1>13, <4>1, <4>2
    <3> QED BY <3>1
  <2> QED BY <1>13, <2>1 DEF Outbound
<1>15. Typed'
  BY <1>1, <1>13 DEF IInv, Typed, TypeOK
<1>16. Rings'
  BY DEF IInv, Rings, GoodClient
<1>17. Counts'
  <2>1. sv.last <= cl'.seq
    BY <1>1, Room, Numbers
  <2> QED BY <1>4, <2>1 DEF IInv, Counts
<1>18. Executed'
  <2>1. ~Overrun(cl)
    BY Room
  <2> QED BY <2>1 DEF IInv, Executed
<1> QED BY <1>3, <1>14, <1>15, <1>16, <1>17, <1>18 DEF IInv, KeysAgreeWithRoom, GameTold

\* The client adds a command with room for it, or disconnects.
LEMMA ClientAddsInv ==
  ASSUME IInv, cl.state = "active",
         \/ cl' = Stored(cl) /\ cl.seq - cl.ack < Max /\ UNCHANGED toServer
         \/ cl' = Disconnected(cl) /\ toServer' = Send(toServer, Packet(cl')),
         clDone' \in Seq(Nat), cl'.state = "active" => clDone' = clDone,
         ~Overrun(sv) => InOrder(clDone'),
         UNCHANGED <<sv, toClient, misread, svDone>>
  PROVE  IInv'
<1>1. GoodClient(cl) /\ cl \in Connection
  BY ClientIsGood, Fields
<1>2. /\ GoodClient(cl') /\ cl'.seq = cl.seq + 1 /\ cl'.ack = cl.ack /\ cl'.got = cl.got
      /\ cl'.gotCmds = cl.gotCmds /\ cl'.ran = cl.ran /\ cl'.snaps = cl.snaps
  <2>1. CASE cl' = Stored(cl) /\ cl.seq - cl.ack < Max
    <3>1. GoodClient(cl')
      BY <1>1, <2>1, ClientAdds
    <3> QED BY <1>1, <2>1, <3>1, StoredByCl
  <2>2. CASE cl' = Disconnected(cl)
    <3>1. GoodClient(cl')
      BY <1>1, <2>2, ClientAdds
    <3> QED BY <1>1, <2>2, <3>1, DisconnectedIs
  <2> QED BY <2>1, <2>2
<1>3. cl'.seq >= cl.seq /\ cl'.ran <= cl.got /\ Len(clDone) = cl.ran
  BY <1>2, Numbers, Room DEF IInv, Executed
<1>4. cl'.state = "active" => Len(clDone') = cl'.ran
  BY <1>2, <1>3
<1> QED BY <1>2, <1>3, <1>4, ClientActs

LEMMA AddCommandInv == ASSUME IInv, CL_AddReliableCommand PROVE IInv' /\ cl'.seq >= cl.seq
<1>1. /\ cl.state = "active"
      /\ UNCHANGED <<sv, toClient, misread, svDone, clDone>>
      /\ IF cl.seq - cl.ack >= Max
         THEN cl' = Disconnected(cl) /\ toServer' = Send(toServer, Packet(cl'))
         ELSE cl' = Stored(cl) /\ UNCHANGED toServer
  BY DEF CL_AddReliableCommand
<1>2. ~(cl.seq - cl.ack >= Max) => cl.seq - cl.ack < Max
  BY Numbers, Limits
<1>3. clDone \in Seq(Nat) /\ (~Overrun(sv) => InOrder(clDone))
  BY Fields DEF IInv, Executed
<1>4. cl'.seq >= cl.seq
  <2>1. cl'.seq = cl.seq + 1
    <3>1. cl \in Connection
      BY Fields
    <3> QED BY <1>1, <3>1, StoredByCl, DisconnectedIs
  <2> QED BY <2>1, Numbers
<1> QED BY <1>1, <1>2, <1>3, <1>4, ClientAddsInv

LEMMA DisconnectInv == ASSUME IInv, CL_Disconnect PROVE IInv' /\ cl'.seq >= cl.seq
<1>1. /\ cl.state = "active" /\ cl' = Disconnected(cl) /\ toServer' = Send(toServer, Packet(cl'))
      /\ UNCHANGED <<sv, toClient, misread, svDone, clDone>>
  BY DEF CL_Disconnect
<1>2. clDone \in Seq(Nat) /\ (~Overrun(sv) => InOrder(clDone))
  BY Fields DEF IInv, Executed
<1>3. cl'.seq >= cl.seq
  <2>1. cl'.seq = cl.seq + 1
    BY <1>1, Fields, DisconnectedIs
  <2> QED BY <2>1, Numbers
<1> QED BY <1>1, <1>2, <1>3, ClientAddsInv

LEMMA PacketInv == ASSUME IInv, CL_WritePacket PROVE IInv'
<1>1. /\ cl.state = "active" /\ toServer' = Send(toServer, Packet(cl)) /\ cl' = cl
      /\ UNCHANGED <<sv, toClient, misread, svDone, clDone>>
  BY DEF CL_WritePacket
<1>2. GoodClient(cl') /\ toServer' = Send(toServer, Packet(cl'))
  BY <1>1, ClientIsGood
<1>3. /\ clDone \in Seq(Nat) /\ (~Overrun(sv) => InOrder(clDone)) /\ Len(clDone) = cl.ran
      /\ cl.ran <= cl.got
  BY <1>1, Fields, Room DEF IInv, Executed
<1>4. cl'.seq >= cl.seq
  BY <1>1, Numbers
<1> QED BY <1>1, <1>2, <1>3, <1>4, ClientActs

\* The commands the cgame asks for are those of their numbers, and follow those
\* it has executed.
LEMMA AskedIs ==
  ASSUME IInv, cl.state = "active", NEW n \in Nat, n > cl.ran, n <= cl.got, ~CycledOut(n)
  PROVE  /\ Asked(n) \in Seq(Nat) /\ Len(Asked(n)) = n - cl.ran
         /\ ~Overrun(sv) => \A i \in 1..(n - cl.ran) : Asked(n)[i] = cl.ran + i
<1>1. cl.ran \in Nat /\ cl.got \in Nat /\ cl.gotCmds \in [0..(Max - 1) -> Nat] /\ n - cl.ran \in Nat
  BY Fields
<1>2. \A i \in 1..(n - cl.ran) : cl.gotCmds[(cl.ran + i) % Max] \in Nat
  <2>1. \A i \in 1..(n - cl.ran) : cl.ran + i \in Nat
    BY <1>1
  <2>2. \A i \in 1..(n - cl.ran) : (cl.ran + i) % Max \in 0..(Max - 1)
    BY <2>1, SlotNumber
  <2> QED BY <1>1, <2>2
<1>3. Asked(n) \in Seq(Nat) /\ Len(Asked(n)) = n - cl.ran
      /\ \A i \in 1..(n - cl.ran) : Asked(n)[i] = cl.gotCmds[(cl.ran + i) % Max]
  <2> DEFINE l == n - cl.ran
             f(i) == cl.gotCmds[(cl.ran + i) % Max]
  <2>1. l \in Nat /\ \A i \in 1..l : f(i) \in Nat
    BY <1>1, <1>2
  <2>2. Asked(n) = [i \in 1..l |-> f(i)]
    BY DEF Asked
  <2> HIDE DEF l, f
  <2>3. Asked(n) \in Seq(Nat) /\ Len(Asked(n)) = l /\ \A i \in 1..l : Asked(n)[i] = f(i)
    BY <2>1, <2>2
  <2> QED BY <2>3 DEF l, f
<1>4. ASSUME ~Overrun(sv), NEW i \in 1..(n - cl.ran) PROVE Asked(n)[i] = cl.ran + i
  <2>1. Ring(cl.gotCmds, cl.got)
    BY <1>4, Room
  <2>2. /\ cl.ran \in Nat /\ cl.got \in Nat /\ n \in Nat /\ Max \in Nat
        /\ n <= cl.got /\ cl.got - cl.ran <= Max
    BY <1>1, Limits DEF CycledOut
  <2>3. cl.ran + i \in 0..cl.got /\ cl.got - (cl.ran + i) < Max
    BY <2>2
  <2> QED BY <1>3, <2>1, <2>3 DEF Ring
<1> QED BY <1>3, <1>4

LEMMA ExecuteInv ==
  ASSUME IInv, NEW n \in cl.snaps, CG_ExecuteNewServerCommands(n)
  PROVE  IInv' /\ cl'.seq >= cl.seq /\ Len(clDone') \in Len(clDone)..cl.got
<1> DEFINE cmds == IF n > cl.ran /\ ~CycledOut(n) THEN Asked(n) ELSE <<>>
<1>1. /\ cl.state = "active" /\ UNCHANGED <<sv, toClient, misread, svDone>>
      /\ clDone' = clDone \o cmds
      /\ \/ cl' = Disconnected(cl) /\ toServer' = Send(toServer, Packet(cl'))
         \/ /\ cl' = [cl EXCEPT !.ran = IF n > cl.ran THEN n ELSE cl.ran,
                                !.snaps = {k \in cl.snaps : k > n}]
            /\ UNCHANGED toServer /\ ~CycledOut(n)
  BY DEF CG_ExecuteNewServerCommands
<1>2. n \in Nat /\ n <= cl.got /\ cl.ran \in Nat
  BY Fields DEF IInv, Counts
<1>3. /\ clDone \in Seq(Nat) /\ Len(clDone) = cl.ran
      /\ ~Overrun(sv) => InOrder(clDone)
  BY <1>1, Fields DEF IInv, Executed
<1>4. /\ cmds \in Seq(Nat)
      /\ ~CycledOut(n) => Len(cmds) = IF n > cl.ran THEN n - cl.ran ELSE 0
      /\ ~Overrun(sv) => \A i \in 1..Len(cmds) : cmds[i] = cl.ran + i
  <2>1. CASE n > cl.ran /\ ~CycledOut(n)
    BY <1>1, <1>2, <2>1, AskedIs
  <2>2. CASE ~(n > cl.ran /\ ~CycledOut(n))
    BY <2>2
  <2> QED BY <2>1, <2>2
<1> HIDE DEF cmds
<1>5. /\ clDone' \in Seq(Nat) /\ Len(clDone') = cl.ran + Len(cmds)
      /\ \A i \in 1..Len(clDone') :
           clDone'[i] = IF i <= cl.ran THEN clDone[i] ELSE cmds[i - cl.ran]
  <2> DEFINE c == cmds
             d == clDone
             r == cl.ran
  <2>1. c \in Seq(Nat) /\ d \in Seq(Nat) /\ Len(d) = r
    BY <1>3, <1>4
  <2> HIDE DEF c, d, r
  <2>2. /\ d \o c \in Seq(Nat) /\ Len(d \o c) = r + Len(c)
        /\ \A i \in 1..Len(d \o c) : (d \o c)[i] = IF i <= r THEN d[i] ELSE c[i - r]
    BY <2>1, ConcatProperties
  <2> QED BY <1>1, <2>2 DEF c, d, r
<1>6. ~Overrun(sv) => InOrder(clDone')
  <2> SUFFICES ASSUME ~Overrun(sv), NEW i \in 1..Len(clDone') PROVE clDone'[i] = i
    BY DEF InOrder
  <2>0. Len(cmds) \in Nat /\ i \in Nat
    BY <1>4, <1>5
  <2>1. CASE i <= cl.ran
    BY <1>2, <1>3, <1>5, <2>0, <2>1 DEF InOrder
  <2>2. CASE ~(i <= cl.ran)
    <3>1. i - cl.ran \in 1..Len(cmds) /\ cl.ran + (i - cl.ran) = i
      BY <1>2, <1>5, <2>0, <2>2
    <3> QED BY <1>4, <1>5, <2>2, <3>1
  <2> QED BY <2>1, <2>2
<1>7. Len(clDone') \in Len(clDone)..cl.got
  <2>1. Len(cmds) \in 0..(cl.got - cl.ran)
    <3>1. cmds # <<>> => ~CycledOut(n) /\ n > cl.ran
      BY DEF cmds
    <3>2. cl.ran <= cl.got /\ cl.got \in Nat
      BY Room, Numbers
    <3>3. CASE cmds = <<>>
      BY <1>2, <3>2, <3>3
    <3>4. CASE cmds # <<>>
      BY <1>2, <1>4, <3>1, <3>2, <3>4
    <3> QED BY <3>3, <3>4
  <2> QED BY <1>2, <1>3, <1>5, <2>1, Numbers
<1>8. CASE cl' = Disconnected(cl) /\ toServer' = Send(toServer, Packet(cl'))
  <2>1. cl'.state = "disconnected"
    BY <1>8, Fields, DisconnectedIs
  <2>2. cl'.seq >= cl.seq
    <3>1. cl'.seq = cl.seq + 1
      BY <1>8, Fields, DisconnectedIs
    <3> QED BY <3>1, Numbers
  <2> QED BY <1>1, <1>5, <1>6, <1>7, <1>8, <2>1, <2>2, ClientAddsInv
<1>9. CASE /\ cl' = [cl EXCEPT !.ran = IF n > cl.ran THEN n ELSE cl.ran,
                               !.snaps = {k \in cl.snaps : k > n}]
           /\ UNCHANGED toServer /\ ~CycledOut(n)
  <2> DEFINE ran == IF n > cl.ran THEN n ELSE cl.ran
             snaps == {k \in cl.snaps : k > n}
  <2>1. ran \in Nat /\ snaps \in SUBSET Nat /\ cl \in Connection
    BY <1>2, Fields
  <2>2. cl' = [cl EXCEPT !.ran = ran, !.snaps = snaps]
    BY <1>9
  <2>3. ran <= cl.got /\ snaps \subseteq cl.snaps /\ ran = cl.ran + Len(cmds)
    BY <1>2, <1>4, <1>9, Room
  <2> HIDE DEF ran, snaps
  <2>4. cl' \in Connection
    BY <2>1, <2>2, Zenon DEF Connection
  <2>5. /\ cl'.seq = cl.seq /\ cl'.ack = cl.ack /\ cl'.cmds = cl.cmds /\ cl'.got = cl.got
        /\ cl'.gotCmds = cl.gotCmds /\ cl'.state = cl.state /\ cl'.ran = ran /\ cl'.snaps = snaps
    BY <2>1, <2>2 DEF Connection
  <2>6. GoodClient(cl') /\ cl'.seq >= cl.seq
    <3>1. GoodClient(cl') <=> GoodClient(cl)
      BY <2>1, <2>4, <2>5 DEF GoodClient, Overrun
    <3> QED BY <2>5, <3>1, ClientIsGood, Numbers
  <2> QED BY <1>1, <1>5, <1>6, <1>7, <1>9, <2>3, <2>5, <2>6, ClientActs
<1> QED BY <1>1, <1>8, <1>9

LEMMA ParseInv ==
  ASSUME IInv, NEW i \in 1..Len(toClient), CL_ParseServerMessage(i)
  PROVE  IInv' /\ cl'.seq = cl.seq
<1>0. PICK m \in Snapshots : m = toClient[i] /\ ToClient(m)
  BY Fields DEF IInv, Inbound
<1> DEFINE a == [cl EXCEPT !.ack = IF m.ack < cl.seq - Max THEN cl.seq ELSE m.ack]
           c == Received(a, m.cmds)
<1>1. /\ cl.state = "active" /\ cl' = [c EXCEPT !.snaps = c.snaps \union {c.got}]
      /\ toClient' = SubSeq(toClient, i + 1, Len(toClient))
      /\ UNCHANGED <<sv, toServer, misread, svDone, clDone>>
  BY <1>0 DEF CL_ParseServerMessage
<1>2. /\ m.ack \in Nat /\ m.ack >= cl.ack /\ m.ack <= sv.last /\ m.ack <= cl.seq
      /\ cl.seq - m.ack <= Max /\ ~(m.ack < cl.seq - Max)
  <2>1. m.ack \in Nat /\ m.ack >= cl.ack /\ m.ack <= sv.last
    BY <1>0, Numbers DEF Snapshots, ToClient
  <2>2. cl.seq - cl.ack <= Max /\ sv.last <= cl.seq
    BY <1>1, Room
  <2> QED BY <2>1, <2>2, Numbers, Limits
<1>3. /\ a \in Connection /\ a.seq = cl.seq /\ a.ack = m.ack /\ a.cmds = cl.cmds /\ a.got = cl.got
      /\ a.gotCmds = cl.gotCmds /\ a.snaps = cl.snaps /\ a.ran = cl.ran /\ a.state = "active"
  BY <1>1, <1>2, Fields DEF Connection
<1> HIDE DEF a
<1>4. Joins(m.cmds, a.got, sv.seq)
  BY <1>0, <1>3 DEF ToClient
<1>5. /\ c \in Connection /\ c.seq = cl.seq /\ c.ack = m.ack /\ c.cmds = cl.cmds
      /\ c.snaps = cl.snaps /\ c.ran = cl.ran /\ c.state = "active"
      /\ c.got >= cl.got /\ (c.got <= sv.seq \/ c.got = cl.got)
      /\ Exact(m.cmds) /\ Ring(cl.gotCmds, cl.got) => Ring(c.gotCmds, c.got)
  BY <1>3, <1>4, Numbers, ReceivedIs
<1> HIDE DEF c
<1>6. c.got \in Nat /\ c.snaps \in SUBSET Nat /\ c.got <= sv.seq /\ cl.got <= sv.seq
  BY <1>5, Room DEF Connection
<1>7. /\ cl' \in Connection /\ cl'.seq = cl.seq /\ cl'.ack = m.ack /\ cl'.cmds = cl.cmds
      /\ cl'.snaps = cl.snaps \union {c.got} /\ cl'.ran = cl.ran /\ cl'.state = "active"
      /\ cl'.got = c.got /\ cl'.gotCmds = c.gotCmds
  <2>1. c.snaps \union {c.got} \in SUBSET Nat
    BY <1>6
  <2> DEFINE snaps == c.snaps \union {c.got}
  <2>2. snaps \in SUBSET Nat /\ cl' = [c EXCEPT !.snaps = snaps] /\ snaps = cl.snaps \union {c.got}
    BY <1>1, <1>5, <2>1
  <2> HIDE DEF snaps
  <2> QED BY <1>5, <2>2 DEF Connection
<1>8. ~Overrun(cl) /\ ~Overrun(cl') /\ cl'.seq - cl'.ack <= Max
  <2>1. cl'.seq - cl'.ack <= Max
    BY <1>2, <1>7
  <2>2. ~Overrun(cl)
    BY <1>1, Room
  <2>3. cl'.seq \in Nat /\ cl'.ack \in Nat /\ Max \in Nat
    BY <1>7, Limits DEF Connection
  <2>4. ~Overrun(cl')
    BY <2>1, <2>3 DEF Overrun
  <2> QED BY <2>1, <2>2, <2>4
<1>9. Grows
  <2>1. sv.seq >= sv.seq /\ sv.last >= sv.last /\ cl'.got >= cl.got /\ cl'.seq >= cl.seq
    BY <1>5, <1>7, Numbers
  <2> QED BY <1>1, <1>7, <1>8, <2>1, Fields DEF Grows
<1>10. Outbound'
  BY <1>1, <1>9, OutboundUnchanged
<1>11. /\ toClient' \in Seq(Snapshots) /\ Len(toClient') = Len(toClient) - i
       /\ \A k \in 1..Len(toClient') : toClient'[k] = toClient[k + i]
  BY <1>1, Fields, Delivered
<1>12. Inbound'
  <2>1. Ordered(toClient') /\ \A k \in 1..Len(toClient') : m.ack <= toClient'[k].ack
    BY <1>0, <1>1, Fields, DeliveredOrdered DEF IInv, Inbound
  <2>2. ASSUME NEW k \in 1..Len(toClient')
        PROVE  toClient'[k] \in Snapshots /\ ToClient(toClient'[k])
    <3>1. toClient'[k] = toClient[k + i] /\ k + i \in 1..Len(toClient)
      <4>1. Len(toClient) \in Nat /\ i \in 1..Len(toClient)
        BY Fields
      <4> QED BY <1>11, <4>1
    <3>2. toClient[k + i] \in Snapshots
      BY <3>1, Fields
    <3> QED BY <3>1, <3>2 DEF IInv, Inbound
  <2>3. \A k \in 1..Len(toClient') : toClient'[k].ack >= cl'.ack
    BY <1>2, <1>7, <2>1, <2>2 DEF Snapshots
  <2>4. \A p \in Snapshots : ToClient(p) /\ p.ack >= cl'.ack => ToClient(p)'
    BY <1>9, ToClientStays
  <2> QED BY <2>1, <2>2, <2>3, <2>4 DEF Inbound
<1>13. Typed'
  <2>1. Len(toClient') <= MaxInFlight
    BY <1>11, Fields, Limits
  <2> QED BY <1>1, <1>7, <1>11, <2>1 DEF IInv, Typed, TypeOK
<1>14. Rings'
  <2>1. ~Overrun(sv) => Ring(cl'.gotCmds, cl'.got)
    BY <1>0, <1>5, <1>7, Room DEF ToClient
  <2>2. Ring(cl'.cmds, cl'.seq)
    BY <1>1, <1>7, Room
  <2> QED BY <1>1, <1>8, <2>1, <2>2 DEF IInv, Rings
<1>15. Counts'
  <2>1. sv.ack <= cl'.got /\ cl'.got <= sv.seq
    BY <1>5, <1>6, <1>7, Numbers, Room
  <2>2. cl'.ack <= sv.last /\ sv.last <= cl'.seq /\ cl'.ran <= cl'.got
    BY <1>2, <1>5, <1>6, <1>7, Numbers, Room
  <2>3. \A n \in cl'.snaps : n <= cl'.got
    <3>1. \A n \in cl.snaps : n <= cl.got /\ n \in Nat
      BY Fields DEF IInv, Counts
    <3> QED BY <1>5, <1>6, <1>7, <3>1, Numbers
  <2> QED BY <1>1, <2>1, <2>2, <2>3 DEF Counts
<1>16. Executed'
  BY <1>1, <1>7, <1>8 DEF IInv, Executed
<1> QED BY <1>1, <1>7, <1>10, <1>12, <1>13, <1>14, <1>15, <1>16 DEF IInv, KeysAgreeWithRoom, GameTold

-----------------------------------------------------------------------------
(* The invariant holds.                                                       *)

LEMMA InitInv == ASSUME Init PROVE IInv
<1>1. /\ sv = [seq |-> 0, ack |-> 0, cmds |-> NoCommands, last |-> 0,
               state |-> "active", calls |-> 0, bye |-> 0]
      /\ cl = [seq |-> 0, ack |-> 0, cmds |-> NoCommands, got |-> 0, gotCmds |-> NoCommands,
               snaps |-> {}, ran |-> 0, state |-> "active", bye |-> 0]
      /\ toClient = <<>> /\ toServer = <<>> /\ misread = {} /\ svDone = <<>> /\ clDone = <<>>
  BY DEF Init
<1>2. NoCommands \in [0..(Max - 1) -> Nat]
  BY DEF NoCommands
<1>3. sv \in ServerClient /\ cl \in Connection
  BY <1>1, <1>2, Zenon DEF ServerClient, Connection
<1>4. Typed
  BY <1>1, <1>3, Limits DEF Typed, TypeOK
<1>5. ~Overrun(sv) /\ ~Overrun(cl) /\ sv.seq - sv.ack <= Max /\ cl.seq - cl.ack <= Max
  BY <1>1, Limits DEF Overrun
<1>6. Rings
  BY <1>1, <1>5, RingInit DEF Rings
<1>7. Inbound /\ Outbound
  BY <1>1 DEF Inbound, Outbound, Ordered
<1>8. Counts
  BY <1>1 DEF Counts
<1>9. Executed
  BY <1>1 DEF Executed, InOrder
<1>10. KeysAgreeWithRoom /\ GameTold
  BY <1>1, <1>5 DEF KeysAgreeWithRoom, GameTold
<1> QED BY <1>4, <1>6, <1>7, <1>8, <1>9, <1>10 DEF IInv

LEMMA NextInv == ASSUME IInv, [Next]_vars PROVE IInv'
<1>1. CASE Next
  BY <1>1, AddInv, DropInv, SnapshotInv, ReadInv, AddCommandInv, DisconnectInv, PacketInv,
     ParseInv, ExecuteInv DEF Next, Server, Client
<1>2. CASE UNCHANGED vars
  BY <1>2 DEF vars, IInv, Typed, TypeOK, Inbound, Outbound, Ordered, ToClient, ToServer, Rings,
     Counts, Executed, KeysAgreeWithRoom, GameTold
<1> QED BY <1>1, <1>2

LEMMA InvAlways == Spec => []IInv
<1>1. IInv /\ [Next]_vars => IInv'
  BY NextInv
<1> QED BY InitInv, <1>1, PTL DEF Spec

-----------------------------------------------------------------------------
(* The steps as those of the two streams.                                     *)

LEMMA ServerStep ==
  ASSUME IInv, Server
  PROVE  /\ sv'.seq \in Nat /\ sv'.seq >= sv.seq /\ UNCHANGED <<cl, clDone>>
         /\ Overrun(sv) => sv' = sv
         /\ svDone' = svDone \/ Len(svDone') \in Len(svDone)..cl.seq
<1>1. Overrun(sv) => sv' = sv
  <2>1. sv.state = "active" => ~Overrun(sv)
    BY Room
  <2>2. CASE SV_AddServerCommand \/ SV_DropClient
    BY <2>1, <2>2 DEF SV_AddServerCommand, SV_DropClient
  <2>3. CASE SV_SendClientSnapshot
    BY <2>3 DEF SV_SendClientSnapshot
  <2>4. ASSUME NEW i \in 1..Len(toServer), SV_ExecuteClientMessage(i)
        PROVE  ~Overrun(sv)
    BY <2>1, <2>4, Zenon DEF SV_ExecuteClientMessage
  <2> QED BY <2>2, <2>3, <2>4, Zenon DEF Server
<1>2. UNCHANGED <<cl, clDone>>
  BY DEF Server, SV_AddServerCommand, SV_DropClient, SV_SendClientSnapshot, SV_ExecuteClientMessage
<1>3. sv'.seq \in Nat
  <2>1. [Next]_vars
    BY DEF Next
  <2>2. IInv'
    BY <2>1, NextInv
  <2> QED BY <2>2 DEF IInv, Typed, TypeOK, ServerClient
<1>4. CASE SV_AddServerCommand
  <2>1. svDone' = svDone
    BY <1>4 DEF SV_AddServerCommand
  <2>2. sv'.seq > sv.seq
    BY <1>4, AddInv
  <2> QED BY <1>1, <1>2, <1>3, <2>1, <2>2, Numbers
<1>5. CASE SV_DropClient
  <2>1. svDone' = svDone
    BY <1>5 DEF SV_DropClient
  <2>2. sv'.seq > sv.seq
    BY <1>5, DropInv
  <2> QED BY <1>1, <1>2, <1>3, <2>1, <2>2, Numbers
<1>6. CASE SV_SendClientSnapshot
  <2>1. svDone' = svDone /\ sv' = sv
    BY <1>6 DEF SV_SendClientSnapshot
  <2> QED BY <1>1, <1>2, <1>3, <2>1, Numbers
<1>7. CASE \E i \in 1..Len(toServer) : SV_ExecuteClientMessage(i)
  <2>1. sv'.seq >= sv.seq /\ Len(svDone') \in Len(svDone)..cl.seq
    BY <1>7, ReadInv
  <2>2. sv'.seq >= sv.seq /\ (svDone' = svDone \/ Len(svDone') \in Len(svDone)..cl.seq)
    BY <2>1
  <2> QED BY <1>1, <1>2, <1>3, <2>2, Zenon
<1> QED BY <1>4, <1>5, <1>6, <1>7 DEF Server

LEMMA ClientStep ==
  ASSUME IInv, Client
  PROVE  /\ cl'.seq \in Nat /\ cl'.seq >= cl.seq /\ UNCHANGED <<sv, svDone>>
         /\ Overrun(cl) => cl' = cl
         /\ clDone' = clDone \/ Len(clDone') \in Len(clDone)..sv.seq
<1>1. Overrun(cl) => cl' = cl
  BY Room DEF Client, CL_AddReliableCommand, CL_Disconnect, CL_WritePacket,
     CL_ParseServerMessage, CG_ExecuteNewServerCommands
<1>2. UNCHANGED <<sv, svDone>>
  BY DEF Client, CL_AddReliableCommand, CL_Disconnect, CL_WritePacket,
     CL_ParseServerMessage, CG_ExecuteNewServerCommands
<1>3. cl'.seq \in Nat
  <2>1. [Next]_vars
    BY DEF Next
  <2>2. IInv'
    BY <2>1, NextInv
  <2> QED BY <2>2 DEF IInv, Typed, TypeOK, Connection
<1>4. CASE CL_AddReliableCommand
  <2>1. clDone' = clDone
    BY <1>4 DEF CL_AddReliableCommand
  <2> QED BY <1>1, <1>2, <1>3, <1>4, <2>1, AddCommandInv
<1>5. CASE CL_Disconnect
  <2>1. clDone' = clDone
    BY <1>5 DEF CL_Disconnect
  <2> QED BY <1>1, <1>2, <1>3, <1>5, <2>1, DisconnectInv
<1>6. CASE CL_WritePacket
  <2>1. clDone' = clDone /\ cl' = cl
    BY <1>6 DEF CL_WritePacket
  <2> QED BY <1>1, <1>2, <1>3, <2>1, Numbers
<1>7. CASE \E i \in 1..Len(toClient) : CL_ParseServerMessage(i)
  <2>1. clDone' = clDone
    BY <1>7 DEF CL_ParseServerMessage
  <2>2. cl'.seq = cl.seq
    BY <1>7, ParseInv
  <2> QED BY <1>1, <1>2, <1>3, <2>1, <2>2, Numbers
<1>8. CASE \E n \in cl.snaps : CG_ExecuteNewServerCommands(n)
  <2>1. cl'.seq >= cl.seq /\ Len(clDone') \in Len(clDone)..cl.got
    BY <1>8, ExecuteInv
  <2>2. Len(clDone') \in Len(clDone)..sv.seq
    <3>1. cl.got \in Nat /\ sv.seq \in Nat /\ cl.got <= sv.seq
      BY Numbers, Room
    <3>2. Len(clDone) \in Nat
      BY Fields
    <3> DEFINE d == Len(clDone')
    <3>3. d \in Len(clDone)..cl.got
      BY <2>1
    <3> HIDE DEF d
    <3>4. d \in Len(clDone)..sv.seq
      BY <3>1, <3>2, <3>3
    <3> QED BY <3>4 DEF d
  <2>3. cl'.seq >= cl.seq
    BY <2>1
  <2> QED BY <1>1, <1>2, <1>3, <2>2, <2>3, Zenon
<1> QED BY <1>4, <1>5, <1>6, <1>7, <1>8 DEF Client

\* What is executed in order grows as the stream has it.
LEMMA InOrderGrows ==
  ASSUME NEW d \in Seq(Nat), NEW e \in Seq(Nat), InOrder(d), InOrder(e), Len(d) <= Len(e), e # d
  PROVE  Len(e) > Len(d) /\ e = [i \in 1..Len(e) |-> IF i <= Len(d) THEN d[i] ELSE i]
<1>1. Len(d) \in Nat /\ Len(e) \in Nat
  OBVIOUS
<1>2. Len(e) # Len(d)
  <2> SUFFICES ASSUME Len(e) = Len(d) PROVE FALSE
    OBVIOUS
  <2>1. \A i \in 1..Len(d) : d[i] = e[i]
    BY DEF InOrder
  <2> QED BY <2>1, SeqEqual
<1>3. \A i \in 1..Len(e) : e[i] = IF i <= Len(d) THEN d[i] ELSE i
  BY <1>1 DEF InOrder
<1>4. e = [i \in 1..Len(e) |-> e[i]]
  OBVIOUS
<1> QED BY <1>1, <1>2, <1>3, <1>4

LEMMA ServerStreamStep ==
  ASSUME IInv, [Next]_vars
  PROVE  [ServerCommands!Next]_<<sv.seq, clDone, Overrun(sv)>>
<1>0. IInv'
  BY NextInv
<1>1. Overrun(sv) \in BOOLEAN /\ Overrun(sv)' \in BOOLEAN
  BY DEF Overrun
<1>2. /\ sv.seq \in Nat /\ clDone \in Seq(Nat) /\ clDone' \in Seq(Nat)
      /\ ~Overrun(sv) => InOrder(clDone)
      /\ ~Overrun(sv)' => InOrder(clDone')
  BY <1>0, Fields DEF IInv, Executed, Typed, TypeOK
<1>3. CASE Server
  <2>1. sv'.seq \in Nat /\ sv'.seq >= sv.seq /\ clDone' = clDone /\ (Overrun(sv) => sv' = sv)
    BY <1>3, ServerStep
  <2>2. CASE Overrun(sv)
    BY <2>1, <2>2
  <2>3. CASE ~Overrun(sv) /\ Overrun(sv)'
    BY <1>1, <2>3 DEF ServerCommands!Next, ServerCommands!Break
  <2>4. CASE ~Overrun(sv) /\ ~Overrun(sv)'
    <3>1. Overrun(sv)' = Overrun(sv)
      BY <1>1, <2>4
    <3>2. CASE sv'.seq = sv.seq
      BY <2>1, <3>1, <3>2
    <3>3. CASE sv'.seq > sv.seq
      BY <2>1, <2>4, <3>1, <3>3 DEF ServerCommands!Next, ServerCommands!Give
    <3> QED BY <1>2, <2>1, <3>2, <3>3
  <2> QED BY <2>2, <2>3, <2>4
<1>4. CASE Client
  <2>1. sv' = sv /\ (clDone' = clDone \/ Len(clDone') \in Len(clDone)..sv.seq)
    BY <1>4, ClientStep
  <2>2. CASE clDone' = clDone \/ Overrun(sv)
    <3>1. Overrun(sv)' = Overrun(sv)
      BY <2>1
    <3> QED BY <1>1, <2>1, <2>2, <3>1 DEF ServerCommands!Next
  <2>3. CASE clDone' # clDone /\ ~Overrun(sv)
    <3>1. Overrun(sv)' = Overrun(sv)
      BY <2>1
    <3> DEFINE n == Len(clDone')
    <3>2. n \in Nat /\ Len(clDone) \in Nat /\ n <= sv.seq /\ Len(clDone) <= n
      BY <1>2, <2>1, <2>3
    <3>3. n > Len(clDone) /\ clDone' = [i \in 1..n |-> IF i <= Len(clDone) THEN clDone[i] ELSE i]
      BY <1>2, <2>3, <3>1, <3>2, InOrderGrows
    <3>4. n \in 1..sv.seq /\ n \in (Len(clDone) + 1)..sv.seq
      BY <1>2, <3>2, <3>3
    <3>5. ServerCommands!Execute(n)
      BY <2>1, <3>1, <3>3, <3>4 DEF ServerCommands!Execute
    <3> HIDE DEF n
    <3> QED BY <2>3, <3>4, <3>5 DEF ServerCommands!Next
  <2> QED BY <2>2, <2>3
<1>5. CASE UNCHANGED vars
  <2>1. sv' = sv /\ clDone' = clDone
    BY <1>5 DEF vars
  <2>2. Overrun(sv)' = Overrun(sv)
    BY <2>1
  <2> QED BY <2>1, <2>2
<1> QED BY <1>3, <1>4, <1>5 DEF Next

LEMMA ClientStreamStep ==
  ASSUME IInv, [Next]_vars
  PROVE  [ClientCommands!Next]_<<cl.seq, svDone, Overrun(cl)>>
<1>0. IInv'
  BY NextInv
<1>1. Overrun(cl) \in BOOLEAN /\ Overrun(cl)' \in BOOLEAN
  BY DEF Overrun
<1>2. /\ cl.seq \in Nat /\ svDone \in Seq(Nat) /\ svDone' \in Seq(Nat)
      /\ ~Overrun(cl) => InOrder(svDone)
      /\ ~Overrun(cl)' => InOrder(svDone')
  BY <1>0, Fields DEF IInv, Executed, Typed, TypeOK
<1>3. CASE Client
  <2>1. cl'.seq \in Nat /\ cl'.seq >= cl.seq /\ svDone' = svDone /\ (Overrun(cl) => cl' = cl)
    BY <1>3, ClientStep
  <2>2. CASE Overrun(cl)
    BY <2>1, <2>2
  <2>3. CASE ~Overrun(cl) /\ Overrun(cl)'
    BY <1>1, <2>3 DEF ClientCommands!Next, ClientCommands!Break
  <2>4. CASE ~Overrun(cl) /\ ~Overrun(cl)'
    <3>1. Overrun(cl)' = Overrun(cl)
      BY <1>1, <2>4
    <3>2. CASE cl'.seq = cl.seq
      BY <2>1, <3>1, <3>2
    <3>3. CASE cl'.seq > cl.seq
      BY <2>1, <2>4, <3>1, <3>3 DEF ClientCommands!Next, ClientCommands!Give
    <3> QED BY <1>2, <2>1, <3>2, <3>3
  <2> QED BY <2>2, <2>3, <2>4
<1>4. CASE Server
  <2>1. cl' = cl /\ (svDone' = svDone \/ Len(svDone') \in Len(svDone)..cl.seq)
    BY <1>4, ServerStep
  <2>2. CASE svDone' = svDone \/ Overrun(cl)
    <3>1. Overrun(cl)' = Overrun(cl)
      BY <2>1
    <3> QED BY <1>1, <2>1, <2>2, <3>1 DEF ClientCommands!Next
  <2>3. CASE svDone' # svDone /\ ~Overrun(cl)
    <3>1. Overrun(cl)' = Overrun(cl)
      BY <2>1
    <3> DEFINE n == Len(svDone')
    <3>2. n \in Nat /\ Len(svDone) \in Nat /\ n <= cl.seq /\ Len(svDone) <= n
      BY <1>2, <2>1, <2>3
    <3>3. n > Len(svDone) /\ svDone' = [i \in 1..n |-> IF i <= Len(svDone) THEN svDone[i] ELSE i]
      BY <1>2, <2>3, <3>1, <3>2, InOrderGrows
    <3>4. n \in 1..cl.seq /\ n \in (Len(svDone) + 1)..cl.seq
      BY <1>2, <3>2, <3>3
    <3>5. ClientCommands!Execute(n)
      BY <2>1, <3>1, <3>3, <3>4 DEF ClientCommands!Execute
    <3> HIDE DEF n
    <3> QED BY <2>3, <3>4, <3>5 DEF ClientCommands!Next
  <2> QED BY <2>2, <2>3
<1>5. CASE UNCHANGED vars
  <2>1. cl' = cl /\ svDone' = svDone
    BY <1>5 DEF vars
  <2>2. Overrun(cl)' = Overrun(cl)
    BY <2>1
  <2> QED BY <2>1, <2>2
<1> QED BY <1>3, <1>4, <1>5 DEF Next

-----------------------------------------------------------------------------
(* The theorems.                                                              *)

\* The counts and rings of both sides are well-formed in every reachable state.
THEOREM TypeCorrect == Spec => []TypeOK
<1>1. IInv => TypeOK
  BY DEF IInv, Typed
<1> QED BY InvAlways, <1>1, PTL

\* No message under way skips a command that its receiver lacks, so that
\* SV_ClientCommand never finds a gap and no acknowledgement looks too old.
THEOREM NoCommandSkipped == Spec => []NoGap
<1>1. ASSUME IInv PROVE NoGap
  <2>1. ASSUME NEW i \in 1..Len(toClient), NEW n \in DOMAIN toClient[i].cmds
        PROVE  n <= cl.got + 1 \/ n - 1 \in DOMAIN toClient[i].cmds
    <3>1. Joins(toClient[i].cmds, cl.got, sv.seq)
      BY <1>1, <2>1 DEF IInv, Inbound, ToClient
    <3>2. PICK lo \in 0..cl.got, hi \in 0..sv.seq : toClient[i].cmds \in [(lo + 1)..hi -> Nat]
      BY <3>1 DEF Joins
    <3>3. n \in (lo + 1)..hi /\ DOMAIN toClient[i].cmds = (lo + 1)..hi
      BY <2>1, <3>2
    <3>4. cl.got \in Nat /\ sv.seq \in Nat
      BY <1>1, Numbers
    <3>5. n <= cl.got + 1 \/ n - 1 \in (lo + 1)..hi
      BY <3>2, <3>3, <3>4
    <3> QED BY <3>3, <3>5
  <2>2. ASSUME sv.state = "active", NEW i \in 1..Len(toServer)
        PROVE  ~Gap(toServer[i].cmds) /\ ~Illegible(toServer[i])
    <3>1. PICK m \in Packets : m = toServer[i] /\ ToServer(m)
      BY <1>1, <2>2, Fields DEF IInv, Outbound
    <3>2. Joins(m.cmds, sv.last, cl.seq) /\ sv.last \in Nat /\ cl.seq \in Nat
      BY <1>1, <3>1, Numbers DEF ToServer
    <3> QED BY <1>1, <2>2, <3>1, <3>2, LastRunIs, Legible
  <2> QED BY <2>1, <2>2 DEF NoGap
<1> QED BY InvAlways, <1>1, PTL

\* The key that usercmds are decoded with is the one they were encoded with
\* (SV_UserMove, CL_WritePacket), unless the server's ring is exactly full of
\* commands that are not acknowledged.
THEOREM KeysAgree == Spec => []KeysAgreeWithRoom
<1>1. IInv => KeysAgreeWithRoom
  BY DEF IInv
<1> QED BY InvAlways, <1>1, PTL

\* GAME_CLIENT_DISCONNECT is called once for a client that is dropped, or twice
\* when the ring overruns while SV_DropClient runs.
THEOREM GameIsTold == Spec => []GameTold
<1>1. IInv => GameTold
  BY DEF IInv
<1> QED BY InvAlways, <1>1, PTL

\* The server's commands are executed one by one, each once and in order, until
\* its ring overruns: the server and the client implement ReliableStream.
THEOREM ServerCommandsArrive == Spec => ServerCommandsInOrder
<1>1. ASSUME Init PROVE ServerCommands!Init
  <2>1. ~Overrun(sv)
    BY <1>1, Limits DEF Init, Overrun
  <2>2. Overrun(sv) = FALSE
    BY <2>1 DEF Overrun
  <2> QED BY <1>1, <2>2 DEF Init, ServerCommands!Init
<1>2. IInv /\ [Next]_vars => [ServerCommands!Next]_<<sv.seq, clDone, Overrun(sv)>>
  BY ServerStreamStep
<1> QED BY InvAlways, <1>1, <1>2, PTL
        DEF Spec, ServerCommandsInOrder, ServerCommands!Spec, ServerCommands!vars

\* The same for the client's commands, until its ring overruns.
THEOREM ClientCommandsArrive == Spec => ClientCommandsInOrder
<1>1. ASSUME Init PROVE ClientCommands!Init
  <2>1. ~Overrun(cl)
    BY <1>1, Limits DEF Init, Overrun
  <2>2. Overrun(cl) = FALSE
    BY <2>1 DEF Overrun
  <2> QED BY <1>1, <2>2 DEF Init, ClientCommands!Init
<1>2. IInv /\ [Next]_vars => [ClientCommands!Next]_<<cl.seq, svDone, Overrun(cl)>>
  BY ClientStreamStep
<1> QED BY InvAlways, <1>1, <1>2, PTL
        DEF Spec, ClientCommandsInOrder, ClientCommands!Spec, ClientCommands!vars
===============================================================================
