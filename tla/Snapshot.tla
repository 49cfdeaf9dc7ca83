------------------------------ MODULE Snapshot -------------------------------
(* The gamestate and the snapshots a server sends to one client, and the      *)
(* messages by which the client acknowledges them (SV_SendClientGameState,    *)
(* SV_SendClientSnapshot, SV_ExecuteClientMessage, SV_UserMove;               *)
(* CL_ParseGamestate, CL_ParseSnapshot, CL_GetSnapshot, CL_WritePacket). A    *)
(* snapshot is a delta from the one the client acknowledged last; the server  *)
(* keeps the frames of PACKET_BACKUP messages and their entities in a ring    *)
(* that all clients share, the client keeps what it decoded in rings of its   *)
(* own.                                                                       *)
(*                                                                            *)
(* Messages may be lost, not reordered (LossyChannel). An entity has one      *)
(* field; a delta carries it when it differs from the base. The player state  *)
(* is delta compressed like an entity that is always there, and left out.     *)
EXTENDS Integers, Sequences, FiniteSets

CONSTANTS
  PacketBackup,    \* PACKET_BACKUP
  Margin,          \* 3: how much younger than PacketBackup a base must be
  MaxEntities,     \* MAX_SNAPSHOT_ENTITIES
  ServerRing,      \* svs.numSnapshotEntities
  Views,           \* what may be visible: functions from entity numbers to values
  MaxOut,          \* bound on the messages of the server
  MaxForeign,      \* bound on the entities in snapshots of other clients
  MaxEpoch,        \* bound on the maps
  MaxInFlight      \* bound on the messages under way; older ones are lost

ASSUME SnapshotAssumption ==
  /\ PacketBackup \in Nat /\ Margin \in Nat /\ PacketBackup > Margin + 1
  /\ MaxEntities \in Nat \ {0} /\ ServerRing \in Nat /\ ServerRing >= MaxEntities
  /\ \A v \in Views : /\ DOMAIN v \subseteq Nat \ {0} /\ v \in [DOMAIN v -> Nat]
                      /\ IsFiniteSet(DOMAIN v) /\ Cardinality(DOMAIN v) <= MaxEntities
  /\ MaxOut \in Nat /\ MaxOut >= 2 /\ MaxEpoch \in Nat /\ MaxEpoch >= 1
  /\ MaxForeign \in Nat /\ MaxInFlight \in Nat \ {0}

VARIABLES
  sv,         \* the server's client_t, svs and sv
  cl,         \* the client's clc and cl
  toClient,   \* messages under way
  toServer

snVars == <<sv, cl, toClient, toServer>>

ParseRing == PacketBackup * MaxEntities       \* MAX_PARSE_ENTITIES
Entity(n, v) == [num |-> n, val |-> v]
Nobody == Entity(0, 0)    \* an entity of another client, or a removed one

\* A map of the entities that are listed, and the list in order of numbers.
AsMap(list) == [n \in {list[i].num : i \in DOMAIN list} |->
                  list[CHOOSE i \in DOMAIN list : list[i].num = n].val]
Listed(m) == [i \in 1..Cardinality(DOMAIN m) |->
                LET n == CHOOSE n \in DOMAIN m :
                           Cardinality({k \in DOMAIN m : k < n}) = i - 1
                IN Entity(n, m[n])]

\* The list written to a ring of a size from a position on, and n entities read
\* from there.
Written(ring, size, first, list) ==
  [i \in 0..(size - 1) |-> LET k == ((i - first) % size) + 1 IN
     IF k <= Len(list) THEN list[k] ELSE ring[i]]
Read(ring, size, first, n) == [i \in 1..n |-> ring[(first + i - 1) % size]]

\* SV_CreateBaseline: the baselines of a map.
Baseline(epoch) == epoch % 2

\* out, delta, gsNum: outgoingSequence, deltaMessage, gamestateMessageNum; entity:
\* gentity is set, as SV_DirectConnect does; frames, next, ring: frames,
\* svs.nextSnapshotEntities, svs.snapshotEntities; epoch: sv.serverId; queue: messages given to the netchan behind a fragmented one;
\* gsSent: history, the number the last gamestate got, or 0; foreign: history,
\* bounds the entities of other clients.
InitServer(state, epoch, out, gs) ==
  [out |-> out, delta |-> -1, gsNum |-> gs, state |-> state, entity |-> TRUE, epoch |-> epoch,
   frames |-> [i \in 0..(PacketBackup - 1) |-> [first |-> 0, n |-> 0]],
   next |-> 0, ring |-> [i \in 0..(ServerRing - 1) |-> Nobody], queue |-> <<>>,
   gsSent |-> IF gs < 0 THEN 0 ELSE gs, foreign |-> 0]

\* num, first, n: messageNum, parseEntitiesNum, numEntities of a clSnapshot_t;
\* is: history, the entities in the server's frame.
NoSnapshot == [valid |-> FALSE, num |-> 0, first |-> 0, n |-> 0, is |-> <<>>]

\* seq: serverMessageSequence; epoch: cl.serverId; snap: the messageNum of cl.snap,
\* or 0 when it is not valid; slots, parsed, ring: cl.snapshots, parseEntitiesNum,
\* parseEntities; gs: history, the number of the last gamestate.
InitClient(epoch, seq) ==
  [seq |-> seq, epoch |-> epoch, snap |-> 0,
   slots |-> [i \in 0..(PacketBackup - 1) |-> NoSnapshot],
   parsed |-> 0, ring |-> [i \in 0..(ParseRing - 1) |-> Nobody],
   state |-> "connected", gs |-> seq]

\* SV_DirectConnect has made a client that has no gamestate yet.
SnInit ==
  /\ sv = InitServer("connected", 1, 1, -1)
  /\ cl = InitClient(0, 0)
  /\ toClient = <<>> /\ toServer = <<>>

\* The client has its gamestate, message 1, and misses files.
SnInitMissingFiles ==
  /\ sv = InitServer("primed", 1, 2, 1)
  /\ cl = InitClient(1, 1)
  /\ toClient = <<>> /\ toServer = <<>>

Under(channel, m) == Append(IF Len(channel) = MaxInFlight THEN Tail(channel) ELSE channel, m)

-----------------------------------------------------------------------------
(* The server sends.                                                         *)

\* A message is queued behind a fragmented one, or is fragmented itself.
Queued(s, m) == [s EXCEPT !.queue = Append(@, m)]

\* The number a message gets when its last fragment is sent.
Transmitted(s, m) ==
  [s EXCEPT !.out = @ + 1, !.gsSent = IF m.kind = "gamestate" THEN s.out ELSE @]

\* SV_Netchan_TransmitNextFragment, the last fragment of the first message.
SV_Netchan_TransmitNextFragment ==
  /\ sv.queue # <<>>
  /\ sv.out < MaxOut
  /\ LET m == Head(sv.queue) IN
     /\ sv' = [Transmitted(sv, m) EXCEPT !.queue = Tail(@)]
     /\ toClient' = Under(toClient, [num |-> sv.out, msg |-> m])
  /\ UNCHANGED <<cl, toServer>>

\* Mutant: the number of the last message instead of the next one.
GamestateNumberedLate(s) ==
  Queued([s EXCEPT !.state = "primed", !.gsNum = s.out + 1, !.gsSent = 0],
         [kind |-> "gamestate", epoch |-> s.epoch])

\* SV_SendClientGameState; a gamestate is longer than a fragment.
Gamestate(s) ==
  Queued([s EXCEPT !.state = "primed", !.gsNum = s.out, !.gsSent = 0],
         [kind |-> "gamestate", epoch |-> s.epoch])

\* SV_BuildClientSnapshot: nothing is visible to a client without an entity.
Visible(s, view) == IF s.entity THEN Listed(view) ELSE <<>>
Built(s, list) ==
  LET slot == s.out % PacketBackup IN
  IF ~s.entity THEN [s EXCEPT !.frames[slot].n = 0]
  ELSE [s EXCEPT !.frames[slot] = [first |-> s.next, n |-> Len(list)],
                 !.ring = Written(@, ServerRing, s.next, list),
                 !.next = @ + Len(list)]

\* Mutant: the entities may have rolled off the ring.
CanDeltaRolledOff(s) ==
  s.delta > 0 /\ s.state = "active" /\ s.out - s.delta < PacketBackup - Margin

\* Mutant: no limit to the age of the base.
CanDeltaAnyAge(s) ==
  s.delta > 0 /\ s.state = "active" /\ s.frames[s.delta % PacketBackup].first > s.next - ServerRing

\* The snapshot of message delta can still be the base.
CanDelta(s) ==
  /\ s.delta > 0 /\ s.state = "active"
  /\ s.out - s.delta < PacketBackup - Margin
  /\ s.frames[s.delta % PacketBackup].first > s.next - ServerRing

\* SV_EmitPacketEntities: what is new, changed or gone. The same value is not
\* sent again.
Gone == -1
Same == -2
Encoded(from, to, base) ==
  [n \in {k \in DOMAIN from \union DOMAIN to :
            ~(k \in DOMAIN from \intersect DOMAIN to /\ from[k] = to[k])} |->
     IF n \notin DOMAIN to THEN Gone
     ELSE IF n \notin DOMAIN from /\ to[n] = base THEN Same ELSE to[n]]

\* SV_WriteSnapshotToClient.
SnapshotMessage(s, list) ==
  LET old  == s.frames[s.delta % PacketBackup]
      from == IF CanDelta(s) THEN Read(s.ring, ServerRing, old.first, old.n) ELSE <<>>
  IN [kind |-> "snapshot", delta |-> IF CanDelta(s) THEN s.out - s.delta ELSE 0,
      ents |-> Encoded(AsMap(from), AsMap(list), Baseline(s.epoch)), is |-> list]

\* "Drop this snapshot if the packet queue is still full or delta compression
\* will break" (SV_SendClientMessages).
MaySend(s) == s.queue = <<>>

\* A small snapshot leaves at once, a big one in fragments.
SV_SendClientSnapshot(view, big) ==
  /\ MaySend(sv)
  /\ sv.out < MaxOut
  /\ LET list == Visible(sv, view)
         s    == Built(sv, list)
         m    == SnapshotMessage(s, list)
     IN IF big \/ sv.queue # <<>>
        THEN sv' = Queued(s, m) /\ UNCHANGED toClient
        ELSE /\ sv' = Transmitted(s, m)
             /\ toClient' = Under(toClient, [num |-> s.out, msg |-> m])
  /\ UNCHANGED <<cl, toServer>>

\* The snapshot of another client takes n entities of the ring.
OtherClientSnapshot(n) ==
  /\ sv.foreign + n <= MaxForeign
  /\ sv' = [sv EXCEPT !.foreign = @ + n, !.next = @ + n,
              !.ring = Written(@, ServerRing, sv.next, [i \in 1..n |-> Nobody])]
  /\ UNCHANGED <<cl, toClient, toServer>>

\* SV_SpawnServer: a new map, on which the client has no entity before it enters
\* (SV_InitGameVM); its next packet brings the gamestate.
SV_SpawnServer ==
  /\ sv.epoch < MaxEpoch
  /\ sv' = [sv EXCEPT !.epoch = @ + 1, !.state = "connected", !.entity = FALSE, !.next = 0,
              !.ring = [i \in 0..(ServerRing - 1) |-> Nobody]]
  /\ UNCHANGED <<cl, toClient, toServer>>

-----------------------------------------------------------------------------
(* The client.                                                               *)

\* CL_ParseGamestate, with CL_ClearState; the cgame is loaded.
Restarted(c, num, epoch) == [InitClient(epoch, num) EXCEPT !.state = "primed"]

\* CL_ParsePacketEntities: the entities of the base, with the delta applied.
Decoded(c, old, ents) ==
  [n \in {k \in DOMAIN old \union DOMAIN ents : k \notin DOMAIN ents \/ ents[k] # Gone} |->
     IF n \notin DOMAIN ents THEN old[n]
     ELSE IF ents[n] # Same THEN ents[n]
     ELSE IF n \in DOMAIN old THEN old[n] ELSE Baseline(c.epoch)]

\* A removed entity is parsed into the slot of the next one.
WithScribble(list, ents) ==
  IF \E g \in DOMAIN ents : ents[g] = Gone /\ \A i \in DOMAIN list : list[i].num < g
  THEN Append(list, Nobody) ELSE list

\* The base is there: the checks of CL_ParseSnapshot.
Old(c, num, m) == c.slots[(num - m.delta) % PacketBackup]
HasBase(c, num, m) ==
  \/ m.delta = 0
  \/ /\ Old(c, num, m).valid
     /\ Old(c, num, m).num = num - m.delta
     /\ c.parsed - Old(c, num, m).first <= ParseRing - MaxEntities

\* The flags of the messages since the last snapshot.
Cleared(c, num) ==
  LET from == IF num - (c.snap + 1) >= PacketBackup THEN num - (PacketBackup - 1)
              ELSE c.snap + 1
  IN [i \in 0..(PacketBackup - 1) |->
        IF \E k \in from..(num - 1) : k % PacketBackup = i
        THEN [c.slots[i] EXCEPT !.valid = FALSE] ELSE c.slots[i]]

\* CL_ParseSnapshot: the entities are parsed in any case, the snapshot is kept
\* when it is valid.
Parsed(c, num, m) ==
  LET base == IF m.delta = 0 THEN NoSnapshot ELSE Old(c, num, m)
      list == Listed(Decoded(c, AsMap(Read(c.ring, ParseRing, base.first, base.n)), m.ents))
      read == [c EXCEPT !.parsed = @ + Len(list),
                 !.ring = Written(@, ParseRing, c.parsed, WithScribble(list, m.ents))]
      snap == [valid |-> TRUE, num |-> num, first |-> c.parsed, n |-> Len(list), is |-> m.is]
  IN IF ~HasBase(c, num, m) THEN read
     ELSE [read EXCEPT !.snap = num,
             !.slots = [Cleared(c, num) EXCEPT ![num % PacketBackup] = snap]]

\* CL_ParseServerMessage; the messages before i are lost.
CL_ParseServerMessage(i) ==
  /\ LET p == toClient[i]
         c == [cl EXCEPT !.seq = p.num]
     IN cl' = IF p.msg.kind = "gamestate" THEN Restarted(c, p.num, p.msg.epoch)
              ELSE Parsed(c, p.num, p.msg)
  /\ toClient' = SubSeq(toClient, i + 1, Len(toClient))
  /\ UNCHANGED <<sv, toServer>>

\* A move asks for a delta when the last message was a valid snapshot.
Move(c) == IF c.snap # 0 /\ c.snap = c.seq THEN "delta" ELSE "noDelta"

\* CL_WritePacket, with usercmds or without; there are none before the cgame is
\* loaded. gs: history.
CL_WritePacket(moves) ==
  /\ moves => cl.state = "primed"
  /\ toServer' = Under(toServer, [epoch |-> cl.epoch, ack |-> cl.seq, gs |-> cl.gs,
                                  move |-> IF moves THEN Move(cl) ELSE "none"])
  /\ UNCHANGED <<sv, cl, toClient>>

-----------------------------------------------------------------------------
(* The server executes a message of the client.                              *)

\* SV_UserMove; the first move puts the client into the world
\* (SV_ClientEnterWorld).
Moved(s, m) ==
  IF m.move = "none" THEN s
  ELSE IF s.state = "active" THEN [s EXCEPT !.delta = IF m.move = "delta" THEN m.ack ELSE -1]
  ELSE IF s.state = "primed" THEN [s EXCEPT !.delta = -1, !.state = "active", !.entity = TRUE]
  ELSE [s EXCEPT !.delta = -1]

\* Mutant: the acknowledgement of the gamestate itself counts as one after it.
DroppedGamestateEarly(s, m) == s.state # "active" /\ m.ack >= s.gsNum

\* "if we can tell that the client has dropped the last gamestate we sent them"
DroppedGamestate(s, m) == s.state # "active" /\ m.ack > s.gsNum

ForeignMap(s, m) == m.epoch # s.epoch

Executed(s, m) ==
  IF ~ForeignMap(s, m) THEN Moved(s, m)
  ELSE IF DroppedGamestate(s, m) THEN Gamestate(s) ELSE s

SV_ExecuteClientMessage(i) ==
  /\ sv' = Executed(sv, toServer[i])
  /\ toServer' = SubSeq(toServer, i + 1, Len(toServer))
  /\ UNCHANGED <<cl, toClient>>

\* SV_DoneDownload_f: the client has its files and waits for a new gamestate.
SV_DoneDownload ==
  /\ sv' = IF sv.state = "active" THEN sv ELSE Gamestate(sv)
  /\ UNCHANGED <<cl, toClient, toServer>>

SnServer ==
  \/ SV_Netchan_TransmitNextFragment
  \/ \E view \in Views, big \in BOOLEAN : SV_SendClientSnapshot(view, big)
  \/ \E n \in 1..MaxEntities : OtherClientSnapshot(n)
  \/ SV_SpawnServer
  \/ \E i \in 1..Len(toServer) : SV_ExecuteClientMessage(i)
SnClient ==
  \/ \E moves \in BOOLEAN : CL_WritePacket(moves)
  \/ \E i \in 1..Len(toClient) : CL_ParseServerMessage(i)

SnNext == SnServer \/ SnClient

-----------------------------------------------------------------------------
(* Properties.                                                               *)

\* What one side remembers of the other's numbers has been sent; the number of a
\* gamestate is known before.
SnTypeOK ==
  /\ sv.state \in {"connected", "primed", "active"} /\ cl.state \in {"connected", "primed"}
  /\ sv.delta < sv.out /\ sv.gsNum <= sv.out /\ cl.snap <= cl.seq /\ cl.seq < sv.out
  /\ sv.out \in 1..MaxOut /\ sv.epoch \in 1..MaxEpoch /\ cl.epoch \in 0..MaxEpoch
  /\ \A i \in 0..(PacketBackup - 1) :
       sv.frames[i].n <= MaxEntities /\ cl.slots[i].n <= MaxEntities
  /\ Len(toClient) <= MaxInFlight /\ Len(toServer) <= MaxInFlight

\* The snapshot CL_GetSnapshot gives cgame for a number. Before the gamestate there
\* is no cgame; snapshots come all the same, and lack their baselines.
Available(n) ==
  /\ cl.state = "primed"
  /\ n \in 1..cl.snap /\ cl.snap - n < PacketBackup
  /\ cl.slots[n % PacketBackup].valid
  /\ cl.parsed - cl.slots[n % PacketBackup].first < ParseRing

\* Every snapshot cgame gets is the one it asked for, with the entities the
\* server built it from, whatever was lost and whatever the rings have
\* forgotten since (CL_GetSnapshot, CL_ParseSnapshot, SV_EmitPacketEntities).
SnapshotsIntact ==
  \A n \in 1..cl.snap : Available(n) =>
    LET s == cl.slots[n % PacketBackup] IN
    s.num = n /\ Read(cl.ring, ParseRing, s.first, s.n) = s.is

\* "should never happen" (CL_ParseSnapshot): a delta that arrives has its base
\* at the client.
DeltaHasBase ==
  \A i \in 1..Len(toClient) :
    toClient[i].msg.kind = "snapshot" => HasBase(cl, toClient[i].num, toClient[i].msg)

\* The message shows that the client has not got the last gamestate and has got
\* something later.
ShowsLoss(m) == sv.gsSent > 0 /\ m.ack > sv.gsSent /\ m.gs < sv.gsSent

Resent == sv'.gsNum # sv.gsNum \/ Len(sv'.queue) > Len(sv.queue)

\* The gamestate is sent again when the client has lost it, and only then; its
\* number is right even when it waits behind a fragmented message. A client that
\* already had a gamestate of this map, before it downloaded files, is not seen
\* to have lost the second one.
LostGamestateResent ==
  [][\A i \in 1..Len(toServer) :
       (SV_ExecuteClientMessage(i) /\ sv.state = "primed") =>
         LET m == toServer[i] IN
         Resent <=> (m.epoch # sv.epoch /\ ShowsLoss(m))]_snVars

\* "when we receive the first packet from the client, we will notice that it is
\* from a different serverid and that the gamestate message was not just sent,
\* forcing a retransmit" (SV_SendClientGameState): any lost gamestate is resent.
AnyLostGamestateResent ==
  [][\A i \in 1..Len(toServer) :
       (SV_ExecuteClientMessage(i) /\ sv.state = "primed" /\ ShowsLoss(toServer[i]))
         => Resent]_snVars
=============================================================================
