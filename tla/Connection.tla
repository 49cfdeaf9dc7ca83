------------------------------ MODULE Connection ------------------------------
(* How clients join and leave a server: the challenge table and the client     *)
(* slots of the server (SV_GetChallenge, SV_DirectConnect, SV_PacketEvent,     *)
(* SV_ExecuteClientMessage, SV_DropClient, SV_CheckTimeouts, SV_Kick_f, and    *)
(* SV_SpawnServer when the map changes), the game's view of the slots          *)
(* (GAME_CLIENT_CONNECT, GAME_CLIENT_DISCONNECT) and clc.state of every client *)
(* (CL_CheckForResend, CL_ConnectionlessPacket, CL_Disconnect).                *)
(*                                                                             *)
(* A peer is a client machine: an address and a qport. Out of band packets     *)
(* stay in the network for ever, so that each may come late, more than once or *)
(* never. Netchan_Process discards copies of a message and those a newer one   *)
(* has overtaken: a client has one message under way, which its next message   *)
(* replaces (it was lost) and which is taken out when the server accepts it.   *)
(* Time is counted in server frames.                                           *)
EXTENDS Integers, FiniteSets

CONSTANTS
  Peers, NoPeer,
  NSlots,          \* sv_maxclients
  NChallenges,     \* MAX_CHALLENGES
  MaxConcurrent,   \* sv_maxconcurrent, 0 for no limit
  Timeout,         \* sv_timeout, in frames
  TimeoutFrames,   \* the frames SV_CheckTimeouts waits for a debugger (5)
  ZombieTime,      \* sv_zombietime, in frames
  ReconnectLimit,  \* sv_reconnectlimit, in frames
  MaxAttempts,     \* bound on the connect commands of one client
  MaxIssued,       \* bound on the challenges the server issues
  MaxKicks         \* bound on the drops and the new maps the operator or the
                   \* game decides

ASSUME ConnectionAssumption ==
  /\ NoPeer \notin Peers
  /\ NSlots \in Nat \ {0} /\ NChallenges \in Nat \ {0, 1}
  /\ {MaxConcurrent, Timeout, TimeoutFrames, ReconnectLimit} \subseteq Nat
  /\ {MaxAttempts, MaxIssued, MaxKicks} \subseteq Nat
  /\ ZombieTime \in 0..Timeout

Slots == 0..(NSlots - 1)
Entries == 0..(NChallenges - 1)

VARIABLES
  slots,       \* svs.clients
  challenges,  \* svs.challenges
  game,        \* the slots whose client the game has connected
  peers,       \* clc of every client
  net,         \* the packets that can still arrive
  issued,      \* how many challenges the server has issued
  kicks        \* how many drops and maps the operator or the game has decided

serverVars == <<slots, challenges, game, issued, kicks>>
vars == <<serverVars, peers, net>>

\* The longest silence the model tells apart.
QuietCap == Timeout + TimeoutFrames + 1

\* quiet: frames since lastPacketTime; since: frames since lastConnectTime, no
\* more than ReconnectLimit; just: justConnected; timeouts: timeoutCount.
Slot == [state : {"free", "zombie", "connected", "primed", "active"},
         peer : Peers \union {NoPeer}, challenge : Nat, quiet : 0..QuietCap,
         since : 0..ReconnectLimit, just : BOOLEAN, timeouts : 0..(TimeoutFrames + 1)]

\* A zeroed client_t that has talked to nobody yet.
FreeSlot == [state |-> "free", peer |-> NoPeer, challenge |-> 0, quiet |-> QuietCap,
             since |-> ReconnectLimit, just |-> FALSE, timeouts |-> 0]

\* A slot that a bot has (SV_BotAllocateClient): nothing comes from an address.
BotSlot == [FreeSlot EXCEPT !.state = "active", !.quiet = 0]
IsBot(s) == s.state = "active" /\ s.peer = NoPeer

\* num: challenge, and the time it was issued at (0: never).
Challenge == [peer : Peers \union {NoPeer}, num : Nat, connected : BOOLEAN]
NoChallenge == [peer |-> NoPeer, num |-> 0, connected |-> FALSE]

\* "primed" has the gamestate of the server's map, "connected" has not;
\* challenge: the number the client made up while "connecting", the server's
\* number later; attempts: how often the user has connected.
Peer == [state : {"disconnected", "connecting", "challenging", "connected", "primed"},
         challenge : Nat, attempts : Nat]

Packet ==
  [type : {"getchallenge"}, peer : Peers, nonce : Nat]
    \union [type : {"challengeResponse"}, peer : Peers, nonce : Nat, num : Nat]
    \union [type : {"connect", "connectResponse"}, peer : Peers, num : Nat]
    \union [type : {"message"}, peer : Peers, num : Nat, current : BOOLEAN, quit : BOOLEAN]

\* Bots are added before the first client comes.
Init ==
  /\ game \in SUBSET Slots
  /\ slots = [i \in Slots |-> IF i \in game THEN BotSlot ELSE FreeSlot]
  /\ challenges = [j \in Entries |-> NoChallenge]
  /\ peers = [p \in Peers |-> [state |-> "disconnected", challenge |-> 0, attempts |-> 0]]
  /\ net = {}
  /\ issued = 0 /\ kicks = 0

Send(m) == net' = net \union {m}

Least(S) == CHOOSE i \in S : \A j \in S : i <= j

Live(s) == s.state \in {"connected", "primed", "active"}

\* A client the server has heard a message from.
Heard(s) == Live(s) /\ ~s.just

-----------------------------------------------------------------------------
(* The server *)

\* The entry for a new challenge. The search for the oldest one stops in the
\* second half of the table when the address already has a challenge in wait.
OldestEntry(p) ==
  LET waiting == {j \in Entries : challenges[j].peer = p /\ ~challenges[j].connected}
      scanned == {j \in Entries : j < NChallenges \div 2 \/ \A k \in waiting : k > j}
  IN  CHOOSE j \in scanned : \A k \in scanned :
        challenges[j].num < challenges[k].num
          \/ (challenges[j].num = challenges[k].num /\ j <= k)

SV_GetChallenge(m) ==
  /\ m.type = "getchallenge"
  /\ issued < MaxIssued
  /\ issued' = issued + 1
  /\ challenges' = [challenges EXCEPT ![OldestEntry(m.peer)] =
                      [peer |-> m.peer, num |-> issued', connected |-> FALSE]]
  /\ Send([type |-> "challengeResponse", peer |-> m.peer, nonce |-> m.nonce,
           num |-> issued'])
  /\ UNCHANGED <<slots, game, peers, kicks>>

\* The table after SV_DropClient for the slots of D, each of which clears the
\* first challenge of its address.
ClearedFor(D) ==
  [j \in Entries |->
     LET p == challenges[j].peer
     IN  IF Cardinality({k \in 0..j : challenges[k].peer = p})
              <= Cardinality({i \in D : slots[i].peer = p})
         THEN NoChallenge ELSE challenges[j]]

SlotsOf(p) == {i \in Slots : slots[i].state # "free" /\ slots[i].peer = p}

\* Mutant: the slot of the address is not looked for.
SlotForNoReuse(p) == {i \in Slots : slots[i].state = "free"}

\* Mutant: a zombie counts as free.
SlotForTakesZombie(p) == IF SlotsOf(p) # {} THEN SlotsOf(p)
                         ELSE {i \in Slots : slots[i].state \in {"free", "zombie"}}

\* The slot a connect packet gets: the one of its address, or the first free one.
SlotFor(p) == IF SlotsOf(p) # {} THEN SlotsOf(p)
              ELSE {i \in Slots : slots[i].state = "free"}

\* Mutant: the limit on concurrent connections is not looked at.
AdmittedAgain(m) ==
  /\ SlotsOf(m.peer) # {} => slots[Least(SlotsOf(m.peer))].since >= ReconnectLimit
  /\ \E j \in Entries : challenges[j].peer = m.peer /\ challenges[j].num = m.num

\* The connect packet passes the limits and carries a challenge of its address;
\* sv_minPing and sv_maxPing are off.
Admitted(m) ==
  /\ MaxConcurrent > 0 => Cardinality({i \in SlotsOf(m.peer) : Heard(slots[i])}) < MaxConcurrent
  /\ SlotsOf(m.peer) # {} => slots[Least(SlotsOf(m.peer))].since >= ReconnectLimit
  /\ \E j \in Entries : challenges[j].peer = m.peer /\ challenges[j].num = m.num

\* The game accepts the client: it first disconnects one it still has there.
Accept(i, m) ==
  /\ slots' = [slots EXCEPT ![i] =
                 [state |-> "connected", peer |-> m.peer, challenge |-> m.num, quiet |-> 0,
                  since |-> 0, just |-> TRUE, timeouts |-> 0]]
  /\ game' = game \union {i}
  /\ Send([type |-> "connectResponse", peer |-> m.peer, num |-> m.num])

\* The game refuses it: the slot has been zeroed, and nobody tells the game.
Refuse(i, m) ==
  /\ slots' = [slots EXCEPT ![i] = [FreeSlot EXCEPT !.peer = m.peer, !.challenge = m.num]]
  /\ UNCHANGED <<game, net>>

SV_DirectConnect(m) ==
  /\ m.type = "connect"
  /\ Admitted(m)
  /\ challenges' = [j \in Entries |->
       IF challenges[j].peer = m.peer /\ challenges[j].num = m.num
       THEN [challenges[j] EXCEPT !.connected = TRUE] ELSE challenges[j]]
  /\ IF SlotFor(m.peer) = {}
     THEN UNCHANGED <<slots, game, net>>
     ELSE \/ Accept(Least(SlotFor(m.peer)), m)
          \/ Refuse(Least(SlotFor(m.peer)), m)
  /\ UNCHANGED <<peers, issued, kicks>>

\* A message with another serverId gets the gamestate, whatever else it carries:
\* a new client at once, one that has had a gamestate when it has acknowledged a
\* message after that.
SendGameState(i, s) ==
  /\ \/ slots' = [slots EXCEPT ![i] =
                    [s EXCEPT !.state = IF s.state = "connected" THEN "primed" ELSE @]]
     \/ ~slots[i].just /\ slots' = [slots EXCEPT ![i] = s]
  /\ UNCHANGED <<challenges, game>>

\* The client is out of the game at once and its slot a zombie; a bot's is free.
Dropped(s) == IF IsBot(s) THEN FreeSlot ELSE [s EXCEPT !.state = "zombie"]

SV_DropClient(i, s) ==
  /\ slots' = [slots EXCEPT ![i] = Dropped(s)]
  /\ challenges' = ClearedFor({i})
  /\ game' = game \ {i}

\* The first move of a client that has the gamestate puts it into the world.
SV_UserMove(i, s) ==
  /\ slots' = [slots EXCEPT ![i] =
                 [s EXCEPT !.state = IF s.state = "primed" THEN "active" ELSE @]]
  /\ UNCHANGED <<challenges, game>>

SV_ExecuteClientMessage(i, m) ==
  LET s == [slots[i] EXCEPT !.quiet = 0, !.just = FALSE]
  IN  CASE ~m.current          -> SendGameState(i, s)
        [] m.current /\ m.quit -> SV_DropClient(i, s)
        [] OTHER               -> SV_UserMove(i, s)

\* Mutant: a message counts as a sign of life of a zombie too.
ZombieMessageRenews(i) ==
  slots' = [slots EXCEPT ![i].quiet = 0] /\ UNCHANGED <<challenges, game>>

\* A zombie's message is read off the netchan, for its acknowledgements, and no
\* more: it does not keep the zombie alive.
ZombieMessage(i) == UNCHANGED <<slots, challenges, game>>

\* A message is for the slot of its qport, and its checksum for the challenge.
SV_PacketEvent(m) ==
  /\ m.type = "message"
  /\ \E i \in SlotsOf(m.peer) :
       /\ i = Least(SlotsOf(m.peer)) /\ slots[i].challenge = m.num
       /\ IF slots[i].state = "zombie" THEN ZombieMessage(i)
          ELSE SV_ExecuteClientMessage(i, m)
  /\ net' = net \ {m}
  /\ UNCHANGED <<peers, issued, kicks>>

\* A kicked client stays as a zombie from now on; kicking a zombie only renews it.
SV_Kick_f(i) ==
  /\ kicks < MaxKicks /\ slots[i].state # "free"
  /\ kicks' = kicks + 1
  /\ IF slots[i].state = "zombie"
     THEN slots' = [slots EXCEPT ![i].quiet = 0] /\ UNCHANGED <<challenges, game>>
     ELSE SV_DropClient(i, [slots[i] EXCEPT !.quiet = 0])
  /\ UNCHANGED <<peers, net, issued>>

\* The game, or an overflow of reliable commands, drops a client without renewing
\* its lastPacketTime.
SV_GameDropClient(i) ==
  /\ kicks < MaxKicks /\ Live(slots[i])
  /\ kicks' = kicks + 1
  /\ SV_DropClient(i, slots[i])
  /\ UNCHANGED <<peers, net, issued>>

\* A new map: the game starts from nothing and is asked again for every client,
\* which gets the new gamestate when it next sends a message; bots are dropped
\* (killBots) or put into the world. Who had the gamestate has an old one now.
SV_SpawnServer ==
  /\ kicks < MaxKicks
  /\ kicks' = kicks + 1
  /\ LET bots    == {i \in Slots : IsBot(slots[i])}
         clients == {i \in Slots : Live(slots[i])} \ bots
     IN  \E killed \in {{}, bots}, denied \in SUBSET clients :
           /\ slots' = [i \in Slots |->
                IF i \in killed \union denied THEN Dropped(slots[i])
                ELSE IF i \in clients THEN [slots[i] EXCEPT !.state = "connected"]
                ELSE slots[i]]
           /\ challenges' = ClearedFor(denied)
           /\ game' = (clients \ denied) \union (bots \ killed)
  /\ net' = {IF m.type = "message" THEN [m EXCEPT !.current = FALSE] ELSE m : m \in net}
  /\ peers' = [p \in Peers |->
       IF peers[p].state = "primed" THEN [peers[p] EXCEPT !.state = "connected"] ELSE peers[p]]
  /\ UNCHANGED issued

\* One frame later; SV_BotGetConsoleMessage keeps a bot's lastPacketTime up.
Aged(s) ==
  [s EXCEPT !.quiet = IF @ < QuietCap /\ ~IsBot(s) THEN @ + 1 ELSE @,
            !.since = IF @ < ReconnectLimit THEN @ + 1 ELSE @]

ZombieOver(s) == s.state = "zombie" /\ s.quiet > ZombieTime

\* Mutant: justConnected is tested the wrong way round.
SilentHeard(s) == Heard(s) /\ ~IsBot(s) /\ s.quiet > Timeout

\* The condition the code tests: justConnected, not the state.
Silent(s) == ~ZombieOver(s) /\ s.just /\ s.quiet > Timeout
TimedOut(s) == Silent(s) /\ s.timeouts >= TimeoutFrames

\* What a free slot keeps matters only while it is just connected.
Freed(s) == IF s.just THEN [s EXCEPT !.state = "free"] ELSE FreeSlot

\* Mutant: timeoutCount is counted and never looked at.
CheckedNeverDrops(s) ==
  CASE ZombieOver(s) -> Freed(s)
    [] Silent(s)     -> [s EXCEPT !.timeouts = @ + 1]
    [] OTHER         -> [s EXCEPT !.timeouts = 0]

Checked(s) ==
  CASE ZombieOver(s)  -> Freed(s)
    [] TimedOut(s)    -> [s EXCEPT !.state = "free", !.timeouts = TimeoutFrames + 1]
    [] Silent(s) /\ ~TimedOut(s) -> [s EXCEPT !.timeouts = @ + 1]
    [] OTHER          -> [s EXCEPT !.timeouts = 0]

\* Mutant: the slot is set free without SV_DropClient.
SV_CheckTimeoutsNoDrop ==
  /\ slots' = [i \in Slots |-> Checked(Aged(slots[i]))]
  /\ UNCHANGED <<challenges, game, peers, net, issued, kicks>>

\* SV_CheckTimeouts tests justConnected and not the state: it drops a free slot
\* again in every frame, and never a client that has sent a message.
SV_CheckTimeouts ==
  LET dropped == {i \in Slots : TimedOut(Aged(slots[i])) /\ slots[i].state # "zombie"}
  IN  /\ slots' = [i \in Slots |-> Checked(Aged(slots[i]))]
      /\ challenges' = ClearedFor(dropped)
      /\ game' = game \ dropped
      /\ UNCHANGED <<peers, net, issued, kicks>>

-----------------------------------------------------------------------------
(* The clients *)

CL_Connect_f(p) ==
  /\ peers[p].state = "disconnected" /\ peers[p].attempts < MaxAttempts
  /\ peers' = [peers EXCEPT ![p] = [state |-> "connecting", challenge |-> @.attempts + 1,
                                    attempts |-> @.attempts + 1]]
  /\ UNCHANGED <<serverVars, net>>

CL_CheckForResend(p) ==
  /\ \/ /\ peers[p].state = "connecting"
        /\ Send([type |-> "getchallenge", peer |-> p, nonce |-> peers[p].challenge])
     \/ /\ peers[p].state = "challenging"
        /\ Send([type |-> "connect", peer |-> p, num |-> peers[p].challenge])
  /\ UNCHANGED <<serverVars, peers>>

CL_ChallengeResponse(m) ==
  /\ m.type = "challengeResponse"
  /\ peers[m.peer].state = "connecting" /\ peers[m.peer].challenge = m.nonce
  /\ peers' = [peers EXCEPT ![m.peer].state = "challenging", ![m.peer].challenge = m.num]
  /\ UNCHANGED <<serverVars, net>>

CL_ConnectResponse(m) ==
  /\ m.type = "connectResponse"
  /\ peers[m.peer].state = "challenging" /\ peers[m.peer].challenge = m.num
  /\ peers' = [peers EXCEPT ![m.peer].state = "connected"]
  /\ UNCHANGED <<serverVars, net>>

\* The gamestate arrives (CL_ParseGamestate).
CL_ParseGamestate(p) ==
  /\ peers[p].state = "connected"
  /\ \E i \in SlotsOf(p) : slots[i].state = "primed" /\ slots[i].challenge = peers[p].challenge
  /\ peers' = [peers EXCEPT ![p].state = "primed"]
  /\ UNCHANGED <<serverVars, net>>

SendMessage(p, quit) ==
  net' = {m \in net : ~(m.type = "message" /\ m.peer = p)}
           \union {[type |-> "message", peer |-> p, num |-> peers[p].challenge,
                    current |-> peers[p].state = "primed", quit |-> quit]}

CL_WritePacket(p) ==
  /\ peers[p].state \in {"connected", "primed"}
  /\ SendMessage(p, FALSE)
  /\ UNCHANGED <<serverVars, peers>>

\* The user leaves, the client's own timeout strikes, or the server's
\* "disconnect" has arrived; the last messages can all be lost.
CL_Disconnect(p) ==
  /\ peers[p].state # "disconnected"
  /\ IF peers[p].state \in {"connected", "primed"} THEN SendMessage(p, TRUE)
     ELSE UNCHANGED net
  /\ peers' = [peers EXCEPT ![p].state = "disconnected", ![p].challenge = 0]
  /\ UNCHANGED serverVars

-----------------------------------------------------------------------------
Next ==
  \/ \E m \in net :
       \/ SV_GetChallenge(m) \/ SV_DirectConnect(m) \/ SV_PacketEvent(m)
       \/ CL_ChallengeResponse(m) \/ CL_ConnectResponse(m)
  \/ \E i \in Slots : SV_Kick_f(i) \/ SV_GameDropClient(i)
  \/ SV_CheckTimeouts \/ SV_SpawnServer
  \/ \E p \in Peers :
       \/ CL_Connect_f(p) \/ CL_CheckForResend(p) \/ CL_ParseGamestate(p)
       \/ CL_WritePacket(p) \/ CL_Disconnect(p)

\* Com_Frame calls SV_Frame, and SV_Frame calls SV_CheckTimeouts, for ever.
Spec == Init /\ [][Next]_vars /\ WF_vars(SV_CheckTimeouts)

-----------------------------------------------------------------------------
(* Properties *)

\* Every variable keeps its type; in particular no count passes its bound.
TypeOK ==
  /\ slots \in [Slots -> Slot] /\ challenges \in [Entries -> Challenge]
  /\ game \subseteq Slots
  /\ peers \in [Peers -> Peer] /\ net \subseteq Packet
  /\ issued \in 0..MaxIssued /\ kicks \in 0..MaxKicks

\* A machine never holds two slots, however its connect packets are repeated,
\* delayed and mixed with drops: SV_PacketEvent looks for one slot per address.
OneSlotPerPeer ==
  \A i, k \in Slots :
    /\ slots[i].state # "free" /\ slots[k].state # "free"
    /\ slots[i].peer = slots[k].peer /\ slots[i].peer # NoPeer
    => i = k

\* The slot of a connect packet that the game refused.
Refused(s) == s.state = "free" /\ ~s.just /\ s.peer # NoPeer

\* The game has every client the server has, and no other but one whose
\* reconnection it has itself refused (ClientConnect, ClientDisconnect).
GameAgrees ==
  \A i \in Slots : /\ Live(slots[i]) => i \in game
                   /\ i \in game => Live(slots[i]) \/ Refused(slots[i])

\* A client that never sends a message after the connect packet is dropped, a few
\* frames after sv_timeout (SV_CheckTimeouts).
UnheardIsDropped ==
  \A i \in Slots : Live(slots[i]) /\ slots[i].just => slots[i].quiet <= Timeout + TimeoutFrames

\* What the comment of SV_CheckTimeouts says of every client: one that has sent
\* nothing for sv_timeout is dropped.
SilentIsDropped ==
  \A i \in Slots : Live(slots[i]) => slots[i].quiet <= Timeout + TimeoutFrames

\* With sv_maxconcurrent at its default, 1, no late or repeated connect packet
\* starts the connection of a client in the game again: it ends by a drop.
PlayingNotReset ==
  [][\A i \in Slots : Heard(slots[i]) /\ ~IsBot(slots[i]) =>
       slots'[i].state = "zombie" \/ (Heard(slots'[i]) /\ slots'[i].challenge = slots[i].challenge)]_vars

\* While a slot is a zombie no other machine gets it: the last reliable commands
\* are still being sent there.
ZombieKept ==
  [][\A i \in Slots : slots[i].state = "zombie" =>
       slots'[i].peer = slots[i].peer \/ slots'[i].state = "free"]_vars

\* A zombie does not keep its slot for ever, whatever its client sends.
ZombieEnds ==
  \A i \in Slots : slots[i].state = "zombie" ~> slots[i].state # "zombie"
===============================================================================
