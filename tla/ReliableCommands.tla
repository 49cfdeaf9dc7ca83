--------------------------- MODULE ReliableCommands ---------------------------
(* Reliable commands between the server and one client, in both directions    *)
(* (SV_AddServerCommand, SV_UpdateServerCommandsToClient, SV_ClientCommand,    *)
(* SV_DropClient; CL_AddReliableCommand, CL_WritePacket, CL_ParseServerMessage,*)
(* CL_GetServerCommand). Each side numbers its commands, keeps the last        *)
(* MAX_RELIABLE_COMMANDS of them in a ring and repeats in every message those  *)
(* the other side has not acknowledged.                                        *)
(*                                                                             *)
(* The messages travel as Netchan promises (LossyChannel): in order, and any   *)
(* of them may be lost. A command is the number it was added under; the model  *)
(* starts when the gamestate has been received (state CS_PRIMED or later).     *)
EXTENDS Integers, Sequences

CONSTANTS
  Max,          \* MAX_RELIABLE_COMMANDS
  MaxServer,    \* bound on the commands of the server
  MaxClient,    \* bound on the commands of the client
  MaxInFlight   \* bound on the messages under way; more are lost

ASSUME ReliableAssumption ==
  /\ Max \in Nat \ {0, 1}
  /\ MaxServer \in Nat /\ MaxClient \in Nat /\ MaxInFlight \in Nat

VARIABLES
  sv,         \* the server's client_t
  cl,         \* the client's clc and cgs
  toClient,   \* messages under way
  toServer,
  misread,    \* history: the backlogs at which usercmds were read with the wrong key
  svDone,     \* history: the client's commands the server executed
  clDone      \* history: the server's commands the client executed

vars == <<sv, cl, toClient, toServer, misread, svDone, clDone>>

\* seq, ack, cmds: reliableSequence, reliableAcknowledge, reliableCommands;
\* last: lastClientCommand; calls: history, the calls of GAME_CLIENT_DISCONNECT;
\* bye: the number of the "disconnect" command, or 0.
ServerClient == [seq : Nat, ack : Nat, cmds : [0..(Max - 1) -> Nat], last : Nat,
                 state : {"active", "zombie"}, calls : Nat, bye : Nat]

\* got, gotCmds: serverCommandSequence and serverCommands; snaps: the
\* serverCommandNum of the snapshots cgame has yet to process; ran:
\* cgs.serverCommandSequence.
Connection == [seq : Nat, ack : Nat, cmds : [0..(Max - 1) -> Nat],
               got : Nat, gotCmds : [0..(Max - 1) -> Nat], snaps : SUBSET Nat, ran : Nat,
               state : {"active", "disconnected"}, bye : Nat]

NoCommands == [i \in 0..(Max - 1) |-> 0]

Init ==
  /\ sv = [seq |-> 0, ack |-> 0, cmds |-> NoCommands, last |-> 0,
           state |-> "active", calls |-> 0, bye |-> 0]
  /\ cl = [seq |-> 0, ack |-> 0, cmds |-> NoCommands, got |-> 0, gotCmds |-> NoCommands,
           snaps |-> {}, ran |-> 0, state |-> "active", bye |-> 0]
  /\ toClient = <<>> /\ toServer = <<>>
  /\ misread = {}
  /\ svDone = <<>> /\ clDone = <<>>

Send(channel, m) == IF Len(channel) < MaxInFlight THEN Append(channel, m) ELSE channel

\* Mutant: the first command not acknowledged is left out.
UnacknowledgedFromSecond(c) == [i \in (c.ack + 2)..c.seq |-> c.cmds[i % Max]]

\* The commands from ack + 1 to seq, as the loops of SV_UpdateServerCommandsToClient
\* and CL_WritePacket write them.
Unacknowledged(c) == [i \in (c.ack + 1)..c.seq |-> c.cmds[i % Max]]

\* Mutant: the slot is that of the number before.
StoredTooEarly(c) == [c EXCEPT !.seq = @ + 1, !.cmds[c.seq % Max] = c.seq + 1]

\* A command goes into the ring under the next number.
Stored(c) == [c EXCEPT !.seq = @ + 1, !.cmds[(c.seq + 1) % Max] = c.seq + 1]

-----------------------------------------------------------------------------
(* The server adds commands and drops the client.                            *)

\* GAME_CLIENT_DISCONNECT, between the print and the disconnect command.
Told(c) == [c EXCEPT !.calls = @ + 1]

\* Mutant: the client stays as it was.
OverflowDropAlive(c) ==
  LET print == Stored([c EXCEPT !.seq = @ + 1])
      bye   == Stored(Told(print))
  IN [bye EXCEPT !.bye = bye.seq]

\* SV_DropClient from the overflow in SV_AddServerCommand, where the check is
\* == so that the print and the disconnect added here pass it. The command that
\* did not fit has a number and is not stored.
OverflowDrop(c) ==
  LET print == Stored([c EXCEPT !.seq = @ + 1])
      bye   == Stored(Told(print))
  IN [bye EXCEPT !.state = "zombie", !.bye = bye.seq]

AddServerCommand(c) ==
  IF c.state = "zombie" THEN c
  ELSE IF c.seq + 1 - c.ack = Max + 1 THEN OverflowDrop(c) ELSE Stored(c)

\* SV_DropClient for any other reason: the print or the disconnect command it
\* adds may be the one that overflows.
DropClient(c) ==
  LET bye == AddServerCommand(Told(AddServerCommand(c))) IN
  IF c.state = "zombie" THEN c
  ELSE [bye EXCEPT !.state = "zombie", !.bye = IF bye.state = "zombie" THEN @ ELSE bye.seq]

SV_AddServerCommand ==
  /\ sv.state = "active"
  /\ sv.seq < MaxServer \/ sv.seq - sv.ack = Max
  /\ sv' = AddServerCommand(sv)
  /\ UNCHANGED <<cl, toClient, toServer, misread, svDone, clDone>>

SV_DropClient ==
  /\ sv.state = "active"
  /\ sv' = DropClient(sv)
  /\ UNCHANGED <<cl, toClient, toServer, misread, svDone, clDone>>

\* A zombie still gets snapshots, and with them the disconnect command.
SV_SendClientSnapshot ==
  /\ toClient' = Send(toClient, [ack |-> sv.last, cmds |-> Unacknowledged(sv)])
  /\ UNCHANGED <<sv, cl, toServer, misread, svDone, clDone>>

-----------------------------------------------------------------------------
(* The client receives and executes commands.                                *)

\* Mutant: the next command counts as known.
ReceivedLate(c, cmds) ==
  LET new == {n \in DOMAIN cmds : n > c.got + 1}
      last == CHOOSE n \in new : \A k \in new : k <= n IN
  IF new = {} THEN c
  ELSE [c EXCEPT !.got = last,
         !.gotCmds = [i \in 0..(Max - 1) |->
           LET here == {n \in new : n % Max = i} IN
           IF here = {} THEN @[i] ELSE cmds[CHOOSE n \in here : \A k \in here : k <= n]]]

\* CL_ParseCommandString for each command of a message: numbers up to got are
\* known already. The numbers of a message follow each other, so the last one
\* of each residue is what a slot holds in the end.
Received(c, cmds) ==
  LET new == {n \in DOMAIN cmds : n > c.got}
      last == CHOOSE n \in new : \A k \in new : k <= n IN
  IF new = {} THEN c
  ELSE [c EXCEPT !.got = last,
         !.gotCmds = [i \in 0..(Max - 1) |->
           LET here == {n \in new : n % Max = i} IN
           IF here = {} THEN @[i] ELSE cmds[CHOOSE n \in here : \A k \in here : k <= n]]]

\* CL_ParseServerMessage and the snapshot (newSnap.serverCommandNum).
CL_ParseServerMessage(i) ==
  /\ cl.state = "active"
  /\ LET m == toClient[i]
         c == Received([cl EXCEPT !.ack = IF m.ack < cl.seq - Max THEN cl.seq ELSE m.ack],
                       m.cmds)
     IN cl' = [c EXCEPT !.snaps = @ \union {c.got}]
  /\ toClient' = SubSeq(toClient, i + 1, Len(toClient))
  /\ UNCHANGED <<sv, toServer, misread, svDone, clDone>>

\* Mutants: the acknowledgement is one behind; the key is the last command
\* executed.
PacketBehind(c) ==
  [ack |-> c.got - 1, key |-> c.gotCmds[c.got % Max], cmds |-> Unacknowledged(c)]
PacketExecutedKey(c) ==
  [ack |-> c.got, key |-> c.gotCmds[c.ran % Max], cmds |-> Unacknowledged(c)]

\* The message CL_WritePacket sends; the usercmds in it are encoded with the
\* last command received.
Packet(c) == [ack |-> c.got, key |-> c.gotCmds[c.got % Max], cmds |-> Unacknowledged(c)]

\* CL_Disconnect: the disconnect command may go over the oldest one that has
\* not been acknowledged. The packet is sent three times at once; as any of
\* them may be lost and a zombie ignores the rest, one stands for them.
Disconnected(c) ==
  [Stored(c) EXCEPT !.bye = c.seq + 1, !.state = "disconnected"]

CL_Disconnect ==
  /\ cl.state = "active"
  /\ cl' = Disconnected(cl)
  /\ toServer' = Send(toServer, Packet(cl'))
  /\ UNCHANGED <<sv, toClient, misread, svDone, clDone>>

\* CL_AddReliableCommand; with a full ring "Client command overflow", and
\* CL_Disconnect.
CL_AddReliableCommand ==
  /\ cl.state = "active"
  /\ cl.seq < MaxClient \/ cl.seq - cl.ack = Max
  /\ IF cl.seq - cl.ack >= Max
     THEN cl' = Disconnected(cl) /\ toServer' = Send(toServer, Packet(cl'))
     ELSE cl' = Stored(cl) /\ UNCHANGED toServer
  /\ UNCHANGED <<sv, toClient, misread, svDone, clDone>>

\* The commands the cgame asks for up to number n, as the slots hold them.
Asked(n) == [i \in 1..(n - cl.ran) |-> cl.gotCmds[(cl.ran + i) % Max]]

\* Mutant: off by one.
CycledOutLate(n) == n > cl.ran /\ cl.ran + 1 < cl.got - Max
\* The first of them has been overwritten (CL_GetServerCommand).
CycledOut(n) == n > cl.ran /\ cl.ran + 1 <= cl.got - Max

\* CG_ExecuteNewServerCommands(n) for a snapshot, with CL_GetServerCommand for
\* each command: an error when the command has been cycled out, the end of the
\* connection when it is the server's disconnect.
CG_ExecuteNewServerCommands(n) ==
  /\ cl.state = "active"
  /\ LET cmds == IF n > cl.ran /\ ~CycledOut(n) THEN Asked(n) ELSE <<>>
         byes == {i \in 1..Len(cmds) : sv.bye # 0 /\ cmds[i] = sv.bye}
     IN /\ clDone' = clDone \o cmds
        /\ IF CycledOut(n) \/ byes # {}
           THEN cl' = Disconnected(cl) /\ toServer' = Send(toServer, Packet(cl'))
           ELSE /\ cl' = [cl EXCEPT !.ran = IF n > @ THEN n ELSE @,
                                    !.snaps = {k \in @ : k > n}]
                /\ UNCHANGED toServer
  /\ UNCHANGED <<sv, toClient, misread, svDone>>

CL_WritePacket ==
  /\ cl.state = "active"
  /\ toServer' = Send(toServer, Packet(cl))
  /\ UNCHANGED <<sv, cl, toClient, misread, svDone, clDone>>

-----------------------------------------------------------------------------
(* The server receives a message.                                            *)

\* SV_ClientCommand for the commands of a message: those up to last were
\* executed, a gap drops the client, and so does the client's disconnect.
Fresh(cmds) == {n \in DOMAIN cmds : n > sv.last}
Gap(cmds) == Fresh(cmds) # {} /\ sv.last + 1 \notin Fresh(cmds)
Goodbye(cmds) == {n \in Fresh(cmds) : cl.bye # 0 /\ cmds[n] = cl.bye}
LastRun(cmds) ==
  LET stop == IF Goodbye(cmds) = {} THEN Fresh(cmds)
              ELSE {n \in Fresh(cmds) : \A g \in Goodbye(cmds) : n <= g} IN
  IF stop = {} THEN sv.last ELSE CHOOSE n \in stop : \A k \in stop : k <= n

\* An acknowledgement that is too old is not believed, and the message ignored.
Illegible(m) == m.ack < sv.seq - Max

SV_ExecuteClientMessage(i) ==
  LET m   == toServer[i]
      ack == [sv EXCEPT !.ack = IF Illegible(m) THEN sv.seq ELSE m.ack]
      run == [ack EXCEPT !.last = LastRun(m.cmds)]
  IN /\ sv.state = "active"
     /\ IF Illegible(m) THEN sv' = ack /\ UNCHANGED <<svDone, misread>>
        ELSE IF Gap(m.cmds) THEN sv' = DropClient(ack) /\ UNCHANGED <<svDone, misread>>
        ELSE /\ svDone' = svDone \o [k \in 1..(run.last - sv.last) |-> m.cmds[sv.last + k]]
             /\ IF Goodbye(m.cmds) # {} THEN sv' = DropClient(run) /\ UNCHANGED misread
                ELSE /\ sv' = run
                     /\ misread' = IF m.key = sv.cmds[m.ack % Max] THEN misread
                                   ELSE misread \union {sv.seq - m.ack}
     /\ toServer' = SubSeq(toServer, i + 1, Len(toServer))
     /\ UNCHANGED <<cl, toClient, clDone>>

Server == \/ SV_AddServerCommand \/ SV_DropClient \/ SV_SendClientSnapshot
          \/ \E i \in 1..Len(toServer) : SV_ExecuteClientMessage(i)
Client == \/ CL_AddReliableCommand \/ CL_Disconnect \/ CL_WritePacket
          \/ \E i \in 1..Len(toClient) : CL_ParseServerMessage(i)
          \/ \E n \in cl.snaps : CG_ExecuteNewServerCommands(n)

Next == Server \/ Client

\* The server sends snapshots, the client packets, and cgame processes what
\* has arrived, all once per frame; of the messages sent without end some
\* arrive.
Fairness ==
  /\ WF_vars(SV_SendClientSnapshot)
  /\ SF_vars(\E i \in 1..Len(toClient) : CL_ParseServerMessage(i))
  /\ WF_vars(\E n \in cl.snaps : CG_ExecuteNewServerCommands(n))

Spec == Init /\ [][Next]_vars /\ Fairness

-----------------------------------------------------------------------------
(* Properties.                                                               *)

TypeOK ==
  /\ sv \in ServerClient
  /\ cl \in Connection
  /\ Len(toClient) <= MaxInFlight /\ Len(toServer) <= MaxInFlight
  /\ svDone \in Seq(Nat) /\ clDone \in Seq(Nat)

\* More commands were added than the ring holds without an acknowledgement.
Overrun(c) == c.seq - c.ack > Max

ServerCommands == INSTANCE ReliableStream WITH
  given <- sv.seq, done <- clDone, broken <- Overrun(sv)
ClientCommands == INSTANCE ReliableStream WITH
  given <- cl.seq, done <- svDone, broken <- Overrun(cl)

\* The client executes the server's commands one by one, each once and in order,
\* whatever is lost, until the server's ring overruns (SV_AddServerCommand: "the
\* given command will be transmitted to the client").
ServerCommandsInOrder == ServerCommands!Spec

\* The server executes the client's commands one by one, each once and in order,
\* unless the client's disconnect command went over one of them
\* (CL_AddReliableCommand).
ClientCommandsInOrder == ClientCommands!Spec

\* No message under way skips a command its receiver does not have: the client
\* relies on it without a check (CL_ParseCommandString), the server drops the
\* client otherwise ("Lost reliable commands", SV_ClientCommand), and an
\* acknowledgement never looks too old (SV_ExecuteClientMessage).
NoGap ==
  /\ \A i \in 1..Len(toClient) :
       \A n \in DOMAIN toClient[i].cmds :
         n <= cl.got + 1 \/ n - 1 \in DOMAIN toClient[i].cmds
  /\ sv.state = "active" => \A i \in 1..Len(toServer) :
       ~Gap(toServer[i].cmds) /\ ~Illegible(toServer[i])

\* The server decodes usercmds with the command the client encoded them with,
\* as long as its ring is not exactly full of unacknowledged commands ("also use
\* the last acknowledged server command in the key", SV_UserMove): then the slot
\* of the acknowledged command holds the newest one.
KeysAgreeWithRoom == misread \subseteq {Max}

\* The game is told that a client is gone when it is, and once, unless a command
\* that SV_DropClient itself adds overruns the ring: then SV_DropClient runs
\* inside itself, and tells it twice (SV_AddServerCommand, SV_DropClient).
GameTold ==
  /\ sv.state = "zombie" <=> sv.calls > 0
  /\ sv.calls <= IF Overrun(sv) THEN 2 ELSE 1

\* Each command of the server is executed in the end, unless the ring overruns
\* or the client disconnects (cycled-out commands included).
ServerCommandDelivered ==
  \A n \in 1..MaxServer :
    (sv.seq >= n) ~> (cl.ran >= n \/ Overrun(sv) \/ cl.state = "disconnected")
=============================================================================
