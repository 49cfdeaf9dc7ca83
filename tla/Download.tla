------------------------------ MODULE Download -------------------------------
(* The files a client misses, sent by the server block by block               *)
(* (SV_WriteDownloadToClient, SV_NextDownload_f, SV_BeginDownload_f;          *)
(* CL_ParseDownload, CL_NextDownload, CL_BeginDownload). The server keeps the *)
(* blocks of a window, sends each once, and sends the window again when no    *)
(* acknowledgement came for a second; the client takes the block it waits for *)
(* and acknowledges it.                                                       *)
(*                                                                            *)
(* Blocks travel in messages that may be lost but not reordered               *)
(* (LossyChannel); the client's commands are reliable (ReliableCommands).     *)
(* Block Size[f] of file f is the empty one that ends it.                     *)
EXTENDS Integers, Sequences

CONSTANTS
  Size,         \* the files 1..Len(Size), paks the server references: their lengths
                \* in blocks
  Refused,      \* those of them it does not give
  Lists,        \* what the client may miss: sequences of files
  Window,       \* MAX_DOWNLOAD_WINDOW
  BlockMod,     \* block numbers are sent modulo this: 2^16
  MaxBlocks,    \* bound on the messages under way; older ones are lost
  MaxCommands   \* bound on the commands under way

\* A list has no file twice in a row: the server has one pak of a name
\* (FS_ReferencedPakNames, FS_ComparePaks). An empty file is no pak.
ASSUME DownloadAssumption ==
  /\ Size \in Seq(Nat \ {0}) /\ Refused \subseteq DOMAIN Size
  /\ \A l \in Lists : l \in Seq(DOMAIN Size) /\ \A i \in 1..(Len(l) - 1) : l[i] # l[i + 1]
  /\ Window \in Nat \ {0} /\ BlockMod \in Nat /\ BlockMod > Window
  /\ MaxBlocks \in Nat \ {0} /\ MaxCommands \in Nat \ {0}

VARIABLES
  server,   \* the download fields of the server's client_t
  client,   \* the download fields of the client's clc
  net,      \* the blocks under way
  cmds,     \* the client's commands under way
  again,    \* history: the server has sent a block a second time
  stale,    \* history: the blocks the client took for one of another file
  spoiled   \* history: the files the client accepted with other contents

dlVars == <<server, client, net, cmds, again, stale, spoiled>>

None == 0
Files == DOMAIN Size
Block(f, i) == [file |-> f, idx |-> i]
Ends(b) == b.file = None \/ b.idx = Size[b.file]
NoBlock == Block(None, 0)
Blocks == [file : Files \union {None}, idx : Nat]

\* name, open, clientBlock, currentBlock, xmitBlock: downloadName, download,
\* downloadClientBlock, downloadCurrentBlock, downloadXmitBlock; slots:
\* downloadBlocks with downloadBlockSize, of which the sizes outlive the file;
\* late: more than a second since downloadSendTime.
Server == [name : Files \union {None}, open : BOOLEAN, clientBlock : Nat,
           currentBlock : Nat, xmitBlock : Nat, slots : [0..(Window - 1) -> Blocks],
           late : BOOLEAN, dropped : BOOLEAN]

\* file, todo, block: downloadTempName, downloadList, downloadBlock; data: what
\* has been written; a client that is "refused" or "failed" has disconnected.
Client == [file : Files \union {None}, todo : Seq(Files), block : Nat, data : Seq(Blocks),
           state : {"downloading", "done", "refused", "failed"}]

NextDl(n) == [cmd |-> "nextdl", arg |-> n]
BeginDl(f) == [cmd |-> "download", arg |-> f]
StopDl == [cmd |-> "stopdl", arg |-> 0]

NoDownload == [name |-> None, open |-> FALSE, clientBlock |-> 0, currentBlock |-> 0,
               xmitBlock |-> 0, slots |-> [i \in 0..(Window - 1) |-> NoBlock],
               late |-> FALSE, dropped |-> FALSE]
Downloaded == [file |-> None, todo |-> <<>>, block |-> 0, data |-> <<>>, state |-> "done"]

\* CL_InitDownloads has a list, possibly empty, and asks for its first file.
DlInit ==
  /\ server = NoDownload
  /\ \E l \in Lists :
       IF l = <<>> THEN client = Downloaded /\ cmds = <<>>
       ELSE /\ client = [file |-> Head(l), todo |-> Tail(l), block |-> 0, data |-> <<>>,
                         state |-> "downloading"]
            /\ cmds = <<BeginDl(Head(l))>>
  /\ net = <<>> /\ again = FALSE /\ stale = {} /\ spoiled = {}

-----------------------------------------------------------------------------
(* The server sends blocks.                                                  *)

Opened(s) == IF s.open THEN s
             ELSE [s EXCEPT !.open = TRUE, !.clientBlock = 0, !.currentBlock = 0,
                            !.xmitBlock = 0]

\* Mutant: one block more than the window holds.
ReadAheadTooFar(s) ==
  LET end == IF s.clientBlock + Window < Size[s.name]
             THEN s.clientBlock + Window + 1 ELSE Size[s.name] + 1
      new == s.currentBlock..(end - 1)
  IN [s EXCEPT !.currentBlock = end,
        !.slots = [i \in 0..(Window - 1) |->
          LET here == {b \in new : b % Window = i} IN
          IF here = {} THEN @[i] ELSE Block(s.name, CHOOSE b \in here : \A c \in here : c <= b)]]

\* Reads ahead as far as the window goes, the block that ends the file included; of
\* the blocks with one slot the last stays.
ReadAhead(s) ==
  LET end == IF s.clientBlock + Window < Size[s.name] + 1
             THEN s.clientBlock + Window ELSE Size[s.name] + 1
      new == s.currentBlock..(end - 1)
  IN [s EXCEPT !.currentBlock = end,
        !.slots = [i \in 0..(Window - 1) |->
          LET here == {b \in new : b % Window = i} IN
          IF here = {} THEN @[i] ELSE Block(s.name, CHOOSE b \in here : \A c \in here : c <= b)]]

\* Everything read has been sent: the window from its start, after a second.
Resends(s) == s.xmitBlock = s.currentBlock /\ s.late

\* Mutant: nothing is sent twice.
RewoundNever(s) == s
Rewound(s) == IF Resends(s) THEN [s EXCEPT !.xmitBlock = s.clientBlock] ELSE s

\* Mutant: the size goes with every block whose number is 0 in 16 bits.
MessageSizedAgain(s) ==
  [block |-> s.xmitBlock % BlockMod, sized |-> s.xmitBlock % BlockMod = 0, refused |-> FALSE,
   data |-> s.slots[s.xmitBlock % Window], num |-> s.xmitBlock]

\* Block 0 carries the size of the file. num: history, the number before it is
\* cut to 16 bits.
Message(s) ==
  [block |-> s.xmitBlock % BlockMod, sized |-> s.xmitBlock = 0, refused |-> FALSE,
   data |-> s.slots[s.xmitBlock % Window], num |-> s.xmitBlock]
Refusal(f) == [block |-> 0, sized |-> TRUE, refused |-> TRUE, data |-> Block(f, 0), num |-> 0]

Sent(m) == Append(IF Len(net) = MaxBlocks THEN Tail(net) ELSE net, m)

\* The refusal is sent once.
SV_RefuseDownload ==
  /\ server.name \in Refused
  /\ net' = Sent(Refusal(server.name))
  /\ server' = [server EXCEPT !.name = None]
  /\ UNCHANGED <<client, cmds, again, stale, spoiled>>

\* Bound: a server whose client has acknowledged more than the file has sends on for
\* ever; of what it sends only the first is kept.
Runaway(s) == s.xmitBlock > s.currentBlock

SV_WriteDownloadToClient ==
  /\ server.name # None /\ server.name \notin Refused /\ ~(server.open /\ Runaway(server))
  /\ LET read  == ReadAhead(Opened(server))
         acked == read.clientBlock = read.currentBlock
         s     == IF acked THEN read ELSE Rewound(read)
     IN IF acked \/ s.xmitBlock = s.currentBlock
        THEN server' = s /\ UNCHANGED <<net, again>>
        ELSE /\ net' = Sent(Message(s))
             /\ server' = [s EXCEPT !.xmitBlock = @ + 1, !.late = FALSE]
             /\ again' = (again \/ Resends(read))
  /\ UNCHANGED <<client, cmds, stale, spoiled>>

\* A second passes after the whole window was sent.
Wait ==
  /\ server.open /\ server.xmitBlock = server.currentBlock /\ ~server.late
  /\ server' = [server EXCEPT !.late = TRUE]
  /\ UNCHANGED <<client, net, cmds, again, stale, spoiled>>

-----------------------------------------------------------------------------
(* The server executes the client's commands.                                *)

Closed(s) == [s EXCEPT !.open = FALSE, !.name = None]

\* SV_NextDownload_f; SV_DropClient frees the download as well.
NextDownload(s, n) ==
  IF n # s.clientBlock THEN [Closed(s) EXCEPT !.dropped = TRUE]
  ELSE IF Ends(s.slots[n % Window]) THEN Closed(s)
  ELSE [s EXCEPT !.clientBlock = @ + 1, !.late = FALSE]

\* SV_ClientCommand, for the next command.
SV_ClientCommand ==
  /\ cmds # <<>> /\ ~server.dropped
  /\ cmds' = Tail(cmds)
  /\ LET c == Head(cmds) IN
     \/ c.cmd = "nextdl" /\ server' = NextDownload(server, c.arg)
     \/ c.cmd = "download" /\ server' = [Closed(server) EXCEPT !.name = c.arg]
     \/ c.cmd = "stopdl" /\ server' = Closed(server)
  /\ UNCHANGED <<client, net, again, stale, spoiled>>

-----------------------------------------------------------------------------
(* The client takes blocks.                                                  *)

Failed(c) == [c EXCEPT !.state = "failed"]

Contents(f) == [i \in 1..(Size[f] + 1) |-> Block(f, i - 1)]

\* FS_CompareZipChecksum takes the checksum over the directory of a pak, which is
\* searched from the end of the file, and accepts that of any pak the server
\* references. A pak passes, under whatever name; what has the last block of one
\* somewhere, no nearer the start than the pak has it, may pass.
IsPak(data) ==
  \E g \in Files : SubSeq(data, 1, Len(data) - 1) = SubSeq(Contents(g), 1, Size[g])
HasDirectory(data) ==
  \E g \in Files : \E i \in Size[g]..Len(data) : data[i] = Block(g, Size[g] - 1)

\* CL_NextDownload: the next file is asked for.
GoneOn(c) ==
  IF c.todo = <<>> THEN [c EXCEPT !.file = None, !.state = "done"]
  ELSE [c EXCEPT !.file = Head(c.todo), !.todo = Tail(c.todo), !.block = 0, !.data = <<>>]

\* CL_NextDownload: what may become of the client that has ended a file.
Finished(c) == (IF HasDirectory(c.data) THEN {GoneOn(c)} ELSE {})
               \union (IF IsPak(c.data) THEN {} ELSE {Failed(c)})

\* The block is written and acknowledged, with the next file's name after it
\* when it ends this one.
Taken(c, b) == [c EXCEPT !.block = @ + 1, !.data = Append(@, b)]
Take(b) ==
  LET c == Taken(client, b) IN
  \E f \in IF Ends(b) THEN Finished(c) ELSE {c} :
     /\ client' = f
     /\ cmds' = Append(cmds, NextDl(client.block))
                \o (IF Ends(b) /\ f.state = "downloading" THEN <<BeginDl(f.file)>> ELSE <<>>)
     /\ stale' = IF b = Block(client.file, client.block) THEN stale ELSE stale \union {b}
     /\ spoiled' = IF Ends(b) /\ f.state # "failed" /\ c.data # Contents(c.file)
                   THEN spoiled \union {c.file} ELSE spoiled

\* Mutant: any block is taken as the one awaited.
AwaitedAny(m) == TRUE
Awaited(m) == m.block = client.block % BlockMod

\* A size is read where the client starts a file, written where the server does.
Misread(m) == (m.block = 0 /\ client.block = 0) # m.sized

\* No download was asked for: "stopdl", and the rest of the message is read as
\* if it were messages, most likely to an error.
CL_ParseStray(i) ==
  /\ client.state = "done"
  /\ Len(cmds) < MaxCommands
  /\ \/ client' = client /\ cmds' = Append(cmds, StopDl)
     \/ client' = Failed(client) /\ UNCHANGED cmds
  /\ UNCHANGED <<stale, spoiled>>

\* The block is read from the wrong place: an error, or a garbled block that is
\* ignored or, if its number is the one awaited, taken.
CL_ParseMisread(m) ==
  /\ \/ client' = Failed(client) /\ UNCHANGED <<cmds, stale, spoiled>>
     \/ ~Awaited(m) /\ UNCHANGED <<client, cmds, stale, spoiled>>
     \/ Awaited(m) /\ client' = Taken(client, NoBlock)
        /\ cmds' = Append(cmds, NextDl(client.block)) /\ stale' = stale \union {m.data}
        /\ UNCHANGED spoiled

\* CL_ParseDownload. A client that cannot create the file fails in
\* CL_NextDownload, as the file is not there.
CL_ParseDownload(m) ==
  /\ client.state = "downloading"
  /\ Len(cmds) < MaxCommands
  /\ \/ Misread(m) /\ CL_ParseMisread(m)
     \/ ~Misread(m) /\ m.refused
        /\ client' = [client EXCEPT !.state = "refused"] /\ UNCHANGED <<cmds, stale, spoiled>>
     \/ ~Misread(m) /\ ~m.refused /\ ~Awaited(m) /\ UNCHANGED <<client, cmds, stale, spoiled>>
     \/ ~Misread(m) /\ ~m.refused /\ Awaited(m) /\ Take(m.data)
     \/ ~Misread(m) /\ ~m.refused /\ Awaited(m) /\ client.block = 0
        /\ client' = [client EXCEPT !.state = "refused"] /\ UNCHANGED <<cmds, stale, spoiled>>

\* The message at i arrives, those before it are lost.
Receive(i) ==
  /\ CL_ParseDownload(net[i]) \/ CL_ParseStray(i)
  /\ net' = SubSeq(net, i + 1, Len(net))
  /\ UNCHANGED <<server, again>>

Lose ==
  /\ net # <<>>
  /\ net' = Tail(net)
  /\ UNCHANGED <<server, client, cmds, again, stale, spoiled>>

DlServer == SV_RefuseDownload \/ SV_WriteDownloadToClient \/ SV_ClientCommand \/ Wait
DlNext == DlServer \/ Lose \/ \E i \in 1..Len(net) : Receive(i)

Arrives(b) == \E i \in 1..Len(net) : net[i].block = b /\ Receive(i)

\* The server sends in every frame and reads what comes, time passes, and of the
\* messages with one block number that are sent without end some arrive.
DlFairness ==
  /\ WF_dlVars(SV_RefuseDownload) /\ WF_dlVars(SV_WriteDownloadToClient)
  /\ WF_dlVars(SV_ClientCommand) /\ WF_dlVars(Wait)
  /\ \A b \in 0..(BlockMod - 1) : SF_dlVars(Arrives(b))

-----------------------------------------------------------------------------
(* Properties.                                                               *)

DlTypeOK ==
  /\ server \in Server /\ client \in Client
  /\ Len(net) <= MaxBlocks /\ stale \subseteq Blocks /\ again \in BOOLEAN
  /\ spoiled \subseteq Files

\* The blocks not acknowledged are in the window, each in its slot, and the
\* client waits for one of them or for the next (SV_WriteDownloadToClient). A client
\* that accepted a wrong file may acknowledge more than the server has sent.
WindowIntact ==
  server.open /\ spoiled = {} =>
    /\ \A b \in server.clientBlock..(server.currentBlock - 1) :
         server.slots[b % Window] = Block(server.name, b)
    /\ server.xmitBlock <= server.currentBlock
    /\ (client.file = server.name /\ stale = {}) =>
         client.block \in server.clientBlock..server.currentBlock

\* What the client writes is the file, from its start, and every file it accepted
\* is that file, unless a repeated block of the file before was taken for the first
\* of this one. That block had a number that is 0 in 16 bits and was in the last
\* window of its file, the end of which was sent before it was acknowledged; so
\* were all others taken wrongly, until a file is accepted with wrong contents
\* (the checksum is that of any referenced pak, and covers its directory only).
LastWindow(b) == Size[b.file] + 1 - b.idx <= Window
DataIntact ==
  /\ stale = {} =>
       /\ spoiled = {}
       /\ client.file # None => client.data = SubSeq(Contents(client.file), 1, client.block)
  /\ stale # {} => \E b \in stale : b.idx % BlockMod = 0 /\ LastWindow(b)
  /\ spoiled = {} => \A b \in stale : LastWindow(b)

\* Only a block that was sent again can make the client fail, and only one taken
\* for another makes the server drop it as "broken download".
FailsOnlyAfterResend ==
  /\ client.state = "failed" => again
  /\ server.dropped => stale # {}

\* The server sends no block of the file the client waits for: it refused it, once,
\* and that was lost, or a block that was taken wrongly had the number of the one that
\* ends the file, and was acknowledged, before or after the server read that one.
Abandoned ==
  /\ client.state = "downloading" /\ net = <<>> /\ cmds = <<>>
  /\ \/ server.name = None /\ (client.file \in Refused \/ stale # {})
     \/ server.open /\ server.clientBlock > Size[server.name]

\* A download ends, whatever is lost: the client has come to the end of its list,
\* or a file was refused or failed, or the server dropped the client; unless the
\* server was the first to have done with a file.
DownloadEnds == <>(client.state # "downloading" \/ server.dropped \/ Abandoned)
=============================================================================
