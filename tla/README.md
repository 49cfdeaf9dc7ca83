# A TLA+ development for q3lite-circle

q3lite-circle is Quake III (the q3lite fork of ioquake3) on a Raspberry Pi
without an operating system, on top of the Circle bare-metal library. The
engine is single-threaded and runs in one task; USB reports arrive as
interrupts, packets over UDP, and the port caches archives in RAM behind
`fopen`. This directory models the parts whose correctness depends on the order
of things: what an interrupt may do to a frame, what a bad network may do to a
connection, what a sequence of calls may do to a cache or a ring.

Paths below are relative to `libs/q3lite/code/`, except `src/kernel.cpp` and
`src/input_queue.h`.

## 1. Inventory

| Component | State | Operations | What makes it correct |
|---|---|---|---|
| USB input ring (`src/kernel.cpp`, `circle/circle_input.c`) | `g_inputQueue`, `g_queueHead`, `g_queueTail`, `g_mouseDeltaX/Y`, last report | report handlers in interrupt context, `IN_Frame` in the frame loop | lossless bounded FIFO without locks; no slot overwritten while it is read; motion neither lost nor invented |
| Engine event queue (`qcommon/common.c`, `client/cl_keys.c`) | `eventQueue`, `com_pushedEvents`, `keys[]` | `Com_QueueEvent`, `Com_GetEvent`, `Com_Milliseconds`, `Com_EventLoop` | a key the player released is not down, a held one is; motion is merged exactly |
| Network channel (`qcommon/net_chan.c`, `server/sv_net_chan.c`) | sequence numbers, unsent fragments, partial message, server queue | transmit, next fragment, process | complete messages, in order, none twice; queued messages leave |
| Reliable commands (`server/sv_main.c`, `sv_client.c`, `sv_snapshot.c`, `client/cl_*.c`, `cgame`) | a ring of 64 commands and two counters on each side | add, drop, send, receive, execute, disconnect | executed once, in order, no gap; the receiver and the sender agree on the key |
| RAM cache (`circle/sys_circle.cpp`) | `g_ramCache`, heap buffers, FILEs | `__wrap_fopen`, `__wrap_fclose` | every FILE and entry names a live buffer of its archive |
| Connection (`sv_client.c`, `sv_main.c`, `cl_main.c`) | challenge table, client slots, `clc.state`, gamestate number | challenge, connect, gamestate, drop, time out, reconnect | a client that stays away is dropped, once; a duplicate does not break a connection |
| Snapshots (`sv_snapshot.c`, `sv_client.c`, `sv_init.c`, `cl_parse.c`, `cl_cgame.c`) | 32 frames on each side, the server's entity ring for all clients, the client's own ring, the acknowledged message, the number of the gamestate | build, delta, parse, acknowledge, send the gamestate again, change the map | a delta is applied to the frame it was made from or not used; a lost gamestate is sent again |
| Downloads (`sv_client.c`, `cl_parse.c`, `cl_main.c`) | window of blocks, three counters; the client's block, file and list | ask, open, send, acknowledge, send again, refuse, next file, `donedl` | the file arrives complete; every download ends |
| Sound DMA (`circle/circle_snd.cpp`, `client/snd_dma.c`) | `s_dmaPos`, the ring, the queue of the device, `s_soundtime`, `s_paintedtime` | position, paint, submit, clear, start, stop | what is played was mixed for its time; the time follows the device; sound does not break off |
| Loopback (`net_chan.c`, `common.c`) | a ring of 16 packets in each direction between the server and the local client | send, get | nothing lost but the oldest packets of an overrun; a message of maximum size fits |
| UDP socket (`circle/circle_net_ip.cpp`), zone and hunk, command buffer, VM and ARM compiler, file system, renderers, game modules, bot library, vendored libraries | | | see `PROJECT.json` for the reason each is not modelled |

How they interact: interrupts fill the input ring; `Com_Frame` calls `IN_Frame`
(ring to event queue) and then `Com_EventLoop` (event queue to keys, mouse);
`NET_Sleep` receives packets and `Com_EventLoop` reads those of the loopback, which go through the netchan to
`CL_ParseServerMessage` or `SV_ExecuteClientMessage`; both carry reliable
commands and acknowledgements; a snapshot lets cgame execute the commands that
came with it; before the game a client may download files, and then gets a
second gamestate; every frame ends with a mix of the sound that the device takes
at its own pace; everything that opens an archive goes through `__wrap_fopen`.

Hard to test: the place where an interrupt falls in `IN_Frame`; lost, repeated
and reordered packets; rings at exactly their limit; a drop that adds commands
while it runs; an error that leaves a function half-way (`ERR_DROP`, a failed
`fopencookie`). `PROJECT.json` lists every hazard with its line and the
properties that watch it, or why none does yet.

## 2. Modules

| Module | Models |
|---|---|
| `EventFifo` | abstract: a bounded FIFO that loses an event only when full |
| `InputQueue` | the ring and the mouse accumulators, one action per access to shared memory |
| `InputPipeline` | `InputQueue` composed with the event queues, down to `keys[].down` |
| `LossyChannel` | abstract: messages may be lost, never reordered, repeated or cut |
| `Netchan` | one direction of a netchan, with the server's queue |
| `Loopback` | `Netchan` over either transport, UDP or the loopback ring |
| `ReliableStream` | abstract: commands executed one by one, once, without a gap |
| `ReliableCommands` | both directions of reliable commands between the server and a client |
| `RamCache` | the cache of archives under `fopen` |
| `Connection` | challenges, client slots, zombies and timeouts of the server, several clients, and the game's view |
| `Download` | the blocks of the files a client misses, both sides |
| `Snapshot` | the gamestate, the snapshots and their acknowledgements, both sides |
| `Session` | `Download` and then `Snapshot`, joined by `donedl` |
| `SoundDma` | the sound ring between the mixer and the device |
| `InputProofs` (queue and pipeline), `NetchanProofs` (with the loopback), `RamCacheProofs`, `ConnectionProofs`, `ReliableProofs`, `DownloadProofs`, `SnapshotProofs`, `SoundDmaProofs` | theorems |
| `MC*` and `.cfg` | the instances TLC checks |

### InputQueue

`KeyStatusHandlerRaw` and `MouseStatusHandler` compare a report with the last
one (`prev`) and turn it into the set of `PushKeyEvent` calls it makes (`todo`),
ranked as the code orders them: modifiers or buttons, presses, releases. The
order within a rank is that of the scancodes in the report, which the keyboard
chooses, so it is left open. A call then stores its slot (`PushStore`) and
publishes the head (`PushPublish`), or is dropped (`PushFull`, `PushUnmapped`).
`IN_Frame` is a program counter over `circle_input.c:121-168`. The copy of the
slot may also come after the store to `g_queueTail` (`AdvanceTailFirst`,
`ReadSlotLate`): the slot is not volatile and no barrier keeps the order.

The port runs on one core, so a handler really runs to its end before the frame
loop continues. The model lets the two interleave freely; it has every real
execution and more. The counts of reports are bounded by `MaxReports`.

### InputPipeline

Extends `InputQueue`: `DispatchEvent` and `DispatchMotion` now call
`Com_QueueEvent`, and `phase` says whether `Com_Frame` is in `IN_Frame`, in
`Com_EventLoop` or inside `Com_Milliseconds`. Phase `"events"` stands for the
frame from `Com_EventLoop` to its end, so `Com_Milliseconds` anywhere in it, and
before the next `IN_Frame`, is covered. `AbortFrame` is the `longjmp` of
`ERR_DROP`. `Key_SetCatcher` releases all keys when the catcher changes
(`cl_keys.c:1452-1456`): Escape, the console, the message line, a connection or a
map that is loaded, the user interface and cgame all do that, and
`UI_KEY_CLEARSTATES` releases them without a change. The catcher itself is no
variable: any of that code may set any catcher, so each event may release all
keys or none (a press that toggles the console always does), and `ChangeCatcher`
does it between events. `ToggleMenu` is the command that passes a press and a
release of Escape to `CL_KeyEvent` (`cl_console.c:98-101`). `cleared` remembers
what the engine released without an event of the key; the key's next event ends
that. Left out: the second call of `Com_EventLoop` in a frame differs in
nothing the model sees; journaling; console events (`CON_Input` returns NULL);
where keys go after `keys[].down` is set; the upper case of characters.

### Netchan

A packet is never removed from `net`, so it may arrive any number of times,
late, or never. `Netchan_Process` is split by outcome. The checksum and qport
bind packets to a connection and are left out because there is only one.
Sequence numbers do not wrap here: the code has 31 bits of them.

### Loopback

Extends `Netchan`; `transport` is the type of the remote address, chosen at the
start. Over the loopback the set `net` is a history and a packet is read from
the ring, once. `get` and `send` only grow, as in the code, and a slot is their
remainder. `FirstReadable` is where `NET_GetLoopPacket` goes on after an overrun.
In the engine, one thread, the server cannot send while `Com_EventLoop` reads;
in the model it can, between two packets. Left out: the ring from the client to
the server, on which the client sends all fragments of a message at once, and the
delay queue of `cl_packetdelay`, a test aid.

### ReliableCommands

A command is the number it was added under, so a slot that holds the wrong
command shows. Messages travel as `LossyChannel` allows (in order, any may be
lost), which is what `Netchan` is shown to provide. `OverflowDrop` and
`DropClient` follow `SV_AddServerCommand` and `SV_DropClient` through their
mutual recursion: the overflow drop adds a print and a disconnect that pass the
`==` check; a drop for another reason may itself meet it. The model starts when
the gamestate has been received. Left out: other clients, flood protection,
message sizes, voip, usercmds except for their key.

### RamCache

Whether the heap has room, a read fails or `fopencookie` fails is a choice. A
call is one action: only the engine's task opens archives, so the `Yield` in the
read loop lets no second call in.

### Connection

A peer is a client machine with an address and a qport of its own. Out of band
packets (`getchallenge`, `challengeResponse`, `connect`, `connectResponse`) are
never removed from `net`, so each may arrive late, again, or never. The netchan
under an established connection discards copies and overtaken messages
(`DeliversInOrder`), so a client has one message under way, which is lost when
the next replaces it. A message says whether it carries the serverId of the
server (`current`) and whether it carries `disconnect` (`quit`).

`slots` is `svs.clients`: state, address, challenge, `justConnected`,
`timeoutCount`, and the ages of `lastPacketTime` and `lastConnectTime` in server
frames, counted up to the first value at which the code acts. `game` is what
GAME_CLIENT_CONNECT and GAME_CLIENT_DISCONNECT have made of the slots: ClientConnect
of the game disconnects a client it still has in the slot, but a refusal comes
before that, so after a refused reconnection the game keeps a client the server
no longer has. `SV_CheckTimeouts` follows the code in testing `justConnected`
and not the state, the repeated drops of a free slot included.

Bots are in some of the slots from the start, so the server may be full. A new
map (`SV_SpawnServer`) empties the game and asks it again for every client; who
had the gamestate is then a peer in `connected` again, because its serverId is
an old one. Drops and maps that the operator, the game or an overflow decides are
bounded by `MaxKicks`, challenges by `MaxIssued`, connect commands by
`MaxAttempts`. Left out: bans, rate and ping limits, private slots, the authorize
server, the local client, several clients behind one address (and the qport
rules that tell them apart), changes of `sv_maxclients`, `map_restart`,
downloads, bots that come later.

### Download

The server's fields are those of `client_t` (`server.h:161`); `slots` stands for
`downloadBlocks` and `downloadBlockSize` together, and keeps what it held when a
file is closed, as the sizes do in the code. `SV_WriteDownloadToClient` is one
action: open, read ahead, go back after a second without an acknowledgement
(`late`, set by `Wait`), send one block. The client writes down what it received
in `data`, with the file each block is of, so that a block in the wrong place
shows. `Finished` is the test of `CL_NextDownload`: `FS_CompareZipChecksum` takes
the checksum over the directory of the pak, which is looked for from the end of
the file, and accepts that of any pak the server references
(`files.c:2148-2170`). So a file that is a pak passes under any name
(`IsPak`), and one that has the directory of a pak somewhere but is not that pak
may pass or not (`HasDirectory`); `spoiled` remembers the files that passed with
contents of others, after which the client goes on with the server a file
behind. Blocks are
numbered modulo `BlockMod`, and the size stands only in block 0, so a repeated
block may be read from the wrong place (`Misread`): what the parser then makes
of it is a choice between an error, a block to ignore and garbled data.
A client that is a file ahead may acknowledge a block past the end of the file
the server sends, which then counts on for ever: of that the model keeps the
first block (`Runaway`, a bound).
`stopdl` and stray blocks after the last file are modelled; cURL, `sv_dlRate`
and what the server does to a client it drops are not.

### Snapshot

One entity list per snapshot; an entity has one field, sent when it differs from
the base, and a baseline that depends on the map. `Built` and `Parsed` write the
rings where the code does, the shared ring of the server being filled by other
clients too (`OtherClientSnapshot`), and the slot that a removed entity scribbles
on. The history `is` travels with a snapshot, so that what cgame gets can be
compared with what the server saw. Messages that are fragmented, as every
gamestate is, wait in `queue` and get their number when the last fragment
leaves: `gamestateMessageNum` is a guess made before. A client has an entity
from `SV_DirectConnect` on, but after a map change only once it enters the world,
so it may get snapshots of two kinds before its gamestate. Left out:
`map_restart` (ignored old messages), `sv_pure` and its `cp` command, bots, the
rate limit, a message that overflows, zombies, the bits of `msg.c`, and the
player state, which is compressed like one more entity that is always there.

### Session

The two parts follow each other: while `downloadName` is set the server sends no
snapshots and the client, which has no cgame, no moves. `DoneDownload` is
`CL_DownloadsComplete` and `SV_DoneDownload_f`; the fields of the download are
not read again and are forgotten there, which keeps the state space a sum. A new
map during a download is left out.

### SoundDma

Positions are in frames, and a frame of the ring is silent, mixed for the next
time the device gets it, or old. `DevicePlays` takes any number of frames at any
time, also between `S_Update` (position, time, painting) and `S_UpdateSubmit`
(the copy to the queue); `DeviceStops` is a device that becomes inactive by
itself. `ahead` is the choice between the shortest mix and `s_mixahead` that the
length of the last frame makes: `snd_dma.c:1317` adds `s_mixPreStep` in seconds
to a number of frames, so the shortest is 11 ms times `dma.speed * 0.01`, 4851
frames at 44.1 kHz. `hist` remembers what the device took between the last
mixes, in which the properties say how late a frame may be: a stretch cut off at
the end of the ring is submitted one frame later, so three mixes matter. Left
out: video recording, raw samples, background tracks, what the mixer puts into a
frame, a `SNDDMA_Init` that fails.

## 3. Runs

| Run | Shows | Bounds |
|---|---|---|
| `input_queue` | `RingIsFifo` (refinement of `EventFifo`), `SlotSafe`, `MotionNotInvented`, `EveryEventDispatched` (liveness), `TypeOK` | ring of 3 slots, 2 reports of up to 2 scancodes, a modifier, a button, the wheel: a report pushes up to 5 events, so the ring wraps, fills and drops |
| `input_pipeline` | `NoStuckKey`, `HeldKeyIsDown`, `MotionMerged` | queues of 2 events, reports of one scancode of 4 (two share a keycode), Shift, the wheel: both engine queues overflow and wrap, the console toggles both ways, the catcher changes anywhere in the frame |
| `netchan` | `DeliversInOrder` (refinement of `LossyChannel`), `EveryMessageEnds`, `QueueDrains` (liveness), `LatestArrives` | both transports; fragments of 2 bytes, messages of 1 to 4 bytes, 4 messages: whole, short and exact multiples mix; a loopback of 3 packets, which the longest message just fits and two overrun |
| `reliable` | `ServerCommandsInOrder`, `ClientCommandsInOrder` (refinements of `ReliableStream`), `NoGap`, `KeysAgreeWithRoom`, `GameTold`, `ServerCommandDelivered` (liveness), `TypeOK` | rings of 2, 3 server and 2 client commands, one message under way in each direction: both rings fill, wrap and overflow |
| `ram_cache` | `BuffersLive` | 2 archives, 3 buffers, 3 FILEs |
| `connection` | `OneSlotPerPeer`, `GameAgrees`, `UnheardIsDropped`, `PlayingNotReset` and `ZombieKept` (action properties; the first with `sv_maxconcurrent` at its default, 1), `ZombieEnds` (liveness), `TypeOK` | 2 peers, 2 slots, 2 challenges; each time limit is 1 frame, so that each is kept, met and passed; one connect command each and one drop or new map from outside: reconnections come from repeated and late packets, the table of challenges is full and overwritten, the server is full of bots, or has room for one or both |
| `session` | `WindowIntact`, `DataIntact`, `FailsOnlyAfterResend`, `DownloadEnds` (liveness), `SnapshotsIntact`, `DeltaHasBase`, `LostGamestateResent` (action property), `TypeOK` | files of 1, 3 and 4 blocks and one that is refused, lists of up to three, a window of 2, block numbers modulo 3, three messages with blocks under way: the window slides, is sent again, its numbers wrap, and a file of one block and its end, sent again, pass for the second file, of which early blocks are then taken for the third; 3 frames and 2 entities, a shared ring of 5, 2 maps, 6 messages of the server: every slot is used again, the base gets too old and rolls off, and a map changes while the gamestate is in the queue |
| `sound` | `FreshUnlessLate`, `NoUnderrun`, `SoundtimeExact` (action property), `SoundGoesOn` (liveness), `TypeOK` | a ring of 7 frames, a queue of 4, mixes of 5 or 6: the order of the real sizes (16384, 4096, 4851 to 8820); `TimeLimit` 7, so that the time starts again each second turn |
| `gamestate_lost` | counterexample to `AnyLostGamestateResent` | as `session` |
| `input_motion` | counterexample to `MotionConserved` | as `input_queue` |
| `connection_silent` | counterexample to `SilentIsDropped` | as `connection` |
| `ram_cache_fallback` | counterexample to `FallbackUsable` | as `ram_cache` |

Deadlock is checked in every run but those of `Session`, which ends when all
messages are used up or the client has failed, and of `SoundDma`, which is over
when a device has stopped by itself. The small sizes are enough because each ring
has its full, empty and wrapped states within the bound and each queue overflows
at least once; the theorems of section 5 remove the bound where they exist.

What the four counterexamples say of the code:

* `IN_Frame` reads the two mouse accumulators and clears them afterwards; a
  report in between is lost.
* `SV_CheckTimeouts` never drops a client that has sent one message: its comment
  promises the drop for every silent client, the code asks for `justConnected`,
  which the first message clears. `UnheardIsDropped` is what does hold. Such a
  client also counts against `sv_maxconcurrent`, so its own machine cannot come
  back. (In turn, the slot of a client that was never heard keeps
  `justConnected` when it is set free, and `SV_DropClient` runs for it in every
  frame, which takes away the challenge its address has just been given.)
* `__wrap_fopen` returns a closed FILE, and leaves a freed buffer in the cache,
  when `fopencookie` fails after a load.
* The gamestate that answers `donedl` is not sent again when it is lost: the
  client has the serverId of the map from its first gamestate, and only a
  different serverId makes the server look. Every other lost gamestate is sent
  again (`LostGamestateResent`).

What the invariants admit, because the code does it:

* `KeysAgreeWithRoom`: with exactly 64 unacknowledged commands, and only then, the
  slot of the last acknowledged command holds the newest one, and the server
  decodes usercmds with another key than the client used (`sv_client.c:1822`).
* `GameTold`: a client dropped with 63 or 64 unacknowledged commands makes
  `SV_DropClient` call itself, in spite of the comment at `sv_main.c:167`, and the
  game is told twice; with more room it is told once.
* `HeldKeyIsDown`: a key that is held is up after every change of the catcher,
  until the player presses it again; so is a held Escape after `togglemenu`.
* `DataIntact`, `FailsOnlyAfterResend`: a block sent again after a second may
  arrive when the client is already at the next file; its number must be 0 in 16
  bits and its file must be nearly over for it to be taken, or misread. When the
  file before is no longer than a window, all of it may come again, and it passes
  the checksum under the name of the next (`spoiled`). From then on the client is a
  file ahead of the server, and blocks from anywhere in a file may be taken for
  those of the next: `DataIntact` then says only that it began with a block of a
  last window, and `WindowIntact` nothing, since the client may acknowledge more
  than was sent.
* `DownloadEnds`: the refusal of a download is sent once; when it is lost the
  client waits for ever. So does one that acknowledged a block of the file before
  under the number of the block that ends this one: the server closes the file, or
  counts past its end, and sends nothing the client waits for. `Abandoned` names
  both.
* `FreshUnlessLate`, `NoUnderrun`: old frames are handed over only if the device
  took more than 755 frames (17 ms) while a mix was made, or more than 2646
  (60 ms) between two of the last three; silence in the middle only if it took a
  whole queue, 4096 frames (93 ms), in two of them. The limits are those of exact
  arithmetic: `snd_dma.c:1275-1320` computes the painted time in floats, which
  beyond 2^24 frames (six minutes at 44.1 kHz) are off by a few frames.
* `SoundGoesOn`: after a device has stopped by itself `SNDDMA_Shutdown` leaves
  everything as it is, and `SNDDMA_Init` does not start the device again.

## 4. Fairness

* `InputQueue`: weak fairness of `IN_Frame`, because `_main` calls `Com_Frame`
  for ever. None for the handlers: the player may stop.
* `Netchan`: weak fairness of `SV_Netchan_TransmitNextFragment`, which
  `SV_SendQueuedMessages` calls for every client each time the server is idle.
  None for delivery.
* `ReliableCommands`: weak fairness of sending snapshots and of cgame, which run
  every frame; strong fairness of receiving: of infinitely many messages some
  arrive. The client owes nothing else.
* `Connection`: weak fairness of `SV_CheckTimeouts`, which `SV_Frame` calls in
  every frame. None for packets, users or operator. `ZombieEnds` counts on an
  operator who kicks finitely often, since kicking a zombie renews it.
* `Download`: weak fairness of sending and of the clock, because
  `SV_SendDownloadMessages` runs in every frame, and of the execution of reliable
  commands; strong fairness of the arrival of each block number: of messages that
  are sent without end some arrive. Without it the window could be sent for ever
  and never come. `Snapshot` has no fairness: its properties are about safety.
* `SoundDma`: weak fairness of `S_Update` and `S_UpdateSubmit`, which the main
  loop runs in every frame. None for the device.
* `InputPipeline`, `RamCache`: safety only.

## 5. Proofs

All for every value of the constants under the named assumptions of the modules.

* **InputQueue** (`RingAssumption`: at least two slots, keycode 0 is no key,
  scancodes, modifier bits, buttons and the wheel are told apart).
  `RingInv` strengthens the types: the slots in use hold events, a call that is
  pushing has filled the slot at `head` and the ring is not full, the hand and
  the slot behind `tail` (in the late read) hold an event and `head` has not
  come round to that slot's end. It is needed because FIFO order alone says
  nothing of the slot that `PushStore` fills before it is published, nor of the
  slot `IN_Frame` copies after it has moved `tail`. From it follow
  `RingImplementsFifo` (each step is a FIFO step or a stutter, by lemmas on the
  sequence between two indices of a ring: appending, taking the head, writing
  outside) and `SlotIsSafe`. `MotionIsNotInvented` has its own invariant and
  assumes displacements that are not negative, without which the sums say
  nothing.
* **InputPipeline** (`QueueAssumption`: queues of one place at least; no
  scancode, bit or button has the keycode of the console, which `s_UsbToQ3KeyMap`,
  `kernel.cpp:31-90`, does not hold, or of the wheel, which only
  `kernel.cpp:438-444` queues). `KeyInv` follows each key on its way: for a key
  that is held, or let go, `Chain` says of every place from the calls of the
  interrupt over the ring, the hand of `IN_Frame`, `eventQueue` and
  `com_pushedEvents` to `keys[].down` that the opposite event in it is followed by
  the right one, in the same place (`Settled`) or in one nearer the keyboard, unless
  such an event was lost or overwritten. `NoStuckKey` and `HeldKeyIsDown` are its
  ends, when every place is empty. They are not inductive: they say nothing of a
  state with anything queued. The key that a call names may be named by another
  source in the same report, so the calls of `Report` need a case of their own
  (`KeyboardCalls`, `MouseCalls`), and what `crossed` excludes is exactly the one in
  which the last call is not the state of the key. A key pushed behind others, and an
  event that overwrites one, are the two places where order can be lost; that pushed
  events are read first (`FromPushed`) is what keeps it, and `evicted` names the
  other case. `PipeTyped` holds the types, and that the engine has no key outside
  the map. `MotionIsMerged` is a sum over sequences: merging, storing, overwriting
  and taking an event each change the sum by a share (`Ledger`, `Trade`). What a
  sum is for sequences of every length needs induction, here by `LeastNatural` (a
  set of numbers that is not empty has a least one), which follows from the
  well-foundedness of the subsets of a finite set and leaves no operator to
  instantiate.
* **Netchan** (`NetchanAssumption`: messages fit the receiver's buffer). `IInv`:
  every packet in the network is a whole message or a chunk of the message with
  its sequence number; the receiver's partial message is a prefix of that
  message; the sender is at a place in its last message. Lemma `Glue` joins a
  prefix and the chunk after it. It gives `TypeCorrect`, `MessagesEnd` and
  `NetchanImplementsChannel`. The types are only proved, not part of a run.
* **Loopback** (`LoopbackAssumption`: as many full fragments as the ring has
  slots are more than a message). `LoopInv` says where in the ring the last
  message begins, that its fragments follow each other from there and are all
  there, that what is left before it belongs to earlier messages, and that the
  client has exactly the part before `get`. Without the place where it begins,
  nothing says which fragment is read next after an overrun. `RingStep` shows
  that a packet takes the slot of no other that can still be read. It gives
  `LatestAlwaysArrives`, and, because every step over the loopback is a step of
  `Netchan`, `LoopbackImplementsChannel`.
* **RamCache**: `TypeOK /\ BuffersLive` is inductive; `CacheIsSafe`.
* **Connection** (`ConnectionAssumption`: two challenges at least, and a zombie
  goes no later than a silent client, `ZombieTime <= Timeout`). `IInv` adds
  `SilenceCounted` to the types and the two invariants about slots: a client that
  has not been heard is silent no longer than `sv_timeout` and the frames counted
  in `timeoutCount`. `UnheardIsDropped` follows from it, and is not inductive
  without it. Every action is shown to change one slot, to one that no other slot
  shares a machine with, or all as `SV_CheckTimeouts` does, and each slot as the
  two action properties allow (`SlotStep`);
  `PlayersAreNotReset` assumes `MaxConcurrent = 1`, the default of
  `sv_maxconcurrent` (`sv_init.c:650`): with a higher limit a late connect packet
  of a machine that plays is let through.
* **ReliableCommands** (`ReliableAssumption`: two slots at least). A message under
  way has the commands after the last acknowledged one, so `Inbound` and `Outbound`
  say which numbers each message and each ring still has, and that they overlap
  what the receiver has executed; `Rings` says that a slot holds the newest number
  that falls on it, unless the ring has overrun and the client is being dropped;
  `Counts` bounds what is unacknowledged; `Executed` is the history as a sequence
  without gaps. `Typed` is stronger than the types in giving the shape of each
  message. From these follow `NoGap`, `KeysAgreeWithRoom`, `GameTold` and the two
  refinements of `ReliableStream`, each step being a step of the stream or a
  stutter.
* **Downloads** (`DownloadAssumption`: no file stands twice in a row in a list of
  missing files: `FS_ReferencedPakNames`, `files.c:3817`, names each loaded pak
  once, and `FS_ComparePaks` keeps some of them). `Steady` has what holds of server and client each: the window
  is a segment of the file that is being read, the client has written a prefix.
  What a block under way means depends on whether it is of the file asked for or of
  the one before, so `\E p : Following(p)` is added: there is a file `p` (or
  none) before this one; every block under way is of `p` or of this file and those
  of `p` come first (`Passing`, `Overlap`), and the `nextdl` commands under way
  acknowledge blocks the client has (`Phase`). Without `p` nothing bounds the
  numbers of stray blocks, and a block of the last window of `p` could not be told
  from one of this file. Block numbers are cut by `% BlockMod`; that the window is
  shorter than `BlockMod` makes equal remainders equal blocks.
  All this (`Intact`) holds until the client accepts a wrong file. Afterwards it may
  acknowledge anything, so `IInv` is `Intact \/ Astray`: `Astray` keeps only what no
  step undoes, that something was sent again and that a block of a last window with
  a number that is 0 in 16 bits was taken wrongly. The step from one to the other is
  `GoesAstray`: a file that ends with no block taken wrongly is the file itself
  (`RightPasses`). `FileIsWritten`, `NoFailureBeforeResend` and the types hold of
  both, `WindowHolds` is about the first.
* **Snapshots** (`SnapshotAssumption`: a ring of the server that holds one
  snapshot, `PacketBackup > Margin + 1`, finite views with at most `MaxEntities`
  entities, values that are natural numbers, so that the marks `Gone` and `Same`
  are no values; the bounds leave room for the initial states). `SnInv` has, beside
  the types, eight parts. `Counted`: messages are in the order of their numbers.
  `OneGamestate`: one gamestate at most is waiting or under way, and its number is
  the guess `gsNum` or the one after it, because it waits behind one message at
  most. `Answers`: a packet of the client never claims more than the client has,
  and never mixes an acknowledgement from after a gamestate with the map from
  before it. `LastSent`: the gamestate a primed client was sent is waiting, under
  way, lost or with the client. `FramesKept`: while a message is young enough and
  its entities have not rolled off the shared ring, its frame reads what the server
  built. `Decodable`: a snapshot under way is told from nothing or from a message
  the client holds. `BasesHeld`: what the client acknowledged it still holds, as
  long as the server may choose it as a base. `SlotsHold`: a slot of the client is
  of one of the last `PacketBackup` messages, and what came into the ring since is
  bounded by their number times `MaxEntities`, which is why the ring is as large as
  it is. None of them is inductive alone: that a base is held rests on the order of
  messages, that it is the right one on a single gamestate being under way, and the
  gamestate's number on the queue. Lemma `DeltaDecodes` says that decoding undoes
  encoding for any two maps, and the ring lemmas what is read after a list was
  written elsewhere. `SessionInv` joins `SnInv` with the download, during which
  neither side touches the snapshots. It gives `SessionTypeCorrect`,
  `SnapshotsDecoded`, `BaseAlwaysThere` and `LostGamestateSeen`.
* **SoundDma** (`SoundAssumption`: the order of the real sizes). `Clock`: the
  sound time is `buffers * Ring + oldsamplepos` until it starts again, and the
  position is `oldsamplepos` moved on by what the device took since. `Fed`: a
  submission fills the queue or ends at the end of the ring, and the second does not
  happen twice in a row because a ring is longer than a mix. `Covered`: no frame
  behind the end of the last mix and before the next submission is old unless the
  last mix, the last two or the last three came late. `NoUnderrun` needs `Fed`,
  and `FreshUnlessLate` needs `Covered` to look one mix further back than itself.

Only model-checked: every liveness property (out of the prover's reach:
`EveryEventDispatched`, `QueueDrains`, `ServerCommandDelivered`, `ZombieEnds`,
`DownloadEnds`, `SoundGoesOn`) and the four counterexamples. Every invariant and
action property of the passing runs is stated by a theorem.

## 6. What is not modelled

Not modelled, with the reason: the removal handlers of keyboard and mouse
(`kernel.cpp:450-462`) only forget the device, touch neither ring nor reports,
and nothing registers a new one, so keys held at that moment stay down and no
statement of the code says otherwise; a snapshot that overflows
(`sv_snapshot.c:636`) needs sizes of messages in bytes; the virtual machine, the
renderers, the collision model, the bot library and the game modules are
computations on floats or instructions in which no order of events matters;
zone, hunk, command buffer, cvars and files are sequential and wait for room;
the rest is vendored or not built for the port. `PROJECT.json` lists every
component with its reason.
