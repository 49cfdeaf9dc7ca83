-------------------------------- MODULE Loopback -------------------------------
(* A netchan over either transport of NET_SendPacket (qcommon/net_chan.c): UDP,  *)
(* where Netchan says what a packet may suffer, or the loopback between the      *)
(* server and the client on the same machine, a ring of MAX_LOOPBACK packets     *)
(* that Com_EventLoop empties (qcommon/common.c).                                *)
(*                                                                               *)
(* The ring holds packets in the order in which they were sent; when more were   *)
(* sent than it has slots the oldest are gone. The engine is one thread, so the  *)
(* server sends nothing while Com_EventLoop reads; the model allows it to.       *)
EXTENDS Netchan

CONSTANTS
  MaxLoopback,   \* MAX_LOOPBACK
  NoPacket       \* a slot of the ring nothing was written to yet

\* "there needs to be enough loopback messages to hold a complete gamestate of
\* maximum size": so many full fragments are more than MAX_MSGLEN bytes (16384,
\* and 16 fragments of 1300), and the ring holds the one that ends the message.
ASSUME LoopbackAssumption ==
  /\ MaxLoopback \in Nat
  /\ BufferSize < MaxLoopback * FragmentSize

VARIABLES
  transport,            \* remoteAddress.type of the netchan: "udp" or "loopback"
  loopMsgs, get, send   \* loopbacks[NS_CLIENT]

loopVars == <<loopMsgs, get, send>>
allVars  == <<vars, loopVars, transport>>

LoopbackInit ==
  /\ Init
  /\ transport \in {"udp", "loopback"}
  /\ loopMsgs = [i \in 0..(MaxLoopback - 1) |-> NoPacket]
  /\ get = 0 /\ send = 0

NET_SendLoopPacket(p) ==
  /\ loopMsgs' = [loopMsgs EXCEPT ![send % MaxLoopback] = p]
  /\ send' = send + 1
  /\ UNCHANGED get

\* Mutant: an overrun throws the whole ring away.
FirstReadableNone == IF send - get > MaxLoopback THEN send ELSE get

\* The packets before this one were read, or written over.
FirstReadable == IF send - get > MaxLoopback THEN send - MaxLoopback ELSE get

NET_GetLoopPacket ==
  /\ FirstReadable < send
  /\ get' = FirstReadable + 1
  /\ Netchan_Process(loopMsgs[FirstReadable % MaxLoopback])
  /\ UNCHANGED <<loopMsgs, send>>

NoLoopPacket == FirstReadable >= send /\ UNCHANGED <<vars, loopVars>>

\* A call of SV_Netchan_Transmit or SV_Netchan_TransmitNextFragment writes at
\* most one packet to the ring: none when the message is queued.
SendOverLoopback ==
  /\ SV_Netchan_Transmit \/ SV_Netchan_TransmitNextFragment
  /\ IF net' = net THEN UNCHANGED loopVars
                   ELSE \E p \in net' \ net : NET_SendLoopPacket(p)

LoopbackNext ==
  /\ \/ transport = "udp" /\ Next /\ UNCHANGED loopVars
     \/ transport = "loopback" /\ (SendOverLoopback \/ NET_GetLoopPacket \/ NoLoopPacket)
  /\ UNCHANGED transport

LoopbackSpec == LoopbackInit /\ [][LoopbackNext]_allVars /\ Fairness

-----------------------------------------------------------------------------
(* Properties.                                                               *)

\* The message sent last has arrived whenever the ring is empty, in however many
\* fragments it was cut and whatever was written over before it: the ring is
\* large enough for one message ("a complete gamestate of maximum size"), and
\* an overrun takes the oldest packets.
LatestArrives ==
  (transport = "loopback" /\ FirstReadable = send /\ ~unsentFragments)
    => incomingSequence = Len(sent)
==============================================================================
