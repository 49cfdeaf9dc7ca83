------------------------------- MODULE Netchan --------------------------------
(* One direction of a netchan (qcommon/net_chan.c) with the queue the server   *)
(* keeps in front of it (server/sv_net_chan.c), over UDP: a packet may be       *)
(* lost, repeated or overtaken by a later one.                                  *)
(*                                                                              *)
(* A message is the sequence of its bytes. A message of at least FragmentSize   *)
(* bytes leaves as fragments, one per call; the server queues what it is given  *)
(* in the meantime. The checksum of the packet header binds the packets to one  *)
(* connection and is left out: there is one connection here.                    *)
EXTENDS Integers, Sequences, FiniteSets

CONSTANTS
  Byte,
  Messages,       \* the messages the server may send
  FragmentSize,   \* FRAGMENT_SIZE
  BufferSize,     \* sizeof(fragmentBuffer), MAX_MSGLEN
  MaxMessages     \* bound on the messages of one behaviour

ASSUME NetchanAssumption ==
  /\ FragmentSize \in Nat \ {0}
  /\ BufferSize \in Nat /\ MaxMessages \in Nat
  /\ Messages \subseteq Seq(Byte)
  /\ \A m \in Messages : Len(m) <= BufferSize

VARIABLES
  outgoingSequence,
  unsentFragments, unsentFragmentStart, unsentBuffer,
  queue,             \* netchan_start_queue
  net,               \* every packet sent so far: each may arrive, again and again
  incomingSequence,
  fragmentSequence,
  fragmentBuffer,    \* its first fragmentLength bytes
  dropped,
  sent,              \* history: the messages given to Netchan_Transmit
  got                \* history: the message Netchan_Process returned last

senderVars   == <<outgoingSequence, unsentFragments, unsentFragmentStart,
                  unsentBuffer, queue, net, sent>>
receiverVars == <<incomingSequence, fragmentSequence, fragmentBuffer, dropped, got>>
vars == <<senderVars, receiverVars>>

Packet == [seq : Nat, fragmented : BOOLEAN, start : Nat, data : Seq(Byte)]
Smaller(a, b) == IF a <= b THEN a ELSE b

Init ==
  /\ outgoingSequence = 1
  /\ unsentFragments = FALSE /\ unsentFragmentStart = 0 /\ unsentBuffer = <<>>
  /\ queue = <<>> /\ net = {} /\ sent = <<>>
  /\ incomingSequence = 0 /\ fragmentSequence = 0 /\ fragmentBuffer = <<>>
  /\ dropped = 0 /\ got = <<>>

-----------------------------------------------------------------------------
(* The sender.                                                               *)

\* The fragment of message m from byte start on.
Chunk(m, start) == SubSeq(m, start + 1, start + Smaller(FragmentSize, Len(m) - start))

\* Mutant: a full fragment may end the message.
NextFragmentFullEnds(m, start) ==
  LET chunk == Chunk(m, start)
      end   == start + Len(chunk)
      done  == end = Len(m)
  IN /\ net' = net \union {[seq |-> outgoingSequence, fragmented |-> TRUE,
                            start |-> start, data |-> chunk]}
     /\ unsentFragmentStart' = end
     /\ outgoingSequence' = IF done THEN outgoingSequence + 1 ELSE outgoingSequence
     /\ unsentFragments' = ~done

\* Mutant: only a full fragment ends the message.
NextFragmentSwapped(m, start) ==
  LET chunk == Chunk(m, start)
      end   == start + Len(chunk)
      done  == end = Len(m) /\ Len(chunk) = FragmentSize
  IN /\ net' = net \union {[seq |-> outgoingSequence, fragmented |-> TRUE,
                            start |-> start, data |-> chunk]}
     /\ unsentFragmentStart' = end
     /\ outgoingSequence' = IF done THEN outgoingSequence + 1 ELSE outgoingSequence
     /\ unsentFragments' = ~done

\* Send one fragment of m. Only a fragment that is not full ends the message:
\* when the length is a multiple of FragmentSize an empty fragment does.
Netchan_TransmitNextFragment(m, start) ==
  LET chunk == Chunk(m, start)
      end   == start + Len(chunk)
      done  == end = Len(m) /\ Len(chunk) # FragmentSize
  IN /\ net' = net \union {[seq |-> outgoingSequence, fragmented |-> TRUE,
                            start |-> start, data |-> chunk]}
     /\ unsentFragmentStart' = end
     /\ outgoingSequence' = IF done THEN outgoingSequence + 1 ELSE outgoingSequence
     /\ unsentFragments' = ~done

Netchan_Transmit(m) ==
  /\ sent' = Append(sent, m)
  /\ \/ /\ Len(m) >= FragmentSize
        /\ unsentBuffer' = m
        /\ Netchan_TransmitNextFragment(m, 0)
     \/ /\ Len(m) < FragmentSize
        /\ net' = net \union {[seq |-> outgoingSequence, fragmented |-> FALSE,
                               start |-> 0, data |-> m]}
        /\ outgoingSequence' = outgoingSequence + 1
        /\ unsentFragmentStart' = 0
        /\ UNCHANGED <<unsentFragments, unsentBuffer>>

\* SV_Netchan_Transmit while fragments or older messages are waiting.
QueueMessage(m) ==
  /\ Len(sent) + Len(queue) < MaxMessages
  /\ unsentFragments \/ queue # <<>>
  /\ queue' = Append(queue, m)
  /\ UNCHANGED <<outgoingSequence, unsentFragments, unsentFragmentStart, unsentBuffer,
                 net, sent, receiverVars>>

\* SV_Netchan_Transmit otherwise.
TransmitMessage(m) ==
  /\ Len(sent) + Len(queue) < MaxMessages
  /\ ~unsentFragments /\ queue = <<>>
  /\ Netchan_Transmit(m)
  /\ UNCHANGED <<queue, receiverVars>>

\* The two branches of SV_Netchan_TransmitNextFragment.
TransmitFragment ==
  /\ unsentFragments
  /\ Netchan_TransmitNextFragment(unsentBuffer, unsentFragmentStart)
  /\ UNCHANGED <<unsentBuffer, queue, sent, receiverVars>>

TransmitNextInQueue ==
  /\ ~unsentFragments /\ queue # <<>>
  /\ Netchan_Transmit(Head(queue))
  /\ queue' = Tail(queue)
  /\ UNCHANGED receiverVars

-----------------------------------------------------------------------------
(* The receiver: Netchan_Process, by outcome.                                *)

\* Mutant: the buffer is not reset for a new sequence number.
PartialKept(p) == fragmentBuffer

\* The part of a message with this sequence number received so far.
Partial(p) == IF p.seq = fragmentSequence THEN fragmentBuffer ELSE <<>>

\* The fragment continues that part and leaves room in fragmentBuffer.
Fits(p) == /\ p.start = Len(Partial(p))
           /\ Len(Partial(p)) + Len(p.data) <= BufferSize

\* A fragment is missing before this one, or it does not fit: not used.
RejectFragment(p) ==
  /\ p.seq > incomingSequence
  /\ p.fragmented /\ ~Fits(p)
  /\ dropped' = p.seq - (incomingSequence + 1)
  /\ fragmentSequence' = p.seq /\ fragmentBuffer' = Partial(p)
  /\ UNCHANGED <<incomingSequence, got, senderVars>>

StoreFragment(p) ==
  /\ p.seq > incomingSequence
  /\ p.fragmented /\ Fits(p)
  /\ dropped' = p.seq - (incomingSequence + 1)
  /\ fragmentSequence' = p.seq
  /\ IF Len(p.data) = FragmentSize
     THEN /\ fragmentBuffer' = Partial(p) \o p.data
          /\ UNCHANGED <<incomingSequence, got>>
     ELSE /\ got' = <<Partial(p) \o p.data>>
          /\ fragmentBuffer' = <<>>
          /\ incomingSequence' = p.seq
  /\ UNCHANGED senderVars

AcceptWhole(p) ==
  /\ p.seq > incomingSequence
  /\ ~p.fragmented
  /\ dropped' = p.seq - (incomingSequence + 1)
  /\ incomingSequence' = p.seq
  /\ got' = <<p.data>>
  /\ UNCHANGED <<fragmentSequence, fragmentBuffer, senderVars>>

\* Out of order or a repetition.
DiscardStale(p) ==
  /\ p.seq <= incomingSequence
  /\ UNCHANGED vars

Netchan_Process(p) ==
  DiscardStale(p) \/ RejectFragment(p) \/ StoreFragment(p) \/ AcceptWhole(p)

SV_Netchan_Transmit == \E m \in Messages : QueueMessage(m) \/ TransmitMessage(m)
SV_Netchan_TransmitNextFragment == TransmitFragment \/ TransmitNextInQueue

Next ==
  \/ SV_Netchan_Transmit
  \/ SV_Netchan_TransmitNextFragment
  \/ \E p \in net : Netchan_Process(p)

\* SV_SendQueuedPackets runs once per frame of the server and calls
\* SV_Netchan_TransmitNextFragment for every client whose rate allows it.
Fairness == WF_vars(SV_Netchan_TransmitNextFragment)
Spec == Init /\ [][Next]_vars /\ Fairness

-----------------------------------------------------------------------------
(* Properties.                                                               *)

TypeOK ==
  /\ outgoingSequence \in Nat
  /\ unsentFragments \in BOOLEAN /\ unsentFragmentStart \in Nat
  /\ unsentBuffer \in Seq(Byte)
  /\ queue \in Seq(Messages) /\ sent \in Seq(Messages)
  /\ net \subseteq Packet
  /\ incomingSequence \in Nat /\ fragmentSequence \in Nat
  /\ fragmentBuffer \in Seq(Byte)
  /\ dropped \in Nat
  /\ got \in Seq(Seq(Byte))

Channel == INSTANCE LossyChannel WITH
  Message <- Messages, given <- sent \o queue, last <- incomingSequence, got <- got

\* Whatever the network loses, repeats or reorders, Netchan_Process returns only
\* complete messages, never one twice, and in the order in which they were given
\* to SV_Netchan_Transmit, queued ones included.
DeliversInOrder == Channel!Spec

\* Every message that has left the sender ended with a fragment that is not
\* full, so the receiver can tell that nothing follows: also when its length is
\* a multiple of FRAGMENT_SIZE (the "little tricky" exit condition of
\* Netchan_TransmitNextFragment).
EveryMessageEnds ==
  \A n \in 1..(outgoingSequence - 1) : \E p \in net :
    /\ p.seq = n
    /\ p.start + Len(p.data) = Len(sent[n])
    /\ Len(p.data) < FragmentSize

\* A message that waits behind fragments leaves in the end ("buffer them and
\* make sure they get sent in correct order", sv_net_chan.c).
QueueDrains == (unsentFragments \/ queue # <<>>) ~> (~unsentFragments /\ queue = <<>>)
=============================================================================
