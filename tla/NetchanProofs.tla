---------------------------- MODULE NetchanProofs -----------------------------
(* Proofs about Netchan for any messages, any fragment size and any network    *)
(* that loses, repeats and reorders packets, and about Loopback: over either   *)
(* transport the netchan keeps its promise, and a ring that holds one message  *)
(* always delivers the last one.                                               *)
EXTENDS Loopback, SequenceTheorems, TLAPS

-----------------------------------------------------------------------------
(* Sequences.                                                                 *)

\* A fragment: its length, where it ends, and that a fragment that is not full
\* ends where the message ends.
LEMMA ChunkFacts ==
  ASSUME NEW m \in Seq(Byte), NEW k \in 0..Len(m)
  PROVE  /\ Chunk(m, k) \in Seq(Byte)
         /\ Len(Chunk(m, k)) \in Nat
         /\ Len(Chunk(m, k)) <= FragmentSize
         /\ k + Len(Chunk(m, k)) <= Len(m)
         /\ Len(Chunk(m, k)) # FragmentSize => k + Len(Chunk(m, k)) = Len(m)
         /\ \A i \in 1..Len(Chunk(m, k)) : Chunk(m, k)[i] = m[k + i]
<1> DEFINE n == Smaller(FragmentSize, Len(m) - k)
<1>1. FragmentSize \in Nat /\ Len(m) \in Nat
  BY NetchanAssumption
<1>2. n \in Nat /\ n <= FragmentSize /\ k + n <= Len(m)
      /\ (n # FragmentSize => k + n = Len(m))
  BY <1>1 DEF Smaller
<1>3. \A i \in (k + 1)..(k + n) : m[i] \in Byte
  BY <1>1, <1>2
<1>4. Chunk(m, k) = SubSeq(m, k + 1, k + n)
  BY DEF Chunk
<1> HIDE DEF n
<1>5. SubSeq(m, k + 1, k + n) \in Seq(Byte) /\ Len(SubSeq(m, k + 1, k + n)) = n
      /\ \A i \in 1..n : SubSeq(m, k + 1, k + n)[i] = m[k + i]
  BY <1>1, <1>2, <1>3
<1> QED BY <1>2, <1>4, <1>5

\* The fragment at k continues the first k bytes of the message.
LEMMA Glue ==
  ASSUME NEW m \in Seq(Byte), NEW k \in 0..Len(m)
  PROVE  SubSeq(m, 1, k) \o Chunk(m, k) = SubSeq(m, 1, k + Len(Chunk(m, k)))
<1> DEFINE n == Smaller(FragmentSize, Len(m) - k)
<1>1. n \in Nat /\ k + n \in k..Len(m)
  BY NetchanAssumption DEF Smaller
<1>2. Len(Chunk(m, k)) = n
  <2>1. \A i \in (k + 1)..(k + n) : m[i] \in Byte
    BY <1>1
  <2> HIDE DEF n
  <2>2. Len(SubSeq(m, k + 1, k + n)) = n
    BY <1>1, <2>1
  <2> QED BY <2>2 DEF Chunk, n
<1> HIDE DEF n
<1>3. SubSeq(m, 1, k) \o SubSeq(m, k + 1, k + n) = SubSeq(m, 1, k + n)
  BY <1>1, ConcatAdjacentSubSeq
<1> QED BY <1>2, <1>3 DEF Chunk, n

-----------------------------------------------------------------------------
(* The invariant.                                                             *)

\* Message number n carries sequence number n. While fragments are unsent the
\* message they belong to is the last of sent; every packet is a part of the
\* message its number stands for; and the receiver's buffer is the beginning of
\* the message it is collecting.
SenderInv ==
  /\ outgoingSequence = IF unsentFragments THEN Len(sent) ELSE Len(sent) + 1
  /\ unsentFragments => /\ Len(sent) > 0
                        /\ unsentBuffer = sent[Len(sent)]
                        /\ unsentFragmentStart <= Len(unsentBuffer)

PacketOf(p, m) ==
  IF p.fragmented THEN p.start <= Len(m) /\ p.data = Chunk(m, p.start)
                  ELSE p.start = 0 /\ p.data = m

NetInv == \A p \in net : p.seq \in 1..Len(sent) /\ PacketOf(p, sent[p.seq])

ReceiverInv ==
  /\ incomingSequence <= Len(sent)
  /\ fragmentSequence <= Len(sent)
  /\ fragmentSequence = 0 => fragmentBuffer = <<>>
  /\ fragmentSequence > 0 =>
       /\ Len(fragmentBuffer) <= Len(sent[fragmentSequence])
       /\ fragmentBuffer = SubSeq(sent[fragmentSequence], 1, Len(fragmentBuffer))

IInv == TypeOK /\ SenderInv /\ NetInv /\ ReceiverInv /\ EveryMessageEnds

\* A message is a sequence of bytes.
LEMMA MessagesOfBytes == \A m \in Messages : m \in Seq(Byte) /\ Len(m) \in Nat
  BY NetchanAssumption

\* Appending to sent moves no message.
LEMMA SentGrows ==
  ASSUME TypeOK, NEW m \in Messages
  PROVE  /\ Append(sent, m) \in Seq(Messages)
         /\ Len(Append(sent, m)) = Len(sent) + 1
         /\ \A n \in 1..Len(sent) : Append(sent, m)[n] = sent[n]
         /\ Append(sent, m)[Len(sent) + 1] = m
  BY DEF TypeOK

\* One fragment: what Netchan_TransmitNextFragment adds, when the message it
\* works on is number outgoingSequence of the messages msgs.
LEMMA FragmentStep ==
  ASSUME TypeOK, NEW msgs \in Seq(Messages), outgoingSequence = Len(msgs), Len(msgs) > 0,
         NEW k \in 0..Len(msgs[Len(msgs)]),
         Netchan_TransmitNextFragment(msgs[Len(msgs)], k)
  PROVE  /\ unsentFragmentStart' \in 0..Len(msgs[Len(msgs)])
         /\ unsentFragments' \in BOOLEAN
         /\ outgoingSequence' = IF unsentFragments' THEN Len(msgs) ELSE Len(msgs) + 1
         /\ \E p \in Packet : /\ net' = net \union {p}
                              /\ p.seq = Len(msgs)
                              /\ PacketOf(p, msgs[Len(msgs)])
                              /\ ~unsentFragments' =>
                                   /\ p.start + Len(p.data) = Len(msgs[Len(msgs)])
                                   /\ Len(p.data) < FragmentSize
<1> DEFINE m == msgs[Len(msgs)]
           p == [seq |-> outgoingSequence, fragmented |-> TRUE,
                 start |-> k, data |-> Chunk(m, k)]
<1>1. m \in Seq(Byte) /\ Len(m) \in Nat /\ Len(msgs) \in Nat /\ FragmentSize \in Nat
  BY NetchanAssumption
<1>2. /\ Chunk(m, k) \in Seq(Byte) /\ Len(Chunk(m, k)) \in Nat
      /\ Len(Chunk(m, k)) <= FragmentSize /\ k + Len(Chunk(m, k)) <= Len(m)
  BY <1>1, ChunkFacts
<1>3. /\ net' = net \union {p}
      /\ unsentFragmentStart' = k + Len(Chunk(m, k))
      /\ unsentFragments' = ~(k + Len(Chunk(m, k)) = Len(m) /\ Len(Chunk(m, k)) # FragmentSize)
      /\ outgoingSequence' = IF unsentFragments' THEN Len(msgs) ELSE Len(msgs) + 1
  BY DEF Netchan_TransmitNextFragment
<1>4. p \in Packet /\ p.seq = Len(msgs) /\ PacketOf(p, m)
  BY <1>1, <1>2 DEF Packet, PacketOf
<1>5. ~unsentFragments' => p.start + Len(p.data) = Len(m) /\ Len(p.data) < FragmentSize
  <2>1. p.start = k /\ p.data = Chunk(m, k)
    OBVIOUS
  <2>2. ~unsentFragments' => /\ k + Len(Chunk(m, k)) = Len(m)
                            /\ Len(Chunk(m, k)) # FragmentSize
    BY <1>3
  <2>3. Len(Chunk(m, k)) # FragmentSize => Len(Chunk(m, k)) < FragmentSize
    BY <1>1, <1>2
  <2> QED BY <2>1, <2>2, <2>3
<1> HIDE DEF p
<1> QED BY <1>1, <1>2, <1>3, <1>4, <1>5

\* What every sending step keeps, stated for the messages msgs that have been
\* given to Netchan_Transmit after it and the one packet p it sends.
LEMMA SendKeeps ==
  ASSUME IInv, NEW msgs \in Seq(Messages), NEW p \in Packet,
         sent' = msgs, net' = net \union {p}, UNCHANGED receiverVars,
         Len(sent) <= Len(msgs), \A n \in 1..Len(sent) : msgs[n] = sent[n],
         p.seq \in 1..Len(msgs), PacketOf(p, msgs[p.seq]),
         outgoingSequence' \in {outgoingSequence, outgoingSequence + 1},
         outgoingSequence' = outgoingSequence + 1 =>
           /\ p.seq = outgoingSequence
           /\ p.start + Len(p.data) = Len(msgs[p.seq])
           /\ Len(p.data) < FragmentSize
  PROVE  NetInv' /\ ReceiverInv' /\ EveryMessageEnds'
<1>0. Len(sent) \in Nat /\ Len(msgs) \in Nat /\ outgoingSequence \in Nat
      /\ incomingSequence \in Nat /\ fragmentSequence \in Nat
      /\ outgoingSequence <= Len(sent) + 1
  BY DEF IInv, TypeOK, SenderInv
<1>1. NetInv'
  <2> SUFFICES ASSUME NEW q \in net \union {p}
               PROVE  q.seq \in 1..Len(msgs) /\ PacketOf(q, msgs[q.seq])
    BY DEF NetInv, PacketOf, Chunk
  <2>1. CASE q \in net
    <3>1. q.seq \in 1..Len(sent) /\ PacketOf(q, sent[q.seq])
      BY <2>1 DEF IInv, NetInv
    <3> QED BY <1>0, <3>1
  <2> QED BY <2>1
<1>2. ReceiverInv'
  BY <1>0 DEF IInv, ReceiverInv, receiverVars
<1>3. EveryMessageEnds'
  <2> SUFFICES \A out \in {outgoingSequence, outgoingSequence + 1} :
                 out = outgoingSequence' =>
                   \A n \in 1..(out - 1) :
                     \E q \in net' : /\ q.seq = n
                                    /\ q.start + Len(q.data) = Len(msgs[n])
                                    /\ Len(q.data) < FragmentSize
    BY DEF EveryMessageEnds
  <2> TAKE out \in {outgoingSequence, outgoingSequence + 1}
  <2> HAVE out = outgoingSequence'
  <2> TAKE n \in 1..(out - 1)
  <2>1. CASE n \in 1..(outgoingSequence - 1)
    <3>1. PICK q \in net : /\ q.seq = n
                           /\ q.start + Len(q.data) = Len(sent[n])
                           /\ Len(q.data) < FragmentSize
      BY <2>1 DEF IInv, EveryMessageEnds
    <3>2. msgs[n] = sent[n]
      BY <1>0, <2>1
    <3> QED BY <3>1, <3>2
  <2>2. CASE n = outgoingSequence /\ out = outgoingSequence + 1
    BY <2>2
  <2>3. n \in 1..(outgoingSequence - 1) \/ (n = outgoingSequence /\ out = outgoingSequence + 1)
    <3>1. \A a \in Nat : \A i \in 1..((a + 1) - 1) : i \in 1..(a - 1) \/ i = a
      OBVIOUS
    <3>2. CASE out = outgoingSequence
      BY <3>2
    <3>3. CASE out = outgoingSequence + 1
      BY <1>0, <3>1, <3>3
    <3> QED BY <3>2, <3>3
  <2> QED BY <2>1, <2>2, <2>3
<1> QED BY <1>1, <1>2, <1>3

\* Netchan_Transmit from a channel without unsent fragments.
LEMMA TransmitStep ==
  ASSUME IInv, NEW m \in Messages, ~unsentFragments, Netchan_Transmit(m),
         UNCHANGED receiverVars
  PROVE  /\ SenderInv' /\ NetInv' /\ ReceiverInv' /\ EveryMessageEnds'
         /\ outgoingSequence' \in Nat /\ unsentFragments' \in BOOLEAN
         /\ unsentFragmentStart' \in Nat /\ unsentBuffer' \in Seq(Byte)
         /\ sent' \in Seq(Messages) /\ net' \subseteq Packet
<1> DEFINE msgs == Append(sent, m)
<1>0. /\ m \in Seq(Byte) /\ Len(m) \in Nat /\ FragmentSize \in Nat /\ FragmentSize > 0
      /\ net \subseteq Packet /\ unsentBuffer \in Seq(Byte) /\ unsentFragments \in BOOLEAN
      /\ Len(sent) \in Nat /\ outgoingSequence = Len(sent) + 1
  BY NetchanAssumption, MessagesOfBytes DEF IInv, TypeOK, SenderInv
<1>1. msgs \in Seq(Messages) /\ Len(msgs) = Len(sent) + 1 /\ msgs[Len(msgs)] = m
      /\ sent' = msgs /\ \A n \in 1..Len(sent) : msgs[n] = sent[n]
  BY SentGrows DEF IInv, Netchan_Transmit
<1> HIDE DEF msgs
<1>2. CASE Len(m) >= FragmentSize
  <2>1. unsentBuffer' = m /\ Netchan_TransmitNextFragment(msgs[Len(msgs)], 0)
    BY <1>0, <1>1, <1>2 DEF Netchan_Transmit
  <2>0. /\ TypeOK /\ outgoingSequence = Len(msgs) /\ Len(msgs) > 0
        /\ 0 \in 0..Len(msgs[Len(msgs)])
    BY <1>0, <1>1 DEF IInv
  <2>2. PICK p \in Packet : /\ net' = net \union {p}
                            /\ p.seq = Len(msgs)
                            /\ PacketOf(p, msgs[Len(msgs)])
                            /\ ~unsentFragments' =>
                                 /\ p.start + Len(p.data) = Len(msgs[Len(msgs)])
                                 /\ Len(p.data) < FragmentSize
    BY <1>1, <2>1, <2>0, FragmentStep
  <2>3. /\ unsentFragmentStart' \in 0..Len(msgs[Len(msgs)]) /\ unsentFragments' \in BOOLEAN
        /\ outgoingSequence' = IF unsentFragments' THEN Len(msgs) ELSE Len(msgs) + 1
    BY <1>1, <2>1, <2>0, FragmentStep
  <2>4. NetInv' /\ ReceiverInv' /\ EveryMessageEnds'
    <3>1. outgoingSequence' \in {outgoingSequence, outgoingSequence + 1}
      BY <1>0, <1>1, <2>3
    <3>2. outgoingSequence' = outgoingSequence + 1 => ~unsentFragments'
      BY <1>0, <1>1, <2>3
    <3> QED BY <1>0, <1>1, <2>2, <3>1, <3>2, SendKeeps
  <2>5. SenderInv'
    BY <1>0, <1>1, <2>1, <2>3 DEF SenderInv
  <2> QED BY <1>0, <1>1, <2>1, <2>2, <2>3, <2>4, <2>5
<1>3. CASE Len(m) < FragmentSize
  <2> DEFINE p == [seq |-> outgoingSequence, fragmented |-> FALSE, start |-> 0, data |-> m]
  <2>1. /\ net' = net \union {p} /\ outgoingSequence' = outgoingSequence + 1
        /\ unsentFragmentStart' = 0 /\ UNCHANGED <<unsentFragments, unsentBuffer>>
    BY <1>0, <1>3 DEF Netchan_Transmit
  <2>2. p \in Packet /\ p.seq = Len(msgs) /\ p.start = 0 /\ p.data = m /\ PacketOf(p, m)
    BY <1>0, <1>1 DEF Packet, PacketOf
  <2> HIDE DEF p
  <2>3. NetInv' /\ ReceiverInv' /\ EveryMessageEnds'
    <3>1. p.seq \in 1..Len(msgs) /\ msgs[p.seq] = m /\ p.seq = outgoingSequence
      BY <1>0, <1>1, <2>2
    <3>2. p.start + Len(p.data) = Len(msgs[p.seq]) /\ Len(p.data) < FragmentSize
      BY <1>0, <1>3, <2>2, <3>1
    <3>3. PacketOf(p, msgs[p.seq]) /\ Len(sent) <= Len(msgs)
      BY <1>0, <1>1, <2>2, <3>1
    <3> QED BY <1>1, <2>1, <2>2, <3>1, <3>2, <3>3, SendKeeps
  <2>4. SenderInv'
    BY <1>0, <1>1, <2>1 DEF SenderInv
  <2> QED BY <1>0, <1>1, <2>1, <2>2, <2>3, <2>4
<1> QED BY <1>0, <1>2, <1>3

\* The receiver's buffer, seen as the beginning of the message of packet p.
LEMMA PartialIs ==
  ASSUME IInv, NEW p \in net
  PROVE  /\ p.seq \in 1..Len(sent) /\ p.seq \in Nat /\ Len(sent) \in Nat
         /\ sent[p.seq] \in Seq(Byte) /\ Len(sent[p.seq]) \in Nat
         /\ PacketOf(p, sent[p.seq])
         /\ Partial(p) \in Seq(Byte) /\ Len(Partial(p)) \in 0..Len(sent[p.seq])
         /\ Partial(p) = SubSeq(sent[p.seq], 1, Len(Partial(p)))
<1>1. p.seq \in 1..Len(sent) /\ p.seq \in Nat /\ Len(sent) \in Nat /\ PacketOf(p, sent[p.seq])
  BY DEF IInv, TypeOK, NetInv
<1>2. sent[p.seq] \in Messages
  BY <1>1 DEF IInv, TypeOK
<1>3. sent[p.seq] \in Seq(Byte) /\ Len(sent[p.seq]) \in Nat
  BY <1>2, MessagesOfBytes
<1>4. CASE p.seq = fragmentSequence
  BY <1>1, <1>3, <1>4 DEF IInv, TypeOK, ReceiverInv, Partial
<1>5. CASE p.seq # fragmentSequence
  <2>1. Partial(p) = <<>>
    BY <1>5 DEF Partial
  <2>2. <<>> \in Seq(Byte) /\ Len(<<>>) = 0 /\ SubSeq(sent[p.seq], 1, 0) = <<>>
    BY <1>3
  <2> QED BY <1>1, <1>3, <2>1, <2>2
<1> QED BY <1>1, <1>3, <1>4, <1>5

\* A fragment that fits makes the buffer longer by what follows in the message,
\* and the whole message once it is not full.
LEMMA StoreIs ==
  ASSUME IInv, NEW p \in net, p.fragmented, Fits(p)
  PROVE  LET buf == Partial(p) \o p.data IN
         /\ buf \in Seq(Byte) /\ Len(buf) \in 0..Len(sent[p.seq])
         /\ buf = SubSeq(sent[p.seq], 1, Len(buf))
         /\ Len(p.data) # FragmentSize => buf = sent[p.seq]
<1> DEFINE m == sent[p.seq]
           k == Len(Partial(p))
<1>1. /\ m \in Seq(Byte) /\ Len(m) \in Nat /\ k \in 0..Len(m)
      /\ Partial(p) = SubSeq(m, 1, k) /\ PacketOf(p, m) /\ Partial(p) \in Seq(Byte)
  BY PartialIs
<1>2. p.data = Chunk(m, k)
  BY <1>1 DEF PacketOf, Fits
<1> HIDE DEF m, k
<1>3. /\ Chunk(m, k) \in Seq(Byte) /\ Len(Chunk(m, k)) \in Nat
      /\ k + Len(Chunk(m, k)) <= Len(m)
      /\ Len(Chunk(m, k)) # FragmentSize => k + Len(Chunk(m, k)) = Len(m)
  BY <1>1, ChunkFacts
<1>4. Partial(p) \o p.data = SubSeq(m, 1, k + Len(Chunk(m, k)))
  BY <1>1, <1>2, Glue
<1>5. Partial(p) \o p.data \in Seq(Byte)
      /\ Len(Partial(p) \o p.data) = k + Len(Chunk(m, k))
  BY <1>1, <1>2, <1>3 DEF k
<1>6. SubSeq(m, 1, Len(m)) = m
  BY <1>1, SubSeqFull
<1> DEFINE buf == Partial(p) \o p.data
<1>7. buf \in Seq(Byte) /\ buf = SubSeq(m, 1, Len(buf)) /\ Len(buf) = k + Len(Chunk(m, k))
  BY <1>4, <1>5
<1> HIDE DEF buf
<1>8. Len(buf) \in 0..Len(m)
  BY <1>1, <1>3, <1>7
<1>9. ASSUME Len(p.data) # FragmentSize PROVE buf = m
  <2>1. Len(buf) = Len(m)
    BY <1>2, <1>3, <1>7, <1>9
  <2> QED BY <1>6, <1>7, <2>1
<1> QED BY <1>7, <1>8, <1>9 DEF buf, m

-----------------------------------------------------------------------------
(* The invariant is inductive: one lemma for each action.                     *)

\* The inductive invariant holds when Netchan_Setup returns.
LEMMA InitInv == Init => IInv
<1> SUFFICES ASSUME Init PROVE IInv
  OBVIOUS
<1>1. Len(sent) = 0 /\ sent \in Seq(Messages) /\ queue \in Seq(Messages)
  BY DEF Init
<1>2. TypeOK
  <2>1. <<>> \in Seq(Byte) /\ <<>> \in Seq(Seq(Byte)) /\ {} \subseteq Packet
    OBVIOUS
  <2> QED BY <1>1, <2>1 DEF Init, TypeOK
<1>3. SenderInv /\ NetInv /\ ReceiverInv
  BY <1>1 DEF Init, SenderInv, NetInv, ReceiverInv
<1>4. EveryMessageEnds
  BY DEF Init, EveryMessageEnds
<1> QED BY <1>2, <1>3, <1>4 DEF IInv

\* Queueing a message behind fragments keeps the invariant.
LEMMA QueueMessageInv ==
  ASSUME IInv, NEW m \in Messages, QueueMessage(m)
  PROVE  IInv'
<1>1. TypeOK'
  BY DEF IInv, TypeOK, QueueMessage, receiverVars
<1> QED BY <1>1 DEF IInv, SenderInv, NetInv, ReceiverInv, EveryMessageEnds,
                    QueueMessage, receiverVars

\* Sending a message at once keeps it.
LEMMA TransmitMessageInv ==
  ASSUME IInv, NEW m \in Messages, TransmitMessage(m)
  PROVE  IInv'
<1>1. /\ SenderInv' /\ NetInv' /\ ReceiverInv' /\ EveryMessageEnds'
      /\ outgoingSequence' \in Nat /\ unsentFragments' \in BOOLEAN
      /\ unsentFragmentStart' \in Nat /\ unsentBuffer' \in Seq(Byte)
      /\ sent' \in Seq(Messages) /\ net' \subseteq Packet
  BY TransmitStep DEF TransmitMessage
<1> QED BY <1>1 DEF IInv, TypeOK, TransmitMessage, receiverVars

\* Sending the first queued message keeps it.
LEMMA TransmitNextInQueueInv ==
  ASSUME IInv, TransmitNextInQueue
  PROVE  IInv'
<1>1. Head(queue) \in Messages /\ Tail(queue) \in Seq(Messages)
  BY DEF IInv, TypeOK, TransmitNextInQueue
<1>2. /\ SenderInv' /\ NetInv' /\ ReceiverInv' /\ EveryMessageEnds'
      /\ outgoingSequence' \in Nat /\ unsentFragments' \in BOOLEAN
      /\ unsentFragmentStart' \in Nat /\ unsentBuffer' \in Seq(Byte)
      /\ sent' \in Seq(Messages) /\ net' \subseteq Packet
  BY <1>1, TransmitStep DEF TransmitNextInQueue
<1> QED BY <1>1, <1>2 DEF IInv, TypeOK, TransmitNextInQueue, receiverVars

\* Sending one more fragment keeps it.
LEMMA TransmitFragmentInv ==
  ASSUME IInv, TransmitFragment
  PROVE  IInv'
<1>0. /\ TypeOK /\ sent \in Seq(Messages) /\ Len(sent) \in Nat /\ Len(sent) > 0
      /\ outgoingSequence = Len(sent) /\ unsentBuffer = sent[Len(sent)]
      /\ unsentFragmentStart \in 0..Len(sent[Len(sent)])
      /\ Netchan_TransmitNextFragment(sent[Len(sent)], unsentFragmentStart)
      /\ sent' = sent /\ unsentBuffer' = unsentBuffer /\ queue' = queue
      /\ UNCHANGED receiverVars
  <2>1. sent[Len(sent)] \in Seq(Byte)
    BY MessagesOfBytes DEF IInv, TypeOK, SenderInv, TransmitFragment
  <2> QED BY <2>1 DEF IInv, TypeOK, SenderInv, TransmitFragment
<1>1. PICK p \in Packet : /\ net' = net \union {p}
                          /\ p.seq = Len(sent)
                          /\ PacketOf(p, sent[Len(sent)])
                          /\ ~unsentFragments' =>
                               /\ p.start + Len(p.data) = Len(sent[Len(sent)])
                               /\ Len(p.data) < FragmentSize
  BY <1>0, FragmentStep
<1>2. /\ unsentFragmentStart' \in 0..Len(sent[Len(sent)]) /\ unsentFragments' \in BOOLEAN
      /\ outgoingSequence' = IF unsentFragments' THEN Len(sent) ELSE Len(sent) + 1
  BY <1>0, FragmentStep
<1>3. NetInv' /\ ReceiverInv' /\ EveryMessageEnds'
  <2>1. outgoingSequence' \in {outgoingSequence, outgoingSequence + 1}
    BY <1>0, <1>2
  <2>2. outgoingSequence' = outgoingSequence + 1 => ~unsentFragments'
    BY <1>0, <1>2
  <2> QED BY <1>0, <1>1, <2>1, <2>2, SendKeeps
<1>4. SenderInv'
  BY <1>0, <1>2 DEF SenderInv
<1>5. TypeOK'
  BY <1>0, <1>1, <1>2 DEF TypeOK, receiverVars
<1> QED BY <1>3, <1>4, <1>5 DEF IInv

\* What the receiver's actions leave alone.
LEMMA SenderUnchanged ==
  ASSUME IInv, UNCHANGED senderVars
  PROVE  SenderInv' /\ NetInv' /\ EveryMessageEnds'
  BY DEF IInv, SenderInv, NetInv, EveryMessageEnds, senderVars

\* The numbers a packet that is not stale leaves behind.
LEMMA NewerPacket ==
  ASSUME IInv, NEW p \in net, p.seq > incomingSequence
  PROVE  p.seq - (incomingSequence + 1) \in Nat /\ p.seq > 0 /\ p.seq <= Len(sent)
  BY PartialIs DEF IInv, TypeOK

\* A fragment that Netchan_Process does not use keeps it.
LEMMA RejectFragmentInv ==
  ASSUME IInv, NEW p \in net, RejectFragment(p)
  PROVE  IInv'
<1>0. UNCHANGED senderVars /\ SenderInv' /\ NetInv' /\ EveryMessageEnds'
  BY SenderUnchanged DEF RejectFragment
<1>1. dropped' \in Nat /\ p.seq > 0 /\ p.seq <= Len(sent)
  BY NewerPacket DEF RejectFragment
<1>2. TypeOK'
  BY <1>0, <1>1, PartialIs DEF IInv, TypeOK, RejectFragment, senderVars
<1>3. ReceiverInv'
  BY <1>0, <1>1, PartialIs DEF IInv, ReceiverInv, RejectFragment, senderVars
<1> QED BY <1>0, <1>2, <1>3 DEF IInv

\* A fragment that continues or ends a message keeps it.
LEMMA StoreFragmentInv ==
  ASSUME IInv, NEW p \in net, StoreFragment(p)
  PROVE  IInv'
<1> DEFINE buf == Partial(p) \o p.data
<1>0. UNCHANGED senderVars /\ SenderInv' /\ NetInv' /\ EveryMessageEnds'
  BY SenderUnchanged DEF StoreFragment
<1>1. dropped' \in Nat /\ p.seq > 0 /\ p.seq <= Len(sent) /\ p.seq \in Nat
  BY NewerPacket, PartialIs DEF StoreFragment
<1>2. /\ buf \in Seq(Byte) /\ Len(buf) \in 0..Len(sent[p.seq])
      /\ buf = SubSeq(sent[p.seq], 1, Len(buf))
  BY StoreIs DEF StoreFragment
<1>3. /\ fragmentSequence' = p.seq /\ sent' = sent
      /\ \/ fragmentBuffer' = buf /\ UNCHANGED <<incomingSequence, got>>
         \/ fragmentBuffer' = <<>> /\ incomingSequence' = p.seq /\ got' = <<buf>>
  BY DEF StoreFragment, senderVars
<1>4. <<>> \in Seq(Byte) /\ Len(<<>>) = 0 /\ SubSeq(sent[p.seq], 1, 0) = <<>>
      /\ Len(sent[p.seq]) \in Nat
  BY PartialIs
<1> HIDE DEF buf
<1>5. TypeOK'
  <2>1. CASE fragmentBuffer' = buf /\ UNCHANGED <<incomingSequence, got>>
    BY <1>0, <1>1, <1>2, <1>3, <2>1 DEF IInv, TypeOK, senderVars
  <2>2. CASE fragmentBuffer' = <<>> /\ incomingSequence' = p.seq /\ got' = <<buf>>
    <3>1. <<buf>> \in Seq(Seq(Byte))
      BY <1>2
    <3> QED BY <1>0, <1>1, <1>3, <1>4, <2>2, <3>1 DEF IInv, TypeOK, senderVars
  <2> QED BY <1>3, <2>1, <2>2
<1>6. ReceiverInv'
  <2>1. CASE fragmentBuffer' = buf /\ UNCHANGED <<incomingSequence, got>>
    BY <1>1, <1>2, <1>3, <2>1 DEF IInv, ReceiverInv
  <2>2. CASE fragmentBuffer' = <<>> /\ incomingSequence' = p.seq /\ got' = <<buf>>
    BY <1>1, <1>3, <1>4, <2>2 DEF IInv, ReceiverInv
  <2> QED BY <1>3, <2>1, <2>2
<1> QED BY <1>0, <1>5, <1>6 DEF IInv

\* A message of one packet keeps it.
LEMMA AcceptWholeInv ==
  ASSUME IInv, NEW p \in net, AcceptWhole(p)
  PROVE  IInv'
<1>0. UNCHANGED senderVars /\ SenderInv' /\ NetInv' /\ EveryMessageEnds'
  BY SenderUnchanged DEF AcceptWhole
<1>1. dropped' \in Nat /\ p.seq <= Len(sent) /\ p.seq \in Nat
  BY NewerPacket, PartialIs DEF AcceptWhole
<1>2. <<p.data>> \in Seq(Seq(Byte))
  BY PartialIs DEF AcceptWhole, PacketOf
<1>3. TypeOK'
  BY <1>0, <1>1, <1>2 DEF IInv, TypeOK, AcceptWhole, senderVars
<1>4. ReceiverInv'
  BY <1>0, <1>1 DEF IInv, ReceiverInv, AcceptWhole, senderVars
<1> QED BY <1>0, <1>3, <1>4 DEF IInv

\* So does a step that changes nothing.
LEMMA StutterInv == ASSUME IInv, UNCHANGED vars PROVE IInv'
  BY DEF vars, senderVars, receiverVars, IInv, TypeOK, SenderInv, NetInv, ReceiverInv,
         EveryMessageEnds

\* Every step keeps the inductive invariant.
LEMMA NextInv == ASSUME IInv, [Next]_vars PROVE IInv'
<1>1. ASSUME NEW m \in Messages, QueueMessage(m) \/ TransmitMessage(m) PROVE IInv'
  BY <1>1, QueueMessageInv, TransmitMessageInv
<1>2. CASE TransmitFragment
  BY <1>2, TransmitFragmentInv
<1>3. CASE TransmitNextInQueue
  BY <1>3, TransmitNextInQueueInv
<1>4. ASSUME NEW p \in net, Netchan_Process(p) PROVE IInv'
  <2>1. CASE DiscardStale(p)
    BY <2>1, StutterInv DEF DiscardStale
  <2>2. CASE RejectFragment(p)
    BY <2>2, RejectFragmentInv
  <2>3. CASE StoreFragment(p)
    BY <2>3, StoreFragmentInv
  <2>4. CASE AcceptWhole(p)
    BY <2>4, AcceptWholeInv
  <2> QED BY <1>4, <2>1, <2>2, <2>3, <2>4 DEF Netchan_Process
<1>5. CASE UNCHANGED vars
  BY <1>5, StutterInv
<1> QED BY <1>1, <1>2, <1>3, <1>4, <1>5
        DEF Next, SV_Netchan_Transmit, SV_Netchan_TransmitNextFragment

\* The inductive invariant holds in every reachable state.
LEMMA InvAlways == Spec => []IInv
  BY InitInv, NextInv, PTL DEF Spec

-----------------------------------------------------------------------------
(* The theorems.                                                              *)

\* Every variable of Netchan keeps its type.
THEOREM TypeCorrect == Spec => []TypeOK
<1>1. IInv => TypeOK
  BY DEF IInv
<1> QED BY <1>1, InvAlways, PTL

\* Every message that has left the sender ended with a fragment that is not
\* full, for every fragment size and every length of message.
THEOREM MessagesEnd == Spec => []EveryMessageEnds
<1>1. IInv => EveryMessageEnds
  BY DEF IInv
<1> QED BY <1>1, InvAlways, PTL

\* Where a message moves from the queue to sent, the sequence of the messages
\* given to SV_Netchan_Transmit does not change.
LEMMA Given ==
  ASSUME NEW s \in Seq(Messages), NEW q \in Seq(Messages)
  PROVE  /\ \A m \in Messages : s \o Append(q, m) = Append(s \o q, m)
         /\ \A m \in Messages : q = <<>> => Append(s, m) \o q = Append(s \o q, m)
         /\ q # <<>> => Append(s, Head(q)) \o Tail(q) = s \o q
         /\ Len(s) \in Nat /\ Len(s \o q) \in Nat /\ Len(s) <= Len(s \o q)
         /\ \A i \in 1..Len(s) : (s \o q)[i] = s[i]
<1>1. \A m \in Messages : s \o Append(q, m) = Append(s \o q, m)
  OBVIOUS
<1>2. \A m \in Messages : q = <<>> => Append(s, m) \o q = Append(s \o q, m)
  OBVIOUS
<1>3. q # <<>> => Append(s, Head(q)) \o Tail(q) = s \o q
  OBVIOUS
<1>4. /\ Len(s) \in Nat /\ Len(s \o q) = Len(s) + Len(q) /\ Len(q) \in Nat
      /\ \A i \in 1..Len(s) : (s \o q)[i] = s[i]
  OBVIOUS
<1>5. Len(s \o q) \in Nat /\ Len(s) <= Len(s \o q)
  BY <1>4
<1> QED BY ONLY <1>1, <1>2, <1>3, <1>4, <1>5, Zenon

\* Every step is a step of the lossy channel or leaves it as it is.
LEMMA RefinementStep ==
  ASSUME IInv, [Next]_vars
  PROVE  [Channel!Next]_(Channel!vars)
<1>0. sent \in Seq(Messages) /\ queue \in Seq(Messages)
  BY DEF IInv, TypeOK
<1>1. ASSUME NEW m \in Messages, QueueMessage(m) PROVE Channel!Send(m)
  BY <1>0, <1>1, Given DEF QueueMessage, receiverVars, Channel!Send
<1>2. ASSUME NEW m \in Messages, TransmitMessage(m) PROVE Channel!Send(m)
  BY <1>0, <1>2, Given DEF TransmitMessage, Netchan_Transmit, receiverVars, Channel!Send
<1>3. CASE TransmitFragment
  BY <1>3 DEF TransmitFragment, receiverVars, Channel!vars
<1>4. CASE TransmitNextInQueue
  BY <1>0, <1>4, Given DEF TransmitNextInQueue, Netchan_Transmit, receiverVars, Channel!vars
<1>5. ASSUME NEW p \in net, StoreFragment(p) PROVE Channel!Arrive(p.seq) \/ UNCHANGED Channel!vars
  <2>1. CASE Len(p.data) = FragmentSize
    BY <1>5, <2>1 DEF StoreFragment, senderVars, Channel!vars
  <2>2. CASE Len(p.data) # FragmentSize
    <3>1. Partial(p) \o p.data = sent[p.seq]
      BY <1>5, <2>2, StoreIs DEF StoreFragment
    <3>2. (sent \o queue)[p.seq] = sent[p.seq]
      BY <1>0, Given, PartialIs
    <3> QED BY <1>5, <2>2, <3>1, <3>2 DEF StoreFragment, senderVars, Channel!Arrive
  <2> QED BY <2>1, <2>2
<1>6. ASSUME NEW p \in net, AcceptWhole(p) PROVE Channel!Arrive(p.seq)
  <2>1. p.data = sent[p.seq]
    BY <1>6, PartialIs DEF AcceptWhole, PacketOf
  <2>2. (sent \o queue)[p.seq] = sent[p.seq]
    BY <1>0, Given, PartialIs
  <2> QED BY <1>6, <2>1, <2>2 DEF AcceptWhole, senderVars, Channel!Arrive
<1>7. ASSUME NEW p \in net PROVE p.seq \in 1..Len(sent \o queue)
  BY <1>0, Given, PartialIs
<1>8. ASSUME NEW p \in net, RejectFragment(p) PROVE UNCHANGED Channel!vars
  BY <1>8 DEF RejectFragment, senderVars, Channel!vars
<1>9. CASE UNCHANGED vars
  BY <1>9 DEF vars, senderVars, receiverVars, Channel!vars
<1> QED BY <1>1, <1>2, <1>3, <1>4, <1>5, <1>6, <1>7, <1>8, <1>9
        DEF Next, SV_Netchan_Transmit, SV_Netchan_TransmitNextFragment, Netchan_Process,
            DiscardStale, Channel!Next

\* Netchan implements the lossy channel: complete messages only, none twice and
\* in the order of SV_Netchan_Transmit, whatever the network does.
THEOREM NetchanImplementsChannel == Spec => DeliversInOrder
<1>1. Init => Channel!Init
  BY DEF Init, Channel!Init
<1>2. IInv /\ [Next]_vars => [Channel!Next]_(Channel!vars)
  BY RefinementStep
<1> QED BY <1>1, <1>2, InvAlways, PTL DEF Spec, DeliversInOrder, Channel!Spec

-----------------------------------------------------------------------------
(* The loopback: the invariant.                                               *)

At(i) == loopMsgs[i % MaxLoopback]

\* Packet number i is one of the last message, which begins at packet number b.
OfLatest(i, b) ==
  /\ At(i) \in net
  /\ At(i).seq = Len(sent)
  /\ At(i).start = (i - b) * FragmentSize
  /\ Len(At(i).data) = FragmentSize <=> (i < send - 1 \/ unsentFragments)
  /\ ~At(i).fragmented => Len(At(i).data) < FragmentSize

\* What the client has of the last message, when it has read the packets before
\* get: nothing, the fragments up to there, or all.
ReadUpToGet(b) ==
  \/ /\ get <= b
     /\ incomingSequence < Len(sent) /\ fragmentSequence < Len(sent)
  \/ /\ get > b /\ get = send /\ ~unsentFragments
     /\ incomingSequence = Len(sent)
  \/ /\ get > b /\ (get < send \/ unsentFragments)
     /\ incomingSequence < Len(sent) /\ fragmentSequence = Len(sent)
     /\ Len(fragmentBuffer) = (get - b) * FragmentSize

\* The last message begins at packet number b, and the ring has all of it.
BeginsAt(b) ==
  /\ send - b <= MaxLoopback
  /\ \A i \in b..(send - 1) : OfLatest(i, b)
  /\ unsentFragments => unsentFragmentStart = (send - b) * FragmentSize
  /\ \A i \in get..(b - 1) : send - i <= MaxLoopback => At(i) \in net /\ At(i).seq < Len(sent)
  /\ ReadUpToGet(b)

LoopType ==
  /\ loopMsgs \in [0..(MaxLoopback - 1) -> Packet \union {NoPacket}]
  /\ get \in Nat /\ send \in Nat /\ get <= send

\* No packet of the last message has the start the next fragment will have.
NextIsNew ==
  unsentFragments => \A p \in net : p.seq = Len(sent) => p.start < unsentFragmentStart

LoopInv ==
  /\ LoopType /\ NextIsNew
  /\ IF sent = <<>> THEN send = 0 ELSE \E b \in 0..(send - 1) : BeginsAt(b)

LoopbackInv == IInv /\ (transport = "loopback" => LoopInv)

-----------------------------------------------------------------------------
(* Numbers.                                                                   *)

\* Two packet numbers less than a ring apart have different slots.
LEMMA NoMultiple ==
  ASSUME NEW N \in Nat \ {0}, NEW q \in Int
  PROVE  q * N <= 0 \/ q * N >= N
<1>1. CASE q <= 0
  BY <1>1, SMTT(20)
<1>2. CASE q >= 1
  BY <1>2, SMTT(20)
<1> QED BY <1>1, <1>2

LEMMA OtherSlot ==
  ASSUME NEW N \in Nat \ {0}, NEW i \in Nat, NEW j \in Nat, i < j, j - i < N
  PROVE  i % N # j % N /\ i % N \in 0..(N - 1) /\ j % N \in 0..(N - 1)
<1>1. i = N * (i \div N) + (i % N) /\ i \div N \in Int /\ i % N \in 0..(N - 1)
  OBVIOUS
<1>2. j = N * (j \div N) + (j % N) /\ j \div N \in Int /\ j % N \in 0..(N - 1)
  OBVIOUS
<1>3. ASSUME i % N = j % N PROVE FALSE
  <2> DEFINE a == i \div N
             b == j \div N
             r == i % N
  <2>1. i = N * a + r /\ j = N * b + r /\ a \in Int /\ b \in Int /\ r \in Int
    BY <1>1, <1>2, <1>3
  <2> HIDE DEF a, b, r
  <2>2. j - i = (b - a) * N
    BY <2>1
  <2> QED BY <2>1, <2>2, NoMultiple
<1> QED BY <1>1, <1>2, <1>3

\* So many full fragments that they are fewer bytes are fewer fragments.
LEMMA FewerFragments ==
  ASSUME NEW F \in Nat \ {0}, NEW k \in Nat, NEW N \in Nat, k * F < N * F
  PROVE  k < N
<1>1. ASSUME k >= N PROVE FALSE
  <2> DEFINE d == k - N
  <2>1. d \in Nat /\ k = N + d
    BY <1>1
  <2> HIDE DEF d
  <2>2. k * F = N * F + d * F
    BY <2>1
  <2>3. d * F >= 0 /\ d * F \in Int /\ N * F \in Int
    BY <2>1
  <2> DEFINE x == N * F
             y == d * F
  <2>4. x + y < x /\ y >= 0 /\ x \in Int /\ y \in Int
    BY <2>2, <2>3
  <2> HIDE DEF x, y
  <2> QED BY <2>4
<1> QED BY <1>1

LEMMA OneMoreFragment ==
  ASSUME NEW F \in Nat \ {0}, NEW k \in Nat
  PROVE  /\ (k + 1) * F = k * F + F /\ k * F \in Nat
         /\ k * F = 0 => k = 0
<1>1. (k + 1) * F = k * F + F /\ k * F \in Nat
  OBVIOUS
<1>2. ASSUME k > 0 PROVE k * F # 0
  BY <1>2, SMTT(20)
<1> QED BY <1>1, <1>2
LEMMA Sizes ==
  /\ FragmentSize \in Nat \ {0} /\ MaxLoopback \in Nat \ {0} /\ BufferSize \in Nat
  /\ BufferSize < MaxLoopback * FragmentSize
<1>1. FragmentSize \in Nat \ {0} /\ MaxLoopback \in Nat /\ BufferSize \in Nat
      /\ BufferSize < MaxLoopback * FragmentSize
  BY NetchanAssumption, LoopbackAssumption
<1>2. MaxLoopback # 0
  BY <1>1
<1> QED BY <1>1, <1>2

-----------------------------------------------------------------------------
(* Sending.                                                                   *)

\* A packet written to the ring takes the slot of none of the others that are
\* still to be read.
LEMMA RingStep ==
  ASSUME LoopType, NEW p \in Packet, NET_SendLoopPacket(p)
  PROVE  /\ LoopType' /\ send' = send + 1 /\ get' = get
         /\ loopMsgs'[send % MaxLoopback] = p
         /\ \A i \in 0..(send - 1) :
              send' - i <= MaxLoopback => loopMsgs'[i % MaxLoopback] = At(i)
<1>1. send \in Nat /\ get \in Nat /\ get <= send
      /\ loopMsgs \in [0..(MaxLoopback - 1) -> Packet \union {NoPacket}]
  BY DEF LoopType
<1>2. send % MaxLoopback \in 0..(MaxLoopback - 1)
  BY <1>1, Sizes
<1>3. /\ loopMsgs' = [loopMsgs EXCEPT ![send % MaxLoopback] = p]
      /\ send' = send + 1 /\ get' = get
  BY DEF NET_SendLoopPacket
<1>4. LoopType'
  <2> DEFINE T == Packet \union {NoPacket}
             D == 0..(MaxLoopback - 1)
  <2>1. loopMsgs \in [D -> T] /\ p \in T
    BY <1>1
  <2> HIDE DEF T, D
  <2>2. loopMsgs' \in [D -> T]
    BY <1>3, <2>1
  <2>3. get' \in Nat /\ send' \in Nat /\ get' <= send'
    BY <1>1, <1>3
  <2> QED BY <2>2, <2>3 DEF LoopType, T, D
<1>5. loopMsgs'[send % MaxLoopback] = p
  BY <1>1, <1>2, <1>3
<1>6. ASSUME NEW i \in 0..(send - 1), send' - i <= MaxLoopback
      PROVE  loopMsgs'[i % MaxLoopback] = At(i)
  <2>1. i \in Nat /\ i < send /\ send - i < MaxLoopback
    BY <1>1, <1>3, <1>6, Sizes
  <2>2. i % MaxLoopback # send % MaxLoopback /\ i % MaxLoopback \in 0..(MaxLoopback - 1)
    BY <1>1, <2>1, Sizes, OtherSlot
  <2> QED BY <1>1, <1>3, <2>2 DEF At
<1> QED BY <1>3, <1>4, <1>5, <1>6

\* Packet p is what a sending step adds: it begins at start, and a full one means
\* that more of the message is to come.
Sends(p, start) ==
  /\ p \in Packet /\ net' = net \union {p}
  /\ p.seq = Len(sent') /\ p.start = start
  /\ Len(p.data) = FragmentSize <=> unsentFragments'
  /\ ~p.fragmented => Len(p.data) < FragmentSize
  /\ unsentFragments' => unsentFragmentStart' = start + FragmentSize

LEMMA FragmentSends ==
  ASSUME NEW m \in Seq(Byte), NEW k \in 0..Len(m), outgoingSequence = Len(sent'),
         outgoingSequence \in Nat, Netchan_TransmitNextFragment(m, k)
  PROVE  \E p : Sends(p, k)
<1> DEFINE p == [seq |-> outgoingSequence, fragmented |-> TRUE,
                 start |-> k, data |-> Chunk(m, k)]
<1>1. /\ Chunk(m, k) \in Seq(Byte) /\ Len(Chunk(m, k)) \in Nat
      /\ Len(Chunk(m, k)) # FragmentSize => k + Len(Chunk(m, k)) = Len(m)
  BY ChunkFacts
<1>2. /\ net' = net \union {p}
      /\ unsentFragmentStart' = k + Len(Chunk(m, k))
      /\ unsentFragments' = ~(k + Len(Chunk(m, k)) = Len(m) /\ Len(Chunk(m, k)) # FragmentSize)
  BY DEF Netchan_TransmitNextFragment
<1>3. k \in Nat
  OBVIOUS
<1>4. p \in Packet
  BY <1>1, <1>3 DEF Packet
<1>5. p.seq = Len(sent') /\ p.start = k /\ p.data = Chunk(m, k) /\ p.fragmented
  OBVIOUS
<1>6. Len(Chunk(m, k)) = FragmentSize <=> unsentFragments'
  BY <1>1, <1>2
<1> HIDE DEF p
<1>7. Sends(p, k)
  BY <1>2, <1>4, <1>5, <1>6 DEF Sends
<1> QED BY <1>7

\* A message given to Netchan_Transmit: its first packet, or its only one.
LEMMA MessageSends ==
  ASSUME IInv, NEW m \in Messages, ~unsentFragments, Netchan_Transmit(m)
  PROVE  /\ sent' # <<>> /\ Len(sent) \in Nat /\ Len(sent') = Len(sent) + 1
         /\ \E p : Sends(p, 0) /\ p \notin net
<1>1. sent \in Seq(Messages) /\ Len(sent) \in Nat /\ unsentFragments = FALSE
  BY DEF IInv, TypeOK
<1>2. sent' = Append(sent, m) /\ Len(sent') = Len(sent) + 1 /\ sent' # <<>>
  BY <1>1 DEF Netchan_Transmit
<1>3. outgoingSequence = Len(sent') /\ outgoingSequence \in Nat
  BY <1>1, <1>2 DEF IInv, SenderInv
<1>4. \E p : Sends(p, 0)
  <2>1. CASE Len(m) >= FragmentSize
    BY <1>3, <2>1, MessagesOfBytes, FragmentSends, Sizes DEF Netchan_Transmit
  <2>2. CASE ~(Len(m) >= FragmentSize)
    <3> DEFINE p == [seq |-> outgoingSequence, fragmented |-> FALSE, start |-> 0, data |-> m]
    <3>1. net' = net \union {p} /\ unsentFragments' = FALSE
      BY <1>1, <2>2 DEF Netchan_Transmit
    <3>2. m \in Seq(Byte) /\ Len(m) \in Nat /\ Len(m) < FragmentSize /\ Len(m) # FragmentSize
      BY <2>2, MessagesOfBytes, Sizes
    <3>3. p \in Packet
      BY <1>3, <3>2 DEF Packet
    <3>4. p.seq = Len(sent') /\ p.start = 0 /\ p.data = m
      BY <1>3
    <3> HIDE DEF p
    <3>5. Sends(p, 0)
      BY <3>1, <3>2, <3>3, <3>4 DEF Sends
    <3> QED BY <3>5
  <2> QED BY <2>1, <2>2
<1>5. \A p : Sends(p, 0) => p \notin net
  <2> SUFFICES ASSUME NEW p, Sends(p, 0), p \in net PROVE FALSE
    OBVIOUS
  <2>1. p.seq = Len(sent) + 1
    BY <1>2 DEF Sends
  <2>2. p.seq \in 1..Len(sent)
    BY DEF IInv, NetInv
  <2> QED BY <1>1, <2>1, <2>2
<1> QED BY <1>1, <1>2, <1>4, <1>5
\* The first packet of a message follows packets of earlier ones in the ring.
LEMMA NewMessage ==
  ASSUME IInv, LoopInv, NEW p, Sends(p, 0), NET_SendLoopPacket(p),
         ~unsentFragments, Len(sent') = Len(sent) + 1, sent' # <<>>, UNCHANGED receiverVars
  PROVE  LoopInv'
<1>1. LoopType /\ p \in Packet /\ Len(sent) \in Nat
  BY DEF LoopInv, Sends, IInv, TypeOK
<1>2. send \in Nat /\ get \in Nat /\ get <= send
  BY <1>1 DEF LoopType
<1>3. /\ LoopType' /\ send' = send + 1 /\ get' = get
      /\ loopMsgs'[send % MaxLoopback] = p
      /\ \A i \in 0..(send - 1) : send' - i <= MaxLoopback => loopMsgs'[i % MaxLoopback] = At(i)
  BY <1>1, RingStep
<1>4. p.seq = Len(sent') /\ p.start = 0 /\ p \in net' /\ net' = net \union {p}
      /\ (Len(p.data) = FragmentSize <=> unsentFragments')
      /\ (~p.fragmented => Len(p.data) < FragmentSize)
      /\ (unsentFragments' => unsentFragmentStart' = FragmentSize)
  BY Sizes DEF Sends
<1>5. \A q \in net : q.seq \in Nat /\ q.seq <= Len(sent)
  BY <1>1 DEF IInv, NetInv
<1>6. NextIsNew'
  BY <1>1, <1>4, <1>5, Sizes DEF NextIsNew
<1>7. \A i \in get..(send - 1) : send - i <= MaxLoopback => At(i) \in net
  <2> SUFFICES ASSUME NEW i \in get..(send - 1), send - i <= MaxLoopback PROVE At(i) \in net
    OBVIOUS
  <2>1. sent # <<>>
    BY <1>2 DEF LoopInv
  <2>2. PICK b \in 0..(send - 1) : BeginsAt(b)
    BY <2>1 DEF LoopInv
  <2>3. CASE i < b
    BY <1>2, <2>2, <2>3 DEF BeginsAt
  <2>4. CASE i >= b
    BY <1>2, <2>2, <2>4 DEF BeginsAt, OfLatest
  <2> QED BY <1>2, <2>2, <2>3, <2>4
<1>8. PICK b \in Nat : b = send
  BY <1>2
<1>9. BeginsAt(b)'
  <2>1. send' - b <= MaxLoopback /\ \A i \in b..(send' - 1) : i = b
    BY <1>2, <1>3, <1>8, Sizes
  <2>2. OfLatest(b, b)'
    <3>1. At(b)' = p
      BY <1>3, <1>8 DEF At
    <3>2. (b - b) * FragmentSize = 0 /\ ~(b < send' - 1)
      BY <1>2, <1>3, <1>8, Sizes
    <3> QED BY <1>4, <3>1, <3>2 DEF OfLatest
  <2>3. unsentFragments' => unsentFragmentStart' = (send' - b) * FragmentSize
    BY <1>2, <1>3, <1>4, <1>8, Sizes
  <2>4. ASSUME NEW i \in get'..(b - 1), send' - i <= MaxLoopback
        PROVE  At(i)' \in net' /\ At(i)'.seq < Len(sent')
    <3>1. i \in get..(send - 1) /\ i \in 0..(send - 1) /\ send - i <= MaxLoopback
      BY <1>2, <1>3, <1>8, <2>4, Sizes
    <3>2. At(i)' = At(i) /\ At(i) \in net
      BY <1>3, <1>7, <2>4, <3>1 DEF At
    <3> QED BY <1>1, <1>4, <1>5, <3>2
  <2>5. ReadUpToGet(b)'
    <3>1. incomingSequence <= Len(sent) /\ fragmentSequence <= Len(sent)
          /\ incomingSequence \in Nat /\ fragmentSequence \in Nat
      BY DEF IInv, TypeOK, ReceiverInv
    <3>2. incomingSequence' = incomingSequence /\ fragmentSequence' = fragmentSequence
      BY DEF receiverVars
    <3> QED BY <1>1, <1>2, <1>3, <1>8, <3>1, <3>2 DEF ReadUpToGet
  <2> QED BY <2>1, <2>2, <2>3, <2>4, <2>5 DEF BeginsAt
<1>10. b \in 0..(send' - 1)
  BY <1>2, <1>3, <1>8
<1> QED BY <1>3, <1>6, <1>9, <1>10 DEF LoopInv

\* The next fragment of the last message follows the ones before it.
LEMMA MoreOfMessage ==
  ASSUME IInv, LoopInv, NEW p, Sends(p, unsentFragmentStart), NET_SendLoopPacket(p),
         unsentFragments, unsentFragmentStart <= BufferSize,
         sent' = sent, UNCHANGED receiverVars
  PROVE  LoopInv'
<1>1. LoopType /\ p \in Packet /\ Len(sent) \in Nat /\ sent # <<>>
      /\ unsentFragmentStart \in Nat
  BY DEF LoopInv, Sends, IInv, TypeOK, SenderInv
<1>2. send \in Nat /\ get \in Nat /\ get <= send
  BY <1>1 DEF LoopType
<1>3. /\ LoopType' /\ send' = send + 1 /\ get' = get
      /\ loopMsgs'[send % MaxLoopback] = p
      /\ \A i \in 0..(send - 1) : send' - i <= MaxLoopback => loopMsgs'[i % MaxLoopback] = At(i)
  BY <1>1, RingStep
<1>4. p.seq = Len(sent) /\ p.start = unsentFragmentStart /\ p \in net' /\ net' = net \union {p}
      /\ (Len(p.data) = FragmentSize <=> unsentFragments')
      /\ (~p.fragmented => Len(p.data) < FragmentSize)
      /\ (unsentFragments' => unsentFragmentStart' = unsentFragmentStart + FragmentSize)
  BY DEF Sends
<1>5. \A q \in net : q.start \in Nat
  BY DEF IInv, TypeOK, Packet
<1>6. NextIsNew'
  <2>1. \A q \in net : q.seq = Len(sent) => q.start < unsentFragmentStart
    BY DEF LoopInv, NextIsNew
  <2> QED BY <1>1, <1>4, <1>5, <2>1, Sizes DEF NextIsNew
<1>7. PICK b \in 0..(send - 1) : BeginsAt(b)
  BY <1>1 DEF LoopInv
<1>8. unsentFragmentStart = (send - b) * FragmentSize /\ b \in Nat /\ send - b \in Nat
  BY <1>2, <1>7 DEF BeginsAt
<1>9. send' - b <= MaxLoopback
  <2>1. (send - b) * FragmentSize < MaxLoopback * FragmentSize
    BY <1>1, <1>8, Sizes
  <2>2. send - b < MaxLoopback
    BY <1>8, <2>1, Sizes, FewerFragments
  <2> QED BY <1>2, <1>3, <1>8, <2>2, Sizes
<1>10. ASSUME NEW i \in b..(send - 1) PROVE At(i)' = At(i)
  <2>1. i \in 0..(send - 1) /\ send' - i <= MaxLoopback
    BY <1>2, <1>3, <1>8, <1>9, Sizes
  <2> QED BY <1>3, <2>1 DEF At
<1>11. BeginsAt(b)'
  <2>1. ASSUME NEW i \in b..(send - 1) PROVE OfLatest(i, b)'
    <3>1. OfLatest(i, b) /\ At(i)' = At(i) /\ i < send' - 1
      BY <1>2, <1>3, <1>7, <1>8, <1>10, <2>1 DEF BeginsAt
    <3> QED BY <1>4, <3>1 DEF OfLatest
  <2>2. ASSUME NEW i \in b..(send' - 1), i = send PROVE OfLatest(i, b)'
    <3>1. At(i)' = p /\ ~(i < send' - 1)
      BY <1>2, <1>3, <2>2 DEF At
    <3> QED BY <1>4, <1>8, <2>2, <3>1 DEF OfLatest
  <2>3. \A i \in b..(send' - 1) : OfLatest(i, b)'
    BY <1>2, <1>3, <1>8, <2>1, <2>2
  <2>4. unsentFragments' => unsentFragmentStart' = (send' - b) * FragmentSize
    <3>1. send' - b = (send - b) + 1
      BY <1>2, <1>3, <1>8
    <3> QED BY <1>4, <1>8, <3>1, Sizes, OneMoreFragment
  <2>5. ASSUME NEW i \in get'..(b - 1), send' - i <= MaxLoopback
        PROVE  At(i)' \in net' /\ At(i)'.seq < Len(sent')
    <3>1. i \in get..(b - 1) /\ i \in 0..(send - 1) /\ send - i <= MaxLoopback
      BY <1>2, <1>3, <1>8, <2>5, Sizes
    <3>2. At(i)' = At(i) /\ At(i) \in net /\ At(i).seq < Len(sent)
      BY <1>3, <1>7, <2>5, <3>1 DEF At, BeginsAt
    <3> QED BY <1>4, <3>2
  <2>6. ReadUpToGet(b)'
    <3>1. incomingSequence' = incomingSequence /\ fragmentSequence' = fragmentSequence
          /\ fragmentBuffer' = fragmentBuffer
      BY DEF receiverVars
    <3>2. ReadUpToGet(b)
      BY <1>7 DEF BeginsAt
    <3> QED BY <1>2, <1>3, <3>1, <3>2 DEF ReadUpToGet
  <2> QED BY <1>9, <2>3, <2>4, <2>5, <2>6 DEF BeginsAt
<1>12. b \in 0..(send' - 1)
  BY <1>2, <1>3, <1>7
<1> QED BY <1>1, <1>3, <1>6, <1>11, <1>12 DEF LoopInv
-----------------------------------------------------------------------------
(* Receiving.                                                                 *)

\* A packet that was in the ring leaves the ring and the sender as they are.
LEMMA ProcessKeeps ==
  ASSUME NEW p, Netchan_Process(p)
  PROVE  UNCHANGED senderVars
  BY DEF Netchan_Process, DiscardStale, RejectFragment, StoreFragment, AcceptWhole,
         vars

\* A packet of an earlier message tells nothing of the last one.
LEMMA ReadEarlier ==
  ASSUME IInv, NEW p \in net, p.seq < Len(sent), Netchan_Process(p),
         incomingSequence < Len(sent), fragmentSequence < Len(sent)
  PROVE  incomingSequence' < Len(sent) /\ fragmentSequence' < Len(sent)
  BY DEF Netchan_Process, DiscardStale, RejectFragment, StoreFragment, AcceptWhole,
         vars, receiverVars

\* A packet of the last message that continues what the client has of it.
LEMMA ReadLatest ==
  ASSUME IInv, NEW p \in net, p.seq = Len(sent), Netchan_Process(p),
         incomingSequence < Len(sent),
         p.start = Len(Partial(p)),
         ~p.fragmented => Len(p.data) < FragmentSize
  PROVE  IF Len(p.data) = FragmentSize
         THEN /\ incomingSequence' < Len(sent) /\ fragmentSequence' = Len(sent)
              /\ Len(fragmentBuffer') = p.start + FragmentSize
         ELSE incomingSequence' = Len(sent)
<1>1. /\ p.seq \in 1..Len(sent) /\ Len(sent) \in Nat /\ sent[p.seq] \in Messages
      /\ sent[p.seq] \in Seq(Byte) /\ Len(sent[p.seq]) \in Nat /\ PacketOf(p, sent[p.seq])
      /\ Partial(p) \in Seq(Byte) /\ incomingSequence \in Nat
  BY PartialIs DEF IInv, TypeOK
<1>2. Len(sent[p.seq]) <= BufferSize
  BY <1>1, NetchanAssumption
<1>3. p.data \in Seq(Byte) /\ Len(p.data) \in Nat
  BY DEF IInv, TypeOK, Packet
<1>4. CASE p.fragmented
  <2>1. p.start \in 0..Len(sent[p.seq]) /\ p.data = Chunk(sent[p.seq], p.start)
    BY <1>1, <1>4 DEF PacketOf
  <2>2. p.start + Len(p.data) <= Len(sent[p.seq])
    BY <1>1, <2>1, ChunkFacts
  <2>3. Fits(p)
    BY <1>1, <1>2, <1>3, <2>1, <2>2, Sizes DEF Fits
  <2>4. StoreFragment(p)
    BY <1>1, <1>4, <2>3
       DEF Netchan_Process, DiscardStale, RejectFragment, AcceptWhole
  <2>5. CASE Len(p.data) = FragmentSize
    <3>1. /\ fragmentBuffer' = Partial(p) \o p.data
          /\ incomingSequence' = incomingSequence /\ fragmentSequence' = p.seq
      BY <2>4, <2>5 DEF StoreFragment
    <3>2. Len(Partial(p) \o p.data) = Len(Partial(p)) + Len(p.data)
      BY <1>1, <1>3
    <3> QED BY <2>5, <3>1, <3>2
  <2>6. CASE Len(p.data) # FragmentSize
    BY <2>4, <2>6 DEF StoreFragment
  <2> QED BY <2>5, <2>6
<1>5. CASE ~p.fragmented
  <2>1. AcceptWhole(p)
    BY <1>1, <1>5 DEF Netchan_Process, DiscardStale, RejectFragment, StoreFragment
  <2>2. Len(p.data) # FragmentSize
    BY <1>3, <1>5, Sizes
  <2> QED BY <2>1, <2>2 DEF AcceptWhole
<1> QED BY <1>4, <1>5

\* The packet Com_EventLoop reads next was sent and not written over.
LEMMA ReadsSent ==
  ASSUME IInv, LoopInv, FirstReadable < send
  PROVE  /\ sent # <<>> /\ FirstReadable \in get..(send - 1)
         /\ send - FirstReadable <= MaxLoopback
         /\ At(FirstReadable) \in net
<1>1. send \in Nat /\ get \in Nat /\ get <= send
  BY DEF LoopInv, LoopType
<1>2. FirstReadable \in get..(send - 1) /\ send - FirstReadable <= MaxLoopback
  BY <1>1, Sizes DEF FirstReadable
<1>3. sent # <<>>
  BY <1>1, <1>2 DEF LoopInv
<1>4. PICK b \in 0..(send - 1) : BeginsAt(b)
  BY <1>3 DEF LoopInv
<1> DEFINE i == FirstReadable
<1>5. i \in get..(send - 1) /\ send - i <= MaxLoopback
  BY <1>2
<1> HIDE DEF i
<1>6. At(i) \in net
  <2>1. CASE i < b
    <3>1. i \in get..(b - 1)
      BY <1>1, <1>4, <1>5, <2>1
    <3> QED BY <1>4, <1>5, <3>1 DEF BeginsAt
  <2>2. CASE i >= b
    <3>1. i \in b..(send - 1)
      BY <1>1, <1>4, <1>5, <2>2
    <3> QED BY <1>4, <3>1 DEF BeginsAt, OfLatest
  <2> QED BY <1>1, <1>4, <1>5, <2>1, <2>2
<1> QED BY <1>2, <1>3, <1>6 DEF i

\* Reading a packet keeps the invariant.
LEMMA GetKeeps ==
  ASSUME IInv, LoopInv, NET_GetLoopPacket
  PROVE  LoopInv'
<1> DEFINE i == FirstReadable
           p == At(i)
<1>1. /\ i < send /\ get' = i + 1 /\ Netchan_Process(p)
      /\ loopMsgs' = loopMsgs /\ send' = send
  BY DEF NET_GetLoopPacket, At
<1>2. sent # <<>> /\ i \in get..(send - 1) /\ send - i <= MaxLoopback /\ p \in net
  BY <1>1, ReadsSent
<1>3. send \in Nat /\ get \in Nat /\ get <= send /\ Len(sent) \in Nat
  BY DEF LoopInv, LoopType, IInv, TypeOK
<1>4. /\ sent' = sent /\ net' = net /\ unsentFragments' = unsentFragments
      /\ unsentFragmentStart' = unsentFragmentStart
  BY <1>1, ProcessKeeps DEF senderVars
<1>5. i = get \/ i = send - MaxLoopback
  BY <1>3 DEF FirstReadable
<1> HIDE DEF i, p
<1>6. PICK b \in 0..(send - 1) : BeginsAt(b)
  BY <1>2 DEF LoopInv
<1>7. /\ p.seq \in Nat /\ incomingSequence \in Nat /\ fragmentSequence \in Nat
  BY <1>2 DEF IInv, TypeOK, Packet
<1>8. ReadUpToGet(b)'
  <2>1. CASE i < b
    <3>1. p.seq < Len(sent) /\ get <= b
      BY <1>2, <1>3, <1>6, <2>1 DEF BeginsAt, p
    <3>2. incomingSequence < Len(sent) /\ fragmentSequence < Len(sent)
      BY <1>3, <1>6, <3>1 DEF BeginsAt, ReadUpToGet
    <3>3. incomingSequence' < Len(sent) /\ fragmentSequence' < Len(sent)
      BY <1>1, <1>2, <3>1, <3>2, ReadEarlier
    <3>4. get' <= b
      BY <1>1, <1>2, <1>3, <2>1
    <3> QED BY <1>4, <3>3, <3>4 DEF ReadUpToGet
  <2>2. CASE i >= b
    <3>1. OfLatest(i, b)
      BY <1>2, <1>3, <1>6, <2>2 DEF BeginsAt
    <3>2. incomingSequence < Len(sent) /\ p.start = Len(Partial(p))
      <4>1. CASE get <= b
        <5>1. i = b
          BY <1>2, <1>3, <1>5, <1>6, <2>2, <4>1, Sizes DEF BeginsAt
        <5>2. p.start = 0
          BY <3>1, <5>1, Sizes DEF OfLatest, p
        <5>3. incomingSequence < Len(sent) /\ fragmentSequence < Len(sent)
          BY <1>3, <1>6, <4>1 DEF BeginsAt, ReadUpToGet
        <5>4. p.seq # fragmentSequence
          BY <1>3, <1>7, <3>1, <5>3 DEF OfLatest, p
        <5> QED BY <5>2, <5>3, <5>4 DEF Partial
      <4>2. CASE get > b
        <5>1. i = get
          BY <1>2, <1>3, <1>5, <1>6, <4>2, Sizes DEF BeginsAt
        <5>2. /\ incomingSequence < Len(sent) /\ fragmentSequence = Len(sent)
              /\ Len(fragmentBuffer) = (get - b) * FragmentSize
          BY <1>2, <1>3, <1>6, <4>2, <5>1 DEF BeginsAt, ReadUpToGet
        <5> QED BY <3>1, <5>1, <5>2 DEF Partial, OfLatest, p
      <4> QED BY <1>3, <1>6, <4>1, <4>2
    <3>3. IF Len(p.data) = FragmentSize
          THEN /\ incomingSequence' < Len(sent) /\ fragmentSequence' = Len(sent)
               /\ Len(fragmentBuffer') = p.start + FragmentSize
          ELSE incomingSequence' = Len(sent)
      BY <1>1, <1>2, <3>1, <3>2, ReadLatest DEF OfLatest, p
    <3>4. get' > b /\ get' <= send /\ get' - b = (i - b) + 1 /\ i - b \in Nat
      BY <1>1, <1>2, <1>3, <1>6, <2>2
    <3>5. p.start + FragmentSize = (get' - b) * FragmentSize
      BY <3>1, <3>4, Sizes, OneMoreFragment DEF OfLatest, p
    <3>6. Len(p.data) = FragmentSize <=> (get' < send \/ unsentFragments)
      BY <1>1, <1>2, <1>3, <3>1 DEF OfLatest, p
    <3>7. CASE Len(p.data) = FragmentSize
      BY <1>1, <1>4, <3>3, <3>4, <3>5, <3>6, <3>7 DEF ReadUpToGet
    <3>8. CASE Len(p.data) # FragmentSize
      <4>1. get' = send /\ ~unsentFragments
        BY <1>1, <1>2, <1>3, <3>4, <3>6, <3>8
      <4> QED BY <1>1, <1>4, <3>3, <3>4, <3>8, <4>1 DEF ReadUpToGet
    <3> QED BY <3>7, <3>8
  <2> QED BY <1>2, <1>3, <1>6, <2>1, <2>2
<1>9. BeginsAt(b)'
  <2>1. \A j : At(j)' = At(j) /\ (OfLatest(j, b) => OfLatest(j, b)')
    BY <1>1, <1>4 DEF At, OfLatest
  <2>2. \A j \in get'..(b - 1) : j \in get..(b - 1)
    BY <1>1, <1>2, <1>3
  <2> QED BY <1>1, <1>4, <1>6, <1>8, <2>1, <2>2 DEF BeginsAt
<1>10. LoopType' /\ NextIsNew'
  BY <1>1, <1>2, <1>3, <1>4 DEF LoopInv, LoopType, NextIsNew
<1> QED BY <1>1, <1>2, <1>4, <1>6, <1>9, <1>10 DEF LoopInv
-----------------------------------------------------------------------------
(* The theorems.                                                              *)

\* A step of the sender over the loopback keeps the invariant of the ring.
LEMMA SendKeepsLoop ==
  ASSUME IInv, LoopInv, SendOverLoopback
  PROVE  LoopInv'
<1>1. /\ sent \in Seq(Messages) /\ queue \in Seq(Messages) /\ Len(sent) \in Nat
      /\ LoopType /\ unsentFragments \in BOOLEAN
  BY DEF IInv, TypeOK, LoopInv
<1>2. ASSUME NEW m \in Messages, QueueMessage(m) PROVE LoopInv'
  <2>1. UNCHANGED loopVars
    BY <1>2 DEF QueueMessage, SendOverLoopback
  <2>2. UNCHANGED <<sent, net, unsentFragments, unsentFragmentStart, receiverVars>>
    BY <1>2 DEF QueueMessage
  <2>3. \A i, b : At(i)' = At(i) /\ (OfLatest(i, b) <=> OfLatest(i, b)')
    BY <2>1, <2>2 DEF loopVars, At, OfLatest
  <2>4. \A b : BeginsAt(b) => BeginsAt(b)'
    BY <2>1, <2>2, <2>3 DEF loopVars, receiverVars, BeginsAt, ReadUpToGet
  <2> QED BY <2>1, <2>2, <2>4 DEF loopVars, LoopInv, LoopType, NextIsNew
<1>3. ASSUME NEW m \in Messages, ~unsentFragments, Netchan_Transmit(m), UNCHANGED receiverVars
      PROVE  LoopInv'
  <2>1. PICK p : Sends(p, 0) /\ p \notin net
    BY <1>3, MessageSends
  <2>2. NET_SendLoopPacket(p)
    BY <2>1 DEF Sends, SendOverLoopback
  <2>3. sent' # <<>> /\ Len(sent') = Len(sent) + 1
    BY <1>3, MessageSends
  <2> QED BY <1>3, <2>1, <2>2, <2>3, NewMessage
<1>4. CASE TransmitFragment
  <2>1. /\ unsentFragments /\ sent' = sent /\ UNCHANGED receiverVars
        /\ Netchan_TransmitNextFragment(unsentBuffer, unsentFragmentStart)
    BY <1>4 DEF TransmitFragment
  <2>2. /\ Len(sent) > 0 /\ unsentBuffer = sent[Len(sent)] /\ outgoingSequence = Len(sent)
        /\ unsentFragmentStart \in Nat /\ unsentFragmentStart <= Len(unsentBuffer)
    BY <2>1 DEF IInv, SenderInv, TypeOK
  <2>3. /\ unsentBuffer \in Messages /\ unsentBuffer \in Seq(Byte)
        /\ Len(unsentBuffer) \in Nat /\ Len(unsentBuffer) <= BufferSize
    BY <1>1, <2>2, MessagesOfBytes, NetchanAssumption
  <2>4. unsentFragmentStart <= BufferSize /\ unsentFragmentStart \in 0..Len(unsentBuffer)
    BY <2>2, <2>3, Sizes
  <2>5. PICK p : Sends(p, unsentFragmentStart)
    BY <1>1, <2>1, <2>2, <2>3, <2>4, FragmentSends
  <2>6. p \notin net
    <3>1. p.seq = Len(sent) /\ p.start = unsentFragmentStart
      BY <2>1, <2>5 DEF Sends
    <3> QED BY <2>1, <2>2, <3>1 DEF LoopInv, NextIsNew
  <2>7. NET_SendLoopPacket(p)
    BY <2>5, <2>6 DEF Sends, SendOverLoopback
  <2> QED BY <2>1, <2>4, <2>5, <2>7, MoreOfMessage
<1>5. ASSUME NEW m \in Messages, TransmitMessage(m) PROVE LoopInv'
  BY <1>3, <1>5 DEF TransmitMessage
<1>6. CASE TransmitNextInQueue
  <2>1. Head(queue) \in Messages
    BY <1>1, <1>6 DEF TransmitNextInQueue
  <2> QED BY <1>3, <1>6, <2>1 DEF TransmitNextInQueue
<1> QED BY <1>2, <1>4, <1>5, <1>6
        DEF SendOverLoopback, SV_Netchan_Transmit, SV_Netchan_TransmitNextFragment

\* Over the loopback too a step is one of Netchan, or changes nothing of it.
LEMMA LoopStepIsNext ==
  ASSUME LoopbackInv, [LoopbackNext]_allVars
  PROVE  [Next]_vars
<1>1. CASE transport = "loopback" /\ NET_GetLoopPacket
  <2>1. FirstReadable < send /\ Netchan_Process(At(FirstReadable))
    BY <1>1 DEF NET_GetLoopPacket, At
  <2>2. At(FirstReadable) \in net
    BY <1>1, <2>1, ReadsSent DEF LoopbackInv
  <2> QED BY <2>1, <2>2 DEF Next
<1>2. CASE UNCHANGED allVars
  BY <1>2 DEF allVars
<1> QED BY <1>1, <1>2 DEF LoopbackNext, SendOverLoopback, NoLoopPacket, Next

LEMMA LoopbackInvInductive ==
  ASSUME LoopbackInv, [LoopbackNext]_allVars
  PROVE  LoopbackInv'
<1>1. IInv'
  BY LoopStepIsNext, NextInv DEF LoopbackInv
<1>2. ASSUME transport' = "loopback" PROVE LoopInv'
  <2>1. transport = "loopback" /\ IInv /\ LoopInv
    BY <1>2 DEF LoopbackInv, LoopbackNext, allVars
  <2>2. CASE SendOverLoopback
    BY <2>1, <2>2, SendKeepsLoop
  <2>3. CASE NET_GetLoopPacket
    BY <2>1, <2>3, GetKeeps
  <2>4. CASE UNCHANGED <<vars, loopVars>>
    <3>1. UNCHANGED <<sent, net, unsentFragments, unsentFragmentStart, receiverVars, loopMsgs, get, send>>
      BY <2>4 DEF vars, senderVars, loopVars
    <3>2. \A i, b : At(i)' = At(i) /\ (OfLatest(i, b) <=> OfLatest(i, b)')
      BY <3>1 DEF At, OfLatest
    <3>3. \A b : BeginsAt(b) => BeginsAt(b)'
      BY <3>1, <3>2 DEF receiverVars, BeginsAt, ReadUpToGet
    <3> QED BY <2>1, <3>1, <3>3 DEF LoopInv, LoopType, NextIsNew
  <2> QED BY <2>1, <2>2, <2>3, <2>4 DEF LoopbackNext, NoLoopPacket, allVars
<1> QED BY <1>1, <1>2 DEF LoopbackInv

LEMMA LoopbackInvInit == LoopbackInit => LoopbackInv
<1> SUFFICES ASSUME LoopbackInit PROVE LoopbackInv
  OBVIOUS
<1>1. IInv
  BY InitInv DEF LoopbackInit
<1>2. LoopType
  BY DEF LoopbackInit, LoopType
<1>3. NextIsNew /\ sent = <<>> /\ send = 0
  BY DEF LoopbackInit, Init, NextIsNew
<1> QED BY <1>1, <1>2, <1>3 DEF LoopbackInv, LoopInv

\* Over the loopback as over UDP a netchan hands on complete messages only, none
\* twice and in the order of SV_Netchan_Transmit: an overrun of the ring, too, only
\* loses messages.
THEOREM LoopbackImplementsChannel == LoopbackSpec => DeliversInOrder
<1>1. LoopbackInit => Channel!Init
  BY DEF LoopbackInit, Init, Channel!Init
<1>2. LoopbackInv /\ [LoopbackNext]_allVars => [Channel!Next]_(Channel!vars)
  BY LoopStepIsNext, RefinementStep DEF LoopbackInv
<1>3. LoopbackSpec => []LoopbackInv
  BY LoopbackInvInit, LoopbackInvInductive, PTL DEF LoopbackSpec
<1> QED BY <1>1, <1>2, <1>3, PTL DEF LoopbackSpec, DeliversInOrder, Channel!Spec

\* Whenever the ring is empty the message sent last has arrived, for every size of
\* fragments and messages and every ring that holds one message.
THEOREM LatestAlwaysArrives == LoopbackSpec => []LatestArrives
<1>1. LoopbackInv => LatestArrives
  <2> SUFFICES ASSUME LoopbackInv, transport = "loopback", FirstReadable = send,
                      ~unsentFragments
               PROVE  incomingSequence = Len(sent)
    BY DEF LatestArrives
  <2>1. LoopInv /\ IInv /\ get \in Nat /\ send \in Nat /\ get <= send
    BY DEF LoopbackInv, LoopInv, LoopType
  <2>2. get = send
    BY <2>1, Sizes DEF FirstReadable
  <2>3. CASE sent = <<>>
    <3>1. incomingSequence \in Nat /\ incomingSequence <= Len(sent) /\ Len(sent) = 0
      BY <2>1, <2>3 DEF IInv, TypeOK, ReceiverInv
    <3> QED BY <3>1
  <2>4. CASE sent # <<>>
    <3>1. PICK b \in 0..(send - 1) : BeginsAt(b)
      BY <2>1, <2>4 DEF LoopInv
    <3> QED BY <2>1, <2>2, <3>1 DEF BeginsAt, ReadUpToGet
  <2> QED BY <2>3, <2>4
<1>2. LoopbackSpec => []LoopbackInv
  BY LoopbackInvInit, LoopbackInvInductive, PTL DEF LoopbackSpec
<1> QED BY <1>1, <1>2, PTL
==============================================================================
