----------------------------- MODULE DownloadProofs -----------------------------
(* Proofs about the downloads of Session: for windows of every size, files of   *)
(* every length and whatever is lost, the server's window holds what may have   *)
(* to be sent again, and the client writes the file unless it takes a block of  *)
(* the file before for one of this one; until it accepts a wrong file, which    *)
(* has the checksum of another.                                                 *)
EXTENDS Session, TLAPS, SequenceTheorems

-----------------------------------------------------------------------------
(* The invariant.                                                             *)

Messages == [block : Nat, sized : BOOLEAN, refused : BOOLEAN, data : Blocks, num : Nat]
Commands == [cmd : {"nextdl", "download", "stopdl"}, arg : Nat]

\* What a message says of its number is what is left of it.
Numbered(m) ==
  /\ m.data.file \in Files
  /\ m.block = m.num % BlockMod
  /\ m.sized <=> m.num = 0

Fields ==
  /\ server \in Server /\ client \in Client
  /\ Len(net) <= MaxBlocks /\ stale \subseteq Blocks /\ again \in BOOLEAN

Typed ==
  /\ Fields
  /\ net \in Seq(Messages) /\ cmds \in Seq(Commands)
  /\ \A i \in 1..Len(net) : Numbered(net[i])

\* The ring has the last Window blocks that were read, each in its slot.
Holds(s) ==
  \A b \in 0..(s.currentBlock - 1) :
    /\ s.slots[b % Window].file = s.name
    /\ b + Window >= s.currentBlock => s.slots[b % Window] = Block(s.name, b)

\* A file that is open, before blocks are read ahead.
Readable(s) ==
  /\ s.open /\ s.name \in Files \ Refused
  /\ s.clientBlock <= s.currentBlock /\ s.clientBlock <= Size[s.name]
  /\ s.currentBlock <= s.clientBlock + Window /\ s.currentBlock <= Size[s.name] + 1
  /\ s.xmitBlock <= s.currentBlock
  /\ Holds(s)

\* After that a window has been read, or the file to its end.
ReadOn(s) == s.currentBlock >= Window \/ s.currentBlock = Size[s.name] + 1

\* When a file is closed the counter is that of its last block.
Opens ==
  /\ server.open => Readable(server) /\ ReadOn(server)
  /\ ~server.open /\ ~server.dropped => Ends(server.slots[server.clientBlock % Window])

\* The client has written one block for each it counts, and never the wrong one
\* without a trace; no file is followed by itself.
Writes ==
  /\ client.file # None =>
       /\ Len(client.data) = client.block
       /\ stale = {} <=> \A i \in 1..client.block : client.data[i] = Block(client.file, i - 1)
       /\ stale = {} => client.block <= Size[client.file]
  /\ client.file = None => stale = {}
  /\ client.state \in {"downloading", "refused"} => client.file # None
  /\ client.state = "done" => client.file = None
  /\ client.todo # <<>> => client.file # Head(client.todo)
  /\ \A i \in 1..(Len(client.todo) - 1) : client.todo[i] # client.todo[i + 1]

\* The blocks taken for others, and what follows from them.
Mistakes ==
  /\ stale # {} =>
       /\ \E b \in stale : b.idx % BlockMod = 0
       /\ \A b \in stale : Size[b.file] + 1 - b.idx <= Window
  /\ server.dropped => stale # {}

\* The client has finished file p, and a of its acknowledgements of p are under
\* way; until they have arrived the server sends blocks of p.
Finishing(p, a) ==
  /\ IF a = 0 THEN ~server.open /\ server.name = None
     ELSE /\ p # None /\ server.open /\ server.name = p
          /\ server.clientBlock = Size[p] + 1 - a
          /\ server.currentBlock = Size[p] + 1 /\ Size[p] < server.xmitBlock + Window
  /\ \A i \in 1..a : cmds[i] = NextDl(Size[p] - a + i)
  /\ ~server.dropped

\* The client has asked for its file, and may have acknowledged blocks of p that
\* it took for those of this one.
Asking(p) ==
  \E a \in 0..Len(cmds) :
    /\ Finishing(p, a)
    /\ Len(cmds) = a + 1 + client.block
    /\ cmds[a + 1] = BeginDl(client.file)
    /\ \A i \in 1..client.block : cmds[a + 1 + i] = NextDl(i - 1)

\* The server has been asked for the file: it sends it, has yet to begin, or has
\* done with it because the file is refused or a wrong block acknowledged.
Sending ==
  /\ server.open /\ server.name = client.file /\ ~server.dropped
  /\ server.clientBlock = client.block - Len(cmds)
  /\ client.block <= server.xmitBlock + Window /\ client.block <= server.clientBlock + Window
  /\ client.block <= server.currentBlock \/ server.currentBlock = Size[client.file] + 1
Beginning ==
  ~server.open /\ server.name = client.file /\ Len(cmds) = client.block /\ ~server.dropped
Over ==
  /\ ~server.open /\ server.name = None
  /\ stale = {} => client.block = 0
Serving ==
  /\ Len(cmds) <= client.block
  /\ \A i \in 1..Len(cmds) : cmds[i] = NextDl(client.block - Len(cmds) + i - 1)
  /\ Sending \/ Beginning \/ Over

\* The client has all its files.
Ending(p) ==
  \E a \in 0..Len(cmds) :
    Finishing(p, a) /\ \A i \in (a + 1)..Len(cmds) : cmds[i] = StopDl

Asks == \E i \in 1..Len(cmds) : cmds[i].cmd = "download"

\* p is the file before the one the client is at, or None.
Phase(p) ==
  /\ client.file # p \/ p = None
  /\ IF client.file = None THEN Ending(p) ELSE IF Asks THEN Asking(p) ELSE Serving

Own(m) == m.data.file = client.file

\* A block of the file the client is at. One that was acknowledged before it was
\* sent may have lost its slot.
Present(m) ==
  /\ client.block <= m.num + Window /\ m.num < client.block + Window
  /\ m.num <= Size[client.file]
  /\ m.num >= client.block \/ m.num + Window > Size[client.file]
       => m.data = Block(client.file, m.num)
  /\ m.refused => m.num = 0
  /\ server.open /\ server.name = client.file =>
       m.num < server.currentBlock /\ m.num < server.xmitBlock + Window

\* A block of the file before: of its last window.
Past(p, m) ==
  /\ p # None /\ m.data = Block(p, m.num)
  /\ Size[p] < m.num + Window /\ m.num <= Size[p]

\* The server has yet to begin with the client's file.
Starts == client.file # None /\ (Asks \/ (server.name = client.file /\ ~server.open))

Passing(p) ==
  /\ \A i \in 1..Len(net) : IF Own(net[i]) THEN Present(net[i]) ELSE Past(p, net[i])
  /\ \A i, k \in 1..Len(net) : i < k /\ Own(net[i]) => Own(net[k]) /\ net[i].num < net[k].num + Window
  /\ Starts => \A i \in 1..Len(net) : ~Own(net[i])
  /\ client.file # None /\ server.name = None /\ ~Asks /\ stale = {} =>
       \A i \in 1..Len(net) : Own(net[i]) => net[i].refused

\* The blocks of p that were taken for the first of this file are successive ones
\* in the last window, from one with a number that is 0 in 16 bits on.
Overlap(p) ==
  /\ client.file # None /\ client.block > 0
  /\ Starts \/ \E i \in 1..Len(net) : ~Own(net[i])
  => /\ stale # {} /\ p # None
     /\ \E base \in 0..Size[p] :
          base % BlockMod = 0 /\ base + client.block <= Size[p] + 1 /\ Size[p] < base + Window

\* As long as nothing was sent again, what is under way is new to the client.
Once ==
  ~again =>
    /\ stale = {} /\ client.state # "failed"
    /\ \A i \in 1..Len(net) : Own(net[i]) /\ net[i].num >= client.block
    /\ \A i, k \in 1..Len(net) : i < k => net[i].num < net[k].num
    /\ server.open =>
         IF server.name = client.file
         THEN /\ client.block <= server.xmitBlock
              /\ \A i \in 1..Len(net) : net[i].num < server.xmitBlock
         ELSE server.xmitBlock = server.currentBlock

Steady == Typed /\ Opens /\ Writes /\ Mistakes /\ Once
Following(p) == Phase(p) /\ Passing(p) /\ Overlap(p)

\* A client that has accepted a wrong file may acknowledge whatever comes; then only
\* what no step can undo is known.
AsksForFiles(c) == \A i \in 1..Len(c) : c[i].cmd = "download" => c[i].arg \in Files
Astray ==
  /\ Fields /\ net \in Seq(Messages) /\ cmds \in Seq(Commands) /\ AsksForFiles(cmds)
  /\ client.state = "downloading" => client.file # None
  /\ again /\ \E b \in stale : b.idx % BlockMod = 0 /\ LastWindow(b)
  /\ spoiled # {} /\ spoiled \subseteq Files

Intact == spoiled = {} /\ Steady /\ \E p \in Files \union {None} : Following(p)
IInv == Intact \/ Astray

-----------------------------------------------------------------------------
(* Numbers and sequences.                                                     *)

LEMMA Limits ==
  /\ Window \in Nat /\ Window > 0 /\ BlockMod \in Nat /\ BlockMod > Window
  /\ MaxBlocks \in Nat /\ MaxBlocks > 0 /\ MaxCommands \in Nat
BY DownloadAssumption

LEMMA Lengths ==
  /\ None \notin Files
  /\ \A f \in Files : Size[f] \in Nat
BY DownloadAssumption DEF Files, None

LEMMA SlotNumber ==
  ASSUME NEW b \in Nat
  PROVE  b % Window \in 0..(Window - 1)
BY Limits

\* Two numbers with the same remainder are the same or at least the divisor apart.
LEMMA Multiple ==
  ASSUME NEW d \in Nat, d > 0, NEW q \in Int
  PROVE  q * d <= 0 \/ q * d >= d
<1>1. CASE q <= 0
  BY <1>1, SMTT(20)
<1>2. CASE q >= 1
  BY <1>2, SMTT(20)
<1> QED BY <1>1, <1>2

LEMMA SameRemainder ==
  ASSUME NEW d \in Nat, d > 0, NEW i \in Nat, NEW k \in Nat, i < k, i % d = k % d
  PROVE  i + d <= k
<1>1. i = d * (i \div d) + (i % d) /\ i \div d \in Int /\ i % d \in 0..(d - 1)
  OBVIOUS
<1>2. k = d * (k \div d) + (k % d) /\ k \div d \in Int /\ k % d \in 0..(d - 1)
  OBVIOUS
<1> DEFINE a == i \div d
           b == k \div d
           r == i % d
<1>3. i = d * a + r /\ k = d * b + r /\ a \in Int /\ b \in Int /\ r \in Int
  BY <1>1, <1>2
<1> HIDE DEF a, b, r
<1>4. k - i = (b - a) * d /\ b - a \in Int
  BY <1>3, SMTT(20)
<1>5. (b - a) * d <= 0 \/ (b - a) * d >= d
  BY <1>4, Multiple
<1> QED BY <1>4, <1>5

\* The number that is meant by its 16 bits.
LEMMA MeantBlock ==
  ASSUME NEW i \in Nat, NEW k \in Nat, i % BlockMod = k % BlockMod,
         i <= k + Window, k <= i + Window
  PROVE  i = k
<1>1. CASE i < k
  <2>1. i + BlockMod <= k
    BY <1>1, Limits, SameRemainder
  <2> QED BY <2>1, Limits
<1>2. CASE k < i
  <2>1. k % BlockMod = i % BlockMod /\ BlockMod > 0
    BY Limits
  <2>2. k + BlockMod <= i
    BY <1>2, <2>1, Limits, SameRemainder
  <2> QED BY <2>2, Limits
<1> QED BY <1>1, <1>2

\* A multiple of BlockMod in the first window is 0.
LEMMA FirstBlock ==
  ASSUME NEW i \in Nat, i % BlockMod = 0, i <= Window
  PROVE  i = 0
<1>1. 0 % BlockMod = 0
  BY Limits
<1>2. i = 0 \/ (0 < i /\ 0 \in Nat)
  OBVIOUS
<1>3. CASE 0 < i
  <2>1. 0 + BlockMod <= i
    BY <1>1, <1>3, Limits, SameRemainder
  <2> QED BY <2>1, Limits
<1> QED BY <1>2, <1>3

LEMMA WholeTurns ==
  ASSUME NEW d \in Nat, d > 0, NEW i \in Nat, NEW k \in Nat, i % d = 0
  PROVE  (i + k) % d = k % d
<1> DEFINE x == i \div d
           y == k \div d
           r == k % d
<1>1. i = d * x /\ k = d * y + r /\ x \in Int /\ y \in Int /\ r \in 0..(d - 1)
  OBVIOUS
<1> HIDE DEF x, y, r
<1>2. d * (x + y) = d * x + d * y
  BY <1>1, SMTT(20)
<1> DEFINE z == x + y
<1>3. i + k = d * z + r /\ z \in Int
  BY <1>1, <1>2
<1> HIDE DEF z
<1>4. (d * z + r) % d = r
  BY <1>1, <1>3, SMTT(30)
<1> QED BY <1>3, <1>4 DEF r

LEMMA Dropped ==
  ASSUME NEW M, NEW s \in Seq(M), NEW d \in 0..Len(s)
  PROVE  /\ SubSeq(s, d + 1, Len(s)) \in Seq(M)
         /\ Len(SubSeq(s, d + 1, Len(s))) = Len(s) - d
         /\ \A k \in 1..(Len(s) - d) : SubSeq(s, d + 1, Len(s))[k] = s[k + d]
<1>1. CASE d = Len(s)
  <2>1. SubSeq(s, d + 1, Len(s)) = << >>
    BY <1>1, SubSeqProperties
  <2> QED BY <1>1, <2>1
<1>2. CASE d < Len(s)
  BY <1>2, SubSeqProperties
<1> QED BY <1>1, <1>2

LEMMA TailOf ==
  ASSUME NEW M, NEW s \in Seq(M), s # << >>
  PROVE  /\ Tail(s) \in Seq(M) /\ Len(Tail(s)) = Len(s) - 1 /\ Len(s) > 0
         /\ \A k \in 1..(Len(s) - 1) : Tail(s)[k] = s[k + 1]
         /\ Head(s) = s[1] /\ Head(s) \in M
OBVIOUS

LEMMA AppendOf ==
  ASSUME NEW M, NEW s \in Seq(M), NEW e \in M
  PROVE  /\ Append(s, e) \in Seq(M) /\ Len(Append(s, e)) = Len(s) + 1
         /\ \A k \in 1..Len(s) : Append(s, e)[k] = s[k]
         /\ Append(s, e)[Len(s) + 1] = e
OBVIOUS

\* What is under way after m was sent: what there was, without its first message
\* or with it, and m.
LEMMA SentBlock ==
  ASSUME NEW m \in Messages, net \in Seq(Messages), Len(net) <= MaxBlocks
  PROVE  /\ Sent(m) \in Seq(Messages) /\ Len(Sent(m)) <= MaxBlocks
         /\ \E d \in 0..Len(net) :
              /\ Len(Sent(m)) = Len(net) - d + 1
              /\ \A k \in 1..(Len(net) - d) : Sent(m)[k] = net[k + d]
              /\ Sent(m)[Len(net) - d + 1] = m
<1>1. CASE Len(net) = MaxBlocks
  <2>1. net # << >>
    BY <1>1, Limits
  <2>2. Sent(m) = Append(Tail(net), m)
    BY <1>1 DEF Sent
  <2>3. /\ Tail(net) \in Seq(Messages) /\ Len(Tail(net)) = Len(net) - 1 /\ Len(net) > 0
        /\ \A k \in 1..(Len(net) - 1) : Tail(net)[k] = net[k + 1]
    BY <2>1, TailOf
  <2>4. /\ Append(Tail(net), m) \in Seq(Messages)
        /\ Len(Append(Tail(net), m)) = Len(Tail(net)) + 1
        /\ \A k \in 1..Len(Tail(net)) : Append(Tail(net), m)[k] = Tail(net)[k]
        /\ Append(Tail(net), m)[Len(Tail(net)) + 1] = m
    BY <2>3, AppendOf
  <2>5. 1 \in 0..Len(net) /\ Len(net) \in Nat
    BY <2>3
  <2>6. \A k \in 1..(Len(net) - 1) : Append(Tail(net), m)[k] = net[k + 1]
    BY <2>3, <2>4
  <2> QED BY <1>1, <2>2, <2>3, <2>4, <2>5, <2>6
<1>2. CASE Len(net) # MaxBlocks
  <2>1. Sent(m) = Append(net, m)
    BY <1>2 DEF Sent
  <2>2. /\ Append(net, m) \in Seq(Messages) /\ Len(Append(net, m)) = Len(net) + 1
        /\ \A k \in 1..Len(net) : Append(net, m)[k] = net[k]
        /\ Append(net, m)[Len(net) + 1] = m
    BY AppendOf
  <2>3. 0 \in 0..Len(net) /\ Len(net) \in Nat /\ Len(net) + 1 <= MaxBlocks
    BY <1>2, Limits
  <2>4. \A k \in 1..Len(net) : Append(net, m)[k] = net[k + 0]
    BY <2>2
  <2> QED BY <2>1, <2>2, <2>3, <2>4
<1> QED BY <1>1, <1>2

-----------------------------------------------------------------------------
(* Types.                                                                     *)

LEMMA ServerFields ==
  ASSUME NEW s \in Server
  PROVE  /\ s.name \in Files \union {None} /\ s.open \in BOOLEAN
         /\ s.clientBlock \in Nat /\ s.currentBlock \in Nat /\ s.xmitBlock \in Nat
         /\ s.slots \in [0..(Window - 1) -> Blocks] /\ s.late \in BOOLEAN /\ s.dropped \in BOOLEAN
BY DEF Server

LEMMA ClientFields ==
  ASSUME NEW c \in Client
  PROVE  /\ c.file \in Files \union {None} /\ c.todo \in Seq(Files) /\ c.block \in Nat
         /\ c.data \in Seq(Blocks) /\ c.state \in {"downloading", "done", "refused", "failed"}
BY DEF Client

LEMMA MessageFields ==
  ASSUME NEW m \in Messages
  PROVE  /\ m.block \in Nat /\ m.sized \in BOOLEAN /\ m.refused \in BOOLEAN
         /\ m.data \in Blocks /\ m.num \in Nat
BY DEF Messages

LEMMA BlockFields ==
  /\ \A b \in Blocks : b.file \in Files \union {None} /\ b.idx \in Nat
  /\ \A f, i : Block(f, i).file = f /\ Block(f, i).idx = i
  /\ \A f \in Files \union {None} : \A i \in Nat : Block(f, i) \in Blocks
BY DEF Blocks, Block

LEMMA CommandFields ==
  /\ \A n : NextDl(n).cmd = "nextdl" /\ NextDl(n).arg = n
  /\ \A f : BeginDl(f).cmd = "download" /\ BeginDl(f).arg = f
  /\ StopDl.cmd = "stopdl"
  /\ \A n \in Nat : NextDl(n) \in Commands
  /\ \A f \in Files : BeginDl(f) \in Commands
  /\ StopDl \in Commands
BY Lengths, DownloadAssumption DEF NextDl, BeginDl, StopDl, Commands, Files

-----------------------------------------------------------------------------
(* The server's window.                                                       *)

\* The slot of a block of the window.
LEMMA InWindow ==
  ASSUME NEW s \in Server, Readable(s), NEW b \in Nat,
         b < s.currentBlock, s.currentBlock <= b + Window
  PROVE  s.slots[b % Window] = Block(s.name, b)
<1>1. s.currentBlock \in Nat
  BY ServerFields
<1>2. b \in 0..(s.currentBlock - 1)
  BY <1>1
<1> QED BY <1>2 DEF Readable, Holds

\* Of the numbers in an interval with one remainder there is a last one.
LEMMA Latest ==
  ASSUME NEW first \in Nat, NEW end \in Nat, NEW i \in 0..(Window - 1),
         NEW b \in first..(end - 1), b % Window = i
  PROVE  \E m \in first..(end - 1) :
           m % Window = i /\ \A d \in first..(end - 1) : d % Window = i => d <= m
<1> DEFINE n == end - 1
           a == n \div Window
           r == n % Window
<1>2. n \in Nat
  OBVIOUS
<1>3. n = Window * a + r /\ a \in Int /\ r \in 0..(Window - 1) /\ Window \in Nat /\ Window > 0
  BY <1>2, Limits
<1> HIDE DEF n, a, r
<1> DEFINE k == IF i <= r THEN a ELSE a - 1
           m == Window * k + i
<1>4. k \in Int /\ m \in Int /\ m <= n /\ n < m + Window
  <2>1. CASE i <= r
    BY <1>2, <1>3, <2>1
  <2>2. CASE i > r
    <3>1. Window * (a - 1) = Window * a - Window
      BY <1>3, SMTT(20)
    <3> QED BY <1>2, <1>3, <2>2, <3>1
  <2> QED BY <2>1, <2>2, <1>3
<1>5. \A d \in first..(end - 1) : d \in Nat /\ first <= d /\ d <= n
  BY <1>2 DEF n
<1>6. ASSUME NEW d \in first..(end - 1), d % Window = i PROVE d <= m
  <2> DEFINE q == d \div Window
  <2>1. d = Window * q + i /\ q \in Int /\ d \in Nat /\ d <= n
    BY <1>3, <1>5, <1>6
  <2> HIDE DEF q, k
  <2>2. d - m = (q - k) * Window /\ q - k \in Int
    BY <2>1, <1>3, <1>4, SMTT(20)
  <2>3. (q - k) * Window <= 0 \/ (q - k) * Window >= Window
    BY <2>2, <1>3, Multiple
  <2> HIDE DEF m
  <2> QED BY <2>1, <2>2, <2>3, <1>2, <1>3, <1>4
<1> HIDE DEF k
<1>7. m % Window = i
  BY <1>3, <1>4, SMTT(30)
<1> HIDE DEF m
<1>8. m \in first..(end - 1)
  <2>1. first <= m
    BY <1>4, <1>5, <1>6
  <2> QED BY <2>1, <1>4 DEF n
<1> QED BY <1>6, <1>7, <1>8

\* Whatever has been acknowledged, reading ahead keeps the types.
LEMMA ReadAheadType ==
  ASSUME NEW s \in Server, s.name \in Files
  PROVE  ReadAhead(s) \in Server
<1> DEFINE end == IF s.clientBlock + Window < Size[s.name] + 1
                  THEN s.clientBlock + Window ELSE Size[s.name] + 1
           new == s.currentBlock..(end - 1)
           here(i) == {b \in new : b % Window = i}
           slots == [i \in 0..(Window - 1) |->
                       IF here(i) = {} THEN s.slots[i]
                       ELSE Block(s.name, CHOOSE b \in here(i) : \A c \in here(i) : c <= b)]
<1>1. /\ s.clientBlock \in Nat /\ s.currentBlock \in Nat /\ Size[s.name] \in Nat
      /\ s.slots \in [0..(Window - 1) -> Blocks]
  BY ServerFields, Lengths
<1>2. end \in Nat
  BY <1>1, Limits
<1> HIDE DEF end
<1>3. slots \in [0..(Window - 1) -> Blocks]
  <2> SUFFICES ASSUME NEW i \in 0..(Window - 1)
               PROVE  (IF here(i) = {} THEN s.slots[i]
                       ELSE Block(s.name, CHOOSE b \in here(i) : \A c \in here(i) : c <= b)) \in Blocks
    OBVIOUS
  <2>1. CASE here(i) = {}
    BY <2>1, <1>1
  <2>2. CASE here(i) # {}
    <3>1. (CHOOSE b \in here(i) : \A c \in here(i) : c <= b) \in here(i)
      <4> DEFINE S == here(i)
      <4>1. \E m \in S : \A d \in S : d <= m
        <5>1. PICK b \in new : b % Window = i
          BY <2>2
        <5>2. PICK m \in new : m % Window = i /\ \A d \in new : d % Window = i => d <= m
          BY <5>1, <1>1, <1>2, Latest
        <5> QED BY <5>2
      <4> HIDE DEF S
      <4>2. (CHOOSE b \in S : \A c \in S : c <= b) \in S
        BY <4>1
      <4> QED BY <4>2 DEF S
    <3>2. (CHOOSE b \in here(i) : \A c \in here(i) : c <= b) \in Nat
      BY <3>1, <1>1, <1>2
    <3> HIDE DEF here
    <3> QED BY <2>2, <3>2, BlockFields
  <2> QED BY <2>1, <2>2
<1>4. ReadAhead(s) = [s EXCEPT !.currentBlock = end, !.slots = slots]
  BY DEF ReadAhead, end
<1> HIDE DEF slots, new
<1> QED BY <1>2, <1>3, <1>4, Zenon DEF Server

\* Reading ahead keeps the window and fills it.
LEMMA ReadAheadOf ==
  ASSUME NEW s \in Server, Readable(s)
  PROVE  LET r == ReadAhead(s) IN
         /\ r \in Server
         /\ r.name = s.name /\ r.open = s.open /\ r.clientBlock = s.clientBlock
         /\ r.xmitBlock = s.xmitBlock /\ r.dropped = s.dropped /\ r.late = s.late
         /\ s.currentBlock <= r.currentBlock /\ r.clientBlock < r.currentBlock
         /\ Readable(r) /\ ReadOn(r)
<1> DEFINE end == IF s.clientBlock + Window < Size[s.name] + 1
                  THEN s.clientBlock + Window ELSE Size[s.name] + 1
           new == s.currentBlock..(end - 1)
           here(i) == {b \in new : b % Window = i}
           slots == [i \in 0..(Window - 1) |->
                       IF here(i) = {} THEN s.slots[i]
                       ELSE Block(s.name, CHOOSE b \in here(i) : \A c \in here(i) : c <= b)]
<1>1. /\ s.name \in Files \union {None} /\ s.clientBlock \in Nat /\ s.currentBlock \in Nat
      /\ s.slots \in [0..(Window - 1) -> Blocks] /\ s.xmitBlock \in Nat
  BY ServerFields
<1>2. /\ s.name \in Files \ Refused /\ s.clientBlock <= s.currentBlock
      /\ s.clientBlock <= Size[s.name] /\ s.currentBlock <= s.clientBlock + Window
      /\ s.currentBlock <= Size[s.name] + 1 /\ s.xmitBlock <= s.currentBlock /\ s.open
      /\ Holds(s)
  BY DEF Readable
<1>3. Size[s.name] \in Nat /\ s.name \in Files \union {None}
  BY <1>2, Lengths
<1>4. end \in Nat /\ s.currentBlock <= end /\ end <= s.clientBlock + Window /\ end <= Size[s.name] + 1
  BY <1>1, <1>2, <1>3, Limits
<1>5. (end >= Window \/ end = Size[s.name] + 1) /\ s.clientBlock < end
  BY <1>1, <1>2, <1>3, Limits
<1> HIDE DEF end
<1>6. \A b \in new : b \in Nat
  BY <1>1, <1>4
<1>7. slots \in [0..(Window - 1) -> Blocks]
  <2> SUFFICES ASSUME NEW i \in 0..(Window - 1)
               PROVE  (IF here(i) = {} THEN s.slots[i]
                       ELSE Block(s.name, CHOOSE b \in here(i) : \A c \in here(i) : c <= b)) \in Blocks
    OBVIOUS
  <2>1. CASE here(i) = {}
    BY <2>1, <1>1
  <2>2. CASE here(i) # {}
    <3>1. (CHOOSE b \in here(i) : \A c \in here(i) : c <= b) \in here(i)
      <4> DEFINE S == here(i)
      <4>1. \E m \in S : \A d \in S : d <= m
        <5>1. PICK b \in new : b % Window = i
          BY <2>2
        <5>2. PICK m \in new : m % Window = i /\ \A d \in new : d % Window = i => d <= m
          BY <5>1, <1>1, <1>4, Latest
        <5> QED BY <5>2
      <4> HIDE DEF S
      <4>2. (CHOOSE b \in S : \A c \in S : c <= b) \in S
        BY <4>1
      <4> QED BY <4>2 DEF S
    <3>2. (CHOOSE b \in here(i) : \A c \in here(i) : c <= b) \in Nat
      BY <3>1, <1>6
    <3> HIDE DEF here
    <3> QED BY <2>2, <3>2, <1>3, BlockFields
  <2> QED BY <2>1, <2>2
<1>8. \A b \in new : slots[b % Window] = Block(s.name, b)
  <2> SUFFICES ASSUME NEW b \in new
               PROVE  slots[b % Window] = Block(s.name, b)
    OBVIOUS
  <2>1. b \in Nat /\ b % Window \in 0..(Window - 1)
    BY <1>6, SlotNumber
  <2>2. b \in here(b % Window)
    OBVIOUS
  <2> DEFINE c == CHOOSE x \in here(b % Window) : \A y \in here(b % Window) : y <= x
  <2>3. c \in here(b % Window)
    <3> DEFINE S == here(b % Window)
    <3>1. S # {}
      BY <2>2
    <3>2. \E m \in S : \A d \in S : d <= m
      <4>1. PICK m \in new : m % Window = b % Window /\ \A d \in new : d % Window = b % Window => d <= m
        BY <2>1, <1>1, <1>4, Latest
      <4> QED BY <4>1
    <3> HIDE DEF S
    <3>3. (CHOOSE x \in S : \A y \in S : y <= x) \in S
      BY <3>2
    <3> QED BY <3>3 DEF S
  <2>4. c \in Nat /\ c \in new /\ c % Window = b % Window
    BY <2>3, <1>6
  <2> HIDE DEF c
  <2>5. c < b + Window /\ b < c + Window
    <3>1. s.currentBlock <= c /\ c <= end - 1 /\ s.currentBlock <= b /\ b <= end - 1
      BY <2>4, <1>1, <1>4
    <3>2. s.clientBlock <= s.currentBlock /\ end <= s.clientBlock + Window
      BY <1>2, <1>4
    <3> QED BY <3>1, <3>2, <2>1, <2>4, <1>1, <1>4, Limits
  <2>6. ~(b < c)
    <3>1. ASSUME b < c PROVE FALSE
      <4>1. b + Window <= c
        BY <3>1, <2>1, <2>4, Limits, SameRemainder
      <4> QED BY <4>1, <2>5, <2>1, <2>4, Limits
    <3> QED BY <3>1
  <2>7. ~(c < b)
    <3>1. ASSUME c < b PROVE FALSE
      <4>1. c + Window <= b
        BY <3>1, <2>1, <2>4, Limits, SameRemainder
      <4> QED BY <4>1, <2>5, <2>1, <2>4, Limits
    <3> QED BY <3>1
  <2>8. c = b
    BY <2>1, <2>4, <2>6, <2>7
  <2>9. slots[b % Window] = Block(s.name, c)
    BY <2>1, <2>2 DEF c
  <2> QED BY <2>8, <2>9
<1>9. \A i \in 0..(Window - 1) : slots[i] = s.slots[i] \/ \E b \in new : b % Window = i /\ slots[i] = Block(s.name, b)
  <2> SUFFICES ASSUME NEW i \in 0..(Window - 1)
               PROVE  slots[i] = s.slots[i] \/ \E b \in new : b % Window = i /\ slots[i] = Block(s.name, b)
    OBVIOUS
  <2>1. CASE here(i) = {}
    BY <2>1
  <2>2. CASE here(i) # {}
    <3>1. PICK b \in here(i) : TRUE
      BY <2>2
    <3>2. b \in new /\ b % Window = i
      BY <3>1
    <3> QED BY <3>2, <1>8
  <2> QED BY <2>1, <2>2
<1> DEFINE r == [s EXCEPT !.currentBlock = end, !.slots = slots]
<1>10. ReadAhead(s) = r
  BY DEF ReadAhead, end
<1> HIDE DEF slots, new
<1>11. r \in Server
  BY <1>4, <1>7, Zenon DEF Server
<1>12. /\ r.name = s.name /\ r.open = s.open /\ r.clientBlock = s.clientBlock
       /\ r.xmitBlock = s.xmitBlock /\ r.dropped = s.dropped /\ r.late = s.late
       /\ r.currentBlock = end /\ r.slots = slots
  BY DEF Server
<1> HIDE DEF r
<1>13. \A b \in 0..(end - 1) :
         /\ slots[b % Window].file = s.name
         /\ b + Window >= end => slots[b % Window] = Block(s.name, b)
  <2> SUFFICES ASSUME NEW b \in 0..(end - 1)
               PROVE  /\ slots[b % Window].file = s.name
                      /\ b + Window >= end => slots[b % Window] = Block(s.name, b)
    OBVIOUS
  <2>1. b \in Nat /\ b % Window \in 0..(Window - 1) /\ b < end
    BY <1>4, SlotNumber
  <2>2. CASE b >= s.currentBlock
    <3>1. b \in new
      BY <2>1, <2>2, <1>1, <1>4 DEF new
    <3>2. slots[b % Window] = Block(s.name, b)
      BY <3>1, <1>8
    <3> QED BY <3>2, BlockFields
  <2>3. CASE b < s.currentBlock
    <3>1. b \in 0..(s.currentBlock - 1)
      BY <2>1, <2>3, <1>1
    <3>2. /\ s.slots[b % Window].file = s.name
          /\ b + Window >= s.currentBlock => s.slots[b % Window] = Block(s.name, b)
      BY <3>1, <1>2 DEF Holds
    <3>3. CASE slots[b % Window] = s.slots[b % Window]
      <4>1. b + Window >= end => b + Window >= s.currentBlock
        BY <2>1, <1>1, <1>4, Limits
      <4> QED BY <3>2, <3>3, <4>1
    <3>4. ASSUME NEW c \in new, c % Window = b % Window, slots[b % Window] = Block(s.name, c)
          PROVE  /\ slots[b % Window].file = s.name
                 /\ ~(b + Window >= end)
      <4>1. c \in Nat /\ s.currentBlock <= c /\ c < end
        BY <1>1, <1>4 DEF new
      <4>2. b + Window <= c
        <5>1. b \in Nat /\ c \in Nat /\ b < c /\ b % Window = c % Window
          BY <3>4, <4>1, <2>1, <2>3, <1>1
        <5>2. Window \in Nat /\ Window > 0
          BY Limits
        <5> QED BY <5>1, <5>2, SameRemainder
      <4>3. ~(b + Window >= end)
        BY <4>1, <4>2, <2>1, <1>4, Limits
      <4> QED BY <3>4, <4>3, BlockFields
    <3> QED BY <3>3, <3>4, <1>9, <2>1
  <2> QED BY <2>1, <2>2, <2>3, <1>1
<1>14. Holds(r)
  BY <1>12, <1>13 DEF Holds
<1>15. Readable(r) /\ ReadOn(r)
  BY <1>1, <1>2, <1>4, <1>5, <1>12, <1>14, <1>3 DEF Readable, ReadOn
<1> QED BY <1>10, <1>11, <1>12, <1>15, <1>4, <1>5

-----------------------------------------------------------------------------
(* What arrives and is not taken.                                             *)

LEMMA Known ==
  ASSUME Typed
  PROVE  /\ server \in Server /\ client \in Client /\ net \in Seq(Messages)
         /\ cmds \in Seq(Commands) /\ Len(net) \in Nat /\ Len(cmds) \in Nat
         /\ client.file \in Files \union {None} /\ client.block \in Nat
         /\ server.name \in Files \union {None} /\ server.open \in BOOLEAN
         /\ server.clientBlock \in Nat /\ server.currentBlock \in Nat /\ server.xmitBlock \in Nat
         /\ server.slots \in [0..(Window - 1) -> Blocks]
         /\ \A i \in 1..Len(net) : net[i] \in Messages /\ net[i].num \in Nat /\ Numbered(net[i])
<1>1. /\ server \in Server /\ client \in Client /\ net \in Seq(Messages) /\ cmds \in Seq(Commands)
      /\ \A i \in 1..Len(net) : Numbered(net[i])
  BY DEF Typed, Fields
<1>2. Len(net) \in Nat /\ Len(cmds) \in Nat /\ \A i \in 1..Len(net) : net[i] \in Messages
  BY <1>1
<1>3. \A i \in 1..Len(net) : net[i].num \in Nat
  BY <1>2, MessageFields
<1> QED BY <1>1, <1>2, <1>3, ServerFields, ClientFields

\* The messages behind the one at d are left; the client acknowledges block n;
\* it writes b.
Behind(d) == net' = SubSeq(net, d + 1, Len(net))
Acknowledges(n) == cmds' = Append(cmds, NextDl(n))
TakesIn(b) ==
  /\ client' \in Client /\ client'.file = client.file /\ client'.todo = client.todo
  /\ client'.block = client.block + 1 /\ client'.data = Append(client.data, b)
  /\ client'.state \in {"downloading", "failed"}

LEMMA Rest ==
  ASSUME Typed, NEW d \in 0..Len(net), Behind(d)
  PROVE  /\ net' \in Seq(Messages) /\ Len(net') = Len(net) - d /\ Len(net') <= MaxBlocks
         /\ \A k \in 1..Len(net') : k + d \in 1..Len(net) /\ k + d > d /\ net'[k] = net[k + d]
         /\ \A k \in 1..Len(net') : Numbered(net'[k])
<1>1. net \in Seq(Messages) /\ Len(net) \in Nat /\ Len(net) <= MaxBlocks
  BY Known DEF Typed, Fields
<1>2. /\ net' \in Seq(Messages) /\ Len(net') = Len(net) - d
      /\ \A k \in 1..(Len(net) - d) : net'[k] = net[k + d]
  BY <1>1, Dropped DEF Behind
<1>3. Len(net') <= MaxBlocks
  BY <1>1, <1>2, Limits
<1>4. \A k \in 1..Len(net') : k + d \in 1..Len(net) /\ k + d > d /\ net'[k] = net[k + d]
  BY <1>1, <1>2
<1>5. \A k \in 1..Len(net') : Numbered(net'[k])
  <2>1. \A i \in 1..Len(net) : Numbered(net[i])
    BY Known
  <2> QED BY <2>1, <1>4
<1> QED BY <1>2, <1>3, <1>4, <1>5

\* A message may be lost, and the client may give up after one, without harm; or
\* tell the server that it wants no download when it has its files.
Stops == client.file = None /\ cmds' = Append(cmds, StopDl)

LEMMA Stopped ==
  ASSUME Typed, Stops
  PROVE  /\ cmds' \in Seq(Commands) /\ Len(cmds') = Len(cmds) + 1
         /\ \A k \in 1..Len(cmds) : cmds'[k] = cmds[k]
         /\ cmds'[Len(cmds) + 1] = StopDl
BY Known, CommandFields, AppendOf DEF Stops

LEMMA Skipped ==
  ASSUME NEW p \in Files \union {None}, Steady, Following(p),
         NEW d \in 0..Len(net), Behind(d),
         UNCHANGED <<server, again, stale>>, cmds' = cmds \/ Stops,
         client' \in Client, client'.file = client.file, client'.todo = client.todo,
         client'.block = client.block, client'.data = client.data,
         \/ client'.state = client.state
         \/ client'.state = "refused" /\ client.file # None
         \/ client'.state = "failed" /\ again
  PROVE  Steady' /\ Following(p)'
<1>1. /\ net' \in Seq(Messages) /\ Len(net') = Len(net) - d /\ Len(net') <= MaxBlocks
      /\ \A k \in 1..Len(net') : k + d \in 1..Len(net) /\ k + d > d /\ net'[k] = net[k + d]
      /\ \A k \in 1..Len(net') : Numbered(net'[k])
  BY Rest DEF Steady
<1>2. Len(net) \in Nat /\ Len(net') \in Nat
  BY <1>1, Known DEF Steady
<1>3. Typed'
  <2>1. cmds' \in Seq(Commands) /\ Fields
    BY Stopped DEF Steady, Typed
  <2> QED BY <1>1, <2>1 DEF Fields, Typed
<1>4. Opens'
  BY DEF Steady, Opens, Readable, ReadOn, Holds
<1>5. Writes'
  BY DEF Steady, Writes
<1>6. Mistakes'
  BY DEF Steady, Mistakes
<1>7. \A i \in 1..Len(net') : Own(net[i])' <=> Own(net[i + d])
  BY <1>1 DEF Own
<1>8. Once'
  <2>1. CASE again
    BY <2>1 DEF Once
  <2>2. CASE ~again
    <3>1. /\ stale = {} /\ client.state # "failed"
          /\ \A i \in 1..Len(net) : Own(net[i]) /\ net[i].num >= client.block
          /\ \A i, k \in 1..Len(net) : i < k => net[i].num < net[k].num
          /\ server.open =>
               IF server.name = client.file
               THEN /\ client.block <= server.xmitBlock
                    /\ \A i \in 1..Len(net) : net[i].num < server.xmitBlock
               ELSE server.xmitBlock = server.currentBlock
      BY <2>2 DEF Steady, Once
    <3>2. \A i \in 1..Len(net') : Own(net[i])' /\ net'[i].num >= client.block
      BY <3>1, <1>1, <1>7
    <3>3. ASSUME NEW i \in 1..Len(net'), NEW k \in 1..Len(net'), i < k
          PROVE  net'[i].num < net'[k].num
      <4>1. i + d \in 1..Len(net) /\ k + d \in 1..Len(net) /\ i + d < k + d
        BY <3>3, <1>1, <1>2
      <4>2. net[i + d].num < net[k + d].num
        BY <3>1, <4>1
      <4> QED BY <4>2, <1>1
    <3>4. server.open =>
               IF server.name = client.file
               THEN /\ client.block <= server.xmitBlock
                    /\ \A i \in 1..Len(net') : net'[i].num < server.xmitBlock
               ELSE server.xmitBlock = server.currentBlock
      BY <3>1, <1>1
    <3>5. client'.state # "failed"
      BY <2>2, <3>1
    <3> QED BY <3>1, <3>2, <3>3, <3>4, <3>5 DEF Once
  <2> QED BY <2>1, <2>2
<1>9. Phase(p)'
  <2>1. Phase(p)
    BY DEF Following
  <2>2. CASE cmds' = cmds
    BY <2>1, <2>2 DEF Phase, Ending, Asks, Asking, Serving, Sending, Beginning, Over, Finishing
  <2>3. CASE Stops
    <3>1. /\ Len(cmds') = Len(cmds) + 1 /\ Len(cmds) \in Nat
          /\ \A k \in 1..Len(cmds) : cmds'[k] = cmds[k]
          /\ cmds'[Len(cmds) + 1] = StopDl
      BY <2>3, Stopped, Known DEF Steady
    <3>2. client.file = None
      BY <2>3 DEF Stops
    <3>3. PICK a \in 0..Len(cmds) : Finishing(p, a) /\ \A i \in (a + 1)..Len(cmds) : cmds[i] = StopDl
      BY <2>1, <3>2 DEF Phase, Ending
    <3>4. a \in 0..Len(cmds') /\ \A i \in 1..a : i \in 1..Len(cmds)
      BY <3>1, <3>3
    <3>5. Finishing(p, a)'
      BY <3>1, <3>3, <3>4 DEF Finishing
    <3>6. \A i \in (a + 1)..Len(cmds') : cmds'[i] = StopDl
      <4>1. \A i \in (a + 1)..(Len(cmds) + 1) : i = Len(cmds) + 1 \/ (i \in (a + 1)..Len(cmds) /\ i \in 1..Len(cmds))
        BY <3>1, <3>3
      <4> QED BY <4>1, <3>1, <3>3
    <3>7. Ending(p)'
      BY <3>4, <3>5, <3>6 DEF Ending
    <3> QED BY <2>1, <3>2, <3>7 DEF Phase
  <2> QED BY <2>2, <2>3
<1>10. client.file # None => (Starts' <=> Starts) /\ (Asks' <=> Asks)
  BY DEF Starts, Asks, Stops
<1>11. Passing(p)'
  <2>1. \A i \in 1..Len(net) : Present(net[i]) => \A k \in 1..Len(net') : k + d = i => Present(net[k])'
    BY <1>1 DEF Present
  <2>2. \A i \in 1..Len(net') : IF Own(net[i])' THEN Present(net[i])' ELSE Past(p, net'[i])
    <3>1. \A i \in 1..Len(net) : IF Own(net[i]) THEN Present(net[i]) ELSE Past(p, net[i])
      BY DEF Following, Passing
    <3> QED BY <3>1, <2>1, <1>1, <1>7
  <2>3. ASSUME NEW i \in 1..Len(net'), NEW k \in 1..Len(net'), i < k, Own(net[i])'
        PROVE  Own(net[k])' /\ net'[i].num < net'[k].num + Window
    <3>1. \A j, l \in 1..Len(net) : j < l /\ Own(net[j]) => Own(net[l]) /\ net[j].num < net[l].num + Window
      BY DEF Following, Passing
    <3>2. i + d \in 1..Len(net) /\ k + d \in 1..Len(net) /\ i + d < k + d
      BY <2>3, <1>1, <1>2
    <3>3. Own(net[i + d])
      BY <2>3, <1>7
    <3>4. Own(net[k + d]) /\ net[i + d].num < net[k + d].num + Window
      BY <3>1, <3>2, <3>3
    <3> QED BY <3>4, <1>1, <1>7
  <2>4. Starts' => \A i \in 1..Len(net') : ~Own(net[i])'
    <3>1. Starts' => client.file # None
      BY DEF Starts
    <3> QED BY <3>1, <1>1, <1>7, <1>10 DEF Following, Passing
  <2>5. client'.file # None /\ server'.name = None /\ ~Asks' /\ stale' = {} =>
          \A i \in 1..Len(net') : Own(net[i])' => net'[i].refused
    <3> QED BY <1>10, <1>1, <1>7 DEF Following, Passing
  <2> QED BY <2>2, <2>3, <2>4, <2>5 DEF Passing, Past
<1>12. Overlap(p)'
  <2>1. (\E i \in 1..Len(net') : ~Own(net[i])') => \E i \in 1..Len(net) : ~Own(net[i])
    BY <1>1, <1>7
  <2> QED BY <2>1, <1>10 DEF Following, Overlap
<1> QED BY <1>3, <1>4, <1>5, <1>6, <1>8, <1>9, <1>11, <1>12 DEF Steady, Following

-----------------------------------------------------------------------------
(* A block of the client's file is taken.                                     *)

\* Where a block of the client's file is under way, the server is at it, or has
\* done with it.
LEMMA Served ==
  ASSUME NEW p \in Files \union {None}, Steady, Following(p),
         NEW i \in 1..Len(net), Own(net[i]), ~net[i].refused
  PROVE  /\ client.file \in Files /\ Size[client.file] \in Nat
         /\ ~Starts /\ ~Asks /\ Serving /\ Present(net[i])
         /\ Sending \/ (Over /\ stale # {})
<1>1. client.file \in Files
  BY Known DEF Own, Numbered, Steady
<1>2. client.file # None /\ Size[client.file] \in Nat
  BY <1>1, Lengths
<1>3. ~Starts /\ Present(net[i])
  BY DEF Following, Passing
<1>4. ~Asks
  BY <1>2, <1>3 DEF Starts
<1>5. Serving
  BY <1>2, <1>4 DEF Following, Phase
<1>6. ~Beginning
  BY <1>2, <1>3 DEF Starts, Beginning
<1>7. Over => stale # {}
  BY <1>2, <1>4 DEF Following, Passing, Over
<1> QED BY <1>1, <1>2, <1>3, <1>4, <1>5, <1>6, <1>7 DEF Serving

LEMMA OwnTaken ==
  ASSUME NEW p \in Files \union {None}, Steady, Following(p),
         NEW d \in 1..Len(net), Behind(d),
         UNCHANGED <<server, again, stale>>,
         Own(net[d]), ~net[d].refused, net[d].num = client.block,
         TakesIn(Block(client.file, client.block)), client'.state = "failed" => stale # {},
         client.block < Size[client.file] \/ stale # {},
         Acknowledges(client.block)
  PROVE  Steady' /\ Following(p)'
<1>0. /\ client' \in Client /\ client'.file = client.file /\ client'.todo = client.todo
      /\ client'.block = client.block + 1 /\ client'.state \in {"downloading", "failed"}
  BY DEF TakesIn
<1> USE <1>0
<1>1. /\ net' \in Seq(Messages) /\ Len(net') = Len(net) - d /\ Len(net') <= MaxBlocks
      /\ \A k \in 1..Len(net') : k + d \in 1..Len(net) /\ k + d > d /\ net'[k] = net[k + d]
      /\ \A k \in 1..Len(net') : Numbered(net'[k])
  <2>1. d \in 0..Len(net)
    OBVIOUS
  <2> QED BY <2>1, Rest DEF Steady
<1>2. /\ Len(net) \in Nat /\ Len(net') \in Nat /\ cmds \in Seq(Commands) /\ Len(cmds) \in Nat
      /\ client.block \in Nat /\ net[d].num \in Nat /\ client \in Client /\ server \in Server
      /\ server.clientBlock \in Nat /\ server.currentBlock \in Nat /\ server.xmitBlock \in Nat
  BY <1>1, Known DEF Steady
<1>3. /\ client.file \in Files /\ client.file # None /\ Size[client.file] \in Nat
      /\ ~Starts /\ ~Asks /\ Serving /\ Present(net[d])
      /\ Sending \/ (Over /\ stale # {})
  BY Served, Lengths
<1>4. /\ cmds' \in Seq(Commands) /\ Len(cmds') = Len(cmds) + 1
      /\ \A k \in 1..Len(cmds) : cmds'[k] = cmds[k]
      /\ cmds'[Len(cmds) + 1] = NextDl(client.block)
  <2>1. NextDl(client.block) \in Commands
    BY <1>2, CommandFields
  <2> QED BY <1>2, <2>1, AppendOf DEF Acknowledges
<1>5. Typed'
  <2>1. Fields
    BY DEF Steady, Typed
  <2> QED BY <1>1, <1>4, <2>1 DEF Fields, Typed
<1>6. Opens'
  BY DEF Steady, Opens, Readable, ReadOn, Holds
<1>7. Writes'
  <2>1. /\ Len(client.data) = client.block /\ client.data \in Seq(Blocks)
        /\ stale = {} <=> \A i \in 1..client.block : client.data[i] = Block(client.file, i - 1)
        /\ stale = {} => client.block <= Size[client.file]
        /\ client.todo # <<>> => client.file # Head(client.todo)
        /\ \A i \in 1..(Len(client.todo) - 1) : client.todo[i] # client.todo[i + 1]
    BY <1>2, <1>3, ClientFields DEF Steady, Writes
  <2>2. Block(client.file, client.block) \in Blocks
    BY <1>2, <1>3, BlockFields
  <2>3. /\ Len(client'.data) = client'.block
        /\ \A i \in 1..client.block : client'.data[i] = client.data[i]
        /\ client'.data[client.block + 1] = Block(client.file, client.block)
    BY <2>1, <2>2, AppendOf DEF TakesIn
  <2>4. stale = {} <=> \A i \in 1..client'.block : client'.data[i] = Block(client.file, i - 1)
    <3>1. \A i \in 1..(client.block + 1) : i \in 1..client.block \/ i = client.block + 1
      BY <1>2
    <3>2. \A i \in 1..client.block : i \in 1..(client.block + 1)
      BY <1>2
    <3>3. client.block + 1 - 1 = client.block
      BY <1>2
    <3>4. (\A i \in 1..client'.block : client'.data[i] = Block(client.file, i - 1))
            <=> \A i \in 1..client.block : client.data[i] = Block(client.file, i - 1)
      <4>1. ASSUME \A i \in 1..client'.block : client'.data[i] = Block(client.file, i - 1),
                   NEW i \in 1..client.block
            PROVE  client.data[i] = Block(client.file, i - 1)
        BY <4>1, <2>3, <3>2
      <4>2. ASSUME \A i \in 1..client.block : client.data[i] = Block(client.file, i - 1),
                   NEW i \in 1..client'.block
            PROVE  client'.data[i] = Block(client.file, i - 1)
        <5>1. i \in 1..(client.block + 1)
          BY <4>2
        <5>2. CASE i \in 1..client.block
          BY <4>2, <5>2, <2>3
        <5>3. CASE i = client.block + 1
          <6>1. i - 1 = client.block
            BY <5>3, <1>2
          <6> QED BY <6>1, <5>3, <2>3
        <5> QED BY <5>1, <5>2, <5>3, <3>1
      <4> QED BY <4>1, <4>2
    <3> QED BY <2>1, <3>4
  <2>5. stale = {} => client'.block <= Size[client.file]
    BY <1>2, <1>3
  <2> QED BY <1>3, <2>1, <2>3, <2>4, <2>5 DEF Writes
<1>8. Mistakes'
  BY DEF Steady, Mistakes
<1>9. ASSUME NEW i \in 1..Len(net')
      PROVE  Own(net[i])' /\ net'[i].num \in Nat /\ client.block + 1 <= net'[i].num + Window
  <2>1. \A j, k \in 1..Len(net) : j < k /\ Own(net[j]) => Own(net[k]) /\ net[j].num < net[k].num + Window
    BY DEF Following, Passing
  <2>2. i + d \in 1..Len(net) /\ d < i + d /\ net'[i] = net[i + d]
    BY <1>1
  <2>3. net[i + d].num \in Nat
    BY <2>2, Known DEF Steady
  <2>4. Own(net[i + d]) /\ net[d].num < net[i + d].num + Window
    BY <2>1, <2>2
  <2>5. Own(net[i])'
    BY <2>2, <2>4 DEF Own
  <2>6. client.block + 1 <= net[i + d].num + Window
    <3>1. net[i + d].num \in Nat /\ client.block \in Nat /\ Window \in Nat
      BY <2>3, <1>2, Limits
    <3>2. client.block < net[i + d].num + Window
      BY <2>4
    <3> QED BY <3>1, <3>2
  <2> QED BY <2>2, <2>3, <2>5, <2>6
<1>10. Once'
  <2>1. CASE again
    BY <2>1 DEF Once
  <2>2. CASE ~again
    <3>1. /\ stale = {}
          /\ \A i, k \in 1..Len(net) : i < k => net[i].num < net[k].num
          /\ server.open =>
               IF server.name = client.file
               THEN /\ client.block <= server.xmitBlock
                    /\ \A i \in 1..Len(net) : net[i].num < server.xmitBlock
               ELSE server.xmitBlock = server.currentBlock
      BY <2>2 DEF Steady, Once
    <3>2. ASSUME NEW i \in 1..Len(net')
          PROVE  net'[i].num >= client'.block
      <4>1. i + d \in 1..Len(net) /\ d < i + d /\ net'[i] = net[i + d]
        BY <1>1
      <4>2. net[d].num < net[i + d].num
        BY <3>1, <4>1
      <4>3. net'[i].num \in Nat /\ client.block < net'[i].num
        BY <4>1, <4>2, <1>9
      <4> QED BY <4>3, <1>2
    <3>3. ASSUME NEW i \in 1..Len(net'), NEW k \in 1..Len(net'), i < k
          PROVE  net'[i].num < net'[k].num
      <4>1. i + d \in 1..Len(net) /\ k + d \in 1..Len(net) /\ i + d < k + d
        BY <3>3, <1>1, <1>2
      <4>2. net[i + d].num < net[k + d].num
        BY <3>1, <4>1
      <4> QED BY <4>2, <1>1
    <3>4. server.open =>
               IF server.name = client.file
               THEN /\ client.block + 1 <= server.xmitBlock
                    /\ \A i \in 1..Len(net') : net'[i].num < server.xmitBlock
               ELSE server.xmitBlock = server.currentBlock
      <4>1. client.block < server.xmitBlock => client.block + 1 <= server.xmitBlock
        BY <1>2
      <4> QED BY <3>1, <4>1, <1>1
    <3> QED BY <3>1, <3>2, <3>3, <3>4, <1>9 DEF Once
  <2> QED BY <2>1, <2>2
<1>11. ~Asks'
  <2>1. \A i \in 1..Len(cmds') : i \in 1..Len(cmds) \/ i = Len(cmds) + 1
    BY <1>2, <1>4
  <2> QED BY <2>1, <1>3, <1>4, CommandFields DEF Asks
<1>12. ~Starts'
  BY <1>3, <1>11 DEF Starts
<1>13. Phase(p)'
  <2>1. Len(cmds) <= client.block /\ \A i \in 1..Len(cmds) : cmds[i] = NextDl(client.block - Len(cmds) + i - 1)
    BY <1>3 DEF Serving
  <2>2. Len(cmds') <= client'.block
    BY <2>1, <1>2, <1>4
  <2>3. ASSUME NEW i \in 1..Len(cmds')
        PROVE  cmds'[i] = NextDl(client'.block - Len(cmds') + i - 1)
    <3>1. client'.block - Len(cmds') + i - 1 = client.block - Len(cmds) + i - 1
      <4>1. i \in Nat /\ client'.block = client.block + 1 /\ Len(cmds') = Len(cmds) + 1
        BY <1>2, <1>4
      <4>2. client.block \in Nat /\ Len(cmds) \in Nat
        BY <1>2
      <4> QED BY <4>1, <4>2
    <3>2. CASE i \in 1..Len(cmds)
      BY <3>1, <3>2, <2>1, <1>4
    <3>3. CASE i = Len(cmds) + 1
      <4>1. client.block - Len(cmds) + i - 1 = client.block
        BY <3>3, <1>2
      <4> QED BY <3>1, <3>3, <4>1, <1>4
    <3> QED BY <3>2, <3>3, <1>2, <1>4
  <2>4. (Sending \/ Over)'
    <3>1. CASE Sending
      <4>1. /\ server.open /\ server.name = client.file /\ ~server.dropped
            /\ server.clientBlock = client.block - Len(cmds)
        BY <3>1 DEF Sending
      <4>2. client.block < server.currentBlock /\ client.block < server.xmitBlock + Window
        BY <4>1, <1>3 DEF Present
      <4>3. server.currentBlock <= server.clientBlock + Window
        BY <4>1 DEF Steady, Opens, Readable
      <4>4. server.clientBlock = client'.block - Len(cmds')
        BY <4>1, <1>2, <1>4
      <4>5. /\ client'.block <= server.xmitBlock + Window /\ client'.block <= server.clientBlock + Window
            /\ client'.block <= server.currentBlock
        BY SMTT(30), <4>2, <4>3, <1>2, Limits
      <4> QED BY <4>1, <4>4, <4>5 DEF Sending
    <3>2. CASE Over /\ stale # {}
      BY <3>2 DEF Over
    <3> QED BY <1>3, <3>1, <3>2
  <2>5. Serving'
    BY <2>2, <2>3, <2>4 DEF Serving
  <2>6. client.file # p \/ p = None
    BY DEF Following, Phase
  <2> QED BY <2>5, <2>6, <1>3, <1>11 DEF Phase
<1>14. Passing(p)'
  <2>1. ASSUME NEW k \in 1..Len(net')
        PROVE  Present(net[k])'
    <3>1. k + d \in 1..Len(net) /\ Own(net[k + d]) /\ net'[k] = net[k + d]
      BY <1>1, <1>9 DEF Own
    <3>2. Present(net[k + d])
      BY <3>1 DEF Following, Passing
    <3>3. net'[k].num \in Nat /\ client.block + 1 <= net'[k].num + Window
      BY <1>9
    <3>4. net'[k].num < client.block + Window => net'[k].num < client.block + 1 + Window
      <4>1. net'[k].num \in Nat /\ client.block \in Nat /\ Window \in Nat
        BY <3>3, <1>2, Limits
      <4> QED BY <4>1
    <3>5. net'[k].num >= client.block + 1 => net'[k].num >= client.block
      BY <3>3, <1>2
    <3> QED BY <3>1, <3>2, <3>3, <3>4, <3>5 DEF Present
  <2>2. ASSUME NEW i \in 1..Len(net'), NEW k \in 1..Len(net'), i < k
        PROVE  net'[i].num < net'[k].num + Window
    <3>1. \A m, n \in 1..Len(net) : m < n /\ Own(net[m]) => net[m].num < net[n].num + Window
      BY DEF Following, Passing
    <3>2. i + d \in 1..Len(net) /\ k + d \in 1..Len(net) /\ i + d < k + d
      BY <2>2, <1>1, <1>2
    <3>3. Own(net[i + d])
      BY <1>1, <1>9 DEF Own
    <3>4. net[i + d].num < net[k + d].num + Window
      BY <3>1, <3>2, <3>3
    <3> QED BY <3>4, <1>1
  <2>3. ~(client'.file # None /\ server'.name = None /\ ~Asks' /\ stale' = {})
    BY <1>3 DEF Sending
  <2> QED BY <2>1, <2>2, <2>3, <1>9, <1>12 DEF Passing
<1>15. Overlap(p)'
  BY <1>9, <1>12 DEF Overlap
<1> QED BY <1>5, <1>6, <1>7, <1>8, <1>10, <1>13, <1>14, <1>15 DEF Steady, Following

-----------------------------------------------------------------------------
(* A block of the file before is taken for one of the client's file.          *)

\* It is the one that follows those that were taken for others already.
LEMMA PastNumber ==
  ASSUME NEW p \in Files \union {None}, Steady, Following(p),
         NEW d \in 1..Len(net), client.file # None, ~Own(net[d]),
         net[d].num % BlockMod = client.block % BlockMod
  PROVE  /\ p \in Files /\ Size[p] \in Nat /\ Past(p, net[d]) /\ again
         /\ client.block > 0 => stale # {}
         /\ \E base \in 0..Size[p] :
              /\ base % BlockMod = 0 /\ Size[p] < base + Window
              /\ net[d].num = base + client.block /\ base + client.block <= Size[p]
<1>1. Past(p, net[d])
  BY DEF Following, Passing
<1>2. p # None /\ p \in Files /\ Size[p] \in Nat
  BY <1>1, Lengths DEF Past
<1>3. again
  BY DEF Steady, Once
<1>4. client.block \in Nat /\ net[d].num \in Nat
  BY Known DEF Steady
<1>5. Size[p] < net[d].num + Window /\ net[d].num <= Size[p]
  BY <1>1 DEF Past
<1>6. CASE client.block = 0
  <2>1. 0 % BlockMod = 0
    BY Limits
  <2>2. net[d].num % BlockMod = 0 /\ net[d].num \in 0..Size[p] /\ net[d].num = net[d].num + client.block
    BY <2>1, <1>2, <1>4, <1>5, <1>6
  <2> QED BY <2>2, <1>1, <1>2, <1>3, <1>5, <1>6
<1>7. CASE client.block > 0
  <2>1. PICK base \in 0..Size[p] :
          base % BlockMod = 0 /\ base + client.block <= Size[p] + 1 /\ Size[p] < base + Window
    BY <1>7 DEF Following, Overlap
  <2>2. stale # {}
    BY <1>7 DEF Following, Overlap
  <2>3. base \in Nat /\ base + client.block \in Nat
    BY <2>1, <1>2, <1>4
  <2>4. (base + client.block) % BlockMod = client.block % BlockMod
    <3>1. base \in Nat /\ client.block \in Nat /\ base % BlockMod = 0 /\ BlockMod \in Nat /\ BlockMod > 0
      BY <2>1, <2>3, <1>4, Limits
    <3> QED BY <3>1, WholeTurns
  <2>5. net[d].num = base + client.block
    <3>1. net[d].num <= base + client.block + Window /\ base + client.block <= net[d].num + Window
      <4>1. /\ net[d].num \in Nat /\ Size[p] \in Nat /\ base \in Nat /\ client.block \in Nat
            /\ Window \in Nat /\ net[d].num <= Size[p] /\ Size[p] < net[d].num + Window
            /\ base + client.block <= Size[p] + 1 /\ Size[p] < base + Window
        BY <2>1, <2>3, <1>2, <1>4, <1>5, Limits
      <4> QED BY SMTT(30), <4>1
    <3> QED BY <3>1, <2>3, <2>4, <1>4, MeantBlock
  <2> QED BY <2>1, <2>2, <2>5, <1>1, <1>2, <1>3, <1>5
<1> QED BY <1>4, <1>6, <1>7

LEMMA Acknowledged ==
  ASSUME Typed, Acknowledges(client.block)
  PROVE  /\ cmds' \in Seq(Commands) /\ Len(cmds') = Len(cmds) + 1
         /\ \A k \in 1..Len(cmds) : cmds'[k] = cmds[k]
         /\ cmds'[Len(cmds) + 1] = NextDl(client.block)
         /\ Asks' <=> Asks
<1>1. cmds \in Seq(Commands) /\ Len(cmds) \in Nat /\ NextDl(client.block) \in Commands
  BY Known, CommandFields
<1>2. /\ cmds' \in Seq(Commands) /\ Len(cmds') = Len(cmds) + 1
      /\ \A k \in 1..Len(cmds) : cmds'[k] = cmds[k]
      /\ cmds'[Len(cmds) + 1] = NextDl(client.block)
  BY <1>1, AppendOf DEF Acknowledges
<1>3. \A i \in 1..(Len(cmds) + 1) : i \in 1..Len(cmds) \/ i = Len(cmds) + 1
  BY <1>1
<1>4. \A i \in 1..Len(cmds) : i \in 1..(Len(cmds) + 1)
  BY <1>1
<1>5. Asks' <=> Asks
  BY <1>2, <1>3, <1>4, CommandFields DEF Asks
<1> QED BY <1>2, <1>5

LEMMA PastTaken ==
  ASSUME NEW p \in Files \union {None}, Steady, Following(p),
         NEW d \in 1..Len(net), Behind(d), UNCHANGED <<server, again>>,
         client.file # None, ~Own(net[d]), net[d].num % BlockMod = client.block % BlockMod,
         NEW b \in Blocks, b # Block(client.file, client.block), TakesIn(b),
         stale' = stale \union {net[d].data},
         Acknowledges(client.block)
  PROVE  Steady' /\ Following(p)'
<1>0. /\ client' \in Client /\ client'.file = client.file /\ client'.todo = client.todo
      /\ client'.block = client.block + 1 /\ client'.state \in {"downloading", "failed"}
  BY DEF TakesIn
<1> USE <1>0
<1>1. /\ net' \in Seq(Messages) /\ Len(net') = Len(net) - d /\ Len(net') <= MaxBlocks
      /\ \A k \in 1..Len(net') : k + d \in 1..Len(net) /\ k + d > d /\ net'[k] = net[k + d]
      /\ \A k \in 1..Len(net') : Numbered(net'[k])
  <2>1. d \in 0..Len(net)
    OBVIOUS
  <2> QED BY <2>1, Rest DEF Steady
<1>2. /\ Len(net) \in Nat /\ Len(net') \in Nat /\ cmds \in Seq(Commands) /\ Len(cmds) \in Nat
      /\ client.block \in Nat /\ net[d] \in Messages /\ net[d].num \in Nat
      /\ client \in Client /\ server \in Server
      /\ server.clientBlock \in Nat /\ server.currentBlock \in Nat /\ server.xmitBlock \in Nat
  BY <1>1, Known DEF Steady
<1>3. /\ p \in Files /\ Size[p] \in Nat /\ Past(p, net[d]) /\ again
      /\ client.block > 0 => stale # {}
  BY PastNumber
<1>4. PICK base \in 0..Size[p] :
        /\ base % BlockMod = 0 /\ Size[p] < base + Window
        /\ net[d].num = base + client.block /\ base + client.block <= Size[p]
  BY PastNumber
<1>5. base \in Nat /\ client.block + 1 <= Window /\ base + (client.block + 1) <= Size[p] + 1
  <2>1. base \in Nat /\ client.block \in Nat /\ Size[p] \in Nat /\ Window \in Nat
    BY <1>2, <1>3, <1>4, Limits
  <2> QED BY <2>1, <1>4
<1>6. net[d].data = Block(p, net[d].num) /\ stale' # {}
  BY <1>3 DEF Past
<1>7. client.file \in Files /\ Size[client.file] \in Nat
  BY Known, Lengths DEF Steady
<1>8. /\ cmds' \in Seq(Commands) /\ Len(cmds') = Len(cmds) + 1
      /\ \A k \in 1..Len(cmds) : cmds'[k] = cmds[k]
      /\ cmds'[Len(cmds) + 1] = NextDl(client.block)
      /\ Asks' <=> Asks
  BY Acknowledged DEF Steady
<1>9. Typed'
  <2>1. Fields
    BY DEF Steady, Typed
  <2>2. net[d].data \in Blocks
    BY <1>2, MessageFields
  <2> QED BY <1>1, <1>8, <2>1, <2>2 DEF Fields, Typed
<1>10. Opens'
  BY DEF Steady, Opens, Readable, ReadOn, Holds
<1>11. Writes'
  <2>1. /\ Len(client.data) = client.block /\ client.data \in Seq(Blocks)
        /\ client.todo # <<>> => client.file # Head(client.todo)
        /\ \A i \in 1..(Len(client.todo) - 1) : client.todo[i] # client.todo[i + 1]
    BY <1>2, ClientFields DEF Steady, Writes
  <2>2. Len(client'.data) = client'.block /\ client'.data[client.block + 1] = b
    BY <2>1, AppendOf DEF TakesIn
  <2>3. client.block + 1 \in 1..client'.block /\ client.block + 1 - 1 = client.block
    BY <1>2
  <2>4. ~(\A i \in 1..client'.block : client'.data[i] = Block(client.file, i - 1))
    <3>1. ASSUME \A i \in 1..client'.block : client'.data[i] = Block(client.file, i - 1)
          PROVE  FALSE
      <4> DEFINE k == client.block + 1
      <4>1. k \in 1..client'.block /\ k - 1 = client.block
        BY <1>2
      <4>2. client'.data[k] = b
        BY <2>2
      <4> HIDE DEF k
      <4>3. client'.data[k] = Block(client.file, k - 1)
        BY <3>1, <4>1
      <4> QED BY <4>1, <4>2, <4>3
    <3> QED BY <3>1
  <2> QED BY <2>1, <2>2, <2>4, <1>6 DEF Writes
<1>12. Mistakes'
  <2>1. \E c \in stale' : c.idx % BlockMod = 0
    <3>1. CASE client.block = 0
      <4>1. net[d].data.idx = net[d].num /\ net[d].num = base
        BY <3>1, <1>4, <1>5, <1>6, BlockFields
      <4> QED BY <4>1, <1>4
    <3>2. CASE client.block > 0
      BY <3>2, <1>3 DEF Steady, Mistakes
    <3> QED BY <3>1, <3>2, <1>2
  <2>2. \A c \in stale' : Size[c.file] + 1 - c.idx <= Window
    <3>1. Size[net[d].data.file] + 1 - net[d].data.idx <= Window
      <4>1. net[d].data.file = p /\ net[d].data.idx = net[d].num
        BY <1>6, BlockFields
      <4>2. Size[p] + 1 - net[d].num <= Window
        <5>1. Size[p] \in Nat /\ net[d].num \in Nat /\ Window \in Nat /\ Size[p] < net[d].num + Window
          BY <1>2, <1>3, Limits DEF Past
        <5> QED BY <5>1
      <4> QED BY <4>1, <4>2
    <3> QED BY <3>1 DEF Steady, Mistakes
  <2> QED BY <2>1, <2>2, <1>6 DEF Mistakes
<1>13. Once'
  BY <1>3 DEF Once
<1>14. Phase(p)'
  <2>1. client.file # p \/ p = None
    BY DEF Following, Phase
  <2>2. CASE Asks
    <3>1. Asking(p)
      BY <2>2 DEF Following, Phase
    <3>2. PICK a \in 0..Len(cmds) :
            /\ Finishing(p, a) /\ Len(cmds) = a + 1 + client.block
            /\ cmds[a + 1] = BeginDl(client.file)
            /\ \A i \in 1..client.block : cmds[a + 1 + i] = NextDl(i - 1)
      BY <3>1 DEF Asking
    <3>3. a \in Nat /\ a \in 0..Len(cmds') /\ a + 1 \in 1..Len(cmds) /\ Len(cmds') = a + 1 + client'.block
      BY SMTT(30), <3>2, <1>2, <1>8
    <3>4. Finishing(p, a)'
      <4>1. \A i \in 1..a : i \in 1..Len(cmds)
        BY <1>2, <3>2
      <4> QED BY <4>1, <3>2, <1>8 DEF Finishing
    <3>5. cmds'[a + 1] = BeginDl(client'.file)
      BY <3>2, <3>3, <1>8
    <3>6. \A i \in 1..client'.block : cmds'[a + 1 + i] = NextDl(i - 1)
      <4> SUFFICES ASSUME NEW i \in 1..(client.block + 1)
                   PROVE  cmds'[a + 1 + i] = NextDl(i - 1)
        OBVIOUS
      <4>1. CASE i \in 1..client.block
        <5>1. a + 1 + i \in 1..Len(cmds)
          BY SMTT(30), <4>1, <3>2, <3>3, <1>2
        <5> QED BY <4>1, <5>1, <3>2, <1>8
      <4>2. CASE i = client.block + 1
        <5>1. a + 1 + i = Len(cmds) + 1 /\ i - 1 = client.block
          <6> DEFINE had == client.block
                     last == Len(cmds)
          <6>1. i = had + 1 /\ had \in Nat /\ a \in Nat /\ last = a + 1 + had
            BY SMTT(30), <4>2, <3>2, <3>3, <1>2
          <6> HIDE DEF had, last
          <6>2. a + 1 + i = last + 1 /\ i - 1 = had
            BY SMTT(30), <6>1
          <6> QED BY <6>2 DEF had, last
        <5> QED BY <5>1, <1>8
      <4> QED BY <4>1, <4>2, <1>2
    <3>7. Asking(p)'
      BY <3>3, <3>4, <3>5, <3>6 DEF Asking
    <3> QED BY <2>1, <2>2, <3>7, <1>8 DEF Phase
  <2>3. CASE ~Asks
    <3>1. Serving
      BY <2>3 DEF Following, Phase
    <3>2. Len(cmds) <= client.block /\ \A i \in 1..Len(cmds) : cmds[i] = NextDl(client.block - Len(cmds) + i - 1)
      BY <3>1 DEF Serving
    <3>3. Len(cmds') <= client'.block
      BY <3>2, <1>2, <1>8
    <3>4. \A i \in 1..Len(cmds') : cmds'[i] = NextDl(client'.block - Len(cmds') + i - 1)
      <4> SUFFICES ASSUME NEW i \in 1..Len(cmds')
                   PROVE  cmds'[i] = NextDl(client'.block - Len(cmds') + i - 1)
        OBVIOUS
      <4>1. client'.block - Len(cmds') + i - 1 = client.block - Len(cmds) + i - 1
        <5>1. i \in Nat /\ client'.block = client.block + 1 /\ Len(cmds') = Len(cmds) + 1
          BY <1>2, <1>8
        <5>2. client.block \in Nat /\ Len(cmds) \in Nat
          BY <1>2
        <5> QED BY <5>1, <5>2
      <4>2. CASE i \in 1..Len(cmds)
        BY <4>1, <4>2, <3>2, <1>8
      <4>3. CASE i = Len(cmds) + 1
        <5>1. client.block - Len(cmds) + i - 1 = client.block
          BY <4>3, <1>2
        <5> QED BY <4>1, <4>3, <5>1, <1>8
      <4> QED BY <4>2, <4>3, <1>2, <1>8
    <3>5. CASE Sending
      <4>1. /\ server.open /\ server.name = client.file /\ ~server.dropped
            /\ server.clientBlock = client.block - Len(cmds)
        BY <3>5 DEF Sending
      <4>2. server.currentBlock >= Window \/ server.currentBlock = Size[client.file] + 1
        BY <4>1 DEF Steady, Opens, ReadOn
      <4>3. server.clientBlock = client'.block - Len(cmds')
        BY <4>1, <1>2, <1>8
      <4>4. /\ client'.block <= server.xmitBlock + Window /\ client'.block <= server.clientBlock + Window
            /\ client'.block <= server.currentBlock \/ server.currentBlock = Size[client.file] + 1
        <5>1. /\ client.block \in Nat /\ server.xmitBlock \in Nat /\ server.clientBlock \in Nat
              /\ server.currentBlock \in Nat /\ Window \in Nat /\ client.block + 1 <= Window
          BY <1>2, <1>5, Limits
        <5>2. client'.block = client.block + 1
          OBVIOUS
        <5> QED BY <5>1, <5>2, <4>2
      <4>5. Sending'
        BY <4>1, <4>3, <4>4 DEF Sending
      <4> QED BY <2>1, <2>3, <3>3, <3>4, <4>5, <1>7, <1>8, Lengths DEF Phase, Serving
    <3>6. CASE Beginning
      <4>1. Beginning'
        BY <3>6, <1>8 DEF Beginning
      <4> QED BY <2>1, <2>3, <3>3, <3>4, <4>1, <1>7, <1>8, Lengths DEF Phase, Serving
    <3>7. CASE Over
      <4>1. Over'
        BY <3>7, <1>6 DEF Over
      <4> QED BY <2>1, <2>3, <3>3, <3>4, <4>1, <1>7, <1>8, Lengths DEF Phase, Serving
    <3> QED BY <3>1, <3>5, <3>6, <3>7 DEF Serving
  <2> QED BY <2>2, <2>3
<1>15. Starts' <=> Starts
  BY <1>8 DEF Starts
<1>16. \A i \in 1..Len(net') : Own(net[i])' <=> Own(net[i + d])
  BY <1>1 DEF Own
<1>17. Passing(p)'
  <2>1. ASSUME NEW k \in 1..Len(net')
        PROVE  IF Own(net[k])' THEN Present(net[k])' ELSE Past(p, net'[k])
    <3>1. k + d \in 1..Len(net) /\ (Own(net[k])' <=> Own(net[k + d])) /\ net'[k] = net[k + d]
      BY <1>1, <1>16
    <3>2. IF Own(net[k + d]) THEN Present(net[k + d]) ELSE Past(p, net[k + d])
      BY <3>1 DEF Following, Passing
    <3>3. ASSUME Present(net[k + d])
          PROVE  Present(net[k])'
      <4>1. net'[k].num \in Nat
        BY <3>1, Known DEF Steady
      <4>2. client.block + 1 <= net'[k].num + Window
        <5>1. /\ client.block \in Nat /\ net'[k].num \in Nat /\ Window \in Nat
              /\ client.block + 1 <= Window
          BY <4>1, <1>2, <1>5, Limits
        <5> QED BY <5>1
      <4>3. net'[k].num < client.block + Window => net'[k].num < client.block + 1 + Window
        BY SMTT(30), <4>1, <1>2, Limits
      <4>4. net'[k].num >= client.block + 1 => net'[k].num >= client.block
        BY <4>1, <1>2
      <4> QED BY <3>1, <3>3, <4>2, <4>3, <4>4 DEF Present
    <3> QED BY <3>1, <3>2, <3>3
  <2>2. ASSUME NEW i \in 1..Len(net'), NEW k \in 1..Len(net'), i < k, Own(net[i])'
        PROVE  Own(net[k])' /\ net'[i].num < net'[k].num + Window
    <3>1. \A m, n \in 1..Len(net) : m < n /\ Own(net[m]) => Own(net[n]) /\ net[m].num < net[n].num + Window
      BY DEF Following, Passing
    <3>2. i + d \in 1..Len(net) /\ k + d \in 1..Len(net) /\ i + d < k + d
      BY <2>2, <1>1, <1>2
    <3>3. Own(net[i + d])
      BY <2>2, <1>16
    <3>4. Own(net[k + d]) /\ net[i + d].num < net[k + d].num + Window
      BY <3>1, <3>2, <3>3
    <3> QED BY <3>4, <1>1, <1>16
  <2>3. Starts' => \A i \in 1..Len(net') : ~Own(net[i])'
    BY <1>1, <1>15, <1>16 DEF Following, Passing
  <2> QED BY <2>1, <2>2, <2>3, <1>6 DEF Passing, Past
<1>18. Overlap(p)'
  <2>1. base % BlockMod = 0 /\ base + client'.block <= Size[p] + 1 /\ Size[p] < base + Window
    BY <1>4, <1>5
  <2> QED BY <2>1, <1>3, <1>4, <1>6, Lengths DEF Overlap
<1> QED BY <1>9, <1>10, <1>11, <1>12, <1>13, <1>14, <1>17, <1>18 DEF Steady, Following

-----------------------------------------------------------------------------
(* The client's file is complete.                                             *)

\* The next one is asked for, or there is none.
GoesOn ==
  /\ client.todo # <<>> /\ client' \in Client
  /\ client'.file = Head(client.todo) /\ client'.todo = Tail(client.todo)
  /\ client'.block = 0 /\ client'.data = <<>> /\ client'.state = "downloading"
  /\ cmds' = Append(Append(cmds, NextDl(client.block)), BeginDl(Head(client.todo)))
HasAll ==
  /\ client.todo = <<>> /\ client' \in Client
  /\ client'.file = None /\ client'.todo = <<>> /\ client'.state = "done"
  /\ cmds' = Append(cmds, NextDl(client.block))

LEMMA NextFileOf ==
  ASSUME Typed, Writes, stale' = {}, client.file \in Files, GoesOn \/ HasAll
  PROVE  /\ client' \in Client /\ client'.file # client.file /\ Writes'
         /\ client'.state # "failed" /\ (client'.file # None => client'.block = 0)
         /\ cmds' \in Seq(Commands) /\ \A k \in 1..Len(cmds) : cmds'[k] = cmds[k]
         /\ cmds'[Len(cmds) + 1] = NextDl(client.block)
         /\ IF client'.file = None THEN Len(cmds') = Len(cmds) + 1
            ELSE /\ client'.file \in Files /\ Len(cmds') = Len(cmds) + 2
                 /\ cmds'[Len(cmds) + 2] = BeginDl(client'.file)
<1>1. /\ client.todo \in Seq(Files) /\ cmds \in Seq(Commands) /\ client.block \in Nat
      /\ Len(cmds) \in Nat /\ None \notin Files
  BY Known, ClientFields, Lengths
<1>2. NextDl(client.block) \in Commands
  BY <1>1, CommandFields
<1> DEFINE c == Append(cmds, NextDl(client.block))
<1>3. /\ c \in Seq(Commands) /\ Len(c) = Len(cmds) + 1
      /\ \A k \in 1..Len(cmds) : c[k] = cmds[k]
      /\ c[Len(cmds) + 1] = NextDl(client.block)
  BY <1>1, <1>2, AppendOf
<1> HIDE DEF c
<1>4. CASE GoesOn
  <2> DEFINE f == Head(client.todo)
             todo == Tail(client.todo)
  <2>1. /\ client.todo # <<>> /\ client' \in Client /\ client'.file = f /\ client'.todo = todo
        /\ client'.block = 0 /\ client'.data = <<>> /\ client'.state = "downloading"
        /\ cmds' = Append(c, BeginDl(f))
    BY <1>4 DEF GoesOn, c
  <2>2. /\ f = client.todo[1] /\ f \in Files /\ todo \in Seq(Files) /\ Len(todo) = Len(client.todo) - 1
        /\ Len(client.todo) > 0 /\ \A k \in 1..(Len(client.todo) - 1) : todo[k] = client.todo[k + 1]
    BY <1>1, <2>1, TailOf
  <2>3. /\ client.file # f
        /\ \A i \in 1..(Len(client.todo) - 1) : client.todo[i] # client.todo[i + 1]
    BY <2>1 DEF Writes
  <2>4. todo # <<>> => f # Head(todo)
    <3>1. ASSUME todo # <<>> PROVE f # Head(todo)
      <4>1. Head(todo) = todo[1] /\ Len(todo) > 0
        BY <2>2, <3>1, TailOf
      <4>2. 1 \in 1..(Len(client.todo) - 1)
        BY <2>2, <4>1
      <4>3. todo[1] = client.todo[2]
        BY <2>2, <4>2
      <4> QED BY <4>1, <4>2, <4>3, <2>2, <2>3
    <3> QED BY <3>1
  <2>5. \A i \in 1..(Len(todo) - 1) : todo[i] # todo[i + 1]
    <3> SUFFICES ASSUME NEW i \in 1..(Len(todo) - 1) PROVE todo[i] # todo[i + 1]
      OBVIOUS
    <3>1. /\ i \in 1..(Len(client.todo) - 1) /\ i + 1 \in 1..(Len(client.todo) - 1)
      BY <2>2
    <3>2. todo[i] = client.todo[i + 1] /\ todo[i + 1] = client.todo[i + 1 + 1]
      BY <2>2, <3>1
    <3> QED BY <2>3, <3>1, <3>2
  <2> HIDE DEF f, todo
  <2>6. BeginDl(f) \in Commands
    BY <2>2, CommandFields
  <2>7. /\ cmds' \in Seq(Commands) /\ Len(cmds') = Len(c) + 1
        /\ \A k \in 1..Len(c) : cmds'[k] = c[k]
        /\ cmds'[Len(c) + 1] = BeginDl(f)
    BY <1>3, <2>1, <2>6, AppendOf
  <2>8. /\ Len(cmds') = Len(cmds) + 2 /\ cmds'[Len(cmds) + 2] = BeginDl(f)
        /\ cmds'[Len(cmds) + 1] = NextDl(client.block)
        /\ \A k \in 1..Len(cmds) : cmds'[k] = cmds[k]
    <3>1. Len(c) = Len(cmds) + 1 /\ Len(c) + 1 = Len(cmds) + 2 /\ Len(cmds) + 1 \in 1..Len(c)
          /\ \A k \in 1..Len(cmds) : k \in 1..Len(c)
      BY <1>1, <1>3
    <3> QED BY <1>3, <2>7, <3>1
  <2>9. Writes'
    <3>1. client'.file \in Files /\ client'.file # None /\ Size[client'.file] \in Nat
      BY <1>1, <2>1, <2>2, Lengths
    <3>2. Len(client'.data) = 0
      BY <2>1
    <3> QED BY <2>1, <2>4, <2>5, <3>1, <3>2 DEF Writes
  <2> QED BY <1>1, <2>1, <2>2, <2>3, <2>7, <2>8, <2>9
<1>5. CASE HasAll
  <2>1. /\ client' \in Client /\ client'.file = None /\ client'.todo = <<>> /\ client'.state = "done"
        /\ cmds' = c
    BY <1>5 DEF HasAll, c
  <2>2. Writes'
    BY <1>1, <2>1 DEF Writes
  <2> QED BY <1>1, <1>3, <2>1, <2>2
<1> QED BY <1>4, <1>5

\* What is left of the file has become what is left of the file before.
LEMMA FileFinished ==
  ASSUME NEW p \in Files \union {None}, Steady, Following(p), NEW q, q = client.file,
         NEW d \in 1..Len(net), Behind(d), UNCHANGED <<server, again, stale>>,
         Own(net[d]), ~net[d].refused, net[d].num = client.block,
         stale = {}, client.block = Size[client.file], GoesOn \/ HasAll
  PROVE  q \in Files /\ Steady' /\ Following(q)'
<1>1. /\ net' \in Seq(Messages) /\ Len(net') = Len(net) - d /\ Len(net') <= MaxBlocks
      /\ \A k \in 1..Len(net') : k + d \in 1..Len(net) /\ k + d > d /\ net'[k] = net[k + d]
      /\ \A k \in 1..Len(net') : Numbered(net'[k])
  <2>1. d \in 0..Len(net)
    OBVIOUS
  <2> QED BY <2>1, Rest DEF Steady
<1>2. /\ Len(net) \in Nat /\ Len(net') \in Nat /\ cmds \in Seq(Commands) /\ Len(cmds) \in Nat
      /\ client.block \in Nat /\ net[d].num \in Nat /\ client \in Client /\ server \in Server
      /\ server.clientBlock \in Nat /\ server.currentBlock \in Nat /\ server.xmitBlock \in Nat
  BY <1>1, Known DEF Steady
<1>3. /\ q \in Files /\ q # None /\ Size[q] \in Nat
      /\ ~Starts /\ ~Asks /\ Serving /\ Present(net[d]) /\ Sending
  BY Served, Lengths
<1>4. /\ client' \in Client /\ client'.file # q /\ Writes'
      /\ client'.state # "failed" /\ (client'.file # None => client'.block = 0)
      /\ cmds' \in Seq(Commands) /\ \A k \in 1..Len(cmds) : cmds'[k] = cmds[k]
      /\ cmds'[Len(cmds) + 1] = NextDl(client.block)
      /\ IF client'.file = None THEN Len(cmds') = Len(cmds) + 1
         ELSE /\ client'.file \in Files /\ Len(cmds') = Len(cmds) + 2
              /\ cmds'[Len(cmds) + 2] = BeginDl(client'.file)
  BY <1>3, NextFileOf DEF Steady
<1>5. Typed'
  <2>1. Fields
    BY DEF Steady, Typed
  <2> QED BY <1>1, <1>4, <2>1 DEF Fields, Typed
<1>6. Opens'
  BY DEF Steady, Opens, Readable, ReadOn, Holds
<1>7. Mistakes'
  BY DEF Steady, Mistakes
<1>8. /\ server.open /\ server.name = q /\ ~server.dropped
      /\ server.clientBlock = Size[q] - Len(cmds)
      /\ Size[q] < server.currentBlock /\ Size[q] < server.xmitBlock + Window
      /\ server.currentBlock = Size[q] + 1 /\ server.xmitBlock <= server.currentBlock
  <2>1. /\ server.open /\ server.name = q /\ ~server.dropped
        /\ server.clientBlock = Size[q] - Len(cmds)
    BY <1>3 DEF Sending
  <2>2. Size[q] < server.currentBlock /\ Size[q] < server.xmitBlock + Window
    BY <1>3, <2>1 DEF Present
  <2>3. server.currentBlock <= Size[q] + 1 /\ server.xmitBlock <= server.currentBlock
    BY <2>1 DEF Steady, Opens, Readable
  <2> QED BY <2>1, <2>2, <2>3, <1>2, <1>3
<1>9. ASSUME NEW i \in 1..Len(net')
      PROVE  Own(net[i + d]) /\ ~Own(net[i])' /\ Past(q, net'[i]) /\ net'[i].num \in Nat
             /\ net[i + d].num <= Size[q]
  <2>1. i + d \in 1..Len(net) /\ d < i + d /\ net'[i] = net[i + d]
    BY <1>1
  <2>2. Own(net[i + d]) /\ net[d].num < net[i + d].num + Window
    BY <2>1 DEF Following, Passing
  <2>3. net[i + d].num \in Nat
    BY <2>1, Known DEF Steady
  <2>4. net[i + d].data.file = q
    BY <2>2 DEF Own
  <2>5. Present(net[i + d])
    BY <2>1, <2>2 DEF Following, Passing
  <2>6. Past(q, net[i + d]) /\ net[i + d].num <= Size[q]
    <3>1. Size[q] < net[i + d].num + Window
      BY <2>2
    <3>2. net[i + d].num <= Size[q]
      BY <2>5 DEF Present
    <3>3. net[i + d].num + Window > Size[q]
      BY <3>1, <2>3, <1>3, Limits
    <3>4. net[i + d].data = Block(q, net[i + d].num)
      BY <2>5, <3>3 DEF Present
    <3> QED BY <3>1, <3>2, <3>4, <1>3 DEF Past
  <2> QED BY <2>1, <2>2, <2>3, <2>4, <2>6, <1>4 DEF Own
<1>10. Once'
  <2>1. CASE again
    BY <2>1 DEF Once
  <2>2. CASE ~again
    <3>1. /\ \A i, k \in 1..Len(net) : i < k => net[i].num < net[k].num
          /\ \A i \in 1..Len(net) : net[i].num < server.xmitBlock
      BY <2>2, <1>8 DEF Steady, Once
    <3>2. ASSUME NEW i \in 1..Len(net') PROVE FALSE
      <4>1. i + d \in 1..Len(net) /\ d < i + d /\ net'[i] = net[i + d] /\ net[i + d].num \in Nat
        BY <1>1, <1>9
      <4>2. net[d].num < net[i + d].num
        BY <3>1, <4>1
      <4>3. net[i + d].num <= Size[q] /\ net[d].num = Size[q]
        BY <1>9
      <4> QED BY <4>1, <4>2, <4>3, <1>3
    <3>3. server.xmitBlock = server.currentBlock
      <4>1. Size[q] < server.xmitBlock
        BY <3>1
      <4> QED BY <4>1, <1>2, <1>3, <1>8
    <3> QED BY <3>2, <3>3, <1>4, <1>8 DEF Once
  <2> QED BY <2>1, <2>2
<1>11. PICK a \in 1..Len(cmds') : a = Len(cmds) + 1
  BY <1>2, <1>4
<1>12. Finishing(q, a)'
  <2>1. server.clientBlock = Size[q] + 1 - a
    BY <1>2, <1>3, <1>8, <1>11
  <2>2. ASSUME NEW i \in 1..a PROVE cmds'[i] = NextDl(Size[q] - a + i)
    <3>1. CASE i \in 1..Len(cmds)
      <4>1. cmds[i] = NextDl(client.block - Len(cmds) + i - 1)
        BY <3>1, <1>3 DEF Serving
      <4>2. client.block - Len(cmds) + i - 1 = Size[q] - a + i
        <5>1. /\ i \in Int /\ client.block = Size[q] /\ Size[q] \in Nat /\ Len(cmds) \in Nat
              /\ a = Len(cmds) + 1
          BY <1>2, <1>3, <1>11
        <5> QED BY <5>1
      <4> QED BY <3>1, <4>1, <4>2, <1>4
    <3>2. CASE i = Len(cmds) + 1
      <4>1. Size[q] - a + i = client.block
        BY <3>2, <1>2, <1>3, <1>11
      <4> QED BY <3>2, <4>1, <1>4
    <3> QED BY <3>1, <3>2, <1>2, <1>11
  <2> QED BY <2>1, <2>2, <1>3, <1>8, <1>11 DEF Finishing
<1>13. Phase(q)'
  <2>1. CASE client'.file = None
    <3>1. \A i \in (a + 1)..Len(cmds') : cmds'[i] = StopDl
      BY <2>1, <1>2, <1>4, <1>11
    <3>2. Ending(q)'
      BY <3>1, <1>11, <1>12 DEF Ending
    <3> QED BY <2>1, <3>2, <1>3 DEF Phase
  <2>2. CASE client'.file # None
    <3>1. Len(cmds') = a + 1 + client'.block /\ cmds'[a + 1] = BeginDl(client'.file)
      <4>1. a + 1 = Len(cmds) + 2 /\ a + 1 + 0 = Len(cmds) + 2
        BY <1>2, <1>11
      <4> QED BY <4>1, <2>2, <1>4
    <3>2. a + 1 \in 1..Len(cmds')
      BY <3>1, <2>2, <1>4, <1>11
    <3>3. \A i \in 1..client'.block : cmds'[a + 1 + i] = NextDl(i - 1)
      BY <2>2, <1>4
    <3>4. Asking(q)'
      <4>1. a \in 0..Len(cmds')
        OBVIOUS
      <4> QED BY <4>1, <3>1, <3>3, <1>12 DEF Asking
    <3>5. Asks'
      BY <3>1, <3>2, CommandFields DEF Asks
    <3> QED BY <2>2, <3>4, <3>5, <1>4 DEF Phase
  <2> QED BY <2>1, <2>2
<1>14. Passing(q)'
  <2>1. \A i \in 1..Len(net') : ~Own(net[i])' /\ Past(q, net'[i])
    BY <1>9
  <2> QED BY <2>1 DEF Passing, Past
<1>15. Overlap(q)'
  BY <1>4 DEF Overlap
<1> QED BY <1>3, <1>4, <1>5, <1>6, <1>7, <1>10, <1>13, <1>14, <1>15 DEF Steady, Following

-----------------------------------------------------------------------------
(* The client reads a message.                                                *)

LEMMA FailedOf ==
  ASSUME NEW c \in Client
  PROVE  /\ Failed(c) \in Client /\ Failed(c).file = c.file /\ Failed(c).todo = c.todo
         /\ Failed(c).block = c.block /\ Failed(c).data = c.data /\ Failed(c).state = "failed"
<1>1. Failed(c) \in Client
  BY Zenon DEF Failed, Client
<1>2. /\ Failed(c).file = c.file /\ Failed(c).todo = c.todo /\ Failed(c).block = c.block
      /\ Failed(c).data = c.data /\ Failed(c).state = "failed"
  BY DEF Failed, Client
<1> QED BY <1>1, <1>2

LEMMA RefusedOf ==
  ASSUME NEW c \in Client
  PROVE  LET r == [c EXCEPT !.state = "refused"] IN
         /\ r \in Client /\ r.file = c.file /\ r.todo = c.todo
         /\ r.block = c.block /\ r.data = c.data /\ r.state = "refused"
<1> DEFINE r == [c EXCEPT !.state = "refused"]
<1>1. r \in Client
  BY Zenon DEF Client
<1>2. /\ r.file = c.file /\ r.todo = c.todo
      /\ r.block = c.block /\ r.data = c.data /\ r.state = "refused"
  BY DEF Client
<1> QED BY <1>1, <1>2

LEMMA TakenOf ==
  ASSUME NEW c \in Client, NEW b \in Blocks
  PROVE  /\ Taken(c, b) \in Client /\ Taken(c, b).file = c.file /\ Taken(c, b).todo = c.todo
         /\ Taken(c, b).block = c.block + 1 /\ Taken(c, b).data = Append(c.data, b)
         /\ Taken(c, b).state = c.state
<1>1. c.block + 1 \in Nat /\ Append(c.data, b) \in Seq(Blocks)
  <2>1. c.block \in Nat /\ c.data \in Seq(Blocks)
    BY ClientFields
  <2> QED BY <2>1
<1>2. Taken(c, b) = [c EXCEPT !.block = c.block + 1, !.data = Append(c.data, b)]
  BY DEF Taken, Client
<1> DEFINE n == c.block + 1
           data == Append(c.data, b)
<1> HIDE DEF n, data
<1>3. [c EXCEPT !.block = n, !.data = data] \in Client
  BY <1>1, Zenon DEF Client, n, data
<1>4. LET t == [c EXCEPT !.block = n, !.data = data] IN
      t.file = c.file /\ t.todo = c.todo /\ t.block = n /\ t.data = data /\ t.state = c.state
  BY DEF Client
<1> QED BY <1>2, <1>3, <1>4 DEF n, data

LEMMA GoneOnOf ==
  ASSUME NEW c \in Client
  PROVE  IF c.todo = <<>>
         THEN /\ GoneOn(c) \in Client /\ GoneOn(c).file = None
              /\ GoneOn(c).todo = <<>> /\ GoneOn(c).state = "done"
         ELSE /\ GoneOn(c) \in Client /\ GoneOn(c).file = Head(c.todo)
              /\ GoneOn(c).todo = Tail(c.todo) /\ GoneOn(c).block = 0
              /\ GoneOn(c).data = <<>> /\ GoneOn(c).state = c.state
<1>1. CASE c.todo = <<>>
  <2>1. GoneOn(c) = [c EXCEPT !.file = None, !.state = "done"]
    BY <1>1 DEF GoneOn
  <2>2. [c EXCEPT !.file = None, !.state = "done"] \in Client
    BY Zenon DEF Client
  <2>3. LET f == [c EXCEPT !.file = None, !.state = "done"] IN
        f.file = None /\ f.todo = c.todo /\ f.state = "done"
    BY DEF Client
  <2> QED BY <1>1, <2>1, <2>2, <2>3
<1>2. CASE c.todo # <<>>
  <2> DEFINE h == Head(c.todo)
             t == Tail(c.todo)
  <2>1. GoneOn(c) = [c EXCEPT !.file = h, !.todo = t, !.block = 0, !.data = <<>>]
    BY <1>2 DEF GoneOn
  <2>2. h \in Files /\ t \in Seq(Files)
    <3>1. c.todo \in Seq(Files)
      BY ClientFields
    <3> QED BY <3>1, <1>2
  <2> HIDE DEF h, t
  <2>3. h \in Files \union {None} /\ 0 \in Nat /\ <<>> \in Seq(Blocks)
    BY <2>2
  <2>4. [c EXCEPT !.file = h, !.todo = t, !.block = 0, !.data = <<>>] \in Client
    BY <2>2, <2>3, Zenon DEF Client
  <2>5. LET f == [c EXCEPT !.file = h, !.todo = t, !.block = 0, !.data = <<>>] IN
        /\ f.file = h /\ f.todo = t /\ f.block = 0 /\ f.data = <<>> /\ f.state = c.state
    BY DEF Client
  <2> QED BY <1>2, <2>1, <2>4, <2>5 DEF h, t
<1> QED BY <1>1, <1>2

\* A message of the client's file that is read from the wrong place was sent
\* again, and is not the one awaited.
LEMMA MisreadOf ==
  ASSUME NEW p \in Files \union {None}, Steady, Following(p),
         NEW i \in 1..Len(net), Misread(net[i])
  PROVE  again /\ (Awaited(net[i]) => ~Own(net[i]))
<1>1. /\ net[i].num \in Nat /\ client.block \in Nat /\ net[i] \in Messages
      /\ net[i].block = net[i].num % BlockMod /\ (net[i].sized <=> net[i].num = 0)
  BY Known DEF Steady, Numbered
<1>2. 0 % BlockMod = 0 /\ Window \in Nat
  BY Limits
<1>3. CASE ~Own(net[i])
  BY <1>3 DEF Steady, Once
<1>4. CASE Own(net[i])
  <2>1. client.block <= net[i].num + Window /\ net[i].num < client.block + Window
    BY <1>4 DEF Following, Passing, Present
  <2>2. CASE net[i].num = 0
    <3>1. net[i].block = 0 /\ net[i].sized
      BY <1>1, <1>2, <2>2
    <3>2. client.block # 0
      BY <3>1 DEF Misread
    <3>3. again
      <4>1. ~(net[i].num >= client.block)
        BY <1>1, <2>2, <3>2
      <4> QED BY <4>1 DEF Steady, Once
    <3>4. ~Awaited(net[i])
      <4>1. ASSUME Awaited(net[i]) PROVE FALSE
        <5>1. client.block % BlockMod = 0
          BY <3>1, <4>1 DEF Awaited
        <5>2. client.block <= Window
          BY <1>1, <1>2, <2>1, <2>2
        <5> QED BY <5>1, <5>2, <3>2, <1>1, FirstBlock
      <4> QED BY <4>1
    <3> QED BY <3>3, <3>4
  <2>3. CASE net[i].num # 0
    <3>1. ~net[i].sized
      BY <1>1, <2>3
    <3>2. net[i].block = 0 /\ client.block = 0
      <4>1. net[i].sized = FALSE
        BY <1>1, <3>1, MessageFields
      <4> QED BY <4>1 DEF Misread
    <3>3. net[i].num <= Window
      BY <1>1, <1>2, <2>1, <3>2
    <3>4. net[i].num = 0
      BY <1>1, <3>2, <3>3, FirstBlock
    <3> QED BY <2>3, <3>4
  <2> QED BY <2>2, <2>3
<1> QED BY <1>3, <1>4

\* A file is complete when and only when nothing was taken for one of its blocks.
LEMMA ContentsOf ==
  ASSUME NEW f \in Files, NEW n \in Nat, NEW data \in Seq(Blocks), Len(data) = n,
         NEW b \in Blocks
  PROVE  Append(data, b) = Contents(f)
           <=> /\ n = Size[f] /\ b = Block(f, n)
               /\ \A i \in 1..n : data[i] = Block(f, i - 1)
<1> DEFINE all == Append(data, b)
<1>1. /\ all \in Seq(Blocks) /\ Len(all) = n + 1 /\ all[n + 1] = b
      /\ \A i \in 1..n : all[i] = data[i]
  BY AppendOf
<1>2. Size[f] \in Nat
  BY Lengths
<1>3. /\ DOMAIN Contents(f) = 1..(Size[f] + 1)
      /\ \A i \in 1..(Size[f] + 1) : Contents(f)[i] = Block(f, i - 1)
  BY DEF Contents
<1>4. DOMAIN all = 1..(n + 1) /\ all = [i \in 1..(n + 1) |-> all[i]]
  <2> HIDE DEF all
  <2>1. DOMAIN all = 1..(n + 1)
    BY <1>1
  <2>2. all = [i \in DOMAIN all |-> all[i]]
    BY <1>1
  <2> QED BY <2>1, <2>2
<1> HIDE DEF all
<1>5. ASSUME all = Contents(f)
      PROVE  n = Size[f] /\ b = Block(f, n) /\ \A i \in 1..n : data[i] = Block(f, i - 1)
  <2>1. 1..(n + 1) = 1..(Size[f] + 1)
    BY <1>3, <1>4, <1>5
  <2>2. n = Size[f]
    <3>1. n + 1 \in 1..(Size[f] + 1) /\ Size[f] + 1 \in 1..(n + 1)
      <4>1. n + 1 \in 1..(n + 1) /\ Size[f] + 1 \in 1..(Size[f] + 1)
        BY <1>2
      <4> QED BY <4>1, <2>1
    <3> QED BY <3>1, <1>2
  <2>3. \A i \in 1..(n + 1) : all[i] = Block(f, i - 1)
    BY <1>3, <1>5, <2>1
  <2>4. b = Block(f, n)
    <3>1. n + 1 \in 1..(n + 1) /\ n + 1 - 1 = n
      OBVIOUS
    <3> QED BY <3>1, <2>3, <1>1
  <2>5. \A i \in 1..n : data[i] = Block(f, i - 1)
    <3>1. \A i \in 1..n : i \in 1..(n + 1)
      OBVIOUS
    <3> QED BY <3>1, <2>3, <1>1
  <2> QED BY <2>2, <2>4, <2>5
<1>6. ASSUME n = Size[f], b = Block(f, n), \A i \in 1..n : data[i] = Block(f, i - 1)
      PROVE  all = Contents(f)
  <2>1. ASSUME NEW i \in 1..(n + 1) PROVE all[i] = Block(f, i - 1)
    <3>1. CASE i \in 1..n
      BY <3>1, <1>1, <1>6
    <3>2. CASE i = n + 1
      <4>1. i - 1 = n
        BY <3>2
      <4> QED BY <3>2, <4>1, <1>1, <1>6
    <3> QED BY <3>1, <3>2
  <2>2. Contents(f) = [i \in 1..(n + 1) |-> Block(f, i - 1)]
    BY <1>6 DEF Contents
  <2> QED BY <1>4, <2>1, <2>2
<1> QED BY <1>5, <1>6 DEF all

LEMMA ContentsSeq ==
  ASSUME NEW f \in Files
  PROVE  /\ Contents(f) \in Seq(Blocks) /\ Len(Contents(f)) = Size[f] + 1
         /\ \A i \in 1..(Size[f] + 1) : Contents(f)[i] = Block(f, i - 1)
<1> DEFINE k == Size[f] + 1
           g(i) == Block(f, i - 1)
<1>1. k \in Nat /\ \A i \in 1..k : g(i) \in Blocks
  BY Lengths, BlockFields
<1>2. Contents(f) = [i \in 1..k |-> g(i)]
  BY DEF Contents
<1> HIDE DEF k, g
<1>3. /\ Contents(f) \in Seq(Blocks) /\ Len(Contents(f)) = k
      /\ \A i \in 1..k : Contents(f)[i] = g(i)
  BY <1>1, <1>2
<1> QED BY <1>3 DEF k, g

\* A file that has come whole passes.
LEMMA RightPasses ==
  ASSUME NEW f \in Files
  PROVE  IsPak(Contents(f))
<1>1. Len(Contents(f)) - 1 = Size[f]
  BY ContentsSeq, Lengths
<1> QED BY <1>1 DEF IsPak

\* As long as no wrong file is accepted, a client that ends a file has failed, or
\* goes on with the file it should have.
LEMMA TakeEnds ==
  ASSUME NEW b, Ends(b), Take(b), spoiled' = {},
         NEW c \in Client, c = Taken(client, b), c.file \in Files, c.state = "downloading"
  PROVE  IF c.data = Contents(c.file) THEN client' = GoneOn(c) ELSE client' = Failed(c)
<1>1. PICK f \in Finished(c) :
        /\ client' = f
        /\ spoiled' = IF Ends(b) /\ f.state # "failed" /\ c.data # Contents(c.file)
                      THEN spoiled \union {c.file} ELSE spoiled
  BY Zenon DEF Take
<1>2. f = GoneOn(c) \/ (f = Failed(c) /\ ~IsPak(c.data))
  BY <1>1 DEF Finished
<1>3. CASE c.data = Contents(c.file)
  <2>1. IsPak(c.data)
    BY <1>3, RightPasses
  <2> QED BY <1>1, <1>2, <1>3, <2>1
<1>4. CASE c.data # Contents(c.file)
  <2>1. f.state = "failed"
    BY <1>1, <1>4
  <2>2. GoneOn(c).state # "failed"
    BY GoneOnOf
  <2> QED BY <1>1, <1>2, <1>4, <2>1, <2>2
<1> QED BY <1>3, <1>4

\* What becomes of the client's commands and of the history.
LEMMA TakeOf ==
  ASSUME NEW b, Take(b)
  PROVE  /\ \/ ~Ends(b) /\ client' = Taken(client, b)
            \/ Ends(b) /\ client' \in {GoneOn(Taken(client, b)), Failed(Taken(client, b))}
         /\ cmds' = Append(cmds, NextDl(client.block))
                    \o (IF Ends(b) /\ client'.state = "downloading" THEN <<BeginDl(client'.file)>> ELSE <<>>)
         /\ stale' = IF b = Block(client.file, client.block) THEN stale ELSE stale \union {b}
         /\ \/ spoiled' = spoiled
            \/ /\ Ends(b) /\ client'.state # "failed" /\ spoiled' = spoiled \union {Taken(client, b).file}
               /\ Taken(client, b).data # Contents(Taken(client, b).file)
<1> DEFINE c == Taken(client, b)
<1>1. PICK f \in IF Ends(b) THEN Finished(c) ELSE {c} :
        /\ client' = f
        /\ cmds' = Append(cmds, NextDl(client.block))
                   \o (IF Ends(b) /\ f.state = "downloading" THEN <<BeginDl(f.file)>> ELSE <<>>)
        /\ stale' = IF b = Block(client.file, client.block) THEN stale ELSE stale \union {b}
        /\ spoiled' = IF Ends(b) /\ f.state # "failed" /\ c.data # Contents(c.file)
                      THEN spoiled \union {c.file} ELSE spoiled
  BY DEF Take
<1>2. \/ ~Ends(b) /\ f = c
      \/ Ends(b) /\ f \in {GoneOn(c), Failed(c)}
  BY <1>1 DEF Finished
<1> HIDE DEF c
<1>3. \/ spoiled' = spoiled
      \/ /\ Ends(b) /\ client'.state # "failed" /\ spoiled' = spoiled \union {c.file}
         /\ c.data # Contents(c.file)
  BY <1>1
<1> QED BY <1>1, <1>2, <1>3 DEF c

\* A block of the client's file that is awaited is the one it waits for, and makes
\* the file whole when it is the last one and none was taken wrongly.
LEMMA OwnBlock ==
  ASSUME NEW p \in Files \union {None}, Steady, Following(p),
         NEW d \in 1..Len(net), client.state = "downloading", Own(net[d]), ~net[d].refused,
         Awaited(net[d]), NEW b, b = net[d].data
  PROVE  /\ client.file \in Files /\ Size[client.file] \in Nat /\ client.file # None
         /\ net[d].num = client.block /\ client.block \in Nat /\ client \in Client
         /\ b \in Blocks /\ b = Block(client.file, client.block) /\ client.block <= Size[client.file]
         /\ Ends(b) <=> client.block = Size[client.file]
         /\ Append(client.data, b) = Contents(client.file)
              <=> /\ client.block = Size[client.file] /\ b = Block(client.file, client.block)
                  /\ \A i \in 1..client.block : client.data[i] = Block(client.file, i - 1)
<1>1. /\ net[d].num \in Nat /\ client.block \in Nat /\ net[d] \in Messages
      /\ net[d].block = net[d].num % BlockMod /\ client \in Client /\ cmds \in Seq(Commands)
  BY Known DEF Steady, Numbered
<1>2. client.file \in Files /\ Size[client.file] \in Nat /\ client.file # None /\ Present(net[d])
  BY Served, Lengths
<1>3. net[d].num = client.block
  <2>1. client.block <= net[d].num + Window /\ net[d].num < client.block + Window
    BY <1>2 DEF Present
  <2>2. net[d].num % BlockMod = client.block % BlockMod
    BY <1>1 DEF Awaited
  <2>3. net[d].num <= client.block + Window
    BY <2>1, <1>1, Limits
  <2> QED BY <2>1, <2>2, <2>3, <1>1, MeantBlock
<1>4. b = Block(client.file, client.block) /\ client.block <= Size[client.file]
  BY <1>1, <1>2, <1>3 DEF Present
<1>5. b \in Blocks
  BY <1>1, MessageFields
<1>8. Ends(b) <=> client.block = Size[client.file]
  BY <1>2, <1>4, BlockFields DEF Ends
<1>15. Append(client.data, b) = Contents(client.file)
          <=> /\ client.block = Size[client.file] /\ b = Block(client.file, client.block)
              /\ \A i \in 1..client.block : client.data[i] = Block(client.file, i - 1)
  <2>1. Len(client.data) = client.block /\ client.data \in Seq(Blocks)
    BY <1>1, <1>2, ClientFields DEF Steady, Writes
  <2>2. client.file \in Files /\ client.block \in Nat /\ b \in Blocks
    BY <1>1, <1>2, <1>5
  <2> DEFINE f == client.file
             n == client.block
             data == client.data
             e == b
  <2>3. f \in Files /\ n \in Nat /\ data \in Seq(Blocks) /\ Len(data) = n /\ e \in Blocks
    BY <2>1, <2>2
  <2> HIDE DEF f, n, data, e
  <2>4. Append(data, e) = Contents(f)
          <=> /\ n = Size[f] /\ e = Block(f, n)
              /\ \A i \in 1..n : data[i] = Block(f, i - 1)
    BY <2>3, ContentsOf
  <2> QED BY <2>4 DEF f, n, data, e
<1> QED BY <1>1, <1>2, <1>3, <1>4, <1>5, <1>8, <1>15

LEMMA OwnTake ==
  ASSUME NEW p \in Files \union {None}, Steady, Following(p),
         NEW d \in 1..Len(net), Behind(d), UNCHANGED <<server, again>>,
         client.state = "downloading", Own(net[d]), ~net[d].refused, Awaited(net[d]),
         Take(net[d].data), spoiled' = {}
  PROVE  Steady' /\ \E q \in Files \union {None} : Following(q)'
<1> DEFINE b == net[d].data
           c == Taken(client, b)
<1>1. client \in Client /\ client.block \in Nat /\ cmds \in Seq(Commands)
  BY Known DEF Steady
<1>2. client.file \in Files /\ Size[client.file] \in Nat /\ client.file # None
  BY OwnBlock
<1>3. net[d].num = client.block
  BY OwnBlock
<1>4. b = Block(client.file, client.block) /\ client.block <= Size[client.file]
  BY OwnBlock
<1>5. b \in Blocks
  BY OwnBlock
<1>6. /\ c \in Client /\ c.file = client.file /\ c.todo = client.todo
      /\ c.block = client.block + 1 /\ c.data = Append(client.data, b) /\ c.state = "downloading"
  BY <1>1, <1>5, TakenOf
<1>7. stale' = stale
  BY <1>4, TakeOf
<1>8. Ends(b) <=> client.block = Size[client.file]
  BY OwnBlock
<1>9. /\ IF Ends(b)
         THEN IF c.data = Contents(c.file) THEN client' = GoneOn(c) ELSE client' = Failed(c)
         ELSE client' = c
      /\ cmds' = Append(cmds, NextDl(client.block))
                 \o (IF Ends(b) /\ client'.state = "downloading" THEN <<BeginDl(client'.file)>> ELSE <<>>)
  <2>1. Ends(b) => IF c.data = Contents(c.file) THEN client' = GoneOn(c) ELSE client' = Failed(c)
    BY <1>2, <1>6, TakeEnds
  <2> QED BY <2>1, TakeOf
<1>10. Append(cmds, NextDl(client.block)) \in Seq(Commands)
  BY <1>1, CommandFields
<1>11. Append(cmds, NextDl(client.block)) \o <<>> = Append(cmds, NextDl(client.block))
  BY <1>10
<1>15. Append(client.data, b) = Contents(client.file)
          <=> /\ client.block = Size[client.file] /\ b = Block(client.file, client.block)
              /\ \A i \in 1..client.block : client.data[i] = Block(client.file, i - 1)
  BY OwnBlock
<1> HIDE DEF c
<1>12. CASE ~Ends(b)
  <2>1. client' = c /\ Acknowledges(client.block)
    BY <1>9, <1>11, <1>12 DEF Acknowledges
  <2>2. TakesIn(Block(client.file, client.block))
    BY <1>4, <1>6, <2>1 DEF TakesIn
  <2>3. client'.state # "failed" /\ client.block < Size[client.file]
    BY <1>1, <1>2, <1>4, <1>6, <1>8, <1>12, <2>1
  <2>4. Steady' /\ Following(p)'
    BY <2>1, <2>2, <2>3, <1>3, <1>7, OwnTaken
  <2> QED BY <2>4
<1>13. CASE Ends(b) /\ c.data # Contents(c.file)
  <2>1. client' = Failed(c)
    BY <1>9, <1>13
  <2>2. /\ client' \in Client /\ client'.file = client.file /\ client'.todo = client.todo
        /\ client'.block = client.block + 1 /\ client'.data = Append(client.data, b)
        /\ client'.state = "failed"
    BY <1>6, <2>1, FailedOf
  <2>3. Acknowledges(client.block)
    BY <1>9, <1>11, <2>2 DEF Acknowledges
  <2>4. TakesIn(Block(client.file, client.block))
    BY <1>4, <2>2 DEF TakesIn
  <2>5. stale # {}
    <3>1. ASSUME stale = {} PROVE FALSE
      <4>1. /\ Len(client.data) = client.block /\ client.data \in Seq(Blocks)
            /\ \A i \in 1..client.block : client.data[i] = Block(client.file, i - 1)
        BY <3>1, <1>1, <1>2, ClientFields DEF Steady, Writes
      <4>2. Append(client.data, b) = Contents(client.file)
        BY <4>1, <1>4, <1>8, <1>15, <1>13
      <4> QED BY <4>2, <1>6, <1>13
    <3> QED BY <3>1
  <2>6. Steady' /\ Following(p)'
    BY <2>3, <2>4, <2>5, <1>3, <1>7, OwnTaken
  <2> QED BY <2>6
<1>14. CASE Ends(b) /\ c.data = Contents(c.file)
  <2>1. client' = GoneOn(c) /\ client.block = Size[client.file]
    BY <1>8, <1>9, <1>14
  <2>2. stale = {}
    <3>1. /\ Len(client.data) = client.block /\ client.data \in Seq(Blocks)
          /\ stale = {} <=> \A i \in 1..client.block : client.data[i] = Block(client.file, i - 1)
      BY <1>1, <1>2, ClientFields DEF Steady, Writes
    <3>2. \A i \in 1..client.block : client.data[i] = Block(client.file, i - 1)
      BY <1>6, <1>15, <1>14
    <3> QED BY <3>1, <3>2
  <2>3. GoesOn \/ HasAll
    <3>1. CASE client.todo = <<>>
      <4>1. /\ client' \in Client /\ client'.file = None
            /\ client'.todo = <<>> /\ client'.state = "done"
        BY <1>6, <1>14, <2>1, <3>1, GoneOnOf
      <4>2. cmds' = Append(cmds, NextDl(client.block))
        BY <4>1, <1>9, <1>11
      <4> QED BY <3>1, <4>1, <4>2 DEF HasAll
    <3>2. CASE client.todo # <<>>
      <4>1. /\ client' \in Client /\ client'.file = Head(client.todo)
            /\ client'.todo = Tail(client.todo) /\ client'.block = 0
            /\ client'.data = <<>> /\ client'.state = "downloading"
        BY <1>6, <1>14, <2>1, <3>2, GoneOnOf
      <4>2. cmds' = Append(cmds, NextDl(client.block)) \o <<BeginDl(Head(client.todo))>>
        BY <3>2, <4>1, <1>9, <1>14
      <4>3. Append(cmds, NextDl(client.block)) \o <<BeginDl(Head(client.todo))>>
              = Append(Append(cmds, NextDl(client.block)), BeginDl(Head(client.todo)))
        <5> DEFINE s == Append(cmds, NextDl(client.block))
                   e == BeginDl(Head(client.todo))
        <5>1. s \in Seq(Commands) /\ e \in Commands
          <6>1. client.todo \in Seq(Files)
            BY <1>1, ClientFields
          <6>2. Head(client.todo) \in Files
            BY <3>2, <6>1
          <6> QED BY <6>2, <1>10, CommandFields
        <5> HIDE DEF s, e
        <5>2. s \o <<e>> = Append(s, e)
          BY <5>1
        <5> QED BY <5>2 DEF s, e
      <4> QED BY <3>2, <4>1, <4>2, <4>3 DEF GoesOn
    <3> QED BY <3>1, <3>2
  <2>4. PICK q \in Files : q = client.file
    BY <1>2
  <2>5. Steady' /\ Following(q)'
    BY <2>1, <2>2, <2>3, <2>4, <1>3, <1>7, FileFinished
  <2> QED BY <2>5
<1> QED BY <1>12, <1>13, <1>14

LEMMA PastTake ==
  ASSUME NEW p \in Files \union {None}, Steady, Following(p),
         NEW d \in 1..Len(net), Behind(d), UNCHANGED <<server, again>>,
         client.state = "downloading", ~Own(net[d]), Awaited(net[d]), Take(net[d].data),
         spoiled' = {}
  PROVE  Steady' /\ Following(p)'
<1> DEFINE b == net[d].data
           c == Taken(client, b)
<1>1. /\ net[d].num \in Nat /\ client.block \in Nat /\ net[d] \in Messages
      /\ net[d].block = net[d].num % BlockMod /\ client \in Client /\ cmds \in Seq(Commands)
  BY Known DEF Steady, Numbered
<1>2. client.file \in Files /\ client.file # None
  BY <1>1, ClientFields DEF Steady, Writes
<1>3. net[d].num % BlockMod = client.block % BlockMod
  BY <1>1 DEF Awaited
<1>4. b \in Blocks /\ b # Block(client.file, client.block)
  BY <1>1, MessageFields, BlockFields DEF Own
<1>5. /\ c \in Client /\ c.file = client.file /\ c.todo = client.todo
      /\ c.block = client.block + 1 /\ c.data = Append(client.data, b) /\ c.state = "downloading"
  BY <1>1, <1>4, TakenOf
<1>6. c.data # Contents(c.file)
  <2>1. client.data \in Seq(Blocks) /\ Len(client.data) = client.block
    BY <1>1, <1>2, ClientFields DEF Steady, Writes
  <2> QED BY <2>1, <1>1, <1>2, <1>4, <1>5, ContentsOf
<1>7. stale' = stale \union {b}
  BY <1>4, TakeOf
<1>8. client' = (IF Ends(b) THEN Failed(c) ELSE c)
  <2>1. Ends(b) => client' = Failed(c)
    BY <1>2, <1>5, <1>6, TakeEnds
  <2> QED BY <2>1, TakeOf
<1> HIDE DEF c
<1>9. /\ client' \in Client /\ client'.file = client.file /\ client'.todo = client.todo
      /\ client'.block = client.block + 1 /\ client'.data = Append(client.data, b)
      /\ client'.state = IF Ends(b) THEN "failed" ELSE "downloading"
  BY <1>5, <1>8, FailedOf
<1>10. cmds' = Append(cmds, NextDl(client.block))
                 \o (IF Ends(b) /\ client'.state = "downloading" THEN <<BeginDl(client'.file)>> ELSE <<>>)
  BY TakeOf
<1>11. Append(cmds, NextDl(client.block)) \o <<>> = Append(cmds, NextDl(client.block))
  <2>1. Append(cmds, NextDl(client.block)) \in Seq(Commands)
    BY <1>1, CommandFields
  <2> QED BY <2>1
<1>12. Acknowledges(client.block)
  BY <1>9, <1>10, <1>11 DEF Acknowledges
<1>13. TakesIn(b)
  BY <1>9 DEF TakesIn
<1> HIDE DEF b
<1>14. b = net[d].data
  BY DEF b
<1> QED BY <1>2, <1>3, <1>4, <1>7, <1>12, <1>13, <1>14, PastTaken

LEMMA MisreadTake ==
  ASSUME NEW p \in Files \union {None}, Steady, Following(p),
         NEW d \in 1..Len(net), Behind(d), UNCHANGED <<server, again>>,
         client.state = "downloading", Misread(net[d]), Awaited(net[d]),
         client' = Taken(client, NoBlock), Acknowledges(client.block),
         stale' = stale \union {net[d].data}
  PROVE  Steady' /\ Following(p)'
<1>1. /\ net[d].num \in Nat /\ client.block \in Nat /\ client \in Client
      /\ net[d].block = net[d].num % BlockMod
  BY Known DEF Steady, Numbered
<1>2. client.file \in Files /\ client.file # None
  BY <1>1, ClientFields DEF Steady, Writes
<1>3. ~Own(net[d]) /\ net[d].num % BlockMod = client.block % BlockMod
  BY <1>1, MisreadOf DEF Awaited
<1>4. NoBlock \in Blocks /\ NoBlock # Block(client.file, client.block)
  <2>1. NoBlock.file = None
    BY BlockFields DEF NoBlock
  <2>2. Block(client.file, client.block).file = client.file
    BY BlockFields
  <2>3. NoBlock \in Blocks
    BY BlockFields DEF NoBlock
  <2> QED BY <2>1, <2>2, <2>3, <1>2
<1>5. TakesIn(NoBlock)
  BY <1>1, <1>4, TakenOf DEF TakesIn
<1> QED BY <1>2, <1>3, <1>4, <1>5, PastTaken

LEMMA ReceiveKeeps ==
  ASSUME NEW p \in Files \union {None}, Steady, Following(p), NEW d \in 1..Len(net), Receive(d),
         spoiled' = {}
  PROVE  Steady' /\ \E q \in Files \union {None} : Following(q)'
<1>1. Behind(d) /\ UNCHANGED <<server, again>> /\ d \in 0..Len(net)
  BY DEF Receive, Behind
<1>2. client \in Client
  BY Known DEF Steady
<1>3. ASSUME stale' = stale, cmds' = cmds,
             client' = client \/ (client' = Failed(client) /\ again)
               \/ (client' = [client EXCEPT !.state = "refused"] /\ client.state = "downloading")
      PROVE  Steady' /\ Following(p)'
  <2>1. /\ client' \in Client /\ client'.file = client.file /\ client'.todo = client.todo
        /\ client'.block = client.block /\ client'.data = client.data
    BY <1>2, <1>3, FailedOf, RefusedOf
  <2>2. \/ client'.state = client.state
        \/ client'.state = "refused" /\ client.file # None
        \/ client'.state = "failed" /\ again
    BY <1>2, <1>3, FailedOf, RefusedOf DEF Steady, Writes
  <2> QED BY <1>1, <1>3, <2>1, <2>2, Skipped
<1>4. CASE CL_ParseStray(d)
  <2>1. client.state = "done" /\ stale' = stale
    BY <1>4 DEF CL_ParseStray
  <2>2. client.file = None
    BY <2>1 DEF Steady, Writes
  <2>3. again
    <3>1. net[d].data.file \in Files
      BY Known DEF Steady, Numbered
    <3>2. ~Own(net[d])
      BY <2>2, <3>1, Lengths DEF Own
    <3> QED BY <3>2 DEF Steady, Once
  <2>4. CASE client' = client /\ cmds' = Append(cmds, StopDl)
    <3>1. Stops
      BY <2>2, <2>4 DEF Stops
    <3>2. Steady' /\ Following(p)'
      BY <1>1, <1>2, <2>1, <2>4, <3>1, Skipped
    <3> QED BY <3>2
  <2>5. CASE client' = Failed(client) /\ cmds' = cmds
    BY <1>3, <2>1, <2>3, <2>5
  <2> QED BY <2>4, <2>5, <1>4 DEF CL_ParseStray
<1>5. CASE CL_ParseDownload(net[d])
  <2>1. client.state = "downloading"
    BY <1>5 DEF CL_ParseDownload
  <2>2. CASE Misread(net[d]) /\ CL_ParseMisread(net[d])
    <3>1. again
      BY <2>2, MisreadOf
    <3>2. CASE client' = Failed(client) /\ UNCHANGED <<cmds, stale>>
      BY <1>3, <3>1, <3>2
    <3>3. CASE UNCHANGED <<client, cmds, stale>>
      BY <1>3, <3>3
    <3>4. CASE /\ Awaited(net[d]) /\ client' = Taken(client, NoBlock)
               /\ cmds' = Append(cmds, NextDl(client.block))
               /\ stale' = stale \union {net[d].data}
      <4>1. Acknowledges(client.block)
        BY <3>4 DEF Acknowledges
      <4>2. Steady' /\ Following(p)'
        BY <1>1, <2>1, <2>2, <3>4, <4>1, MisreadTake
      <4> QED BY <4>2
    <3> QED BY <2>2, <3>2, <3>3, <3>4 DEF CL_ParseMisread
  <2>3. CASE client' = [client EXCEPT !.state = "refused"] /\ UNCHANGED <<cmds, stale>>
    BY <1>3, <2>1, <2>3
  <2>4. CASE UNCHANGED <<client, cmds, stale>>
    BY <1>3, <2>4
  <2>5. CASE ~net[d].refused /\ Awaited(net[d]) /\ Take(net[d].data)
    <3>1. CASE Own(net[d])
      BY <1>1, <2>1, <2>5, <3>1, OwnTake
    <3>2. CASE ~Own(net[d])
      <4>1. Steady' /\ Following(p)'
        BY <1>1, <2>1, <2>5, <3>2, PastTake
      <4> QED BY <4>1
    <3> QED BY <3>1, <3>2
  <2> QED BY <2>2, <2>3, <2>4, <2>5, <1>5 DEF CL_ParseDownload
<1> QED BY <1>4, <1>5 DEF Receive

LEMMA LoseKeeps ==
  ASSUME NEW p \in Files \union {None}, Steady, Following(p), Lose
  PROVE  Steady' /\ Following(p)'
<1>1. net \in Seq(Messages) /\ net # << >> /\ client \in Client
  BY Known DEF Steady, Lose
<1>2. 1 \in 0..Len(net) /\ Behind(1)
  <2>1. Len(net) \in Nat /\ Len(net) > 0
    BY <1>1, TailOf
  <2>2. Tail(net) = SubSeq(net, 1 + 1, Len(net))
    BY <1>1
  <2> QED BY <2>1, <2>2 DEF Lose, Behind
<1>3. UNCHANGED <<server, client, cmds, again, stale>>
  BY DEF Lose
<1> QED BY <1>1, <1>2, <1>3, Skipped

-----------------------------------------------------------------------------
(* The server sends.                                                          *)

LEMMA WaitKeeps ==
  ASSUME NEW p \in Files \union {None}, Steady, Following(p), Wait
  PROVE  Steady' /\ Following(p)'
<1>1. UNCHANGED <<client, net, cmds, again, stale>> /\ server \in Server
  BY Known DEF Steady, Wait
<1>2. /\ server' \in Server /\ server'.name = server.name /\ server'.open = server.open
      /\ server'.clientBlock = server.clientBlock /\ server'.currentBlock = server.currentBlock
      /\ server'.xmitBlock = server.xmitBlock /\ server'.slots = server.slots
      /\ server'.dropped = server.dropped
  <2> DEFINE s == [server EXCEPT !.late = TRUE]
  <2>1. s \in Server
    BY <1>1, Zenon DEF Server
  <2>2. /\ s.name = server.name /\ s.open = server.open
        /\ s.clientBlock = server.clientBlock /\ s.currentBlock = server.currentBlock
        /\ s.xmitBlock = server.xmitBlock /\ s.slots = server.slots /\ s.dropped = server.dropped
    BY <1>1 DEF Server
  <2>3. server' = s
    BY DEF Wait
  <2> HIDE DEF s
  <2> QED BY <2>1, <2>2, <2>3
<1>3. Typed'
  BY <1>1, <1>2 DEF Steady, Typed, Fields, Numbered
<1>4. Opens'
  BY <1>1, <1>2 DEF Steady, Opens, Readable, ReadOn, Holds
<1>5. Writes' /\ Mistakes'
  BY <1>1, <1>2 DEF Steady, Writes, Mistakes
<1>6. Once'
  BY <1>1, <1>2 DEF Steady, Once, Own
<1>7. Phase(p)'
  BY <1>1, <1>2 DEF Following, Phase, Ending, Asks, Asking, Serving, Sending, Beginning, Over, Finishing
<1>8. (Starts' <=> Starts) /\ (Asks' <=> Asks)
  BY <1>1, <1>2 DEF Starts, Asks
<1>9. \A i \in 1..Len(net) : (Own(net[i])' <=> Own(net[i])) /\ (Present(net[i])' <=> Present(net[i]))
  BY <1>1, <1>2 DEF Own, Present
<1>10. Passing(p)'
  BY <1>1, <1>2, <1>8, <1>9 DEF Following, Passing, Past
<1>11. Overlap(p)'
  BY <1>1, <1>8, <1>9 DEF Following, Overlap
<1> QED BY <1>3, <1>4, <1>5, <1>6, <1>7, <1>10, <1>11 DEF Steady, Following

LEMMA Added ==
  ASSUME Typed, NEW m \in Messages, Numbered(m), net' = Sent(m)
  PROVE  /\ net' \in Seq(Messages) /\ Len(net') <= MaxBlocks /\ Len(net') \in Nat
         /\ \A k \in 1..Len(net') : Numbered(net'[k])
         /\ \E d \in 0..Len(net) :
              \A k \in 1..Len(net') :
                \/ k < Len(net') /\ k + d \in 1..Len(net) /\ net'[k] = net[k + d]
                \/ k = Len(net') /\ net'[k] = m
<1>1. net \in Seq(Messages) /\ Len(net) \in Nat /\ Len(net) <= MaxBlocks
  BY Known DEF Typed, Fields
<1>2. net' \in Seq(Messages) /\ Len(net') <= MaxBlocks
  BY <1>1, SentBlock
<1>3. PICK d \in 0..Len(net) :
        /\ Len(net') = Len(net) - d + 1
        /\ \A k \in 1..(Len(net) - d) : net'[k] = net[k + d]
        /\ net'[Len(net) - d + 1] = m
  BY <1>1, SentBlock
<1>4. ASSUME NEW k \in 1..Len(net')
      PROVE  \/ k < Len(net') /\ k + d \in 1..Len(net) /\ net'[k] = net[k + d]
             \/ k = Len(net') /\ net'[k] = m
  <2>1. Len(net') = Len(net) - d + 1 /\ d \in 0..Len(net)
    BY <1>3
  <2>2. CASE k < Len(net')
    <3>1. k \in 1..(Len(net) - d) /\ k + d \in 1..Len(net)
      BY <1>1, <2>1, <2>2
    <3> QED BY <2>2, <3>1, <1>3
  <2>3. CASE k = Len(net')
    BY <2>1, <2>3, <1>3
  <2> QED BY <2>1, <2>2, <2>3, <1>1
<1>5. \A k \in 1..Len(net') : Numbered(net'[k])
  BY <1>4, Known
<1>6. Len(net') \in Nat
  BY <1>2
<1>7. \A k \in 1..Len(net') :
        \/ k < Len(net') /\ k + d \in 1..Len(net) /\ net'[k] = net[k + d]
        \/ k = Len(net') /\ net'[k] = m
  BY <1>4
<1> QED BY <1>2, <1>3, <1>5, <1>6, <1>7

\* What is under way stays in order when the server sends m.
LEMMA PassingSent ==
  ASSUME NEW p \in Files \union {None}, Typed, Passing(p), client' = client,
         NEW m \in Messages, Numbered(m), net' = Sent(m),
         \A x \in Messages :
           Own(x) /\ Present(x) /\ (\E i \in 1..Len(net) : x = net[i]) => Present(x)',
         IF Own(m) THEN Present(m)' /\ \A i \in 1..Len(net) : Own(net[i]) => net[i].num < m.num + Window
         ELSE Past(p, m) /\ \A i \in 1..Len(net) : ~Own(net[i]),
         Starts' => ~Own(m) /\ \A i \in 1..Len(net) : ~Own(net[i]),
         client.file # None /\ server'.name = None /\ ~Asks' /\ stale' = {} =>
           m.refused /\ \A i \in 1..Len(net) : ~Own(net[i])
  PROVE  Passing(p)'
<1>1. net \in Seq(Messages) /\ Len(net') \in Nat /\ \A i \in 1..Len(net) : net[i] \in Messages
  BY Known, Added
<1>2. PICK d \in 0..Len(net) :
        \A k \in 1..Len(net') :
          \/ k < Len(net') /\ k + d \in 1..Len(net) /\ net'[k] = net[k + d]
          \/ k = Len(net') /\ net'[k] = m
  BY Added
<1>3. \A k \in 1..Len(net') : Own(net[k])' <=> (net'[k].data.file = client.file)
  BY DEF Own
<1>4. \A k \in 1..Len(net') :
        IF Own(net[k])' THEN Present(net[k])' ELSE Past(p, net'[k])
  <2> SUFFICES ASSUME NEW k \in 1..Len(net')
               PROVE  IF Own(net[k])' THEN Present(net[k])' ELSE Past(p, net'[k])
    OBVIOUS
  <2>1. CASE k + d \in 1..Len(net) /\ net'[k] = net[k + d]
    <3>1. PICK x \in Messages : x = net[k + d]
      BY <2>1, <1>1
    <3>2. Own(net[k])' <=> Own(x)
      BY <2>1, <3>1 DEF Own
    <3>3. IF Own(x) THEN Present(x) ELSE Past(p, x)
      BY <2>1, <3>1 DEF Passing
    <3>4. Present(x)' => Present(net[k])'
      BY <2>1, <3>1 DEF Present
    <3>5. \E i \in 1..Len(net) : x = net[i]
      BY <2>1, <3>1
    <3> QED BY <2>1, <3>1, <3>2, <3>3, <3>4, <3>5
  <2>2. CASE net'[k] = m
    <3>1. Own(net[k])' <=> Own(m)
      BY <2>2 DEF Own
    <3>2. Present(m)' => Present(net[k])'
      BY <2>2 DEF Present
    <3> QED BY <2>2, <3>1, <3>2
  <2> QED BY <2>1, <2>2, <1>2
<1>5. ASSUME NEW i \in 1..Len(net'), NEW k \in 1..Len(net'), i < k, Own(net[i])'
      PROVE  Own(net[k])' /\ net'[i].num < net'[k].num + Window
  <2>1. i < Len(net')
    BY <1>1, <1>5
  <2>2. i + d \in 1..Len(net) /\ net'[i] = net[i + d] /\ Own(net[i + d])
    BY <2>1, <1>2, <1>5 DEF Own
  <2>3. CASE k + d \in 1..Len(net) /\ net'[k] = net[k + d]
    <3>1. i + d < k + d
      BY <1>5
    <3>2. Own(net[k + d]) /\ net[i + d].num < net[k + d].num + Window
      BY <2>2, <2>3, <3>1 DEF Passing
    <3>3. Own(net[k])'
      BY <2>3, <3>2 DEF Own
    <3> QED BY <2>2, <2>3, <3>2, <3>3
  <2>4. CASE net'[k] = m
    <3>1. Own(m) /\ net[i + d].num < m.num + Window
      BY <2>2
    <3>2. Own(net[k])'
      BY <2>4, <3>1 DEF Own
    <3> QED BY <2>2, <2>4, <3>1, <3>2
  <2> QED BY <2>3, <2>4, <1>2
<1>6. Starts' => \A i \in 1..Len(net') : ~Own(net[i])'
  BY <1>2, <1>3 DEF Own
<1>7. client'.file # None /\ server'.name = None /\ ~Asks' /\ stale' = {} =>
        \A i \in 1..Len(net') : Own(net[i])' => net'[i].refused
  BY <1>2, <1>3 DEF Own
<1> QED BY <1>4, <1>5, <1>6, <1>7 DEF Passing, Past

\* A server that has been asked for a file and has not opened it.
LEMMA NotBegun ==
  ASSUME NEW p \in Files \union {None}, Steady, Following(p), ~server.open, server.name # None
  PROVE  /\ client.file \in Files /\ Size[client.file] \in Nat /\ client.file # None
         /\ server.name = client.file /\ ~server.dropped /\ ~Asks /\ Serving /\ Beginning /\ Starts
         /\ Len(cmds) = client.block /\ client.block <= Window
         /\ stale = {} => client.block = 0
         /\ \A i \in 1..Len(net) : ~Own(net[i])
         /\ ~again => \A i \in 1..Len(net) : FALSE
<1>1. client.file \in Files \union {None} /\ client.block \in Nat /\ Window \in Nat
  BY Known, Limits DEF Steady
<1>2. client.file # None
  <2>1. ASSUME client.file = None PROVE FALSE
    <3>1. PICK a \in 0..Len(cmds) : Finishing(p, a)
      BY <2>1 DEF Following, Phase, Ending
    <3> QED BY <3>1 DEF Finishing
  <2> QED BY <2>1
<1>3. ~Asks
  <2>1. ASSUME Asks PROVE FALSE
    <3>1. PICK a \in 0..Len(cmds) : Finishing(p, a)
      BY <1>2, <2>1 DEF Following, Phase, Asking
    <3> QED BY <3>1 DEF Finishing
  <2> QED BY <2>1
<1>4. Serving
  BY <1>2, <1>3 DEF Following, Phase
<1>5. Beginning
  BY <1>4 DEF Serving, Sending, Over
<1>6. server.name = client.file /\ Len(cmds) = client.block /\ ~server.dropped
  BY <1>5 DEF Beginning
<1>7. Starts
  BY <1>2, <1>6 DEF Starts
<1>8. client.block > 0 => stale # {} /\ client.block <= Window
  <2>1. ASSUME client.block > 0
        PROVE  stale # {} /\ client.block <= Window
    <3>1. stale # {} /\ p # None
      BY <1>2, <1>7, <2>1 DEF Following, Overlap
    <3>2. PICK base \in 0..Size[p] :
            base % BlockMod = 0 /\ base + client.block <= Size[p] + 1 /\ Size[p] < base + Window
      BY <1>2, <1>7, <2>1 DEF Following, Overlap
    <3>3. Size[p] \in Nat /\ base \in Nat
      BY <3>1, Lengths
    <3> QED BY <3>1, <3>2, <3>3, <1>1
  <2> QED BY <2>1
<1>9. \A i \in 1..Len(net) : ~Own(net[i])
  BY <1>7 DEF Following, Passing
<1>10. ~again => \A i \in 1..Len(net) : FALSE
  BY <1>9 DEF Steady, Once
<1> QED BY <1>1, <1>2, <1>3, <1>4, <1>5, <1>6, <1>7, <1>8, <1>9, <1>10, Lengths

LEMMA RefuseKeeps ==
  ASSUME NEW p \in Files \union {None}, Steady, Following(p), SV_RefuseDownload
  PROVE  Steady' /\ Following(p)'
<1>1. /\ server \in Server /\ client \in Client /\ client.block \in Nat
      /\ UNCHANGED <<client, cmds, again, stale>> /\ server.name \in Refused
  BY Known DEF Steady, SV_RefuseDownload
<1>2. ~server.open /\ server.name # None
  <2>1. Refused \subseteq Files
    BY DownloadAssumption DEF Files
  <2> QED BY <2>1, <1>1, Lengths DEF Steady, Opens, Readable
<1>3. /\ client.file \in Files /\ Size[client.file] \in Nat /\ client.file # None
      /\ server.name = client.file /\ ~server.dropped /\ ~Asks /\ Serving /\ Beginning /\ Starts
      /\ Len(cmds) = client.block /\ client.block <= Window
      /\ stale = {} => client.block = 0
      /\ \A i \in 1..Len(net) : ~Own(net[i])
      /\ ~again => \A i \in 1..Len(net) : FALSE
  BY <1>2, NotBegun
<1>4. /\ server' \in Server /\ server'.name = None /\ ~server'.open
      /\ server'.clientBlock = server.clientBlock /\ server'.slots = server.slots
      /\ ~server'.dropped
  <2> DEFINE s == [server EXCEPT !.name = None]
  <2>1. s \in Server
    BY <1>1, Zenon DEF Server
  <2>2. /\ s.name = None /\ s.open = server.open /\ s.clientBlock = server.clientBlock
        /\ s.slots = server.slots /\ s.dropped = server.dropped
    BY <1>1 DEF Server
  <2>3. server' = s
    BY DEF SV_RefuseDownload
  <2> HIDE DEF s
  <2> QED BY <2>1, <2>2, <2>3, <1>2, <1>3
<1>5. PICK m \in Messages : m = Refusal(client.file)
  <2>1. 0 \in Nat /\ Block(client.file, 0) \in Blocks
    BY <1>3, BlockFields
  <2>2. Refusal(client.file) \in Messages
    BY <2>1 DEF Refusal, Messages
  <2> QED BY <2>2
<1>6. /\ m.num = 0 /\ m.refused /\ m.data = Block(client.file, 0) /\ Own(m) /\ Numbered(m)
      /\ net' = Sent(m)
  <2>1. m.num = 0 /\ m.refused /\ m.data = Block(client.file, 0) /\ m.block = 0 /\ m.sized
    BY <1>5 DEF Refusal
  <2>2. 0 % BlockMod = 0
    BY Limits
  <2>3. Own(m) /\ Numbered(m)
    BY <2>1, <2>2, <1>3, BlockFields DEF Own, Numbered
  <2>4. net' = Sent(m)
    BY <1>3, <1>5 DEF SV_RefuseDownload
  <2> QED BY <2>1, <2>3, <2>4
<1>7. /\ net' \in Seq(Messages) /\ Len(net') <= MaxBlocks /\ Len(net') \in Nat
      /\ \A k \in 1..Len(net') : Numbered(net'[k])
  BY <1>6, Added DEF Steady
<1>8. PICK d \in 0..Len(net) :
        \A k \in 1..Len(net') :
          \/ k < Len(net') /\ k + d \in 1..Len(net) /\ net'[k] = net[k + d]
          \/ k = Len(net') /\ net'[k] = m
  BY <1>6, Added DEF Steady
<1>9. Typed'
  <2>1. Fields /\ cmds \in Seq(Commands)
    BY DEF Steady, Typed
  <2> QED BY <1>1, <1>4, <1>7, <2>1 DEF Fields, Typed
<1>10. Opens'
  BY <1>2, <1>3, <1>4 DEF Steady, Opens
<1>11. Writes' /\ Mistakes'
  BY <1>1, <1>3, <1>4 DEF Steady, Writes, Mistakes
<1>12. Once'
  <2>1. CASE again
    BY <1>1, <2>1 DEF Once
  <2>2. CASE ~again
    <3>1. stale = {} /\ client.state # "failed" /\ client.block = 0
      BY <2>2, <1>3 DEF Steady, Once
    <3>2. \A k \in 1..Len(net') : net'[k] = m /\ k = Len(net')
      BY <1>3, <1>8, <2>2
    <3>3. \A i \in 1..Len(net') : Own(net[i])' /\ net'[i].num >= client.block
      BY <1>1, <1>6, <3>1, <3>2 DEF Own
    <3>4. \A i, k \in 1..Len(net') : i < k => net'[i].num < net'[k].num
      BY <1>7, <3>2
    <3> QED BY <1>1, <1>4, <3>1, <3>3, <3>4 DEF Once
  <2> QED BY <2>1, <2>2
<1>13. ~Asks' /\ ~Starts'
  BY <1>1, <1>3, <1>4 DEF Asks, Starts
<1>14. Phase(p)'
  <2>1. Over'
    BY <1>1, <1>3, <1>4 DEF Over
  <2>2. Serving'
    BY <1>1, <1>3, <2>1 DEF Serving
  <2> QED BY <1>1, <1>3, <1>13, <2>2 DEF Following, Phase
<1>15. Passing(p)'
  <2>1. \A x \in Messages : Own(x) /\ Present(x) => Present(x)'
    BY <1>1, <1>4 DEF Present
  <2>2. Present(m)'
    <3>1. client.block <= 0 + Window /\ 0 < client.block + Window /\ 0 <= Size[client.file]
      BY <1>1, <1>3, Limits
    <3> QED BY <3>1, <1>1, <1>4, <1>6 DEF Present
  <2> QED BY <1>1, <1>3, <1>4, <1>6, <1>13, <2>1, <2>2, PassingSent DEF Steady, Following
<1>16. Overlap(p)'
  BY <1>1, <1>3 DEF Following, Overlap
<1> QED BY <1>9, <1>10, <1>11, <1>12, <1>14, <1>15, <1>16 DEF Steady, Following

LEMMA OpenedOf ==
  ASSUME NEW s \in Server, s.name \in Files \ Refused, s.open => Readable(s)
  PROVE  LET o == Opened(s) IN
         /\ o \in Server /\ o.name = s.name /\ o.open /\ o.dropped = s.dropped /\ Readable(o)
         /\ s.open => o = s
         /\ ~s.open => o.clientBlock = 0 /\ o.xmitBlock = 0
<1>1. CASE s.open
  BY <1>1 DEF Opened
<1>2. CASE ~s.open
  <2> DEFINE o == [s EXCEPT !.open = TRUE, !.clientBlock = 0, !.currentBlock = 0, !.xmitBlock = 0]
  <2>1. Opened(s) = o
    BY <1>2 DEF Opened
  <2>2. 0 \in Nat /\ TRUE \in BOOLEAN
    OBVIOUS
  <2>3. o \in Server
    BY <2>2, Zenon DEF Server
  <2>4. /\ o.name = s.name /\ o.open /\ o.dropped = s.dropped
        /\ o.clientBlock = 0 /\ o.currentBlock = 0 /\ o.xmitBlock = 0
    BY DEF Server
  <2> HIDE DEF o
  <2>5. Readable(o)
    <3>1. Size[s.name] \in Nat
      BY Lengths
    <3>2. Holds(o)
      BY <2>4 DEF Holds
    <3> QED BY <2>4, <3>1, <3>2, Limits DEF Readable
  <2> QED BY <1>2, <2>1, <2>3, <2>4, <2>5
<1> QED BY <1>1, <1>2

LEMMA RewoundOf ==
  ASSUME NEW r \in Server
  PROVE  LET s == Rewound(r) IN
         /\ s \in Server /\ s.name = r.name /\ s.open = r.open /\ s.dropped = r.dropped
         /\ s.clientBlock = r.clientBlock /\ s.currentBlock = r.currentBlock /\ s.slots = r.slots
         /\ s.xmitBlock = (IF Resends(r) THEN r.clientBlock ELSE r.xmitBlock)
         /\ ~Resends(r) => s = r
<1>1. CASE Resends(r)
  <2> DEFINE s == [r EXCEPT !.xmitBlock = r.clientBlock]
  <2>1. Rewound(r) = s
    BY <1>1 DEF Rewound
  <2>2. r.clientBlock \in Nat
    BY ServerFields
  <2>3. s \in Server
    BY <2>2, Zenon DEF Server
  <2>4. /\ s.name = r.name /\ s.open = r.open /\ s.dropped = r.dropped
        /\ s.clientBlock = r.clientBlock /\ s.currentBlock = r.currentBlock /\ s.slots = r.slots
        /\ s.xmitBlock = r.clientBlock
    BY DEF Server
  <2> QED BY <1>1, <2>1, <2>3, <2>4
<1>2. CASE ~Resends(r)
  BY <1>2 DEF Rewound
<1> QED BY <1>1, <1>2

LEMMA MessageOf ==
  ASSUME NEW r \in Server, Readable(r), NEW s \in Server, s.name = r.name,
         s.currentBlock = r.currentBlock, s.slots = r.slots, s.xmitBlock < r.currentBlock
  PROVE  LET m == Message(s) IN
         /\ m \in Messages /\ m.num = s.xmitBlock /\ ~m.refused /\ m.data.file = r.name
         /\ r.currentBlock <= m.num + Window => m.data = Block(r.name, m.num)
         /\ Numbered(m)
<1> DEFINE m == Message(s)
<1>1. /\ s.xmitBlock \in Nat /\ s.slots \in [0..(Window - 1) -> Blocks] /\ r.currentBlock \in Nat
  BY ServerFields
<1>2. s.xmitBlock % Window \in 0..(Window - 1) /\ s.xmitBlock % BlockMod \in Nat
  <2>1. s.xmitBlock % BlockMod \in 0..(BlockMod - 1)
    BY <1>1, Limits
  <2> QED BY <1>1, <2>1, SlotNumber
<1>3. /\ m.block = s.xmitBlock % BlockMod /\ m.sized = (s.xmitBlock = 0) /\ m.refused = FALSE
      /\ m.data = s.slots[s.xmitBlock % Window] /\ m.num = s.xmitBlock
  BY DEF Message
<1>4. m \in Messages
  <2>1. s.slots[s.xmitBlock % Window] \in Blocks /\ (s.xmitBlock = 0) \in BOOLEAN /\ FALSE \in BOOLEAN
    BY <1>1, <1>2
  <2> QED BY <1>1, <1>2, <2>1 DEF Message, Messages
<1>5. m.data.file = r.name
  <2>1. s.xmitBlock \in 0..(r.currentBlock - 1)
    BY <1>1
  <2>2. r.slots[s.xmitBlock % Window].file = r.name
    BY <2>1 DEF Readable, Holds
  <2> QED BY <1>3, <2>2
<1>6. r.currentBlock <= m.num + Window => m.data = Block(r.name, m.num)
  BY <1>1, <1>3, InWindow
<1>7. Numbered(m)
  BY <1>3, <1>5 DEF Numbered, Readable
<1> QED BY <1>3, <1>4, <1>5, <1>6, <1>7

\* The server reads on, and sends the next block, or a second after the last one
\* was sent the window from its start.
LEMMA WriteOf ==
  ASSUME Typed, Opens, SV_WriteDownloadToClient
  PROVE  /\ UNCHANGED <<client, cmds, stale>>
         /\ \E r \in Server :
              /\ r.name = server.name /\ r.open /\ r.dropped = server.dropped
              /\ Readable(r) /\ ReadOn(r)
              /\ IF server.open
                 THEN /\ r.clientBlock = server.clientBlock /\ r.xmitBlock = server.xmitBlock
                      /\ server.currentBlock <= r.currentBlock
                 ELSE r.clientBlock = 0 /\ r.xmitBlock = 0
              /\ r.clientBlock < r.currentBlock
              /\ \/ UNCHANGED <<net, again>> /\ server' = r /\ r.xmitBlock = r.currentBlock
                 \/ \E m \in Messages :
                      /\ net' = Sent(m) /\ Numbered(m) /\ ~m.refused /\ m.data.file = r.name
                      /\ r.currentBlock <= m.num + Window => m.data = Block(r.name, m.num)
                      /\ server' \in Server /\ server'.name = r.name /\ server'.open
                      /\ server'.dropped = r.dropped /\ server'.slots = r.slots
                      /\ server'.clientBlock = r.clientBlock
                      /\ server'.currentBlock = r.currentBlock
                      /\ server'.xmitBlock = m.num + 1 /\ m.num < r.currentBlock
                      /\ \/ m.num = r.xmitBlock /\ again' = again
                         \/ m.num = r.clientBlock /\ again' /\ r.xmitBlock = r.currentBlock
<1> DEFINE o == Opened(server)
           r == ReadAhead(o)
           s == IF r.clientBlock = r.currentBlock THEN r ELSE Rewound(r)
<1>1. server \in Server /\ server.name \in Files \ Refused /\ UNCHANGED <<client, cmds, stale>>
  BY Known DEF SV_WriteDownloadToClient
<1>2. /\ o \in Server /\ o.name = server.name /\ o.open /\ o.dropped = server.dropped /\ Readable(o)
      /\ server.open => o = server
      /\ ~server.open => o.clientBlock = 0 /\ o.xmitBlock = 0
  BY <1>1, OpenedOf DEF Opens
<1> HIDE DEF o
<1>3. /\ r \in Server /\ r.name = o.name /\ r.open = o.open /\ r.clientBlock = o.clientBlock
      /\ r.xmitBlock = o.xmitBlock /\ r.dropped = o.dropped
      /\ o.currentBlock <= r.currentBlock /\ Readable(r) /\ ReadOn(r)
      /\ r.clientBlock < r.currentBlock
  BY <1>2, ReadAheadOf
<1> HIDE DEF r
<1>10. s = Rewound(r) /\ r.clientBlock # r.currentBlock
  <2>1. r.clientBlock \in Nat /\ r.currentBlock \in Nat
    BY <1>3, ServerFields
  <2> QED BY <2>1, <1>3
<1>4. /\ s \in Server /\ s.name = r.name /\ s.open = r.open /\ s.dropped = r.dropped
      /\ s.clientBlock = r.clientBlock /\ s.currentBlock = r.currentBlock /\ s.slots = r.slots
      /\ s.xmitBlock = (IF Resends(r) THEN r.clientBlock ELSE r.xmitBlock)
      /\ ~Resends(r) => s = r
  BY <1>3, <1>10, RewoundOf
<1> HIDE DEF s
<1>5. r.clientBlock \in Nat /\ r.currentBlock \in Nat /\ r.xmitBlock \in Nat /\ s.xmitBlock \in Nat
  BY <1>3, <1>4, ServerFields
<1>6. r.clientBlock < r.currentBlock /\ r.xmitBlock <= r.currentBlock
  BY <1>3, <1>5 DEF Readable
<1>7. /\ r.name = server.name /\ r.open /\ r.dropped = server.dropped
      /\ IF server.open
         THEN /\ r.clientBlock = server.clientBlock /\ r.xmitBlock = server.xmitBlock
              /\ server.currentBlock <= r.currentBlock
         ELSE r.clientBlock = 0 /\ r.xmitBlock = 0
  BY <1>2, <1>3
<1>8. CASE s.xmitBlock = s.currentBlock
  <2>1. server' = s /\ UNCHANGED <<net, again>>
    BY <1>8, <1>10 DEF SV_WriteDownloadToClient, o, r, s
  <2>2. ~Resends(r)
    BY <1>4, <1>5, <1>6, <1>8
  <2>3. server' = r /\ r.xmitBlock = r.currentBlock
    BY <2>1, <2>2, <1>4, <1>8
  <2> QED BY <2>1, <2>3, <1>1, <1>3, <1>6, <1>7
<1>9. CASE s.xmitBlock # s.currentBlock
  <2>1. /\ net' = Sent(Message(s)) /\ server' = [s EXCEPT !.xmitBlock = @ + 1, !.late = FALSE]
        /\ again' = (again \/ Resends(r))
    BY <1>9, <1>10 DEF SV_WriteDownloadToClient, o, r, s
  <2>2. s.xmitBlock < r.currentBlock
    BY <1>4, <1>5, <1>6, <1>9
  <2>3. PICK m \in Messages :
          /\ m = Message(s) /\ m.num = s.xmitBlock /\ ~m.refused /\ m.data.file = r.name
          /\ r.currentBlock <= m.num + Window => m.data = Block(r.name, m.num)
          /\ Numbered(m)
    BY <2>2, <1>3, <1>4, MessageOf
  <2>4. /\ server' \in Server /\ server'.name = r.name /\ server'.open
        /\ server'.dropped = r.dropped /\ server'.slots = r.slots
        /\ server'.clientBlock = r.clientBlock
        /\ server'.currentBlock = r.currentBlock
        /\ server'.xmitBlock = m.num + 1
    <3> DEFINE n == s.xmitBlock + 1
    <3>1. n \in Nat /\ n = m.num + 1
      BY <1>5, <2>3
    <3> HIDE DEF n
    <3> DEFINE t == [s EXCEPT !.xmitBlock = n, !.late = FALSE]
    <3>2. server' = t
      BY <2>1, <1>4 DEF n, Server
    <3>3. FALSE \in BOOLEAN
      OBVIOUS
    <3>4. t \in Server
      BY <1>4, <3>1, <3>3, Zenon DEF Server
    <3>5. /\ t.name = s.name /\ t.open = s.open /\ t.dropped = s.dropped /\ t.slots = s.slots
          /\ t.clientBlock = s.clientBlock /\ t.currentBlock = s.currentBlock /\ t.xmitBlock = n
      BY <1>4 DEF Server
    <3> HIDE DEF t
    <3> QED BY <3>1, <3>2, <3>4, <3>5, <1>2, <1>3, <1>4
  <2>5. \/ m.num = r.xmitBlock /\ again' = again
        \/ m.num = r.clientBlock /\ again' /\ r.xmitBlock = r.currentBlock
    <3>1. again \in BOOLEAN
      BY DEF Typed, Fields
    <3>2. CASE Resends(r)
      BY <3>2, <2>1, <2>3, <1>4 DEF Resends
    <3>3. CASE ~Resends(r)
      BY <3>1, <3>3, <2>1, <2>3, <1>4
    <3> QED BY <3>2, <3>3
  <2>6. \E n \in Messages :
                      /\ net' = Sent(n) /\ Numbered(n) /\ ~n.refused /\ n.data.file = r.name
                      /\ r.currentBlock <= n.num + Window => n.data = Block(r.name, n.num)
                      /\ server' \in Server /\ server'.name = r.name /\ server'.open
                      /\ server'.dropped = r.dropped /\ server'.slots = r.slots
                      /\ server'.clientBlock = r.clientBlock
                      /\ server'.currentBlock = r.currentBlock
                      /\ server'.xmitBlock = n.num + 1 /\ n.num < r.currentBlock
                      /\ \/ n.num = r.xmitBlock /\ again' = again
                         \/ n.num = r.clientBlock /\ again' /\ r.xmitBlock = r.currentBlock
    BY <2>1, <2>2, <2>3, <2>4, <2>5
  <2> QED BY <2>6, <1>1, <1>3, <1>6, <1>7
<1> QED BY <1>8, <1>9

\* To the client that is done with the file the server sends what is left of it.
LEMMA WriteBehind ==
  ASSUME NEW p \in Files \union {None}, Steady, Following(p), SV_WriteDownloadToClient,
         NEW a \in 0..Len(cmds), Finishing(p, a), server.open, client.file = None \/ Asks
  PROVE  Steady' /\ Following(p)'
<1>1. /\ server \in Server /\ client \in Client /\ net \in Seq(Messages) /\ cmds \in Seq(Commands)
      /\ server.clientBlock \in Nat /\ server.currentBlock \in Nat /\ server.xmitBlock \in Nat
      /\ \A i \in 1..Len(net) : net[i] \in Messages /\ Numbered(net[i])
  BY Known DEF Steady
<1>2. /\ a # 0 /\ p # None /\ server.name = p /\ ~server.dropped
      /\ server.clientBlock = Size[p] + 1 - a
      /\ server.currentBlock = Size[p] + 1 /\ Size[p] < server.xmitBlock + Window
      /\ \A i \in 1..a : cmds[i] = NextDl(Size[p] - a + i)
  BY DEF Finishing
<1>3. p \in Files /\ Size[p] \in Nat /\ client.file # p
  BY <1>2, Lengths DEF Following, Phase
<1>4. client.file # None => Starts
  BY DEF Starts
<1>5. \A i \in 1..Len(net) : ~Own(net[i])
  <2>1. CASE client.file = None
    BY <2>1, <1>1, Lengths DEF Own, Numbered
  <2>2. CASE client.file # None
    BY <2>2, <1>4 DEF Following, Passing
  <2> QED BY <2>1, <2>2
<1>6. UNCHANGED <<client, cmds, stale>>
  BY WriteOf DEF Steady
<1>7. PICK r \in Server :
        /\ r.name = server.name /\ r.open /\ r.dropped = server.dropped
        /\ Readable(r) /\ ReadOn(r)
        /\ r.clientBlock = server.clientBlock /\ r.xmitBlock = server.xmitBlock
        /\ server.currentBlock <= r.currentBlock
        /\ r.clientBlock < r.currentBlock
        /\ \/ UNCHANGED <<net, again>> /\ server' = r /\ r.xmitBlock = r.currentBlock
           \/ \E m \in Messages :
                /\ net' = Sent(m) /\ Numbered(m) /\ ~m.refused /\ m.data.file = r.name
                /\ r.currentBlock <= m.num + Window => m.data = Block(r.name, m.num)
                /\ server' \in Server /\ server'.name = r.name /\ server'.open
                /\ server'.dropped = r.dropped /\ server'.slots = r.slots
                /\ server'.clientBlock = r.clientBlock
                /\ server'.currentBlock = r.currentBlock
                /\ server'.xmitBlock = m.num + 1 /\ m.num < r.currentBlock
                /\ \/ m.num = r.xmitBlock /\ again' = again
                   \/ m.num = r.clientBlock /\ again' /\ r.xmitBlock = r.currentBlock
  BY WriteOf DEF Steady
<1>8. /\ r.clientBlock \in Nat /\ r.currentBlock \in Nat /\ r.xmitBlock \in Nat
      /\ r.currentBlock = Size[p] + 1 /\ r.currentBlock <= r.clientBlock + Window
  <2>1. r.clientBlock \in Nat /\ r.currentBlock \in Nat /\ r.xmitBlock \in Nat
    BY ServerFields
  <2>2. r.currentBlock <= Size[p] + 1 /\ Size[p] + 1 <= r.currentBlock /\ r.currentBlock <= r.clientBlock + Window
    BY <1>2, <1>7 DEF Readable
  <2> QED BY <2>1, <2>2, <1>3
<1>9. Writes' /\ (server'.dropped = server.dropped => Mistakes')
  BY <1>6 DEF Steady, Writes, Mistakes
<1>10. client.file # None => Starts' /\ Starts
  BY <1>4, <1>6 DEF Starts, Asks
<1>11. ASSUME server'.open, server'.name = p, ~server'.dropped,
              server'.clientBlock = r.clientBlock, server'.currentBlock = r.currentBlock,
              Size[p] < server'.xmitBlock + Window
       PROVE  Phase(p)'
  <2>1. Finishing(p, a)'
    BY <1>2, <1>3, <1>6, <1>7, <1>8, <1>11 DEF Finishing
  <2>2. Phase(p)
    BY DEF Following
  <2>3. CASE client.file = None
    <3>1. PICK e \in 0..Len(cmds) : Finishing(p, e) /\ \A i \in (e + 1)..Len(cmds) : cmds[i] = StopDl
      BY <2>2, <2>3 DEF Phase, Ending
    <3>2. e = a
      <4>1. e # 0 /\ server.clientBlock = Size[p] + 1 - e
        BY <3>1 DEF Finishing
      <4>2. a \in Nat /\ e \in Nat /\ Size[p] + 1 - e = Size[p] + 1 - a
        BY <4>1, <1>2
      <4> QED BY <4>2, <1>3
    <3>3. Ending(p)'
      BY <2>1, <3>1, <3>2, <1>6 DEF Ending
    <3> QED BY <2>3, <3>3, <1>3, <1>6 DEF Phase
  <2>4. CASE client.file # None
    <3>1. PICK e \in 0..Len(cmds) :
            /\ Finishing(p, e)
            /\ Len(cmds) = e + 1 + client.block
            /\ cmds[e + 1] = BeginDl(client.file)
            /\ \A i \in 1..client.block : cmds[e + 1 + i] = NextDl(i - 1)
      BY <2>2, <2>4 DEF Phase, Asking
    <3>2. e = a
      <4>1. e # 0 /\ server.clientBlock = Size[p] + 1 - e
        BY <3>1 DEF Finishing
      <4>2. a \in Nat /\ e \in Nat /\ Size[p] + 1 - e = Size[p] + 1 - a
        BY <4>1, <1>2
      <4> QED BY <4>2, <1>3
    <3>3. Asking(p)'
      BY <2>1, <3>1, <3>2, <1>6 DEF Asking
    <3>4. Asks'
      BY <2>4, <1>6 DEF Asks
    <3> QED BY <2>4, <3>3, <3>4, <1>3, <1>6 DEF Phase
  <2> QED BY <2>3, <2>4
<1>12. CASE UNCHANGED <<net, again>> /\ server' = r /\ r.xmitBlock = r.currentBlock
  <2>1. Typed'
    BY <1>6, <1>12 DEF Steady, Typed, Fields, Numbered
  <2>2. Opens'
    BY <1>7, <1>12 DEF Opens, Readable, ReadOn, Holds
  <2>3. Once'
    BY <1>2, <1>3, <1>6, <1>7, <1>12 DEF Steady, Once, Own
  <2>4. Phase(p)'
    BY <1>2, <1>7, <1>11, <1>12
  <2>5. \A i \in 1..Len(net) : ~Own(net[i])' /\ Past(p, net[i])
    BY <1>5, <1>6, <1>12 DEF Own, Following, Passing
  <2>6. Passing(p)'
    BY <2>5, <1>6, <1>12 DEF Passing, Past
  <2>7. Overlap(p)'
    BY <1>6, <1>10, <1>12 DEF Following, Overlap
  <2> QED BY <2>1, <2>2, <2>3, <2>4, <2>6, <2>7, <1>7, <1>9, <1>12 DEF Steady, Following
<1>13. ASSUME NEW m \in Messages,
              /\ net' = Sent(m) /\ Numbered(m) /\ ~m.refused /\ m.data.file = r.name
              /\ r.currentBlock <= m.num + Window => m.data = Block(r.name, m.num)
              /\ server' \in Server /\ server'.name = r.name /\ server'.open
              /\ server'.dropped = r.dropped /\ server'.slots = r.slots
              /\ server'.clientBlock = r.clientBlock
              /\ server'.currentBlock = r.currentBlock
              /\ server'.xmitBlock = m.num + 1 /\ m.num < r.currentBlock
              /\ \/ m.num = r.xmitBlock /\ again' = again
                 \/ m.num = r.clientBlock /\ again' /\ r.xmitBlock = r.currentBlock
       PROVE  Steady' /\ Following(p)'
  <2>1. m.num \in Nat
    BY MessageFields
  <2>2. again'
    <3>1. ASSUME ~again, m.num = r.xmitBlock PROVE FALSE
      <4>1. server.xmitBlock = server.currentBlock
        BY <3>1, <1>2, <1>3 DEF Steady, Once
      <4>2. m.num = Size[p] + 1 /\ m.num < Size[p] + 1
        BY <3>1, <4>1, <1>2, <1>7, <1>8, <1>13
      <4> QED BY <4>2, <2>1, <1>3
    <3> QED BY <3>1, <1>13
  <2>3. Size[p] < m.num + Window /\ m.num <= Size[p] /\ r.currentBlock <= m.num + Window
    <3>1. Size[p] < m.num + Window
      <4>1. CASE m.num = r.xmitBlock
        BY <4>1, <1>2, <1>7
      <4>2. CASE m.num = r.clientBlock
        BY <4>2, <1>3, <1>8, Limits
      <4> QED BY <4>1, <4>2, <1>13
    <3>2. Size[p] \in Nat /\ m.num < Size[p] + 1 /\ r.currentBlock = Size[p] + 1 /\ Window \in Nat
      BY <1>3, <1>8, <1>13, Limits
    <3> QED BY <3>1, <3>2, <2>1
  <2>4. Past(p, m) /\ ~Own(m)
    BY <2>3, <1>2, <1>3, <1>7, <1>13 DEF Past, Own
  <2>5. /\ net' \in Seq(Messages) /\ Len(net') <= MaxBlocks /\ Len(net') \in Nat
        /\ \A k \in 1..Len(net') : Numbered(net'[k])
    BY <1>13, Added DEF Steady
  <2>6. Typed'
    BY <2>2, <2>5, <1>6, <1>13 DEF Steady, Typed, Fields
  <2>7. Opens'
    <3>1. server'.xmitBlock <= server'.currentBlock
      BY <2>1, <1>8, <1>13
    <3> QED BY <3>1, <1>7, <1>13 DEF Opens, Readable, ReadOn, Holds
  <2>8. Once'
    BY <2>2 DEF Once
  <2>9. Phase(p)'
    <3>1. Size[p] < server'.xmitBlock + Window
      <4>1. Size[p] \in Nat /\ Window \in Nat /\ server'.xmitBlock = m.num + 1 /\ Size[p] < m.num + Window
        BY <2>3, <1>3, <1>13, Limits
      <4> QED BY <4>1, <2>1
    <3> QED BY <3>1, <1>2, <1>7, <1>11, <1>13
  <2>10. Passing(p)'
    <3>1. \A x \in Messages : Own(x) /\ Present(x) => Present(x)'
      BY <1>2, <1>3, <1>6, <1>7, <1>13 DEF Present
    <3>2. server'.name # None
      BY <1>2, <1>7, <1>13
    <3> QED BY <2>4, <3>1, <3>2, <1>5, <1>6, <1>13, PassingSent DEF Steady, Following
  <2>11. Overlap(p)'
    BY <1>6, <1>10 DEF Following, Overlap
  <2> QED BY <2>6, <2>7, <2>8, <2>9, <2>10, <2>11, <1>7, <1>9, <1>13 DEF Steady, Following
<1> QED BY <1>7, <1>12, <1>13

\* To the client that waits for its file the server sends what is in the window.
LEMMA WriteAhead ==
  ASSUME NEW p \in Files \union {None}, Steady, Following(p), SV_WriteDownloadToClient,
         client.file # None, ~Asks, Serving, Sending \/ Beginning
  PROVE  Steady' /\ Following(p)'
<1>1. /\ server \in Server /\ client \in Client /\ net \in Seq(Messages) /\ cmds \in Seq(Commands)
      /\ client.block \in Nat /\ client.file \in Files /\ Size[client.file] \in Nat
      /\ Len(cmds) \in Nat /\ Window \in Nat /\ Window > 0
      /\ server.currentBlock \in Nat /\ server.xmitBlock \in Nat
      /\ \A i \in 1..Len(net) : net[i] \in Messages /\ net[i].num \in Nat
  BY Known, Lengths, Limits DEF Steady
<1>2. server.name = client.file /\ ~server.dropped /\ Len(cmds) <= client.block
  BY DEF Sending, Beginning, Serving
<1>3. UNCHANGED <<client, cmds, stale>>
  BY WriteOf DEF Steady
<1>4. PICK r \in Server :
        /\ r.name = server.name /\ r.open /\ r.dropped = server.dropped
        /\ Readable(r) /\ ReadOn(r)
        /\ IF server.open
           THEN /\ r.clientBlock = server.clientBlock /\ r.xmitBlock = server.xmitBlock
                /\ server.currentBlock <= r.currentBlock
           ELSE r.clientBlock = 0 /\ r.xmitBlock = 0
        /\ r.clientBlock < r.currentBlock
        /\ \/ UNCHANGED <<net, again>> /\ server' = r /\ r.xmitBlock = r.currentBlock
           \/ \E m \in Messages :
                /\ net' = Sent(m) /\ Numbered(m) /\ ~m.refused /\ m.data.file = r.name
                /\ r.currentBlock <= m.num + Window => m.data = Block(r.name, m.num)
                /\ server' \in Server /\ server'.name = r.name /\ server'.open
                /\ server'.dropped = r.dropped /\ server'.slots = r.slots
                /\ server'.clientBlock = r.clientBlock
                /\ server'.currentBlock = r.currentBlock
                /\ server'.xmitBlock = m.num + 1 /\ m.num < r.currentBlock
                /\ \/ m.num = r.xmitBlock /\ again' = again
                   \/ m.num = r.clientBlock /\ again' /\ r.xmitBlock = r.currentBlock
  BY WriteOf DEF Steady
<1>5. /\ r.clientBlock \in Nat /\ r.currentBlock \in Nat /\ r.xmitBlock \in Nat
      /\ r.currentBlock <= r.clientBlock + Window /\ r.currentBlock <= Size[client.file] + 1
      /\ r.xmitBlock <= r.currentBlock
  BY <1>2, <1>4, ServerFields DEF Readable
<1>6. /\ r.clientBlock = client.block - Len(cmds)
      /\ client.block <= r.xmitBlock + Window /\ client.block <= r.clientBlock + Window
      /\ client.block <= r.currentBlock \/ r.currentBlock = Size[client.file] + 1
  <2>1. CASE server.open
    <3>1. Sending
      BY <2>1 DEF Beginning
    <3>2. /\ server.clientBlock = client.block - Len(cmds)
          /\ client.block <= server.xmitBlock + Window /\ client.block <= server.clientBlock + Window
          /\ client.block <= server.currentBlock \/ server.currentBlock = Size[client.file] + 1
      BY <3>1 DEF Sending
    <3>3. server.currentBlock <= r.currentBlock /\ r.clientBlock = server.clientBlock /\ r.xmitBlock = server.xmitBlock
      BY <2>1, <1>4
    <3> QED BY <3>2, <3>3, <1>1, <1>5
  <2>2. CASE ~server.open
    <3>1. r.clientBlock = 0 /\ r.xmitBlock = 0
      BY <2>2, <1>4
    <3>2. Len(cmds) = client.block /\ client.block <= Window
      BY <2>2, <1>1, <1>2, NotBegun, Lengths
    <3>3. r.currentBlock >= Window \/ r.currentBlock = Size[client.file] + 1
      BY <1>2, <1>4 DEF ReadOn
    <3> QED BY <3>1, <3>2, <3>3, <1>1, <1>5
  <2> QED BY <2>1, <2>2
<1>7. \A i \in 1..Len(net) : Own(net[i]) => net[i].num < r.currentBlock /\ net[i].num < r.xmitBlock + Window
  <2>1. CASE server.open
    <3> SUFFICES ASSUME NEW i \in 1..Len(net), Own(net[i])
                 PROVE  net[i].num < r.currentBlock /\ net[i].num < r.xmitBlock + Window
      OBVIOUS
    <3>1. Present(net[i])
      BY DEF Following, Passing
    <3>2. net[i].num < server.currentBlock /\ net[i].num < server.xmitBlock + Window
      BY <2>1, <3>1, <1>2 DEF Present
    <3>3. server.currentBlock <= r.currentBlock /\ r.xmitBlock = server.xmitBlock /\ net[i].num \in Nat
      BY <2>1, <1>1, <1>4
    <3> QED BY <3>2, <3>3, <1>1, <1>5
  <2>2. CASE ~server.open
    BY <2>2, <1>1, <1>2, NotBegun, Lengths
  <2> QED BY <2>1, <2>2
<1>8. ~again => /\ stale = {} /\ client.state # "failed"
                /\ \A i \in 1..Len(net) : Own(net[i]) /\ net[i].num >= client.block
                /\ \A i, k \in 1..Len(net) : i < k => net[i].num < net[k].num
                /\ client.block <= r.xmitBlock
                /\ \A i \in 1..Len(net) : net[i].num < r.xmitBlock
  <2>1. ASSUME ~again
        PROVE  /\ client.block <= r.xmitBlock
               /\ \A i \in 1..Len(net) : net[i].num < r.xmitBlock
    <3>1. CASE server.open
      BY <2>1, <3>1, <1>2, <1>4 DEF Steady, Once
    <3>2. CASE ~server.open
      <4>1. client.block = 0 /\ \A i \in 1..Len(net) : FALSE
        BY <2>1, <3>2, <1>1, <1>2, NotBegun, Lengths DEF Steady, Once
      <4> QED BY <4>1, <1>5
    <3> QED BY <3>1, <3>2
  <2> QED BY <2>1 DEF Steady, Once
<1>9. Writes' /\ (server'.dropped = server.dropped => Mistakes')
  BY <1>3 DEF Steady, Writes, Mistakes
<1>10. ~Asks'
  BY <1>3 DEF Asks
<1>11. server'.open => ~Starts'
  BY <1>10 DEF Starts
<1>12. ASSUME server'.open, server'.name = client.file, ~server'.dropped,
              server'.clientBlock = r.clientBlock, server'.currentBlock = r.currentBlock,
              client.block <= server'.xmitBlock + Window
       PROVE  Phase(p)'
  <2>1. Sending'
    BY <1>3, <1>6, <1>12 DEF Sending
  <2>2. Serving'
    BY <2>1, <1>3 DEF Serving
  <2> QED BY <2>2, <1>3, <1>10 DEF Following, Phase
<1>13. Overlap(p)' \/ ~server'.open \/ \E i \in 1..Len(net') : ~Own(net[i])'
  BY <1>11 DEF Overlap
<1>14. ASSUME client.block > 0, NEW i \in 1..Len(net), ~Own(net[i])
       PROVE  stale # {} /\ p # None
              /\ \E base \in 0..Size[p] :
                   base % BlockMod = 0 /\ base + client.block <= Size[p] + 1 /\ Size[p] < base + Window
  BY <1>14 DEF Following, Overlap
<1>15. CASE UNCHANGED <<net, again>> /\ server' = r /\ r.xmitBlock = r.currentBlock
  <2>1. Typed'
    BY <1>3, <1>15 DEF Steady, Typed, Fields, Numbered
  <2>2. Opens'
    BY <1>4, <1>15 DEF Opens, Readable, ReadOn, Holds
  <2>3. Once'
    BY <1>2, <1>3, <1>4, <1>8, <1>15 DEF Once, Own
  <2>4. Phase(p)'
    BY <1>2, <1>4, <1>6, <1>12, <1>15
  <2>5. \A i \in 1..Len(net) : (Own(net[i])' <=> Own(net[i])) /\ (Own(net[i]) => Present(net[i])')
    <3> SUFFICES ASSUME NEW i \in 1..Len(net)
                 PROVE  (Own(net[i])' <=> Own(net[i])) /\ (Own(net[i]) => Present(net[i])')
      OBVIOUS
    <3>1. Own(net[i])' <=> Own(net[i])
      BY <1>3, <1>15 DEF Own
    <3>2. ASSUME Own(net[i]) PROVE Present(net[i])'
      <4>1. Present(net[i])
        BY <3>2 DEF Following, Passing
      <4>2. net[i].num < r.currentBlock /\ net[i].num < r.xmitBlock + Window
        BY <3>2, <1>7
      <4> QED BY <4>1, <4>2, <1>3, <1>15 DEF Present
    <3> QED BY <3>1, <3>2
  <2>6. Passing(p)'
    <3>1. server'.name # None /\ ~Starts'
      BY <1>1, <1>2, <1>4, <1>11, <1>15
    <3> QED BY <2>5, <3>1, <1>3, <1>15 DEF Following, Passing, Past
  <2>7. Overlap(p)'
    BY <2>5, <1>3, <1>4, <1>11, <1>14, <1>15 DEF Overlap
  <2> QED BY <2>1, <2>2, <2>3, <2>4, <2>6, <2>7, <1>4, <1>9, <1>15 DEF Steady, Following
<1>16. ASSUME NEW m \in Messages,
              /\ net' = Sent(m) /\ Numbered(m) /\ ~m.refused /\ m.data.file = r.name
              /\ r.currentBlock <= m.num + Window => m.data = Block(r.name, m.num)
              /\ server' \in Server /\ server'.name = r.name /\ server'.open
              /\ server'.dropped = r.dropped /\ server'.slots = r.slots
              /\ server'.clientBlock = r.clientBlock
              /\ server'.currentBlock = r.currentBlock
              /\ server'.xmitBlock = m.num + 1 /\ m.num < r.currentBlock
              /\ \/ m.num = r.xmitBlock /\ again' = again
                 \/ m.num = r.clientBlock /\ again' /\ r.xmitBlock = r.currentBlock
       PROVE  Steady' /\ Following(p)'
  <2>1. m.num \in Nat /\ Own(m)
    BY <1>2, <1>4, <1>16, MessageFields DEF Own
  <2>2. /\ client.block <= m.num + Window /\ m.num < client.block + Window
        /\ m.num <= Size[client.file]
    <3>1. client.block <= m.num + Window
      BY <1>6, <1>16
    <3>2. m.num < client.block + Window /\ m.num <= Size[client.file]
      <4>1. /\ r.clientBlock <= client.block
            /\ r.currentBlock <= r.clientBlock + Window /\ r.currentBlock <= Size[client.file] + 1
            /\ m.num < r.currentBlock
        BY <1>1, <1>5, <1>6, <1>16
      <4> QED BY SMTT(30), <4>1, <2>1, <1>1, <1>5
    <3> QED BY <3>1, <3>2
  <2>3. m.num >= client.block \/ m.num + Window > Size[client.file]
          => m.data = Block(client.file, m.num)
    <3>1. m.num >= client.block \/ m.num + Window > Size[client.file]
            => r.currentBlock <= m.num + Window
      <4>1. /\ r.clientBlock <= client.block
            /\ r.currentBlock <= r.clientBlock + Window /\ r.currentBlock <= Size[client.file] + 1
        BY <1>1, <1>5, <1>6
      <4>2. /\ r.clientBlock \in Nat /\ r.currentBlock \in Nat /\ client.block \in Nat
            /\ m.num \in Nat /\ Size[client.file] \in Nat /\ Window \in Nat
        BY <2>1, <1>1, <1>5
      <4>3. CASE m.num >= client.block
        BY <4>1, <4>2, <4>3
      <4>4. CASE m.num + Window > Size[client.file]
        BY <4>1, <4>2, <4>4
      <4> QED BY <4>3, <4>4
    <3> QED BY <3>1, <1>2, <1>4, <1>16
  <2>4. server'.xmitBlock \in Nat /\ server'.xmitBlock <= r.currentBlock
        /\ client.block <= server'.xmitBlock + Window /\ m.num < server'.xmitBlock + Window
    <3>1. server'.xmitBlock = m.num + 1 /\ m.num < r.currentBlock
      BY <1>16
    <3> QED BY SMTT(30), <3>1, <2>1, <2>2, <1>1, <1>5
  <2>5. Present(m)'
    BY <2>2, <2>3, <2>4, <1>3, <1>16 DEF Present
  <2>6. ASSUME NEW i \in 1..Len(net), Own(net[i])
        PROVE  /\ net[i].num < r.currentBlock /\ net[i].num < server'.xmitBlock + Window
               /\ net[i].num < m.num + Window
    <3>1. net[i].num < r.currentBlock /\ net[i].num < r.xmitBlock + Window /\ net[i].num \in Nat
      BY <2>6, <1>1, <1>7
    <3>2. net[i].num < m.num + Window
      <4>1. CASE m.num = r.xmitBlock
        BY <3>1, <4>1
      <4>2. CASE m.num = r.clientBlock
        BY SMTT(30), <3>1, <4>2, <1>1, <1>5
      <4> QED BY <4>1, <4>2, <1>16
    <3>3. server'.xmitBlock = m.num + 1
      BY <1>16
    <3>4. net[i].num < server'.xmitBlock + Window
      BY <3>1, <3>2, <3>3, <2>1, <1>1
    <3> QED BY <3>1, <3>2, <3>4
  <2>7. PICK d \in 0..Len(net) :
          \A k \in 1..Len(net') :
            \/ k < Len(net') /\ k + d \in 1..Len(net) /\ net'[k] = net[k + d]
            \/ k = Len(net') /\ net'[k] = m
    BY <1>16, Added DEF Steady
  <2>8. /\ net' \in Seq(Messages) /\ Len(net') <= MaxBlocks /\ Len(net') \in Nat
        /\ \A k \in 1..Len(net') : Numbered(net'[k])
    BY <1>16, Added DEF Steady
  <2>9. Typed'
    <3>1. again' \in BOOLEAN
      BY <1>16 DEF Steady, Typed, Fields
    <3> QED BY <2>8, <3>1, <1>3, <1>16 DEF Steady, Typed, Fields
  <2>10. Opens'
    BY <2>4, <1>4, <1>16 DEF Opens, Readable, ReadOn, Holds
  <2>11. Once'
    <3>1. CASE again'
      BY <3>1 DEF Once
    <3>2. CASE ~again'
      <4>1. ~again /\ m.num = r.xmitBlock
        BY <3>2, <1>16
      <4>2. /\ stale = {} /\ client.state # "failed"
            /\ \A i \in 1..Len(net) : Own(net[i]) /\ net[i].num >= client.block
            /\ \A i, k \in 1..Len(net) : i < k => net[i].num < net[k].num
            /\ client.block <= m.num
            /\ \A i \in 1..Len(net) : net[i].num < m.num
        BY <4>1, <1>8
      <4>3. \A i \in 1..Len(net') : Own(net[i])' /\ net'[i].num >= client.block /\ net'[i].num < server'.xmitBlock
        <5> SUFFICES ASSUME NEW i \in 1..Len(net')
                     PROVE  Own(net[i])' /\ net'[i].num >= client.block /\ net'[i].num < server'.xmitBlock
          OBVIOUS
        <5>1. CASE i + d \in 1..Len(net) /\ net'[i] = net[i + d]
          <6>1. Own(net[i + d]) /\ net[i + d].num >= client.block /\ net[i + d].num < m.num /\ net[i + d].num \in Nat
            BY <5>1, <4>2, <1>1
          <6>2. server'.xmitBlock = m.num + 1
            BY <1>16
          <6>3. Own(net[i])'
            BY <5>1, <6>1, <1>3 DEF Own
          <6>4. net[i + d].num < server'.xmitBlock
            BY <6>1, <6>2, <2>1
          <6> QED BY <5>1, <6>1, <6>3, <6>4
        <5>2. CASE net'[i] = m
          <6>1. Own(net[i])'
            BY <5>2, <2>1, <1>3 DEF Own
          <6>2. m.num < server'.xmitBlock /\ m.num >= client.block
            BY <4>2, <2>1, <1>1, <1>16
          <6> QED BY <5>2, <6>1, <6>2
        <5> QED BY <5>1, <5>2, <2>7
      <4>4. ASSUME NEW i \in 1..Len(net'), NEW k \in 1..Len(net'), i < k
            PROVE  net'[i].num < net'[k].num
        <5>1. i + d \in 1..Len(net) /\ net'[i] = net[i + d]
          BY <4>4, <2>7, <2>8
        <5>2. CASE k + d \in 1..Len(net) /\ net'[k] = net[k + d]
          <6>1. i + d < k + d
            BY <4>4
          <6> QED BY <5>1, <5>2, <6>1, <4>2
        <5>3. CASE net'[k] = m
          BY <5>1, <5>3, <4>2
        <5> QED BY <5>2, <5>3, <2>7
      <4>5. client.block <= server'.xmitBlock
        BY <4>2, <2>1, <1>1, <1>16
      <4> QED BY <4>2, <4>3, <4>4, <4>5, <1>2, <1>3, <1>4, <1>16 DEF Once
    <3> QED BY <3>1, <3>2
  <2>12. Phase(p)'
    BY <2>4, <1>2, <1>4, <1>12, <1>16
  <2>13. Passing(p)'
    <3>1. ASSUME NEW x \in Messages, Own(x), Present(x), NEW i \in 1..Len(net), x = net[i]
          PROVE  Present(x)'
      <4>1. x.num < r.currentBlock /\ x.num < server'.xmitBlock + Window
        BY <2>6, <3>1
      <4> QED BY <4>1, <3>1, <1>3, <1>16 DEF Present
    <3>2. server'.name # None /\ ~Starts'
      BY <1>1, <1>2, <1>4, <1>11, <1>16
    <3> QED BY <2>1, <2>5, <2>6, <3>1, <3>2, <1>3, <1>16, PassingSent DEF Steady, Following
  <2>14. Overlap(p)'
    <3>1. ASSUME NEW k \in 1..Len(net'), ~Own(net[k])'
          PROVE  \E i \in 1..Len(net) : ~Own(net[i])
      <4>1. net'[k] # m
        BY <3>1, <2>1, <1>3 DEF Own
      <4>2. k + d \in 1..Len(net) /\ net'[k] = net[k + d]
        BY <4>1, <2>7
      <4> QED BY <3>1, <4>2, <1>3 DEF Own
    <3> QED BY <3>1, <1>3, <1>11, <1>14, <1>16 DEF Overlap
  <2> QED BY <2>9, <2>10, <2>11, <2>12, <2>13, <2>14, <1>4, <1>9, <1>16 DEF Steady, Following
<1> QED BY <1>4, <1>15, <1>16

LEMMA WriteKeeps ==
  ASSUME NEW p \in Files \union {None}, Steady, Following(p), SV_WriteDownloadToClient
  PROVE  Steady' /\ Following(p)'
<1>1. server.name # None /\ server.name \notin Refused /\ server.open \in BOOLEAN
  BY Known DEF Steady, SV_WriteDownloadToClient
<1>2. CASE ~server.open
  BY <1>1, <1>2, NotBegun, WriteAhead
<1>3. CASE server.open
  <2>1. CASE client.file = None
    <3>1. PICK a \in 0..Len(cmds) : Finishing(p, a)
      BY <2>1 DEF Following, Phase, Ending
    <3> QED BY <2>1, <3>1, <1>3, WriteBehind
  <2>2. CASE client.file # None /\ Asks
    <3>1. PICK a \in 0..Len(cmds) : Finishing(p, a)
      BY <2>2 DEF Following, Phase, Asking
    <3> QED BY <2>2, <3>1, <1>3, WriteBehind
  <2>3. CASE client.file # None /\ ~Asks
    <3>1. Serving
      BY <2>3 DEF Following, Phase
    <3>2. Sending
      BY <3>1, <1>3 DEF Serving, Beginning, Over
    <3> QED BY <2>3, <3>1, <3>2, WriteAhead
  <2> QED BY <2>1, <2>2, <2>3
<1> QED BY <1>1, <1>2, <1>3

-----------------------------------------------------------------------------
(* The server executes a command.                                             *)

LEMMA ClosedOf ==
  ASSUME NEW s \in Server
  PROVE  /\ Closed(s) \in Server /\ Closed(s).name = None /\ ~Closed(s).open
         /\ Closed(s).clientBlock = s.clientBlock /\ Closed(s).slots = s.slots
         /\ Closed(s).dropped = s.dropped
<1>1. Closed(s) \in Server
  <2>1. FALSE \in BOOLEAN
    OBVIOUS
  <2> QED BY <2>1, Zenon DEF Closed, Server
<1>2. /\ Closed(s).name = None /\ ~Closed(s).open
      /\ Closed(s).clientBlock = s.clientBlock /\ Closed(s).slots = s.slots
      /\ Closed(s).dropped = s.dropped
  BY DEF Closed, Server
<1> QED BY <1>1, <1>2

\* What "nextdl" does to the download.
LEMMA NextDownloadOf ==
  ASSUME NEW s \in Server, NEW n
  PROVE  LET t == NextDownload(s, n) IN
         /\ t \in Server
         /\ \/ n # s.clientBlock /\ t.dropped /\ ~t.open /\ t.name = None
            \/ /\ n = s.clientBlock /\ Ends(s.slots[n % Window])
               /\ t.dropped = s.dropped /\ ~t.open /\ t.name = None
               /\ t.clientBlock = s.clientBlock /\ t.slots = s.slots
            \/ /\ n = s.clientBlock /\ ~Ends(s.slots[n % Window])
               /\ t.dropped = s.dropped /\ t.open = s.open /\ t.name = s.name
               /\ t.clientBlock = s.clientBlock + 1 /\ t.slots = s.slots
               /\ t.currentBlock = s.currentBlock /\ t.xmitBlock = s.xmitBlock
<1>1. CASE n # s.clientBlock
  <2> DEFINE t == [Closed(s) EXCEPT !.dropped = TRUE]
  <2>1. NextDownload(s, n) = t
    BY <1>1 DEF NextDownload
  <2>2. Closed(s) \in Server /\ Closed(s).name = None /\ ~Closed(s).open
    BY ClosedOf
  <2>3. t \in Server
    <3>1. TRUE \in BOOLEAN
      OBVIOUS
    <3> QED BY <2>2, <3>1, Zenon DEF Server
  <2>4. t.dropped /\ t.open = Closed(s).open /\ t.name = Closed(s).name
    BY <2>2 DEF Server
  <2> HIDE DEF t
  <2> QED BY <1>1, <2>1, <2>2, <2>3, <2>4
<1>2. CASE n = s.clientBlock /\ Ends(s.slots[n % Window])
  <2>1. NextDownload(s, n) = Closed(s)
    BY <1>2 DEF NextDownload
  <2> QED BY <1>2, <2>1, ClosedOf
<1>3. CASE n = s.clientBlock /\ ~Ends(s.slots[n % Window])
  <2> DEFINE k == s.clientBlock + 1
  <2>1. k \in Nat /\ FALSE \in BOOLEAN
    BY ServerFields
  <2> HIDE DEF k
  <2> DEFINE t == [s EXCEPT !.clientBlock = k, !.late = FALSE]
  <2>2. NextDownload(s, n) = t
    BY <1>3 DEF NextDownload, k, Server
  <2>3. t \in Server
    BY <2>1, Zenon DEF Server
  <2>4. /\ t.dropped = s.dropped /\ t.open = s.open /\ t.name = s.name
        /\ t.clientBlock = k /\ t.slots = s.slots
        /\ t.currentBlock = s.currentBlock /\ t.xmitBlock = s.xmitBlock
    BY DEF Server
  <2> HIDE DEF t
  <2> QED BY <1>3, <2>2, <2>3, <2>4 DEF k
<1> QED BY <1>1, <1>2, <1>3

LEMMA CommandOf ==
  ASSUME Typed, SV_ClientCommand
  PROVE  /\ UNCHANGED <<client, net, again, stale>> /\ ~server.dropped
         /\ cmds' \in Seq(Commands) /\ Len(cmds') = Len(cmds) - 1 /\ Len(cmds) > 0
         /\ \A k \in 1..Len(cmds') : k + 1 \in 1..Len(cmds) /\ cmds'[k] = cmds[k + 1]
         /\ \A n : cmds[1] = NextDl(n) => server' = NextDownload(server, n)
         /\ \A f : cmds[1] = BeginDl(f) => server' = [Closed(server) EXCEPT !.name = f]
         /\ cmds[1] = StopDl => server' = Closed(server)
<1>1. cmds \in Seq(Commands) /\ cmds # <<>> /\ Len(cmds) \in Nat
  BY Known DEF SV_ClientCommand
<1>2. /\ UNCHANGED <<client, net, again, stale>> /\ ~server.dropped /\ cmds' = Tail(cmds)
  BY DEF SV_ClientCommand
<1>3. /\ cmds' \in Seq(Commands) /\ Len(cmds') = Len(cmds) - 1 /\ Len(cmds) > 0
      /\ \A k \in 1..(Len(cmds) - 1) : cmds'[k] = cmds[k + 1]
      /\ Head(cmds) = cmds[1]
  BY <1>1, <1>2, TailOf
<1>4. \A k \in 1..Len(cmds') : k + 1 \in 1..Len(cmds) /\ cmds'[k] = cmds[k + 1]
  BY <1>1, <1>3
<1>5. \/ cmds[1].cmd = "nextdl" /\ server' = NextDownload(server, cmds[1].arg)
      \/ cmds[1].cmd = "download" /\ server' = [Closed(server) EXCEPT !.name = cmds[1].arg]
      \/ cmds[1].cmd = "stopdl" /\ server' = Closed(server)
  BY <1>3 DEF SV_ClientCommand
<1>6. \A n : cmds[1] = NextDl(n) => server' = NextDownload(server, n)
  BY <1>5, CommandFields
<1>7. \A f : cmds[1] = BeginDl(f) => server' = [Closed(server) EXCEPT !.name = f]
  BY <1>5, CommandFields
<1>8. cmds[1] = StopDl => server' = Closed(server)
  BY <1>5, CommandFields
<1> QED BY <1>2, <1>3, <1>4, <1>6, <1>7, <1>8

\* What is under way stays in order when the server only executes commands.
LEMMA PassingStill ==
  ASSUME NEW p \in Files \union {None}, Passing(p), UNCHANGED <<client, net, stale>>,
         \A i \in 1..Len(net) : Own(net[i]) /\ Present(net[i]) => Present(net[i])',
         Starts' => \A i \in 1..Len(net) : ~Own(net[i]),
         ~(client.file # None /\ server'.name = None /\ ~Asks' /\ stale = {})
  PROVE  Passing(p)'
<1>1. \A i \in 1..Len(net) : Own(net[i])' <=> Own(net[i])
  BY DEF Own
<1>2. \A i \in 1..Len(net') : IF Own(net[i])' THEN Present(net[i])' ELSE Past(p, net'[i])
  BY <1>1 DEF Passing
<1>3. \A i, k \in 1..Len(net') :
        i < k /\ Own(net[i])' => Own(net[k])' /\ net'[i].num < net'[k].num + Window
  BY <1>1 DEF Passing
<1>4. Starts' => \A i \in 1..Len(net') : ~Own(net[i])'
  BY <1>1
<1> QED BY <1>2, <1>3, <1>4 DEF Passing, Past


LEMMA CommandLeaves ==
  ASSUME Typed, Writes, UNCHANGED <<client, net, again, stale>>,
         server' \in Server, cmds' \in Seq(Commands)
  PROVE  Typed' /\ Writes'
<1>1. Typed'
  BY DEF Typed, Fields, Numbered
<1>2. client' = client /\ stale' = stale
  OBVIOUS
<1>3. Writes'
  BY <1>2 DEF Writes
<1> QED BY <1>1, <1>3

\* An acknowledgement of the file before: the last one closes it.
LEMMA AckBehindOf ==
  ASSUME NEW p \in Files \union {None}, Steady, SV_ClientCommand,
         NEW a \in 1..Len(cmds), Finishing(p, a)
  PROVE  /\ p \in Files /\ server.open /\ server.name = p
         /\ server' \in Server /\ ~server'.dropped /\ Opens'
         /\ a - 1 \in 0..Len(cmds') /\ Finishing(p, a - 1)'
         /\ server'.open => /\ server'.name = p /\ server'.xmitBlock = server.xmitBlock
                            /\ server'.currentBlock = server.currentBlock
         /\ ~server'.open => server'.name = None
<1>1. /\ server \in Server /\ Len(cmds) \in Nat /\ server.clientBlock \in Nat
      /\ server.currentBlock \in Nat /\ server.xmitBlock \in Nat /\ ~server.dropped
  BY Known, CommandOf DEF Steady
<1>2. /\ cmds' \in Seq(Commands) /\ Len(cmds') = Len(cmds) - 1
      /\ \A k \in 1..Len(cmds') : k + 1 \in 1..Len(cmds) /\ cmds'[k] = cmds[k + 1]
  BY CommandOf DEF Steady
<1>3. /\ p # None /\ server.open /\ server.name = p /\ server.clientBlock = Size[p] + 1 - a
      /\ server.currentBlock = Size[p] + 1 /\ Size[p] < server.xmitBlock + Window
      /\ \A i \in 1..a : cmds[i] = NextDl(Size[p] - a + i)
  BY DEF Finishing
<1>4. p \in Files /\ Size[p] \in Nat
  BY <1>3, Lengths
<1>5. Readable(server) /\ ReadOn(server)
  BY <1>3 DEF Steady, Opens
<1> DEFINE n == server.clientBlock
           t == NextDownload(server, n)
<1>6. cmds[1] = NextDl(n) /\ server' = t
  <2>1. 1 \in 1..a /\ Size[p] - a + 1 = n
    BY <1>3, <1>4
  <2>2. cmds[1] = NextDl(Size[p] - a + 1)
    BY <2>1, <1>3
  <2>3. cmds[1] = NextDl(n)
    BY <2>1, <2>2
  <2> QED BY <2>3, CommandOf DEF Steady
<1>7. server.slots[n % Window] = Block(p, n)
  <2>1. n < server.currentBlock /\ server.currentBlock <= n + Window
    BY <1>1, <1>3, <1>4, <1>5 DEF Readable
  <2> QED BY <2>1, <1>1, <1>3, <1>5, InWindow
<1>8. Ends(server.slots[n % Window]) <=> a = 1
  <2>1. Ends(Block(p, n)) <=> n = Size[p]
    BY <1>3, BlockFields DEF Ends
  <2>2. n = Size[p] <=> a = 1
    BY <1>3, <1>4
  <2> QED BY <1>7, <2>1, <2>2
<1>9. /\ t \in Server
      /\ \/ n # server.clientBlock
         \/ /\ Ends(server.slots[n % Window])
            /\ t.dropped = server.dropped /\ ~t.open /\ t.name = None
            /\ t.clientBlock = server.clientBlock /\ t.slots = server.slots
         \/ /\ ~Ends(server.slots[n % Window])
            /\ t.dropped = server.dropped /\ t.open = server.open /\ t.name = server.name
            /\ t.clientBlock = server.clientBlock + 1 /\ t.slots = server.slots
            /\ t.currentBlock = server.currentBlock /\ t.xmitBlock = server.xmitBlock
  BY <1>1, NextDownloadOf
<1>10. a - 1 \in 0..Len(cmds')
  BY <1>1, <1>2
<1>11. \A i \in 1..(a - 1) : cmds'[i] = NextDl(Size[p] - (a - 1) + i)
  <2> SUFFICES ASSUME NEW i \in 1..(a - 1)
               PROVE  cmds'[i] = NextDl(Size[p] - (a - 1) + i)
    OBVIOUS
  <2>1. i + 1 \in 1..a /\ i \in 1..Len(cmds') /\ Size[p] - a + (i + 1) = Size[p] - (a - 1) + i
    BY <1>1, <1>2, <1>4
  <2>2. cmds'[i] = cmds[i + 1]
    BY <2>1, <1>2
  <2>3. cmds[i + 1] = NextDl(Size[p] - a + (i + 1))
    BY <2>1, <1>3
  <2> QED BY <2>1, <2>2, <2>3
<1> HIDE DEF t
<1>12. CASE a = 1
  <2>1. /\ ~t.dropped /\ ~t.open /\ t.name = None
        /\ t.clientBlock = server.clientBlock /\ t.slots = server.slots
    BY <1>1, <1>8, <1>9, <1>12
  <2>2. Opens'
    BY <2>1, <1>6, <1>8, <1>12 DEF Opens
  <2>3. Finishing(p, a - 1)'
    BY <2>1, <1>6, <1>11, <1>12 DEF Finishing
  <2> QED BY <2>1, <2>2, <2>3, <1>3, <1>4, <1>6, <1>9, <1>10
<1>13. CASE a # 1
  <2>1. /\ ~t.dropped /\ t.open /\ t.name = p /\ t.clientBlock = server.clientBlock + 1
        /\ t.slots = server.slots /\ t.currentBlock = server.currentBlock
        /\ t.xmitBlock = server.xmitBlock
    BY <1>1, <1>3, <1>8, <1>9, <1>13
  <2>2. /\ t.clientBlock <= t.currentBlock /\ t.clientBlock <= Size[p]
        /\ t.currentBlock <= t.clientBlock + Window
    <3>1. server.currentBlock <= server.clientBlock + Window
      BY <1>5 DEF Readable
    <3> QED BY SMTT(30), <2>1, <3>1, <1>1, <1>3, <1>4, <1>13, Limits
  <2>3. Opens'
    <3>1. Readable(t)
      BY <2>1, <2>2, <1>3, <1>5 DEF Readable, Holds
    <3>2. ReadOn(t)
      BY <2>1, <1>3, <1>5 DEF ReadOn
    <3>3. (Readable(server) /\ ReadOn(server))'
      BY <3>1, <3>2, <1>6 DEF Readable, ReadOn, Holds
    <3> QED BY <3>3, <2>1, <1>6 DEF Opens
  <2>4. Finishing(p, a - 1)'
    <3>1. a - 1 # 0 /\ t.clientBlock = Size[p] + 1 - (a - 1)
      BY <2>1, <1>3, <1>4, <1>13
    <3> QED BY <3>1, <2>1, <1>3, <1>6, <1>11 DEF Finishing
  <2> QED BY <2>1, <2>3, <2>4, <1>3, <1>4, <1>6, <1>9, <1>10
<1> QED BY <1>12, <1>13

\* What the client says after its a acknowledgements of the file before.
Follows(a) ==
  IF client.file = None THEN \A i \in (a + 1)..Len(cmds) : cmds[i] = StopDl
  ELSE /\ Len(cmds) = a + 1 + client.block
       /\ cmds[a + 1] = BeginDl(client.file)
       /\ \A i \in 1..client.block : cmds[a + 1 + i] = NextDl(i - 1)

LEMMA AckBehind ==
  ASSUME NEW p \in Files \union {None}, Steady, Following(p), SV_ClientCommand,
         NEW a \in 1..Len(cmds), Finishing(p, a), Follows(a)
  PROVE  Steady' /\ Following(p)'
<1>1. /\ UNCHANGED <<client, net, again, stale>>
      /\ cmds' \in Seq(Commands) /\ Len(cmds') = Len(cmds) - 1 /\ Len(cmds) \in Nat
      /\ \A k \in 1..Len(cmds') : k + 1 \in 1..Len(cmds) /\ cmds'[k] = cmds[k + 1]
      /\ client.block \in Nat
  BY CommandOf, Known DEF Steady
<1>2. /\ p \in Files /\ p # None /\ server.open /\ server.name = p
      /\ server' \in Server /\ ~server'.dropped /\ Opens'
      /\ a - 1 \in 0..Len(cmds') /\ Finishing(p, a - 1)'
      /\ server'.open => /\ server'.name = p /\ server'.xmitBlock = server.xmitBlock
                         /\ server'.currentBlock = server.currentBlock
      /\ ~server'.open => server'.name = None
  BY AckBehindOf, Lengths
<1>3. client.file # p
  BY <1>2 DEF Following, Phase
<1>4. Typed' /\ Writes' /\ Mistakes'
  <2>1. Typed' /\ Writes'
    BY <1>1, <1>2, CommandLeaves DEF Steady
  <2>2. Mistakes'
    BY <1>1, <1>2 DEF Steady, Mistakes
  <2> QED BY <2>1, <2>2
<1>5. Once'
  <2>1. ~again /\ server'.open => server'.xmitBlock = server'.currentBlock
    BY <1>2, <1>3 DEF Steady, Once
  <2>2. server'.open => server'.name # client.file
    BY <1>2, <1>3
  <2> QED BY <2>1, <2>2, <1>1 DEF Steady, Once, Own
<1>6. client.file # None => Asks /\ Asks' /\ Asking(p)'
  <2> SUFFICES ASSUME client.file # None
               PROVE  Asks /\ Asks' /\ Asking(p)'
    OBVIOUS
  <2>1. /\ Len(cmds) = a + 1 + client.block /\ cmds[a + 1] = BeginDl(client.file)
        /\ \A i \in 1..client.block : cmds[a + 1 + i] = NextDl(i - 1)
    BY DEF Follows
  <2>2. a + 1 \in 1..Len(cmds) /\ a \in 1..Len(cmds')
    BY <2>1, <1>1
  <2>3. cmds'[a] = BeginDl(client.file)
    BY <2>1, <2>2, <1>1
  <2>4. Asks /\ Asks'
    <3>1. cmds[a + 1].cmd = "download" /\ cmds'[a].cmd = "download"
      BY <2>1, <2>3, CommandFields
    <3> QED BY <3>1, <2>2 DEF Asks
  <2>5. \A i \in 1..client.block : cmds'[a + i] = NextDl(i - 1)
    <3> SUFFICES ASSUME NEW i \in 1..client.block PROVE cmds'[a + i] = NextDl(i - 1)
      OBVIOUS
    <3>1. /\ Len(cmds) = a + 1 + client.block /\ Len(cmds') = Len(cmds) - 1
          /\ client.block \in Nat /\ Len(cmds) \in Nat /\ a \in Nat
      BY <2>1, <1>1
    <3>2. a + i \in 1..Len(cmds') /\ a + i + 1 = a + 1 + i
      BY <3>1
    <3> QED BY <3>2, <2>1, <1>1
  <2>6. Asking(p)'
    <3>1. PICK b \in 0..Len(cmds') : b = a - 1
      BY <1>2
    <3>2. b + 1 = a /\ Len(cmds') = b + 1 + client.block
      <4> DEFINE x == Len(cmds')
                 y == Len(cmds)
                 z == client.block
      <4>1. y = a + 1 + z /\ x = y - 1 /\ z \in Nat /\ y \in Nat /\ a \in Nat
        BY <2>1, <1>1
      <4> HIDE DEF x, y, z
      <4>2. b + 1 = a
        BY <3>1, <4>1
      <4>3. x = b + 1 + z
        BY <4>1, <4>2
      <4> QED BY <4>2, <4>3 DEF x, z
    <3>3. cmds'[b + 1] = BeginDl(client.file) /\ Finishing(p, b)'
      BY <3>1, <3>2, <2>3, <1>2
    <3>4. \A i \in 1..client.block : cmds'[b + 1 + i] = NextDl(i - 1)
      BY <3>2, <2>5
    <3> QED BY <3>2, <3>3, <3>4, <1>1 DEF Asking
  <2> QED BY <2>4, <2>6
<1>7. client.file = None => Ending(p)'
  <2> SUFFICES ASSUME client.file = None
               PROVE  Ending(p)'
    OBVIOUS
  <2>1. PICK b \in 0..Len(cmds') : b = a - 1
    BY <1>2
  <2>2. \A i \in (b + 1)..Len(cmds') : cmds'[i] = StopDl
    <3> SUFFICES ASSUME NEW i \in (b + 1)..Len(cmds') PROVE cmds'[i] = StopDl
      OBVIOUS
    <3>1. i \in 1..Len(cmds') /\ i + 1 \in (a + 1)..Len(cmds)
      BY <2>1, <1>1
    <3> QED BY <3>1, <1>1 DEF Follows
  <2> QED BY <2>1, <2>2, <1>2 DEF Ending
<1>8. Phase(p)'
  BY <1>1, <1>3, <1>6, <1>7 DEF Phase
<1>9. Starts' => Starts
  BY <1>1, <1>2, <1>6 DEF Starts
<1>10. Passing(p)'
  <2>1. \A i \in 1..Len(net) : Own(net[i]) /\ Present(net[i]) => Present(net[i])'
    BY <1>1, <1>2, <1>3 DEF Present
  <2>2. Starts' => \A i \in 1..Len(net) : ~Own(net[i])
    BY <1>9 DEF Following, Passing
  <2>3. ~(client.file # None /\ server'.name = None /\ ~Asks' /\ stale = {})
    BY <1>6
  <2> QED BY <2>1, <2>2, <2>3, <1>1, PassingStill DEF Following
<1>11. Overlap(p)'
  <2>1. \A i \in 1..Len(net) : Own(net[i])' <=> Own(net[i])
    BY <1>1 DEF Own
  <2> QED BY <2>1, <1>1, <1>9 DEF Following, Overlap
<1> QED BY <1>2, <1>4, <1>5, <1>8, <1>10, <1>11 DEF Steady, Following


\* The client's request for its file.
LEMMA BeginKeeps ==
  ASSUME NEW p \in Files \union {None}, Steady, Following(p), SV_ClientCommand,
         client.file # None, Finishing(p, 0), Follows(0)
  PROVE  Steady' /\ Following(p)'
<1>1. /\ UNCHANGED <<client, net, again, stale>> /\ ~server.dropped
      /\ cmds' \in Seq(Commands) /\ Len(cmds') = Len(cmds) - 1 /\ Len(cmds) \in Nat
      /\ \A k \in 1..Len(cmds') : k + 1 \in 1..Len(cmds) /\ cmds'[k] = cmds[k + 1]
      /\ client.block \in Nat /\ server \in Server
      /\ client.file \in Files \union {None}
  BY CommandOf, Known DEF Steady
<1>2. ~server.open /\ Ends(server.slots[server.clientBlock % Window])
  BY <1>1 DEF Finishing, Steady, Opens
<1>3. /\ Len(cmds) = 0 + 1 + client.block /\ cmds[1] = BeginDl(client.file)
      /\ \A i \in 1..client.block : cmds[0 + 1 + i] = NextDl(i - 1)
  BY DEF Follows
<1>4. /\ server' \in Server /\ ~server'.open /\ server'.name = client.file /\ ~server'.dropped
      /\ server'.clientBlock = server.clientBlock /\ server'.slots = server.slots
  <2> DEFINE c == Closed(server)
  <2>1. /\ c \in Server /\ ~c.open /\ c.clientBlock = server.clientBlock /\ c.slots = server.slots
        /\ ~c.dropped
    BY <1>1, ClosedOf
  <2> HIDE DEF c
  <2> DEFINE s == [c EXCEPT !.name = client.file]
  <2>2. server' = s
    BY <1>3, CommandOf DEF Steady, c
  <2>3. s \in Server
    BY <1>1, <2>1, Zenon DEF Server
  <2>4. /\ s.open = c.open /\ s.name = client.file /\ s.dropped = c.dropped
        /\ s.clientBlock = c.clientBlock /\ s.slots = c.slots
    BY <2>1 DEF Server
  <2> HIDE DEF s
  <2> QED BY <2>1, <2>2, <2>3, <2>4
<1>5. Len(cmds') = client.block
  BY <1>1, <1>3
<1>6. \A i \in 1..Len(cmds') : cmds'[i] = NextDl(client.block - Len(cmds') + i - 1)
  <2> SUFFICES ASSUME NEW i \in 1..Len(cmds')
               PROVE  cmds'[i] = NextDl(client.block - Len(cmds') + i - 1)
    OBVIOUS
  <2>1. i \in 1..client.block /\ 0 + 1 + i = i + 1 /\ client.block - Len(cmds') + i - 1 = i - 1
    BY <1>1, <1>5
  <2>2. cmds'[i] = cmds[i + 1]
    BY <1>1
  <2>3. cmds[0 + 1 + i] = NextDl(i - 1)
    BY <2>1, <1>3
  <2> QED BY <2>1, <2>2, <2>3
<1>7. Asks /\ ~Asks'
  <2>1. 1 \in 1..Len(cmds) /\ cmds[1].cmd = "download"
    BY <1>1, <1>3, CommandFields
  <2>2. \A i \in 1..Len(cmds') : cmds'[i].cmd = "nextdl"
    BY <1>6, CommandFields
  <2> QED BY <2>1, <2>2 DEF Asks
<1>8. Typed' /\ Writes' /\ Mistakes' /\ Opens'
  <2>1. Typed' /\ Writes'
    BY <1>1, <1>4, CommandLeaves DEF Steady
  <2>2. Mistakes' /\ Opens'
    BY <1>1, <1>2, <1>4 DEF Steady, Mistakes, Opens
  <2> QED BY <2>1, <2>2
<1>9. Once'
  BY <1>1, <1>4 DEF Steady, Once, Own
<1>10. Phase(p)'
  <2>1. Beginning'
    BY <1>1, <1>4, <1>5 DEF Beginning
  <2>2. Len(cmds') <= client.block
    BY <1>1, <1>5
  <2>3. Serving'
    BY <2>1, <2>2, <1>1, <1>6 DEF Serving
  <2> QED BY <2>3, <1>1, <1>7 DEF Following, Phase
<1>11. Starts
  BY <1>7 DEF Starts
<1>12. Passing(p)'
  <2>1. \A i \in 1..Len(net) : Own(net[i]) /\ Present(net[i]) => Present(net[i])'
    BY <1>1, <1>4 DEF Present
  <2>2. \A i \in 1..Len(net) : ~Own(net[i])
    BY <1>11 DEF Following, Passing
  <2>3. server'.name # None
    BY <1>4
  <2> QED BY <2>1, <2>2, <2>3, <1>1, PassingStill DEF Following
<1>13. Overlap(p)'
  BY <1>1, <1>11 DEF Following, Overlap
<1> QED BY <1>8, <1>9, <1>10, <1>12, <1>13 DEF Steady, Following

\* "stopdl" after all files.
LEMMA StopKeeps ==
  ASSUME NEW p \in Files \union {None}, Steady, Following(p), SV_ClientCommand,
         client.file = None, Finishing(p, 0), Follows(0)
  PROVE  Steady' /\ Following(p)'
<1>1. /\ UNCHANGED <<client, net, again, stale>> /\ ~server.dropped
      /\ cmds' \in Seq(Commands) /\ Len(cmds') = Len(cmds) - 1 /\ Len(cmds) \in Nat /\ Len(cmds) > 0
      /\ \A k \in 1..Len(cmds') : k + 1 \in 1..Len(cmds) /\ cmds'[k] = cmds[k + 1]
      /\ server \in Server
  BY CommandOf, Known DEF Steady
<1>2. ~server.open /\ Ends(server.slots[server.clientBlock % Window])
  BY <1>1 DEF Finishing, Steady, Opens
<1>3. \A i \in 1..Len(cmds) : cmds[i] = StopDl
  BY DEF Follows
<1>4. /\ server' \in Server /\ ~server'.open /\ server'.name = None /\ ~server'.dropped
      /\ server'.clientBlock = server.clientBlock /\ server'.slots = server.slots
  <2>1. server' = Closed(server)
    BY <1>1, <1>3, CommandOf DEF Steady
  <2> QED BY <2>1, <1>1, ClosedOf
<1>5. Typed' /\ Writes' /\ Mistakes' /\ Opens'
  <2>1. Typed' /\ Writes'
    BY <1>1, <1>4, CommandLeaves DEF Steady
  <2>2. Mistakes' /\ Opens'
    BY <1>1, <1>2, <1>4 DEF Steady, Mistakes, Opens
  <2> QED BY <2>1, <2>2
<1>6. Once'
  BY <1>1, <1>4 DEF Steady, Once, Own
<1>7. Phase(p)'
  <2>1. \A i \in 1..Len(cmds') : cmds'[i] = StopDl
    BY <1>1, <1>3
  <2>2. Finishing(p, 0)'
    BY <1>4 DEF Finishing
  <2>3. PICK a \in 0..Len(cmds') : a = 0
    BY <1>1
  <2>4. Ending(p)'
    BY <2>1, <2>2, <2>3 DEF Ending
  <2> QED BY <2>4, <1>1 DEF Following, Phase
<1>8. Passing(p)'
  <2>1. \A i \in 1..Len(net) : Own(net[i]) /\ Present(net[i]) => Present(net[i])'
    BY <1>1, <1>4 DEF Present
  <2>2. ~Starts'
    BY <1>1 DEF Starts
  <2> QED BY <2>1, <2>2, <1>1, PassingStill DEF Following
<1>9. Overlap(p)'
  BY <1>1 DEF Overlap
<1> QED BY <1>5, <1>6, <1>7, <1>8, <1>9 DEF Steady, Following


\* An acknowledgement of a block of the client's file.
LEMMA AckOf ==
  ASSUME Typed, SV_ClientCommand, client.file # None, ~Asks, Serving
  PROVE  /\ client.block > 0 /\ client.block \in Nat /\ Len(cmds') \in Nat /\ ~Asks'
         /\ Len(cmds') = Len(cmds) - 1 /\ Len(cmds) <= client.block /\ Len(cmds) > 0
         /\ server' = NextDownload(server, client.block - Len(cmds))
         /\ Len(cmds') <= client.block
         /\ \A i \in 1..Len(cmds') : cmds'[i] = NextDl(client.block - Len(cmds') + i - 1)
<1>1. /\ cmds' \in Seq(Commands) /\ Len(cmds') = Len(cmds) - 1 /\ Len(cmds) \in Nat /\ Len(cmds) > 0
      /\ \A k \in 1..Len(cmds') : k + 1 \in 1..Len(cmds) /\ cmds'[k] = cmds[k + 1]
      /\ client.block \in Nat
  BY CommandOf, Known
<1>2. /\ Len(cmds) <= client.block
      /\ \A i \in 1..Len(cmds) : cmds[i] = NextDl(client.block - Len(cmds) + i - 1)
  BY DEF Serving
<1> DEFINE n == client.block - Len(cmds)
<1>3. cmds[1] = NextDl(n)
  <2>1. 1 \in 1..Len(cmds) /\ client.block - Len(cmds) + 1 - 1 = n
    BY <1>1
  <2>2. cmds[1] = NextDl(client.block - Len(cmds) + 1 - 1)
    BY <2>1, <1>2
  <2> QED BY <2>1, <2>2
<1>4. server' = NextDownload(server, n)
  BY <1>3, CommandOf
<1>5. \A i \in 1..Len(cmds') : cmds'[i] = NextDl(client.block - Len(cmds') + i - 1)
  <2> SUFFICES ASSUME NEW i \in 1..Len(cmds')
               PROVE  cmds'[i] = NextDl(client.block - Len(cmds') + i - 1)
    OBVIOUS
  <2>1. i + 1 \in 1..Len(cmds)
        /\ client.block - Len(cmds) + (i + 1) - 1 = client.block - Len(cmds') + i - 1
    BY <1>1
  <2>2. cmds'[i] = cmds[i + 1]
    BY <1>1
  <2>3. cmds[i + 1] = NextDl(client.block - Len(cmds) + (i + 1) - 1)
    BY <2>1, <1>2
  <2> QED BY <2>1, <2>2, <2>3
<1>6. ~Asks'
  <2>1. \A i \in 1..Len(cmds') : cmds'[i].cmd = "nextdl"
    BY <1>5, CommandFields
  <2> QED BY <2>1 DEF Asks
<1>7. Len(cmds') <= client.block /\ client.block > 0
  BY <1>1, <1>2
<1> QED BY SMTT(30), <1>1, <1>2, <1>4, <1>5, <1>6, <1>7

\* It closes the file when the client had taken a block for another.
LEMMA AckCloses ==
  ASSUME NEW p \in Files \union {None}, Steady, Following(p), SV_ClientCommand,
         client.file # None, ~Asks, Serving, stale # {},
         server' \in Server, ~server'.open, server'.name = None,
         ~server'.dropped => Ends(server'.slots[server'.clientBlock % Window])
  PROVE  Steady' /\ Following(p)'
<1>1. /\ UNCHANGED <<client, net, again, stale>> /\ cmds' \in Seq(Commands)
      /\ Len(cmds') <= client.block /\ ~Asks'
      /\ \A i \in 1..Len(cmds') : cmds'[i] = NextDl(client.block - Len(cmds') + i - 1)
  BY CommandOf, AckOf DEF Steady
<1>2. Typed' /\ Writes' /\ Mistakes' /\ Opens'
  <2>1. Typed' /\ Writes'
    BY <1>1, CommandLeaves DEF Steady
  <2>2. Mistakes' /\ Opens'
    BY <1>1 DEF Steady, Mistakes, Opens
  <2> QED BY <2>1, <2>2
<1>3. Once'
  BY <1>1 DEF Steady, Once
<1>4. Phase(p)'
  <2>1. Over'
    BY <1>1 DEF Over
  <2>2. Serving'
    BY <2>1, <1>1 DEF Serving
  <2> QED BY <2>2, <1>1 DEF Following, Phase
<1>5. ~Starts'
  BY <1>1 DEF Starts
<1>6. Passing(p)'
  <2>1. \A i \in 1..Len(net) : Own(net[i]) /\ Present(net[i]) => Present(net[i])'
    BY <1>1 DEF Present
  <2> QED BY <2>1, <1>1, <1>5, PassingStill DEF Following
<1>7. Overlap(p)'
  <2>1. \A i \in 1..Len(net) : Own(net[i])' <=> Own(net[i])
    BY <1>1 DEF Own
  <2> QED BY <2>1, <1>1, <1>5 DEF Following, Overlap
<1> QED BY <1>2, <1>3, <1>4, <1>6, <1>7 DEF Steady, Following

\* It moves the window of the file that is being sent.
LEMMA AckAhead ==
  ASSUME NEW p \in Files \union {None}, Steady, Following(p), SV_ClientCommand,
         client.file # None, ~Asks, Serving, Sending
  PROVE  Steady' /\ Following(p)'
<1> DEFINE n == server.clientBlock
           t == NextDownload(server, n)
<1>1. /\ UNCHANGED <<client, net, again, stale>> /\ cmds' \in Seq(Commands)
      /\ Len(cmds') <= client.block /\ ~Asks' /\ client.block \in Nat /\ Len(cmds) \in Nat
      /\ Len(cmds') = Len(cmds) - 1 /\ Len(cmds) > 0 /\ Len(cmds) <= client.block
      /\ \A i \in 1..Len(cmds') : cmds'[i] = NextDl(client.block - Len(cmds') + i - 1)
      /\ server' = NextDownload(server, client.block - Len(cmds))
      /\ server \in Server /\ n \in Nat /\ server.currentBlock \in Nat /\ server.xmitBlock \in Nat
  BY CommandOf, AckOf, Known DEF Steady
<1>2. /\ server.open /\ server.name = client.file /\ ~server.dropped
      /\ n = client.block - Len(cmds)
      /\ client.block <= server.xmitBlock + Window /\ client.block <= n + Window
      /\ client.block <= server.currentBlock \/ server.currentBlock = Size[client.file] + 1
  BY DEF Sending
<1>3. Readable(server) /\ ReadOn(server) /\ client.file \in Files /\ Size[client.file] \in Nat
  BY <1>2, Lengths DEF Steady, Opens, Readable
<1>4. n < client.block /\ n <= Size[client.file] /\ n < server.currentBlock
      /\ server.currentBlock <= n + Window
  <2>1. n < client.block
    BY <1>1, <1>2
  <2>2. n <= Size[client.file] /\ server.currentBlock <= n + Window
    BY <1>2, <1>3 DEF Readable
  <2> QED BY <2>1, <2>2, <1>1, <1>2, <1>3
<1>5. Ends(server.slots[n % Window]) <=> n = Size[client.file]
  <2>1. server.slots[n % Window] = Block(client.file, n)
    BY <1>1, <1>2, <1>3, <1>4, InWindow
  <2> QED BY <2>1, BlockFields DEF Ends
<1>6. server' = t
  BY <1>1, <1>2
<1>7. /\ t \in Server
      /\ \/ n # server.clientBlock
         \/ /\ Ends(server.slots[n % Window])
            /\ t.dropped = server.dropped /\ ~t.open /\ t.name = None
            /\ t.clientBlock = server.clientBlock /\ t.slots = server.slots
         \/ /\ ~Ends(server.slots[n % Window])
            /\ t.dropped = server.dropped /\ t.open = server.open /\ t.name = server.name
            /\ t.clientBlock = server.clientBlock + 1 /\ t.slots = server.slots
            /\ t.currentBlock = server.currentBlock /\ t.xmitBlock = server.xmitBlock
  BY <1>1, NextDownloadOf
<1> HIDE DEF t
<1>8. CASE n = Size[client.file]
  <2>1. stale # {}
    <3>1. stale = {} => client.block <= Size[client.file]
      BY DEF Steady, Writes
    <3> QED BY <3>1, <1>1, <1>3, <1>4, <1>8
  <2>2. /\ ~t.open /\ t.name = None /\ t.clientBlock = n /\ t.slots = server.slots
    BY <1>5, <1>7, <1>8
  <2> QED BY <2>1, <2>2, <1>5, <1>6, <1>7, <1>8, AckCloses
<1>9. CASE n # Size[client.file]
  <2>1. /\ ~t.dropped /\ t.open /\ t.name = client.file /\ t.clientBlock = n + 1
        /\ t.slots = server.slots /\ t.currentBlock = server.currentBlock
        /\ t.xmitBlock = server.xmitBlock
    BY <1>2, <1>5, <1>7, <1>9
  <2>2. /\ t.clientBlock <= t.currentBlock /\ t.clientBlock <= Size[client.file]
        /\ t.currentBlock <= t.clientBlock + Window
        /\ t.clientBlock = client.block - Len(cmds') /\ client.block <= t.clientBlock + Window
    <3> DEFINE c == server.currentBlock
               b == client.block
               l == Len(cmds)
               k == Len(cmds')
               size == Size[client.file]
               m == t.clientBlock
    <3>1. /\ n \in Nat /\ c \in Nat /\ b \in Nat /\ l \in Nat /\ size \in Nat /\ Window \in Nat
          /\ m = n + 1 /\ k = l - 1 /\ n = b - l /\ b <= n + Window
          /\ n < c /\ n <= size /\ n # size /\ c <= n + Window /\ t.currentBlock = c
      BY <2>1, <1>1, <1>2, <1>3, <1>4, <1>9, Limits
    <3> HIDE DEF n, c, b, l, k, size, m
    <3>2. m <= c /\ m <= size /\ c <= m + Window /\ m = b - k /\ b <= m + Window
      BY <3>1
    <3> QED BY <3>1, <3>2 DEF c, b, k, size, m
  <2>3. Opens'
    <3>1. Readable(t)
      BY <2>1, <2>2, <1>2, <1>3 DEF Readable, Holds
    <3>2. ReadOn(t)
      BY <2>1, <1>2, <1>3 DEF ReadOn
    <3>3. (Readable(server) /\ ReadOn(server))'
      BY <3>1, <3>2, <1>6 DEF Readable, ReadOn, Holds
    <3> QED BY <3>3, <2>1, <1>6 DEF Opens
  <2>4. Typed' /\ Writes' /\ Mistakes'
    <3>1. Typed' /\ Writes'
      BY <1>1, <1>6, <1>7, CommandLeaves DEF Steady
    <3>2. Mistakes'
      BY <2>1, <1>1, <1>6 DEF Steady, Mistakes
    <3> QED BY <3>1, <3>2
  <2>5. Once'
    <3>1. \A i \in 1..Len(net) : Own(net[i])' <=> Own(net[i])
      BY <1>1 DEF Own
    <3> QED BY <2>1, <3>1, <1>1, <1>2, <1>6 DEF Steady, Once
  <2>6. Phase(p)'
    <3>1. Sending'
      BY <2>1, <2>2, <1>1, <1>2, <1>6 DEF Sending
    <3>2. Serving'
      BY <3>1, <1>1 DEF Serving
    <3> QED BY <3>2, <1>1 DEF Following, Phase
  <2>7. ~Starts'
    BY <2>1, <1>1, <1>6 DEF Starts
  <2>8. Passing(p)'
    <3>1. \A i \in 1..Len(net) : Own(net[i]) /\ Present(net[i]) => Present(net[i])'
      BY <2>1, <1>1, <1>2, <1>6 DEF Present
    <3>2. server'.name # None
      BY <2>1, <1>6
    <3> QED BY <2>7, <3>1, <3>2, <1>1, PassingStill DEF Following
  <2>9. Overlap(p)'
    <3>1. \A i \in 1..Len(net) : Own(net[i])' <=> Own(net[i])
      BY <1>1 DEF Own
    <3> QED BY <2>7, <3>1, <1>1 DEF Following, Overlap
  <2> QED BY <2>3, <2>4, <2>5, <2>6, <2>8, <2>9 DEF Steady, Following
<1> QED BY <1>8, <1>9

\* It is of a block of the file before when the file is not open.
LEMMA AckStray ==
  ASSUME NEW p \in Files \union {None}, Steady, Following(p), SV_ClientCommand,
         client.file # None, ~Asks, Serving, ~Sending
  PROVE  Steady' /\ Following(p)'
<1> DEFINE n == client.block - Len(cmds)
           t == NextDownload(server, n)
<1>1. server \in Server /\ server' = t /\ client.block > 0 /\ ~server.dropped
  BY CommandOf, AckOf, Known DEF Steady
<1>2. ~server.open
  BY DEF Serving, Beginning, Over
<1>3. stale # {}
  <2>1. CASE Over
    BY <2>1, <1>1 DEF Over
  <2>2. CASE Beginning
    <3>1. server.name \in Files
      BY <2>2, Known DEF Beginning, Steady
    <3>2. Starts
      BY <2>2 DEF Beginning, Starts
    <3> QED BY <3>2, <1>1 DEF Following, Overlap
  <2> QED BY <2>1, <2>2 DEF Serving
<1>4. Ends(server.slots[server.clientBlock % Window])
  BY <1>1, <1>2 DEF Steady, Opens
<1>5. /\ t \in Server
      /\ \/ n # server.clientBlock /\ t.dropped /\ ~t.open /\ t.name = None
         \/ /\ n = server.clientBlock /\ Ends(server.slots[n % Window])
            /\ t.dropped = server.dropped /\ ~t.open /\ t.name = None
            /\ t.clientBlock = server.clientBlock /\ t.slots = server.slots
         \/ n = server.clientBlock /\ ~Ends(server.slots[n % Window])
  BY <1>1, NextDownloadOf
<1> HIDE DEF t, n
<1>6. /\ server' \in Server /\ ~server'.open /\ server'.name = None
      /\ ~server'.dropped => Ends(server'.slots[server'.clientBlock % Window])
  BY <1>1, <1>4, <1>5
<1> QED BY <1>3, <1>6, AckCloses

LEMMA CommandKeeps ==
  ASSUME NEW p \in Files \union {None}, Steady, Following(p), SV_ClientCommand
  PROVE  Steady' /\ Following(p)'
<1>1. CASE client.file = None \/ Asks
  <2>1. PICK a \in 0..Len(cmds) : Finishing(p, a) /\ Follows(a)
    <3>1. CASE client.file = None
      BY <3>1 DEF Following, Phase, Ending, Follows
    <3>2. CASE client.file # None
      BY <1>1, <3>2 DEF Following, Phase, Asking, Follows
    <3> QED BY <3>1, <3>2
  <2>2. CASE a = 0
    BY <2>1, <2>2, BeginKeeps, StopKeeps
  <2>3. CASE a # 0
    <3>1. a \in 1..Len(cmds)
      BY <2>3
    <3> QED BY <2>1, <3>1, AckBehind
  <2> QED BY <2>2, <2>3
<1>2. CASE client.file # None /\ ~Asks
  <2>1. Serving
    BY <1>2 DEF Following, Phase
  <2> QED BY <1>2, <2>1, AckAhead, AckStray
<1> QED BY <1>1, <1>2


-----------------------------------------------------------------------------
(* The client accepts a wrong file.                                           *)

LEMMA AsksAppend ==
  ASSUME NEW s \in Seq(Commands), AsksForFiles(s), NEW e \in Commands,
         e.cmd = "download" => e.arg \in Files
  PROVE  Append(s, e) \in Seq(Commands) /\ AsksForFiles(Append(s, e))
<1>1. /\ Append(s, e) \in Seq(Commands) /\ Len(Append(s, e)) = Len(s) + 1
      /\ \A k \in 1..Len(s) : Append(s, e)[k] = s[k]
      /\ Append(s, e)[Len(s) + 1] = e
  BY AppendOf
<1>2. \A k \in 1..(Len(s) + 1) : k \in 1..Len(s) \/ k = Len(s) + 1
  OBVIOUS
<1>3. AsksForFiles(Append(s, e))
  BY <1>1, <1>2 DEF AsksForFiles
<1> QED BY <1>1, <1>3

\* The file the client is at is the only one it may still ask for.
LEMMA Asked ==
  ASSUME NEW p \in Files \union {None}, Steady, Following(p), client.file # None
  PROVE  AsksForFiles(cmds)
<1>1. client.file \in Files /\ client.block \in Nat /\ Len(cmds) \in Nat
  BY Known DEF Steady
<1>2. CASE ~Asks
  BY <1>2 DEF Asks, AsksForFiles
<1>3. CASE Asks
  <2>1. PICK a \in 0..Len(cmds) :
          /\ Finishing(p, a) /\ Len(cmds) = a + 1 + client.block
          /\ cmds[a + 1] = BeginDl(client.file)
          /\ \A i \in 1..client.block : cmds[a + 1 + i] = NextDl(i - 1)
    BY <1>3 DEF Following, Phase, Asking
  <2>2. \A i \in 1..a : cmds[i] = NextDl(Size[p] - a + i)
    BY <2>1 DEF Finishing
  <2>3. ASSUME NEW i \in 1..Len(cmds), cmds[i].cmd = "download" PROVE cmds[i].arg \in Files
    <3>1. ~(i \in 1..a)
      BY <2>2, <2>3, CommandFields
    <3>2. CASE i = a + 1
      BY <3>2, <2>1, <1>1, CommandFields
    <3>3. CASE i # a + 1
      <4> DEFINE k == i - (a + 1)
      <4>1. k \in 1..client.block /\ i = a + 1 + k
        BY <3>1, <3>3, <2>1, <1>1
      <4> HIDE DEF k
      <4>2. cmds[i] = NextDl(k - 1)
        BY <4>1, <2>1
      <4> QED BY <4>2, <2>3, CommandFields
    <3> QED BY <3>2, <3>3
  <2> QED BY <2>3 DEF AsksForFiles
<1> QED BY <1>2, <1>3

LEMMA TakeTyped ==
  ASSUME client \in Client, client.state = "downloading", client.file # None,
         cmds \in Seq(Commands), AsksForFiles(cmds), stale \subseteq Blocks, spoiled \subseteq Files,
         NEW b \in Blocks, Take(b)
  PROVE  /\ client' \in Client /\ (client'.state = "downloading" => client'.file # None)
         /\ cmds' \in Seq(Commands) /\ AsksForFiles(cmds')
         /\ stale' \subseteq Blocks /\ stale \subseteq stale'
         /\ spoiled' \subseteq Files /\ spoiled \subseteq spoiled'
<1> DEFINE c == Taken(client, b)
           s == Append(cmds, NextDl(client.block))
<1>1. c \in Client /\ c.file = client.file /\ c.state = "downloading"
  BY TakenOf
<1>2. client.file \in Files /\ client.block \in Nat
  BY ClientFields
<1>3. /\ \/ ~Ends(b) /\ client' = c
         \/ Ends(b) /\ client' \in {GoneOn(c), Failed(c)}
      /\ cmds' = s \o (IF Ends(b) /\ client'.state = "downloading" THEN <<BeginDl(client'.file)>> ELSE <<>>)
      /\ stale' = IF b = Block(client.file, client.block) THEN stale ELSE stale \union {b}
      /\ spoiled' = spoiled \/ spoiled' = spoiled \union {c.file}
  BY TakeOf
<1>4. s \in Seq(Commands) /\ AsksForFiles(s)
  BY <1>2, CommandFields, AsksAppend
<1> HIDE DEF c, s
<1>5. client' \in Client /\ (client'.state = "downloading" => client'.file # None)
  <2>1. CASE client' = c
    BY <2>1, <1>1
  <2>2. CASE client' = Failed(c)
    BY <2>2, <1>1, FailedOf
  <2>3. CASE client' = GoneOn(c)
    <3>1. CASE c.todo = <<>>
      BY <2>3, <3>1, <1>1, GoneOnOf
    <3>2. CASE c.todo # <<>>
      <4>1. c.todo \in Seq(Files)
        BY <1>1, ClientFields
      <4>2. Head(c.todo) \in Files
        BY <4>1, <3>2
      <4> QED BY <2>3, <3>2, <4>2, <1>1, GoneOnOf, Lengths
    <3> QED BY <3>1, <3>2
  <2> QED BY <2>1, <2>2, <2>3, <1>3
<1>6. cmds' \in Seq(Commands) /\ AsksForFiles(cmds')
  <2>1. CASE Ends(b) /\ client'.state = "downloading"
    <3> DEFINE e == BeginDl(client'.file)
    <3>1. client'.file \in Files
      BY <2>1, <1>5, ClientFields
    <3>2. e \in Commands /\ e.arg \in Files
      BY <3>1, CommandFields
    <3>3. cmds' = s \o <<e>>
      BY <2>1, <1>3
    <3> HIDE DEF e
    <3>4. cmds' = Append(s, e)
      BY <3>2, <3>3, <1>4
    <3> QED BY <3>2, <3>4, <1>4, AsksAppend
  <2>2. CASE ~(Ends(b) /\ client'.state = "downloading")
    <3>1. cmds' = s \o <<>>
      BY <2>2, <1>3
    <3>2. cmds' = s
      BY <3>1, <1>4
    <3> QED BY <3>2, <1>4
  <2> QED BY <2>1, <2>2
<1> QED BY <1>1, <1>2, <1>3, <1>5, <1>6

\* The messages behind the one at d are left.
LEMMA RestTyped ==
  ASSUME net \in Seq(Messages), Len(net) <= MaxBlocks, NEW d \in 0..Len(net), Behind(d)
  PROVE  net' \in Seq(Messages) /\ Len(net') <= MaxBlocks
<1>1. net' \in Seq(Messages) /\ Len(net') = Len(net) - d
  BY Dropped DEF Behind
<1> QED BY <1>1, Limits

\* The client can only come to accept a wrong file with blocks it took wrongly.
LEMMA GoesAstray ==
  ASSUME Intact, DlNext, spoiled' # {}
  PROVE  Astray'
<1>1. PICK p \in Files \union {None} : Following(p)
  BY DEF Intact
<1>2. Steady /\ spoiled = {}
  BY DEF Intact
<1>3. PICK d \in 1..Len(net) : Receive(d)
  BY <1>2 DEF DlNext, DlServer, SV_RefuseDownload, SV_WriteDownloadToClient, SV_ClientCommand,
              Wait, Lose
<1> DEFINE b == net[d].data
           c == Taken(client, b)
<1>4. /\ client.state = "downloading" /\ ~net[d].refused /\ Awaited(net[d]) /\ Take(b)
  BY <1>2, <1>3 DEF Receive, CL_ParseStray, CL_ParseDownload, CL_ParseMisread
<1>5. /\ client \in Client /\ cmds \in Seq(Commands) /\ net \in Seq(Messages) /\ net[d] \in Messages
      /\ net[d].block = net[d].num % BlockMod /\ client.file \in Files \union {None}
      /\ net[d].num \in Nat /\ client.block \in Nat
  BY <1>2, Known DEF Steady, Numbered
<1>6. client.file # None /\ client.file \in Files /\ b \in Blocks
  BY <1>2, <1>4, <1>5, MessageFields DEF Steady, Writes
<1>7. AsksForFiles(cmds)
  BY <1>1, <1>2, <1>6, Asked
<1>8. /\ server' = server /\ again' = again /\ Fields
      /\ net' \in Seq(Messages) /\ Len(net') <= MaxBlocks
  <2>1. server' = server /\ again' = again /\ Behind(d) /\ d \in 0..Len(net)
    BY <1>3 DEF Receive, Behind
  <2>2. Fields
    BY <1>2 DEF Steady, Typed
  <2> QED BY <2>1, <2>2, <1>5, RestTyped DEF Fields
<1>9. /\ client' \in Client /\ (client'.state = "downloading" => client'.file # None)
      /\ cmds' \in Seq(Commands) /\ AsksForFiles(cmds')
      /\ stale' \subseteq Blocks /\ stale \subseteq stale' /\ spoiled' \subseteq Files
  <2>1. stale \subseteq Blocks /\ spoiled \subseteq Files
    BY <1>2, <1>8 DEF Fields
  <2> QED BY <2>1, <1>4, <1>5, <1>6, <1>7, TakeTyped
<1>10. /\ stale' = IF b = Block(client.file, client.block) THEN stale ELSE stale \union {b}
       /\ Ends(b) /\ c.data # Contents(c.file)
  BY <1>2, <1>4, TakeOf
<1>11. c.file = client.file /\ c.data = Append(client.data, b)
  BY <1>5, <1>6, TakenOf
<1> HIDE DEF c
<1>12. stale # {} => again /\ \E x \in stale : x.idx % BlockMod = 0 /\ LastWindow(x)
  BY <1>2 DEF Steady, Once, Mistakes, LastWindow
<1>13. again /\ \E x \in stale' : x.idx % BlockMod = 0 /\ LastWindow(x)
  <2>1. CASE Own(net[d])
    <3>1. /\ b = Block(client.file, client.block)
          /\ Ends(b) <=> client.block = Size[client.file]
          /\ Append(client.data, b) = Contents(client.file)
               <=> /\ client.block = Size[client.file] /\ b = Block(client.file, client.block)
                   /\ \A i \in 1..client.block : client.data[i] = Block(client.file, i - 1)
      BY <1>1, <1>2, <1>4, <2>1, OwnBlock
    <3>2. ~(\A i \in 1..client.block : client.data[i] = Block(client.file, i - 1))
      BY <3>1, <1>10, <1>11
    <3>3. stale # {}
      BY <3>2, <1>2, <1>6 DEF Steady, Writes
    <3> QED BY <3>3, <1>9, <1>12
  <2>2. CASE ~Own(net[d])
    <3>1. net[d].num % BlockMod = client.block % BlockMod
      BY <1>4, <1>5 DEF Awaited
    <3>2. /\ p \in Files /\ Size[p] \in Nat /\ Past(p, net[d]) /\ again
          /\ client.block > 0 => stale # {}
          /\ \E base \in 0..Size[p] :
               /\ base % BlockMod = 0 /\ Size[p] < base + Window
               /\ net[d].num = base + client.block /\ base + client.block <= Size[p]
      BY <1>1, <1>2, <1>6, <2>2, <3>1, PastNumber
    <3>3. CASE client.block > 0
      BY <3>2, <3>3, <1>9, <1>12
    <3>4. CASE ~(client.block > 0)
      <4>1. PICK base \in 0..Size[p] : base % BlockMod = 0 /\ net[d].num = base + client.block
        BY <3>2
      <4>2. client.block = 0 /\ net[d].num % BlockMod = 0
        BY <3>4, <4>1, <1>5
      <4>3. b.file = p /\ b.idx = net[d].num /\ Size[p] < net[d].num + Window
        BY <3>2, BlockFields DEF Past
      <4>4. b.idx % BlockMod = 0 /\ LastWindow(b)
        BY <4>2, <4>3, <3>2, <1>5, Limits DEF LastWindow
      <4>5. b # Block(client.file, client.block)
        BY <2>2, BlockFields DEF Own
      <4>6. b \in stale'
        BY <4>5, <1>10
      <4> QED BY <4>4, <4>6, <3>2
    <3> QED BY <3>3, <3>4
  <2> QED BY <2>1, <2>2
<1> QED BY <1>8, <1>9, <1>13 DEF Astray, Fields

\* What is known of it then stays so.
LEMMA ReceiveAstray ==
  ASSUME Astray, NEW d \in 1..Len(net), Receive(d)
  PROVE  Astray'
<1>1. /\ client \in Client /\ cmds \in Seq(Commands) /\ AsksForFiles(cmds) /\ net \in Seq(Messages)
      /\ stale \subseteq Blocks /\ spoiled \subseteq Files /\ Len(net) <= MaxBlocks
      /\ client.state = "downloading" => client.file # None
  BY DEF Astray, Fields
<1>2. net[d] \in Messages /\ net[d].data \in Blocks /\ client.block \in Nat
  BY <1>1, MessageFields, ClientFields
<1>3. server' = server /\ again' = again /\ net' \in Seq(Messages) /\ Len(net') <= MaxBlocks
  <2>1. server' = server /\ again' = again /\ Behind(d) /\ d \in 0..Len(net)
    BY DEF Receive, Behind
  <2> QED BY <2>1, <1>1, RestTyped
<1>4. /\ client' \in Client /\ (client'.state = "downloading" => client'.file # None)
      /\ cmds' \in Seq(Commands) /\ AsksForFiles(cmds')
      /\ stale' \subseteq Blocks /\ stale \subseteq stale'
      /\ spoiled' \subseteq Files /\ spoiled \subseteq spoiled'
  <2>1. CASE client' = client /\ UNCHANGED <<cmds, stale, spoiled>>
    BY <2>1, <1>1
  <2>2. CASE client' = Failed(client) /\ UNCHANGED <<cmds, stale, spoiled>>
    BY <2>2, <1>1, FailedOf
  <2>3. CASE client' = [client EXCEPT !.state = "refused"] /\ UNCHANGED <<cmds, stale, spoiled>>
    BY <2>3, <1>1, RefusedOf
  <2>4. CASE client' = client /\ cmds' = Append(cmds, StopDl) /\ UNCHANGED <<stale, spoiled>>
    BY <2>4, <1>1, CommandFields, AsksAppend
  <2>5. CASE /\ client.state = "downloading" /\ client' = Taken(client, NoBlock)
             /\ cmds' = Append(cmds, NextDl(client.block))
             /\ stale' = stale \union {net[d].data} /\ UNCHANGED spoiled
    <3>1. NoBlock \in Blocks
      BY BlockFields DEF NoBlock
    <3>2. /\ client' \in Client /\ client'.file = client.file
      BY <2>5, <3>1, <1>1, TakenOf
    <3>3. cmds' \in Seq(Commands) /\ AsksForFiles(cmds')
      BY <2>5, <1>1, <1>2, CommandFields, AsksAppend
    <3> QED BY <2>5, <3>2, <3>3, <1>1, <1>2
  <2>6. CASE client.state = "downloading" /\ Take(net[d].data)
    BY <2>6, <1>1, <1>2, TakeTyped
  <2>7. CASE CL_ParseStray(d)
    BY <2>7, <2>2, <2>4 DEF CL_ParseStray
  <2>8. CASE CL_ParseDownload(net[d])
    BY <2>8, <2>1, <2>2, <2>3, <2>5, <2>6 DEF CL_ParseDownload, CL_ParseMisread
  <2> QED BY <2>7, <2>8 DEF Receive
<1> QED BY <1>3, <1>4 DEF Astray, Fields

LEMMA MessageType ==
  ASSUME NEW s \in Server
  PROVE  Message(s) \in Messages
<1>1. s.xmitBlock \in Nat /\ s.slots \in [0..(Window - 1) -> Blocks]
  BY ServerFields
<1>2. s.xmitBlock % Window \in 0..(Window - 1) /\ s.xmitBlock % BlockMod \in Nat
  <2>1. s.xmitBlock % BlockMod \in 0..(BlockMod - 1)
    BY <1>1, Limits
  <2> QED BY <1>1, <2>1, SlotNumber
<1>3. s.slots[s.xmitBlock % Window] \in Blocks /\ (s.xmitBlock = 0) \in BOOLEAN /\ FALSE \in BOOLEAN
  BY <1>1, <1>2
<1> QED BY <1>1, <1>2, <1>3 DEF Message, Messages

LEMMA ServerAstray ==
  ASSUME Astray, DlServer
  PROVE  Astray'
<1>1. /\ server \in Server /\ cmds \in Seq(Commands) /\ AsksForFiles(cmds) /\ net \in Seq(Messages)
      /\ Len(net) <= MaxBlocks /\ again
  BY DEF Astray, Fields
<1>2. UNCHANGED <<client, stale, spoiled>>
  BY DEF DlServer, SV_RefuseDownload, SV_WriteDownloadToClient, SV_ClientCommand, Wait
<1>3. /\ server' \in Server /\ net' \in Seq(Messages) /\ Len(net') <= MaxBlocks
      /\ cmds' \in Seq(Commands) /\ AsksForFiles(cmds') /\ again'
  <2>1. CASE SV_RefuseDownload
    <3>1. server.name \in Files /\ None \in Files \union {None}
      BY <2>1, DownloadAssumption DEF SV_RefuseDownload, Files
    <3>2. Refusal(server.name) \in Messages
      <4> DEFINE x == Block(server.name, 0)
      <4>1. x \in Blocks
        BY <3>1, BlockFields
      <4> HIDE DEF x
      <4>2. [block |-> 0, sized |-> TRUE, refused |-> TRUE, data |-> x, num |-> 0] \in Messages
        BY <4>1 DEF Messages
      <4> QED BY <4>2 DEF Refusal, x
    <3>3. net' \in Seq(Messages) /\ Len(net') <= MaxBlocks
      BY <2>1, <3>2, <1>1, SentBlock DEF SV_RefuseDownload
    <3>4. server' \in Server
      <4>1. server' = [server EXCEPT !.name = None]
        BY <2>1 DEF SV_RefuseDownload
      <4> QED BY <4>1, <3>1, <1>1, Zenon DEF Server
    <3> QED BY <2>1, <3>3, <3>4, <1>1 DEF SV_RefuseDownload
  <2>2. CASE SV_WriteDownloadToClient
    <3> DEFINE o == Opened(server)
               r == ReadAhead(o)
               s == IF r.clientBlock = r.currentBlock THEN r ELSE Rewound(r)
    <3>1. server.name \in Files
      BY <2>2, <1>1, ServerFields DEF SV_WriteDownloadToClient
    <3>2. o \in Server /\ o.name = server.name
      <4>1. CASE server.open
        BY <4>1, <1>1 DEF Opened
      <4>2. CASE ~server.open
        <5> DEFINE t == [server EXCEPT !.open = TRUE, !.clientBlock = 0, !.currentBlock = 0,
                                       !.xmitBlock = 0]
        <5>1. o = t
          BY <4>2 DEF Opened
        <5>2. 0 \in Nat /\ TRUE \in BOOLEAN
          OBVIOUS
        <5>3. t \in Server
          BY <5>2, <1>1, Zenon DEF Server
        <5>4. t.name = server.name
          BY <1>1 DEF Server
        <5> QED BY <5>1, <5>3, <5>4
      <4> QED BY <4>1, <4>2
    <3> HIDE DEF o
    <3>3. r \in Server
      BY <3>1, <3>2, ReadAheadType
    <3> HIDE DEF r
    <3>4. s \in Server
      BY <3>3, RewoundOf
    <3> HIDE DEF s
    <3>5. CASE UNCHANGED <<net, again>> /\ server' = s
      BY <3>5, <2>2, <3>4, <1>1 DEF SV_WriteDownloadToClient
    <3>6. CASE /\ net' = Sent(Message(s)) /\ server' = [s EXCEPT !.xmitBlock = @ + 1, !.late = FALSE]
               /\ again' = (again \/ Resends(r))
      <4>1. net' \in Seq(Messages) /\ Len(net') <= MaxBlocks
        BY <3>4, <3>6, <1>1, MessageType, SentBlock
      <4>2. server' \in Server
        <5> DEFINE n == s.xmitBlock + 1
        <5>1. n \in Nat /\ FALSE \in BOOLEAN
          BY <3>4, ServerFields
        <5>2. server' = [s EXCEPT !.xmitBlock = n, !.late = FALSE]
          BY <3>4, <3>6 DEF Server
        <5> HIDE DEF n
        <5> QED BY <5>1, <5>2, <3>4, Zenon DEF Server
      <4> QED BY <4>1, <4>2, <3>6, <2>2, <1>1 DEF SV_WriteDownloadToClient
    <3> QED BY <3>5, <3>6, <2>2 DEF SV_WriteDownloadToClient, o, r, s
  <2>3. CASE SV_ClientCommand
    <3>1. /\ cmds # <<>> /\ cmds' = Tail(cmds) /\ UNCHANGED <<net, again>>
          /\ \/ server' = NextDownload(server, Head(cmds).arg)
             \/ Head(cmds).cmd = "download" /\ server' = [Closed(server) EXCEPT !.name = Head(cmds).arg]
             \/ server' = Closed(server)
      BY <2>3 DEF SV_ClientCommand
    <3>2. /\ Tail(cmds) \in Seq(Commands) /\ Len(Tail(cmds)) = Len(cmds) - 1 /\ Len(cmds) > 0
          /\ \A k \in 1..(Len(cmds) - 1) : Tail(cmds)[k] = cmds[k + 1]
          /\ Head(cmds) = cmds[1]
      BY <3>1, <1>1, TailOf
    <3>3. AsksForFiles(Tail(cmds))
      <4>1. \A k \in 1..(Len(cmds) - 1) : k + 1 \in 1..Len(cmds)
        BY <1>1
      <4> QED BY <4>1, <3>2, <1>1 DEF AsksForFiles
    <3>4. server' \in Server
      <4>1. CASE server' = NextDownload(server, Head(cmds).arg)
        BY <4>1, <1>1, NextDownloadOf
      <4>2. CASE Head(cmds).cmd = "download" /\ server' = [Closed(server) EXCEPT !.name = Head(cmds).arg]
        <5> DEFINE f == Head(cmds).arg
        <5>1. 1 \in 1..Len(cmds)
          BY <3>2, <1>1
        <5>2. f \in Files \union {None} /\ Closed(server) \in Server
          BY <4>2, <5>1, <3>2, <1>1, ClosedOf DEF AsksForFiles
        <5> HIDE DEF f
        <5>3. server' = [Closed(server) EXCEPT !.name = f]
          BY <4>2 DEF f
        <5> QED BY <5>2, <5>3, Zenon DEF Server
      <4>3. CASE server' = Closed(server)
        BY <4>3, <1>1, ClosedOf
      <4> QED BY <3>1, <4>1, <4>2, <4>3
    <3> QED BY <3>1, <3>2, <3>3, <3>4, <1>1
  <2>4. CASE Wait
    <3>1. server' = [server EXCEPT !.late = TRUE] /\ UNCHANGED <<net, cmds, again>>
      BY <2>4 DEF Wait
    <3>2. TRUE \in BOOLEAN
      OBVIOUS
    <3>3. server' \in Server
      BY <3>1, <3>2, <1>1, Zenon DEF Server
    <3> QED BY <3>1, <3>3, <1>1
  <2> QED BY <2>1, <2>2, <2>3, <2>4 DEF DlServer
<1> QED BY <1>2, <1>3 DEF Astray, Fields

LEMMA AstrayKeeps ==
  ASSUME Astray, DlNext
  PROVE  Astray'
<1>1. CASE Lose
  <2>1. net \in Seq(Messages) /\ net # <<>> /\ Len(net) <= MaxBlocks /\ net' = Tail(net)
    BY <1>1 DEF Astray, Fields, Lose
  <2>2. net' \in Seq(Messages) /\ Len(net') <= MaxBlocks
    BY <2>1, TailOf, Limits
  <2>3. UNCHANGED <<server, client, cmds, again, stale, spoiled>>
    BY <1>1 DEF Lose
  <2> QED BY <2>2, <2>3 DEF Astray, Fields, AsksForFiles
<1> QED BY <1>1, ServerAstray, ReceiveAstray DEF DlNext

-----------------------------------------------------------------------------
(* The invariant is inductive.                                                *)

LEMMA StepKeeps ==
  ASSUME Intact, DlNext
  PROVE  IInv'
<1>1. PICK p \in Files \union {None} : Following(p)
  BY DEF Intact
<1>2. CASE spoiled' = {}
  <2>1. Steady' /\ \E q \in Files \union {None} : Following(q)'
    BY <1>1, <1>2, RefuseKeeps, WriteKeeps, CommandKeeps, WaitKeeps, LoseKeeps, ReceiveKeeps
       DEF DlNext, DlServer, Intact
  <2> QED BY <1>2, <2>1 DEF IInv, Intact
<1>3. CASE spoiled' # {}
  BY <1>3, GoesAstray DEF IInv
<1> QED BY <1>2, <1>3

\* No file is open, and none has been: before the first, and after the last one.
Fresh ==
  /\ server = NoDownload /\ client \in Client /\ net = <<>> /\ cmds \in Seq(Commands)
  /\ again = FALSE /\ stale = {} /\ spoiled = {}

LEMMA FreshServer ==
  /\ NoDownload \in Server /\ ~NoDownload.open /\ NoDownload.name = None /\ ~NoDownload.dropped
  /\ Ends(NoDownload.slots[NoDownload.clientBlock % Window])
<1> DEFINE s == [i \in 0..(Window - 1) |-> NoBlock]
<1>1. NoBlock \in Blocks /\ 0 \in Nat /\ NoBlock.file = None
  BY BlockFields DEF NoBlock
<1>2. s \in [0..(Window - 1) -> Blocks] /\ \A i \in 0..(Window - 1) : s[i] = NoBlock
  BY <1>1
<1>3. 0 % Window \in 0..(Window - 1)
  BY SlotNumber
<1>4. /\ NoDownload.open = FALSE /\ NoDownload.name = None /\ NoDownload.dropped = FALSE
      /\ NoDownload.slots = s /\ NoDownload.clientBlock = 0
  BY DEF NoDownload
<1> HIDE DEF s
<1>5. NoDownload \in Server
  <2>1. FALSE \in BOOLEAN /\ None \in Files \union {None}
    OBVIOUS
  <2> QED BY <1>1, <1>2, <2>1 DEF NoDownload, Server, s
<1>6. Ends(NoDownload.slots[NoDownload.clientBlock % Window])
  BY <1>1, <1>2, <1>3, <1>4 DEF Ends
<1> QED BY <1>4, <1>5, <1>6

LEMMA FreshSteady ==
  ASSUME Fresh, Writes, client.state # "failed"
  PROVE  Steady
<1>1. server \in Server /\ ~server.open /\ server.name = None /\ ~server.dropped
      /\ Ends(server.slots[server.clientBlock % Window])
  BY FreshServer DEF Fresh
<1>2. Len(net) = 0 /\ net \in Seq(Messages) /\ \A i \in 1..Len(net) : FALSE
  BY DEF Fresh
<1>3. Typed
  <2>1. Len(net) <= MaxBlocks
    BY <1>2, Limits
  <2>2. stale \subseteq Blocks /\ again \in BOOLEAN /\ client \in Client /\ cmds \in Seq(Commands)
    BY DEF Fresh
  <2> QED BY <1>1, <1>2, <2>1, <2>2 DEF Typed, Fields
<1>4. Opens /\ Mistakes /\ Once
  BY <1>1, <1>2 DEF Fresh, Opens, Mistakes, Once
<1> QED BY <1>3, <1>4 DEF Steady

LEMMA FreshFollowing ==
  ASSUME Fresh, Phase(None), client.file # None => Asks /\ client.block = 0
  PROVE  Following(None)
<1>1. Len(net) = 0 /\ \A i \in 1..Len(net) : FALSE
  BY DEF Fresh
<1>2. Passing(None) /\ Overlap(None)
  <2>1. client.file # None => ~(client.block > 0)
    OBVIOUS
  <2> QED BY <1>1, <2>1 DEF Passing, Overlap
<1> QED BY <1>2 DEF Following

\* A client that misses nothing, or has all its files.
LEMMA HasFiles ==
  Fresh /\ client = Downloaded /\ cmds = <<>> => IInv
<1> SUFFICES ASSUME Fresh, client = Downloaded, cmds = <<>>
             PROVE  IInv
  OBVIOUS
<1>1. client.file = None /\ client.todo = <<>> /\ client.state = "done" /\ stale = {}
  BY DEF Downloaded, Fresh
<1>2. Len(client.todo) = 0
  BY <1>1
<1>3. Writes
  <2>1. \A i \in 1..(Len(client.todo) - 1) : FALSE
    BY <1>2
  <2> QED BY <1>1, <2>1 DEF Writes
<1>4. Phase(None)
  <2>1. Len(cmds) = 0
    OBVIOUS
  <2>2. PICK a \in 0..Len(cmds) : a = 0
    BY <2>1
  <2>3. Finishing(None, a)
    BY <2>2, FreshServer DEF Finishing, Fresh
  <2>4. \A i \in (a + 1)..Len(cmds) : cmds[i] = StopDl
    BY <2>1, <2>2
  <2> QED BY <2>3, <2>4, <1>1 DEF Phase, Ending
<1> QED BY <1>1, <1>3, <1>4, FreshSteady, FreshFollowing DEF Fresh, Intact, IInv

\* A client that asks for the first file of its list.
LEMMA MissesFiles ==
  ASSUME NEW l \in Lists, l # <<>>, Fresh,
         client = [file |-> Head(l), todo |-> Tail(l), block |-> 0, data |-> <<>>,
                   state |-> "downloading"],
         cmds = <<BeginDl(Head(l))>>
  PROVE  IInv
<1>1. l \in Seq(Files) /\ \A i \in 1..(Len(l) - 1) : l[i] # l[i + 1]
  BY DownloadAssumption DEF Files
<1>2. /\ Tail(l) \in Seq(Files) /\ Len(Tail(l)) = Len(l) - 1 /\ Len(l) > 0 /\ Len(l) \in Nat
      /\ \A k \in 1..(Len(l) - 1) : Tail(l)[k] = l[k + 1]
      /\ Head(l) = l[1] /\ Head(l) \in Files
  BY <1>1, TailOf
<1>3. /\ client.file = Head(l) /\ client.todo = Tail(l) /\ client.block = 0
      /\ client.data = <<>> /\ client.state = "downloading" /\ stale = {}
  BY DEF Fresh
<1> DEFINE t == client.todo
<1>4. t # <<>> => client.file # Head(t)
  <2> SUFFICES ASSUME t # <<>> PROVE client.file # Head(t)
    OBVIOUS
  <2>1. Head(t) = t[1] /\ Len(t) > 0 /\ Len(t) = Len(l) - 1
    BY <1>2, <1>3, TailOf
  <2>2. 1 \in 1..(Len(l) - 1) /\ t[1] = l[2]
    <3>1. 1 \in 1..(Len(l) - 1) /\ 1 + 1 = 2
      BY <1>2, <2>1
    <3> QED BY <3>1, <1>2, <1>3
  <2>3. l[1] # l[1 + 1]
    BY <2>2, <1>1
  <2> QED BY <2>1, <2>2, <2>3, <1>2, <1>3
<1>5. \A i \in 1..(Len(t) - 1) : t[i] # t[i + 1]
  <2> SUFFICES ASSUME NEW i \in 1..(Len(t) - 1) PROVE t[i] # t[i + 1]
    OBVIOUS
  <2>1. Len(t) = Len(l) - 1 /\ t = Tail(l)
    BY <1>2, <1>3
  <2>2. i \in 1..(Len(l) - 1) /\ i + 1 \in 1..(Len(l) - 1)
    BY <2>1, <1>2
  <2>3. t[i] = l[i + 1] /\ t[i + 1] = l[i + 1 + 1] /\ l[i + 1] # l[i + 1 + 1]
    BY <2>1, <2>2, <1>1, <1>2
  <2> QED BY <2>3
<1> HIDE DEF t
<1>6. Writes
  <2>1. client.file # None
    BY <1>2, <1>3, Lengths
  <2>2. Len(client.data) = 0 /\ \A i \in 1..client.block : FALSE
    BY <1>3
  <2>3. Size[client.file] \in Nat
    BY <1>2, <1>3, Lengths
  <2> QED BY <2>1, <2>2, <2>3, <1>3, <1>4, <1>5 DEF Writes, t
<1>7. Len(cmds) = 1 /\ cmds[1] = BeginDl(client.file)
  BY <1>3
<1>8. Asks
  BY <1>7, CommandFields DEF Asks
<1>9. Phase(None)
  <2>1. client.file # None
    BY <1>2, <1>3, Lengths
  <2>2. PICK a \in 0..Len(cmds) : a = 0
    BY <1>7
  <2>3. Finishing(None, a)
    BY <2>2, FreshServer DEF Finishing, Fresh
  <2>4. /\ Len(cmds) = a + 1 + client.block /\ cmds[a + 1] = BeginDl(client.file)
        /\ \A i \in 1..client.block : FALSE
    BY <2>2, <1>3, <1>7
  <2>5. Asking(None)
    BY <2>3, <2>4 DEF Asking
  <2> QED BY <2>1, <2>5, <1>8 DEF Phase
<1> QED BY <1>3, <1>6, <1>8, <1>9, FreshSteady, FreshFollowing DEF Fresh, Intact, IInv

LEMMA DownloadedType == Downloaded \in Client
BY DEF Downloaded, Client

LEMMA InitInv == Init => IInv
<1> SUFFICES ASSUME DlInit
             PROVE  IInv
  BY DEF Init
<1>1. server = NoDownload /\ net = <<>> /\ again = FALSE /\ stale = {} /\ spoiled = {}
  BY DEF DlInit
<1>2. PICK l \in Lists :
        IF l = <<>> THEN client = Downloaded /\ cmds = <<>>
        ELSE /\ client = [file |-> Head(l), todo |-> Tail(l), block |-> 0, data |-> <<>>,
                          state |-> "downloading"]
             /\ cmds = <<BeginDl(Head(l))>>
  BY DEF DlInit
<1>3. CASE l = <<>>
  <2>1. Fresh
    BY <1>1, <1>2, <1>3, DownloadedType DEF Fresh
  <2> QED BY <2>1, <1>2, <1>3, HasFiles
<1>4. CASE l # <<>>
  <2>1. Head(l) \in Files /\ Tail(l) \in Seq(Files)
    BY <1>4, DownloadAssumption DEF Files
  <2>2. client \in Client
    <3> DEFINE f == Head(l)
               t == Tail(l)
    <3>1. /\ client = [file |-> f, todo |-> t, block |-> 0, data |-> <<>>, state |-> "downloading"]
          /\ f \in Files \union {None} /\ t \in Seq(Files)
      BY <1>2, <1>4, <2>1
    <3>2. 0 \in Nat /\ <<>> \in Seq(Blocks)
      OBVIOUS
    <3> HIDE DEF f, t
    <3> QED BY <3>1, <3>2 DEF Client
  <2>3. cmds \in Seq(Commands)
    <3> DEFINE c == BeginDl(Head(l))
    <3>1. c \in Commands /\ cmds = <<c>>
      BY <1>2, <1>4, <2>1, CommandFields
    <3> HIDE DEF c
    <3> QED BY <3>1
  <2>4. Fresh
    BY <1>1, <2>2, <2>3 DEF Fresh
  <2> QED BY <1>2, <1>4, <2>4, MissesFiles
<1> QED BY <1>3, <1>4


LEMMA IntactUnchanged ==
  ASSUME Intact, UNCHANGED dlVars
  PROVE  Intact'
<1>1. /\ server' = server /\ client' = client /\ net' = net /\ cmds' = cmds
      /\ again' = again /\ stale' = stale /\ spoiled' = spoiled
  BY DEF dlVars
<1>2. PICK p \in Files \union {None} : Following(p)
  BY DEF Intact
<1>3. Asks' <=> Asks
  BY <1>1 DEF Asks
<1>4. Typed' /\ Writes'
  BY <1>1 DEF Intact, Steady, Typed, Fields, Writes, Numbered
<1>5. Opens'
  BY <1>1 DEF Intact, Steady, Opens, Readable, ReadOn, Holds
<1>6. Mistakes' /\ Once'
  BY <1>1 DEF Intact, Steady, Mistakes, Once, Own
<1>7. Phase(p)'
  <2>1. \A a : Finishing(p, a)' <=> Finishing(p, a)
    BY <1>1 DEF Finishing
  <2>2. (Ending(p)' <=> Ending(p)) /\ (Asking(p)' <=> Asking(p))
    BY <1>1, <2>1 DEF Ending, Asking
  <2>3. Serving' <=> Serving
    BY <1>1 DEF Serving, Sending, Beginning, Over
  <2> QED BY <1>1, <1>2, <1>3, <2>2, <2>3 DEF Following, Phase
<1>8. Passing(p)'
  <2>1. Starts' <=> Starts
    BY <1>1, <1>3 DEF Starts
  <2>2. \A m : (Own(m)' <=> Own(m)) /\ (Present(m)' <=> Present(m))
    BY <1>1 DEF Own, Present
  <2> QED BY <1>1, <1>2, <1>3, <2>1, <2>2 DEF Following, Passing, Past, Own, Present
<1>9. Overlap(p)'
  BY <1>1, <1>2, <1>3 DEF Following, Overlap, Starts, Own
<1> QED BY <1>1, <1>4, <1>5, <1>6, <1>7, <1>8, <1>9 DEF Intact, Steady, Following

LEMMA Unchanged ==
  ASSUME IInv, UNCHANGED dlVars
  PROVE  IInv'
<1>1. CASE Astray
  BY <1>1 DEF Astray, Fields, AsksForFiles, dlVars, IInv
<1> QED BY <1>1, IntactUnchanged DEF IInv

LEMMA NextInv == IInv /\ [Next]_vars => IInv'
<1> SUFFICES ASSUME IInv, [Next]_vars
             PROVE  IInv'
  OBVIOUS
<1>2. CASE DownloadFiles
  BY <1>2, StepKeeps, AstrayKeeps DEF DownloadFiles, IInv
<1>3. CASE DoneDownload
  <2>1. /\ (server = NoDownload /\ client = Downloaded)'
        /\ (net = <<>> /\ cmds = <<>> /\ again = FALSE /\ stale = {} /\ spoiled = {})'
    BY <1>3 DEF DoneDownload
  <2>2. (Fresh /\ client = Downloaded /\ cmds = <<>>)'
    BY <2>1, DownloadedType DEF Fresh
  <2> QED BY <2>2, HasFiles, PTL
<1>4. CASE PlayGame
  BY <1>4, Unchanged DEF PlayGame
<1>5. CASE UNCHANGED vars
  BY <1>5, Unchanged DEF vars
<1> QED BY <1>2, <1>3, <1>4, <1>5 DEF Next

LEMMA InvAlways == Spec => []IInv
BY InitInv, NextInv, PTL DEF Spec

-----------------------------------------------------------------------------
(* What follows from it.                                                      *)

\* The fields of a download keep their types, whatever the client acknowledges,
\* and of the blocks sent no more are under way than the channel holds.
THEOREM DownloadTypeCorrect == Spec => []DlTypeOK
<1>1. IInv => DlTypeOK
  BY DEF IInv, Intact, Astray, Steady, Typed, Fields, DlTypeOK
<1> QED BY InvAlways, <1>1, PTL

\* A block that may have to be sent again is still in its slot, for every size of
\* the window and of the file, and the client waits for one the server has or will
\* read next, until a wrong file is accepted (SV_WriteDownloadToClient,
\* SV_NextDownload_f).
THEOREM WindowHolds == Spec => []WindowIntact
<1>1. IInv => WindowIntact
  <2> SUFFICES ASSUME Intact, server.open
               PROVE  /\ \A b \in server.clientBlock..(server.currentBlock - 1) :
                           server.slots[b % Window] = Block(server.name, b)
                      /\ server.xmitBlock <= server.currentBlock
                      /\ (client.file = server.name /\ stale = {}) =>
                           client.block \in server.clientBlock..server.currentBlock
    BY DEF WindowIntact, IInv, Astray
  <2>1. /\ server \in Server /\ server.clientBlock \in Nat /\ server.currentBlock \in Nat
        /\ client.block \in Nat /\ Len(cmds) \in Nat
    BY Known DEF Intact, Steady
  <2>2. Readable(server)
    BY DEF Intact, Steady, Opens
  <2>3. ASSUME NEW b \in server.clientBlock..(server.currentBlock - 1)
        PROVE  server.slots[b % Window] = Block(server.name, b)
    <3>1. b \in Nat /\ b < server.currentBlock /\ server.clientBlock <= b
      BY <2>1
    <3>2. server.currentBlock <= server.clientBlock + Window
      BY <2>2 DEF Readable
    <3>3. server.currentBlock <= b + Window
      BY <2>1, <3>1, <3>2, Limits
    <3> QED BY <2>1, <2>2, <3>1, <3>3, InWindow
  <2>4. ASSUME client.file = server.name, stale = {}
        PROVE  client.block \in server.clientBlock..server.currentBlock
    <3>1. client.file \in Files /\ client.file # None /\ Size[client.file] \in Nat
      BY <2>2, <2>4, Lengths DEF Readable
    <3>2. PICK p \in Files \union {None} : Phase(p)
      BY DEF Intact, Following
    <3>3. client.file # p
      BY <3>1, <3>2 DEF Phase
    <3>4. ~Asks
      <4>1. ASSUME Asks PROVE FALSE
        <5>1. PICK a \in 0..Len(cmds) : Finishing(p, a)
          BY <3>1, <3>2, <4>1 DEF Phase, Asking
        <5> QED BY <2>4, <3>3, <5>1 DEF Finishing
      <4> QED BY <4>1
    <3>5. Serving
      BY <3>1, <3>2, <3>4 DEF Phase
    <3>6. Sending
      BY <3>5 DEF Serving, Beginning, Over
    <3>7. /\ server.clientBlock = client.block - Len(cmds)
          /\ client.block <= server.currentBlock \/ server.currentBlock = Size[client.file] + 1
      BY <3>6 DEF Sending
    <3>8. client.block <= Size[client.file]
      BY <2>4, <3>1 DEF Intact, Steady, Writes
    <3> QED BY <2>1, <3>1, <3>7, <3>8
  <2> QED BY <2>2, <2>3, <2>4 DEF Readable
<1> QED BY InvAlways, <1>1, PTL

\* What the client writes and accepts is the file, unless it took a block of the last
\* window of the file before for the first of this one (CL_ParseDownload); and all
\* it took wrongly is of a last window until it accepts a wrong file under a name
\* (CL_NextDownload, FS_CompareZipChecksum).
THEOREM FileIsWritten == Spec => []DataIntact
<1>1. IInv => DataIntact
  <2> SUFFICES ASSUME Intact PROVE DataIntact
    <3>1. Astray => DataIntact
      BY DEF Astray, DataIntact
    <3> QED BY <3>1 DEF IInv
  <2>3. spoiled = {}
    BY DEF Intact
  <2>1. CASE stale = {}
    <3> SUFFICES ASSUME client.file # None
                 PROVE  client.data = SubSeq(Contents(client.file), 1, client.block)
      BY <2>1, <2>3 DEF DataIntact
    <3> DEFINE f == client.file
               n == client.block
               d == client.data
    <3>1. /\ Len(d) = n /\ n <= Size[f]
          /\ \A i \in 1..n : d[i] = Block(f, i - 1)
      BY <2>1 DEF Intact, Steady, Writes
    <3>2. d \in Seq(Blocks) /\ n \in Nat /\ f \in Files /\ Size[f] \in Nat
      BY Known, ClientFields, Lengths DEF Intact, Steady
    <3> HIDE DEF f, n, d
    <3>4. /\ Contents(f) \in Seq(Blocks) /\ Len(Contents(f)) = Size[f] + 1
          /\ \A i \in 1..(Size[f] + 1) : Contents(f)[i] = Block(f, i - 1)
      BY <3>2, ContentsSeq
    <3> DEFINE c == Contents(f)
               s == SubSeq(c, 1, n)
    <3>5. /\ s \in Seq(Blocks) /\ Len(s) = n
          /\ \A i \in 1..n : s[i] = c[i]
      <4>1. CASE n = 0
        <5>1. s = <<>>
          BY <3>4, <4>1, SubSeqProperties
        <5> QED BY <4>1, <5>1
      <4>2. CASE n # 0
        <5>1. c \in Seq(Blocks) /\ 1 \in 1..Len(c) /\ n \in 1..Len(c)
          BY <3>1, <3>2, <3>4, <4>2
        <5> HIDE DEF c
        <5> QED BY <3>2, <4>2, <5>1, SubSeqProperties
      <4> QED BY <4>1, <4>2
    <3> HIDE DEF s
    <3>6. ASSUME NEW i \in 1..n PROVE s[i] = d[i]
      <4>1. i \in 1..(Size[f] + 1)
        BY <3>1, <3>2
      <4>2. s[i] = c[i] /\ c[i] = Block(f, i - 1) /\ d[i] = Block(f, i - 1)
        BY <4>1, <3>1, <3>4, <3>5
      <4> QED BY <4>2
    <3>7. s = d
      BY <3>1, <3>2, <3>5, <3>6
    <3> QED BY <3>7 DEF s, d, f, n
  <2>2. CASE stale # {}
    BY <2>2 DEF Intact, Steady, Mistakes, DataIntact, LastWindow
  <2> QED BY <2>1, <2>2
<1> QED BY InvAlways, <1>1, PTL

\* No client fails before something was sent a second time, and none is dropped as
\* a "broken download" before it took a block for another (SV_NextDownload_f).
THEOREM NoFailureBeforeResend == Spec => []FailsOnlyAfterResend
<1>1. IInv => FailsOnlyAfterResend
  BY DEF IInv, Intact, Astray, Steady, Once, Mistakes, FailsOnlyAfterResend
<1> QED BY InvAlways, <1>1, PTL

===============================================================================
