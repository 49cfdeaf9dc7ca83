--------------------------- MODULE SoundDmaProofs ----------------------------
(* Proofs about SoundDma: for every ring, queue, pre-step and mix-ahead of    *)
(* the order of the port's, s_soundtime is exact, and a mix that comes in     *)
(* time leaves the device neither an old frame nor nothing.                   *)
EXTENDS SoundDma, TLAPS

-----------------------------------------------------------------------------
(* The invariant, for a device v, a buffer d and a history h.                *)

Frames == {Silence, Mixed, Old}

Device == [active : BOOLEAN, queue : 0..Queue]
Buffer == [ready : BOOLEAN, pos : 0..(Ring - 1), ring : [0..(Ring - 1) -> Frames]]
Statics == [started : BOOLEAN, muted : BOOLEAN, time : Nat, painted : Nat, buffers : Nat,
            old : 0..(Ring - 1), ot : Int, mixing : BOOLEAN]
History == [since : 0..Ring, moved : 0..Ring, late : BOOLEAN, stale : BOOLEAN]

Typed ==
  /\ dev \in Device /\ dma \in Buffer /\ snd \in Statics /\ hist \in History
  /\ snd.mixing => snd.started
  /\ snd.started => dma.ready

\* There was a mix since the device was started, and the device has not taken a
\* whole ring since.
Followed(v, h) == v.active /\ h.since < Ring

\* The time of the last mix is that of the position then, and the device is
\* where it was then and what it has taken.
Clock ==
  Followed(dev, hist) =>
    /\ snd.started
    /\ snd.time = snd.ot /\ snd.time = snd.buffers * Ring + snd.old
    /\ SNDDMA_GetDMAPos(dma, dev) = (snd.old + hist.since) % Ring

\* A submission fills the queue or ends at the end of the ring, and no two in a
\* row do the latter.
Fed(v, d, h, mixing) ==
  Followed(v, h) =>
    /\ d.pos # 0 => v.queue + h.since + (IF mixing THEN h.moved ELSE 0) >= Queue
    /\ ~mixing => v.queue + h.since + h.moved >= Queue

\* The frame k behind the one to submit next is not old.
FreshAt(d, k) == d.ring[(d.pos + k) % Ring] # Old

\* Nor is the frame n after the last mix, if it is not with the device already.
Fresh(n, v, d, h) ==
  n >= h.since + v.queue => FreshAt(d, n - (h.since + v.queue))

\* The last mix, the last two mixes, and while there is something to submit the
\* last three, left no old frame in what they cover.
InTime(h) == h.moved <= MinAhead - PreStep
Covered(v, d, h, mixing) ==
  Followed(v, h) =>
    /\ \A n \in PreStep..(MinAhead - 1) : Fresh(n, v, d, h)
    /\ InTime(h) =>
         \A n \in 0..(MinAhead - 1) : n + h.moved >= PreStep => Fresh(n, v, d, h)
    /\ mixing /\ InTime(h) /\ ~h.late => \A n \in 0..(MinAhead - 1) : Fresh(n, v, d, h)

IInv ==
  /\ Typed /\ Clock
  /\ Fed(dev, dma, hist, snd.mixing) /\ Covered(dev, dma, hist, snd.mixing)
  /\ FreshUnlessLate

-----------------------------------------------------------------------------
(* Numbers.                                                                  *)

LEMMA Sizes ==
  /\ Ring \in Nat /\ Queue \in Nat /\ PreStep \in Nat /\ MinAhead \in Nat /\ MaxAhead \in Nat
  /\ 0 < Queue /\ PreStep < Queue /\ Queue < MinAhead /\ MinAhead <= MaxAhead /\ MaxAhead < Ring
BY SoundAssumption

LEMMA Rest ==
  ASSUME NEW r \in 0..(Ring - 1)
  PROVE  r % Ring = r
BY Sizes

\* The remainder of what is at most one turn too far.
LEMMA Turn ==
  ASSUME NEW a \in Nat, a < Ring + Ring
  PROVE  a % Ring \in 0..(Ring - 1) /\ a % Ring = IF a < Ring THEN a ELSE a - Ring
<1>1. CASE a < Ring
  BY <1>1, Sizes
<1>2. CASE a >= Ring
  <2>1. a = Ring * (a \div Ring) + (a % Ring) /\ a \div Ring \in Int /\ a % Ring \in 0..(Ring - 1)
    BY Sizes
  <2> DEFINE q == a \div Ring
             r == a % Ring
  <2>2. a = Ring * q + r /\ q \in Int /\ r \in 0..(Ring - 1) /\ Ring \in Nat
    BY <2>1, Sizes
  <2> HIDE DEF q, r
  <2>3. CASE q <= 0
    BY SMTT(30), <2>2, <2>3, <1>2
  <2>4. CASE q >= 2
    BY SMTT(30), <2>2, <2>4
  <2>5. CASE q = 1
    BY SMTT(30), <2>2, <2>5, <1>2 DEF r
  <2> QED BY <2>2, <2>3, <2>4, <2>5
<1> QED BY <1>1, <1>2, Sizes

LEMMA Times ==
  ASSUME NEW b \in Nat
  PROVE  b * Ring \in Nat /\ (b + 1) * Ring = b * Ring + Ring
BY Sizes

\* Whole turns do not change a remainder.
LEMMA Turns ==
  ASSUME NEW b \in Int, NEW r \in 0..(Ring - 1)
  PROVE  (r - b * Ring) % Ring = r
<1> DEFINE x == r - b * Ring
           q == x \div Ring
           s == x % Ring
<1>1. x \in Int /\ x = r - b * Ring
  BY Sizes
<1> HIDE DEF x
<1>2. x = Ring * q + s /\ q \in Int /\ s \in 0..(Ring - 1)
  BY <1>1, Sizes
<1> HIDE DEF q, s
<1>3. r - s = Ring * (q + b) /\ q + b \in Int
  BY <1>1, <1>2, Sizes
<1> DEFINE c == q + b
<1>4. r - s = Ring * c /\ c \in Int
  BY <1>3
<1> HIDE DEF c
<1>5. ~(c >= 1) /\ ~(c <= 0 - 1)
  <2>1. ASSUME c >= 1 PROVE FALSE
    BY SMTT(30), <2>1, <1>4, <1>2, Sizes
  <2>2. ASSUME c <= 0 - 1 PROVE FALSE
    BY SMTT(30), <2>2, <1>4, <1>2, Sizes
  <2> QED BY <2>1, <2>2
<1>6. c = 0
  BY <1>4, <1>5
<1>7. s = r
  BY <1>6, <1>4, <1>2, Sizes
<1> QED BY <1>7 DEF s, x

-----------------------------------------------------------------------------
(* The position and the submission.                                          *)

\* SNDDMA_GetDMAPos: the queue is shorter than the ring.
LEMMA Position ==
  ASSUME NEW v \in Device, NEW d \in Buffer, v.active, d.ready
  PROVE  SNDDMA_GetDMAPos(d, v) =
           IF v.queue <= d.pos THEN d.pos - v.queue ELSE d.pos + Ring - v.queue
<1>1. /\ d.pos \in Nat /\ v.queue \in Nat /\ d.pos < Ring /\ v.queue <= Queue
  BY Sizes DEF Device, Buffer
<1>2. v.queue % Ring = v.queue
  BY <1>1, Rest, Sizes
<1>3. /\ d.pos + Ring - v.queue \in Nat /\ d.pos + Ring - v.queue < Ring + Ring
  BY <1>1, Sizes
<1>4. (d.pos + Ring - v.queue) % Ring =
        IF v.queue <= d.pos THEN d.pos - v.queue ELSE d.pos + Ring - v.queue
  BY <1>1, <1>3, Turn, Sizes
<1> QED BY <1>2, <1>4 DEF SNDDMA_GetDMAPos

LEMMA PositionInRing ==
  ASSUME NEW v \in Device, NEW d \in Buffer
  PROVE  SNDDMA_GetDMAPos(d, v) \in 0..(Ring - 1)
<1>1. CASE d.ready /\ v.active
  <2>1. /\ d.pos \in Nat /\ v.queue \in Nat /\ d.pos < Ring /\ v.queue <= Queue
    BY Sizes DEF Device, Buffer
  <2> QED BY <1>1, <2>1, Position, Sizes
<1>2. CASE ~(d.ready /\ v.active)
  BY <1>2, Sizes DEF SNDDMA_GetDMAPos
<1> QED BY <1>1, <1>2

LEMMA Accepts ==
  ASSUME NEW v \in Device, NEW d \in Buffer
  PROVE  /\ Accepted(d, v) \in Nat /\ d.pos + Accepted(d, v) <= Ring
         /\ v.queue + Accepted(d, v) <= Queue
         /\ d.ready /\ v.active => \/ d.pos + Accepted(d, v) = Ring
                                   \/ v.queue + Accepted(d, v) = Queue
         /\ ~(d.ready /\ v.active) => Accepted(d, v) = 0
<1>1. /\ d.pos \in Nat /\ v.queue \in Nat /\ d.pos < Ring /\ v.queue <= Queue
  BY Sizes DEF Device, Buffer
<1> QED BY <1>1, Sizes DEF Accepted, Least

\* What SNDDMA_Submit leaves: n frames more with the device, and none of them
\* fit to be played again.
Passes(n, v, d, w, e) ==
  /\ n \in Nat /\ d.pos + n <= Ring
  /\ w.active = v.active /\ w.queue = v.queue + n
  /\ e.ready = d.ready /\ e.pos = IF d.pos + n = Ring THEN 0 ELSE d.pos + n
  /\ d.ready /\ v.active => d.pos + n = Ring \/ w.queue = Queue
  /\ \A i \in 0..(Ring - 1) : e.ring[i] = Old => d.ring[i] = Old \/ i \in d.pos..(d.pos + n - 1)

LEMMA Submission ==
  ASSUME NEW v \in Device, NEW d \in Buffer, NEW h \in History
  PROVE  LET s == Submitted(v, d, h)
         IN  /\ s.dev \in Device /\ s.dma \in Buffer /\ s.hist \in History
             /\ s.hist.since = h.since /\ s.hist.moved = h.moved /\ s.hist.late = h.late
             /\ s.hist.stale = \E i \in d.pos..(d.pos + Accepted(d, v) - 1) : d.ring[i] = Old
             /\ Passes(Accepted(d, v), v, d, s.dev, s.dma)
<1> DEFINE n == Accepted(d, v)
           s == Submitted(v, d, h)
           ring == [i \in 0..(Ring - 1) |->
                     IF i \in d.pos..(d.pos + n - 1) /\ d.ring[i] = Mixed THEN Old ELSE d.ring[i]]
<1>1. /\ n \in Nat /\ d.pos + n <= Ring /\ v.queue + n <= Queue
      /\ d.ready /\ v.active => d.pos + n = Ring \/ v.queue + n = Queue
  BY Accepts
<1>2. /\ v.active \in BOOLEAN /\ v.queue \in Nat /\ d.ready \in BOOLEAN /\ d.pos \in Nat /\ d.pos < Ring
      /\ d.ring \in [0..(Ring - 1) -> Frames]
  BY Sizes DEF Device, Buffer
<1> HIDE DEF n
<1>3. /\ (d.pos + n) % Ring \in 0..(Ring - 1)
      /\ (d.pos + n) % Ring = IF d.pos + n = Ring THEN 0 ELSE d.pos + n
  <2> DEFINE a == d.pos + n
  <2>1. a \in Nat /\ a < Ring + Ring /\ a <= Ring /\ a = d.pos + n
    BY <1>1, <1>2, Sizes
  <2> HIDE DEF a
  <2>2. a % Ring \in 0..(Ring - 1) /\ a % Ring = IF a < Ring THEN a ELSE a - Ring
    BY <2>1, Turn
  <2> QED BY <2>1, <2>2, Sizes
<1>4. s.dev = [v EXCEPT !.queue = @ + n]
  BY DEF Submitted, n
<1>5. s.dma = [d EXCEPT !.pos = (@ + n) % Ring, !.ring = ring]
  BY DEF Submitted, n
<1>6. s.hist = [h EXCEPT !.stale = \E i \in d.pos..(d.pos + n - 1) : d.ring[i] = Old]
  BY DEF Submitted, n
<1>7. ring \in [0..(Ring - 1) -> Frames]
  BY <1>2 DEF Frames
<1> HIDE DEF s
<1>8. s.dev \in Device /\ s.dev.active = v.active /\ s.dev.queue = v.queue + n
  BY <1>1, <1>2, <1>4 DEF Device
<1>9. /\ s.dma \in Buffer /\ s.dma.ready = d.ready /\ s.dma.ring = ring
      /\ s.dma.pos = IF d.pos + n = Ring THEN 0 ELSE d.pos + n
  <2> HIDE DEF ring
  <2> QED BY <1>2, <1>3, <1>5, <1>7 DEF Buffer
<1>10. /\ s.hist \in History
       /\ s.hist.since = h.since /\ s.hist.moved = h.moved /\ s.hist.late = h.late
       /\ s.hist.stale = \E i \in d.pos..(d.pos + n - 1) : d.ring[i] = Old
  BY <1>6 DEF History
<1>11. Passes(n, v, d, s.dev, s.dma)
  <2>1. \A i \in 0..(Ring - 1) : ring[i] = Old => d.ring[i] = Old \/ i \in d.pos..(d.pos + n - 1)
    OBVIOUS
  <2> HIDE DEF ring
  <2> QED BY <2>1, <1>1, <1>8, <1>9 DEF Passes
<1> QED BY <1>8, <1>9, <1>10, <1>11 DEF n, s

\* It does not move the position: what is with the device is still to be played.
LEMMA PositionStays ==
  ASSUME NEW v \in Device, NEW d \in Buffer, NEW w \in Device, NEW e \in Buffer, NEW n,
         Passes(n, v, d, w, e)
  PROVE  SNDDMA_GetDMAPos(e, w) = SNDDMA_GetDMAPos(d, v)
<1>1. CASE d.ready /\ v.active
  <2>1. /\ d.pos \in Nat /\ v.queue \in Nat /\ d.pos < Ring /\ v.queue <= Queue
        /\ w.queue \in Nat /\ w.queue <= Queue
    BY Sizes DEF Device, Buffer
  <2>2. /\ w.active /\ e.ready /\ n \in Nat /\ d.pos + n <= Ring
        /\ w.queue = v.queue + n /\ e.pos = IF d.pos + n = Ring THEN 0 ELSE d.pos + n
    BY <1>1 DEF Passes
  <2>3. SNDDMA_GetDMAPos(d, v) =
          IF v.queue <= d.pos THEN d.pos - v.queue ELSE d.pos + Ring - v.queue
    BY <1>1, Position
  <2>4. SNDDMA_GetDMAPos(e, w) =
          IF w.queue <= e.pos THEN e.pos - w.queue ELSE e.pos + Ring - w.queue
    BY <2>2, Position
  <2>5. CASE d.pos + n = Ring
    BY <2>1, <2>2, <2>3, <2>4, <2>5, Sizes
  <2>6. CASE d.pos + n < Ring
    BY <2>1, <2>2, <2>3, <2>4, <2>6, Sizes
  <2> QED BY <2>1, <2>2, <2>5, <2>6, Sizes
<1>2. CASE ~(d.ready /\ v.active)
  BY <1>2 DEF SNDDMA_GetDMAPos, Passes
<1> QED BY <1>1, <1>2

\* A frame that is not old before the submission, and not part of it, is not old
\* after it.
LEMMA StaysFresh ==
  ASSUME NEW v \in Device, NEW d \in Buffer, NEW w \in Device, NEW e \in Buffer, NEW n,
         Passes(n, v, d, w, e), NEW k \in Nat, n + k < Ring, FreshAt(d, n + k)
  PROVE  FreshAt(e, k)
<1>1. n \in Nat /\ d.pos \in Nat /\ d.pos < Ring /\ d.pos + n <= Ring
  BY Sizes DEF Passes, Buffer
<1>2. e.pos \in Nat /\ e.pos = IF d.pos + n = Ring THEN 0 ELSE d.pos + n
  BY <1>1 DEF Passes
<1> DEFINE a == d.pos + (n + k)
           c == e.pos + k
           i == a % Ring
<1>3. a \in Nat /\ a < Ring + Ring /\ c \in Nat /\ c < Ring + Ring
      /\ (c = a \/ (c = a - Ring /\ d.pos + n = Ring))
  BY <1>1, <1>2, Sizes
<1> HIDE DEF a, c
<1>4. i \in 0..(Ring - 1) /\ i = IF a < Ring THEN a ELSE a - Ring
  BY <1>3, Turn
<1>5. c % Ring = i
  <2>1. CASE c = a
    BY <2>1
  <2>2. CASE c = a - Ring
    <3>1. c % Ring = c
      BY <1>3, <2>2, Turn, Sizes
    <3> QED BY <3>1, <2>2, <1>3, <1>4, Sizes
  <2> QED BY <2>1, <2>2, <1>3
<1>6. i \notin d.pos..(d.pos + n - 1)
  <2>1. a = d.pos + (n + k)
    BY DEF a
  <2> QED BY <2>1, <1>1, <1>4, Sizes
<1> HIDE DEF i
<1>7. d.ring[i] # Old
  BY DEF FreshAt, a, i
<1>8. e.ring[i] # Old
  BY <1>4, <1>6, <1>7 DEF Passes
<1> QED BY <1>5, <1>8 DEF FreshAt, c

-----------------------------------------------------------------------------
(* The invariant and a submission.                                           *)

LEMMA FedBySubmission ==
  ASSUME NEW v \in Device, NEW d \in Buffer, NEW h \in History, NEW w \in Device, NEW e \in Buffer,
         NEW g \in History, NEW n, NEW mixing \in BOOLEAN, NEW on \in BOOLEAN, on => mixing,
         Passes(n, v, d, w, e), g.since = h.since, g.moved = h.moved,
         Followed(v, h) => d.ready, Fed(v, d, h, mixing)
  PROVE  Fed(w, e, g, on)
<1> SUFFICES ASSUME Followed(w, g)
             PROVE  /\ e.pos # 0 => w.queue + h.since + (IF on THEN h.moved ELSE 0) >= Queue
                    /\ ~on => w.queue + h.since + h.moved >= Queue
  BY DEF Fed
<1>1. Followed(v, h) /\ v.active /\ d.ready
  BY DEF Followed, Passes
<1>2. /\ d.pos \in Nat /\ v.queue \in Nat /\ v.queue <= Queue /\ w.queue \in Nat
      /\ h.since \in Nat /\ h.moved \in Nat
  BY Sizes DEF Device, Buffer, History
<1>3. /\ n \in Nat /\ w.queue = v.queue + n
      /\ d.pos + n = Ring \/ w.queue = Queue
      /\ e.pos = IF d.pos + n = Ring THEN 0 ELSE d.pos + n
  BY <1>1 DEF Passes
<1>4. CASE w.queue = Queue
  BY <1>4, <1>2, Sizes
<1>5. CASE d.pos + n = Ring /\ d.pos # 0
  <2>1. v.queue + h.since + (IF mixing THEN h.moved ELSE 0) >= Queue
    BY <1>1, <1>5 DEF Fed
  <2> QED BY <2>1, <1>2, <1>3, <1>5, Sizes
<1>6. CASE d.pos + n = Ring /\ d.pos = 0
  <2>1. w.queue <= Queue
    BY Sizes DEF Device
  <2> QED BY <2>1, <1>6, <1>2, <1>3, Sizes
<1> QED BY <1>3, <1>4, <1>5, <1>6

\* A frame that has not been submitted keeps its place behind the last mix.
LEMMA FreshAfterSubmission ==
  ASSUME NEW v \in Device, NEW d \in Buffer, NEW h \in History, NEW w \in Device, NEW e \in Buffer,
         NEW g \in History, NEW n, Passes(n, v, d, w, e), g.since = h.since,
         NEW m \in 0..(MinAhead - 1), Fresh(m, v, d, h)
  PROVE  Fresh(m, w, e, g)
<1> SUFFICES ASSUME m >= h.since + w.queue
             PROVE  FreshAt(e, m - (h.since + w.queue))
  BY DEF Fresh
<1>1. n \in Nat /\ w.queue = v.queue + n /\ v.queue \in Nat /\ h.since \in Nat
  BY DEF Passes, Device, History
<1> DEFINE k == m - (h.since + w.queue)
<1>2. /\ k \in Nat /\ n + k < Ring /\ m >= h.since + v.queue
      /\ m - (h.since + v.queue) = n + k
  BY <1>1, Sizes
<1>3. FreshAt(d, n + k)
  BY <1>2 DEF Fresh
<1> HIDE DEF k
<1>4. FreshAt(e, k)
  BY <1>2, <1>3, StaysFresh
<1> QED BY <1>4 DEF k

LEMMA CoveredAfterSubmission ==
  ASSUME NEW v \in Device, NEW d \in Buffer, NEW h \in History, NEW w \in Device, NEW e \in Buffer,
         NEW g \in History, NEW n, NEW mixing \in BOOLEAN, NEW on \in BOOLEAN, on => mixing,
         Passes(n, v, d, w, e), g.since = h.since, g.moved = h.moved, g.late = h.late,
         Covered(v, d, h, mixing)
  PROVE  Covered(w, e, g, on)
<1> SUFFICES ASSUME Followed(w, g)
             PROVE  /\ \A m \in PreStep..(MinAhead - 1) : Fresh(m, w, e, g)
                    /\ InTime(h) => \A m \in 0..(MinAhead - 1) :
                         m + h.moved >= PreStep => Fresh(m, w, e, g)
                    /\ on /\ InTime(h) /\ ~h.late => \A m \in 0..(MinAhead - 1) : Fresh(m, w, e, g)
  BY DEF Covered, InTime
<1>1. Followed(v, h)
  BY DEF Followed, Passes
<1>2. /\ \A m \in PreStep..(MinAhead - 1) : Fresh(m, v, d, h)
      /\ InTime(h) => \A m \in 0..(MinAhead - 1) : m + h.moved >= PreStep => Fresh(m, v, d, h)
      /\ mixing /\ InTime(h) /\ ~h.late => \A m \in 0..(MinAhead - 1) : Fresh(m, v, d, h)
  BY <1>1 DEF Covered
<1>3. \A m \in 0..(MinAhead - 1) : Fresh(m, v, d, h) => Fresh(m, w, e, g)
  BY FreshAfterSubmission
<1>4. \A m \in PreStep..(MinAhead - 1) : m \in 0..(MinAhead - 1)
  BY Sizes
<1> QED BY <1>2, <1>3, <1>4

\* In a cleared buffer no frame is old.
LEMMA ClearedIsFresh ==
  ASSUME NEW v \in Device, NEW d \in Buffer, NEW h \in History, NEW mixing \in BOOLEAN
  PROVE  /\ Cleared(d) \in Buffer /\ Cleared(d).ready = d.ready /\ Cleared(d).pos = d.pos
         /\ \A i \in 0..(Ring - 1) : Cleared(d).ring[i] # Old
         /\ Fed(v, d, h, mixing) => Fed(v, Cleared(d), h, mixing)
         /\ Covered(v, Cleared(d), h, mixing)
<1> DEFINE c == Cleared(d)
<1>1. SilentRing \in [0..(Ring - 1) -> Frames] /\ \A i \in 0..(Ring - 1) : SilentRing[i] # Old
  BY DEF SilentRing, Frames, Silence, Old
<1>2. c \in Buffer /\ c.ready = d.ready /\ c.pos = d.pos /\ c.ring = SilentRing
  BY <1>1 DEF Cleared, Buffer
<1>3. Fed(v, d, h, mixing) => Fed(v, c, h, mixing)
  BY <1>2 DEF Fed
<1>4. Covered(v, c, h, mixing)
  <2>1. ASSUME NEW k \in Nat PROVE FreshAt(c, k)
    <3>1. c.pos + k \in Nat
      BY <1>2 DEF Buffer
    <3>2. (c.pos + k) % Ring \in 0..(Ring - 1)
      BY <3>1, Sizes
    <3> QED BY <3>2, <1>1, <1>2 DEF FreshAt
  <2>2. ASSUME NEW m \in 0..(MinAhead - 1) PROVE Fresh(m, v, c, h)
    <3>1. h.since + v.queue \in Nat
      BY DEF History, Device
    <3>2. m >= h.since + v.queue => m - (h.since + v.queue) \in Nat
      BY <3>1
    <3> QED BY <3>2, <2>1 DEF Fresh
  <2>3. \A m \in PreStep..(MinAhead - 1) : m \in 0..(MinAhead - 1)
    BY Sizes
  <2> HIDE DEF c
  <2> QED BY <2>2, <2>3 DEF Covered
<1> QED BY <1>1, <1>2, <1>3, <1>4

-----------------------------------------------------------------------------
(* The mix.                                                                  *)

\* The frame m after the mix, if it is not with the device already, is mixed
\* from the pre-step on, and left as it is before.
LEMMA PaintedAt ==
  ASSUME NEW v \in Device, NEW d \in Buffer, v.active, d.ready,
         NEW b \in Nat, NEW time \in Nat, time = b * Ring + SNDDMA_GetDMAPos(d, v),
         NEW ahead \in MinAhead..MaxAhead, NEW m \in 0..(MinAhead - 1), m >= v.queue
  PROVE  LET i == (d.pos + (m - v.queue)) % Ring
         IN  /\ i \in 0..(Ring - 1)
             /\ Painted(d.ring, time + PreStep, time + ahead, time + v.queue)[i]
                  = IF m >= PreStep THEN Mixed ELSE d.ring[i]
<1> DEFINE a == d.pos + (m - v.queue)
           i == a % Ring
           g == SNDDMA_GetDMAPos(d, v)
           p == b * Ring
           from == time + PreStep
           r == IF m >= PreStep THEN m - PreStep ELSE m - PreStep + Ring
<1>1. d.pos \in Nat /\ d.pos < Ring /\ v.queue \in Nat /\ v.queue <= Queue
  BY Sizes DEF Buffer, Device
<1>2. g = IF v.queue <= d.pos THEN d.pos - v.queue ELSE d.pos + Ring - v.queue
  BY Position
<1>3. /\ p \in Nat /\ (b + 1) * Ring = p + Ring
      /\ (b + 2) * Ring = p + Ring + Ring /\ (b + 3) * Ring = p + Ring + Ring + Ring
  <2>1. (b + 1) * Ring = p + Ring /\ p \in Nat
    BY Times
  <2>2. ((b + 1) + 1) * Ring = (b + 1) * Ring + Ring
    BY Times
  <2>3. ((b + 2) + 1) * Ring = (b + 2) * Ring + Ring
    BY Times
  <2>4. (b + 1) + 1 = b + 2 /\ (b + 2) + 1 = b + 3
    OBVIOUS
  <2> QED BY <2>1, <2>2, <2>3, <2>4
<1>4. a \in Nat /\ a < Ring + Ring
  BY <1>1, Sizes
<1>5. time = p + g
  OBVIOUS
<1>6. r \in 0..(Ring - 1)
  BY Sizes
<1>7. a = d.pos + (m - v.queue)
  OBVIOUS
<1> HIDE DEF a, g, p
<1>8. i \in 0..(Ring - 1) /\ i = IF a < Ring THEN a ELSE a - Ring
  BY <1>4, Turn
<1> HIDE DEF i
<1>9. i - g = m \/ i - g = m - Ring \/ i - g = m - Ring - Ring
  BY <1>1, <1>2, <1>7, <1>8, Sizes
<1>10. (i - from) % Ring = r
  <2>1. i - from = i - g - PreStep - p /\ g \in Int
    BY <1>1, <1>2, <1>3, <1>5, <1>8, Sizes
  <2>2. \/ i - from = r - p \/ i - from = r - (p + Ring)
        \/ i - from = r - (p + Ring + Ring) \/ i - from = r - (p + Ring + Ring + Ring)
    <3>1. CASE m >= PreStep
      <4>1. r = m - PreStep
        BY <3>1
      <4> QED BY <4>1, <2>1, <1>3, <1>8, <1>9, Sizes
    <3>2. CASE m < PreStep
      <4>1. r = m - PreStep + Ring
        BY <3>2, Sizes
      <4> QED BY <4>1, <2>1, <1>3, <1>8, <1>9, Sizes
    <3> QED BY <3>1, <3>2, Sizes
  <2>3. \E c \in {b, b + 1, b + 2, b + 3} : i - from = r - c * Ring
    BY <2>2, <1>3 DEF p
  <2> HIDE DEF from, r
  <2> QED BY <2>3, <1>6, Turns
<1> DEFINE end == time + ahead
           next == time + v.queue
           t == from + ((i - from) % Ring)
<1>11. Painted(d.ring, from, end, next)[i] =
         IF t >= end THEN d.ring[i] ELSE IF t < next THEN Old ELSE Mixed
  BY <1>8 DEF Painted
<1>12. t = IF m >= PreStep THEN time + m ELSE time + m + Ring
  BY <1>10, Sizes
<1>13. /\ m >= PreStep => ~(t >= end) /\ ~(t < next)
       /\ ~(m >= PreStep) => t >= end
  <2> HIDE DEF t
  <2> QED BY <1>12, <1>1, Sizes
<1>14. Painted(d.ring, from, end, next)[i] = IF m >= PreStep THEN Mixed ELSE d.ring[i]
  <2> HIDE DEF t, end, next, from
  <2>1. CASE m >= PreStep
    BY <2>1, <1>11, <1>13
  <2>2. CASE ~(m >= PreStep)
    BY <2>2, <1>11, <1>13
  <2> QED BY <2>1, <2>2
<1> QED BY <1>8, <1>14 DEF i, a

\* The buffer and the history of a mix.
MixedInto(d, v, time, ahead) ==
  [d EXCEPT !.ring = Painted(@, time + PreStep, time + ahead, time + v.queue)]
MixedAfter(h) ==
  [h EXCEPT !.moved = h.since, !.since = 0, !.late = ~InTime(h), !.stale = FALSE]

LEMMA MixedBuffer ==
  ASSUME NEW v \in Device, NEW d \in Buffer, NEW time \in Nat, NEW ahead \in Nat
  PROVE  /\ MixedInto(d, v, time, ahead) \in Buffer
         /\ MixedInto(d, v, time, ahead).ready = d.ready /\ MixedInto(d, v, time, ahead).pos = d.pos
         /\ MixedInto(d, v, time, ahead).ring
              = Painted(d.ring, time + PreStep, time + ahead, time + v.queue)
<1> DEFINE ring == Painted(d.ring, time + PreStep, time + ahead, time + v.queue)
<1>1. ring \in [0..(Ring - 1) -> Frames]
  BY DEF Painted, Buffer, Frames
<1> HIDE DEF ring
<1>2. MixedInto(d, v, time, ahead) = [d EXCEPT !.ring = ring]
  BY DEF MixedInto, ring
<1> QED BY <1>1, <1>2 DEF Buffer, ring

LEMMA MixedHistory ==
  ASSUME NEW h \in History
  PROVE  /\ MixedAfter(h) \in History /\ MixedAfter(h).since = 0 /\ MixedAfter(h).moved = h.since
         /\ MixedAfter(h).late = ~InTime(h) /\ ~MixedAfter(h).stale
<1>1. 0 \in 0..Ring /\ InTime(h) \in BOOLEAN
  BY Sizes DEF InTime
<1> QED BY <1>1 DEF History, MixedAfter

LEMMA FedByMix ==
  ASSUME NEW v \in Device, NEW d \in Buffer, NEW h \in History,
         NEW time \in Nat, NEW ahead \in Nat, Fed(v, d, h, FALSE)
  PROVE  Fed(v, MixedInto(d, v, time, ahead), MixedAfter(h), TRUE)
<1>1. /\ MixedInto(d, v, time, ahead).pos = d.pos
      /\ MixedAfter(h).since = 0 /\ MixedAfter(h).moved = h.since
  BY MixedBuffer, MixedHistory
<1>2. h.since \in Nat /\ h.since <= Ring /\ v.queue \in Nat
  BY Sizes DEF History, Device
<1> SUFFICES ASSUME v.active, d.pos # 0
             PROVE  v.queue + h.since >= Queue
  BY <1>1, <1>2 DEF Fed, Followed
<1>3. CASE h.since = Ring
  BY <1>3, <1>2, Sizes
<1>4. CASE h.since < Ring
  BY <1>4, <1>2 DEF Fed, Followed
<1> QED BY <1>2, <1>3, <1>4, Sizes

LEMMA CoveredByMix ==
  ASSUME NEW v \in Device, NEW d \in Buffer, NEW h \in History, v.active => d.ready,
         NEW b \in Nat, NEW time \in Nat, time = b * Ring + SNDDMA_GetDMAPos(d, v),
         NEW ahead \in MinAhead..MaxAhead,
         Fed(v, d, h, FALSE), Covered(v, d, h, FALSE)
  PROVE  Covered(v, MixedInto(d, v, time, ahead), MixedAfter(h), TRUE)
<1> DEFINE e == MixedInto(d, v, time, ahead)
           g == MixedAfter(h)
<1>1. ahead \in Nat
  BY Sizes
<1> HIDE DEF e, g
<1>2. /\ e \in Buffer /\ e.pos = d.pos
      /\ e.ring = Painted(d.ring, time + PreStep, time + ahead, time + v.queue)
      /\ g.since = 0 /\ g.moved = h.since /\ g.late = ~InTime(h)
  <2>1. /\ e \in Buffer /\ e.pos = d.pos
        /\ e.ring = Painted(d.ring, time + PreStep, time + ahead, time + v.queue)
    BY ZenonT(60), <1>1, MixedBuffer DEF e
  <2>2. g.since = 0 /\ g.moved = h.since /\ g.late = ~InTime(h)
    BY MixedHistory DEF g
  <2> QED BY <2>1, <2>2
<1>3. /\ h.since \in Nat /\ h.since <= Ring /\ h.moved \in Nat
      /\ v.queue \in Nat /\ v.queue <= Queue
  BY Sizes DEF History, Device
<1> SUFFICES ASSUME v.active
             PROVE  Covered(v, e, g, TRUE)
  BY DEF Covered, Followed, e, g
<1>4. ASSUME NEW m \in 0..(MinAhead - 1), m >= v.queue
      PROVE  /\ m >= PreStep => FreshAt(e, m - v.queue)
             /\ FreshAt(d, m - v.queue) => FreshAt(e, m - v.queue)
  <2> DEFINE i == (d.pos + (m - v.queue)) % Ring
  <2>1. e.ring[i] = IF m >= PreStep THEN Mixed ELSE d.ring[i]
    BY <1>2, <1>4, PaintedAt
  <2> QED BY <2>1, <1>2 DEF FreshAt, Mixed, Old
\* What the mix covers itself, and what it leaves of the mix before.
<1>5. ASSUME NEW m \in PreStep..(MinAhead - 1) PROVE Fresh(m, v, e, g)
  <2>1. m \in 0..(MinAhead - 1)
    BY Sizes
  <2>2. ASSUME m >= v.queue PROVE FreshAt(e, m - v.queue)
    BY <2>1, <2>2, <1>4
  <2> QED BY <2>2, <1>2, <1>3 DEF Fresh
<1>6. ASSUME NEW m \in 0..(MinAhead - 1), h.since < Ring, m + h.since < MinAhead,
             Fresh(m + h.since, v, d, h)
      PROVE  Fresh(m, v, e, g)
  <2>1. ASSUME m >= v.queue PROVE FreshAt(e, m - v.queue)
    <3>1. m + h.since >= h.since + v.queue
          /\ (m + h.since) - (h.since + v.queue) = m - v.queue
      BY <2>1, <1>3
    <3>2. FreshAt(d, m - v.queue)
      BY <3>1, <1>6 DEF Fresh
    <3> QED BY <2>1, <3>2, <1>4
  <2> QED BY <2>1, <1>2, <1>3 DEF Fresh
<1>7. ASSUME InTime(g)
      PROVE  /\ h.since < Ring /\ h.since <= MinAhead - PreStep
             /\ \A n \in PreStep..(MinAhead - 1) : Fresh(n, v, d, h)
             /\ InTime(h) => \A n \in 0..(MinAhead - 1) : n + h.moved >= PreStep => Fresh(n, v, d, h)
             /\ v.queue + h.since + h.moved >= Queue
  <2>1. h.since <= MinAhead - PreStep
    BY <1>7, <1>2 DEF InTime
  <2>2. h.since < Ring
    BY <2>1, <1>3, Sizes
  <2> QED BY <2>1, <2>2 DEF Covered, Fed, Followed
<1>8. ASSUME InTime(g), NEW m \in 0..(MinAhead - 1), m + h.since >= PreStep
      PROVE  Fresh(m, v, e, g)
  <2>1. CASE m >= PreStep
    <3>1. m \in PreStep..(MinAhead - 1)
      BY <2>1, Sizes
    <3> QED BY <3>1, <1>5
  <2>2. CASE m < PreStep
    <3>1. m + h.since \in PreStep..(MinAhead - 1)
      BY <2>2, <1>3, <1>7, <1>8, Sizes
    <3>2. Fresh(m + h.since, v, d, h)
      BY <3>1, <1>7, <1>8
    <3> QED BY <3>1, <3>2, <1>6, <1>7, <1>8, <1>3, Sizes
  <2> QED BY <2>1, <2>2, Sizes
\* And of the one before that, of which the device has the beginning.
<1>9. ASSUME InTime(g), InTime(h), NEW m \in 0..(MinAhead - 1)
      PROVE  Fresh(m, v, e, g)
  <2>1. CASE m < v.queue
    BY <2>1, <1>2, <1>3 DEF Fresh
  <2>2. CASE m >= PreStep
    <3>1. m \in PreStep..(MinAhead - 1)
      BY <2>2, Sizes
    <3> QED BY <3>1, <1>5
  <2>3. CASE m >= v.queue /\ m < PreStep
    <3>1. m + h.since \in 0..(MinAhead - 1) /\ m + h.since < MinAhead
      BY <2>3, <1>3, <1>7, <1>9, Sizes
    <3>2. (m + h.since) + h.moved >= PreStep
      BY <2>3, <1>3, <1>7, <1>9, Sizes
    <3>3. Fresh(m + h.since, v, d, h)
      BY <3>1, <3>2, <1>7, <1>9
    <3> QED BY <3>1, <3>3, <1>6, <1>7, <1>9
  <2> QED BY <2>1, <2>2, <2>3, <1>3, Sizes
<1> QED BY <1>2, <1>5, <1>8, <1>9 DEF Covered

-----------------------------------------------------------------------------
(* The steps that are not a mix.                                             *)

LEMMA InitInv ==
  Init => IInv
<1> SUFFICES ASSUME Init PROVE IInv
  OBVIOUS
<1>1. SilentRing \in [0..(Ring - 1) -> Frames]
  BY DEF SilentRing, Frames
<1>2. Typed
  BY <1>1, Sizes DEF Init, NoMix, Typed, Device, Buffer, Statics, History
<1>3. ~dev.active /\ ~hist.stale
  BY DEF Init, NoMix
<1> QED BY <1>2, <1>3 DEF IInv, Clock, Fed, Covered, Followed, FreshUnlessLate

\* A submission of the buffer, or of a cleared one, keeps everything but what is
\* said about the frames in it.
LEMMA SubmissionKeeps ==
  ASSUME Typed, Clock, NEW d \in Buffer, d.ready = dma.ready, d.pos = dma.pos,
         Fed(dev, d, hist, snd.mixing), Covered(dev, d, hist, snd.mixing),
         SNDDMA_Submit(dev, d, hist), snd' \in Statics,
         snd'.started = snd.started, snd'.time = snd.time, snd'.ot = snd.ot,
         snd'.buffers = snd.buffers, snd'.old = snd.old, snd'.mixing => snd.mixing
  PROVE  /\ Typed' /\ Clock'
         /\ Fed(dev, dma, hist, snd.mixing)' /\ Covered(dev, dma, hist, snd.mixing)'
         /\ hist'.since = hist.since /\ hist'.moved = hist.moved /\ hist'.late = hist.late
         /\ hist'.stale = \E i \in d.pos..(d.pos + Accepted(d, dev) - 1) : d.ring[i] = Old
<1> DEFINE s == Submitted(dev, d, hist)
           n == Accepted(d, dev)
<1>1. dev \in Device /\ hist \in History /\ dma \in Buffer
  BY DEF Typed
<1>2. dev' = s.dev /\ dma' = s.dma /\ hist' = s.hist
  BY DEF SNDDMA_Submit
<1>3. /\ s.dev \in Device /\ s.dma \in Buffer /\ s.hist \in History
      /\ s.hist.since = hist.since /\ s.hist.moved = hist.moved /\ s.hist.late = hist.late
      /\ s.hist.stale = \E i \in d.pos..(d.pos + n - 1) : d.ring[i] = Old
      /\ Passes(n, dev, d, s.dev, s.dma)
  BY <1>1, Submission
<1> HIDE DEF s, n
<1>4. /\ dev' \in Device /\ dma' \in Buffer /\ hist' \in History
      /\ hist'.since = hist.since /\ hist'.moved = hist.moved /\ hist'.late = hist.late
      /\ Passes(n, dev, d, dev', dma')
  BY <1>2, <1>3
<1>5. dev'.active = dev.active /\ dma'.ready = dma.ready
  BY <1>4 DEF Passes
<1>6. snd.mixing \in BOOLEAN /\ snd'.mixing \in BOOLEAN
  BY DEF Typed, Statics
<1>7. Typed'
  BY <1>4, <1>5, <1>6 DEF Typed
<1>8. Clock'
  <2>1. SNDDMA_GetDMAPos(d, dev) = SNDDMA_GetDMAPos(dma, dev)
    BY DEF SNDDMA_GetDMAPos
  <2>2. SNDDMA_GetDMAPos(dma', dev') = SNDDMA_GetDMAPos(d, dev)
    BY <1>1, <1>4, PositionStays
  <2> SUFFICES ASSUME Followed(dev', hist')
               PROVE  /\ snd'.started
                      /\ snd'.time = snd'.ot /\ snd'.time = snd'.buffers * Ring + snd'.old
                      /\ SNDDMA_GetDMAPos(dma', dev') = (snd'.old + hist'.since) % Ring
    BY DEF Clock, SNDDMA_GetDMAPos
  <2>3. Followed(dev, hist)
    BY <1>4, <1>5 DEF Followed
  <2> QED BY <2>1, <2>2, <2>3, <1>4 DEF Clock
<1>9. Fed(dev', dma', hist', snd'.mixing)
  <2>1. Followed(dev, hist) => d.ready
    BY DEF Clock, Typed
  <2> QED BY <2>1, <1>1, <1>4, <1>6, FedBySubmission
<1>10. Covered(dev', dma', hist', snd'.mixing)
  BY <1>1, <1>4, <1>6, CoveredAfterSubmission
<1>11. Fed(dev, dma, hist, snd.mixing)' /\ Covered(dev, dma, hist, snd.mixing)'
  BY <1>9, <1>10 DEF Fed, Covered, Fresh, FreshAt, Followed, InTime
<1> QED BY <1>2, <1>3, <1>4, <1>7, <1>8, <1>11 DEF n

\* With a cleared buffer nothing old is submitted.
LEMMA ClearedKeeps ==
  ASSUME IInv, SNDDMA_Submit(dev, Cleared(dma), hist), snd' \in Statics,
         snd'.started = snd.started, snd'.time = snd.time, snd'.ot = snd.ot,
         snd'.buffers = snd.buffers, snd'.old = snd.old, snd'.mixing => snd.mixing
  PROVE  IInv'
<1> DEFINE c == Cleared(dma)
           n == Accepted(c, dev)
<1>1. dev \in Device /\ dma \in Buffer /\ hist \in History /\ snd.mixing \in BOOLEAN
  BY DEF IInv, Typed, Statics
<1>2. /\ c \in Buffer /\ c.ready = dma.ready /\ c.pos = dma.pos
      /\ \A i \in 0..(Ring - 1) : c.ring[i] # Old
      /\ Fed(dev, c, hist, snd.mixing) /\ Covered(dev, c, hist, snd.mixing)
  BY <1>1, ClearedIsFresh DEF IInv
<1>3. n \in Nat /\ c.pos \in Nat /\ c.pos + n <= Ring
  BY <1>1, <1>2, Accepts DEF Buffer
<1>4. /\ Typed' /\ Clock'
      /\ Fed(dev, dma, hist, snd.mixing)' /\ Covered(dev, dma, hist, snd.mixing)'
      /\ hist'.stale = \E i \in c.pos..(c.pos + n - 1) : c.ring[i] = Old
  <2> HIDE DEF c
  <2> QED BY <1>2, SubmissionKeeps DEF IInv, c
<1> HIDE DEF c, n
<1>5. \A i \in c.pos..(c.pos + n - 1) : c.ring[i] # Old
  <2>1. \A i \in c.pos..(c.pos + n - 1) : i \in 0..(Ring - 1)
    BY <1>3, Sizes
  <2> QED BY <2>1, <1>2
<1>6. ~hist'.stale
  BY <1>4, <1>5
<1> QED BY <1>4, <1>6 DEF IInv, FreshUnlessLate

\* The device takes frames: its position moves on by as many.
LEMMA PlaysKeeps ==
  ASSUME IInv, NEW n \in 1..dev.queue, DevicePlays(n)
  PROVE  IInv'
<1>1. dev \in Device /\ dma \in Buffer /\ hist \in History /\ snd \in Statics
  BY DEF IInv, Typed
<1>2. /\ dev.queue \in Nat /\ dev.queue <= Queue /\ n \in Nat /\ n <= dev.queue /\ n > 0
      /\ hist.since \in Nat /\ hist.since <= Ring /\ hist.moved \in Nat
  BY <1>1, Sizes DEF Device, History
<1>3. /\ dev' = [dev EXCEPT !.queue = @ - n] /\ dma' = dma /\ snd' = snd
      /\ hist' = [hist EXCEPT !.since = Least(@ + n, Ring)]
  BY DEF DevicePlays
<1>4. Least(hist.since + n, Ring) \in 0..Ring
  BY <1>2, Sizes DEF Least
<1>5. /\ dev' \in Device /\ dev'.active = dev.active /\ dev'.queue = dev.queue - n
      /\ hist' \in History /\ hist'.since = Least(hist.since + n, Ring) /\ hist'.moved = hist.moved
      /\ hist'.late = hist.late /\ hist'.stale = hist.stale
  <2>1. dev.queue - n \in 0..Queue
    BY <1>2, Sizes
  <2>2. dev' \in Device /\ dev'.active = dev.active /\ dev'.queue = dev.queue - n
    BY <2>1, <1>1, <1>3 DEF Device
  <2>3. /\ hist' \in History /\ hist'.since = Least(hist.since + n, Ring)
        /\ hist'.moved = hist.moved /\ hist'.late = hist.late /\ hist'.stale = hist.stale
    BY <1>1, <1>3, <1>4 DEF History
  <2> QED BY <2>2, <2>3
<1>6. Typed'
  BY <1>3, <1>5 DEF IInv, Typed
<1>7. Followed(dev', hist') => Followed(dev, hist) /\ hist'.since = hist.since + n /\ hist'.since < Ring
  BY <1>2, <1>5, Sizes DEF Followed, Least
<1>8. Clock'
  <2> SUFFICES ASSUME Followed(dev', hist')
               PROVE  /\ snd.started
                      /\ snd.time = snd.ot /\ snd.time = snd.buffers * Ring + snd.old
                      /\ SNDDMA_GetDMAPos(dma', dev') = (snd.old + hist'.since) % Ring
    BY <1>3 DEF Clock, SNDDMA_GetDMAPos
  <2> DEFINE g == SNDDMA_GetDMAPos(dma, dev)
             t == SNDDMA_GetDMAPos(dma', dev')
             a == snd.old + hist.since
             b == snd.old + hist'.since
  <2>1. /\ snd.started /\ dma.ready /\ dev.active
        /\ snd.time = snd.ot /\ snd.time = snd.buffers * Ring + snd.old /\ g = a % Ring
    BY <1>7 DEF IInv, Typed, Clock, Followed
  <2>2. g = IF dev.queue <= dma.pos THEN dma.pos - dev.queue ELSE dma.pos + Ring - dev.queue
    BY <1>1, <2>1, Position
  <2>3. t = IF dev'.queue <= dma.pos THEN dma.pos - dev'.queue ELSE dma.pos + Ring - dev'.queue
    BY <1>1, <1>3, <1>5, <2>1, Position
  <2>4. /\ a \in Nat /\ a < Ring + Ring /\ b \in Nat /\ b < Ring + Ring /\ b = a + n
    BY <1>1, <1>2, <1>7, Sizes DEF Statics
  <2> HIDE DEF g, t, a, b
  <2>5. g = IF a < Ring THEN a ELSE a - Ring
    BY <2>1, <2>4, Turn
  <2>6. b % Ring = IF b < Ring THEN b ELSE b - Ring
    BY <2>4, Turn
  <2>7. dma.pos \in Nat /\ dma.pos < Ring
    BY <1>1, Sizes DEF Buffer
  <2>8. t = IF g + n < Ring THEN g + n ELSE g + n - Ring
    BY <2>2, <2>3, <2>7, <1>2, <1>5, Sizes
  <2>9. t = b % Ring
    BY <2>4, <2>5, <2>6, <2>8, <1>2, Sizes
  <2> QED BY <2>1, <2>9 DEF t, b
<1>9. Fed(dev', dma', hist', snd'.mixing)
  BY <1>2, <1>3, <1>5, <1>7, Sizes DEF IInv, Fed
<1>10. Covered(dev', dma', hist', snd'.mixing)
  <2> SUFFICES ASSUME Followed(dev', hist') PROVE Covered(dev', dma', hist', snd'.mixing)
    BY DEF Covered
  <2>1. hist'.since + dev'.queue = hist.since + dev.queue
    BY <1>2, <1>5, <1>7
  <2>2. \A m \in Int : Fresh(m, dev, dma, hist) => Fresh(m, dev', dma', hist')
    BY <2>1, <1>3 DEF Fresh, FreshAt
  <2>3. Covered(dev, dma, hist, snd.mixing) /\ Followed(dev, hist)
    BY <1>7 DEF IInv
  <2>4. \A m \in PreStep..(MinAhead - 1) : m \in Int
    OBVIOUS
  <2>5. \A m \in 0..(MinAhead - 1) : m \in Int
    OBVIOUS
  <2> QED BY <2>2, <2>3, <2>4, <2>5, <1>3, <1>5 DEF Covered, InTime
<1>11. FreshUnlessLate'
  <2>1. hist'.since >= hist.since
    BY <1>2, <1>5, Sizes DEF Least
  <2>2. hist'.since \in Nat /\ MinAhead - Queue \in Int
    BY <1>5, Sizes DEF History
  <2>3. hist.since > MinAhead - Queue => hist'.since > MinAhead - Queue
    BY <2>1, <2>2, <1>2
  <2> QED BY <2>3, <1>5 DEF IInv, FreshUnlessLate, Late
<1>12. Fed(dev, dma, hist, snd.mixing)' /\ Covered(dev, dma, hist, snd.mixing)'
  BY <1>9, <1>10 DEF Fed, Covered, Fresh, FreshAt, Followed, InTime
<1> QED BY <1>6, <1>8, <1>11, <1>12 DEF IInv

\* Nothing is claimed of a device that is not active, or for which there was no
\* mix since it started or for a whole turn of the ring.
LEMMA Unfollowed ==
  ASSUME Typed', ~Followed(dev', hist'), FreshUnlessLate'
  PROVE  IInv'
BY DEF IInv, Clock, Fed, Covered, Followed

LEMMA StopsKeeps ==
  ASSUME IInv, DeviceStops
  PROVE  IInv'
<1>1. dev \in Device
  BY DEF IInv, Typed
<1>2. dev' \in Device /\ ~dev'.active
  BY <1>1 DEF DeviceStops, Device
<1>3. Typed' /\ FreshUnlessLate'
  BY <1>2 DEF DeviceStops, IInv, Typed, FreshUnlessLate, Late
<1> QED BY <1>2, <1>3, Unfollowed DEF Followed

LEMMA ClearSoundBufferKeeps ==
  ASSUME IInv, S_ClearSoundBuffer
  PROVE  IInv'
<1>1. snd' = snd /\ snd \in Statics
  BY DEF S_ClearSoundBuffer, IInv, Typed
<1> QED BY <1>1, ClearedKeeps DEF S_ClearSoundBuffer

LEMMA DisableSoundsKeeps ==
  ASSUME IInv, S_DisableSounds
  PROVE  IInv'
<1>1. snd' = [snd EXCEPT !.muted = TRUE] /\ snd \in Statics
  BY DEF S_DisableSounds, IInv, Typed
<1>2. /\ snd' \in Statics /\ snd'.started = snd.started /\ snd'.time = snd.time
      /\ snd'.ot = snd.ot /\ snd'.buffers = snd.buffers /\ snd'.old = snd.old
      /\ snd'.mixing = snd.mixing
  BY <1>1 DEF Statics
<1> QED BY <1>2, ClearedKeeps DEF S_DisableSounds

LEMMA BeginRegistrationKeeps ==
  ASSUME IInv, S_BeginRegistration
  PROVE  IInv'
<1>1. /\ snd' = [snd EXCEPT !.muted = FALSE] /\ snd \in Statics
      /\ dev' = dev /\ dma' = dma /\ hist' = hist
  BY DEF S_BeginRegistration, IInv, Typed
<1>2. /\ snd' \in Statics /\ snd'.started = snd.started /\ snd'.time = snd.time
      /\ snd'.ot = snd.ot /\ snd'.buffers = snd.buffers /\ snd'.old = snd.old
      /\ snd'.mixing = snd.mixing
  BY <1>1 DEF Statics
<1>3. Typed' /\ FreshUnlessLate'
  BY <1>1, <1>2 DEF IInv, Typed, FreshUnlessLate, Late
<1>4. Clock'
  BY <1>1, <1>2 DEF IInv, Clock, Followed, SNDDMA_GetDMAPos
<1>5. Fed(dev, dma, hist, snd.mixing)' /\ Covered(dev, dma, hist, snd.mixing)'
  BY <1>1, <1>2 DEF IInv, Fed, Covered, Fresh, FreshAt, Followed, InTime
<1> QED BY <1>3, <1>4, <1>5 DEF IInv

LEMMA ShutdownKeeps ==
  ASSUME IInv, S_Shutdown
  PROVE  IInv'
<1>1. dev \in Device /\ dma \in Buffer /\ snd \in Statics /\ ~snd.mixing
  BY DEF IInv, Typed, S_Shutdown, Idle
<1>2. snd' \in Statics /\ ~snd'.started /\ ~snd'.mixing
  BY <1>1 DEF S_Shutdown, Statics
<1>3. hist' = NoMix /\ NoMix \in History /\ NoMix.since = Ring /\ ~NoMix.stale
  BY Sizes DEF S_Shutdown, NoMix, History
<1>4. SilentRing \in [0..(Ring - 1) -> Frames]
  BY DEF SilentRing, Frames
<1>5. dma' \in Buffer
  <2>1. CASE ~dev.active
    BY <2>1, <1>1 DEF S_Shutdown
  <2>2. CASE dev.active
    <3>1. dma' = [ready |-> FALSE, pos |-> dma.pos, ring |-> SilentRing]
      BY <2>2 DEF S_Shutdown
    <3> QED BY <3>1, <1>1, <1>4 DEF Buffer
  <2> QED BY <2>1, <2>2
<1>6. dev' \in Device
  BY <1>1 DEF S_Shutdown, Device
<1>7. Typed' /\ ~Followed(dev', hist') /\ FreshUnlessLate'
  BY <1>2, <1>3, <1>5, <1>6, Sizes DEF Typed, Followed, FreshUnlessLate
<1> QED BY <1>7, Unfollowed

\* S_Init: the device starts anew, or a buffer that was kept is submitted again.
LEMMA SInitKeeps ==
  ASSUME IInv, S_Init
  PROVE  IInv'
<1>1. /\ dev \in Device /\ dma \in Buffer /\ snd \in Statics /\ hist \in History
      /\ ~snd.started /\ ~snd.mixing
  BY DEF IInv, Typed, S_Init
<1>2. snd' \in Statics /\ snd'.started /\ ~snd'.mixing
  BY <1>1 DEF S_Init, Statics
<1>3. SilentRing \in [0..(Ring - 1) -> Frames] /\ \A i \in 0..(Ring - 1) : SilentRing[i] # Old
  BY DEF SilentRing, Frames, Silence, Old
<1>4. ASSUME NEW v \in Device, NEW d \in Buffer, NEW h \in History, d.ready, d.ring = SilentRing,
             ~Followed(v, h), SNDDMA_Submit(v, d, h)
      PROVE  IInv'
  <2> DEFINE s == Submitted(v, d, h)
             n == Accepted(d, v)
  <2>1. /\ s.dev \in Device /\ s.dma \in Buffer /\ s.hist \in History
        /\ s.hist.since = h.since
        /\ s.hist.stale = \E i \in d.pos..(d.pos + n - 1) : d.ring[i] = Old
        /\ Passes(n, v, d, s.dev, s.dma)
    BY Submission
  <2>2. dev' = s.dev /\ dma' = s.dma /\ hist' = s.hist
    BY <1>4 DEF SNDDMA_Submit
  <2> HIDE DEF s, n
  <2>3. /\ dev' \in Device /\ dev'.active = v.active /\ dma' \in Buffer /\ dma'.ready
        /\ hist' \in History /\ hist'.since = h.since
    BY <2>1, <2>2, <1>4 DEF Passes
  <2>4. ~hist'.stale
    <3>1. n \in Nat /\ d.pos \in Nat /\ d.pos + n <= Ring
      BY <2>1 DEF Passes, Buffer
    <3>2. \A i \in d.pos..(d.pos + n - 1) : i \in 0..(Ring - 1)
      BY <3>1, Sizes
    <3> QED BY <3>2, <2>1, <2>2, <1>3, <1>4
  <2>5. Typed' /\ ~Followed(dev', hist') /\ FreshUnlessLate'
    BY <2>3, <2>4, <1>2, <1>4 DEF Typed, Followed, FreshUnlessLate
  <2> QED BY <2>5, Unfollowed
<1>5. CASE dma.ready
  <2> DEFINE c == Cleared(dma)
  <2>1. c \in Buffer /\ c.ready /\ c.ring = SilentRing
    BY <1>1, <1>3, <1>5 DEF Cleared, Buffer
  <2>2. ~Followed(dev, hist)
    BY <1>1 DEF IInv, Clock
  <2>3. SNDDMA_Submit(dev, c, hist)
    BY <1>5 DEF S_Init
  <2> HIDE DEF c
  <2> QED BY <2>1, <2>2, <2>3, <1>1, <1>4
<1>6. CASE ~dma.ready
  <2>1. PICK queued \in {0, dev.queue} :
          SNDDMA_Submit([active |-> TRUE, queue |-> queued],
                        [ready |-> TRUE, pos |-> 0, ring |-> SilentRing], NoMix)
    BY <1>6 DEF S_Init
  <2> DEFINE v == [active |-> TRUE, queue |-> queued]
             d == [ready |-> TRUE, pos |-> 0, ring |-> SilentRing]
  <2>2. v \in Device
    BY <1>1, Sizes DEF Device
  <2>3. d \in Buffer /\ d.ready /\ d.ring = SilentRing
    BY <1>3, Sizes DEF Buffer
  <2>4. NoMix \in History /\ ~Followed(v, NoMix)
    BY Sizes DEF NoMix, History, Followed
  <2> HIDE DEF v, d
  <2>5. SNDDMA_Submit(v, d, NoMix)
    BY <2>1 DEF v, d
  <2> QED BY <2>2, <2>3, <2>4, <2>5, <1>4
<1> QED BY <1>5, <1>6

-----------------------------------------------------------------------------
(* S_Update and its submission.                                              *)

LEMMA UpdateSubmitKeeps ==
  ASSUME IInv, S_UpdateSubmit
  PROVE  IInv'
<1>1. /\ dev \in Device /\ dma \in Buffer /\ snd \in Statics /\ hist \in History
      /\ snd.mixing
  BY DEF IInv, Typed, S_UpdateSubmit
<1>2. snd' = [snd EXCEPT !.mixing = FALSE] /\ SNDDMA_Submit(dev, dma, hist)
  BY DEF S_UpdateSubmit
<1>3. /\ snd' \in Statics /\ snd'.started = snd.started /\ snd'.time = snd.time
      /\ snd'.ot = snd.ot /\ snd'.buffers = snd.buffers /\ snd'.old = snd.old
      /\ ~snd'.mixing
  BY <1>1, <1>2 DEF Statics
<1> DEFINE n == Accepted(dma, dev)
<1>4. /\ Typed' /\ Clock'
      /\ Fed(dev, dma, hist, snd.mixing)' /\ Covered(dev, dma, hist, snd.mixing)'
      /\ hist'.since = hist.since /\ hist'.moved = hist.moved /\ hist'.late = hist.late
      /\ hist'.stale = \E i \in dma.pos..(dma.pos + n - 1) : dma.ring[i] = Old
  BY <1>1, <1>2, <1>3, SubmissionKeeps DEF IInv
<1>5. /\ n \in Nat /\ dma.pos \in Nat /\ dma.pos + n <= Ring
      /\ dev.queue \in Nat /\ dev.queue + n <= Queue /\ hist.since \in Nat /\ hist.since <= Ring
      /\ ~dev.active => n = 0
  <2>1. /\ n \in Nat /\ dma.pos + n <= Ring /\ dev.queue + n <= Queue
        /\ ~dev.active => n = 0
    BY <1>1, Accepts
  <2>2. /\ dma.pos \in Nat /\ dev.queue \in Nat /\ hist.since \in Nat /\ hist.since <= Ring
    BY <1>1, Sizes DEF Buffer, Device, History
  <2> QED BY <2>1, <2>2
<1> HIDE DEF n
\* What is submitted in time was covered by the last three mixes.
<1>6. ASSUME hist.since <= MinAhead - Queue, ~Late, ~hist.late,
             NEW i \in dma.pos..(dma.pos + n - 1)
      PROVE  dma.ring[i] # Old
  <2> DEFINE k == i - dma.pos
             m == k + (hist.since + dev.queue)
  <2>1. /\ i \in 0..(Ring - 1) /\ k \in Nat /\ k < n /\ dma.pos + k = i
        /\ m \in 0..(MinAhead - 1) /\ m >= hist.since + dev.queue
        /\ m - (hist.since + dev.queue) = k
    BY <1>5, <1>6, Sizes
  <2>2. Followed(dev, hist)
    BY <1>1, <1>5, <1>6, Sizes DEF Followed, Device
  <2>3. InTime(hist)
    <3>1. hist.moved \in Nat /\ MinAhead - PreStep \in Int
      BY <1>1, Sizes DEF History
    <3> QED BY <3>1, <1>6 DEF Late, InTime
  <2> HIDE DEF k, m
  <2>4. Fresh(m, dev, dma, hist)
    BY <2>1, <2>2, <2>3, <1>1, <1>6 DEF IInv, Covered
  <2>5. FreshAt(dma, k)
    BY <2>1, <2>4 DEF Fresh
  <2>6. (dma.pos + k) % Ring = i
    BY <2>1, Rest
  <2> QED BY <2>5, <2>6 DEF FreshAt
<1>7. FreshUnlessLate'
  <2> SUFFICES ASSUME hist'.stale
               PROVE  hist.since > MinAhead - Queue \/ Late \/ hist.late
    BY <1>4 DEF FreshUnlessLate, Late
  <2>1. \E i \in dma.pos..(dma.pos + n - 1) : dma.ring[i] = Old
    BY <1>4
  <2>2. hist.since \in Nat /\ MinAhead - Queue \in Int
    BY <1>5, Sizes
  <2> QED BY <2>1, <2>2, <1>6
<1> QED BY <1>4, <1>7 DEF IInv

\* What S_Update mixes into: the buffer, or a cleared and submitted one when the
\* time starts again.
LEMMA BeforeMix ==
  ASSUME IInv, Idle
  PROVE  LET s == IF Chopped THEN Submitted(dev, Cleared(dma), hist)
                  ELSE [dev |-> dev, dma |-> dma, hist |-> hist]
         IN  /\ s.dev \in Device /\ s.dma \in Buffer /\ s.hist \in History
             /\ s.dev.active = dev.active /\ s.dma.ready = dma.ready
             /\ s.hist.since = hist.since /\ s.hist.moved = hist.moved /\ s.hist.late = hist.late
             /\ s.hist.stale => hist.stale
             /\ SNDDMA_GetDMAPos(s.dma, s.dev) = SNDDMA_GetDMAPos(dma, dev)
             /\ Fed(s.dev, s.dma, s.hist, FALSE) /\ Covered(s.dev, s.dma, s.hist, FALSE)
<1> DEFINE s == IF Chopped THEN Submitted(dev, Cleared(dma), hist)
                ELSE [dev |-> dev, dma |-> dma, hist |-> hist]
<1>1. /\ dev \in Device /\ dma \in Buffer /\ hist \in History /\ snd.mixing = FALSE
      /\ snd.started /\ dma.ready
  BY DEF IInv, Typed, Idle, Statics
<1>2. Fed(dev, dma, hist, FALSE) /\ Covered(dev, dma, hist, FALSE)
  BY <1>1 DEF IInv
<1>3. CASE ~Chopped
  <2>1. s.dev = dev /\ s.dma = dma /\ s.hist = hist
    BY <1>3
  <2> HIDE DEF s
  <2>2. /\ s.dev \in Device /\ s.dma \in Buffer /\ s.hist \in History
        /\ s.dev.active = dev.active /\ s.dma.ready = dma.ready
        /\ s.hist.since = hist.since /\ s.hist.moved = hist.moved /\ s.hist.late = hist.late
        /\ s.hist.stale => hist.stale
        /\ SNDDMA_GetDMAPos(s.dma, s.dev) = SNDDMA_GetDMAPos(dma, dev)
        /\ Fed(s.dev, s.dma, s.hist, FALSE) /\ Covered(s.dev, s.dma, s.hist, FALSE)
    BY <2>1, <1>1, <1>2
  <2> QED BY <2>2 DEF s
<1>4. CASE Chopped
  <2> DEFINE c == Cleared(dma)
             n == Accepted(c, dev)
             u == Submitted(dev, c, hist)
  <2>1. /\ c \in Buffer /\ c.ready = dma.ready /\ c.pos = dma.pos
        /\ \A i \in 0..(Ring - 1) : c.ring[i] # Old
        /\ Fed(dev, c, hist, FALSE) /\ Covered(dev, c, hist, FALSE)
    BY <1>1, <1>2, ClearedIsFresh
  <2>2. SNDDMA_GetDMAPos(c, dev) = SNDDMA_GetDMAPos(dma, dev)
    BY <2>1 DEF SNDDMA_GetDMAPos
  <2>3. s = u
    BY <1>4
  <2> HIDE DEF s, c
  <2>4. /\ u.dev \in Device /\ u.dma \in Buffer /\ u.hist \in History
        /\ u.hist.since = hist.since /\ u.hist.moved = hist.moved /\ u.hist.late = hist.late
        /\ u.hist.stale = \E i \in c.pos..(c.pos + n - 1) : c.ring[i] = Old
        /\ Passes(n, dev, c, u.dev, u.dma)
    BY <2>1, <1>1, Submission
  <2> HIDE DEF u, n
  <2>5. ~u.hist.stale
    <3>1. n \in Nat /\ c.pos \in Nat /\ c.pos + n <= Ring
      BY <2>1, <2>4 DEF Passes, Buffer
    <3>2. \A i \in c.pos..(c.pos + n - 1) : i \in 0..(Ring - 1)
      BY <3>1, Sizes
    <3> QED BY <3>2, <2>1, <2>4
  <2>6. u.dev.active = dev.active /\ u.dma.ready = dma.ready
    BY <2>1, <2>4 DEF Passes
  <2>7. SNDDMA_GetDMAPos(u.dma, u.dev) = SNDDMA_GetDMAPos(dma, dev)
    BY <2>1, <2>2, <2>4, <1>1, PositionStays
  <2>8. Fed(u.dev, u.dma, u.hist, FALSE)
    BY <2>1, <2>4, <1>1, FedBySubmission
  <2>9. Covered(u.dev, u.dma, u.hist, FALSE)
    BY <2>1, <2>4, <1>1, CoveredAfterSubmission
  <2>10. /\ s.dev \in Device /\ s.dma \in Buffer /\ s.hist \in History
         /\ s.dev.active = dev.active /\ s.dma.ready = dma.ready
         /\ s.hist.since = hist.since /\ s.hist.moved = hist.moved /\ s.hist.late = hist.late
         /\ s.hist.stale => hist.stale
         /\ SNDDMA_GetDMAPos(s.dma, s.dev) = SNDDMA_GetDMAPos(dma, dev)
         /\ Fed(s.dev, s.dma, s.hist, FALSE) /\ Covered(s.dev, s.dma, s.hist, FALSE)
    BY <2>3, <2>4, <2>5, <2>6, <2>7, <2>8, <2>9
  <2> QED BY <2>10 DEF s
<1> QED BY <1>3, <1>4

\* The position is what has been played since the last mix further, by no turn
\* of the ring or by one.
LEMMA PositionSinceMix ==
  ASSUME IInv, Followed(dev, hist), ~Chopped
  PROVE  Soundtime = snd.time + hist.since
<1> DEFINE g == SNDDMA_GetDMAPos(dma, dev)
           a == snd.old + hist.since
<1>1. dev \in Device /\ dma \in Buffer /\ snd \in Statics /\ hist \in History
  BY DEF IInv, Typed
<1>2. snd.time = snd.buffers * Ring + snd.old /\ g = a % Ring
  BY DEF IInv, Clock
<1>3. /\ snd.old \in Nat /\ snd.old < Ring /\ hist.since \in Nat /\ hist.since < Ring
      /\ snd.buffers \in Nat /\ a \in Nat /\ a < Ring + Ring /\ a = snd.old + hist.since
  BY <1>1, Sizes DEF Statics, History, Followed
<1>4. Wrapped <=> g < snd.old
  BY DEF Wrapped
<1>5. Soundtime = (IF Wrapped THEN snd.buffers + 1 ELSE snd.buffers) * Ring + g
  BY DEF Soundtime, Buffers
<1>6. snd.buffers * Ring \in Nat /\ (snd.buffers + 1) * Ring = snd.buffers * Ring + Ring
  BY <1>3, Times
<1> HIDE DEF g, a
<1>7. g = IF a < Ring THEN a ELSE a - Ring
  BY <1>2, <1>3, Turn
<1>8. CASE a < Ring
  <2>1. ~Wrapped
    BY <1>3, <1>4, <1>7, <1>8
  <2> QED BY <2>1, <1>2, <1>3, <1>5, <1>6, <1>7, <1>8
<1>9. CASE a >= Ring
  <2>1. Wrapped
    BY <1>3, <1>4, <1>7, <1>9, Sizes
  <2> QED BY <2>1, <1>2, <1>3, <1>5, <1>6, <1>7, <1>9, Sizes
<1> QED BY <1>3, <1>8, <1>9, Sizes

\* A time that has not passed is that of the last mix, and nothing was taken.
LEMMA NothingPlayed ==
  ASSUME IInv, Followed(dev, hist), Soundtime = snd.ot
  PROVE  hist.since = 0
<1>1. dev \in Device /\ dma \in Buffer /\ snd \in Statics /\ hist \in History
  BY DEF IInv, Typed
<1>2. snd.time = snd.ot /\ snd.time = snd.buffers * Ring + snd.old
  BY DEF IInv, Clock
<1>3. CASE ~Chopped
  <2>1. Soundtime = snd.time + hist.since
    BY <1>3, PositionSinceMix
  <2>2. hist.since \in Nat /\ snd.time \in Nat
    BY <1>1 DEF History, Statics
  <2> QED BY <2>1, <2>2, <1>2
<1>4. CASE Chopped
  <2>1. SNDDMA_GetDMAPos(dma, dev) \in 0..(Ring - 1)
    BY <1>1, PositionInRing
  <2>2. SNDDMA_GetDMAPos(dma, dev) < snd.old
    BY <1>4 DEF Chopped, Wrapped
  <2>3. Soundtime = SNDDMA_GetDMAPos(dma, dev)
    BY <1>4, <2>1, Sizes DEF Soundtime, Buffers
  <2>4. snd.buffers \in Nat /\ snd.old \in Nat
    BY <1>1, Sizes DEF Statics
  <2>5. snd.buffers * Ring \in Nat
    BY <2>4, Times
  <2> QED BY <2>1, <2>2, <2>3, <2>4, <2>5, <1>2
<1> QED BY <1>3, <1>4

LEMMA UpdateKeeps ==
  ASSUME IInv, S_Update
  PROVE  IInv'
<1> DEFINE time == Soundtime
           g == SNDDMA_GetDMAPos(dma, dev)
           now == [snd EXCEPT !.buffers = Buffers, !.old = g,
                              !.time = time, !.painted = time + PreStep]
           s == IF Chopped THEN Submitted(dev, Cleared(dma), hist)
                ELSE [dev |-> dev, dma |-> dma, hist |-> hist]
<1>1. /\ dev \in Device /\ dma \in Buffer /\ snd \in Statics /\ hist \in History
      /\ Idle /\ snd.started /\ dma.ready /\ snd.mixing = FALSE
  BY DEF IInv, Typed, S_Update, Idle, Statics
<1>2. /\ s.dev \in Device /\ s.dma \in Buffer /\ s.hist \in History
      /\ s.dev.active = dev.active /\ s.dma.ready = dma.ready
      /\ s.hist.since = hist.since /\ s.hist.moved = hist.moved /\ s.hist.late = hist.late
      /\ s.hist.stale => hist.stale
      /\ SNDDMA_GetDMAPos(s.dma, s.dev) = g
      /\ Fed(s.dev, s.dma, s.hist, FALSE) /\ Covered(s.dev, s.dma, s.hist, FALSE)
  BY <1>1, BeforeMix
<1>3. dev' = s.dev
  BY DEF S_Update
<1>4. g \in 0..(Ring - 1)
  BY <1>1, PositionInRing
<1>5. Buffers \in Nat /\ time = Buffers * Ring + g /\ time \in Nat
  <2>1. snd.buffers \in Nat
    BY <1>1 DEF Statics
  <2>2. Buffers \in Nat
    BY <2>1 DEF Buffers
  <2>3. Buffers * Ring \in Nat
    BY <2>2, Times
  <2>4. time = Buffers * Ring + g
    BY DEF Soundtime
  <2> QED BY <2>2, <2>3, <2>4, <1>4, Sizes
<1> HIDE DEF s, g
<1>6. time + PreStep \in Nat
  BY <1>5, Sizes
<1>7. /\ now \in Statics /\ now.buffers = Buffers /\ now.old = g /\ now.time = time
      /\ now.started /\ now.mixing = FALSE /\ now.ot = snd.ot
  <2> HIDE DEF time
  <2> QED BY <1>1, <1>4, <1>5, <1>6 DEF Statics
<1>8. CASE ~Passed(time)
  <2>1. snd' = now /\ dma' = s.dma /\ hist' = s.hist
    BY <1>8 DEF S_Update, s, g
  <2>2. time = snd.ot
    BY <1>8 DEF Passed
  <2> HIDE DEF now
  <2>3. Typed'
    BY <2>1, <1>1, <1>2, <1>3, <1>7 DEF Typed
  <2>4. Clock'
    <3> SUFFICES ASSUME Followed(dev', hist')
                 PROVE  /\ now.started
                        /\ now.time = now.ot /\ now.time = now.buffers * Ring + now.old
                        /\ SNDDMA_GetDMAPos(dma', dev') = (now.old + hist'.since) % Ring
      BY <2>1 DEF Clock, SNDDMA_GetDMAPos
    <3>1. Followed(dev, hist)
      BY <2>1, <1>2, <1>3 DEF Followed
    <3>2. hist.since = 0
      BY <2>2, <3>1, NothingPlayed
    <3>3. (g + 0) % Ring = g
      BY <1>4, Rest
    <3> QED BY <2>1, <2>2, <3>2, <3>3, <1>2, <1>3, <1>5, <1>7
  <2>5. Fed(dev', dma', hist', snd'.mixing) /\ Covered(dev', dma', hist', snd'.mixing)
    BY <2>1, <1>2, <1>3, <1>7
  <2>6. FreshUnlessLate'
    BY <2>1, <1>2 DEF IInv, FreshUnlessLate, Late
  <2>7. Fed(dev, dma, hist, snd.mixing)' /\ Covered(dev, dma, hist, snd.mixing)'
    BY <2>5 DEF Fed, Covered, Fresh, FreshAt, Followed, InTime
  <2> QED BY <2>3, <2>4, <2>6, <2>7 DEF IInv
<1>9. CASE Passed(time)
  <2>1. PICK ahead \in MinAhead..MaxAhead :
          /\ snd' = [now EXCEPT !.ot = time, !.painted = time + ahead, !.mixing = TRUE]
          /\ dma' = [s.dma EXCEPT !.ring = Painted(@, time + PreStep, time + ahead,
                                                  time + s.dev.queue)]
          /\ hist' = [s.hist EXCEPT !.moved = hist.since, !.since = 0,
                                    !.late = Late, !.stale = FALSE]
    BY <1>9 DEF S_Update, s, g
  <2> HIDE DEF now, time
  <2>2. ahead \in Nat /\ time + ahead \in Nat /\ time \in Int
    BY <1>5, Sizes
  <2>3. /\ snd' \in Statics /\ snd'.started /\ snd'.mixing = TRUE /\ snd'.time = time
        /\ snd'.ot = time /\ snd'.buffers = Buffers /\ snd'.old = g
    BY <2>1, <2>2, <1>7 DEF Statics
  <2>4. dma' = MixedInto(s.dma, s.dev, time, ahead)
    BY <2>1 DEF MixedInto
  <2>5. hist' = MixedAfter(s.hist)
    <3>1. hist.moved \in Nat /\ MinAhead - PreStep \in Int
      BY <1>1, Sizes DEF History
    <3>2. Late = ~InTime(s.hist)
      BY <3>1, <1>2 DEF Late, InTime
    <3> QED BY <3>2, <2>1, <1>2 DEF MixedAfter
  <2>6. /\ dma' \in Buffer /\ dma'.ready = s.dma.ready /\ dma'.pos = s.dma.pos
        /\ hist' \in History /\ hist'.since = 0 /\ ~hist'.stale
    <3>1. /\ dma' \in Buffer /\ dma'.ready = s.dma.ready /\ dma'.pos = s.dma.pos
      <4> DEFINE e == MixedInto(s.dma, s.dev, time, ahead)
      <4>1. s.dev \in Device /\ s.dma \in Buffer /\ time \in Nat /\ ahead \in Nat
        BY <2>2, <1>2, <1>5
      <4>2. e \in Buffer /\ e.ready = s.dma.ready /\ e.pos = s.dma.pos
        BY ZenonT(60), <4>1, MixedBuffer
      <4> QED BY <4>2, <2>4
    <3>2. hist' \in History /\ hist'.since = 0 /\ ~hist'.stale
      BY <2>5, <1>2, MixedHistory
    <3> QED BY <3>1, <3>2
  <2>7. Typed'
    BY <2>3, <2>6, <1>1, <1>2, <1>3 DEF Typed
  <2>8. Clock'
    <3>1. SNDDMA_GetDMAPos(dma', dev') = g
      BY <2>6, <1>2, <1>3 DEF SNDDMA_GetDMAPos
    <3>2. (g + 0) % Ring = g
      BY <1>4, Rest
    <3>3. SNDDMA_GetDMAPos(dma, dev)' = (snd'.old + hist'.since) % Ring
      BY <3>1, <3>2, <2>3, <2>6 DEF SNDDMA_GetDMAPos
    <3> QED BY <3>3, <2>3, <1>5 DEF Clock
  <2>9. Fed(dev', dma', hist', snd'.mixing)
    BY <2>2, <2>3, <2>4, <2>5, <1>2, <1>3, <1>5, FedByMix
  <2>10. Covered(dev', dma', hist', snd'.mixing)
    <3>1. s.dev.active => s.dma.ready
      BY <1>1, <1>2
    <3>2. time = Buffers * Ring + SNDDMA_GetDMAPos(s.dma, s.dev)
      BY <1>2, <1>5
    <3>3. Covered(s.dev, MixedInto(s.dma, s.dev, time, ahead), MixedAfter(s.hist), TRUE)
      BY <3>1, <3>2, <1>2, <1>5, CoveredByMix
    <3> QED BY <3>3, <2>3, <2>4, <2>5, <1>3
  <2>11. Fed(dev, dma, hist, snd.mixing)' /\ Covered(dev, dma, hist, snd.mixing)'
    BY <2>9, <2>10 DEF Fed, Covered, Fresh, FreshAt, Followed, InTime
  <2> QED BY <2>6, <2>7, <2>8, <2>11 DEF IInv, FreshUnlessLate
<1> QED BY <1>8, <1>9

-----------------------------------------------------------------------------
(* The theorems.                                                             *)

LEMMA NextInv ==
  IInv /\ [Next]_vars => IInv'
<1> SUFFICES ASSUME IInv, [Next]_vars PROVE IInv'
  OBVIOUS
<1>1. ASSUME NEW n \in 1..dev.queue, DevicePlays(n) PROVE IInv'
  BY <1>1, PlaysKeeps
<1>2. CASE DeviceStops
  BY <1>2, StopsKeeps
<1>3. CASE S_Init
  BY <1>3, SInitKeeps
<1>4. CASE S_Shutdown
  BY <1>4, ShutdownKeeps
<1>5. CASE S_ClearSoundBuffer
  BY <1>5, ClearSoundBufferKeeps
<1>6. CASE S_DisableSounds
  BY <1>6, DisableSoundsKeeps
<1>7. CASE S_BeginRegistration
  BY <1>7, BeginRegistrationKeeps
<1>8. CASE S_Update
  BY <1>8, UpdateKeeps
<1>9. CASE S_UpdateSubmit
  BY <1>9, UpdateSubmitKeeps
<1>10. CASE UNCHANGED vars
  <2>1. dev' = dev /\ dma' = dma /\ snd' = snd /\ hist' = hist
    BY <1>10 DEF vars
  <2>2. Typed' /\ FreshUnlessLate'
    BY <2>1 DEF IInv, Typed, FreshUnlessLate, Late
  <2>3. Clock'
    BY <2>1 DEF IInv, Clock, Followed, SNDDMA_GetDMAPos
  <2>4. Fed(dev, dma, hist, snd.mixing)' /\ Covered(dev, dma, hist, snd.mixing)'
    BY <2>1 DEF IInv, Fed, Covered, Fresh, FreshAt, Followed, InTime
  <2> QED BY <2>2, <2>3, <2>4 DEF IInv
<1> QED BY <1>1, <1>2, <1>3, <1>4, <1>5, <1>6, <1>7, <1>8, <1>9, <1>10 DEF Next

\* Every reachable state satisfies the invariant.
LEMMA InvAlways ==
  Spec => []IInv
BY InitInv, NextInv, PTL DEF Spec

\* The types hold in every reachable state: the queue of the device is never
\* given more than it holds, and s_dmaPos stays in the ring (SNDDMA_Submit).
THEOREM TypeCorrect ==
  Spec => []TypeOK
<1>1. IInv => TypeOK
  <2> SUFFICES ASSUME IInv PROVE TypeOK
    OBVIOUS
  <2>1. dev \in Device /\ dma \in Buffer /\ snd \in Statics /\ (snd.mixing => snd.started)
    BY DEF IInv, Typed
  <2> QED BY <2>1 DEF TypeOK, Device, Buffer, Statics
<1> QED BY InvAlways, <1>1, PTL

\* S_GetSoundtime counts every turn of the ring, and none twice, for every ring
\* that is longer than the queue and every pattern of updates in which the
\* device takes less than a ring between two mixes.
THEOREM TimeIsExact ==
  Spec => SoundtimeExact
<1>1. IInv /\ [Next]_vars =>
        [(S_Update /\ dev.active /\ hist.since < Ring /\ ~Chopped)
           => snd'.time = snd.time + hist.since]_vars
  <2> SUFFICES ASSUME IInv, S_Update, dev.active, hist.since < Ring, ~Chopped
               PROVE  snd'.time = snd.time + hist.since
    OBVIOUS
  <2>1. Soundtime = snd.time + hist.since
    BY PositionSinceMix DEF Followed
  <2>2. snd \in Statics
    BY DEF IInv, Typed
  <2>3. snd'.time = Soundtime
    <3> DEFINE time == Soundtime
               now == [snd EXCEPT !.buffers = Buffers, !.old = SNDDMA_GetDMAPos(dma, dev),
                                  !.time = time, !.painted = time + PreStep]
    <3>1. now.time = time
      BY <2>2 DEF Statics
    <3>2. CASE snd' = now
      BY <3>1, <3>2
    <3>3. CASE ~(snd' = now)
      <4>1. PICK ahead \in MinAhead..MaxAhead :
              snd' = [now EXCEPT !.ot = time, !.painted = time + ahead, !.mixing = TRUE]
        BY <3>3 DEF S_Update
      <4> HIDE DEF time
      <4> QED BY <4>1, <2>2 DEF Statics, time
    <3> QED BY <3>2, <3>3
  <2> QED BY <2>1, <2>3
<1> QED BY InvAlways, <1>1, PTL DEF Spec, SoundtimeExact

\* What the device is given is mixed for the time it is played at, if the mixes
\* are in time: SNDDMA_Submit hands over all up to the end of the ring, painted
\* or not, and three mixes in a row leave nothing old in what the queue takes.
THEOREM NothingOldIsPlayed ==
  Spec => []FreshUnlessLate
<1>1. IInv => FreshUnlessLate
  BY DEF IInv
<1> QED BY InvAlways, <1>1, PTL

\* A device that has run dry took a whole queue since the mix before the last:
\* the end of the ring cuts no two submissions in a row (SNDDMA_Submit).
THEOREM DeviceIsFed ==
  Spec => []NoUnderrun
<1>1. IInv => NoUnderrun
  <2> SUFFICES ASSUME IInv, Idle, dev.active, dev.queue = 0
               PROVE  hist.since + hist.moved >= Queue
    BY DEF NoUnderrun
  <2>1. /\ hist.since \in Nat /\ hist.since <= Ring /\ hist.moved \in Nat
        /\ ~snd.mixing
    BY Sizes DEF IInv, Typed, History, Idle
  <2>2. CASE hist.since < Ring
    <3>1. dev.queue + hist.since + hist.moved >= Queue
      BY <2>1, <2>2 DEF IInv, Fed, Followed
    <3> QED BY <3>1, <2>1, Sizes
  <2>3. CASE hist.since = Ring
    BY <2>1, <2>3, Sizes
  <2> QED BY <2>1, <2>2, <2>3, Sizes
<1> QED BY InvAlways, <1>1, PTL
=============================================================================
