------------------------------- MODULE SoundDma ------------------------------
(* The sound buffer between the mixer and the sound device of the port        *)
(* (circle_snd.cpp; S_GetSoundtime, S_Update_, S_ClearSoundBuffer, S_Init and *)
(* S_Shutdown of snd_dma.c). The mixer paints a stretch of the future into a  *)
(* ring; SNDDMA_Submit copies the ring from s_dmaPos on to the queue of the   *)
(* device, as much as fits; the device takes frames from the queue whenever   *)
(* it wants to, also between the reading of the position and the submission.  *)
(*                                                                            *)
(* All positions are in frames. A frame of the ring is silent, mixed for the  *)
(* time the device is given it next, or old: mixed for an earlier turn.       *)
EXTENDS Integers

CONSTANTS
  Ring,       \* dma.fullsamples, QUEUE_SIZE_FRAMES: 16384
  Queue,      \* the frames of the device's queue: 4096
  PreStep,    \* s_mixPreStep: 2205
  MinAhead,   \* how far is mixed after a short frame: 4851
  MaxAhead,   \* s_mixahead: 8820
  TimeLimit,  \* "time to chop things off": 0x40000000
  MaxBuffers  \* bound on the turns of the ring at a restart

ASSUME SoundAssumption ==
  /\ Ring \in Nat /\ Queue \in Nat \ {0} /\ PreStep \in Nat /\ TimeLimit \in Nat
  /\ MinAhead \in Nat /\ MaxAhead \in Nat
  /\ PreStep < Queue /\ Queue < MinAhead /\ MinAhead <= MaxAhead /\ MaxAhead < Ring

VARIABLES
  dev,    \* the device: IsActive, and GetQueueFramesAvail
  dma,    \* s_soundInitialised, s_dmaPos and dma.buffer
  snd,    \* the statics of snd_dma.c
  hist    \* history

vars == <<dev, dma, snd, hist>>

Silence == "silence"
Mixed == "mixed"
Old == "old"
SilentRing == [i \in 0..(Ring - 1) |-> Silence]

NoMix == [since |-> Ring, moved |-> Ring, late |-> TRUE, stale |-> FALSE]

\* started, muted, time, painted: s_soundStarted, s_soundMuted, s_soundtime and
\* s_paintedtime; buffers, old, ot: the local statics of S_GetSoundtime and
\* S_Update_; mixing: S_Update_ has painted and is about to submit.
\* since: what the device took since the last mix, Ring when that is a whole ring
\* or there was none; moved: the same for the mix before; late: for the one
\* before that, whether it was too much; stale: the last submission held a frame
\* that is old.
Init ==
  /\ dev = [active |-> FALSE, queue |-> 0]
  /\ dma = [ready |-> FALSE, pos |-> 0, ring |-> SilentRing]
  /\ snd = [started |-> FALSE, muted |-> FALSE, time |-> 0, painted |-> 0,
            buffers |-> 0, old |-> 0, ot |-> -1, mixing |-> FALSE]
  /\ hist = NoMix

Least(a, b) == IF a < b THEN a ELSE b

-----------------------------------------------------------------------------
(* circle_snd.cpp.                                                           *)

\* Mutants: the frames that are still in the queue count as played; no wrap
\* protection.
PositionSubmitted(d, v) == IF d.ready /\ v.active THEN d.pos ELSE 0
PositionUnwrapped(d, v) == IF d.ready /\ v.active THEN d.pos - v.queue ELSE 0

\* SNDDMA_GetDMAPos: what has been played.
SNDDMA_GetDMAPos(d, v) ==
  IF d.ready /\ v.active THEN (d.pos + Ring - (v.queue % Ring)) % Ring ELSE 0

\* Mutant: the queue is filled or left alone.
AcceptedFull(d, v) ==
  IF d.ready /\ v.active /\ d.pos + Queue - v.queue <= Ring THEN Queue - v.queue ELSE 0

\* What the device accepts of the span from s_dmaPos to the end of the ring.
Accepted(d, v) ==
  IF d.ready /\ v.active THEN Least(Ring - d.pos, Queue - v.queue) ELSE 0

\* SNDDMA_Submit, for a device v, a buffer d and a history h.
Submitted(v, d, h) ==
  LET n == Accepted(d, v) IN
  [dev  |-> [v EXCEPT !.queue = @ + n],
   dma  |-> [d EXCEPT !.pos = (@ + n) % Ring,
               !.ring = [i \in 0..(Ring - 1) |->
                 IF i \in d.pos..(d.pos + n - 1) /\ @[i] = Mixed THEN Old ELSE @[i]]],
   hist |-> [h EXCEPT !.stale = \E i \in d.pos..(d.pos + n - 1) : d.ring[i] = Old]]
SNDDMA_Submit(v, d, h) ==
  LET s == Submitted(v, d, h) IN dev' = s.dev /\ dma' = s.dma /\ hist' = s.hist

-----------------------------------------------------------------------------
(* The device takes frames, in chunks; or it stops by itself. It is not part *)
(* of the repository.                                                        *)

DevicePlays(n) ==
  /\ dev.active
  /\ dev' = [dev EXCEPT !.queue = @ - n]
  /\ hist' = [hist EXCEPT !.since = Least(@ + n, Ring)]
  /\ UNCHANGED <<dma, snd>>

DeviceStops ==
  /\ dev.active
  /\ dev' = [dev EXCEPT !.active = FALSE]
  /\ UNCHANGED <<dma, snd, hist>>

-----------------------------------------------------------------------------
(* snd_dma.c.                                                                *)

Cleared(d) == [d EXCEPT !.ring = SilentRing]

Idle == snd.started /\ ~snd.mixing

\* S_ClearSoundBuffer, before file access and from S_StopAllSounds.
S_ClearSoundBuffer ==
  /\ Idle
  /\ SNDDMA_Submit(dev, Cleared(dma), hist)
  /\ UNCHANGED snd

\* S_DisableSounds, and S_BeginRegistration ("we can play again").
S_DisableSounds ==
  /\ Idle /\ ~snd.muted
  /\ SNDDMA_Submit(dev, Cleared(dma), hist)
  /\ snd' = [snd EXCEPT !.muted = TRUE]

S_BeginRegistration ==
  /\ Idle /\ snd.muted
  /\ snd' = [snd EXCEPT !.muted = FALSE]
  /\ UNCHANGED <<dev, dma, hist>>

\* S_Init when SNDDMA_Init succeeds, with S_StopAllSounds. The queue is a new one
\* or that of the device's last start. A buffer that was not freed is used
\* again, and its device is not started again.
S_Init ==
  /\ ~snd.started /\ snd.buffers <= MaxBuffers
  /\ IF dma.ready THEN SNDDMA_Submit(dev, Cleared(dma), hist)
     ELSE \E queued \in {0, dev.queue} :
            SNDDMA_Submit([active |-> TRUE, queue |-> queued],
                          [ready |-> TRUE, pos |-> 0, ring |-> SilentRing], NoMix)
  /\ snd' = [snd EXCEPT !.started = TRUE, !.muted = TRUE, !.time = 0, !.painted = 0]

\* S_Shutdown: SNDDMA_Shutdown cancels an active device, waits until it is
\* inactive or half a second has passed, and frees the buffer; with a device
\* that has stopped it does nothing.
S_Shutdown ==
  /\ Idle
  /\ snd' = [snd EXCEPT !.started = FALSE]
  /\ IF ~dev.active THEN UNCHANGED <<dev, dma>>
     ELSE /\ dma' = [ready |-> FALSE, pos |-> dma.pos, ring |-> SilentRing]
          /\ \E active \in BOOLEAN : dev' = [dev EXCEPT !.active = active]
  /\ hist' = NoMix

\* S_GetSoundtime: a position before the last one means that the ring was
\* played to its end. Once in a long time the time starts again near 0.
Wrapped == SNDDMA_GetDMAPos(dma, dev) < snd.old
Chopped == Wrapped /\ snd.painted > TimeLimit
Buffers == IF Chopped THEN 0 ELSE IF Wrapped THEN snd.buffers + 1 ELSE snd.buffers
Soundtime == Buffers * Ring + SNDDMA_GetDMAPos(dma, dev)

\* S_PaintChannels from s_paintedtime on up to end; what lies before next, the
\* time of the frame the device is given next, is too late.
Painted(ring, from, end, next) ==
  [i \in 0..(Ring - 1) |->
     LET t == from + ((i - from) % Ring) IN
     IF t >= end THEN ring[i] ELSE IF t < next THEN Old ELSE Mixed]

\* Mutant: only a later time counts as a new one.
PassedOnlyLater(time) == time > snd.ot
Passed(time) == time # snd.ot

\* History: the mix before may have begun after the end of its predecessor.
Late == hist.moved > MinAhead - PreStep

\* S_Update_ up to the submission; by then the device may have taken more. The
\* mix reaches further the longer the last frame took. When the time starts
\* again S_StopAllSounds submits a silent buffer first.
S_Update ==
  /\ Idle /\ ~snd.muted
  /\ LET time == Soundtime
         now  == [snd EXCEPT !.buffers = Buffers, !.old = SNDDMA_GetDMAPos(dma, dev),
                             !.time = time, !.painted = time + PreStep]
         s    == IF Chopped THEN Submitted(dev, Cleared(dma), hist)
                 ELSE [dev |-> dev, dma |-> dma, hist |-> hist]
     IN /\ dev' = s.dev
        /\ IF ~Passed(time) THEN snd' = now /\ dma' = s.dma /\ hist' = s.hist
           ELSE \E ahead \in MinAhead..MaxAhead :
             /\ snd' = [now EXCEPT !.ot = time, !.painted = time + ahead, !.mixing = TRUE]
             /\ dma' = [s.dma EXCEPT !.ring = Painted(@, time + PreStep, time + ahead,
                                                    time + s.dev.queue)]
             /\ hist' = [s.hist EXCEPT !.moved = hist.since, !.since = 0,
                                       !.late = Late, !.stale = FALSE]

\* The end of S_Update_.
S_UpdateSubmit ==
  /\ snd.mixing
  /\ SNDDMA_Submit(dev, dma, hist)
  /\ snd' = [snd EXCEPT !.mixing = FALSE]

Next ==
  \/ \E n \in 1..dev.queue : DevicePlays(n)
  \/ DeviceStops
  \/ S_Init \/ S_Shutdown \/ S_ClearSoundBuffer \/ S_DisableSounds \/ S_BeginRegistration
  \/ S_Update \/ S_UpdateSubmit

\* The main loop updates the sound in every frame.
Fairness == WF_vars(S_Update) /\ WF_vars(S_UpdateSubmit)

Spec == Init /\ [][Next]_vars /\ Fairness

-----------------------------------------------------------------------------
(* Properties.                                                               *)

\* The queue holds no more than it can, and positions are in the ring.
TypeOK ==
  /\ dev \in [active : BOOLEAN, queue : 0..Queue]
  /\ dma.ready \in BOOLEAN /\ dma.pos \in 0..(Ring - 1)
  /\ snd.time \in Nat /\ snd.painted \in Nat /\ snd.old \in 0..(Ring - 1)
  /\ snd.mixing => snd.started

\* What the device is given was mixed for the time it is played at, or is
\* silence, unless the device took more while the mix was made, or between two
\* of the last three mixes, than the shortest mix allows for (SNDDMA_Submit,
\* which gives it everything up to the end of the ring, painted or not).
FreshUnlessLate == hist.stale => hist.since > MinAhead - Queue \/ Late \/ hist.late

\* Sound does not break off between two mixes although the end of the ring cuts
\* a submission short, unless the device took a whole queue in two of them
\* (SNDDMA_Submit).
NoUnderrun ==
  (Idle /\ ~snd.muted /\ dev.active /\ dev.queue = 0) => hist.since + hist.moved >= Queue

\* s_soundtime follows what is played: no turn of the ring is missed or counted
\* twice ("it is possible to miscount buffers if it has wrapped twice between
\* calls"), unless silent submissions filled a whole ring between two updates.
SoundtimeExact ==
  [][(S_Update /\ dev.active /\ hist.since < Ring /\ ~Chopped)
       => snd'.time = snd.time + hist.since]_vars

\* A device with nothing to play gets something, unless it was silence of
\* a whole ring or a restart that brought the position back to the same place.
SoundGoesOn ==
  (Idle /\ ~snd.muted /\ dev.queue = 0)
    ~> (dev.queue > 0 \/ ~snd.started \/ snd.muted \/ ~dev.active \/ hist.since = Ring)
=============================================================================
