---------------------------- MODULE RamCacheProofs ----------------------------
(* Proofs about RamCache for any archives, buffers and FILEs.                 *)
EXTENDS RamCache, TLAPS

\* The inductive invariant.
IInv == TypeOK /\ BuffersLive

\* The variables have their types at the start.
LEMMA TypeInit == Init => TypeOK
<1> SUFFICES ASSUME Init PROVE TypeOK
  OBVIOUS
<1>1. /\ cache \in [Paths -> Buffers \union {None}]
      /\ content \in [Buffers -> Paths \union {None}]
  BY DEF Init
<1>2. file \in [Files -> {Closed}]
  BY DEF Init
<1>3. usable \in BOOLEAN /\ failed \in BOOLEAN
  BY DEF Init
<1> QED BY <1>1, <1>2, <1>3 DEF TypeOK

\* Every call keeps the types.
LEMMA TypeStep == ASSUME TypeOK, [Next]_vars PROVE TypeOK'
<1>1. ASSUME NEW p \in Paths, NEW f \in Files, OpenCached(p, f) PROVE TypeOK'
  <2>1. cache[p] \in Buffers
    BY <1>1 DEF TypeOK, OpenCached
  <2> QED BY <1>1, <2>1 DEF TypeOK, OpenCached
<1>2. ASSUME NEW p \in Paths, NEW f \in Files, OpenDisk(p, f) PROVE TypeOK'
  BY <1>2 DEF TypeOK, OpenDisk
<1>3. ASSUME NEW p \in Paths, NEW f \in Files, NEW b \in Buffers, Load(p, f, b)
      PROVE TypeOK'
  BY <1>3 DEF TypeOK, Load
<1>4. ASSUME NEW p \in Paths, NEW f \in Files, NEW b \in Buffers, LoadNoCookie(p, f, b)
      PROVE TypeOK'
  <2>1. cache' \in [Paths -> Buffers \union {None}]
    BY <1>4 DEF TypeOK, LoadNoCookie
  <2>2. content' = content /\ file' = file /\ usable' \in BOOLEAN /\ failed' \in BOOLEAN
    BY <1>4 DEF LoadNoCookie
  <2> QED BY <2>1, <2>2 DEF TypeOK
<1>5. ASSUME NEW f \in Files, Close(f) PROVE TypeOK'
  BY <1>5 DEF TypeOK, Close
<1>6. CASE UNCHANGED vars
  BY <1>6 DEF TypeOK, vars
<1> QED BY <1>1, <1>2, <1>3, <1>4, <1>5, <1>6 DEF Next

\* The cache starts empty, so it names no wrong buffer.
LEMMA LiveInit == Init => BuffersLive
  BY DEF Init, BuffersLive, Closed

\* A buffer malloc may return is named neither by the cache nor by an open FILE.
LEMMA FreshBuffer ==
  ASSUME IInv, ~failed, NEW b \in Buffers, content[b] = None
  PROVE  /\ \A p \in Paths : cache[p] # b
         /\ \A f \in Files : file[f].buffer # b
<1>1. None \notin Paths /\ b # None
  BY CacheAssumption
<1>2. \A f \in Files : file[f].buffer # None => file[f].path \in Paths
  BY DEF IInv, TypeOK, Closed, Disk, Ram
<1> QED BY <1>1, <1>2 DEF IInv, BuffersLive

\* Every call keeps cache and FILEs on the buffers of their archives.
LEMMA LiveStep == ASSUME IInv, [Next]_vars PROVE BuffersLive'
<1>1. ASSUME NEW p \in Paths, NEW f \in Files, OpenCached(p, f) PROVE BuffersLive'
  BY <1>1 DEF IInv, TypeOK, BuffersLive, OpenCached, Ram
<1>2. ASSUME NEW p \in Paths, NEW f \in Files, OpenDisk(p, f) PROVE BuffersLive'
  BY <1>2 DEF IInv, TypeOK, BuffersLive, OpenDisk, Disk
<1>3. ASSUME NEW p \in Paths, NEW f \in Files, NEW b \in Buffers, Load(p, f, b)
      PROVE BuffersLive'
  <2> SUFFICES ASSUME ~failed PROVE BuffersLive'
    BY <1>3 DEF BuffersLive, Load
  <2>1. content[b] = None
    BY <1>3 DEF Load
  <2>2. /\ \A q \in Paths : cache[q] # b
        /\ \A g \in Files : file[g].buffer # b
    BY <2>1, FreshBuffer
  <2>3. \A q \in Paths : cache'[q] # None => content'[cache'[q]] = q
    BY <1>3, <2>2 DEF IInv, TypeOK, BuffersLive, Load
  <2>4. \A g \in Files : file'[g].buffer # None => content'[file'[g].buffer] = file'[g].path
    <3> SUFFICES ASSUME NEW g \in Files, file'[g].buffer # None
                 PROVE  content'[file'[g].buffer] = file'[g].path
      OBVIOUS
    <3>1. CASE g = f
      <4>1. file'[g] = Ram(p, b)
        BY <1>3, <3>1 DEF IInv, TypeOK, Load
      <4>2. content'[b] = p
        BY <1>3 DEF IInv, TypeOK, Load
      <4> QED BY <4>1, <4>2 DEF Ram
    <3>2. CASE g # f
      <4>1. file'[g] = file[g]
        BY <1>3, <3>2 DEF IInv, TypeOK, Load
      <4>2. file[g].buffer \in Buffers
        BY <4>1 DEF IInv, TypeOK, Closed, Disk, Ram
      <4>3. content'[file[g].buffer] = content[file[g].buffer]
        BY <1>3, <2>2, <4>2 DEF IInv, TypeOK, Load
      <4> QED BY <4>1, <4>3 DEF IInv, BuffersLive
    <3> QED BY <3>1, <3>2
  <2> QED BY <2>3, <2>4 DEF BuffersLive
<1>4. ASSUME NEW p \in Paths, NEW f \in Files, NEW b \in Buffers, LoadNoCookie(p, f, b)
      PROVE BuffersLive'
  BY <1>4 DEF BuffersLive, LoadNoCookie
<1>5. ASSUME NEW f \in Files, Close(f) PROVE BuffersLive'
  BY <1>5 DEF IInv, TypeOK, BuffersLive, Close, Closed
<1>6. CASE UNCHANGED vars
  BY <1>6 DEF IInv, BuffersLive, vars
<1> QED BY <1>1, <1>2, <1>3, <1>4, <1>5, <1>6 DEF Next

\* No order of opens, loads and closes makes the cache or an open FILE name a
\* buffer that holds something else, unless fopencookie fails after a load.
THEOREM CacheIsSafe == Spec => []BuffersLive
<1>1. Init => IInv
  BY TypeInit, LiveInit DEF IInv
<1>2. IInv /\ [Next]_vars => IInv'
  BY TypeStep, LiveStep DEF IInv
<1>3. IInv => BuffersLive
  BY DEF IInv
<1> QED BY <1>1, <1>2, <1>3, PTL DEF Spec
=============================================================================
