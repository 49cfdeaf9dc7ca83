--------------------------- MODULE SnapshotProofs ----------------------------
(* Proofs about the gamestate and the snapshots of Session.                   *)
EXTENDS DownloadProofs, FiniteSetTheorems

-----------------------------------------------------------------------------
(* Maps and lists of entities.                                               *)

LEMMA Sizes ==
  /\ PacketBackup \in Nat /\ Margin \in Nat /\ PacketBackup > Margin + 1
  /\ MaxEntities \in Nat /\ MaxEntities > 0 /\ ServerRing \in Nat /\ ServerRing >= MaxEntities
  /\ MaxOut \in Nat /\ MaxOut >= 2 /\ MaxEpoch \in Nat /\ MaxEpoch >= 1
  /\ MaxForeign \in Nat /\ MaxInFlight \in Nat /\ MaxInFlight > 0
BY SnapshotAssumption

Entities == [num : Nat, val : Int]
Maps == UNION {[D -> Int] : D \in {S \in SUBSET Nat : IsFiniteSet(S)}}

LEMMA MapType ==
  ASSUME NEW m \in Maps
  PROVE  DOMAIN m \in SUBSET Nat /\ IsFiniteSet(DOMAIN m) /\ m \in [DOMAIN m -> Int]
<1>1. PICK D \in {S \in SUBSET Nat : IsFiniteSet(S)} : m \in [D -> Int]
  BY DEF Maps
<1>2. DOMAIN m = D
  BY <1>1
<1> QED BY <1>1, <1>2

LEMMA IsMap ==
  ASSUME NEW D \in SUBSET Nat, IsFiniteSet(D), NEW m \in [D -> Int]
  PROVE  m \in Maps
<1>1. D \in {S \in SUBSET Nat : IsFiniteSet(S)}
  OBVIOUS
<1> QED BY <1>1, Zenon DEF Maps

\* Functions on 1..n are sequences.
LEMMA SeqOf ==
  ASSUME NEW n \in Nat, NEW S, NEW f \in [1..n -> S]
  PROVE  f \in Seq(S) /\ Len(f) = n /\ DOMAIN f = 1..n
OBVIOUS

\* The numbers of a finite set are told apart by how many are below them, and all
\* counts occur.
Below(D, n) == {k \in D : k < n}

LEMMA Ranks ==
  ASSUME NEW D \in SUBSET Nat, IsFiniteSet(D)
  PROVE  /\ \A n \in D : Cardinality(Below(D, n)) \in 0..(Cardinality(D) - 1)
         /\ \A n, k \in D : Cardinality(Below(D, n)) = Cardinality(Below(D, k)) => n = k
         /\ \A i \in 0..(Cardinality(D) - 1) : \E n \in D : Cardinality(Below(D, n)) = i
<1> DEFINE c == Cardinality(D)
           R(n) == Cardinality(Below(D, n))
           T == 0..(c - 1)
<1>1. c \in Nat
  BY FS_CardinalityType
<1>2. ASSUME NEW n \in D PROVE IsFiniteSet(Below(D, n)) /\ R(n) \in Nat /\ R(n) < c
  <2>1. Below(D, n) \in SUBSET D /\ n \notin Below(D, n)
    BY DEF Below
  <2>2. /\ IsFiniteSet(Below(D, n)) /\ R(n) <= c /\ (c = R(n) => D = Below(D, n))
    BY <2>1, FS_Subset
  <2>3. R(n) \in Nat
    BY <2>2, FS_CardinalityType
  <2>4. R(n) # c
    BY <2>1, <2>2
  <2> QED BY <2>2, <2>3, <2>4, <1>1
<1>3. ASSUME NEW n \in D, NEW k \in D, n < k PROVE R(n) # R(k)
  <2>1. \A x \in D : x < n => x < k
    BY <1>3
  <2>2. Below(D, n) \in SUBSET Below(D, k) /\ n \in Below(D, k)
    BY <1>3, <2>1, Zenon DEF Below
  <2>3. n \notin Below(D, n)
    BY DEF Below
  <2>4. IsFiniteSet(Below(D, k))
    BY <1>2
  <2>5. R(k) = R(n) => Below(D, k) = Below(D, n)
    BY <2>2, <2>4, FS_Subset
  <2> QED BY <2>2, <2>3, <2>5
<1>4. \A n, k \in D : R(n) = R(k) => n = k
  <2> SUFFICES ASSUME NEW n \in D, NEW k \in D, n # k PROVE R(n) # R(k)
    OBVIOUS
  <2>1. n < k \/ k < n
    OBVIOUS
  <2> QED BY <2>1, <1>3
<1> DEFINE f == [n \in D |-> R(n)]
<1>5. IsFiniteSet(T) /\ Cardinality(T) = c
  <2>1. IsFiniteSet(T) /\ Cardinality(T) = IF 0 > c - 1 THEN 0 ELSE (c - 1) - 0 + 1
    BY <1>1, FS_Interval, SMTT(30)
  <2> HIDE DEF c
  <2> QED BY <2>1, <1>1
<1>6. f \in Injection(D, T)
  <2>1. f \in [D -> T]
    BY <1>1, <1>2
  <2>2. \A n, k \in D : f[n] = f[k] => n = k
    BY <1>4
  <2> QED BY <2>1, <2>2 DEF Injection, IsInjective
<1>7. f \in Surjection(D, T)
  <2> HIDE DEF f, T
  <2> QED BY <1>5, <1>6, FS_Injection
<1>8. \A i \in T : \E n \in D : f[n] = i
  <2> HIDE DEF f, T
  <2> QED BY <1>7 DEF Surjection
<1>9. \A i \in T : \E n \in D : R(n) = i
  BY <1>8
<1> QED BY <1>1, <1>2, <1>4, <1>9

\* The list of a map has its entities, and gives the map again.
LEMMA ListOfMap ==
  ASSUME NEW m \in Maps
  PROVE  /\ Listed(m) \in Seq(Entities)
         /\ Len(Listed(m)) = Cardinality(DOMAIN m) /\ Cardinality(DOMAIN m) \in Nat
         /\ AsMap(Listed(m)) = m
<1> DEFINE D == DOMAIN m
           c == Cardinality(D)
           At(i) == CHOOSE n \in D : Cardinality(Below(D, n)) = i - 1
           l == [i \in 1..c |-> Entity(At(i), m[At(i)])]
<1>1. D \in SUBSET Nat /\ IsFiniteSet(D) /\ m \in [D -> Int]
  BY MapType
<1>2. c \in Nat
  BY <1>1, FS_CardinalityType
<1>3. Listed(m) = l
  BY DEF Listed, Below
<1>4. ASSUME NEW i \in 1..c PROVE At(i) \in D /\ Cardinality(Below(D, At(i))) = i - 1
  <2>1. i - 1 \in 0..(c - 1)
    BY <1>2
  <2>2. \E n \in D : Cardinality(Below(D, n)) = i - 1
    BY <2>1, <1>1, Ranks
  <2> QED BY <2>2
<1>5. ASSUME NEW n \in D PROVE \E i \in 1..c : At(i) = n
  <2>1. Cardinality(Below(D, n)) \in 0..(c - 1)
    BY <1>1, Ranks
  <2> DEFINE i == Cardinality(Below(D, n)) + 1
  <2>2. i \in 1..c /\ i - 1 = Cardinality(Below(D, n))
    BY <2>1, <1>2
  <2> HIDE DEF i
  <2>3. At(i) = n
    BY <2>2, <1>1, <1>4, Ranks
  <2> QED BY <2>2, <2>3
<1> HIDE DEF At, c
<1>6. ASSUME NEW i \in 1..c
      PROVE  /\ l[i] \in Entities /\ l[i].num = At(i) /\ l[i].val = m[At(i)]
  <2>1. At(i) \in D
    BY <1>4
  <2>2. At(i) \in Nat /\ m[At(i)] \in Int
    BY <2>1, <1>1
  <2>3. l[i] = [num |-> At(i), val |-> m[At(i)]]
    BY DEF Entity
  <2> HIDE DEF l
  <2> QED BY <2>2, <2>3 DEF Entities
<1>7. l \in Seq(Entities) /\ Len(l) = c /\ DOMAIN l = 1..c
  <2>1. l \in [1..c -> Entities]
    BY <1>6
  <2> HIDE DEF l
  <2> QED BY <2>1, <1>2, SeqOf
<1> HIDE DEF l
<1>8. AsMap(l) = m
  <2>1. {l[i].num : i \in DOMAIN l} = D
    <3>1. {l[i].num : i \in 1..c} \subseteq D
      BY <1>4, <1>6
    <3>2. ASSUME NEW n \in D PROVE \E i \in 1..c : n = l[i].num
      BY <1>5, <1>6
    <3> QED BY <3>1, <3>2, <1>7
  <2>2. ASSUME NEW n \in D PROVE l[CHOOSE i \in DOMAIN l : l[i].num = n].val = m[n]
    <3>1. \E i \in DOMAIN l : l[i].num = n
      BY <1>5, <1>6, <1>7
    <3> DEFINE j == CHOOSE i \in DOMAIN l : l[i].num = n
    <3>2. j \in DOMAIN l /\ l[j].num = n
      BY <3>1
    <3> HIDE DEF j
    <3>3. At(j) = n /\ l[j].val = m[At(j)]
      BY <3>2, <1>6, <1>7
    <3> QED BY <3>3 DEF j
  <2>3. AsMap(l) = [n \in D |-> l[CHOOSE i \in DOMAIN l : l[i].num = n].val]
    BY <2>1 DEF AsMap
  <2> QED BY <2>2, <2>3, <1>1
<1> QED BY <1>2, <1>3, <1>7, <1>8 DEF c

\* Any list of entities gives a map.
LEMMA MapOfList ==
  ASSUME NEW l \in Seq(Entities)
  PROVE  AsMap(l) \in Maps
<1> DEFINE D == {l[i].num : i \in DOMAIN l}
           f == [i \in 1..Len(l) |-> l[i].num]
<1>1. DOMAIN l = 1..Len(l) /\ Len(l) \in Nat /\ \A i \in 1..Len(l) : l[i] \in Entities
  OBVIOUS
<1>2. \A i \in 1..Len(l) : l[i].num \in Nat /\ l[i].val \in Int
  BY <1>1 DEF Entities
<1>3. D \in SUBSET Nat
  BY <1>1, <1>2
<1>4. IsFiniteSet(D)
  <2>1. f \in Surjection(1..Len(l), D)
    <3>1. f \in [1..Len(l) -> D] /\ \A n \in D : \E i \in 1..Len(l) : f[i] = n
      BY <1>1
    <3> HIDE DEF D, f
    <3> QED BY <3>1 DEF Surjection
  <2>2. IsFiniteSet(1..Len(l))
    BY <1>1, FS_Interval
  <2> HIDE DEF D, f
  <2> QED BY <2>1, <2>2, FS_Surjection
<1>5. AsMap(l) \in [D -> Int]
  <2>1. ASSUME NEW n \in D PROVE l[CHOOSE i \in DOMAIN l : l[i].num = n].val \in Int
    <3>1. \E i \in DOMAIN l : l[i].num = n
      OBVIOUS
    <3> DEFINE j == CHOOSE i \in DOMAIN l : l[i].num = n
    <3>2. j \in DOMAIN l
      BY <3>1
    <3> HIDE DEF j
    <3>3. l[j].val \in Int
      BY <3>2, <1>1, <1>2
    <3> QED BY <3>3 DEF j
  <2>2. AsMap(l) = [n \in D |-> l[CHOOSE i \in DOMAIN l : l[i].num = n].val]
    BY DEF AsMap
  <2> QED BY <2>1, <2>2
<1> HIDE DEF D
<1> QED BY <1>3, <1>4, <1>5, IsMap

\* The lists of entities a server sends.
EntityLists == {Listed(v) : v \in Views} \union {<<>>}

LEMMA EmptyList ==
  /\ AsMap(<<>>) \in Maps /\ DOMAIN AsMap(<<>>) = {} /\ Listed(AsMap(<<>>)) = <<>>
<1>1. DOMAIN AsMap(<<>>) = {}
  BY DEF AsMap
<1>2. <<>> \in Seq(Entities)
  OBVIOUS
<1>3. AsMap(<<>>) \in Maps
  BY <1>2, MapOfList
<1>4. Cardinality(DOMAIN AsMap(<<>>)) = 0
  BY <1>1, FS_EmptySet
<1>5. Len(Listed(AsMap(<<>>))) = 0 /\ Listed(AsMap(<<>>)) \in Seq(Entities)
  BY <1>3, <1>4, ListOfMap
<1> QED BY <1>1, <1>3, <1>5

LEMMA ListSent ==
  ASSUME NEW l \in EntityLists
  PROVE  /\ AsMap(l) \in Maps /\ Listed(AsMap(l)) = l
         /\ l \in Seq(Entities) /\ Len(l) \in 0..MaxEntities
         /\ Len(l) = Cardinality(DOMAIN AsMap(l))
<1>1. CASE l = <<>>
  BY <1>1, EmptyList, FS_EmptySet, Sizes
<1>2. CASE l # <<>>
  <2>1. PICK v \in Views : l = Listed(v)
    BY <1>2 DEF EntityLists
  <2>2. /\ DOMAIN v \in SUBSET Nat /\ v \in [DOMAIN v -> Nat] /\ IsFiniteSet(DOMAIN v)
        /\ Cardinality(DOMAIN v) <= MaxEntities
    BY SnapshotAssumption
  <2>3. v \in [DOMAIN v -> Int]
    BY <2>2
  <2>4. v \in Maps
    BY <2>2, <2>3, IsMap
  <2> QED BY <2>1, <2>2, <2>4, ListOfMap, Sizes
<1> QED BY <1>1, <1>2

-----------------------------------------------------------------------------
(* Deltas.                                                                   *)

\* A map is told by what has changed since another, whatever the other is; the
\* baseline matters only for the entities that are new.
LEMMA EncodedType ==
  ASSUME NEW from \in Maps, NEW to \in Maps, NEW b \in Int
  PROVE  Encoded(from, to, b) \in Maps
<1> DEFINE D == {k \in DOMAIN from \union DOMAIN to :
                   ~(k \in DOMAIN from \intersect DOMAIN to /\ from[k] = to[k])}
<1>1. /\ DOMAIN from \in SUBSET Nat /\ IsFiniteSet(DOMAIN from)
      /\ DOMAIN to \in SUBSET Nat /\ IsFiniteSet(DOMAIN to) /\ to \in [DOMAIN to -> Int]
  BY MapType
<1>2. IsFiniteSet(DOMAIN from \union DOMAIN to)
  BY <1>1, FS_Union
<1>3. D \in SUBSET (DOMAIN from \union DOMAIN to) /\ D \in SUBSET Nat
  BY <1>1
<1>4. IsFiniteSet(D)
  BY <1>2, <1>3, FS_Subset
<1>5. Encoded(from, to, b) \in [D -> Int]
  BY <1>1 DEF Encoded, Gone, Same
<1> HIDE DEF D
<1> QED BY <1>3, <1>4, <1>5, IsMap

LEMMA DecodedType ==
  ASSUME NEW c, NEW old \in Maps, NEW ents \in Maps, Baseline(c.epoch) \in Int
  PROVE  Decoded(c, old, ents) \in Maps
<1> DEFINE D == {k \in DOMAIN old \union DOMAIN ents : k \notin DOMAIN ents \/ ents[k] # Gone}
<1>1. /\ DOMAIN old \in SUBSET Nat /\ IsFiniteSet(DOMAIN old) /\ old \in [DOMAIN old -> Int]
      /\ DOMAIN ents \in SUBSET Nat /\ IsFiniteSet(DOMAIN ents) /\ ents \in [DOMAIN ents -> Int]
  BY MapType
<1>2. IsFiniteSet(DOMAIN old \union DOMAIN ents)
  BY <1>1, FS_Union
<1>3. D \in SUBSET (DOMAIN old \union DOMAIN ents) /\ D \in SUBSET Nat
  BY <1>1
<1>4. IsFiniteSet(D)
  BY <1>2, <1>3, FS_Subset
<1>5. Decoded(c, old, ents) \in [D -> Int]
  BY <1>1 DEF Decoded
<1> HIDE DEF D
<1> QED BY <1>3, <1>4, <1>5, IsMap

\* The values a server sends are naturals, which no mark is taken for.
Plain(m) == m \in Maps /\ \A n \in DOMAIN m : m[n] \in Nat

LEMMA DeltaDecodes ==
  ASSUME NEW c, NEW from, NEW to, Plain(from), Plain(to)
  PROVE  /\ DOMAIN Decoded(c, from, Encoded(from, to, Baseline(c.epoch))) = DOMAIN to
         /\ Decoded(c, from, Encoded(from, to, Baseline(c.epoch))) = to
<1> DEFINE b == Baseline(c.epoch)
           ents == Encoded(from, to, b)
           D == {k \in DOMAIN from \union DOMAIN to :
                   ~(k \in DOMAIN from \intersect DOMAIN to /\ from[k] = to[k])}
           R == {k \in DOMAIN from \union DOMAIN ents : k \notin DOMAIN ents \/ ents[k] # Gone}
<1>1. /\ to \in [DOMAIN to -> Int] /\ \A n \in DOMAIN to : to[n] \in Nat
  BY MapType DEF Plain
<1>2. DOMAIN ents = D
  BY DEF Encoded
<1>3. \A k \in D : ents[k] = IF k \notin DOMAIN to THEN Gone
                             ELSE IF k \notin DOMAIN from /\ to[k] = b THEN Same ELSE to[k]
  BY DEF Encoded
<1>4. Decoded(c, from, ents) = [n \in R |->
        IF n \notin DOMAIN ents THEN from[n]
        ELSE IF ents[n] # Same THEN ents[n]
        ELSE IF n \in DOMAIN from THEN from[n] ELSE b]
  BY DEF Decoded
<1> HIDE DEF ents, b
<1>5. \A k \in D : k \in DOMAIN to => to[k] # Gone /\ to[k] # Same /\ Same # Gone
  BY <1>1 DEF Gone, Same
<1>6. R = DOMAIN to
  BY <1>2, <1>3, <1>5
<1>7. ASSUME NEW n \in DOMAIN to
      PROVE  (IF n \notin DOMAIN ents THEN from[n]
              ELSE IF ents[n] # Same THEN ents[n]
              ELSE IF n \in DOMAIN from THEN from[n] ELSE b) = to[n]
  BY <1>2, <1>3, <1>5
<1> HIDE DEF R
<1>8. Decoded(c, from, ents) = to
  BY <1>1, <1>4, <1>6, <1>7
<1> QED BY <1>4, <1>6, <1>8 DEF ents, b

\* From nothing the same entities come out, with the right baselines or not.
LEMMA NothingDecodes ==
  ASSUME NEW c, NEW to, Plain(to), NEW b
  PROVE  DOMAIN Decoded(c, AsMap(<<>>), Encoded(AsMap(<<>>), to, b)) = DOMAIN to
<1> DEFINE none == AsMap(<<>>)
           ents == Encoded(none, to, b)
           R == {k \in DOMAIN none \union DOMAIN ents : k \notin DOMAIN ents \/ ents[k] # Gone}
<1>1. DOMAIN none = {}
  BY EmptyList
<1>2. DOMAIN ents = DOMAIN to
  BY <1>1 DEF Encoded
<1>3. \A k \in DOMAIN to : ents[k] = IF to[k] = b THEN Same ELSE to[k]
  BY <1>1 DEF Encoded
<1>4. \A k \in DOMAIN to : ents[k] # Gone
  BY <1>3 DEF Plain, Gone, Same
<1>5. DOMAIN Decoded(c, none, ents) = R
  BY DEF Decoded
<1> HIDE DEF none, ents
<1>6. R = DOMAIN to
  BY <1>1, <1>2, <1>4
<1> QED BY <1>5, <1>6 DEF none, ents

LEMMA PlainLists ==
  ASSUME NEW l \in EntityLists
  PROVE  Plain(AsMap(l))
<1>1. AsMap(l) \in Maps
  BY ListSent
<1>2. CASE l = <<>>
  BY <1>1, <1>2, EmptyList DEF Plain
<1>3. CASE l # <<>>
  <2>1. PICK v \in Views : l = Listed(v)
    BY <1>3 DEF EntityLists
  <2>2. /\ DOMAIN v \in SUBSET Nat /\ v \in [DOMAIN v -> Nat] /\ IsFiniteSet(DOMAIN v)
    BY SnapshotAssumption
  <2>3. v \in [DOMAIN v -> Int]
    BY <2>2
  <2>4. v \in Maps
    BY <2>2, <2>3, IsMap
  <2>5. AsMap(l) = v
    BY <2>1, <2>4, ListOfMap
  <2> QED BY <1>1, <2>2, <2>5 DEF Plain
<1> QED BY <1>2, <1>3

-----------------------------------------------------------------------------
(* Rings.                                                                    *)

LEMMA Remainder ==
  ASSUME NEW d \in Nat, d > 0, NEW w \in 0..(d - 1), NEW y \in 0..(d - 1), NEW n \in Int,
         w = n * d + y
  PROVE  y = w
<1>1. n * d <= 0 \/ n * d >= d
  BY Multiple
<1>2. (n + 1) * d <= 0 \/ (n + 1) * d >= d
  <2> DEFINE m == n + 1
  <2>1. m \in Int
    OBVIOUS
  <2> HIDE DEF m
  <2>2. m * d <= 0 \/ m * d >= d
    BY <2>1, Multiple
  <2> QED BY <2>2 DEF m
<1>3. n * d \in Int /\ (n + 1) * d = n * d + d
  BY SMTT(20)
<1> DEFINE z == n * d
<1>4. z \in Int /\ (z <= 0 \/ z >= d) /\ (z + d <= 0 \/ z + d >= d) /\ w = z + y
  BY <1>1, <1>2, <1>3
<1> HIDE DEF z
<1> QED BY <1>4

\* How far the slot of a position is from the slot a list is written to.
LEMMA SlotDistance ==
  ASSUME NEW d \in Nat, d > 0, NEW x \in Nat, NEW first \in Nat
  PROVE  /\ x % d \in 0..(d - 1)
         /\ (first <= x /\ x < first + d) => ((x % d) - first) % d = x - first
         /\ (x < first /\ first <= x + d) => ((x % d) - first) % d = x + d - first
<1> DEFINE q == x \div d
           s == x % d
           u == s - first
           r == u \div d
           y == u % d
<1>1. x = d * q + s /\ q \in Int /\ s \in 0..(d - 1)
  OBVIOUS
<1> HIDE DEF q, s
<1>2. u \in Int /\ u = s - first
  BY <1>1
<1> HIDE DEF u
<1>3. u = d * r + y /\ r \in Int /\ y \in 0..(d - 1)
  BY <1>2
<1> HIDE DEF r, y
<1>4. x - first = (q + r) * d + y /\ q + r \in Int
  BY <1>1, <1>2, <1>3, SMTT(20)
<1> DEFINE n == q + r
<1>5. n \in Int /\ x - first = n * d + y
  BY <1>4
<1> HIDE DEF n
<1>6. (n + 1) * d = n * d + d /\ n * d \in Int
  BY <1>5, SMTT(20)
<1>7. CASE first <= x /\ x < first + d
  <2>1. x - first \in 0..(d - 1)
    BY <1>7
  <2>2. y = x - first
    BY <2>1, <1>3, <1>5, Remainder
  <2> QED BY <2>2, <1>1, <1>7 DEF y, u, s
<1>8. CASE x < first /\ first <= x + d
  <2> DEFINE w == x + d - first
             m == n + 1
  <2>1. w \in 0..(d - 1) /\ m \in Int /\ w = m * d + y
    BY <1>3, <1>5, <1>6, <1>8
  <2> HIDE DEF w, m
  <2>2. y = w
    BY <2>1, <1>3, Remainder
  <2> QED BY <2>2, <1>1, <1>8 DEF y, u, s, w
<1> QED BY <1>1, <1>7, <1>8 DEF s

\* The element of the list for number x, and a slot the list does not reach.
LEMMA WrittenAt ==
  ASSUME NEW d \in Nat, d > 0, NEW x \in Nat, NEW first \in Nat,
         NEW list, Len(list) \in Nat, NEW ring,
         first <= x, x < first + d, x < first + Len(list)
  PROVE  Written(ring, d, first, list)[x % d] = list[x - first + 1]
<1> DEFINE i == x % d
           y == (i - first) % d
<1>1. i \in 0..(d - 1) /\ y = x - first
  BY SlotDistance
<1>2. Written(ring, d, first, list)[i] = IF y + 1 <= Len(list) THEN list[y + 1] ELSE ring[i]
  BY <1>1 DEF Written
<1> HIDE DEF y, i
<1>3. y + 1 = x - first + 1 /\ y + 1 <= Len(list)
  BY <1>1
<1> QED BY <1>2, <1>3 DEF i

LEMMA KeptAt ==
  ASSUME NEW d \in Nat, d > 0, NEW x \in Nat, NEW first \in Nat,
         NEW list, Len(list) \in Nat, NEW ring,
         x < first, first + Len(list) <= x + d
  PROVE  Written(ring, d, first, list)[x % d] = ring[x % d]
<1> DEFINE i == x % d
           y == (i - first) % d
<1>0. first <= x + d
  OBVIOUS
<1>1. i \in 0..(d - 1) /\ y = x + d - first
  BY <1>0, SlotDistance
<1>2. Written(ring, d, first, list)[i] = IF y + 1 <= Len(list) THEN list[y + 1] ELSE ring[i]
  BY <1>1 DEF Written
<1> HIDE DEF y, i
<1>3. ~(y + 1 <= Len(list))
  BY <1>1
<1> QED BY <1>2, <1>3 DEF i

LEMMA ReadWritten ==
  ASSUME NEW d \in Nat, d > 0, NEW first \in Nat, NEW n \in Nat,
         NEW S, NEW list \in Seq(S), NEW ring, n <= Len(list), n <= d
  PROVE  Read(Written(ring, d, first, list), d, first, n) = [i \in 1..n |-> list[i]]
<1>1. ASSUME NEW i \in 1..n
      PROVE  Written(ring, d, first, list)[(first + i - 1) % d] = list[i]
  <2> DEFINE x == first + i - 1
  <2>1. x \in Nat /\ first <= x /\ x < first + d /\ x < first + Len(list) /\ x - first + 1 = i
           /\ Len(list) \in Nat
    BY <1>1
  <2> HIDE DEF x
  <2>2. Written(ring, d, first, list)[x % d] = list[x - first + 1]
    BY <2>1, WrittenAt
  <2> QED BY <2>1, <2>2 DEF x
<1> QED BY <1>1 DEF Read

LEMMA ReadKept ==
  ASSUME NEW d \in Nat, d > 0, NEW first \in Nat, NEW f \in Nat, NEW n \in Nat,
         NEW S, NEW list \in Seq(S), NEW ring,
         n > 0 => f + n <= first, first + Len(list) <= f + d
  PROVE  Read(Written(ring, d, first, list), d, f, n) = Read(ring, d, f, n)
<1>1. ASSUME NEW i \in 1..n
      PROVE  Written(ring, d, first, list)[(f + i - 1) % d] = ring[(f + i - 1) % d]
  <2> DEFINE x == f + i - 1
  <2>1. x \in Nat /\ x < first /\ first + Len(list) <= x + d /\ Len(list) \in Nat
    BY <1>1
  <2> HIDE DEF x
  <2>2. Written(ring, d, first, list)[x % d] = ring[x % d]
    BY <2>1, KeptAt
  <2> QED BY <2>2 DEF x
<1> QED BY <1>1 DEF Read

\* Numbers less than a backup apart have slots of their own.
LEMMA OwnSlot ==
  ASSUME NEW i \in Nat, NEW k \in Nat, i % PacketBackup = k % PacketBackup, i < k
  PROVE  i + PacketBackup <= k
<1> DEFINE d == PacketBackup
<1>1. d \in Nat /\ d > 0 /\ i % d = k % d
  BY Sizes
<1> HIDE DEF d
<1>2. i + d <= k
  BY <1>1, SameRemainder
<1> QED BY <1>2 DEF d

LEMMA SlotType ==
  ASSUME NEW i \in Nat
  PROVE  i % PacketBackup \in 0..(PacketBackup - 1)
BY Sizes

\* As many numbers in a row as there are slots fall on every slot.
LEMMA EverySlot ==
  ASSUME NEW lo \in Nat, NEW i \in 0..(PacketBackup - 1)
  PROVE  \E k \in lo..(lo + PacketBackup - 1) : k % PacketBackup = i
<1> DEFINE P == PacketBackup
           q == lo \div P
           s == lo % P
<1>1. P \in Nat /\ P > 0
  BY Sizes
<1> HIDE DEF P
<1>2. lo = P * q + s /\ q \in Int /\ s \in 0..(P - 1)
  BY <1>1
<1> HIDE DEF q, s
<1>3. ASSUME NEW n \in Int, NEW r \in 0..(P - 1) PROVE (P * n + r) % P = r
  BY <1>1, SMTT(30)
<1>4. CASE s <= i
  <2>1. lo + (i - s) \in lo..(lo + P - 1) /\ lo + (i - s) = P * q + i
    BY <1>1, <1>2, <1>4 DEF P
  <2>2. (P * q + i) % P = i
    BY <1>2, <1>3 DEF P
  <2> QED BY <2>1, <2>2 DEF P
<1>5. CASE i < s
  <2>1. P * (q + 1) = P * q + P /\ q + 1 \in Int
    BY <1>1, <1>2, SMTT(20)
  <2> DEFINE n == q + 1
             z == P * n
  <2>2. n \in Int /\ z = P * q + P /\ z \in Int
    BY <2>1, <1>1, <1>2
  <2> HIDE DEF n
  <2>3. lo + (i + P - s) \in lo..(lo + P - 1) /\ lo + (i + P - s) = z + i
    BY <1>1, <1>2, <1>5, <2>2 DEF P
  <2>4. (z + i) % P = i
    BY <2>2, <1>3 DEF P
  <2> QED BY <2>3, <2>4 DEF P
<1> QED BY <1>4, <1>5, <1>2

-----------------------------------------------------------------------------
(* The invariant.                                                            *)

GamestateMessages == [kind : {"gamestate"}, epoch : 1..MaxEpoch]
SnapshotMessages == [kind : {"snapshot"}, delta : Nat, ents : Maps, is : EntityLists]
ServerMessages == GamestateMessages \union SnapshotMessages
Packets == [num : Nat, msg : ServerMessages]
ClientMessages ==
  [epoch : 0..MaxEpoch, ack : Nat, gs : Nat, move : {"none", "delta", "noDelta"}]

ServerFrames == [first : Nat, n : 0..MaxEntities]
ClientSlots ==
  [valid : BOOLEAN, num : Nat, first : Nat, n : 0..MaxEntities, is : EntityLists]
ServerStates ==
  [out : 1..MaxOut, delta : Int, gsNum : Int, state : {"connected", "primed", "active"},
   entity : BOOLEAN, epoch : 1..MaxEpoch, frames : [0..(PacketBackup - 1) -> ServerFrames],
   next : Nat, ring : [0..(ServerRing - 1) -> Entities], queue : Seq(ServerMessages),
   gsSent : Nat, foreign : Nat]
ClientStates ==
  [seq : Nat, epoch : 0..MaxEpoch, snap : Nat,
   slots : [0..(PacketBackup - 1) -> ClientSlots], parsed : Nat,
   ring : [0..(ParseRing - 1) -> Entities], state : {"connected", "primed"}, gs : Nat]

SnTyped ==
  /\ sv \in ServerStates /\ cl \in ClientStates
  /\ toClient \in Seq(Packets) /\ Len(toClient) <= MaxInFlight
  /\ toServer \in Seq(ClientMessages) /\ Len(toServer) <= MaxInFlight

\* The messages on their way to the client: those that have left, and those that
\* wait in the queue, under the numbers they will get.
Waiting == {[num |-> sv.out + j - 1, msg |-> sv.queue[j]] : j \in 1..Len(sv.queue)}
Pending == {toClient[i] : i \in 1..Len(toClient)} \union Waiting
Acks == {toServer[i] : i \in 1..Len(toServer)}

IsGamestate(p) == p.msg.kind = "gamestate"
Gamestates == {p \in Pending : p.msg.kind = "gamestate"}
Snapshots == {p \in Pending : p.msg.kind = "snapshot"}

\* The client plays on the server's map.
Joined == cl.state = "primed" /\ cl.epoch = sv.epoch

\* Messages come in the order of their numbers; behind the first message of the
\* queue there are only gamestates.
Counted ==
  /\ \A i \in 1..Len(toClient) : cl.seq < toClient[i].num /\ toClient[i].num < sv.out
  /\ \A i, j \in 1..Len(toClient) : i < j => toClient[i].num < toClient[j].num
  /\ \A j \in 2..Len(sv.queue) : sv.queue[j].kind = "gamestate"
  /\ cl.gs <= cl.seq /\ cl.snap <= cl.seq /\ cl.seq < sv.out
  /\ sv.delta < sv.out /\ sv.gsNum <= sv.out

\* There is one gamestate under way at most, for a map the client does not have,
\* and the server knows its number but for the message it may wait behind.
OneGamestate ==
  /\ \A p \in Gamestates : /\ p.num \in {sv.gsNum, sv.gsNum + 1}
                           /\ p.msg.epoch <= sv.epoch /\ cl.epoch <= p.msg.epoch
                           /\ cl.state = "primed" => cl.epoch < p.msg.epoch
  /\ \A p, q \in Gamestates : p = q
  /\ Joined => cl.gs <= sv.gsNum + 1
  /\ cl.epoch <= sv.epoch
  /\ sv.state = "active" => Joined
  /\ sv.entity => /\ cl.state = "primed" => cl.epoch = sv.epoch
                  /\ \A p \in Gamestates : p.msg.epoch = sv.epoch

\* What the client says it has got, it had when it said so: of a gamestate it got
\* since it says nothing.
Says(m) ==
  /\ m.ack <= cl.seq /\ m.gs <= cl.gs /\ m.epoch <= cl.epoch /\ m.gs <= m.ack
  /\ m.gs < cl.gs => m.ack < cl.gs
  /\ m.gs = cl.gs => m.epoch = cl.epoch
  /\ m.move # "none" => cl.state = "primed" /\ (m.epoch = cl.epoch => m.gs = cl.gs)
Answers == \A m \in Acks : Says(m)

\* The gamestate the server waits for an answer to waits in the queue, is under
\* way, lost, or the client's.
LastSent ==
  sv.state = "primed" =>
    /\ \A p \in Gamestates : p.msg.epoch = sv.epoch
    /\ sv.gsSent = 0 => \E j \in 1..Len(sv.queue) : sv.queue[j].kind = "gamestate"
    /\ sv.gsSent # 0 =>
         /\ sv.gsSent \in {sv.gsNum, sv.gsNum + 1} /\ sv.gsSent < sv.out
         /\ cl.gs <= sv.gsSent /\ (cl.gs = sv.gsSent => cl.epoch = sv.epoch)
         /\ cl.seq = sv.gsSent => cl.gs = sv.gsSent
         /\ \A m \in Acks : m.ack = sv.gsSent => m.gs = sv.gsSent
         /\ \A p \in Pending : p.num = sv.gsSent <=> IsGamestate(p)

\* The frame of message k, if it is not too old and its entities have not rolled
\* off, still has the entities l.
Kept(k, l) ==
  LET f == sv.frames[k % PacketBackup] IN
  (sv.out - k < PacketBackup /\ f.first > sv.next - ServerRing) =>
    /\ f.n > 0 => f.first + f.n <= sv.next
    /\ Read(sv.ring, ServerRing, f.first, f.n) = l

\* The message was built on the server's map.
Current(p) ==
  cl.epoch = sv.epoch \/ \E q \in Gamestates : q.num < p.num /\ q.msg.epoch = sv.epoch

FramesKept ==
  /\ \A p \in Snapshots : Current(p) => Kept(p.num, p.msg.is)
  /\ cl.epoch = sv.epoch => \A i \in 0..(PacketBackup - 1) :
       cl.slots[i].valid => Kept(cl.slots[i].num, cl.slots[i].is)

SlotOf(k) == cl.slots[k % PacketBackup]
Held(k) == SlotOf(k).valid /\ SlotOf(k).num = k

\* When the message arrives the client has baselines of map e, or none.
OfMap(p, e) ==
  /\ cl.state = "primed" => cl.epoch = e
  /\ \A q \in Gamestates : q.num < p.num => q.msg.epoch = e

\* A snapshot is told from nothing, or from one the client holds.
FromNothing(p) ==
  \E e \in 0..MaxEpoch :
    /\ p.msg.ents = Encoded(AsMap(<<>>), AsMap(p.msg.is), Baseline(e))
    /\ p.msg.is # <<>> => OfMap(p, e)
FromBase(p) ==
  LET k == p.num - p.msg.delta IN
  /\ p.msg.delta < PacketBackup - Margin
  /\ k > 0 /\ k <= cl.snap /\ Held(k)
  /\ cl.state = "primed" /\ \A q \in Gamestates : q.num > p.num
  /\ p.msg.ents = Encoded(AsMap(SlotOf(k).is), AsMap(p.msg.is), Baseline(cl.epoch))
Decodes(p) == IF p.msg.delta = 0 THEN FromNothing(p) ELSE FromBase(p)
Decodable == \A p \in Snapshots : Decodes(p)

\* What the client has acknowledged as the base of the next delta it holds as
\* long as it may be one.
Usable(k) == k \in 1..cl.snap /\ (sv.out - k < PacketBackup - Margin => Held(k))
BasesHeld ==
  /\ sv.state = "active" /\ sv.delta > 0 => Usable(sv.delta)
  /\ \A m \in Acks : m.move = "delta" /\ m.epoch = cl.epoch => Usable(m.ack)

\* A slot the client holds is of one of the last messages, and its entities are
\* in the ring unless too many came since.
SlotHolds(i) ==
  LET s == cl.slots[i] IN
  /\ s.num % PacketBackup = i /\ s.num \in 1..cl.snap /\ cl.snap < s.num + PacketBackup
  /\ s.first + s.n <= cl.parsed
  /\ cl.parsed - s.first <= (cl.seq - s.num + 1) * MaxEntities
  /\ cl.state = "primed" /\ cl.parsed < s.first + ParseRing =>
       Read(cl.ring, ParseRing, s.first, s.n) = s.is
SlotsHold ==
  /\ cl.snap # 0 => Held(cl.snap)
  /\ \A i \in 0..(PacketBackup - 1) : cl.slots[i].valid => SlotHolds(i)

SnInv ==
  /\ SnTyped /\ Counted /\ OneGamestate /\ Answers /\ LastSent
  /\ FramesKept /\ Decodable /\ BasesHeld /\ SlotsHold

-----------------------------------------------------------------------------
(* What is under way.                                                        *)

LEMMA MessageKinds ==
  ASSUME NEW m \in ServerMessages
  PROVE  /\ m.kind = "gamestate" => m \in GamestateMessages /\ m.epoch \in 1..MaxEpoch
         /\ m.kind = "snapshot" =>
              m \in SnapshotMessages /\ m.delta \in Nat /\ m.ents \in Maps /\ m.is \in EntityLists
         /\ m.kind \in {"gamestate", "snapshot"}
BY DEF ServerMessages, GamestateMessages, SnapshotMessages

LEMMA StateType ==
  ASSUME SnTyped
  PROVE  /\ sv.out \in Nat /\ sv.out \in 1..MaxOut /\ sv.delta \in Int /\ sv.gsNum \in Int
         /\ sv.epoch \in 1..MaxEpoch /\ sv.epoch \in Nat
         /\ sv.next \in Nat /\ sv.queue \in Seq(ServerMessages) /\ sv.gsSent \in Nat
         /\ sv.entity \in BOOLEAN /\ sv.state \in {"connected", "primed", "active"}
         /\ sv.frames \in [0..(PacketBackup - 1) -> ServerFrames]
         /\ sv.ring \in [0..(ServerRing - 1) -> Entities] /\ sv.foreign \in Nat
         /\ cl.seq \in Nat /\ cl.epoch \in 0..MaxEpoch /\ cl.epoch \in Nat /\ cl.snap \in Nat
         /\ cl.slots \in [0..(PacketBackup - 1) -> ClientSlots] /\ cl.parsed \in Nat
         /\ cl.ring \in [0..(ParseRing - 1) -> Entities] /\ cl.state \in {"connected", "primed"}
         /\ cl.gs \in Nat
<1>1. sv \in ServerStates /\ cl \in ClientStates
  BY DEF SnTyped
<1>2. MaxOut \in Nat /\ MaxEpoch \in Nat
  BY Sizes
<1>3. /\ sv.out \in 1..MaxOut /\ sv.delta \in Int /\ sv.gsNum \in Int
      /\ sv.epoch \in 1..MaxEpoch
      /\ sv.next \in Nat /\ sv.queue \in Seq(ServerMessages) /\ sv.gsSent \in Nat
      /\ sv.entity \in BOOLEAN /\ sv.state \in {"connected", "primed", "active"}
      /\ sv.frames \in [0..(PacketBackup - 1) -> ServerFrames]
      /\ sv.ring \in [0..(ServerRing - 1) -> Entities] /\ sv.foreign \in Nat
  BY <1>1 DEF ServerStates
<1>4. /\ cl.seq \in Nat /\ cl.epoch \in 0..MaxEpoch /\ cl.snap \in Nat
      /\ cl.slots \in [0..(PacketBackup - 1) -> ClientSlots] /\ cl.parsed \in Nat
      /\ cl.ring \in [0..(ParseRing - 1) -> Entities] /\ cl.state \in {"connected", "primed"}
      /\ cl.gs \in Nat
  BY <1>1 DEF ClientStates
<1>5. sv.out \in Nat /\ sv.epoch \in Nat /\ cl.epoch \in Nat
  BY <1>2, <1>3, <1>4, SMTT(30)
<1> QED BY <1>3, <1>4, <1>5

LEMMA PendingType ==
  ASSUME SnTyped
  PROVE  /\ \A p \in Pending : p \in Packets /\ p.num \in Nat /\ p.msg \in ServerMessages
         /\ \A p \in Gamestates : p.msg.epoch \in 1..MaxEpoch /\ p.msg.epoch \in Nat
         /\ \A p \in Snapshots : p.msg.delta \in Nat /\ p.msg.ents \in Maps
                                 /\ p.msg.is \in EntityLists
         /\ \A m \in Acks : m \in ClientMessages
         /\ \A m \in Acks : m.ack \in Nat /\ m.gs \in Nat /\ m.epoch \in Nat
<1>1. \A i \in 1..Len(toClient) : toClient[i] \in Packets
  BY DEF SnTyped
<1>2. \A p \in Waiting : p \in Packets
  <2> SUFFICES ASSUME NEW j \in 1..Len(sv.queue)
               PROVE  [num |-> sv.out + j - 1, msg |-> sv.queue[j]] \in Packets
    BY DEF Waiting
  <2>1. sv.queue \in Seq(ServerMessages) /\ sv.out \in Nat
    BY StateType
  <2>2. sv.queue[j] \in ServerMessages /\ sv.out + j - 1 \in Nat
    BY <2>1
  <2> QED BY <2>2 DEF Packets
<1>3. \A p \in Pending : p \in Packets
  BY <1>1, <1>2 DEF Pending
<1>4. \A p \in Packets : p.num \in Nat /\ p.msg \in ServerMessages
  BY DEF Packets
<1>5. ASSUME NEW p \in Gamestates PROVE p.msg.epoch \in 1..MaxEpoch /\ p.msg.epoch \in Nat
  <2>1. p.msg \in ServerMessages /\ p.msg.kind = "gamestate"
    BY <1>3, <1>4 DEF Gamestates
  <2>2. p.msg.epoch \in 1..MaxEpoch
    BY <2>1, MessageKinds
  <2> QED BY <2>2, Sizes
<1>6. ASSUME NEW p \in Snapshots
      PROVE  p.msg.delta \in Nat /\ p.msg.ents \in Maps /\ p.msg.is \in EntityLists
  <2>1. p.msg \in ServerMessages /\ p.msg.kind = "snapshot"
    BY <1>3, <1>4 DEF Snapshots
  <2> QED BY <2>1, MessageKinds
<1>7. \A m \in Acks : m \in ClientMessages
  BY DEF Acks, SnTyped
<1>8. ASSUME NEW m \in ClientMessages PROVE m.ack \in Nat /\ m.gs \in Nat /\ m.epoch \in Nat
  BY Sizes DEF ClientMessages
<1> QED BY <1>3, <1>4, <1>5, <1>6, <1>7, <1>8

LEMMA Kinds ==
  ASSUME SnTyped
  PROVE  /\ Pending = Gamestates \union Snapshots
         /\ \A p \in Gamestates : p \in Pending /\ p \notin Snapshots /\ IsGamestate(p)
         /\ \A p \in Snapshots : p \in Pending /\ p \notin Gamestates /\ ~IsGamestate(p)
<1>1. \A p \in Pending : p.msg.kind \in {"gamestate", "snapshot"}
  BY PendingType, MessageKinds
<1> QED BY <1>1 DEF Gamestates, Snapshots, IsGamestate

\* The same of the next state.
WellFormed ==
  /\ sv.out \in Nat /\ sv.next \in Nat /\ cl.seq \in Nat /\ cl.snap \in Nat
  /\ cl.parsed \in Nat
  /\ \A p \in Pending : p.num \in Nat
  /\ Pending = Gamestates \union Snapshots
  /\ \A p \in Gamestates : p \in Pending /\ p \notin Snapshots /\ IsGamestate(p)
  /\ \A p \in Snapshots : p \in Pending /\ p \notin Gamestates /\ ~IsGamestate(p)

LEMMA TypedIsWellFormed == SnTyped => WellFormed
BY StateType, PendingType, Kinds DEF WellFormed

LEMMA NextType ==
  ASSUME SnTyped'
  PROVE  /\ sv'.out \in Nat /\ sv'.next \in Nat /\ cl'.seq \in Nat /\ cl'.snap \in Nat
         /\ cl'.parsed \in Nat
         /\ \A p \in Pending' : p.num \in Nat
         /\ Pending' = Gamestates' \union Snapshots'
         /\ \A p \in Gamestates' : p \in Pending' /\ p \notin Snapshots' /\ IsGamestate(p)
         /\ \A p \in Snapshots' : p \in Pending' /\ p \notin Gamestates' /\ ~IsGamestate(p)
<1>1. WellFormed'
  BY TypedIsWellFormed, PTL
<1> QED BY <1>1 DEF WellFormed, IsGamestate

\* The client has none of the messages under way, and the last number sent is
\* less than that of any that waits.
LEMMA PendingNumbers ==
  ASSUME SnTyped, Counted
  PROVE  /\ \A p \in Pending : cl.seq < p.num
         /\ \A p \in Waiting : p \in Pending /\ p.num >= sv.out
         /\ \A i \in 1..Len(toClient) : toClient[i] \in Pending
         /\ \A j \in 1..Len(sv.queue) :
              [num |-> sv.out + j - 1, msg |-> sv.queue[j]] \in Waiting
<1>1. \A p \in Waiting : p.num >= sv.out
  <2> SUFFICES ASSUME NEW j \in 1..Len(sv.queue)
               PROVE  [num |-> sv.out + j - 1, msg |-> sv.queue[j]].num >= sv.out
    BY DEF Waiting
  <2>1. sv.out \in Nat /\ Len(sv.queue) \in Nat
    BY StateType
  <2> QED BY <2>1
<1>2. \A p \in Waiting : p \in Pending
  BY DEF Pending
<1>3. \A i \in 1..Len(toClient) : toClient[i] \in Pending
  BY DEF Pending
<1>4. \A j \in 1..Len(sv.queue) : [num |-> sv.out + j - 1, msg |-> sv.queue[j]] \in Waiting
  BY DEF Waiting
<1>5. ASSUME NEW p \in Pending PROVE cl.seq < p.num
  <2>1. CASE p \in Waiting
    BY <2>1, <1>1, StateType, PendingType DEF Counted
  <2>2. CASE p \notin Waiting
    BY <2>2 DEF Pending, Counted
  <2> QED BY <2>1, <2>2
<1> QED BY <1>1, <1>2, <1>3, <1>4, <1>5

\* A message sent goes behind the others, the first of which may be lost.
LEMMA UnderAdds ==
  ASSUME NEW S, NEW channel \in Seq(S), Len(channel) <= MaxInFlight, NEW m \in S
  PROVE  /\ Under(channel, m) \in Seq(S) /\ Len(Under(channel, m)) <= MaxInFlight
         /\ \E d \in 0..Len(channel) :
              /\ Len(Under(channel, m)) = Len(channel) - d + 1
              /\ \A k \in 1..(Len(channel) - d) : Under(channel, m)[k] = channel[k + d]
              /\ Under(channel, m)[Len(channel) - d + 1] = m
<1>1. CASE Len(channel) = MaxInFlight
  <2>1. channel # << >>
    BY <1>1, Sizes
  <2>2. Under(channel, m) = Append(Tail(channel), m)
    BY <1>1 DEF Under
  <2>3. /\ Tail(channel) \in Seq(S) /\ Len(Tail(channel)) = Len(channel) - 1 /\ Len(channel) > 0
        /\ \A k \in 1..(Len(channel) - 1) : Tail(channel)[k] = channel[k + 1]
    BY <2>1, TailOf
  <2>4. /\ Append(Tail(channel), m) \in Seq(S)
        /\ Len(Append(Tail(channel), m)) = Len(Tail(channel)) + 1
        /\ \A k \in 1..Len(Tail(channel)) : Append(Tail(channel), m)[k] = Tail(channel)[k]
        /\ Append(Tail(channel), m)[Len(Tail(channel)) + 1] = m
    BY <2>3, AppendOf
  <2>5. 1 \in 0..Len(channel) /\ Len(channel) \in Nat
    BY <2>3
  <2>6. \A k \in 1..(Len(channel) - 1) : Append(Tail(channel), m)[k] = channel[k + 1]
    BY <2>3, <2>4
  <2> QED BY <1>1, <2>2, <2>3, <2>4, <2>5, <2>6
<1>2. CASE Len(channel) # MaxInFlight
  <2>1. Under(channel, m) = Append(channel, m)
    BY <1>2 DEF Under
  <2>2. /\ Append(channel, m) \in Seq(S) /\ Len(Append(channel, m)) = Len(channel) + 1
        /\ \A k \in 1..Len(channel) : Append(channel, m)[k] = channel[k]
        /\ Append(channel, m)[Len(channel) + 1] = m
    BY AppendOf
  <2>3. 0 \in 0..Len(channel) /\ Len(channel) \in Nat /\ Len(channel) + 1 <= MaxInFlight
    BY <1>2, Sizes
  <2>4. \A k \in 1..Len(channel) : Append(channel, m)[k] = channel[k + 0]
    BY <2>2
  <2> QED BY <2>1, <2>2, <2>3, <2>4
<1> QED BY <1>1, <1>2

-----------------------------------------------------------------------------
(* The server sends.                                                         *)

\* A step that leaves the client alone, and what the server expects of it.
ServerWorks ==
  /\ cl' = cl /\ sv'.out >= sv.out
  /\ sv'.state = sv.state /\ sv'.epoch = sv.epoch /\ sv'.entity = sv.entity
  /\ sv'.gsNum = sv.gsNum /\ sv'.delta = sv.delta
  /\ Acks' \subseteq Acks /\ Gamestates' \subseteq Gamestates

LEMMA GamestateQuiet ==
  ASSUME OneGamestate, Gamestates' \subseteq Gamestates,
         cl'.state = cl.state, cl'.epoch = cl.epoch, cl'.gs = cl.gs,
         sv'.state = sv.state, sv'.epoch = sv.epoch, sv'.entity = sv.entity,
         sv'.gsNum = sv.gsNum
  PROVE  OneGamestate'
BY DEF OneGamestate, Joined

LEMMA AnswersQuiet ==
  ASSUME SnTyped, SnTyped', Answers, Acks' \subseteq Acks,
         cl'.state = cl.state, cl'.epoch = cl.epoch, cl'.gs = cl.gs, cl'.seq >= cl.seq
  PROVE  Answers'
<1> SUFFICES ASSUME NEW m \in Acks' PROVE Says(m)'
  BY DEF Answers
<1>1. m \in Acks /\ Says(m)
  BY DEF Answers
<1>2. m.ack \in Nat /\ cl.seq \in Nat /\ cl'.seq \in Nat
  BY <1>1, PendingType, StateType, NextType
<1>3. m.ack <= cl'.seq
  BY <1>1, <1>2 DEF Says
<1> QED BY <1>1, <1>3 DEF Says

LEMMA BasesQuiet ==
  ASSUME SnTyped, SnTyped', BasesHeld, cl' = cl, sv'.out >= sv.out, Acks' \subseteq Acks,
         sv'.state = sv.state, sv'.delta = sv.delta
  PROVE  BasesHeld'
<1>1. ASSUME NEW k \in Int, Usable(k) PROVE Usable(k)'
  <2>1. sv.out \in Nat /\ sv'.out \in Nat /\ PacketBackup \in Nat /\ Margin \in Nat
    BY StateType, NextType, Sizes
  <2>2. Held(k)' <=> Held(k)
    BY DEF Held, SlotOf
  <2>3. sv'.out - k < PacketBackup - Margin => sv.out - k < PacketBackup - Margin
    BY <2>1
  <2> QED BY <1>1, <2>2, <2>3 DEF Usable
<1>2. sv.delta \in Int /\ \A m \in Acks : m.ack \in Int
  BY StateType, PendingType
<1> QED BY <1>1, <1>2 DEF BasesHeld

LEMMA DecodesQuiet ==
  ASSUME NEW p, Decodes(p), cl' = cl, Gamestates' \subseteq Gamestates
  PROVE  Decodes(p)'
<1>1. \A e : OfMap(p, e) => OfMap(p, e)'
  BY DEF OfMap
<1>2. FromNothing(p) => FromNothing(p)'
  BY <1>1 DEF FromNothing
<1>3. FromBase(p) => FromBase(p)'
  BY DEF FromBase, Held, SlotOf
<1> QED BY <1>2, <1>3 DEF Decodes

LEMMA CurrentQuiet ==
  ASSUME NEW p, Current(p)', cl'.epoch = cl.epoch, sv'.epoch = sv.epoch,
         Gamestates' \subseteq Gamestates
  PROVE  Current(p)
BY DEF Current

LEMMA ServerWorksOn ==
  ASSUME SnInv, SnTyped', ServerWorks
  PROVE  OneGamestate' /\ Answers' /\ BasesHeld' /\ SlotsHold'
<1>1. OneGamestate'
  BY GamestateQuiet DEF SnInv, ServerWorks
<1>2. Answers'
  <2>1. cl'.seq >= cl.seq
    BY StateType DEF SnInv, ServerWorks
  <2> QED BY <2>1, AnswersQuiet DEF SnInv, ServerWorks
<1>3. BasesHeld'
  BY BasesQuiet DEF SnInv, ServerWorks
<1>4. SlotsHold'
  BY DEF SnInv, ServerWorks, SlotsHold, SlotHolds, Held, SlotOf
<1> QED BY <1>1, <1>2, <1>3, <1>4

\* A list that is written to the ring leaves the frames that are still in reach.
LEMMA KeptRead ==
  ASSUME SnTyped, NEW list \in Seq(Entities), NEW k \in Nat, NEW l, Kept(k, l),
         sv.out - k < PacketBackup,
         sv.frames[k % PacketBackup].first > sv.next + Len(list) - ServerRing
  PROVE  LET f == sv.frames[k % PacketBackup]
             ring == Written(sv.ring, ServerRing, sv.next, list)
         IN  /\ f.n > 0 => f.first + f.n <= sv.next + Len(list)
             /\ Read(ring, ServerRing, f.first, f.n) = l
<1> DEFINE f == sv.frames[k % PacketBackup]
           ring == Written(sv.ring, ServerRing, sv.next, list)
<1>1. /\ sv.next \in Nat /\ Len(list) \in Nat /\ ServerRing \in Nat /\ ServerRing > 0
  BY StateType, Sizes
<1>2. f.first \in Nat /\ f.n \in Nat
  <2>1. f \in ServerFrames
    BY StateType, SlotType
  <2> QED BY <2>1, Sizes DEF ServerFrames
<1>3. f.first > sv.next - ServerRing
  <2>1. f.first > sv.next + Len(list) - ServerRing
    OBVIOUS
  <2> HIDE DEF f
  <2> QED BY <1>1, <1>2, <2>1
<1>4. (f.n > 0 => f.first + f.n <= sv.next) /\ Read(sv.ring, ServerRing, f.first, f.n) = l
  BY <1>3 DEF Kept
<1>5. sv.next + Len(list) <= f.first + ServerRing
  <2>1. f.first > sv.next + Len(list) - ServerRing
    OBVIOUS
  <2> HIDE DEF f
  <2> QED BY <1>1, <1>2, <2>1
<1> HIDE DEF f
<1>6. f.n > 0 => f.first + f.n <= sv.next + Len(list)
  BY <1>1, <1>2, <1>4
<1>7. Read(ring, ServerRing, f.first, f.n) = Read(sv.ring, ServerRing, f.first, f.n)
  BY <1>1, <1>2, <1>4, <1>5, ReadKept
<1> QED BY <1>4, <1>6, <1>7 DEF f

\* The frames that are not built anew.
LEMMA KeptWritten ==
  ASSUME SnTyped, SnTyped', NEW list \in Seq(Entities),
         sv'.ring = Written(sv.ring, ServerRing, sv.next, list),
         sv'.next = sv.next + Len(list), sv'.out >= sv.out,
         NEW k \in Nat, NEW l, Kept(k, l),
         sv'.frames[k % PacketBackup] = sv.frames[k % PacketBackup]
  PROVE  Kept(k, l)'
<1> DEFINE f == sv.frames[k % PacketBackup]
<1> SUFFICES ASSUME sv'.out - k < PacketBackup, f.first > sv'.next - ServerRing
             PROVE  /\ f.n > 0 => f.first + f.n <= sv'.next
                    /\ Read(sv'.ring, ServerRing, f.first, f.n) = l
  BY DEF Kept
<1>1. sv.out - k < PacketBackup
  <2>1. sv.out \in Nat /\ sv'.out \in Nat /\ PacketBackup \in Nat
    BY StateType, NextType, Sizes
  <2> HIDE DEF f
  <2> QED BY <2>1
<1>2. f.first > sv.next + Len(list) - ServerRing
  <2> HIDE DEF f
  <2>1. sv'.next - ServerRing = sv.next + Len(list) - ServerRing
    <3>1. sv.next \in Nat /\ Len(list) \in Nat /\ ServerRing \in Nat
      BY StateType, Sizes
    <3> QED BY <3>1
  <2> QED BY <2>1
<1>3. /\ f.n > 0 => f.first + f.n <= sv.next + Len(list)
      /\ Read(Written(sv.ring, ServerRing, sv.next, list), ServerRing, f.first, f.n) = l
  BY <1>1, <1>2, KeptRead
<1> QED BY <1>3

LEMMA KeptSame ==
  ASSUME SnTyped, SnTyped', sv'.ring = sv.ring, sv'.next = sv.next, sv'.frames = sv.frames,
         sv'.out >= sv.out, NEW k \in Nat, NEW l, Kept(k, l)
  PROVE  Kept(k, l)'
<1>1. sv.out \in Nat /\ sv'.out \in Nat /\ PacketBackup \in Nat
  BY StateType, NextType, Sizes
<1>2. sv'.out - k < PacketBackup => sv.out - k < PacketBackup
  BY <1>1
<1> QED BY <1>2 DEF Kept

\* The last gamestate is where it was.
LEMMA LastSentQuiet ==
  ASSUME SnTyped, SnTyped', LastSent, ServerWorks, sv'.gsSent = sv.gsSent,
         \A p \in Pending' : p \in Pending \/ (~IsGamestate(p) /\ p.num >= sv.out),
         (\E j \in 1..Len(sv.queue) : sv.queue[j].kind = "gamestate")
           => \E j \in 1..Len(sv'.queue) : sv'.queue[j].kind = "gamestate"
  PROVE  LastSent'
<1> SUFFICES ASSUME sv.state = "primed"
             PROVE  /\ \A p \in Gamestates' : p.msg.epoch = sv.epoch
                    /\ sv.gsSent = 0 => \E j \in 1..Len(sv'.queue) : sv'.queue[j].kind = "gamestate"
                    /\ sv.gsSent # 0 =>
                         /\ sv.gsSent \in {sv.gsNum, sv.gsNum + 1} /\ sv.gsSent < sv'.out
                         /\ cl.gs <= sv.gsSent /\ (cl.gs = sv.gsSent => cl.epoch = sv.epoch)
                         /\ cl.seq = sv.gsSent => cl.gs = sv.gsSent
                         /\ \A m \in Acks' : m.ack = sv.gsSent => m.gs = sv.gsSent
                         /\ \A p \in Pending' : p.num = sv.gsSent <=> IsGamestate(p)
  BY DEF LastSent, ServerWorks, IsGamestate
<1>1. \A p \in Gamestates' : p.msg.epoch = sv.epoch
  BY DEF LastSent, ServerWorks
<1>2. sv.gsSent = 0 => \E j \in 1..Len(sv'.queue) : sv'.queue[j].kind = "gamestate"
  BY DEF LastSent
<1>3. ASSUME sv.gsSent # 0
      PROVE  /\ sv.gsSent \in {sv.gsNum, sv.gsNum + 1} /\ sv.gsSent < sv'.out
             /\ cl.gs <= sv.gsSent /\ (cl.gs = sv.gsSent => cl.epoch = sv.epoch)
             /\ cl.seq = sv.gsSent => cl.gs = sv.gsSent
             /\ \A m \in Acks' : m.ack = sv.gsSent => m.gs = sv.gsSent
             /\ \A p \in Pending' : p.num = sv.gsSent <=> IsGamestate(p)
  <2>1. /\ sv.gsSent \in {sv.gsNum, sv.gsNum + 1} /\ sv.gsSent < sv.out
        /\ cl.gs <= sv.gsSent /\ (cl.gs = sv.gsSent => cl.epoch = sv.epoch)
        /\ cl.seq = sv.gsSent => cl.gs = sv.gsSent
        /\ \A m \in Acks : m.ack = sv.gsSent => m.gs = sv.gsSent
        /\ \A p \in Pending : p.num = sv.gsSent <=> IsGamestate(p)
    BY <1>3 DEF LastSent
  <2>2. sv.out \in Nat /\ sv'.out \in Nat /\ sv.gsSent \in Nat /\ sv'.out >= sv.out
    BY StateType, NextType DEF ServerWorks
  <2>3. sv.gsSent < sv'.out
    BY <2>1, <2>2
  <2>4. \A m \in Acks' : m.ack = sv.gsSent => m.gs = sv.gsSent
    BY <2>1 DEF ServerWorks
  <2>5. ASSUME NEW p \in Pending' PROVE p.num = sv.gsSent <=> IsGamestate(p)
    <3>1. CASE p \in Pending
      BY <2>1, <3>1
    <3>2. CASE ~IsGamestate(p) /\ p.num >= sv.out
      <4>1. p.num \in Nat
        BY NextType
      <4> QED BY <2>1, <2>2, <3>2, <4>1
    <3> QED BY <3>1, <3>2
  <2> QED BY <2>1, <2>3, <2>4, <2>5
<1> QED BY <1>1, <1>2, <1>3

LEMMA WrittenType ==
  ASSUME NEW d \in Nat, d > 0, NEW first \in Nat, NEW list \in Seq(Entities),
         NEW ring \in [0..(d - 1) -> Entities]
  PROVE  Written(ring, d, first, list) \in [0..(d - 1) -> Entities]
<1>1. ASSUME NEW i \in 0..(d - 1)
      PROVE  (LET k == ((i - first) % d) + 1 IN
                IF k <= Len(list) THEN list[k] ELSE ring[i]) \in Entities
  <2> DEFINE k == ((i - first) % d) + 1
  <2>1. k \in Nat /\ k >= 1
    BY <1>1
  <2>2. ring[i] \in Entities
    BY <1>1
  <2> HIDE DEF k
  <2>3. k <= Len(list) => list[k] \in Entities
    BY <2>1
  <2> QED BY <2>2, <2>3 DEF k
<1> QED BY <1>1 DEF Written

\* The snapshot of another client: what it writes over is out of reach.
LEMMA OtherKeeps ==
  ASSUME SnInv, NEW n \in 1..MaxEntities, OtherClientSnapshot(n)
  PROVE  SnInv'
<1> DEFINE list == [i \in 1..n |-> Nobody]
<1>1. list \in Seq(Entities) /\ Len(list) = n /\ n \in Nat /\ n <= MaxEntities
  <2>1. n \in Nat /\ n <= MaxEntities
    BY Sizes
  <2>2. list \in [1..n -> Entities]
    BY DEF Nobody, Entity, Entities
  <2> QED BY <2>1, <2>2, SeqOf
<1> HIDE DEF list
<1>2. /\ sv' = [sv EXCEPT !.foreign = sv.foreign + n, !.next = sv.next + n,
                  !.ring = Written(sv.ring, ServerRing, sv.next, list)]
      /\ UNCHANGED <<cl, toClient, toServer>>
  BY DEF OtherClientSnapshot, list
<1>3. SnTyped /\ sv \in ServerStates
  BY DEF SnInv, SnTyped
<1>4. SnTyped'
  <2>0. /\ sv.next \in Nat /\ sv.foreign \in Nat
        /\ sv.ring \in [0..(ServerRing - 1) -> Entities]
    BY <1>3, StateType
  <2>1. sv.next + n \in Nat /\ sv.foreign + n \in Nat
    BY <1>1, <2>0
  <2>2. Written(sv.ring, ServerRing, sv.next, list) \in [0..(ServerRing - 1) -> Entities]
    <3>1. ServerRing \in Nat /\ ServerRing > 0
      BY Sizes
    <3> QED BY <1>1, <2>0, <3>1, WrittenType
  <2>3. sv' \in ServerStates
    BY <1>2, <1>3, <2>1, <2>2 DEF ServerStates
  <2> QED BY <1>2, <1>3, <2>3 DEF SnTyped
<1>5. /\ sv'.out = sv.out /\ sv'.state = sv.state /\ sv'.epoch = sv.epoch
      /\ sv'.entity = sv.entity /\ sv'.gsNum = sv.gsNum /\ sv'.delta = sv.delta
      /\ sv'.queue = sv.queue /\ sv'.gsSent = sv.gsSent /\ sv'.frames = sv.frames
      /\ sv'.next = sv.next + Len(list)
      /\ sv'.ring = Written(sv.ring, ServerRing, sv.next, list)
  BY <1>1, <1>2, <1>3 DEF ServerStates
<1>6. Pending' = Pending /\ Acks' = Acks /\ Gamestates' = Gamestates /\ Snapshots' = Snapshots
  BY <1>2, <1>5 DEF Pending, Waiting, Acks, Gamestates, Snapshots
<1>7. ServerWorks
  BY <1>2, <1>3, <1>5, <1>6, StateType DEF ServerWorks
<1>8. OneGamestate' /\ Answers' /\ BasesHeld' /\ SlotsHold'
  BY <1>4, <1>7, ServerWorksOn
<1>9. Counted'
  BY <1>2, <1>5 DEF SnInv, Counted
<1>10. LastSent'
  BY <1>3, <1>4, <1>5, <1>6, <1>7, LastSentQuiet DEF SnInv
<1>11. FramesKept'
  <2>1. ASSUME NEW k \in Nat, NEW l, Kept(k, l) PROVE Kept(k, l)'
    <3>1. sv'.out >= sv.out
      BY <1>3, <1>5, StateType
    <3> QED BY <1>1, <1>3, <1>4, <1>5, <2>1, <3>1, KeptWritten
  <2>2. \A p \in Snapshots : p.num \in Nat
    BY <1>3, PendingType, Kinds
  <2>3. \A i \in 0..(PacketBackup - 1) : cl.slots[i].num \in Nat
    BY <1>3, StateType DEF ClientSlots
  <2>4. \A p : Current(p)' => Current(p)
    BY <1>2, <1>5, <1>6, CurrentQuiet
  <2> QED BY <1>2, <1>5, <1>6, <2>1, <2>2, <2>3, <2>4 DEF FramesKept, SnInv
<1>12. Decodable'
  BY <1>2, <1>6, DecodesQuiet DEF Decodable, SnInv
<1> QED BY <1>4, <1>8, <1>9, <1>10, <1>11, <1>12 DEF SnInv

\* A new map: nothing under way was built on it, and the client has it not.
LEMMA SpawnKeeps ==
  ASSUME SnInv, SV_SpawnServer
  PROVE  SnInv'
<1>1. /\ sv.epoch < MaxEpoch
      /\ sv' = [sv EXCEPT !.epoch = sv.epoch + 1, !.state = "connected", !.entity = FALSE,
                          !.next = 0, !.ring = [i \in 0..(ServerRing - 1) |-> Nobody]]
      /\ UNCHANGED <<cl, toClient, toServer>>
  BY DEF SV_SpawnServer
<1>2. SnTyped /\ sv \in ServerStates
  BY DEF SnInv, SnTyped
<1>3. SnTyped'
  <2>1. sv.epoch + 1 \in 1..MaxEpoch
    <3>1. sv.epoch \in 1..MaxEpoch /\ MaxEpoch \in Nat
      BY <1>2, StateType, Sizes
    <3> QED BY <1>1, <3>1
  <2>2. [i \in 0..(ServerRing - 1) |-> Nobody] \in [0..(ServerRing - 1) -> Entities]
    BY DEF Nobody, Entity, Entities
  <2>3. sv' \in ServerStates
    BY <1>1, <1>2, <2>1, <2>2 DEF ServerStates
  <2> QED BY <1>1, <1>2, <2>3 DEF SnTyped
<1>4. /\ sv'.out = sv.out /\ sv'.state = "connected" /\ sv'.epoch = sv.epoch + 1
      /\ sv'.entity = FALSE /\ sv'.gsNum = sv.gsNum /\ sv'.delta = sv.delta
      /\ sv'.queue = sv.queue /\ sv'.gsSent = sv.gsSent
  BY <1>1, <1>2 DEF ServerStates
<1>5. Pending' = Pending /\ Acks' = Acks /\ Gamestates' = Gamestates /\ Snapshots' = Snapshots
  BY <1>1, <1>4 DEF Pending, Waiting, Acks, Gamestates, Snapshots
<1>6. /\ sv.epoch \in Nat /\ cl.epoch \in Nat /\ cl.epoch <= sv.epoch
      /\ \A p \in Gamestates : p.msg.epoch \in Nat /\ p.msg.epoch <= sv.epoch
  BY <1>2, StateType, PendingType DEF SnInv, OneGamestate
<1>7. ~Joined' /\ \A p : ~Current(p)'
  <2>1. cl.epoch # sv.epoch + 1 /\ \A p \in Gamestates : p.msg.epoch # sv.epoch + 1
    BY <1>6
  <2> QED BY <1>1, <1>4, <1>5, <2>1 DEF Joined, Current
<1>8. Counted'
  BY <1>1, <1>4 DEF SnInv, Counted
<1>9. OneGamestate'
  <2>1. \A p \in Gamestates : /\ p.num \in {sv.gsNum, sv.gsNum + 1}
                              /\ p.msg.epoch <= sv.epoch + 1 /\ cl.epoch <= p.msg.epoch
                              /\ cl.state = "primed" => cl.epoch < p.msg.epoch
    <3>1. \A p \in Gamestates : p.msg.epoch <= sv.epoch + 1
      BY <1>6
    <3> QED BY <3>1 DEF SnInv, OneGamestate
  <2>2. cl.epoch <= sv.epoch + 1
    BY <1>6
  <2>3. \A p, q \in Gamestates : p = q
    BY DEF SnInv, OneGamestate
  <2> QED BY <1>1, <1>4, <1>5, <1>7, <2>1, <2>2, <2>3 DEF OneGamestate
<1>10. Answers'
  <2>1. cl'.seq >= cl.seq
    BY <1>1, <1>2, StateType
  <2> QED BY <1>1, <1>2, <1>3, <1>5, <2>1, AnswersQuiet DEF SnInv
<1>11. LastSent'
  BY <1>4 DEF LastSent
<1>12. FramesKept'
  <2>1. cl'.epoch # sv'.epoch
    BY <1>1, <1>4, <1>6
  <2> QED BY <1>7, <2>1 DEF FramesKept
<1>13. Decodable'
  BY <1>1, <1>5, DecodesQuiet DEF Decodable, SnInv
<1>14. BasesHeld'
  <2>1. \A k : Usable(k)' <=> Usable(k)
    BY <1>1, <1>4 DEF Usable, Held, SlotOf
  <2> QED BY <1>1, <1>4, <1>5, <2>1 DEF BasesHeld, SnInv
<1>15. SlotsHold'
  BY <1>1 DEF SnInv, SlotsHold, SlotHolds, Held, SlotOf
<1> QED BY <1>3, <1>8, <1>9, <1>10, <1>11, <1>12, <1>13, <1>14, <1>15 DEF SnInv

\* A message that leaves has the next number.
LEMMA ToClientSent ==
  ASSUME SnTyped, Counted, NEW m \in ServerMessages,
         toClient' = Under(toClient, [num |-> sv.out, msg |-> m])
  PROVE  /\ toClient' \in Seq(Packets) /\ Len(toClient') <= MaxInFlight
         /\ \A i \in 1..Len(toClient') :
              \/ toClient'[i] = [num |-> sv.out, msg |-> m]
              \/ \E k \in 1..Len(toClient) : toClient'[i] = toClient[k]
         /\ \A i \in 1..Len(toClient') :
              cl.seq < toClient'[i].num /\ toClient'[i].num < sv.out + 1
         /\ \A i, j \in 1..Len(toClient') : i < j => toClient'[i].num < toClient'[j].num
<1> DEFINE p0 == [num |-> sv.out, msg |-> m]
           n == Len(toClient)
<1>1. sv.out \in Nat /\ cl.seq \in Nat /\ cl.seq < sv.out
  BY StateType DEF Counted
<1>2. p0 \in Packets /\ p0.num = sv.out
  BY <1>1 DEF Packets
<1>3. toClient \in Seq(Packets) /\ Len(toClient) <= MaxInFlight /\ n \in Nat
  BY DEF SnTyped
<1> HIDE DEF p0, n
<1>4. toClient' = Under(toClient, p0)
  BY DEF p0
<1>5. toClient' \in Seq(Packets) /\ Len(toClient') <= MaxInFlight
  BY <1>2, <1>3, <1>4, UnderAdds
<1>6. PICK d \in 0..n :
        /\ Len(toClient') = n - d + 1
        /\ \A k \in 1..(n - d) : toClient'[k] = toClient[k + d]
        /\ toClient'[n - d + 1] = p0
  <2>1. \E d \in 0..Len(toClient) :
          /\ Len(Under(toClient, p0)) = Len(toClient) - d + 1
          /\ \A k \in 1..(Len(toClient) - d) : Under(toClient, p0)[k] = toClient[k + d]
          /\ Under(toClient, p0)[Len(toClient) - d + 1] = p0
    BY <1>2, <1>3, UnderAdds
  <2> QED BY <2>1, <1>4 DEF n
<1>7. d \in Nat /\ d <= n
  BY <1>3, <1>6
<1>8. ASSUME NEW i \in 1..Len(toClient')
      PROVE  \/ i = n - d + 1 /\ toClient'[i] = p0
             \/ i < n - d + 1 /\ i + d \in 1..n /\ toClient'[i] = toClient[i + d]
  <2>1. i \in Nat /\ i >= 1 /\ i <= n - d + 1
    BY <1>3, <1>6, <1>7
  <2>2. CASE i = n - d + 1
    BY <1>6, <2>2
  <2>3. CASE i < n - d + 1
    BY <1>3, <1>6, <1>7, <2>1, <2>3
  <2> QED BY <2>1, <2>2, <2>3, <1>3, <1>7
<1>9. ASSUME NEW k \in 1..n
      PROVE  /\ cl.seq < toClient[k].num /\ toClient[k].num < sv.out
             /\ toClient[k].num \in Nat
  <2>1. cl.seq < toClient[k].num /\ toClient[k].num < sv.out
    BY DEF Counted, n
  <2>2. toClient[k] \in Packets
    BY <1>3 DEF n
  <2> QED BY <2>1, <2>2 DEF Packets
<1>10. ASSUME NEW i \in 1..Len(toClient')
       PROVE  /\ toClient'[i] = p0 \/ \E k \in 1..n : toClient'[i] = toClient[k]
              /\ cl.seq < toClient'[i].num /\ toClient'[i].num < sv.out + 1
  BY <1>1, <1>2, <1>8, <1>9
<1>11. ASSUME NEW i \in 1..Len(toClient'), NEW j \in 1..Len(toClient'), i < j
       PROVE  toClient'[i].num < toClient'[j].num
  <2>1. i \in Int /\ j \in Int /\ j <= n - d + 1
    BY <1>3, <1>6, <1>7
  <2>2. i < n - d + 1 /\ i + d \in 1..n /\ toClient'[i] = toClient[i + d]
    BY <2>1, <1>3, <1>7, <1>8, <1>11
  <2>3. CASE toClient'[j] = p0
    BY <2>2, <2>3, <1>2, <1>9
  <2>4. CASE j + d \in 1..n /\ toClient'[j] = toClient[j + d]
    <3>1. i + d < j + d
      BY <2>1, <1>7, <1>11
    <3>2. toClient[i + d].num < toClient[j + d].num
      BY <2>2, <2>4, <3>1 DEF Counted, n
    <3> QED BY <2>2, <2>4, <3>2
  <2> QED BY <1>8, <2>3, <2>4
<1> QED BY <1>5, <1>10, <1>11 DEF p0, n

\* The last fragment of the first message in the queue.
LEMMA TransmitKeeps ==
  ASSUME SnInv, SV_Netchan_TransmitNextFragment
  PROVE  SnInv'
<1> DEFINE m == Head(sv.queue)
           p0 == [num |-> sv.out, msg |-> m]
<1>1. SnTyped /\ Counted /\ sv \in ServerStates
  BY DEF SnInv, SnTyped
<1>2. /\ sv.queue \in Seq(ServerMessages) /\ sv.queue # <<>> /\ sv.out \in Nat
      /\ sv.out < MaxOut /\ sv.gsSent \in Nat
  BY <1>1, StateType DEF SV_Netchan_TransmitNextFragment
<1>3. /\ Tail(sv.queue) \in Seq(ServerMessages) /\ Len(sv.queue) > 0 /\ Len(sv.queue) \in Nat
      /\ Len(Tail(sv.queue)) = Len(sv.queue) - 1
      /\ \A k \in 1..(Len(sv.queue) - 1) : Tail(sv.queue)[k] = sv.queue[k + 1]
      /\ m = sv.queue[1] /\ m \in ServerMessages
  BY <1>2, TailOf
<1>4. /\ sv' = [sv EXCEPT !.out = sv.out + 1, !.queue = Tail(sv.queue),
                  !.gsSent = IF m.kind = "gamestate" THEN sv.out ELSE sv.gsSent]
      /\ toClient' = Under(toClient, p0) /\ UNCHANGED <<cl, toServer>>
  BY <1>1 DEF SV_Netchan_TransmitNextFragment, Transmitted, ServerStates
<1> HIDE DEF m
<1>5. /\ sv'.out = sv.out + 1 /\ sv'.queue = Tail(sv.queue)
      /\ sv'.gsSent = IF m.kind = "gamestate" THEN sv.out ELSE sv.gsSent
      /\ sv'.state = sv.state /\ sv'.epoch = sv.epoch /\ sv'.entity = sv.entity
      /\ sv'.gsNum = sv.gsNum /\ sv'.delta = sv.delta /\ sv'.frames = sv.frames
      /\ sv'.ring = sv.ring /\ sv'.next = sv.next
  BY <1>1, <1>4 DEF ServerStates
<1>6. /\ toClient' \in Seq(Packets) /\ Len(toClient') <= MaxInFlight
      /\ \A i \in 1..Len(toClient') :
           toClient'[i] = p0 \/ \E k \in 1..Len(toClient) : toClient'[i] = toClient[k]
      /\ \A i \in 1..Len(toClient') : cl.seq < toClient'[i].num /\ toClient'[i].num < sv.out + 1
      /\ \A i, j \in 1..Len(toClient') : i < j => toClient'[i].num < toClient'[j].num
  BY <1>1, <1>3, <1>4, ToClientSent
<1>7. SnTyped'
  <2>1. sv.out + 1 \in 1..MaxOut
    BY <1>2, Sizes
  <2>2. (IF m.kind = "gamestate" THEN sv.out ELSE sv.gsSent) \in Nat
    BY <1>2
  <2>3. sv' \in ServerStates
    BY <1>1, <1>3, <1>4, <2>1, <2>2 DEF ServerStates
  <2> QED BY <1>1, <1>4, <1>6, <2>3 DEF SnTyped
<1>8. p0 \in Waiting
  <2>1. 1 \in 1..Len(sv.queue) /\ sv.out + 1 - 1 = sv.out
    BY <1>2, <1>3
  <2>2. [num |-> sv.out + 1 - 1, msg |-> sv.queue[1]] \in Waiting
    BY <2>1 DEF Waiting
  <2> QED BY <2>1, <2>2, <1>3
<1>9. \A p \in Waiting' : p \in Waiting /\ p.num > sv.out
  <2> SUFFICES ASSUME NEW j \in 1..Len(sv'.queue)
               PROVE  /\ [num |-> sv'.out + j - 1, msg |-> sv'.queue[j]] \in Waiting
                      /\ [num |-> sv'.out + j - 1, msg |-> sv'.queue[j]].num > sv.out
    BY DEF Waiting
  <2>1. /\ j \in 1..(Len(sv.queue) - 1) /\ j + 1 \in 1..Len(sv.queue) /\ j \in Nat /\ j >= 1
        /\ sv'.queue[j] = sv.queue[j + 1]
    BY <1>3, <1>5
  <2>2. sv'.out + j - 1 = sv.out + (j + 1) - 1 /\ sv'.out + j - 1 > sv.out
    BY <1>2, <1>5, <2>1
  <2>3. [num |-> sv.out + (j + 1) - 1, msg |-> sv.queue[j + 1]] \in Waiting
    BY <2>1 DEF Waiting
  <2> QED BY <2>1, <2>2, <2>3
<1>10. Pending' \subseteq Pending /\ Acks' = Acks
  BY <1>4, <1>6, <1>8, <1>9 DEF Pending, Acks
<1>11. Gamestates' \subseteq Gamestates /\ Snapshots' \subseteq Snapshots
  BY <1>10 DEF Gamestates, Snapshots
<1>12. ServerWorks
  BY <1>2, <1>4, <1>5, <1>10, <1>11 DEF ServerWorks
<1>13. OneGamestate' /\ Answers' /\ BasesHeld' /\ SlotsHold'
  BY <1>7, <1>12, ServerWorksOn
<1>14. Counted'
  <2>1. \A j \in 2..Len(sv'.queue) : sv'.queue[j].kind = "gamestate"
    <3> SUFFICES ASSUME NEW j \in 2..Len(sv'.queue) PROVE sv'.queue[j].kind = "gamestate"
      OBVIOUS
    <3>1. j + 1 \in 2..Len(sv.queue) /\ sv'.queue[j] = sv.queue[j + 1]
      BY <1>3, <1>5
    <3> QED BY <1>1, <3>1 DEF Counted
  <2>2. cl.seq \in Nat /\ sv.delta \in Int /\ sv.gsNum \in Int
    BY <1>1, StateType
  <2>3. cl.seq < sv.out + 1 /\ sv.delta < sv.out + 1 /\ sv.gsNum <= sv.out + 1
    BY <1>1, <1>2, <2>2 DEF Counted
  <2> QED BY <1>1, <1>4, <1>5, <1>6, <2>1, <2>3 DEF Counted
<1>15. LastSent'
  <2>1. CASE m.kind # "gamestate"
    <3>1. (\E j \in 1..Len(sv.queue) : sv.queue[j].kind = "gamestate")
            => \E j \in 1..Len(sv'.queue) : sv'.queue[j].kind = "gamestate"
      <4> SUFFICES ASSUME NEW j \in 1..Len(sv.queue), sv.queue[j].kind = "gamestate"
                   PROVE  \E i \in 1..Len(sv'.queue) : sv'.queue[i].kind = "gamestate"
        OBVIOUS
      <4>1. j # 1
        BY <1>3, <2>1
      <4>2. j - 1 \in 1..(Len(sv.queue) - 1) /\ (j - 1) + 1 = j
        BY <1>3, <4>1
      <4>3. j - 1 \in 1..Len(sv'.queue) /\ sv'.queue[j - 1] = sv.queue[j]
        BY <1>3, <1>5, <4>2
      <4> QED BY <4>3
    <3>2. sv'.gsSent = sv.gsSent
      BY <1>5, <2>1
    <3> QED BY <1>1, <1>7, <1>10, <1>12, <3>1, <3>2, LastSentQuiet DEF SnInv
  <2>2. CASE m.kind = "gamestate"
    <3> SUFFICES ASSUME sv.state = "primed" PROVE LastSent'
      BY <1>5 DEF LastSent
    <3>1. p0 \in Gamestates /\ p0.num = sv.out
      BY <1>8, <2>2 DEF Gamestates, Pending
    <3>2. sv.out \in {sv.gsNum, sv.gsNum + 1} /\ \A p \in Gamestates : p = p0
      BY <3>1 DEF SnInv, OneGamestate
    <3>3. \A p \in Gamestates' : p.msg.epoch = sv.epoch
      BY <1>11 DEF SnInv, LastSent
    <3>4. cl.gs < sv.out /\ cl.seq < sv.out /\ \A a \in Acks : a.ack # sv.out
      <4>1. /\ cl.seq \in Nat /\ cl.gs \in Nat /\ cl.gs <= cl.seq /\ cl.seq < sv.out
            /\ \A a \in Acks : a.ack \in Nat /\ a.ack <= cl.seq
        BY <1>1, StateType, PendingType DEF Counted, SnInv, Answers, Says
      <4> QED BY <1>2, <4>1
    <3>5. ASSUME NEW p \in Pending' PROVE p.num = sv.out <=> IsGamestate(p)
      <4>1. CASE p \in Waiting'
        <5>1. p \in Pending /\ p.num # sv.out
          BY <1>9, <1>10, <1>2, <4>1
        <5>2. ~IsGamestate(p)
          BY <3>1, <3>2, <5>1 DEF Gamestates, IsGamestate
        <5> QED BY <5>1, <5>2
      <4>2. CASE p = p0
        BY <3>1, <4>2 DEF Gamestates, IsGamestate
      <4>3. ASSUME NEW k \in 1..Len(toClient), p = toClient[k]
            PROVE  p.num = sv.out <=> IsGamestate(p)
        <5>1. p \in Pending /\ p.num < sv.out /\ p.num \in Nat
          BY <1>1, <4>3, PendingType DEF Counted, Pending
        <5>2. p.num # sv.out
          BY <1>2, <5>1
        <5>3. ~IsGamestate(p)
          BY <3>1, <3>2, <5>1, <5>2 DEF Gamestates, IsGamestate
        <5> QED BY <5>2, <5>3
      <4> QED BY <1>6, <4>1, <4>2, <4>3 DEF Pending
    <3>6. sv'.gsSent = sv.out /\ sv.out # 0 /\ sv.out < sv.out + 1
      <4>1. sv.out # 0
        BY <1>1, StateType
      <4> QED BY <1>2, <1>5, <2>2, <4>1
    <3>7. /\ cl.gs <= sv.out /\ cl.gs # sv.out /\ cl.seq # sv.out
      BY <1>1, <1>2, <3>4, StateType
    <3> QED BY <1>4, <1>5, <1>10, <3>2, <3>3, <3>4, <3>5, <3>6, <3>7 DEF LastSent, IsGamestate
  <2> QED BY <2>1, <2>2
<1>16. FramesKept'
  <2>1. ASSUME NEW k \in Nat, NEW l, Kept(k, l) PROVE Kept(k, l)'
    <3>1. sv'.out >= sv.out
      BY <1>2, <1>5
    <3> QED BY <1>1, <1>5, <1>7, <2>1, <3>1, KeptSame
  <2>2. \A p \in Snapshots : p.num \in Nat
    BY <1>1, PendingType, Kinds
  <2>3. \A i \in 0..(PacketBackup - 1) : cl.slots[i].num \in Nat
    BY <1>1, StateType DEF ClientSlots
  <2>4. \A p : Current(p)' => Current(p)
    BY <1>4, <1>5, <1>11, CurrentQuiet
  <2> QED BY <1>4, <1>5, <1>11, <2>1, <2>2, <2>3, <2>4 DEF FramesKept, SnInv
<1>17. Decodable'
  BY <1>4, <1>11, DecodesQuiet DEF Decodable, SnInv
<1> QED BY <1>7, <1>13, <1>14, <1>15, <1>16, <1>17 DEF SnInv

LEMMA NothingWritten ==
  ASSUME NEW d \in Nat, d > 0, NEW first \in Nat, NEW ring \in [0..(d - 1) -> Entities]
  PROVE  Written(ring, d, first, <<>>) = ring
<1>1. ASSUME NEW i \in 0..(d - 1) PROVE ~(((i - first) % d) + 1 <= Len(<<>>))
  <2> DEFINE y == (i - first) % d
  <2>1. y \in 0..(d - 1) /\ Len(<<>>) = 0
    OBVIOUS
  <2> HIDE DEF y
  <2>2. ~(y + 1 <= Len(<<>>))
    BY <2>1
  <2> QED BY <2>2 DEF y
<1>2. Written(ring, d, first, <<>>) = [i \in 0..(d - 1) |-> ring[i]]
  BY <1>1 DEF Written
<1> QED BY <1>2

LEMMA BaselineType == \A e \in Nat : Baseline(e) \in Int
BY DEF Baseline

\* What SV_BuildClientSnapshot leaves: the frame of this message, and the ring.
LEMMA BuiltState ==
  ASSUME SnTyped, NEW list \in EntityLists, ~sv.entity => list = <<>>
  PROVE  /\ Built(sv, list) \in ServerStates
         /\ Built(sv, list).out = sv.out /\ Built(sv, list).delta = sv.delta
         /\ Built(sv, list).gsNum = sv.gsNum /\ Built(sv, list).state = sv.state
         /\ Built(sv, list).entity = sv.entity /\ Built(sv, list).epoch = sv.epoch
         /\ Built(sv, list).queue = sv.queue /\ Built(sv, list).gsSent = sv.gsSent
         /\ Built(sv, list).next = sv.next + Len(list)
         /\ Built(sv, list).ring = Written(sv.ring, ServerRing, sv.next, list)
         /\ \A i \in 0..(PacketBackup - 1) : i # sv.out % PacketBackup =>
              Built(sv, list).frames[i] = sv.frames[i]
         /\ Built(sv, list).frames[sv.out % PacketBackup].n = Len(list)
         /\ sv.entity => Built(sv, list).frames[sv.out % PacketBackup].first = sv.next
<1> DEFINE i0 == sv.out % PacketBackup
           s == Built(sv, list)
<1>1. /\ sv \in ServerStates /\ sv.out \in Nat /\ sv.next \in Nat
      /\ sv.frames \in [0..(PacketBackup - 1) -> ServerFrames]
      /\ sv.ring \in [0..(ServerRing - 1) -> Entities] /\ sv.entity \in BOOLEAN
  BY StateType DEF SnTyped
<1>2. i0 \in 0..(PacketBackup - 1)
  BY <1>1, SlotType
<1>3. list \in Seq(Entities) /\ Len(list) \in 0..MaxEntities /\ Len(list) \in Nat
  BY ListSent, Sizes
<1>4. ServerRing \in Nat /\ ServerRing > 0
  BY Sizes
<1>5. Written(sv.ring, ServerRing, sv.next, list) \in [0..(ServerRing - 1) -> Entities]
  BY <1>1, <1>3, <1>4, WrittenType
<1> HIDE DEF i0
<1>6. CASE sv.entity
  <2> DEFINE f == [first |-> sv.next, n |-> Len(list)]
  <2>1. s = [sv EXCEPT !.frames = [sv.frames EXCEPT ![i0] = f],
                       !.ring = Written(sv.ring, ServerRing, sv.next, list),
                       !.next = sv.next + Len(list)]
    BY <1>1, <1>6 DEF Built, ServerStates, i0
  <2>2. f \in ServerFrames /\ sv.next + Len(list) \in Nat
    BY <1>1, <1>3 DEF ServerFrames
  <2>3. [sv.frames EXCEPT ![i0] = f] \in [0..(PacketBackup - 1) -> ServerFrames]
    BY <1>1, <1>2, <2>2
  <2>4. f.n = Len(list) /\ f.first = sv.next
    OBVIOUS
  <2> HIDE DEF s, f
  <2>5. s \in ServerStates
    BY <1>1, <1>5, <2>1, <2>2, <2>3 DEF ServerStates
  <2>6. /\ s.out = sv.out /\ s.delta = sv.delta /\ s.gsNum = sv.gsNum /\ s.state = sv.state
        /\ s.entity = sv.entity /\ s.epoch = sv.epoch /\ s.queue = sv.queue
        /\ s.gsSent = sv.gsSent /\ s.next = sv.next + Len(list)
        /\ s.ring = Written(sv.ring, ServerRing, sv.next, list)
        /\ s.frames = [sv.frames EXCEPT ![i0] = f]
    BY <1>1, <2>1 DEF ServerStates
  <2>7. s.frames[i0] = f /\ \A i \in 0..(PacketBackup - 1) : i # i0 => s.frames[i] = sv.frames[i]
    BY <1>1, <1>2, <2>6
  <2> QED BY <2>4, <2>5, <2>6, <2>7 DEF s, i0
<1>7. CASE ~sv.entity
  <2> DEFINE f == [sv.frames[i0] EXCEPT !.n = 0]
  <2>1. s = [sv EXCEPT !.frames = [sv.frames EXCEPT ![i0] = f]]
    BY <1>1, <1>2, <1>7 DEF Built, ServerStates, i0
  <2>2. sv.frames[i0] \in ServerFrames
    BY <1>1, <1>2
  <2>3. f \in ServerFrames /\ f.n = 0
    BY <2>2, Sizes, SMTT(30) DEF ServerFrames
  <2>4. [sv.frames EXCEPT ![i0] = f] \in [0..(PacketBackup - 1) -> ServerFrames]
    BY <1>1, <1>2, <2>3
  <2> HIDE DEF s, f
  <2>5. s \in ServerStates
    BY <1>1, <2>1, <2>4 DEF ServerStates
  <2>6. /\ s.out = sv.out /\ s.delta = sv.delta /\ s.gsNum = sv.gsNum /\ s.state = sv.state
        /\ s.entity = sv.entity /\ s.epoch = sv.epoch /\ s.queue = sv.queue
        /\ s.gsSent = sv.gsSent /\ s.next = sv.next /\ s.ring = sv.ring
        /\ s.frames = [sv.frames EXCEPT ![i0] = f]
    BY <1>1, <2>1 DEF ServerStates
  <2>7. s.frames[i0] = f /\ \A i \in 0..(PacketBackup - 1) : i # i0 => s.frames[i] = sv.frames[i]
    BY <1>1, <1>2, <2>6
  <2>8. list = <<>> /\ Len(list) = 0 /\ sv.next + Len(list) = sv.next
    BY <1>1, <1>7
  <2>9. Written(sv.ring, ServerRing, sv.next, list) = sv.ring
    BY <1>1, <1>4, <2>8, NothingWritten
  <2> QED BY <1>7, <2>3, <2>5, <2>6, <2>7, <2>8, <2>9 DEF s, i0
<1> QED BY <1>1, <1>6, <1>7

\* The base of a delta is what the client holds.
LEMMA BaseRead ==
  ASSUME SnInv, NEW list \in EntityLists, ~sv.entity => list = <<>>, CanDelta(Built(sv, list))
  PROVE  /\ sv.delta \in 1..cl.snap /\ sv.delta < sv.out
         /\ sv.out - sv.delta < PacketBackup - Margin
         /\ Held(sv.delta) /\ SlotOf(sv.delta).is \in EntityLists
         /\ cl.state = "primed" /\ cl.epoch = sv.epoch /\ Gamestates = {}
         /\ LET s == Built(sv, list)
                f == s.frames[sv.delta % PacketBackup]
            IN Read(s.ring, ServerRing, f.first, f.n) = SlotOf(sv.delta).is
<1> DEFINE s == Built(sv, list)
           k == sv.delta
<1>1. SnTyped
  BY DEF SnInv
<1>2. /\ s.out = sv.out /\ s.delta = sv.delta /\ s.state = sv.state
      /\ s.next = sv.next + Len(list) /\ s.ring = Written(sv.ring, ServerRing, sv.next, list)
      /\ \A i \in 0..(PacketBackup - 1) : i # sv.out % PacketBackup => s.frames[i] = sv.frames[i]
  BY <1>1, BuiltState
<1>3. CanDelta(s)
  OBVIOUS
<1> HIDE DEF s
<1>4. /\ k > 0 /\ sv.state = "active" /\ sv.out - k < PacketBackup - Margin
      /\ s.frames[k % PacketBackup].first > s.next - ServerRing
  BY <1>2, <1>3 DEF CanDelta
<1>5. Usable(k) /\ Joined
  BY <1>4 DEF SnInv, BasesHeld, OneGamestate
<1>6. k \in 1..cl.snap /\ Held(k)
  BY <1>4, <1>5 DEF Usable
<1>7. cl.state = "primed" /\ cl.epoch = sv.epoch
  BY <1>5 DEF Joined
<1>8. Gamestates = {}
  <2>1. \A p \in Gamestates : p.msg.epoch <= sv.epoch /\ cl.epoch < p.msg.epoch
    BY <1>7 DEF SnInv, OneGamestate
  <2>2. \A p \in Gamestates : p.msg.epoch \in Nat
    BY <1>1, PendingType
  <2>3. cl.epoch \in Nat /\ sv.epoch \in Nat
    BY <1>1, StateType
  <2> QED BY <1>7, <2>1, <2>2, <2>3
<1>9. /\ sv.out \in Nat /\ sv.next \in Nat /\ cl.snap \in Nat /\ cl.seq \in Nat /\ k \in Nat
      /\ cl.slots \in [0..(PacketBackup - 1) -> ClientSlots]
  BY <1>1, <1>6, StateType
<1>10. k < sv.out
  <2>1. cl.snap <= cl.seq /\ cl.seq < sv.out
    BY DEF SnInv, Counted
  <2> HIDE DEF k
  <2> QED BY <1>6, <1>9, <2>1
<1>11. k % PacketBackup \in 0..(PacketBackup - 1)
  BY <1>9, SlotType
<1>12. SlotOf(k) \in ClientSlots /\ SlotOf(k).is \in EntityLists
  BY <1>9, <1>11 DEF SlotOf, ClientSlots
<1>13. sv.out - k < PacketBackup
  <2> HIDE DEF k
  <2> QED BY <1>4, <1>9, Sizes
<1>14. k % PacketBackup # sv.out % PacketBackup
  <2> HIDE DEF k
  <2>1. k % PacketBackup = sv.out % PacketBackup => k + PacketBackup <= sv.out
    BY <1>9, <1>10, OwnSlot
  <2>2. ~(k + PacketBackup <= sv.out)
    BY <1>9, <1>13, Sizes
  <2> QED BY <2>1, <2>2
<1>15. s.frames[k % PacketBackup] = sv.frames[k % PacketBackup]
  BY <1>2, <1>11, <1>14
<1>16. Kept(k, SlotOf(k).is)
  <2>1. cl.slots[k % PacketBackup].valid => Kept(cl.slots[k % PacketBackup].num, cl.slots[k % PacketBackup].is)
    BY <1>7, <1>11 DEF SnInv, FramesKept
  <2> QED BY <1>6, <2>1 DEF Held, SlotOf
<1>17. list \in Seq(Entities)
  BY ListSent
<1>18. Read(s.ring, ServerRing, s.frames[k % PacketBackup].first, s.frames[k % PacketBackup].n)
         = SlotOf(k).is
  <2> DEFINE l == SlotOf(k).is
  <2> HIDE DEF k, l
  <2>1. k \in Nat /\ Kept(k, l) /\ sv.out - k < PacketBackup
    BY <1>9, <1>13, <1>16 DEF l
  <2>2. sv.frames[k % PacketBackup].first > sv.next + Len(list) - ServerRing
    <3> DEFINE i == k % PacketBackup
    <3> HIDE DEF i
    <3>1. s.next - ServerRing = sv.next + Len(list) - ServerRing
      <4>1. Len(list) \in Nat /\ ServerRing \in Nat
        BY <1>17, Sizes
      <4> QED BY <1>2, <1>9, <4>1
    <3>2. s.frames[i].first > s.next - ServerRing /\ s.frames[i] = sv.frames[i]
      BY <1>4, <1>15 DEF i
    <3> QED BY <3>1, <3>2 DEF i
  <2>3. Read(Written(sv.ring, ServerRing, sv.next, list), ServerRing,
             sv.frames[k % PacketBackup].first, sv.frames[k % PacketBackup].n) = l
    BY <1>1, <1>17, <2>1, <2>2, KeptRead
  <2> QED BY <1>2, <1>15, <2>3 DEF l
<1> QED BY <1>4, <1>6, <1>7, <1>8, <1>10, <1>12, <1>18 DEF s

\* A snapshot is decoded to what it was built from.
LEMMA SnapshotBuilt ==
  ASSUME SnInv, NEW list \in EntityLists, ~sv.entity => list = <<>>
  PROVE  LET m == SnapshotMessage(Built(sv, list), list)
             p == [num |-> sv.out, msg |-> m]
         IN m \in SnapshotMessages /\ m.is = list /\ Decodes(p)
<1> DEFINE s == Built(sv, list)
           m == SnapshotMessage(s, list)
           p == [num |-> sv.out, msg |-> m]
           from == IF CanDelta(s)
                   THEN Read(s.ring, ServerRing, s.frames[s.delta % PacketBackup].first,
                             s.frames[s.delta % PacketBackup].n)
                   ELSE <<>>
<1>1. SnTyped /\ sv.out \in Nat /\ sv.epoch \in 1..MaxEpoch /\ sv.epoch \in Nat
  BY StateType DEF SnInv
<1>2. s.out = sv.out /\ s.delta = sv.delta /\ s.epoch = sv.epoch
  BY <1>1, BuiltState
<1>3. m = [kind |-> "snapshot", delta |-> IF CanDelta(s) THEN s.out - s.delta ELSE 0,
           ents |-> Encoded(AsMap(from), AsMap(list), Baseline(s.epoch)), is |-> list]
  BY DEF SnapshotMessage
<1>4. CASE CanDelta(s)
  <2> DEFINE k == sv.delta
             l == SlotOf(k).is
  <2>1. /\ k \in 1..cl.snap /\ k < sv.out /\ sv.out - k < PacketBackup - Margin
        /\ Held(k) /\ l \in EntityLists
        /\ cl.state = "primed" /\ cl.epoch = sv.epoch /\ Gamestates = {}
    BY <1>4, BaseRead
  <2>2. from = l
    <3>1. Read(s.ring, ServerRing, s.frames[sv.delta % PacketBackup].first,
               s.frames[sv.delta % PacketBackup].n) = SlotOf(sv.delta).is
      BY <1>4, BaseRead
    <3> QED BY <1>2, <1>4, <3>1
  <2>3. k \in Nat /\ k > 0 /\ k <= cl.snap
    <3>1. cl.snap \in Nat
      BY <1>1, StateType
    <3> HIDE DEF k
    <3> QED BY <2>1, <3>1
  <2> HIDE DEF s, from, k, l
  <2>4. m = [kind |-> "snapshot", delta |-> sv.out - k,
             ents |-> Encoded(AsMap(l), AsMap(list), Baseline(sv.epoch)), is |-> list]
    BY <1>2, <1>3, <1>4, <2>2 DEF k
  <2>5. sv.out - k \in Nat /\ sv.out - k # 0 /\ sv.out - (sv.out - k) = k
    BY <1>1, <2>1, <2>3
  <2> DEFINE d == sv.out - k
             E == Encoded(AsMap(l), AsMap(list), Baseline(sv.epoch))
  <2>6. E \in Maps
    BY <1>1, <2>1, ListSent, EncodedType, BaselineType
  <2> HIDE DEF d, E, m
  <2>7. m = [kind |-> "snapshot", delta |-> d, ents |-> E, is |-> list] /\ d \in Nat /\ d # 0
    BY <2>4, <2>5 DEF d, E
  <2>8. m \in SnapshotMessages /\ m.is = list /\ m.delta = d /\ m.ents = E
    BY <2>6, <2>7 DEF SnapshotMessages
  <2>9. p.num = sv.out /\ p.msg = m
    OBVIOUS
  <2> HIDE DEF p
  <2>10. p.num - p.msg.delta = k /\ p.msg.delta < PacketBackup - Margin
    BY <2>1, <2>5, <2>8, <2>9 DEF d
  <2>11. p.msg.ents = Encoded(AsMap(SlotOf(k).is), AsMap(p.msg.is), Baseline(cl.epoch))
    BY <2>1, <2>8, <2>9 DEF E, l
  <2>12. FromBase(p)
    BY <2>1, <2>3, <2>10, <2>11 DEF FromBase
  <2>13. Decodes(p)
    BY <2>7, <2>8, <2>9, <2>12 DEF Decodes
  <2> QED BY <2>8, <2>13 DEF m, p, s
<1>5. CASE ~CanDelta(s)
  <2>1. from = <<>>
    BY <1>5
  <2> HIDE DEF s, from
  <2> DEFINE E == Encoded(AsMap(<<>>), AsMap(list), Baseline(sv.epoch))
  <2>2. m = [kind |-> "snapshot", delta |-> 0, ents |-> E, is |-> list]
    BY <1>2, <1>3, <1>5, <2>1
  <2>3. E \in Maps
    BY <1>1, EmptyList, ListSent, EncodedType, BaselineType
  <2> HIDE DEF E, m
  <2>4. m \in SnapshotMessages /\ m.is = list /\ m.delta = 0 /\ m.ents = E
    BY <2>2, <2>3 DEF SnapshotMessages
  <2>5. p.msg = m
    OBVIOUS
  <2> HIDE DEF p
  <2>6. list # <<>> => OfMap(p, sv.epoch)
    BY DEF SnInv, OneGamestate, OfMap
  <2>7. sv.epoch \in 0..MaxEpoch
    BY <1>1, Sizes
  <2>8. FromNothing(p)
    BY <2>4, <2>5, <2>6, <2>7 DEF FromNothing, E
  <2>9. Decodes(p)
    BY <2>4, <2>5, <2>8 DEF Decodes
  <2> QED BY <2>4, <2>9 DEF m, p, s
<1> QED BY <1>4, <1>5

\* A snapshot leaves, or waits alone in the queue.
LEMMA SendKeeps ==
  ASSUME SnInv, NEW view \in Views, NEW big \in BOOLEAN, SV_SendClientSnapshot(view, big)
  PROVE  SnInv'
<1> DEFINE list == Visible(sv, view)
           s == Built(sv, list)
           m == SnapshotMessage(s, list)
           p0 == [num |-> sv.out, msg |-> m]
<1>1. SnTyped /\ Counted /\ sv \in ServerStates /\ sv.out \in Nat
  BY StateType DEF SnInv, SnTyped
<1>2. list \in EntityLists /\ (~sv.entity => list = <<>>)
  BY DEF Visible, EntityLists
<1>3. sv.queue = <<>> /\ sv.out < MaxOut /\ UNCHANGED <<cl, toServer>>
  BY DEF SV_SendClientSnapshot, MaySend
<1>4. \/ sv' = Queued(s, m) /\ UNCHANGED toClient
      \/ sv' = Transmitted(s, m) /\ toClient' = Under(toClient, [num |-> s.out, msg |-> m])
  BY DEF SV_SendClientSnapshot
<1> HIDE DEF list
<1>5. /\ s \in ServerStates
      /\ s.out = sv.out /\ s.delta = sv.delta /\ s.gsNum = sv.gsNum /\ s.state = sv.state
      /\ s.entity = sv.entity /\ s.epoch = sv.epoch /\ s.queue = sv.queue
      /\ s.gsSent = sv.gsSent /\ s.next = sv.next + Len(list)
      /\ s.ring = Written(sv.ring, ServerRing, sv.next, list)
      /\ \A i \in 0..(PacketBackup - 1) : i # sv.out % PacketBackup => s.frames[i] = sv.frames[i]
      /\ s.frames[sv.out % PacketBackup].n = Len(list)
      /\ sv.entity => s.frames[sv.out % PacketBackup].first = sv.next
  BY <1>1, <1>2, BuiltState
<1>6. m \in SnapshotMessages /\ m.is = list /\ Decodes(p0)
  BY <1>2, SnapshotBuilt
<1>7. m \in ServerMessages /\ m.kind = "snapshot"
  BY <1>6 DEF ServerMessages, SnapshotMessages
<1> HIDE DEF s, m
<1>8. /\ s.frames \in [0..(PacketBackup - 1) -> ServerFrames] /\ s.gsSent \in Nat
  BY <1>5 DEF ServerStates
\* The two ways it goes.
<1>9. /\ SnTyped'
      /\ sv'.delta = sv.delta /\ sv'.gsNum = sv.gsNum /\ sv'.state = sv.state
      /\ sv'.entity = sv.entity /\ sv'.epoch = sv.epoch /\ sv'.gsSent = sv.gsSent
      /\ sv'.next = s.next /\ sv'.ring = s.ring /\ sv'.frames = s.frames
      /\ sv'.out >= sv.out
      /\ Pending' \subseteq Pending \union {p0}
      /\ Counted'
  <2>1. CASE sv' = Queued(s, m) /\ UNCHANGED toClient
    <3>1. sv' = [s EXCEPT !.queue = <<m>>]
      BY <1>3, <1>5, <2>1 DEF Queued, ServerStates
    <3>2. <<m>> \in Seq(ServerMessages) /\ Len(<<m>>) = 1 /\ <<m>>[1] = m
      BY <1>7
    <3>3. sv' \in ServerStates
      BY <1>5, <3>1, <3>2 DEF ServerStates
    <3>4. /\ sv'.delta = s.delta /\ sv'.gsNum = s.gsNum /\ sv'.state = s.state
          /\ sv'.entity = s.entity /\ sv'.epoch = s.epoch /\ sv'.gsSent = s.gsSent
          /\ sv'.next = s.next /\ sv'.ring = s.ring /\ sv'.frames = s.frames
          /\ sv'.out = s.out /\ sv'.queue = <<m>>
      BY <1>5, <3>1 DEF ServerStates
    <3>5. SnTyped'
      BY <1>1, <1>3, <2>1, <3>3 DEF SnTyped
    <3>6. Waiting' = {p0}
      <4>1. ASSUME NEW j \in 1..Len(sv'.queue)
            PROVE  [num |-> sv'.out + j - 1, msg |-> sv'.queue[j]] = p0
        <5>1. j = 1
          BY <3>2, <3>4
        <5>2. sv'.out + 1 - 1 = sv.out
          BY <1>1, <1>5, <3>4
        <5> QED BY <3>2, <3>4, <5>1, <5>2
      <4>2. 1 \in 1..Len(sv'.queue)
        BY <3>2, <3>4
      <4> QED BY <4>1, <4>2 DEF Waiting
    <3>7. Pending' \subseteq Pending \union {p0}
      BY <2>1, <3>6 DEF Pending
    <3>8. Counted'
      <4>1. \A j \in 2..Len(sv'.queue) : sv'.queue[j].kind = "gamestate"
        BY <3>2, <3>4
      <4> QED BY <1>1, <1>3, <1>5, <2>1, <3>4, <4>1 DEF Counted
    <3>9. sv'.out >= sv.out
      BY <1>1, <1>5, <3>4
    <3> QED BY <1>5, <3>4, <3>5, <3>7, <3>8, <3>9
  <2>2. CASE sv' = Transmitted(s, m) /\ toClient' = Under(toClient, [num |-> s.out, msg |-> m])
    <3>1. sv' = [s EXCEPT !.out = sv.out + 1]
      BY <1>5, <1>7, <2>2 DEF Transmitted, ServerStates
    <3>2. sv.out + 1 \in 1..MaxOut
      BY <1>1, <1>3, Sizes
    <3>3. sv' \in ServerStates
      BY <1>5, <3>1, <3>2 DEF ServerStates
    <3>4. /\ sv'.delta = s.delta /\ sv'.gsNum = s.gsNum /\ sv'.state = s.state
          /\ sv'.entity = s.entity /\ sv'.epoch = s.epoch /\ sv'.gsSent = s.gsSent
          /\ sv'.next = s.next /\ sv'.ring = s.ring /\ sv'.frames = s.frames
          /\ sv'.out = sv.out + 1 /\ sv'.queue = <<>>
      BY <1>3, <1>5, <3>1 DEF ServerStates
    <3>5. /\ toClient' \in Seq(Packets) /\ Len(toClient') <= MaxInFlight
          /\ \A i \in 1..Len(toClient') :
               toClient'[i] = p0 \/ \E k \in 1..Len(toClient) : toClient'[i] = toClient[k]
          /\ \A i \in 1..Len(toClient') : cl.seq < toClient'[i].num /\ toClient'[i].num < sv.out + 1
          /\ \A i, j \in 1..Len(toClient') : i < j => toClient'[i].num < toClient'[j].num
      BY <1>1, <1>5, <1>7, <2>2, ToClientSent
    <3>6. SnTyped'
      BY <1>1, <1>3, <3>3, <3>5 DEF SnTyped
    <3>7. Waiting' = {}
      BY <3>4 DEF Waiting
    <3>8. Pending' \subseteq Pending \union {p0}
      BY <3>5, <3>7 DEF Pending
    <3>9. Counted'
      <4>1. cl.seq \in Nat /\ sv.delta \in Int /\ sv.gsNum \in Int
        BY <1>1, StateType
      <4>2. cl.seq < sv.out + 1 /\ sv.delta < sv.out + 1 /\ sv.gsNum <= sv.out + 1
        BY <1>1, <4>1 DEF Counted
      <4>3. \A j \in 2..Len(sv'.queue) : sv'.queue[j].kind = "gamestate"
        BY <3>4
      <4> QED BY <1>1, <1>3, <1>5, <3>4, <3>5, <4>2, <4>3 DEF Counted
    <3>10. sv'.out >= sv.out
      BY <1>1, <3>4
    <3> QED BY <1>5, <3>4, <3>6, <3>8, <3>9, <3>10
  <2> QED BY <1>4, <2>1, <2>2
<1>10. p0.num = sv.out /\ p0.msg = m /\ ~IsGamestate(p0)
  BY <1>7 DEF IsGamestate
<1> HIDE DEF p0
<1>11. /\ Gamestates' \subseteq Gamestates /\ Snapshots' \subseteq Snapshots \union {p0}
       /\ Acks' = Acks
  BY <1>3, <1>7, <1>9, <1>10 DEF Gamestates, Snapshots, Acks
<1>12. ServerWorks
  BY <1>3, <1>9, <1>11 DEF ServerWorks
<1>13. OneGamestate' /\ Answers' /\ BasesHeld' /\ SlotsHold'
  BY <1>9, <1>12, ServerWorksOn
<1>14. LastSent'
  <2>1. \A p \in Pending' : p \in Pending \/ (~IsGamestate(p) /\ p.num >= sv.out)
    BY <1>1, <1>9, <1>10
  <2>2. ~\E j \in 1..Len(sv.queue) : sv.queue[j].kind = "gamestate"
    BY <1>3
  <2> QED BY <1>1, <1>9, <1>12, <2>1, <2>2, LastSentQuiet DEF SnInv
<1>15. list \in Seq(Entities) /\ Len(list) \in 0..MaxEntities /\ Len(list) \in Nat
       /\ Len(list) <= ServerRing
  <2>1. list \in Seq(Entities) /\ Len(list) \in 0..MaxEntities
    BY <1>2, ListSent
  <2> QED BY <2>1, Sizes
<1>16. ASSUME NEW k, NEW l, k = sv.out, l = list PROVE Kept(k, l)'
  <2> DEFINE f == s.frames[sv.out % PacketBackup]
  <2>1. f.n = Len(list) /\ (sv.entity => f.first = sv.next)
    BY <1>5
  <2>2. f \in ServerFrames
    BY <1>1, <1>8, SlotType
  <2> HIDE DEF f
  <2>3. f.first \in Nat /\ sv.next \in Nat
    BY <1>1, <2>2, StateType DEF ServerFrames
  <2>4. f.n > 0 => f.first + f.n <= sv.next + Len(list)
    BY <1>2, <1>15, <2>1, <2>3
  <2>5. Read(s.ring, ServerRing, f.first, f.n) = list
    <3>1. CASE list = <<>>
      <4>1. f.n = 0
        BY <2>1, <3>1
      <4> QED BY <3>1, <4>1 DEF Read
    <3>2. CASE list # <<>>
      <4>1. f.first = sv.next
        <5>1. sv.entity
          BY <1>2, <3>2
        <5> QED BY <2>1, <5>1
      <4>2. ServerRing \in Nat /\ ServerRing > 0
        BY Sizes
      <4>3. Read(Written(sv.ring, ServerRing, sv.next, list), ServerRing, sv.next, Len(list))
              = [i \in 1..Len(list) |-> list[i]]
        BY <1>15, <2>3, <4>2, ReadWritten
      <4>4. [i \in 1..Len(list) |-> list[i]] = list
        BY <1>15
      <4> QED BY <1>5, <2>1, <4>1, <4>3, <4>4
    <3> QED BY <3>1, <3>2
  <2>6. sv'.frames[sv.out % PacketBackup] = f
    BY <1>9 DEF f
  <2>7. sv'.next = sv.next + Len(list) /\ sv'.ring = s.ring
    BY <1>5, <1>9
  <2> QED BY <1>16, <2>4, <2>5, <2>6, <2>7 DEF Kept
<1>17. ASSUME NEW k \in Nat, NEW l, k < sv.out, Kept(k, l) PROVE Kept(k, l)'
  <2>1. k % PacketBackup \in 0..(PacketBackup - 1)
    BY <1>17, SlotType
  <2>2. CASE k % PacketBackup # sv.out % PacketBackup
    <3>1. sv'.frames[k % PacketBackup] = sv.frames[k % PacketBackup]
      BY <1>5, <1>9, <2>1, <2>2
    <3>2. sv'.ring = Written(sv.ring, ServerRing, sv.next, list) /\ sv'.next = sv.next + Len(list)
      BY <1>5, <1>9
    <3> QED BY <1>1, <1>9, <1>15, <1>17, <3>1, <3>2, KeptWritten
  <2>3. CASE k % PacketBackup = sv.out % PacketBackup
    <3>1. k + PacketBackup <= sv.out
      BY <1>1, <1>17, <2>3, OwnSlot
    <3>2. sv'.out \in Nat
      BY <1>9, NextType
    <3>3. ~(sv'.out - k < PacketBackup)
      BY <1>1, <1>9, <3>1, <3>2, Sizes
    <3> QED BY <3>3 DEF Kept
  <2> QED BY <2>2, <2>3
<1>18. FramesKept'
  <2>1. ASSUME NEW p \in Snapshots', Current(p)' PROVE Kept(p.num, p.msg.is)'
    <3>1. CASE p = p0
      <4>1. p.num = sv.out /\ p.msg.is = list
        BY <1>6, <1>10, <3>1
      <4> QED BY <1>16, <4>1
    <3>2. CASE p \in Snapshots
      <4>1. Current(p)
        BY <1>3, <1>9, <1>11, <2>1, CurrentQuiet
      <4>2. Kept(p.num, p.msg.is)
        BY <3>2, <4>1 DEF SnInv, FramesKept
      <4>3. p.num \in Nat /\ p.num < sv.out
        <5>1. Waiting = {}
          BY <1>3 DEF Waiting
        <5>2. p \in Pending /\ p.num \in Nat
          BY <1>1, <3>2, PendingType, Kinds
        <5> QED BY <1>1, <5>1, <5>2 DEF Pending, Counted
      <4> QED BY <1>17, <4>2, <4>3
    <3> QED BY <1>11, <3>1, <3>2
  <2>2. ASSUME cl.epoch = sv.epoch, NEW i \in 0..(PacketBackup - 1), cl.slots[i].valid,
               NEW k, NEW l, k = cl.slots[i].num, l = cl.slots[i].is
        PROVE  Kept(k, l)'
    <3>1. Kept(k, l)
      BY <2>2 DEF SnInv, FramesKept
    <3>2. k \in 1..cl.snap /\ cl.snap \in Nat /\ cl.seq \in Nat
          /\ cl.snap <= cl.seq /\ cl.seq < sv.out
      BY <1>1, <2>2, StateType DEF SnInv, SlotsHold, SlotHolds, Counted
    <3>3. k \in Nat /\ k < sv.out
      BY <1>1, <3>2
    <3> QED BY <1>17, <3>1, <3>3
  <2>3. cl' = cl /\ sv'.epoch = sv.epoch
    BY <1>3, <1>9
  <2> QED BY <2>1, <2>2, <2>3 DEF FramesKept
<1>19. Decodable'
  <2> SUFFICES ASSUME NEW p \in Snapshots' PROVE Decodes(p)'
    BY DEF Decodable
  <2>1. Decodes(p)
    BY <1>6, <1>11 DEF SnInv, Decodable, p0
  <2> QED BY <1>3, <1>11, <2>1, DecodesQuiet
<1> QED BY <1>9, <1>13, <1>14, <1>18, <1>19 DEF SnInv

-----------------------------------------------------------------------------
(* The server executes a message.                                            *)

\* The server hears of a move: the base of the next delta, or the client enters.
LEMMA MovedKeeps ==
  ASSUME SnInv, NEW d \in Int, NEW t \in {"connected", "primed", "active"}, NEW e \in BOOLEAN,
         sv' = [sv EXCEPT !.delta = d, !.state = t, !.entity = e],
         UNCHANGED <<cl, toClient>>, toServer' \in Seq(ClientMessages),
         Len(toServer') <= MaxInFlight, Acks' \subseteq Acks,
         d < sv.out, (t = "active" /\ d > 0) => Usable(d),
         \/ t = sv.state /\ e = sv.entity
         \/ t = "active" /\ Joined /\ Gamestates = {}
  PROVE  SnInv'
<1>1. SnTyped /\ sv \in ServerStates
  BY DEF SnInv, SnTyped
<1>2. /\ sv'.out = sv.out /\ sv'.delta = d /\ sv'.gsNum = sv.gsNum /\ sv'.state = t
      /\ sv'.entity = e /\ sv'.epoch = sv.epoch /\ sv'.frames = sv.frames
      /\ sv'.next = sv.next /\ sv'.ring = sv.ring /\ sv'.queue = sv.queue
      /\ sv'.gsSent = sv.gsSent
  BY <1>1 DEF ServerStates
<1>3. SnTyped'
  <2>1. sv' \in ServerStates
    BY <1>1 DEF ServerStates
  <2> QED BY <1>1, <2>1 DEF SnTyped
<1>4. Pending' = Pending /\ Gamestates' = Gamestates /\ Snapshots' = Snapshots
  BY <1>2 DEF Pending, Waiting, Gamestates, Snapshots
<1>5. Counted'
  BY <1>2 DEF SnInv, Counted
<1>6. OneGamestate'
  <2>1. CASE t = sv.state /\ e = sv.entity
    BY <1>2, <1>4, <2>1, GamestateQuiet DEF SnInv
  <2>2. CASE t = "active" /\ Joined /\ Gamestates = {}
    BY <1>2, <1>4, <2>2 DEF SnInv, OneGamestate, Joined
  <2> QED BY <2>1, <2>2
<1>7. Answers'
  <2>1. cl'.seq >= cl.seq
    BY <1>1, StateType
  <2> QED BY <1>1, <1>3, <2>1, AnswersQuiet DEF SnInv
<1>8. LastSent'
  <2>1. CASE t = sv.state /\ e = sv.entity
    BY <1>2, <1>4, <2>1 DEF SnInv, LastSent, IsGamestate
  <2>2. CASE t = "active"
    BY <1>2, <2>2 DEF LastSent
  <2> QED BY <2>1, <2>2
<1>9. FramesKept'
  <2>1. \A p : Current(p)' => Current(p)
    BY <1>2, <1>4, CurrentQuiet
  <2>2. \A k, l : Kept(k, l) => Kept(k, l)'
    BY <1>2 DEF Kept
  <2> QED BY <1>2, <1>4, <2>1, <2>2 DEF FramesKept, SnInv
<1>10. Decodable'
  BY <1>4, DecodesQuiet DEF Decodable, SnInv
<1>11. BasesHeld'
  <2>1. \A k : Usable(k)' <=> Usable(k)
    BY <1>2 DEF Usable, Held, SlotOf
  <2>2. \A m \in Acks' : m.move = "delta" /\ m.epoch = cl.epoch => Usable(m.ack)
    BY DEF SnInv, BasesHeld
  <2> QED BY <1>2, <2>1, <2>2 DEF BasesHeld
<1>12. SlotsHold'
  BY DEF SnInv, SlotsHold, SlotHolds, Held, SlotOf
<1> QED BY <1>3, <1>5, <1>6, <1>7, <1>8, <1>9, <1>10, <1>11, <1>12 DEF SnInv

\* A gamestate is sent only when none is under way and the client plays on no map
\* of the server's: it waits behind one message at most.
LEMMA GamestateQueued ==
  ASSUME SnInv, Gamestates = {}, ~Joined, sv.state # "active", sv' = Gamestate(sv),
         UNCHANGED <<cl, toClient>>, toServer' \in Seq(ClientMessages),
         Len(toServer') <= MaxInFlight, Acks' \subseteq Acks
  PROVE  SnInv'
<1> DEFINE m == [kind |-> "gamestate", epoch |-> sv.epoch]
           n == Len(sv.queue)
           p0 == [num |-> sv.out + n, msg |-> m]
<1>1. SnTyped /\ sv \in ServerStates /\ Counted
  BY DEF SnInv, SnTyped
<1>2. /\ sv.out \in Nat /\ sv.epoch \in 1..MaxEpoch /\ sv.queue \in Seq(ServerMessages)
      /\ n \in Nat /\ sv.epoch \in Nat /\ cl.epoch \in Nat
  BY <1>1, StateType
<1>3. m \in ServerMessages /\ m.kind = "gamestate" /\ m.epoch = sv.epoch
  BY <1>2 DEF ServerMessages, GamestateMessages
<1>4. p0.num = sv.out + n /\ p0.msg = m /\ IsGamestate(p0)
  BY <1>3 DEF IsGamestate
<1>5. sv' = [sv EXCEPT !.state = "primed", !.gsNum = sv.out, !.gsSent = 0,
                       !.queue = Append(sv.queue, m)]
  BY <1>1 DEF Gamestate, Queued, ServerStates
<1>6. n <= 1
  <2> SUFFICES ASSUME ~(n <= 1) PROVE FALSE
    OBVIOUS
  <2>1. 2 \in 2..n /\ 2 \in 1..n
    BY <1>2
  <2>2. sv.queue[2].kind = "gamestate"
    BY <1>1, <2>1 DEF Counted
  <2> DEFINE q == [num |-> sv.out + 2 - 1, msg |-> sv.queue[2]]
  <2>3. q \in Waiting
    BY <2>1 DEF Waiting
  <2>4. q \in Gamestates
    BY <2>2, <2>3 DEF Gamestates, Pending
  <2> QED BY <2>4
<1> HIDE DEF m, p0
<1>7. /\ Append(sv.queue, m) \in Seq(ServerMessages) /\ Len(Append(sv.queue, m)) = n + 1
      /\ \A k \in 1..n : Append(sv.queue, m)[k] = sv.queue[k]
      /\ Append(sv.queue, m)[n + 1] = m
  BY <1>2, <1>3, AppendOf
<1>8. /\ sv'.out = sv.out /\ sv'.delta = sv.delta /\ sv'.gsNum = sv.out
      /\ sv'.state = "primed" /\ sv'.entity = sv.entity /\ sv'.epoch = sv.epoch
      /\ sv'.frames = sv.frames /\ sv'.next = sv.next /\ sv'.ring = sv.ring
      /\ sv'.queue = Append(sv.queue, m) /\ sv'.gsSent = 0
  BY <1>1, <1>5 DEF ServerStates
<1>9. SnTyped'
  <2>1. sv.out \in Int /\ 0 \in Nat
    BY <1>2
  <2>2. sv' \in ServerStates
    BY <1>1, <1>5, <1>7, <2>1, ZenonT(60) DEF ServerStates
  <2> QED BY <1>1, <2>2 DEF SnTyped
<1> HIDE DEF n
<1>10. Waiting' = Waiting \union {p0}
  <2>1. ASSUME NEW j \in 1..(n + 1)
        PROVE  /\ [num |-> sv.out + j - 1, msg |-> sv'.queue[j]] \in Waiting \union {p0}
    <3>1. CASE j \in 1..n
      BY <1>7, <1>8, <3>1 DEF Waiting, n
    <3>2. CASE j = n + 1
      <4>1. sv.out + j - 1 = sv.out + n /\ sv'.queue[j] = m
        BY <1>2, <1>7, <1>8, <3>2
      <4> QED BY <4>1 DEF p0
    <3> QED BY <1>2, <3>1, <3>2
  <2>2. ASSUME NEW j \in 1..n
        PROVE  [num |-> sv.out + j - 1, msg |-> sv.queue[j]] \in Waiting'
    <3>1. j \in 1..Len(sv'.queue) /\ sv'.queue[j] = sv.queue[j]
      BY <1>2, <1>7, <1>8
    <3> QED BY <1>8, <3>1 DEF Waiting
  <2>3. p0 \in Waiting'
    <3>1. n + 1 \in 1..Len(sv'.queue) /\ sv'.queue[n + 1] = m /\ sv.out + (n + 1) - 1 = sv.out + n
      BY <1>2, <1>7, <1>8
    <3>2. [num |-> sv.out + (n + 1) - 1, msg |-> sv'.queue[n + 1]] \in Waiting'
      BY <1>8, <3>1 DEF Waiting
    <3> QED BY <3>1, <3>2 DEF p0
  <2>4. Waiting' \subseteq Waiting \union {p0}
    <3>1. ASSUME NEW j \in 1..Len(sv'.queue)
          PROVE  [num |-> sv'.out + j - 1, msg |-> sv'.queue[j]] \in Waiting \union {p0}
      <4>1. j \in 1..(n + 1)
        BY <1>7, <1>8
      <4> QED BY <1>8, <2>1, <4>1
    <3> QED BY <3>1 DEF Waiting
  <2>5. Waiting \subseteq Waiting'
    BY <2>2 DEF Waiting, n
  <2> QED BY <2>3, <2>4, <2>5
<1>11. /\ Pending' = Pending \union {p0} /\ Gamestates' = {p0}
       /\ Snapshots' = Snapshots
  <2>1. Pending' = Pending \union {p0}
    BY <1>10 DEF Pending
  <2> QED BY <1>3, <1>4, <2>1 DEF Gamestates, Snapshots
<1>12. \A p \in Pending : p.num < sv.out + n
  <2>1. ASSUME NEW j \in 1..n
        PROVE  [num |-> sv.out + j - 1, msg |-> sv.queue[j]].num < sv.out + n
    BY <1>2
  <2>2. \A p \in Waiting : p.num < sv.out + n
    BY <2>1 DEF Waiting, n
  <2>3. ASSUME NEW i \in 1..Len(toClient) PROVE toClient[i].num < sv.out + n
    <3>1. toClient[i].num < sv.out /\ toClient[i] \in Packets
      BY <1>1 DEF Counted, SnTyped
    <3>2. toClient[i].num \in Nat
      BY <3>1 DEF Packets
    <3> QED BY <1>2, <3>1, <3>2
  <2> QED BY <2>2, <2>3 DEF Pending
<1>13. Counted'
  <2>1. ASSUME NEW j \in 2..Len(sv'.queue) PROVE sv'.queue[j].kind = "gamestate"
    <3>1. CASE j = n + 1
      BY <1>3, <1>7, <1>8, <3>1
    <3>2. CASE j # n + 1
      <4>1. j \in 2..n /\ j \in 1..n
        BY <1>2, <1>7, <1>8, <3>2
      <4> QED BY <1>1, <1>7, <1>8, <4>1 DEF Counted, n
    <3> QED BY <3>1, <3>2
  <2>2. sv'.gsNum <= sv'.out
    BY <1>2, <1>8
  <2> QED BY <1>1, <1>8, <2>1, <2>2 DEF Counted
<1>14. OneGamestate'
  <2>1. cl.epoch <= sv.epoch /\ (sv.entity => (cl.state = "primed" => cl.epoch = sv.epoch))
    BY DEF SnInv, OneGamestate
  <2>2. p0.num \in {sv.out, sv.out + 1}
    BY <1>2, <1>4, <1>6 DEF n
  <2>3. cl.state = "primed" => cl.epoch < sv.epoch
    BY <1>2, <2>1 DEF Joined
  <2>4. sv.epoch <= sv.epoch
    BY <1>2
  <2>5. ~Joined'
    BY <1>8 DEF Joined
  <2> QED BY <1>3, <1>4, <1>8, <1>11, <2>1, <2>2, <2>3, <2>4, <2>5 DEF OneGamestate
<1>15. Answers'
  <2>1. cl'.seq >= cl.seq
    BY <1>1, StateType
  <2> QED BY <1>1, <1>9, <2>1, AnswersQuiet DEF SnInv
<1>16. LastSent'
  <2>1. n + 1 \in 1..Len(sv'.queue) /\ sv'.queue[n + 1].kind = "gamestate"
    BY <1>2, <1>3, <1>7, <1>8
  <2>2. \A p \in Gamestates' : p.msg.epoch = sv'.epoch
    BY <1>3, <1>4, <1>8, <1>11
  <2> QED BY <1>8, <2>1, <2>2 DEF LastSent
<1>17. ASSUME NEW p \in Pending PROVE ~(p0.num < p.num) /\ p.num < p0.num
  <2>1. p.num \in Nat /\ p.num < sv.out + n
    BY <1>1, <1>12, PendingType
  <2> QED BY <1>2, <1>4, <2>1 DEF n
<1>18. \A p \in Snapshots : p \in Pending
  BY DEF Snapshots
<1>19. FramesKept'
  <2>1. \A p \in Snapshots : Current(p)' => Current(p)
    BY <1>8, <1>11, <1>17, <1>18 DEF Current
  <2>2. \A k, l : Kept(k, l) => Kept(k, l)'
    BY <1>8 DEF Kept
  <2> QED BY <1>8, <1>11, <2>1, <2>2 DEF FramesKept, SnInv
<1>20. Decodable'
  <2> SUFFICES ASSUME NEW p \in Snapshots PROVE Decodes(p)'
    BY <1>11 DEF Decodable
  <2>1. Decodes(p)
    BY DEF SnInv, Decodable
  <2>2. ~(p0.num < p.num) /\ p0.num > p.num
    <3>1. p.num \in Nat /\ p0.num \in Nat
      BY <1>1, <1>2, <1>4, <1>18, PendingType DEF n
    <3> QED BY <1>17, <1>18, <3>1
  <2>3. \A e : OfMap(p, e) => OfMap(p, e)'
    BY <1>11, <2>2 DEF OfMap
  <2>4. FromNothing(p) => FromNothing(p)'
    BY <2>3 DEF FromNothing
  <2>5. FromBase(p) => FromBase(p)'
    BY <1>11, <2>2 DEF FromBase, Held, SlotOf
  <2> QED BY <2>1, <2>4, <2>5 DEF Decodes
<1>21. BasesHeld'
  <2>1. \A k : Usable(k)' <=> Usable(k)
    BY <1>8 DEF Usable, Held, SlotOf
  <2> QED BY <1>8, <2>1 DEF BasesHeld, SnInv
<1>22. SlotsHold'
  BY DEF SnInv, SlotsHold, SlotHolds, Held, SlotOf
<1> QED BY <1>9, <1>13, <1>14, <1>15, <1>16, <1>19, <1>20, <1>21, <1>22 DEF SnInv

\* A message of the client arrives; those before it are lost.
LEMMA AckArrives ==
  ASSUME SnTyped, NEW i \in 1..Len(toServer),
         toServer' = SubSeq(toServer, i + 1, Len(toServer))
  PROVE  /\ toServer[i] \in Acks /\ toServer[i] \in ClientMessages
         /\ toServer' \in Seq(ClientMessages) /\ Len(toServer') <= MaxInFlight
         /\ Acks' \subseteq Acks
<1>1. toServer \in Seq(ClientMessages) /\ Len(toServer) <= MaxInFlight
  BY DEF SnTyped
<1>2. i \in 0..Len(toServer) /\ i \in Nat /\ Len(toServer) \in Nat /\ MaxInFlight \in Nat
  BY <1>1, Sizes
<1>3. /\ toServer' \in Seq(ClientMessages) /\ Len(toServer') = Len(toServer) - i
      /\ \A k \in 1..(Len(toServer) - i) : toServer'[k] = toServer[k + i]
  BY <1>1, <1>2, Dropped
<1>4. Len(toServer') <= MaxInFlight
  BY <1>1, <1>2, <1>3
<1>5. ASSUME NEW k \in 1..Len(toServer') PROVE toServer'[k] \in Acks
  <2>1. k + i \in 1..Len(toServer) /\ toServer'[k] = toServer[k + i]
    BY <1>2, <1>3
  <2> QED BY <2>1 DEF Acks
<1> QED BY <1>1, <1>3, <1>4, <1>5 DEF Acks

\* What a message says of a map that is not the server's.
LEMMA ForeignSays ==
  ASSUME SnInv, NEW m \in Acks, m.epoch # sv.epoch, m.ack > sv.gsNum
  PROVE  ~Joined /\ Gamestates = {}
<1>1. SnTyped /\ Says(m)
  BY DEF SnInv, Answers
<1>2. /\ m.ack \in Nat /\ m.gs \in Nat /\ m.epoch \in Nat
      /\ sv.gsNum \in Int /\ cl.gs \in Nat /\ cl.seq \in Nat
  BY <1>1, PendingType, StateType
<1>3. ~Joined
  <2> SUFFICES ASSUME Joined PROVE FALSE
    OBVIOUS
  <2>1. cl.gs <= sv.gsNum + 1 /\ cl.epoch = sv.epoch
    BY DEF SnInv, OneGamestate, Joined
  <2>2. m.gs # cl.gs
    BY <1>1, <2>1 DEF Says
  <2>3. m.gs < cl.gs
    BY <1>1, <1>2, <2>2 DEF Says
  <2>4. m.ack < cl.gs
    BY <1>1, <2>3 DEF Says
  <2> QED BY <1>2, <2>1, <2>4
<1>4. Gamestates = {}
  <2> SUFFICES ASSUME NEW p \in Gamestates PROVE FALSE
    OBVIOUS
  <2>1. p.num \in {sv.gsNum, sv.gsNum + 1}
    BY DEF SnInv, OneGamestate
  <2>2. cl.seq < p.num
    BY <1>1, PendingNumbers, Kinds DEF SnInv
  <2>3. m.ack <= cl.seq
    BY <1>1 DEF Says
  <2> QED BY <1>2, <2>1, <2>2, <2>3
<1> QED BY <1>3, <1>4

LEMMA ExecuteKeeps ==
  ASSUME SnInv, NEW i \in 1..Len(toServer), SV_ExecuteClientMessage(i)
  PROVE  SnInv'
<1> DEFINE m == toServer[i]
<1>1. /\ sv' = Executed(sv, m) /\ toServer' = SubSeq(toServer, i + 1, Len(toServer))
      /\ UNCHANGED <<cl, toClient>>
  BY DEF SV_ExecuteClientMessage
<1>2. SnTyped /\ sv \in ServerStates
  BY DEF SnInv, SnTyped
<1>3. /\ m \in Acks /\ m \in ClientMessages
      /\ toServer' \in Seq(ClientMessages) /\ Len(toServer') <= MaxInFlight
      /\ Acks' \subseteq Acks
  BY <1>1, <1>2, AckArrives
<1> HIDE DEF m
<1>4. Says(m) /\ m.ack \in Nat /\ m.epoch \in Nat /\ m.move \in {"none", "delta", "noDelta"}
  <2>1. Says(m)
    BY <1>3 DEF SnInv, Answers
  <2> QED BY <1>2, <1>3, <2>1, PendingType DEF ClientMessages
<1>5. /\ sv.delta \in Int /\ sv.out \in Nat /\ sv.epoch \in Nat /\ cl.epoch \in Nat
      /\ cl.seq \in Nat /\ sv.entity \in BOOLEAN
      /\ sv.state \in {"connected", "primed", "active"}
  BY <1>2, StateType
<1>6. /\ sv.delta < sv.out /\ cl.seq < sv.out
      /\ (sv.state = "active" /\ sv.delta > 0 => Usable(sv.delta))
  BY DEF SnInv, Counted, BasesHeld
<1>7. CASE sv' = sv
  <2>1. sv' = [sv EXCEPT !.delta = sv.delta, !.state = sv.state, !.entity = sv.entity]
    BY <1>2, <1>7 DEF ServerStates
  <2> QED BY <1>1, <1>3, <1>5, <1>6, <2>1, MovedKeeps
<1>8. CASE ForeignMap(sv, m)
  <2>1. CASE ~DroppedGamestate(sv, m)
    BY <1>1, <1>7, <1>8, <2>1 DEF Executed
  <2>2. CASE DroppedGamestate(sv, m)
    <3>1. sv' = Gamestate(sv) /\ sv.state # "active" /\ m.ack > sv.gsNum
      BY <1>1, <1>8, <2>2 DEF Executed, DroppedGamestate
    <3>2. ~Joined /\ Gamestates = {}
      BY <1>3, <1>8, <3>1, ForeignSays DEF ForeignMap
    <3> QED BY <1>1, <1>3, <3>1, <3>2, GamestateQueued
  <2> QED BY <2>1, <2>2
<1>9. CASE ~ForeignMap(sv, m) /\ m.move # "none"
  <2>1. m.epoch = sv.epoch /\ sv' = Moved(sv, m)
    BY <1>1, <1>9 DEF Executed, ForeignMap
  <2>2. cl.epoch = sv.epoch /\ cl.state = "primed"
    <3>1. m.epoch <= cl.epoch /\ cl.epoch <= sv.epoch
      BY <1>4 DEF SnInv, OneGamestate, Says
    <3> QED BY <1>4, <1>5, <1>9, <2>1, <3>1 DEF Says
  <2>3. -1 \in Int /\ -1 < sv.out /\ ~(-1 > 0)
    BY <1>5
  <2>4. CASE sv.state = "active"
    <3> DEFINE d == IF m.move = "delta" THEN m.ack ELSE -1
    <3>1. sv' = [sv EXCEPT !.delta = d, !.state = sv.state, !.entity = sv.entity]
      BY <1>2, <1>9, <2>1, <2>4 DEF Moved, ServerStates
    <3>2. d \in Int /\ d < sv.out
      <4>1. m.ack <= cl.seq
        BY <1>4 DEF Says
      <4> QED BY <1>4, <1>5, <1>6, <2>3, <4>1
    <3>3. d > 0 => Usable(d)
      <4>1. CASE m.move = "delta"
        BY <1>3, <2>1, <2>2, <4>1 DEF SnInv, BasesHeld
      <4> QED BY <2>3, <4>1
    <3> HIDE DEF d
    <3> QED BY <1>1, <1>3, <1>5, <3>1, <3>2, <3>3, MovedKeeps
  <2>5. CASE sv.state = "primed"
    <3>1. sv' = [sv EXCEPT !.delta = -1, !.state = "active", !.entity = TRUE]
      BY <1>2, <1>9, <2>1, <2>5 DEF Moved
    <3>2. Joined
      BY <2>2 DEF Joined
    <3>3. Gamestates = {}
      <4> SUFFICES ASSUME NEW p \in Gamestates PROVE FALSE
        OBVIOUS
      <4>1. p.msg.epoch <= sv.epoch /\ cl.epoch < p.msg.epoch
        BY <2>2 DEF SnInv, OneGamestate
      <4>2. p.msg.epoch \in Nat
        BY <1>2, PendingType
      <4> QED BY <1>5, <2>2, <4>1, <4>2
    <3> QED BY <1>1, <1>3, <2>3, <3>1, <3>2, <3>3, MovedKeeps
  <2>6. CASE sv.state = "connected"
    <3>1. sv' = [sv EXCEPT !.delta = -1, !.state = sv.state, !.entity = sv.entity]
      BY <1>2, <1>9, <2>1, <2>6 DEF Moved, ServerStates
    <3> QED BY <1>1, <1>3, <1>5, <2>3, <3>1, MovedKeeps
  <2> QED BY <1>5, <2>4, <2>5, <2>6
<1>10. CASE ~ForeignMap(sv, m) /\ m.move = "none"
  BY <1>1, <1>7, <1>10 DEF Executed, Moved
<1> QED BY <1>8, <1>9, <1>10

-----------------------------------------------------------------------------
(* The client answers.                                                       *)

\* The client says what it has got, and asks for a delta from a snapshot it holds.
LEMMA AnswerKeeps ==
  ASSUME SnInv, NEW moves \in BOOLEAN, CL_WritePacket(moves)
  PROVE  SnInv'
<1> DEFINE mv == IF moves THEN Move(cl) ELSE "none"
           m0 == [epoch |-> cl.epoch, ack |-> cl.seq, gs |-> cl.gs, move |-> mv]
<1>1. /\ moves => cl.state = "primed"
      /\ toServer' = Under(toServer, m0) /\ UNCHANGED <<sv, cl, toClient>>
  BY DEF CL_WritePacket
<1>2. /\ SnTyped /\ cl.seq \in Nat /\ cl.gs \in Nat /\ cl.epoch \in 0..MaxEpoch /\ cl.epoch \in Nat
      /\ cl.snap \in Nat /\ toServer \in Seq(ClientMessages) /\ Len(toServer) <= MaxInFlight
  BY StateType DEF SnInv, SnTyped
<1>3. mv \in {"none", "delta", "noDelta"} /\ (mv # "none" => cl.state = "primed")
      /\ (mv = "delta" => cl.snap # 0 /\ cl.snap = cl.seq)
  BY <1>1 DEF Move
<1> HIDE DEF mv
<1>4. /\ m0 \in ClientMessages /\ m0.epoch = cl.epoch /\ m0.ack = cl.seq /\ m0.gs = cl.gs
      /\ m0.move = mv
  BY <1>2, <1>3 DEF ClientMessages
<1> HIDE DEF m0
<1>5. /\ toServer' \in Seq(ClientMessages) /\ Len(toServer') <= MaxInFlight
      /\ Acks' \subseteq Acks \union {m0}
  <2>1. toServer' \in Seq(ClientMessages) /\ Len(toServer') <= MaxInFlight
    BY <1>1, <1>2, <1>4, UnderAdds
  <2>2. PICK d \in 0..Len(toServer) :
          /\ Len(toServer') = Len(toServer) - d + 1
          /\ \A k \in 1..(Len(toServer) - d) : toServer'[k] = toServer[k + d]
          /\ toServer'[Len(toServer) - d + 1] = m0
    <3>1. \E d \in 0..Len(toServer) :
            /\ Len(Under(toServer, m0)) = Len(toServer) - d + 1
            /\ \A k \in 1..(Len(toServer) - d) : Under(toServer, m0)[k] = toServer[k + d]
            /\ Under(toServer, m0)[Len(toServer) - d + 1] = m0
      BY <1>2, <1>4, UnderAdds
    <3> QED BY <1>1, <3>1
  <2>3. ASSUME NEW k \in 1..Len(toServer') PROVE toServer'[k] \in Acks \union {m0}
    <3>1. CASE k = Len(toServer) - d + 1
      BY <2>2, <3>1
    <3>2. CASE k # Len(toServer) - d + 1
      <4>1. Len(toServer) \in Nat /\ d \in Nat /\ d <= Len(toServer)
            /\ k \in 1..(Len(toServer) - d + 1)
        BY <1>2, <2>2
      <4>2. k \in 1..(Len(toServer) - d) /\ k + d \in 1..Len(toServer)
        <5> DEFINE n == Len(toServer)
        <5> HIDE DEF n
        <5>1. n \in Nat /\ d \in Nat /\ d <= n /\ k \in 1..(n - d + 1) /\ k # n - d + 1
          BY <3>2, <4>1 DEF n
        <5>2. k \in 1..(n - d) /\ k + d \in 1..n
          BY <5>1
        <5> QED BY <5>2 DEF n
      <4> QED BY <2>2, <4>2 DEF Acks
    <3> QED BY <3>1, <3>2
  <2> QED BY <2>1, <2>3 DEF Acks
<1>6. SnTyped'
  BY <1>1, <1>2, <1>5 DEF SnTyped
<1>7. Pending' = Pending /\ Gamestates' = Gamestates /\ Snapshots' = Snapshots
  BY <1>1 DEF Pending, Waiting, Gamestates, Snapshots
<1>8. Counted'
  BY <1>1 DEF SnInv, Counted
<1>9. OneGamestate'
  BY <1>1, <1>7, GamestateQuiet DEF SnInv
<1>10. Answers'
  <2> SUFFICES ASSUME NEW m \in Acks' PROVE Says(m)'
    BY DEF Answers
  <2>1. Says(m)' <=> Says(m)
    BY <1>1 DEF Says
  <2>2. CASE m = m0
    <3>1. cl.gs <= cl.seq
      BY DEF SnInv, Counted
    <3> QED BY <1>2, <1>3, <1>4, <2>1, <2>2, <3>1 DEF Says
  <2>3. CASE m \in Acks
    BY <2>1, <2>3 DEF SnInv, Answers
  <2> QED BY <1>5, <2>2, <2>3
<1>11. LastSent'
  <2>1. ASSUME sv.state = "primed", sv.gsSent # 0, NEW m \in Acks', m.ack = sv.gsSent
        PROVE  m.gs = sv.gsSent
    BY <1>4, <1>5, <2>1 DEF SnInv, LastSent
  <2> QED BY <1>1, <1>7, <2>1 DEF SnInv, LastSent, IsGamestate
<1>12. FramesKept'
  <2>1. \A p : Current(p)' => Current(p)
    BY <1>1, <1>7, CurrentQuiet
  <2>2. \A k, l : Kept(k, l) => Kept(k, l)'
    BY <1>1 DEF Kept
  <2> QED BY <1>1, <1>7, <2>1, <2>2 DEF FramesKept, SnInv
<1>13. Decodable'
  BY <1>1, <1>7, DecodesQuiet DEF Decodable, SnInv
<1>14. BasesHeld'
  <2>1. \A k : Usable(k)' <=> Usable(k)
    BY <1>1 DEF Usable, Held, SlotOf
  <2>2. ASSUME NEW m \in Acks', m.move = "delta", m.epoch = cl.epoch PROVE Usable(m.ack)
    <3>1. CASE m = m0
      <4>1. cl.snap # 0 /\ cl.snap = cl.seq /\ Held(cl.snap)
        BY <1>3, <1>4, <2>2, <3>1 DEF SnInv, SlotsHold
      <4> QED BY <1>2, <1>4, <3>1, <4>1 DEF Usable
    <3>2. CASE m \in Acks
      BY <2>2, <3>2 DEF SnInv, BasesHeld
    <3> QED BY <1>5, <3>1, <3>2
  <2> QED BY <1>1, <2>1, <2>2 DEF BasesHeld, SnInv
<1>15. SlotsHold'
  BY <1>1 DEF SnInv, SlotsHold, SlotHolds, Held, SlotOf
<1> QED BY <1>6, <1>8, <1>9, <1>10, <1>11, <1>12, <1>13, <1>14, <1>15 DEF SnInv

-----------------------------------------------------------------------------
(* The client receives.                                                      *)

\* The messages left under way after one has come.
LEMMA MessageArrives ==
  ASSUME SnTyped, Counted, NEW i \in 1..Len(toClient), sv' = sv,
         toClient' = SubSeq(toClient, i + 1, Len(toClient))
  PROVE  /\ toClient[i] \in Pending /\ toClient[i].num \in Nat
         /\ toClient[i].msg \in ServerMessages
         /\ cl.seq < toClient[i].num /\ toClient[i].num < sv.out
         /\ toClient' \in Seq(Packets) /\ Len(toClient') <= MaxInFlight
         /\ Pending' \subseteq Pending
         /\ \A q \in Pending' : toClient[i].num < q.num
         /\ \A k \in 1..Len(toClient') :
              toClient[i].num < toClient'[k].num /\ toClient'[k].num < sv.out
         /\ \A k, j \in 1..Len(toClient') : k < j => toClient'[k].num < toClient'[j].num
<1> DEFINE p == toClient[i]
<1>1. toClient \in Seq(Packets) /\ Len(toClient) <= MaxInFlight
  BY DEF SnTyped
<1>2. i \in 0..Len(toClient) /\ i \in Nat /\ Len(toClient) \in Nat /\ MaxInFlight \in Nat
  BY <1>1, Sizes
<1>3. /\ toClient' \in Seq(Packets) /\ Len(toClient') = Len(toClient) - i
      /\ \A k \in 1..(Len(toClient) - i) : toClient'[k] = toClient[k + i]
  BY <1>1, <1>2, Dropped
<1>4. Len(toClient') <= MaxInFlight
  BY <1>1, <1>2, <1>3
<1>5. p \in Pending /\ cl.seq < p.num /\ p.num < sv.out
  BY DEF Pending, Counted
<1>6. p.num \in Nat /\ p.msg \in ServerMessages /\ sv.out \in Nat
  BY <1>5, PendingType, StateType
<1> HIDE DEF p
<1>7. ASSUME NEW k \in 1..Len(toClient')
      PROVE  /\ k + i \in 1..Len(toClient) /\ toClient'[k] = toClient[k + i]
             /\ p.num < toClient'[k].num /\ toClient'[k].num < sv.out
  <2>1. k + i \in 1..Len(toClient) /\ i < k + i /\ toClient'[k] = toClient[k + i]
    BY <1>2, <1>3
  <2>2. p.num < toClient[k + i].num /\ toClient[k + i].num < sv.out
    BY <2>1 DEF Counted, p
  <2> QED BY <2>1, <2>2
<1>8. ASSUME NEW k \in 1..Len(toClient'), NEW j \in 1..Len(toClient'), k < j
      PROVE  toClient'[k].num < toClient'[j].num
  <2>1. k + i < j + i
    BY <1>2, <1>8
  <2> QED BY <1>7, <2>1 DEF Counted
<1>9. Waiting' = Waiting
  BY DEF Waiting
<1>10. Pending' \subseteq Pending
  BY <1>7, <1>9 DEF Pending
<1>11. ASSUME NEW q \in Pending' PROVE p.num < q.num
  <2>1. CASE q \in Waiting
    <3>1. q.num >= sv.out /\ q.num \in Nat
      BY <2>1, PendingNumbers, PendingType
    <3> QED BY <1>5, <1>6, <3>1
  <2>2. CASE q \notin Waiting
    BY <1>7, <1>9, <2>2 DEF Pending
  <2> QED BY <2>1, <2>2
<1> QED BY <1>3, <1>4, <1>5, <1>6, <1>7, <1>8, <1>10, <1>11 DEF p

LEMMA GamestateParsed ==
  ASSUME SnInv, NEW i \in 1..Len(toClient), CL_ParseServerMessage(i),
         toClient[i].msg.kind = "gamestate"
  PROVE  SnInv'
<1> DEFINE p == toClient[i]
<1>1. /\ cl' = Restarted([cl EXCEPT !.seq = p.num], p.num, p.msg.epoch)
      /\ toClient' = SubSeq(toClient, i + 1, Len(toClient)) /\ UNCHANGED <<sv, toServer>>
  BY DEF CL_ParseServerMessage
<1>2. SnTyped /\ Counted
  BY DEF SnInv
<1>3. /\ p \in Pending /\ p.num \in Nat /\ p.msg \in ServerMessages
      /\ cl.seq < p.num /\ p.num < sv.out
      /\ toClient' \in Seq(Packets) /\ Len(toClient') <= MaxInFlight
      /\ Pending' \subseteq Pending /\ \A q \in Pending' : p.num < q.num
      /\ \A k \in 1..Len(toClient') : p.num < toClient'[k].num /\ toClient'[k].num < sv.out
      /\ \A k, j \in 1..Len(toClient') : k < j => toClient'[k].num < toClient'[j].num
  BY <1>1, <1>2, MessageArrives
<1>4. p \in Gamestates
  BY <1>3 DEF Gamestates
<1> HIDE DEF p
<1>5. /\ cl'.seq = p.num /\ cl'.epoch = p.msg.epoch /\ cl'.snap = 0 /\ cl'.parsed = 0
      /\ cl'.state = "primed" /\ cl'.gs = p.num
      /\ \A k \in 0..(PacketBackup - 1) : cl'.slots[k] = NoSnapshot
  BY <1>1 DEF Restarted, InitClient
<1>6. /\ cl.seq \in Nat /\ cl.gs \in Nat /\ cl.epoch \in Nat /\ sv.epoch \in Nat
      /\ sv.gsNum \in Int /\ sv.out \in Nat
      /\ p.msg.epoch \in 1..MaxEpoch /\ p.msg.epoch \in Nat
  BY <1>2, <1>4, StateType, PendingType
<1>7. SnTyped'
  <2>1. p.msg.epoch \in 0..MaxEpoch /\ 0 \in 0..MaxEntities /\ 0 \in Nat
    BY <1>6, Sizes
  <2>2. NoSnapshot \in ClientSlots
    BY <2>1 DEF NoSnapshot, ClientSlots, EntityLists
  <2>3. Nobody \in Entities
    BY DEF Nobody, Entity, Entities
  <2>4. cl' = [seq |-> p.num, epoch |-> p.msg.epoch, snap |-> 0,
               slots |-> [k \in 0..(PacketBackup - 1) |-> NoSnapshot], parsed |-> 0,
               ring |-> [k \in 0..(ParseRing - 1) |-> Nobody], state |-> "primed", gs |-> p.num]
    BY <1>1 DEF Restarted, InitClient
  <2>5. /\ [k \in 0..(PacketBackup - 1) |-> NoSnapshot] \in [0..(PacketBackup - 1) -> ClientSlots]
        /\ [k \in 0..(ParseRing - 1) |-> Nobody] \in [0..(ParseRing - 1) -> Entities]
    BY <2>2, <2>3
  <2>6. cl' \in ClientStates
    BY <1>3, <2>1, <2>4, <2>5 DEF ClientStates
  <2> QED BY <1>1, <1>2, <1>3, <2>6 DEF SnTyped
<1>8. Gamestates' = {} /\ Snapshots' \subseteq Snapshots /\ Acks' = Acks
  <2>1. \A q \in Gamestates' : q = p
    BY <1>3, <1>4 DEF SnInv, OneGamestate, Gamestates
  <2>2. ~(p.num < p.num)
    BY <1>3
  <2> QED BY <1>1, <1>3, <2>1, <2>2 DEF Gamestates, Snapshots, Acks
<1>9. /\ p.num \in {sv.gsNum, sv.gsNum + 1} /\ p.msg.epoch <= sv.epoch
      /\ cl.epoch <= p.msg.epoch /\ (cl.state = "primed" => cl.epoch < p.msg.epoch)
      /\ sv.entity => p.msg.epoch = sv.epoch
  BY <1>4 DEF SnInv, OneGamestate
<1>10. sv.state # "active"
  <2>1. sv.state = "active" => cl.state = "primed" /\ cl.epoch = sv.epoch
    BY DEF SnInv, OneGamestate, Joined
  <2> QED BY <1>6, <1>9, <2>1
<1>11. Counted'
  <2>1. p.num <= p.num /\ 0 <= p.num
    BY <1>3
  <2> QED BY <1>1, <1>3, <1>5, <2>1 DEF SnInv, Counted
<1>12. OneGamestate'
  <2>1. p.num <= sv.gsNum + 1
    BY <1>3, <1>6, <1>9
  <2> QED BY <1>1, <1>5, <1>8, <1>9, <1>10, <2>1 DEF OneGamestate, Joined
\* No answer is about this gamestate.
<1>13. ASSUME NEW m \in Acks
       PROVE  /\ m.ack < p.num /\ m.gs < p.num /\ m.epoch <= p.msg.epoch /\ m.gs <= m.ack
              /\ m.move # "none" => m.epoch < p.msg.epoch
  <2>1. Says(m) /\ m.ack \in Nat /\ m.gs \in Nat /\ m.epoch \in Nat
    BY <1>2, PendingType DEF SnInv, Answers
  <2>2. cl.gs <= cl.seq
    BY <1>2 DEF Counted
  <2>3. /\ m.ack <= cl.seq /\ m.gs <= cl.gs /\ m.epoch <= cl.epoch /\ m.gs <= m.ack
        /\ m.move # "none" => cl.state = "primed"
    BY <2>1 DEF Says
  <2>4. m.ack < p.num /\ m.gs < p.num
    BY <1>3, <1>6, <2>1, <2>2, <2>3, SMTT(30)
  <2>5. m.epoch <= p.msg.epoch
    BY <1>6, <1>9, <2>1, <2>3
  <2>6. m.move # "none" => m.epoch < p.msg.epoch
    BY <1>6, <1>9, <2>1, <2>3
  <2> QED BY <2>3, <2>4, <2>5, <2>6
<1>14. Answers'
  <2> SUFFICES ASSUME NEW m \in Acks PROVE Says(m)'
    BY <1>8 DEF Answers
  <2>1. m.ack \in Nat /\ m.gs \in Nat /\ m.epoch \in Nat
    BY <1>2, PendingType
  <2>2. /\ m.ack <= p.num /\ m.gs <= p.num /\ m.gs # p.num
        /\ m.move # "none" => m.epoch # p.msg.epoch
    BY <1>3, <1>6, <1>13, <2>1, SMTT(30)
  <2> QED BY <1>5, <1>13, <2>2 DEF Says
<1>15. LastSent'
  <2> SUFFICES ASSUME sv.state = "primed" PROVE LastSent'
    BY <1>1 DEF LastSent
  <2>1. sv.gsSent = 0 => \E j \in 1..Len(sv.queue) : sv.queue[j].kind = "gamestate"
    BY DEF SnInv, LastSent
  <2>2. CASE sv.gsSent = 0
    BY <1>1, <1>8, <2>1, <2>2 DEF LastSent
  <2>3. CASE sv.gsSent # 0
    <3>1. /\ sv.gsSent \in {sv.gsNum, sv.gsNum + 1} /\ sv.gsSent < sv.out
          /\ \A m \in Acks : m.ack = sv.gsSent => m.gs = sv.gsSent
          /\ \A q \in Pending : q.num = sv.gsSent <=> IsGamestate(q)
          /\ p.msg.epoch = sv.epoch
      BY <1>4, <2>3 DEF SnInv, LastSent
    <3>2. p.num = sv.gsSent
      BY <1>2, <1>3, <1>4, <3>1, Kinds
    <3>3. p.num <= sv.gsSent
      BY <1>3, <3>2
    <3> QED BY <1>1, <1>3, <1>5, <1>8, <2>3, <3>1, <3>2, <3>3 DEF LastSent, IsGamestate
  <2> QED BY <2>2, <2>3
<1>16. FramesKept'
  <2>1. ASSUME NEW q \in Snapshots', Current(q)' PROVE Current(q)
    <3>1. p.msg.epoch = sv.epoch
      BY <1>1, <1>5, <1>8, <2>1 DEF Current
    <3>2. p.num < q.num
      BY <1>3, <2>1 DEF Snapshots
    <3> QED BY <1>4, <3>1, <3>2 DEF Current
  <2>2. \A k, l : Kept(k, l) => Kept(k, l)'
    BY <1>1 DEF Kept
  <2>3. \A k \in 0..(PacketBackup - 1) : ~cl'.slots[k].valid
    BY <1>5 DEF NoSnapshot
  <2> QED BY <1>8, <2>1, <2>2, <2>3 DEF FramesKept, SnInv
<1>17. Decodable'
  <2> SUFFICES ASSUME NEW q \in Snapshots' PROVE Decodes(q)'
    BY DEF Decodable
  <2>1. Decodes(q) /\ p.num < q.num /\ q.num \in Nat
    BY <1>2, <1>3, <1>8, PendingType DEF SnInv, Decodable, Snapshots
  <2>2. q.msg.delta = 0
    <3> SUFFICES ASSUME FromBase(q) PROVE FALSE
      BY <2>1 DEF Decodes
    <3>1. p.num > q.num
      BY <1>4 DEF FromBase
    <3> QED BY <1>3, <2>1, <3>1
  <2>3. PICK e \in 0..MaxEpoch :
          /\ q.msg.ents = Encoded(AsMap(<<>>), AsMap(q.msg.is), Baseline(e))
          /\ q.msg.is # <<>> => OfMap(q, e)
    BY <2>1, <2>2 DEF Decodes, FromNothing
  <2>4. OfMap(q, e) => OfMap(q, e)'
    BY <1>4, <1>5, <1>8, <2>1 DEF OfMap
  <2> QED BY <2>2, <2>3, <2>4 DEF Decodes, FromNothing
<1>18. BasesHeld'
  <2>1. ASSUME NEW m \in Acks, m.move = "delta" PROVE m.epoch # p.msg.epoch
    <3>1. m.epoch < p.msg.epoch /\ m.epoch \in Nat
      BY <1>2, <1>13, <2>1, PendingType
    <3> QED BY <1>6, <3>1
  <2> QED BY <1>1, <1>5, <1>8, <1>10, <2>1 DEF BasesHeld
<1>19. SlotsHold'
  BY <1>5 DEF SlotsHold, NoSnapshot
<1> QED BY <1>7, <1>11, <1>12, <1>14, <1>15, <1>16, <1>17, <1>18, <1>19 DEF SnInv

\* Products with the number of entities.
LEMMA Times ==
  ASSUME NEW a \in Int, NEW b \in Int, a <= b, NEW n \in Nat
  PROVE  a * n <= b * n /\ (a + 1) * n = a * n + n /\ a * n \in Int /\ b * n \in Int
<1> DEFINE c == b - a
<1>1. c \in Nat /\ b = a + c
  OBVIOUS
<1> HIDE DEF c
<1>2. c * n \in Nat /\ a * n \in Int /\ b * n = a * n + c * n
  BY <1>1, SMTT(30)
<1>3. (a + 1) * n = a * n + n
  BY SMTT(30)
<1>4. b * n \in Int
  BY <1>2
<1> QED BY <1>2, <1>3, <1>4

LEMMA RingSize ==
  /\ ParseRing \in Nat /\ ParseRing > 0 /\ ParseRing >= MaxEntities
  /\ (PacketBackup - 1) * MaxEntities = ParseRing - MaxEntities
<1> DEFINE P == PacketBackup
           E == MaxEntities
<1>1. P \in Nat /\ P >= 2 /\ E \in Nat /\ E > 0
  BY Sizes
<1>2. ParseRing = P * E
  BY DEF ParseRing
<1> HIDE DEF P, E
<1>3. P * E \in Nat /\ P * E >= 2 * E /\ (P - 1) * E = P * E - E
  BY <1>1, SMTT(30)
<1>4. P * E > 0 /\ P * E >= E
  BY <1>1, <1>3
<1> QED BY <1>2, <1>3, <1>4 DEF P, E

\* A slot of the client and its fields.
LEMMA SlotFields ==
  ASSUME SnTyped, NEW i \in 0..(PacketBackup - 1)
  PROVE  /\ cl.slots[i] \in ClientSlots /\ cl.slots[i].valid \in BOOLEAN
         /\ cl.slots[i].num \in Nat /\ cl.slots[i].first \in Nat
         /\ cl.slots[i].n \in 0..MaxEntities /\ cl.slots[i].n \in Nat
         /\ cl.slots[i].is \in EntityLists
<1>1. cl.slots[i] \in ClientSlots
  BY StateType
<1>2. \A s \in ClientSlots : /\ s.valid \in BOOLEAN /\ s.num \in Nat /\ s.first \in Nat
                             /\ s.n \in 0..MaxEntities /\ s.is \in EntityLists
  BY DEF ClientSlots
<1>3. MaxEntities \in Nat
  BY Sizes
<1> QED BY <1>1, <1>2, <1>3

\* The client holds the base of every delta under way, its entities too.
LEMMA BaseHeld ==
  ASSUME SnInv, NEW p \in Snapshots, p.msg.delta # 0
  PROVE  LET k == p.num - p.msg.delta IN
         /\ k \in Nat /\ k \in 1..cl.snap /\ Held(k) /\ cl.state = "primed"
         /\ SlotOf(k).is \in EntityLists
         /\ cl.parsed - SlotOf(k).first <= ParseRing - MaxEntities
         /\ Read(cl.ring, ParseRing, SlotOf(k).first, SlotOf(k).n) = SlotOf(k).is
         /\ p.msg.ents = Encoded(AsMap(SlotOf(k).is), AsMap(p.msg.is), Baseline(cl.epoch))
<1> DEFINE k == p.num - p.msg.delta
           d == p.msg.delta
           i == k % PacketBackup
           s == cl.slots[i]
<1>1. SnTyped /\ Counted /\ FromBase(p)
  BY DEF SnInv, Decodable, Decodes
<1>2. /\ p.num \in Nat /\ d \in Nat /\ cl.seq < p.num /\ cl.seq \in Nat /\ cl.snap \in Nat
      /\ cl.parsed \in Nat
  BY <1>1, PendingType, Kinds, PendingNumbers, StateType
<1>3. /\ d < PacketBackup - Margin /\ k > 0 /\ k <= cl.snap /\ Held(k) /\ cl.state = "primed"
      /\ p.msg.ents = Encoded(AsMap(SlotOf(k).is), AsMap(p.msg.is), Baseline(cl.epoch))
  BY <1>1 DEF FromBase
<1>4. k \in Nat /\ k \in 1..cl.snap /\ p.num = k + d
  BY <1>2, <1>3
<1> HIDE DEF k, d
<1>5. i \in 0..(PacketBackup - 1)
  BY <1>4, SlotType
<1>6. SlotOf(k) = s /\ s.valid /\ s.num = k
  BY <1>3 DEF Held, SlotOf
<1> HIDE DEF i
<1>7. s.first \in Nat /\ s.n \in Nat /\ s.is \in EntityLists
  BY <1>1, <1>5, SlotFields
<1>8. SlotHolds(i)
  BY <1>5, <1>6 DEF SnInv, SlotsHold
<1>9. /\ cl.parsed - s.first <= (cl.seq - s.num + 1) * MaxEntities
      /\ cl.parsed < s.first + ParseRing => Read(cl.ring, ParseRing, s.first, s.n) = s.is
  BY <1>3, <1>8 DEF SlotHolds
<1> DEFINE a == cl.seq - k + 1
           b == PacketBackup - 1
<1>10. /\ a \in Int /\ b \in Int /\ a <= b
       /\ MaxEntities \in Nat /\ MaxEntities > 0
  <2>1. PacketBackup \in Nat /\ Margin \in Nat
    BY Sizes
  <2> QED BY <1>2, <1>3, <1>4, <2>1, Sizes
<1>11. cl.seq - s.num + 1 = a
  BY <1>6
<1> HIDE DEF s, a, b
<1>12. a * MaxEntities <= b * MaxEntities /\ a * MaxEntities \in Int /\ b * MaxEntities \in Int
  BY <1>10, Times
<1>13. b * MaxEntities = ParseRing - MaxEntities /\ ParseRing \in Nat
  BY RingSize DEF b
<1>14. cl.parsed - s.first <= ParseRing - MaxEntities
  BY <1>2, <1>7, <1>9, <1>11, <1>12, <1>13
<1>15. cl.parsed < s.first + ParseRing
  BY <1>2, <1>7, <1>10, <1>13, <1>14
<1> QED BY <1>3, <1>4, <1>6, <1>7, <1>9, <1>14, <1>15 DEF k, d

LEMMA BaseThere ==
  ASSUME SnInv, NEW p \in Snapshots
  PROVE  HasBase(cl, p.num, p.msg)
<1> SUFFICES ASSUME p.msg.delta # 0 PROVE HasBase(cl, p.num, p.msg)
  BY DEF HasBase
<1> DEFINE k == p.num - p.msg.delta
<1>1. k \in Nat /\ Held(k) /\ cl.parsed - SlotOf(k).first <= ParseRing - MaxEntities
  BY BaseHeld
<1>2. Old(cl, p.num, p.msg) = SlotOf(k)
  BY DEF Old, SlotOf
<1> QED BY <1>1, <1>2 DEF HasBase, Held

\* What the client decodes has as many entities as the server's frame, and is the
\* same if the client has the baselines.
LEMMA ListParsed ==
  ASSUME SnInv, NEW p \in Snapshots
  PROVE  LET base == IF p.msg.delta = 0 THEN NoSnapshot ELSE Old(cl, p.num, p.msg)
             old  == AsMap(Read(cl.ring, ParseRing, base.first, base.n))
             list == Listed(Decoded(cl, old, p.msg.ents))
         IN  /\ list \in Seq(Entities) /\ Len(list) = Len(p.msg.is)
             /\ Len(list) \in 0..MaxEntities
             /\ cl.state = "primed" => list = p.msg.is
<1> DEFINE base == IF p.msg.delta = 0 THEN NoSnapshot ELSE Old(cl, p.num, p.msg)
           read == Read(cl.ring, ParseRing, base.first, base.n)
           D == Decoded(cl, AsMap(read), p.msg.ents)
           is == p.msg.is
<1>1. SnTyped /\ Decodes(p)
  BY DEF SnInv, Decodable
<1>2. /\ is \in EntityLists /\ p.msg.ents \in Maps /\ p.msg.delta \in Nat
      /\ cl.epoch \in Nat
  BY <1>1, PendingType, StateType
<1>3. /\ AsMap(is) \in Maps /\ Listed(AsMap(is)) = is /\ Len(is) \in 0..MaxEntities
      /\ Len(is) = Cardinality(DOMAIN AsMap(is)) /\ Plain(AsMap(is)) /\ is \in Seq(Entities)
  BY <1>2, ListSent, PlainLists
<1>4. CASE p.msg.delta # 0
  <2> DEFINE k == p.num - p.msg.delta
             l == SlotOf(k).is
  <2>1. /\ l \in EntityLists
        /\ Read(cl.ring, ParseRing, SlotOf(k).first, SlotOf(k).n) = l
        /\ p.msg.ents = Encoded(AsMap(l), AsMap(is), Baseline(cl.epoch))
    BY <1>4, BaseHeld
  <2>2. base = SlotOf(k)
    BY <1>4 DEF Old, SlotOf
  <2>3. read = l
    BY <2>1, <2>2
  <2> HIDE DEF read, l, is
  <2>4. Plain(AsMap(l))
    BY <2>1, PlainLists
  <2>5. D = AsMap(is)
    BY <1>3, <2>1, <2>3, <2>4, DeltaDecodes
  <2> HIDE DEF D
  <2>6. Listed(D) = is
    BY <1>3, <2>5
  <2> QED BY <1>3, <2>6 DEF D, read, is
<1>5. CASE p.msg.delta = 0
  <2>1. base.n = 0
    BY <1>5 DEF NoSnapshot
  <2>2. read = <<>>
    BY <2>1 DEF Read
  <2>3. PICK e \in 0..MaxEpoch :
          /\ p.msg.ents = Encoded(AsMap(<<>>), AsMap(is), Baseline(e))
          /\ is # <<>> => OfMap(p, e)
    BY <1>1, <1>5 DEF Decodes, FromNothing
  <2> HIDE DEF read, is
  <2>4. D = Decoded(cl, AsMap(<<>>), Encoded(AsMap(<<>>), AsMap(is), Baseline(e)))
    BY <2>2, <2>3
  <2>5. D \in Maps
    BY <1>2, <2>2, EmptyList, DecodedType, BaselineType
  <2>6. DOMAIN D = DOMAIN AsMap(is)
    BY <1>3, <2>4, NothingDecodes
  <2> HIDE DEF D
  <2>7. Listed(D) \in Seq(Entities) /\ Len(Listed(D)) = Len(is)
    BY <1>3, <2>5, <2>6, ListOfMap
  <2>8. ASSUME cl.state = "primed" PROVE Listed(D) = is
    <3>1. CASE is = <<>>
      BY <2>7, <3>1
    <3>2. CASE is # <<>>
      <4>1. cl.epoch = e
        BY <2>3, <2>8, <3>2 DEF OfMap
      <4>2. Plain(AsMap(<<>>))
        BY PlainLists DEF EntityLists
      <4>3. D = AsMap(is)
        BY <1>3, <2>4, <4>1, <4>2, DeltaDecodes
      <4> QED BY <1>3, <4>3
    <3> QED BY <3>1, <3>2
  <2> QED BY <1>3, <2>7, <2>8 DEF D, read, is
<1> QED BY <1>4, <1>5

LEMMA Scribbled ==
  ASSUME NEW list \in Seq(Entities), NEW ents
  PROVE  /\ WithScribble(list, ents) \in Seq(Entities)
         /\ Len(WithScribble(list, ents)) \in {Len(list), Len(list) + 1}
         /\ [i \in 1..Len(list) |-> WithScribble(list, ents)[i]] = list
<1>1. Nobody \in Entities
  BY DEF Nobody, Entity, Entities
<1>2. CASE WithScribble(list, ents) = list
  BY <1>2
<1>3. CASE WithScribble(list, ents) = Append(list, Nobody)
  BY <1>1, <1>3, AppendOf
<1> QED BY <1>2, <1>3 DEF WithScribble

\* The flags that are cleared are of messages the client has not got since its
\* last snapshot.
LEMMA ClearedType ==
  ASSUME SnTyped, NEW num \in Nat
  PROVE  /\ Cleared(cl, num) \in [0..(PacketBackup - 1) -> ClientSlots]
         /\ \A i \in 0..(PacketBackup - 1) :
              Cleared(cl, num)[i].valid => Cleared(cl, num)[i] = cl.slots[i]
<1> DEFINE C == Cleared(cl, num)
           off(i) == [cl.slots[i] EXCEPT !.valid = FALSE]
<1>1. ASSUME NEW i \in 0..(PacketBackup - 1)
      PROVE  cl.slots[i] \in ClientSlots /\ off(i) \in ClientSlots /\ off(i).valid = FALSE
  <2>1. cl.slots[i] \in ClientSlots
    BY StateType
  <2> QED BY <2>1 DEF ClientSlots
<1>2. ASSUME NEW i \in 0..(PacketBackup - 1) PROVE C[i] = off(i) \/ C[i] = cl.slots[i]
  BY DEF Cleared
<1>3. DOMAIN C = 0..(PacketBackup - 1) /\ C = [i \in DOMAIN C |-> C[i]]
  BY DEF Cleared
<1> HIDE DEF C, off
<1>4. \A i \in 0..(PacketBackup - 1) : C[i] \in ClientSlots
  BY <1>1, <1>2
<1>5. C \in [0..(PacketBackup - 1) -> ClientSlots]
  BY <1>3, <1>4
<1>6. \A i \in 0..(PacketBackup - 1) : C[i].valid => C[i] = cl.slots[i]
  BY <1>1, <1>2
<1> QED BY <1>5, <1>6 DEF C

\* The client state after a snapshot.
LEMMA ParsedState ==
  ASSUME SnInv, NEW p \in Snapshots, p.num \in Nat,
         cl' = Parsed([cl EXCEPT !.seq = p.num], p.num, p.msg)
  PROVE  \E list, list2 \in Seq(Entities) :
           /\ Len(list) \in 0..MaxEntities /\ Len(list) = Len(p.msg.is)
           /\ Len(list2) \in {Len(list), Len(list) + 1}
           /\ [i \in 1..Len(list) |-> list2[i]] = list
           /\ cl.state = "primed" => list = p.msg.is
           /\ cl' \in ClientStates
           /\ cl'.seq = p.num /\ cl'.snap = p.num /\ cl'.epoch = cl.epoch
           /\ cl'.state = cl.state /\ cl'.gs = cl.gs
           /\ cl'.parsed = cl.parsed + Len(list)
           /\ cl'.ring = Written(cl.ring, ParseRing, cl.parsed, list2)
           /\ cl'.slots[p.num % PacketBackup] =
                [valid |-> TRUE, num |-> p.num, first |-> cl.parsed, n |-> Len(list),
                 is |-> p.msg.is]
           /\ \A i \in 0..(PacketBackup - 1) : i # p.num % PacketBackup =>
                cl'.slots[i] = Cleared(cl, p.num)[i]
<1> DEFINE num == p.num
           m == p.msg
           c == [cl EXCEPT !.seq = num]
           base == IF m.delta = 0 THEN NoSnapshot ELSE Old(cl, num, m)
           list == Listed(Decoded(cl, AsMap(Read(cl.ring, ParseRing, base.first, base.n)), m.ents))
           list2 == WithScribble(list, m.ents)
           C == Cleared(cl, num)
           i0 == num % PacketBackup
           snap == [valid |-> TRUE, num |-> num, first |-> cl.parsed, n |-> Len(list),
                    is |-> m.is]
           ring == Written(cl.ring, ParseRing, cl.parsed, list2)
<1>1. SnTyped /\ cl \in ClientStates /\ num \in Nat
  BY DEF SnInv, SnTyped
<1>2. /\ cl.parsed \in Nat /\ cl.ring \in [0..(ParseRing - 1) -> Entities]
      /\ m.is \in EntityLists
  BY <1>1, StateType, PendingType
<1>3. /\ c.seq = num /\ c.epoch = cl.epoch /\ c.snap = cl.snap /\ c.slots = cl.slots
      /\ c.parsed = cl.parsed /\ c.ring = cl.ring /\ c.state = cl.state /\ c.gs = cl.gs
      /\ c \in ClientStates
  BY <1>1 DEF ClientStates
<1>4. HasBase(c, num, m)
  <2>1. HasBase(cl, num, m)
    BY BaseThere
  <2> QED BY <1>3, <2>1 DEF HasBase, Old
<1>5. Old(c, num, m) = Old(cl, num, m) /\ Cleared(c, num) = C
  BY <1>3 DEF Old, Cleared
<1>6. \A old : Decoded(c, old, m.ents) = Decoded(cl, old, m.ents)
  BY <1>3 DEF Decoded
<1>7. cl' = Parsed(c, num, m)
  OBVIOUS
<1>8. /\ list \in Seq(Entities) /\ Len(list) = Len(m.is) /\ Len(list) \in 0..MaxEntities
      /\ cl.state = "primed" => list = m.is
  BY ListParsed
<1> HIDE DEF c
<1>9. cl' = [[c EXCEPT !.parsed = cl.parsed + Len(list), !.ring = ring]
               EXCEPT !.snap = num, !.slots = [C EXCEPT ![i0] = snap]]
  <2> DEFINE baseC == IF m.delta = 0 THEN NoSnapshot ELSE Old(c, num, m)
             listC == Listed(Decoded(c, AsMap(Read(c.ring, ParseRing, baseC.first, baseC.n)), m.ents))
             snapC == [valid |-> TRUE, num |-> num, first |-> c.parsed, n |-> Len(listC),
                       is |-> m.is]
  <2>1. Parsed(c, num, m) =
          [[c EXCEPT !.parsed = c.parsed + Len(listC),
                     !.ring = Written(c.ring, ParseRing, c.parsed, WithScribble(listC, m.ents))]
             EXCEPT !.snap = num,
                    !.slots = [Cleared(c, num) EXCEPT ![num % PacketBackup] = snapC]]
    <3> HIDE DEF num, m
    <3> QED BY <1>3, <1>4, Zenon DEF Parsed, ClientStates
  <2>2. baseC = base
    BY <1>5
  <2>3. listC = list
    BY <1>3, <1>6, <2>2
  <2> HIDE DEF listC, list, baseC
  <2> QED BY <1>3, <1>5, <1>7, <2>1, <2>3
<1> HIDE DEF list
<1>10. /\ list2 \in Seq(Entities) /\ Len(list2) \in {Len(list), Len(list) + 1}
       /\ [i \in 1..Len(list) |-> list2[i]] = list
  BY <1>8, Scribbled
<1> HIDE DEF list2
<1>11. ring \in [0..(ParseRing - 1) -> Entities]
  BY <1>2, <1>10, RingSize, WrittenType
<1>12. snap \in ClientSlots
  BY <1>1, <1>2, <1>8 DEF ClientSlots
<1>13. C \in [0..(PacketBackup - 1) -> ClientSlots] /\ i0 \in 0..(PacketBackup - 1)
  BY <1>1, ClearedType, SlotType
<1> HIDE DEF snap, C, i0, ring
<1>14. [C EXCEPT ![i0] = snap] \in [0..(PacketBackup - 1) -> ClientSlots]
  BY <1>12, <1>13
<1>15. [C EXCEPT ![i0] = snap][i0] = snap
       /\ \A i \in 0..(PacketBackup - 1) : i # i0 => [C EXCEPT ![i0] = snap][i] = C[i]
  BY <1>13
<1>16. cl.parsed + Len(list) \in Nat
  <2>1. Len(list) \in Nat
    BY <1>8, Sizes
  <2> QED BY <1>2, <2>1
<1> DEFINE S == [C EXCEPT ![i0] = snap]
<1> HIDE DEF S
<1>17. cl' = [c EXCEPT !.parsed = cl.parsed + Len(list), !.ring = ring, !.snap = num, !.slots = S]
  BY <1>3, <1>9 DEF ClientStates, S
<1>18. S \in [0..(PacketBackup - 1) -> ClientSlots]
  BY <1>14 DEF S
<1> HIDE DEF num
<1>19. cl' \in ClientStates
  BY <1>1, <1>3, <1>11, <1>16, <1>17, <1>18 DEF ClientStates
<1>20. /\ cl'.seq = num /\ cl'.snap = num /\ cl'.epoch = cl.epoch
       /\ cl'.state = cl.state /\ cl'.gs = cl.gs
       /\ cl'.parsed = cl.parsed + Len(list) /\ cl'.ring = ring /\ cl'.slots = S
  <2> DEFINE x == cl.parsed + Len(list)
  <2> HIDE DEF x
  <2>1. cl' = [c EXCEPT !.parsed = x, !.ring = ring, !.snap = num, !.slots = S]
    BY <1>17 DEF x
  <2>2. cl'.seq = c.seq /\ cl'.epoch = c.epoch /\ cl'.state = c.state /\ cl'.gs = c.gs
    BY <1>3, <2>1 DEF ClientStates
  <2>3. cl'.snap = num /\ cl'.parsed = x /\ cl'.ring = ring /\ cl'.slots = S
    BY <1>3, <2>1 DEF ClientStates
  <2> QED BY <1>3, <2>2, <2>3 DEF x
<1>21. /\ cl'.seq = p.num /\ cl'.snap = p.num
       /\ cl'.ring = Written(cl.ring, ParseRing, cl.parsed, list2)
       /\ cl'.slots[p.num % PacketBackup] =
            [valid |-> TRUE, num |-> p.num, first |-> cl.parsed, n |-> Len(list),
             is |-> p.msg.is]
       /\ \A i \in 0..(PacketBackup - 1) : i # p.num % PacketBackup =>
            cl'.slots[i] = Cleared(cl, p.num)[i]
  BY <1>15, <1>20 DEF snap, C, i0, ring, S, num
<1>22. /\ cl'.epoch = cl.epoch /\ cl'.state = cl.state /\ cl'.gs = cl.gs
       /\ cl'.parsed = cl.parsed + Len(list)
  BY <1>20
<1> QED BY <1>8, <1>10, <1>19, <1>21, <1>22

\* A snapshot the client holds stays in its slot while it is not too old.
LEMMA HeldKept ==
  ASSUME SnInv, NEW num \in Nat, cl.seq < num,
         NEW k \in 1..cl.snap, Held(k), num - k < PacketBackup
  PROVE  k % PacketBackup # num % PacketBackup
         /\ Cleared(cl, num)[k % PacketBackup] = cl.slots[k % PacketBackup]
<1> DEFINE P == PacketBackup
           from == IF num - (cl.snap + 1) >= P THEN num - (P - 1) ELSE cl.snap + 1
<1>1. /\ cl.snap \in Nat /\ cl.seq \in Nat /\ cl.snap <= cl.seq /\ P \in Nat /\ P > 0
  BY StateType, Sizes DEF SnInv, Counted
<1>2. k \in Nat /\ k <= cl.snap /\ k < num
  BY <1>1
<1>3. k % P \in 0..(P - 1)
  BY <1>2, SlotType
<1>4. ASSUME NEW j \in Nat, k < j, j % P = k % P PROVE k + P <= j
  BY <1>2, <1>4, OwnSlot
<1> HIDE DEF P
<1>5. num - k < P
  BY DEF P
<1>6. k % P # num % P
  <2> SUFFICES ASSUME k % P = num % P PROVE FALSE
    OBVIOUS
  <2>1. k + P <= num
    BY <1>2, <1>4
  <2> QED BY <1>1, <1>2, <1>5, <2>1
<1>7. from = cl.snap + 1
  <2>1. ~(num - (cl.snap + 1) >= P)
    BY <1>1, <1>2, <1>5
  <2> QED BY <2>1
<1>8. ASSUME NEW j \in from..(num - 1) PROVE j % P # k % P
  <2>1. j \in Nat /\ k < j /\ j < num
    BY <1>1, <1>2, <1>7
  <2> SUFFICES ASSUME j % P = k % P PROVE FALSE
    OBVIOUS
  <2>2. k + P <= j
    BY <1>4, <2>1
  <2> QED BY <1>1, <1>2, <1>5, <2>1, <2>2
<1> HIDE DEF from
<1>9. Cleared(cl, num) = [i \in 0..(P - 1) |->
        IF \E j \in from..(num - 1) : j % P = i
        THEN [cl.slots[i] EXCEPT !.valid = FALSE] ELSE cl.slots[i]]
  BY DEF Cleared, from, P
<1>10. Cleared(cl, num)[k % P] = cl.slots[k % P]
  <2> DEFINE i == k % P
  <2>1. i \in 0..(P - 1) /\ \A j \in from..(num - 1) : j % P # i
    BY <1>3, <1>8
  <2> HIDE DEF i
  <2>2. Cleared(cl, num)[i] = cl.slots[i]
    BY <1>9, <2>1
  <2> QED BY <2>2 DEF i
<1> QED BY <1>6, <1>10 DEF P

\* The slots that are still held after message num are of the last messages.
LEMMA NotTooOld ==
  ASSUME SnInv, NEW num \in Nat, cl.seq < num, NEW i \in 0..(PacketBackup - 1),
         i # num % PacketBackup, Cleared(cl, num)[i].valid
  PROVE  /\ Cleared(cl, num)[i] = cl.slots[i] /\ cl.slots[i].valid
         /\ num < cl.slots[i].num + PacketBackup
<1> DEFINE P == PacketBackup
           x == cl.slots[i].num
           from == IF num - (cl.snap + 1) >= P THEN num - (P - 1) ELSE cl.snap + 1
<1>1. /\ SnTyped /\ cl.snap \in Nat /\ cl.seq \in Nat /\ cl.snap <= cl.seq /\ P \in Nat /\ P > 0
  BY StateType, Sizes DEF SnInv, Counted
<1>2. Cleared(cl, num)[i] = cl.slots[i] /\ cl.slots[i].valid
  BY <1>1, ClearedType
<1>3. /\ x \in Nat /\ x % P = i /\ x \in 1..cl.snap /\ cl.snap < x + P
  BY <1>1, <1>2, SlotFields DEF SnInv, SlotsHold, SlotHolds
<1>4. num < x + P
  <2> SUFFICES ASSUME ~(num < x + P) PROVE FALSE
    OBVIOUS
  <2>0. ASSUME NEW j \in Nat, x < j, j % P = x % P PROVE x + P <= j
    BY <1>3, <2>0, OwnSlot
  <2> DEFINE lo == num - P + 1
  <2> HIDE DEF x
  <2>1. x + P <= num
    BY <1>1, <1>3
  <2>2. lo \in Nat /\ x < lo /\ lo + P - 1 = num
    BY <1>1, <1>3, <2>1
  <2> HIDE DEF lo
  <2>3. PICK j \in lo..(lo + P - 1) : j % P = i
    BY <2>2, EverySlot DEF P
  <2> HIDE DEF P
  <2>4. j \in Nat /\ lo <= j /\ j <= num /\ j # num
    <3>1. i # num % P
      BY DEF P
    <3> QED BY <2>2, <2>3, <3>1
  <2>5. x + P <= j
    <3>1. x < j
      BY <1>3, <2>2, <2>4
    <3> QED BY <1>3, <2>0, <2>3, <2>4, <3>1
  <2>6. j \in from..(num - 1)
    BY <1>1, <1>3, <2>2, <2>4, <2>5
  <2> HIDE DEF from
  <2>7. Cleared(cl, num) = [n \in 0..(P - 1) |->
          IF \E k \in from..(num - 1) : k % P = n
          THEN [cl.slots[n] EXCEPT !.valid = FALSE] ELSE cl.slots[n]]
    BY DEF Cleared, from, P
  <2>8. i \in 0..(P - 1)
    BY DEF P
  <2>9. Cleared(cl, num)[i] = [cl.slots[i] EXCEPT !.valid = FALSE]
    BY <2>3, <2>6, <2>7, <2>8
  <2>10. cl.slots[i] \in ClientSlots
    BY <1>1, SlotFields
  <2>11. ~Cleared(cl, num)[i].valid
    BY <2>9, <2>10 DEF ClientSlots
  <2> QED BY <2>11
<1> QED BY <1>2, <1>4

LEMMA SnapshotParsed ==
  ASSUME SnInv, NEW i \in 1..Len(toClient), CL_ParseServerMessage(i),
         toClient[i].msg.kind = "snapshot"
  PROVE  SnInv'
<1> DEFINE p == toClient[i]
           i0 == p.num % PacketBackup
<1>1. /\ cl' = Parsed([cl EXCEPT !.seq = p.num], p.num, p.msg)
      /\ toClient' = SubSeq(toClient, i + 1, Len(toClient)) /\ UNCHANGED <<sv, toServer>>
  BY DEF CL_ParseServerMessage
<1>2. SnTyped /\ Counted
  BY DEF SnInv
<1>3. /\ p \in Pending /\ p.num \in Nat /\ p.msg \in ServerMessages
      /\ cl.seq < p.num /\ p.num < sv.out
      /\ toClient' \in Seq(Packets) /\ Len(toClient') <= MaxInFlight
      /\ Pending' \subseteq Pending /\ \A q \in Pending' : p.num < q.num
      /\ \A k \in 1..Len(toClient') : p.num < toClient'[k].num /\ toClient'[k].num < sv.out
      /\ \A k, j \in 1..Len(toClient') : k < j => toClient'[k].num < toClient'[j].num
  BY <1>1, <1>2, MessageArrives
<1>4. p \in Snapshots
  BY <1>3 DEF Snapshots
<1> HIDE DEF p
<1>5. PICK list \in Seq(Entities), list2 \in Seq(Entities) :
        /\ Len(list) \in 0..MaxEntities /\ Len(list) = Len(p.msg.is)
        /\ Len(list2) \in {Len(list), Len(list) + 1}
        /\ [n \in 1..Len(list) |-> list2[n]] = list
        /\ cl.state = "primed" => list = p.msg.is
        /\ cl' \in ClientStates
        /\ cl'.seq = p.num /\ cl'.snap = p.num /\ cl'.epoch = cl.epoch
        /\ cl'.state = cl.state /\ cl'.gs = cl.gs
        /\ cl'.parsed = cl.parsed + Len(list)
        /\ cl'.ring = Written(cl.ring, ParseRing, cl.parsed, list2)
        /\ cl'.slots[i0] =
             [valid |-> TRUE, num |-> p.num, first |-> cl.parsed, n |-> Len(list),
              is |-> p.msg.is]
        /\ \A n \in 0..(PacketBackup - 1) : n # i0 => cl'.slots[n] = Cleared(cl, p.num)[n]
  BY <1>1, <1>3, <1>4, ParsedState
<1>6. /\ cl.seq \in Nat /\ cl.snap \in Nat /\ cl.gs \in Nat /\ sv.out \in Nat
      /\ cl.parsed \in Nat /\ cl.snap <= cl.seq /\ cl.gs <= cl.seq
      /\ PacketBackup \in Nat /\ PacketBackup > 0 /\ Margin \in Nat
      /\ MaxEntities \in Nat /\ Len(list) \in Nat /\ Len(list) <= MaxEntities
  <2>1. PacketBackup \in Nat /\ PacketBackup > 0 /\ Margin \in Nat /\ MaxEntities \in Nat
    BY Sizes
  <2>2. Len(list) \in Nat /\ Len(list) <= MaxEntities
    BY <1>5, <2>1
  <2> QED BY <1>2, <2>1, <2>2, StateType DEF Counted
<1>7. i0 \in 0..(PacketBackup - 1)
  BY <1>3, SlotType
<1> HIDE DEF i0
<1>8. SnTyped'
  BY <1>1, <1>2, <1>3, <1>5 DEF SnTyped
<1>9. Gamestates' \subseteq Gamestates /\ Snapshots' \subseteq Snapshots /\ Acks' = Acks
  BY <1>1, <1>3 DEF Gamestates, Snapshots, Acks
\* The slots that are still valid.
<1>10. ASSUME NEW n \in 0..(PacketBackup - 1), n # i0, cl'.slots[n].valid
       PROVE  /\ cl'.slots[n] = cl.slots[n] /\ cl.slots[n].valid
              /\ p.num < cl.slots[n].num + PacketBackup
  <2>1. Cleared(cl, p.num)[n].valid /\ cl'.slots[n] = Cleared(cl, p.num)[n]
    BY <1>5, <1>10
  <2> QED BY <1>3, <1>10, <2>1, NotTooOld DEF i0
<1>11. ASSUME NEW k \in 1..cl.snap, Held(k), p.num - k < PacketBackup
       PROVE  /\ cl'.slots[k % PacketBackup] = cl.slots[k % PacketBackup]
              /\ k \in 1..p.num
  <2>1. k \in Nat
    BY <1>6
  <2>2. k % PacketBackup # p.num % PacketBackup
        /\ Cleared(cl, p.num)[k % PacketBackup] = cl.slots[k % PacketBackup]
    BY <1>3, <1>11, HeldKept
  <2>3. k % PacketBackup \in 0..(PacketBackup - 1)
    BY <2>1, SlotType
  <2>4. cl'.slots[k % PacketBackup] = cl.slots[k % PacketBackup]
    BY <1>5, <2>2, <2>3 DEF i0
  <2>5. k \in 1..p.num
    BY <1>3, <1>6
  <2> QED BY <2>4, <2>5
<1>12. Counted'
  <2>1. p.num <= p.num /\ cl.gs <= p.num
    BY <1>3, <1>6
  <2> QED BY <1>1, <1>2, <1>3, <1>5, <2>1 DEF Counted
<1>13. OneGamestate'
  BY <1>1, <1>5, <1>9, GamestateQuiet DEF SnInv
<1>14. Answers'
  <2>1. cl'.seq >= cl.seq
    BY <1>3, <1>5, <1>6, SMTT(30)
  <2> QED BY <1>2, <1>5, <1>8, <1>9, <2>1, AnswersQuiet DEF SnInv
<1>15. LastSent'
  <2> SUFFICES ASSUME sv.state = "primed" PROVE LastSent'
    BY <1>1 DEF LastSent
  <2>1. (\A q \in Gamestates : q.msg.epoch = sv.epoch)
        /\ (sv.gsSent = 0 => \E j \in 1..Len(sv.queue) : sv.queue[j].kind = "gamestate")
    BY DEF SnInv, LastSent
  <2>2. CASE sv.gsSent = 0
    BY <1>1, <1>9, <2>1, <2>2 DEF LastSent
  <2>3. CASE sv.gsSent # 0
    <3>1. /\ sv.gsSent \in {sv.gsNum, sv.gsNum + 1} /\ sv.gsSent < sv.out
          /\ cl.gs <= sv.gsSent /\ (cl.gs = sv.gsSent => cl.epoch = sv.epoch)
          /\ \A m \in Acks : m.ack = sv.gsSent => m.gs = sv.gsSent
          /\ \A q \in Pending : q.num = sv.gsSent <=> IsGamestate(q)
      BY <2>3 DEF SnInv, LastSent
    <3>2. p.num # sv.gsSent
      BY <1>2, <1>3, <1>4, <3>1, Kinds
    <3> QED BY <1>1, <1>3, <1>5, <1>9, <2>1, <2>3, <3>1, <3>2 DEF LastSent, IsGamestate
  <2> QED BY <2>2, <2>3
<1>16. FramesKept'
  <2>1. ASSUME NEW q \in Snapshots', Current(q)' PROVE Kept(q.num, q.msg.is)'
    <3>1. Current(q)
      BY <1>1, <1>5, <1>9, <2>1, CurrentQuiet
    <3>2. Kept(q.num, q.msg.is)
      BY <1>9, <2>1, <3>1 DEF SnInv, FramesKept
    <3> QED BY <1>1, <3>2 DEF Kept
  <2>2. ASSUME cl.epoch = sv.epoch, NEW n \in 0..(PacketBackup - 1), cl'.slots[n].valid,
               NEW k, NEW l, k = cl'.slots[n].num, l = cl'.slots[n].is
        PROVE  Kept(k, l)'
    <3>1. CASE n = i0
      <4>1. Kept(p.num, p.msg.is)
        BY <1>4, <2>2 DEF SnInv, FramesKept, Current
      <4>2. k = p.num /\ l = p.msg.is
        BY <1>5, <2>2, <3>1
      <4>3. Kept(k, l)
        BY <4>1, <4>2
      <4> QED BY <1>1, <4>3 DEF Kept
    <3>2. CASE n # i0
      <4>1. cl'.slots[n] = cl.slots[n] /\ cl.slots[n].valid
        BY <1>10, <2>2, <3>2
      <4>2. Kept(cl.slots[n].num, cl.slots[n].is)
        BY <2>2, <4>1 DEF SnInv, FramesKept
      <4>3. Kept(k, l)
        BY <2>2, <4>1, <4>2
      <4> QED BY <1>1, <4>3 DEF Kept
    <3> QED BY <3>1, <3>2
  <2>3. cl'.epoch = cl.epoch /\ sv'.epoch = sv.epoch
    BY <1>1, <1>5
  <2> QED BY <2>1, <2>2, <2>3 DEF FramesKept
<1>17. Decodable'
  <2> SUFFICES ASSUME NEW q \in Snapshots' PROVE Decodes(q)'
    BY DEF Decodable
  <2>1. /\ q \in Snapshots /\ Decodes(q) /\ q.num \in Nat /\ p.num < q.num
        /\ q.msg.delta \in Nat
    BY <1>2, <1>3, <1>9, PendingType, Kinds DEF SnInv, Decodable, Snapshots
  <2>2. CASE q.msg.delta = 0
    <3>1. \A e : OfMap(q, e) => OfMap(q, e)'
      BY <1>5, <1>9 DEF OfMap
    <3> QED BY <2>1, <2>2, <3>1 DEF Decodes, FromNothing
  <2>3. CASE q.msg.delta # 0
    <3> DEFINE k == q.num - q.msg.delta
    <3>1. /\ FromBase(q) /\ k \in 1..cl.snap /\ Held(k)
          /\ q.msg.delta < PacketBackup - Margin
      <4>1. k \in 1..cl.snap /\ Held(k)
        BY <2>1, <2>3, BaseHeld
      <4>2. FromBase(q)
        BY <2>1, <2>3 DEF Decodes
      <4> QED BY <4>1, <4>2 DEF FromBase
    <3>2. p.num - k < PacketBackup
      <4> DEFINE x == p.num
                 y == q.num
                 d == q.msg.delta
      <4>1. x \in Nat /\ y \in Nat /\ d \in Nat /\ x < y /\ d < PacketBackup - Margin
        BY <1>3, <2>1, <3>1
      <4> HIDE DEF x, y, d
      <4>2. x - (y - d) < PacketBackup
        BY <1>6, <4>1
      <4> QED BY <4>2 DEF x, y, d
    <3> HIDE DEF k
    <3>3. cl'.slots[k % PacketBackup] = cl.slots[k % PacketBackup] /\ k \in 1..p.num
      BY <1>11, <3>1, <3>2
    <3>4. k > 0 /\ k <= p.num
      BY <1>3, <3>3
    <3>5. /\ cl.state = "primed" /\ \A g \in Gamestates : g.num > q.num
          /\ q.msg.ents = Encoded(AsMap(SlotOf(k).is), AsMap(q.msg.is), Baseline(cl.epoch))
      BY <3>1 DEF FromBase, k
    <3>6. Held(k)' /\ SlotOf(k)' = SlotOf(k)
      BY <3>1, <3>3 DEF Held, SlotOf, k
    <3>7. FromBase(q)'
      <4>1. k' = k
        BY DEF k
      <4> QED BY <1>5, <1>9, <3>1, <3>4, <3>5, <3>6, <4>1 DEF FromBase, k
    <3> QED BY <2>3, <3>7 DEF Decodes
  <2> QED BY <2>2, <2>3
<1>18. BasesHeld'
  <2>1. ASSUME NEW k, Usable(k) PROVE Usable(k)'
    <3>1. k \in 1..cl.snap /\ (sv.out - k < PacketBackup - Margin => Held(k))
      BY <2>1 DEF Usable
    <3>2. k \in Nat /\ k \in 1..p.num
      BY <1>3, <1>6, <3>1, SMTT(30)
    <3>3. ASSUME sv.out - k < PacketBackup - Margin PROVE Held(k)'
      <4>1. Held(k)
        BY <3>1, <3>3
      <4>2. p.num - k < PacketBackup
        BY <1>3, <1>6, <3>2, <3>3
      <4>3. cl'.slots[k % PacketBackup] = cl.slots[k % PacketBackup]
        BY <1>11, <3>1, <4>1, <4>2
      <4> QED BY <4>1, <4>3 DEF Held, SlotOf
    <3> QED BY <1>1, <1>5, <3>2, <3>3 DEF Usable
  <2> QED BY <1>1, <1>5, <1>9, <2>1 DEF BasesHeld, SnInv
<1>19. SlotsHold'
  <2>0. /\ cl'.parsed = cl.parsed + Len(list) /\ cl'.seq = p.num /\ cl'.snap = p.num
        /\ cl'.state = cl.state /\ Len(list2) \in {Len(list), Len(list) + 1}
        /\ list2 \in Seq(Entities) /\ Len(list2) \in Nat
    BY <1>5
  <2>1. ASSUME NEW k, k = p.num PROVE Held(k)'
    BY <1>5, <2>1 DEF Held, SlotOf, i0
  <2>2. ASSUME NEW n \in 0..(PacketBackup - 1), cl'.slots[n].valid PROVE SlotHolds(n)'
    <3> DEFINE s == cl'.slots[n]
    <3>1. CASE n = i0
      <4>1. /\ s.num = p.num /\ s.first = cl.parsed /\ s.n = Len(list) /\ s.is = p.msg.is
        BY <1>5, <3>1
      <4>2. /\ s.num % PacketBackup = n /\ s.num \in 1..p.num /\ p.num < s.num + PacketBackup
            /\ s.first + s.n <= cl'.parsed
        <5>1. p.num \in Nat /\ p.num \in 1..p.num /\ p.num < p.num + PacketBackup
          BY <1>3, <1>6
        <5>2. s.first + s.n <= cl'.parsed
          BY <1>6, <2>0, <4>1
        <5> QED BY <3>1, <4>1, <5>1, <5>2 DEF i0
      <4>3. cl'.parsed - s.first = Len(list) /\ p.num - s.num + 1 = 1 /\ 1 * MaxEntities = MaxEntities
        BY <1>3, <1>5, <1>6, <4>1, SMTT(30)
      <4>4. Read(cl'.ring, ParseRing, s.first, s.n) = list
        <5>1. Len(list) <= Len(list2) /\ Len(list) <= ParseRing /\ ParseRing \in Nat /\ ParseRing > 0
          BY <1>6, <2>0, RingSize
        <5>2. Read(Written(cl.ring, ParseRing, cl.parsed, list2), ParseRing, cl.parsed, Len(list))
                = [j \in 1..Len(list) |-> list2[j]]
          <6> DEFINE d == ParseRing
                     x == cl.parsed
                     m == Len(list)
                     ring == cl.ring
          <6>1. /\ d \in Nat /\ d > 0 /\ x \in Nat /\ m \in Nat /\ m <= Len(list2) /\ m <= d
            BY <1>6, <5>1
          <6> HIDE DEF d, x, m, ring
          <6>2. Read(Written(ring, d, x, list2), d, x, m) = [j \in 1..m |-> list2[j]]
            BY <2>0, <6>1, ReadWritten
          <6> QED BY <6>2 DEF d, x, m, ring
        <5> QED BY <1>5, <4>1, <5>2
      <4>5. cl'.parsed - s.first <= (cl'.seq - s.num + 1) * MaxEntities
        BY <1>6, <2>0, <4>3
      <4> HIDE DEF s
      <4>6. cl'.state = "primed" => Read(cl'.ring, ParseRing, s.first, s.n) = s.is
        BY <1>5, <4>1, <4>4
      <4> QED BY <1>5, <4>2, <4>5, <4>6 DEF SlotHolds, s
    <3>2. CASE n # i0
      <4> DEFINE o == cl.slots[n]
      <4>1. s = o /\ o.valid /\ p.num < o.num + PacketBackup
        BY <1>10, <2>2, <3>2
      <4>2. /\ o.num \in Nat /\ o.first \in Nat /\ o.n \in Nat
        BY <1>2, SlotFields
      <4>3. /\ o.num % PacketBackup = n /\ o.num \in 1..cl.snap
            /\ o.first + o.n <= cl.parsed
            /\ cl.parsed - o.first <= (cl.seq - o.num + 1) * MaxEntities
            /\ cl.state = "primed" /\ cl.parsed < o.first + ParseRing =>
                 Read(cl.ring, ParseRing, o.first, o.n) = o.is
        BY <4>1 DEF SnInv, SlotsHold, SlotHolds
      <4> HIDE DEF s, o
      <4>4. o.num \in 1..p.num /\ o.first + o.n <= cl'.parsed
        <5>1. o.num \in 1..cl.snap /\ o.first + o.n <= cl.parsed /\ cl.snap <= cl.seq
              /\ cl.seq < p.num /\ p.num \in Nat
          BY <1>3, <1>6, <4>3
        <5>2. o.num \in 1..p.num
          BY <1>6, <4>2, <5>1, SMTT(30)
        <5>3. o.first + o.n <= cl'.parsed
          BY <1>6, <2>0, <4>2, <5>1
        <5> QED BY <5>2, <5>3
      <4>5. cl'.parsed - o.first <= (p.num - o.num + 1) * MaxEntities
        <5> DEFINE a == cl.seq - o.num + 1
                   b == p.num - o.num + 1
        <5>1. a \in Int /\ b \in Int /\ a + 1 \in Int /\ a + 1 <= b
          <6> DEFINE x == p.num
                     y == o.num
                     z == cl.seq
          <6>1. x \in Nat /\ y \in Nat /\ z \in Nat /\ z < x
            BY <1>3, <1>6, <4>2
          <6> HIDE DEF x, y, z
          <6>2. z - y + 1 \in Int /\ x - y + 1 \in Int /\ z - y + 1 + 1 <= x - y + 1
            BY <6>1
          <6> QED BY <6>2 DEF x, y, z
        <5> HIDE DEF a, b
        <5>2. (a + 1) * MaxEntities <= b * MaxEntities /\ b * MaxEntities \in Int
          BY <1>6, <5>1, Times
        <5>3. (a + 1) * MaxEntities = a * MaxEntities + MaxEntities /\ a * MaxEntities \in Int
          <6>1. a <= a
            BY <5>1
          <6> QED BY <1>6, <5>1, <6>1, Times
        <5>4. cl.parsed - o.first <= a * MaxEntities
          BY <4>3 DEF a
        <5>5. cl'.parsed - o.first <= b * MaxEntities
          <6> DEFINE u == a * MaxEntities
                     v == b * MaxEntities
                     n1 == Len(list)
          <6>1. /\ u \in Int /\ v \in Int /\ n1 \in Nat /\ MaxEntities \in Nat
                /\ n1 <= MaxEntities /\ u + MaxEntities <= v /\ cl.parsed - o.first <= u
                /\ cl.parsed \in Nat /\ o.first \in Nat /\ cl'.parsed = cl.parsed + n1
            BY <1>6, <2>0, <4>2, <5>2, <5>3, <5>4
          <6> HIDE DEF u, v, n1
          <6>2. cl'.parsed - o.first <= v
            BY <6>1
          <6> QED BY <6>2 DEF v
        <5> QED BY <5>5 DEF b
      <4>6. ASSUME cl.state = "primed", cl'.parsed < o.first + ParseRing
            PROVE  Read(cl'.ring, ParseRing, o.first, o.n) = o.is
        <5>1. ParseRing \in Nat /\ ParseRing > 0
          BY RingSize
        <5>2. /\ cl.parsed < o.first + ParseRing
              /\ cl.parsed + Len(list2) <= o.first + ParseRing
          <6> DEFINE x == cl.parsed
                     y == Len(list)
                     z == Len(list2)
                     w == o.first + ParseRing
          <6>1. /\ x \in Nat /\ y \in Nat /\ z \in {y, y + 1} /\ w \in Nat
                /\ x + y < w
            BY <1>6, <2>0, <4>2, <4>6, <5>1, SMTT(30)
          <6> HIDE DEF x, y, z, w
          <6>2. x < w /\ x + z <= w
            BY <6>1
          <6> QED BY <6>2 DEF x, z, w
        <5>3. Read(Written(cl.ring, ParseRing, cl.parsed, list2), ParseRing, o.first, o.n)
                = Read(cl.ring, ParseRing, o.first, o.n)
          <6>1. o.n > 0 => o.first + o.n <= cl.parsed
            BY <4>3
          <6> DEFINE d == ParseRing
                     x == cl.parsed
                     f == o.first
                     m == o.n
                     ring == cl.ring
          <6>2. /\ d \in Nat /\ d > 0 /\ x \in Nat /\ f \in Nat /\ m \in Nat
                /\ m > 0 => f + m <= x
                /\ x + Len(list2) <= f + d
            BY <1>6, <4>2, <5>1, <5>2, <6>1
          <6> HIDE DEF d, x, f, m, ring
          <6>3. Read(Written(ring, d, x, list2), d, f, m) = Read(ring, d, f, m)
            BY <2>0, <6>2, ReadKept
          <6> QED BY <6>3 DEF d, x, f, m, ring
        <5> QED BY <1>5, <4>3, <4>6, <5>2, <5>3
      <4>7. /\ s.num % PacketBackup = n /\ s.num \in 1..cl'.snap
            /\ cl'.snap < s.num + PacketBackup
        BY <2>0, <4>1, <4>3, <4>4
      <4>8. /\ s.first + s.n <= cl'.parsed
            /\ cl'.parsed - s.first <= (cl'.seq - s.num + 1) * MaxEntities
        BY <2>0, <4>1, <4>4, <4>5
      <4>9. cl'.state = "primed" /\ cl'.parsed < s.first + ParseRing =>
              Read(cl'.ring, ParseRing, s.first, s.n) = s.is
        BY <2>0, <4>1, <4>6
      <4> QED BY <4>7, <4>8, <4>9 DEF SlotHolds, s
    <3> QED BY <3>1, <3>2
  <2> QED BY <2>0, <2>1, <2>2 DEF SlotsHold
<1> QED BY <1>8, <1>12, <1>13, <1>14, <1>15, <1>16, <1>17, <1>18, <1>19 DEF SnInv

-----------------------------------------------------------------------------
(* The whole session.                                                        *)

\* While the client downloads files nothing is sent here.
Untouched ==
  /\ sv = InitServer("primed", 1, 2, 1) /\ cl = InitClient(1, 1)
  /\ toClient = <<>> /\ toServer = <<>>

SessionInv == SnInv /\ part \in {"files", "game"} /\ (part = "files" => Untouched)

LEMMA StartType ==
  /\ \A state \in {"connected", "primed"}, out \in 1..MaxOut, gs \in Int :
       InitServer(state, 1, out, gs) \in ServerStates
  /\ \A epoch \in 0..MaxEpoch, seq \in Nat : InitClient(epoch, seq) \in ClientStates
<1>1. 0 \in 0..MaxEntities /\ 1 \in 1..MaxEpoch /\ -1 \in Int /\ 0 \in Nat
  BY Sizes
<1>2. Nobody \in Entities
  BY DEF Nobody, Entity, Entities
<1>3. [first |-> 0, n |-> 0] \in ServerFrames
  BY <1>1 DEF ServerFrames
<1>4. NoSnapshot \in ClientSlots
  BY <1>1 DEF NoSnapshot, ClientSlots, EntityLists
<1>5. <<>> \in Seq(ServerMessages)
  OBVIOUS
<1>6. /\ [i \in 0..(PacketBackup - 1) |-> [first |-> 0, n |-> 0]]
           \in [0..(PacketBackup - 1) -> ServerFrames]
      /\ [i \in 0..(ServerRing - 1) |-> Nobody] \in [0..(ServerRing - 1) -> Entities]
      /\ [i \in 0..(PacketBackup - 1) |-> NoSnapshot] \in [0..(PacketBackup - 1) -> ClientSlots]
      /\ [i \in 0..(ParseRing - 1) |-> Nobody] \in [0..(ParseRing - 1) -> Entities]
  BY <1>2, <1>3, <1>4
<1>7. ASSUME NEW state \in {"connected", "primed"}, NEW out \in 1..MaxOut, NEW gs \in Int
      PROVE  InitServer(state, 1, out, gs) \in ServerStates
  <2>1. (IF gs < 0 THEN 0 ELSE gs) \in Nat
    OBVIOUS
  <2> QED BY <1>1, <1>5, <1>6, <2>1 DEF InitServer, ServerStates
<1>8. ASSUME NEW epoch \in 0..MaxEpoch, NEW seq \in Nat
      PROVE  InitClient(epoch, seq) \in ClientStates
  BY <1>1, <1>6 DEF InitClient, ClientStates
<1> QED BY <1>7, <1>8

\* Nothing is under way at first.
LEMMA Start ==
  ASSUME toClient = <<>>, toServer = <<>>, sv \in ServerStates, cl \in ClientStates,
         sv.queue = <<>>, sv.delta = -1, cl.snap = 0,
         \A i \in 0..(PacketBackup - 1) : ~cl.slots[i].valid,
         cl.seq < sv.out, cl.gs <= cl.seq, sv.gsNum <= sv.out, sv.state # "active",
         cl.epoch <= sv.epoch, cl.state = "connected", LastSent
  PROVE  SnInv
<1>1. SnTyped
  BY Sizes DEF SnTyped
<1>2. Waiting = {} /\ Pending = {} /\ Acks = {} /\ Gamestates = {} /\ Snapshots = {}
  <2>1. Len(toClient) = 0 /\ Len(toServer) = 0 /\ Len(sv.queue) = 0
    OBVIOUS
  <2>2. 1..0 = {}
    OBVIOUS
  <2> QED BY <2>1, <2>2 DEF Waiting, Pending, Acks, Gamestates, Snapshots
<1>3. cl.seq \in Nat /\ sv.out \in Nat
  BY <1>1, StateType
<1>4. Counted
  <2>1. cl.snap <= cl.seq /\ sv.delta < sv.out
    BY <1>3
  <2>2. 1..Len(toClient) = {} /\ 2..Len(sv.queue) = {}
    OBVIOUS
  <2> QED BY <2>1, <2>2 DEF Counted
<1>5. OneGamestate
  BY <1>2 DEF OneGamestate, Joined
<1>6. Answers /\ Decodable
  BY <1>2 DEF Answers, Decodable
<1>7. FramesKept /\ SlotsHold
  BY <1>2 DEF FramesKept, SlotsHold
<1>8. BasesHeld
  BY <1>2 DEF BasesHeld
<1> QED BY <1>1, <1>4, <1>5, <1>6, <1>7, <1>8 DEF SnInv

LEMMA GameStarts == SnInit => SnInv
<1> SUFFICES ASSUME SnInit PROVE SnInv
  OBVIOUS
<1>1. /\ sv = InitServer("connected", 1, 1, -1) /\ cl = InitClient(0, 0)
      /\ toClient = <<>> /\ toServer = <<>>
  BY DEF SnInit
<1>2. sv \in ServerStates /\ cl \in ClientStates
  BY <1>1, StartType, Sizes
<1>3. /\ sv.queue = <<>> /\ sv.delta = -1 /\ sv.out = 1 /\ sv.gsNum = -1
      /\ sv.state = "connected" /\ sv.epoch = 1
  BY <1>1 DEF InitServer
<1>4. /\ cl.snap = 0 /\ cl.seq = 0 /\ cl.gs = 0 /\ cl.epoch = 0 /\ cl.state = "connected"
      /\ \A i \in 0..(PacketBackup - 1) : ~cl.slots[i].valid
  BY <1>1 DEF InitClient, NoSnapshot
<1>5. LastSent
  BY <1>3 DEF LastSent
<1> QED BY <1>1, <1>2, <1>3, <1>4, <1>5, Start

LEMMA FilesStart == Untouched => SnInv /\ ~Joined /\ Gamestates = {} /\ sv.state = "primed"
<1> SUFFICES ASSUME Untouched
             PROVE  SnInv /\ ~Joined /\ Gamestates = {} /\ sv.state = "primed"
  OBVIOUS
<1>1. /\ sv = InitServer("primed", 1, 2, 1) /\ cl = InitClient(1, 1)
      /\ toClient = <<>> /\ toServer = <<>>
  BY DEF Untouched
<1>2. sv \in ServerStates /\ cl \in ClientStates
  BY <1>1, StartType, Sizes
<1>3. /\ sv.queue = <<>> /\ sv.delta = -1 /\ sv.out = 2 /\ sv.gsNum = 1 /\ sv.gsSent = 1
      /\ sv.state = "primed" /\ sv.epoch = 1
  BY <1>1 DEF InitServer
<1>4. /\ cl.snap = 0 /\ cl.seq = 1 /\ cl.gs = 1 /\ cl.epoch = 1 /\ cl.state = "connected"
      /\ \A i \in 0..(PacketBackup - 1) : ~cl.slots[i].valid
  BY <1>1 DEF InitClient, NoSnapshot
<1>5. Pending = {} /\ Acks = {} /\ Gamestates = {}
  <2>1. 1..Len(toClient) = {} /\ 1..Len(toServer) = {} /\ 1..Len(sv.queue) = {}
    BY <1>1, <1>3
  <2> QED BY <2>1 DEF Waiting, Pending, Acks, Gamestates
<1>6. LastSent
  BY <1>3, <1>4, <1>5 DEF LastSent
<1>7. SnInv
  BY <1>1, <1>2, <1>3, <1>4, <1>6, Start
<1> QED BY <1>3, <1>4, <1>5, <1>7 DEF Joined

LEMMA GameStepKeeps ==
  ASSUME SnInv, SnNext
  PROVE  SnInv'
<1>1. CASE SV_Netchan_TransmitNextFragment
  BY <1>1, TransmitKeeps
<1>2. ASSUME NEW view \in Views, NEW big \in BOOLEAN, SV_SendClientSnapshot(view, big)
      PROVE  SnInv'
  BY <1>2, SendKeeps
<1>3. ASSUME NEW n \in 1..MaxEntities, OtherClientSnapshot(n) PROVE SnInv'
  BY <1>3, OtherKeeps
<1>4. CASE SV_SpawnServer
  BY <1>4, SpawnKeeps
<1>5. ASSUME NEW i \in 1..Len(toServer), SV_ExecuteClientMessage(i) PROVE SnInv'
  BY <1>5, ExecuteKeeps
<1>6. ASSUME NEW moves \in BOOLEAN, CL_WritePacket(moves) PROVE SnInv'
  BY <1>6, AnswerKeeps
<1>7. ASSUME NEW i \in 1..Len(toClient), CL_ParseServerMessage(i) PROVE SnInv'
  <2>1. toClient[i] \in Packets
    BY DEF SnInv, SnTyped
  <2>2. toClient[i].msg.kind \in {"gamestate", "snapshot"}
    BY <2>1, MessageKinds DEF Packets
  <2> QED BY <1>7, <2>2, GamestateParsed, SnapshotParsed
<1> QED BY <1>1, <1>2, <1>3, <1>4, <1>5, <1>6, <1>7 DEF SnNext, SnServer, SnClient

LEMMA NothingKeeps ==
  ASSUME SnInv, sv' = sv, cl' = cl, toClient' = toClient, toServer' = toServer
  PROVE  SnInv'
<1>1. SnTyped /\ sv \in ServerStates /\ toServer' \in Seq(ClientMessages)
      /\ Len(toServer') <= MaxInFlight
  BY DEF SnInv, SnTyped
<1>2. /\ sv.delta \in Int /\ sv.entity \in BOOLEAN
      /\ sv.state \in {"connected", "primed", "active"}
  BY <1>1, StateType
<1>3. sv.delta < sv.out /\ (sv.state = "active" /\ sv.delta > 0 => Usable(sv.delta))
  BY DEF SnInv, Counted, BasesHeld
<1>4. sv' = [sv EXCEPT !.delta = sv.delta, !.state = sv.state, !.entity = sv.entity]
  BY <1>1 DEF ServerStates
<1>5. Acks' = Acks
  BY DEF Acks
<1> QED BY <1>1, <1>2, <1>3, <1>4, <1>5, MovedKeeps

LEMMA SessionInvAlways == Spec => []SessionInv
<1>1. Init => SessionInv
  <2> SUFFICES ASSUME Init PROVE SessionInv
    OBVIOUS
  <2>1. CASE client = Downloaded
    BY <2>1, GameStarts DEF Init, SessionInv
  <2>2. CASE client # Downloaded
    <3>1. part = "files" /\ Untouched
      BY <2>2 DEF Init, SnInitMissingFiles, Untouched
    <3> QED BY <3>1, FilesStart DEF SessionInv
  <2> QED BY <2>1, <2>2
<1>2. SessionInv /\ [Next]_vars => SessionInv'
  <2> SUFFICES ASSUME SessionInv, [Next]_vars PROVE SessionInv'
    OBVIOUS
  <2>1. ASSUME UNCHANGED snVars PROVE SnInv' /\ (Untouched' <=> Untouched)
    <3>1. sv' = sv /\ cl' = cl /\ toClient' = toClient /\ toServer' = toServer
      BY <2>1 DEF snVars
    <3>2. SnInv'
      BY <3>1, NothingKeeps DEF SessionInv
    <3> QED BY <3>1, <3>2 DEF Untouched
  <2>2. CASE DownloadFiles
    BY <2>1, <2>2 DEF DownloadFiles, SessionInv
  <2>3. CASE DoneDownload
    <3>1. /\ part' = "game" /\ Untouched /\ SV_DoneDownload
      BY <2>3 DEF DoneDownload, SessionInv
    <3>2. SnInv /\ ~Joined /\ Gamestates = {} /\ sv.state = "primed"
      BY <3>1, FilesStart
    <3>3. sv' = Gamestate(sv) /\ UNCHANGED <<cl, toClient, toServer>>
      BY <3>1, <3>2 DEF SV_DoneDownload
    <3>4. toServer' \in Seq(ClientMessages) /\ Len(toServer') <= MaxInFlight /\ Acks' \subseteq Acks
      BY <3>2, <3>3 DEF SnInv, SnTyped, Acks
    <3>5. SnInv'
      BY <3>2, <3>3, <3>4, GamestateQueued
    <3> QED BY <3>1, <3>5 DEF SessionInv
  <2>4. CASE PlayGame
    BY <2>4, GameStepKeeps DEF PlayGame, SessionInv
  <2>5. CASE UNCHANGED vars
    BY <2>1, <2>5 DEF vars, SessionInv
  <2> QED BY <2>2, <2>3, <2>4, <2>5 DEF Next
<1> QED BY <1>1, <1>2, PTL DEF Spec

\* The variables keep their types, the numbers their bounds, and what one side
\* remembers of the other's numbers has been sent, in every part of the session.
THEOREM SessionTypeCorrect == Spec => []TypeOK
<1>1. SessionInv => SnTypeOK /\ part \in {"files", "game"}
  <2> SUFFICES ASSUME SessionInv PROVE SnTypeOK
    BY DEF SessionInv
  <2>1. SnTyped /\ Counted
    BY DEF SessionInv, SnInv
  <2>2. \A i \in 0..(PacketBackup - 1) :
          sv.frames[i].n <= MaxEntities /\ cl.slots[i].n <= MaxEntities
    <3> SUFFICES ASSUME NEW i \in 0..(PacketBackup - 1)
                 PROVE  sv.frames[i].n <= MaxEntities /\ cl.slots[i].n <= MaxEntities
      OBVIOUS
    <3>1. sv.frames[i] \in ServerFrames /\ cl.slots[i].n \in 0..MaxEntities
      BY <2>1, StateType, SlotFields
    <3>2. sv.frames[i].n \in 0..MaxEntities
      BY <3>1 DEF ServerFrames
    <3> QED BY <3>1, <3>2, Sizes
  <2>3. /\ sv.state \in {"connected", "primed", "active"} /\ cl.state \in {"connected", "primed"}
        /\ sv.out \in 1..MaxOut /\ sv.epoch \in 1..MaxEpoch /\ cl.epoch \in 0..MaxEpoch
    BY <2>1, StateType
  <2> QED BY <2>1, <2>2, <2>3 DEF SnTypeOK, SnTyped, Counted
<1>2. DlTypeOK /\ SnTypeOK /\ part \in {"files", "game"} => TypeOK
  BY DEF TypeOK
<1> QED BY SessionInvAlways, DownloadTypeCorrect, <1>1, <1>2, PTL

\* Every snapshot cgame gets is the one it asked for, with the entities the server
\* built it from, for every size of the rings and whatever was lost
\* (CL_GetSnapshot, CL_ParseSnapshot, SV_EmitPacketEntities).
THEOREM SnapshotsDecoded == Spec => []SnapshotsIntact
<1>1. SessionInv => SnapshotsIntact
  <2> SUFFICES ASSUME SnInv, NEW n \in 1..cl.snap, Available(n)
               PROVE  LET s == cl.slots[n % PacketBackup] IN
                      s.num = n /\ Read(cl.ring, ParseRing, s.first, s.n) = s.is
    BY DEF SnapshotsIntact, SessionInv
  <2> DEFINE i == n % PacketBackup
             s == cl.slots[i]
             P == PacketBackup
  <2>1. /\ cl.state = "primed" /\ cl.snap - n < P /\ s.valid
        /\ cl.parsed - s.first < ParseRing
    BY DEF Available
  <2>2. /\ SnTyped /\ cl.snap \in Nat /\ cl.parsed \in Nat /\ n \in Nat /\ n <= cl.snap
        /\ P \in Nat /\ ParseRing \in Nat
    BY StateType, RingSize, Sizes DEF SnInv
  <2>3. i \in 0..(P - 1)
    BY <2>2, SlotType
  <2>4. /\ s.num % P = i /\ s.num \in 1..cl.snap /\ cl.snap < s.num + P
        /\ cl.state = "primed" /\ cl.parsed < s.first + ParseRing =>
             Read(cl.ring, ParseRing, s.first, s.n) = s.is
    BY <2>1, <2>3 DEF SnInv, SlotsHold, SlotHolds
  <2>5. s.first \in Nat /\ s.num \in Nat
    BY <2>2, <2>3, SlotFields
  <2>6. s.num < n => s.num + P <= n
    BY <2>2, <2>4, <2>5, OwnSlot
  <2>7. n < s.num => n + P <= s.num
    BY <2>2, <2>4, <2>5, OwnSlot
  <2> DEFINE x == s.num
  <2>8. x \in Nat /\ x <= cl.snap /\ cl.snap < x + P /\ (x < n => x + P <= n) /\ (n < x => n + P <= x)
    BY <2>2, <2>4, <2>5, <2>6, <2>7
  <2>9. cl.parsed < s.first + ParseRing
    <3> HIDE DEF s
    <3> QED BY <2>1, <2>2, <2>5
  <2> HIDE DEF x, P
  <2>10. x = n
    BY <2>1, <2>2, <2>8
  <2> QED BY <2>1, <2>4, <2>9, <2>10 DEF x
<1> QED BY SessionInvAlways, <1>1, PTL

\* "should never happen" (CL_ParseSnapshot) does not, for every size of the rings:
\* a delta that arrives has its base at the client.
THEOREM BaseAlwaysThere == Spec => []DeltaHasBase
<1>1. SessionInv => DeltaHasBase
  <2> SUFFICES ASSUME SnInv, NEW i \in 1..Len(toClient), toClient[i].msg.kind = "snapshot"
               PROVE  HasBase(cl, toClient[i].num, toClient[i].msg)
    BY DEF DeltaHasBase, SessionInv
  <2>1. toClient[i] \in Snapshots
    BY DEF Snapshots, Pending
  <2> QED BY <2>1, BaseThere
<1> QED BY SessionInvAlways, <1>1, PTL

\* The server sends the gamestate again when a message of the client shows that it
\* was lost, and only then (SV_ExecuteClientMessage).
THEOREM LostGamestateSeen == Spec => LostGamestateResent
<1>1. ASSUME SessionInv, NEW i \in 1..Len(toServer), SV_ExecuteClientMessage(i),
             sv.state = "primed"
      PROVE  LET m == toServer[i] IN
             Resent <=> (m.epoch # sv.epoch /\ ShowsLoss(m))
  <2> DEFINE m == toServer[i]
  <2>1. sv' = Executed(sv, m) /\ m \in Acks /\ SnInv /\ SnTyped /\ sv \in ServerStates
    BY <1>1 DEF SV_ExecuteClientMessage, Acks, SessionInv, SnInv, SnTyped
  <2> SUFFICES Resent <=> (m.epoch # sv.epoch /\ ShowsLoss(m))
    OBVIOUS
  <2> HIDE DEF m
  <2>2. Says(m) /\ m.ack \in Nat /\ m.gs \in Nat /\ m.epoch \in Nat
    BY <2>1, PendingType DEF SnInv, Answers
  <2>3. /\ sv.gsNum \in Int /\ sv.gsSent \in Nat /\ cl.gs \in Nat
        /\ sv.queue \in Seq(ServerMessages) /\ Len(sv.queue) \in Nat
    BY <2>1, StateType
  <2>4. LastSent
    BY <2>1 DEF SnInv
  <2>5. CASE ~ForeignMap(sv, m)
    <3>1. sv' = Moved(sv, m)
      BY <2>1, <2>5 DEF Executed
    <3>2. sv'.gsNum = sv.gsNum /\ sv'.queue = sv.queue
      BY <2>1, <3>1 DEF Moved, ServerStates
    <3> QED BY <2>3, <2>5, <3>2 DEF Resent, ForeignMap
  <2>6. CASE ForeignMap(sv, m) /\ ~DroppedGamestate(sv, m)
    <3>1. sv' = sv /\ m.ack <= sv.gsNum
      BY <1>1, <2>1, <2>2, <2>3, <2>6 DEF Executed, DroppedGamestate
    <3>2. sv.gsSent > 0 => sv.gsNum <= sv.gsSent
      BY <1>1, <2>3, <2>4 DEF LastSent
    <3>3. ~ShowsLoss(m)
      BY <2>2, <2>3, <3>1, <3>2 DEF ShowsLoss
    <3> QED BY <2>3, <3>1, <3>3 DEF Resent
  <2>7. CASE ForeignMap(sv, m) /\ DroppedGamestate(sv, m)
    <3>1. sv' = Gamestate(sv) /\ m.ack > sv.gsNum /\ m.epoch # sv.epoch
      BY <2>1, <2>7 DEF Executed, DroppedGamestate, ForeignMap
    <3>2. Gamestates = {}
      BY <2>1, <3>1, ForeignSays
    <3>3. sv.gsSent # 0
      <4> SUFFICES ASSUME sv.gsSent = 0 PROVE FALSE
        OBVIOUS
      <4>1. PICK j \in 1..Len(sv.queue) : sv.queue[j].kind = "gamestate"
        BY <1>1, <2>4 DEF LastSent
      <4>2. [num |-> sv.out + j - 1, msg |-> sv.queue[j]] \in Gamestates
        BY <4>1 DEF Gamestates, Pending, Waiting
      <4> QED BY <3>2, <4>2
    <3>4. /\ sv.gsSent \in {sv.gsNum, sv.gsNum + 1}
          /\ cl.gs <= sv.gsSent /\ (cl.gs = sv.gsSent => cl.epoch = sv.epoch)
          /\ m.ack = sv.gsSent => m.gs = sv.gsSent
      BY <1>1, <2>1, <2>4, <3>3 DEF LastSent
    <3>5. m.gs # sv.gsSent
      <4> SUFFICES ASSUME m.gs = sv.gsSent PROVE FALSE
        OBVIOUS
      <4>1. m.gs = cl.gs
        BY <2>2, <2>3, <3>4 DEF Says
      <4> QED BY <2>2, <3>1, <3>4, <4>1 DEF Says
    <3>6. m.gs <= cl.gs
      BY <2>2 DEF Says
    <3>7. ShowsLoss(m)
      BY <2>2, <2>3, <3>1, <3>3, <3>4, <3>5, <3>6 DEF ShowsLoss
    <3>8. Resent
      <4> DEFINE g == [kind |-> "gamestate", epoch |-> sv.epoch]
      <4>1. sv'.queue = Append(sv.queue, g)
        BY <2>1, <3>1 DEF Gamestate, Queued, ServerStates
      <4>2. Len(Append(sv.queue, g)) = Len(sv.queue) + 1
        BY <2>3
      <4> QED BY <2>3, <4>1, <4>2 DEF Resent
    <3> QED BY <3>1, <3>7, <3>8
  <2> QED BY <2>5, <2>6, <2>7
<1>2. SessionInv =>
        [\A i \in 1..Len(toServer) :
           (SV_ExecuteClientMessage(i) /\ sv.state = "primed") =>
             LET m == toServer[i] IN
             Resent <=> (m.epoch # sv.epoch /\ ShowsLoss(m))]_snVars
  BY <1>1
<1> QED BY SessionInvAlways, <1>2, PTL DEF LostGamestateResent
=============================================================================
