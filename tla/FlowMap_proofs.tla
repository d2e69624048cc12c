---------------------------- MODULE FlowMap_proofs ----------------------------
(* What the operations of map.c do to a map, for every capacity, every set of   *)
(* keys and every set of values: the lemmas the theorems about the map, the     *)
(* manager and the agents rest on.                                              *)
EXTENDS FlowMap, FiniteSetTheorems, WellFoundedInduction, TLAPS

----------------------------------------------------------------------------
(* Every nonempty set of naturals has a least element: what a loop that    *)
(* stops at the first match finds, and the number for which a claim about  *)
(* all of them would fail first.                                           *)

\* The initial segments 0..n of the numbers of S are finite sets, and strict
\* inclusion of finite sets is well founded: the least segment belongs to the
\* least number.
LEMMA NatMinimum ==
    ASSUME NEW S \in SUBSET Nat, S # {}
    PROVE  \E m \in S : \A n \in S : m <= n
<1> DEFINE segments == {0 .. n : n \in S}
<1>1. segments \subseteq FiniteSubsetsOf(Nat) /\ segments # {}
  <2>1. \A n \in S : 0 .. n \in SUBSET Nat /\ IsFiniteSet(0 .. n)
    BY FS_Interval
  <2> QED
    BY <2>1 DEF FiniteSubsetsOf
<1>2. \E t \in segments : \A u \in segments : <<u, t>> \notin StrictSubsetOrdering(Nat)
  <2> HIDE DEF segments
  <2>1. IsWellFoundedOn(StrictSubsetOrdering(Nat), FiniteSubsetsOf(Nat))
    BY FS_StrictSubsetOrderingWellFounded
  <2> QED
    BY <1>1, <2>1, WFMin
<1>3. PICK m \in S : \A n \in S : <<0 .. n, 0 .. m>> \notin StrictSubsetOrdering(Nat)
  BY <1>2
<1>4. ASSUME NEW n \in S PROVE m <= n
  <2>1. SUFFICES ASSUME n < m PROVE FALSE
    OBVIOUS
  <2>2. 0 .. n \subseteq 0 .. m /\ 0 .. n # 0 .. m
    <3>1. m \in 0 .. m /\ m \notin 0 .. n
      BY <2>1
    <3> QED
      BY <2>1, <3>1
  <2>3. <<0 .. n, 0 .. m>> \in (SUBSET Nat) \X (SUBSET Nat)
    OBVIOUS
  <2> QED
    BY <1>3, <2>2, <2>3 DEF StrictSubsetOrdering
<1> QED
  BY <1>4

----------------------------------------------------------------------------
(* Remainders, of which a probe sequence consists.                         *)

LEMMA Division ==
    ASSUME NEW c \in Nat \ {0}, NEW k \in Nat
    PROVE  k = c * (k \div c) + (k % c) /\ k \div c \in Nat /\ k % c \in 0 .. (c - 1)
OBVIOUS

LEMMA Remainder ==
    ASSUME NEW c \in Nat \ {0}, NEW q \in Int, NEW r \in 0 .. (c - 1)
    PROVE  (c * q + r) % c = r
OBVIOUS

\* A probe advances slot by slot and wraps around once.
LEMMA Advance ==
    ASSUME NEW c \in Nat \ {0}, NEW k \in Nat, NEW d \in 0 .. (c - 1)
    PROVE  (k + d) % c = IF (k % c) + d < c THEN (k % c) + d ELSE (k % c) + d - c
<1> DEFINE q == k \div c
           r == k % c
<1>1. k = c * q + r /\ q \in Nat /\ r \in 0 .. (c - 1)
  BY Division
<1> HIDE DEF q, r
<1>2. CASE r + d < c
  <2>1. k + d = c * q + (r + d) /\ r + d \in 0 .. (c - 1)
    BY <1>1, <1>2
  <2>2. (c * q + (r + d)) % c = r + d
    BY <1>1, <2>1, Remainder
  <2> QED
    BY <1>2, <2>1, <2>2 DEF r
<1>3. CASE r + d >= c
  <2>1. r + d - c \in 0 .. (c - 1) /\ q + 1 \in Int /\ ~(r + d < c)
    BY <1>1, <1>3
  <2>2. (c * (q + 1) + (r + d - c)) % c = r + d - c
    BY <2>1, Remainder
  <2>3. c * (q + 1) + (r + d - c) = k + d
    BY <1>1
  <2> QED
    BY <2>1, <2>2, <2>3 DEF r
<1> QED
  BY <1>1, <1>2, <1>3

----------------------------------------------------------------------------
(* Maps and probes.                                                        *)

\* A Map struct whose arrays have the length its capacity says.
MapOver(m, K, V) ==
    /\ m = [capacity |-> m.capacity, entryCount |-> m.entryCount, keys |-> m.keys,
            values |-> m.values, lock |-> m.lock]
    /\ m.capacity \in Nat \ {0}
    /\ m.entryCount \in Int
    /\ m.keys \in [Slots(m) -> K \cup {Empty}]
    /\ m.values \in [Slots(m) -> V \cup {Uninit}]

\* A probe visits slots of the map, a different one each time, and all of them.
LEMMA ProbesPermute ==
    ASSUME NEW m, NEW key \in Nat, m.capacity \in Nat \ {0}
    PROVE  /\ \A d \in Slots(m) : ProbeSlot(m, key, d) \in Slots(m)
           /\ \A d, e \in Slots(m) : ProbeSlot(m, key, d) = ProbeSlot(m, key, e) => d = e
           /\ \A s \in Slots(m) : \E d \in Slots(m) : ProbeSlot(m, key, d) = s
<1> DEFINE c == m.capacity
           r == key % c
<1>0. r \in 0 .. (c - 1) /\ c \in Nat \ {0}
  BY Division
<1>1. \A d \in 0 .. (c - 1) : (key + d) % c = IF r + d < c THEN r + d ELSE r + d - c
  BY Advance
<1>2. /\ \A d \in 0 .. (c - 1) : (key + d) % c \in 0 .. (c - 1)
      /\ \A d, e \in 0 .. (c - 1) : (key + d) % c = (key + e) % c => d = e
      /\ \A s \in 0 .. (c - 1) : \E d \in 0 .. (c - 1) : (key + d) % c = s
  <2> HIDE DEF r, c
  <2>1. ASSUME NEW d \in 0 .. (c - 1) PROVE (key + d) % c \in 0 .. (c - 1)
    BY <1>0, <1>1
  <2>2. ASSUME NEW d \in 0 .. (c - 1), NEW e \in 0 .. (c - 1), (key + d) % c = (key + e) % c
        PROVE  d = e
    BY <1>0, <1>1, <2>2
  <2>3. ASSUME NEW s \in 0 .. (c - 1) PROVE \E d \in 0 .. (c - 1) : (key + d) % c = s
    <3>1. CASE s >= r
      <4>1. s - r \in 0 .. (c - 1) /\ r + (s - r) < c /\ r + (s - r) = s
        BY <1>0, <3>1
      <4>2. (key + (s - r)) % c = s
        BY <1>1, <4>1
      <4> QED
        BY <4>1, <4>2
    <3>2. CASE s < r
      <4>1. /\ s - r + c \in 0 .. (c - 1) /\ ~(r + (s - r + c) < c)
            /\ r + (s - r + c) - c = s
        BY <1>0, <3>2
      <4>2. (key + (s - r + c)) % c = s
        BY <1>1, <4>1
      <4> QED
        BY <4>1, <4>2
    <3> QED
      BY <1>0, <3>1, <3>2
  <2> QED
    BY <2>1, <2>2, <2>3
<1> QED
  BY <1>2 DEF ProbeSlot, Slots

\* Where a probe stops: at a slot that is free or has the key, and at no earlier one.
LEMMA ProbeStops ==
    ASSUME NEW m, NEW key \in Nat, m.capacity \in Nat \ {0}, ProbeEnds(m, key)
    PROVE  /\ ProbeDistance(m, key) \in Slots(m)
           /\ StopSlot(m, key) \in Slots(m)
           /\ m.keys[StopSlot(m, key)] \in {Empty, key}
           /\ \A d \in Slots(m) : d < ProbeDistance(m, key) =>
                m.keys[ProbeSlot(m, key, d)] \notin {Empty, key}
<1>1. Stops(m, key) \in SUBSET Nat /\ Stops(m, key) # {}
  BY DEF Stops, Slots, ProbeEnds
<1>2. \E d \in Stops(m, key) : \A e \in Stops(m, key) : d <= e
  BY <1>1, NatMinimum
<1>3. /\ ProbeDistance(m, key) \in Stops(m, key)
      /\ \A e \in Stops(m, key) : ProbeDistance(m, key) <= e
  BY <1>2 DEF ProbeDistance
<1>4. \A d \in Slots(m) : d < ProbeDistance(m, key) => d \notin Stops(m, key)
  BY <1>1, <1>3 DEF Slots
<1> QED
  BY <1>3, <1>4, ProbesPermute DEF Stops, StopSlot

\* There is no other such place.
LEMMA StopsOnce ==
    ASSUME NEW m, NEW key \in Nat, m.capacity \in Nat \ {0}, NEW d \in Slots(m),
           m.keys[ProbeSlot(m, key, d)] \in {Empty, key},
           \A e \in Slots(m) : e < d => m.keys[ProbeSlot(m, key, e)] \notin {Empty, key}
    PROVE  ProbeEnds(m, key) /\ StopSlot(m, key) = ProbeSlot(m, key, d)
<1>1. d \in Stops(m, key)
  BY DEF Stops
<1>2. ProbeEnds(m, key)
  BY <1>1 DEF ProbeEnds
<1>3. /\ ProbeDistance(m, key) \in Slots(m)
      /\ m.keys[ProbeSlot(m, key, ProbeDistance(m, key))] \in {Empty, key}
      /\ \A e \in Slots(m) : e < ProbeDistance(m, key) =>
           m.keys[ProbeSlot(m, key, e)] \notin {Empty, key}
  BY <1>2, ProbeStops DEF StopSlot
<1>4. ProbeDistance(m, key) = d
  <2>1. ProbeDistance(m, key) \in Nat /\ d \in Nat
    BY <1>3 DEF Slots
  <2> QED
    BY <1>3, <2>1
<1> QED
  BY <1>2, <1>4 DEF StopSlot

\* A probe that does not end has seen every slot in use.
LEMMA EndlessProbe ==
    ASSUME NEW m, NEW key \in Nat, m.capacity \in Nat \ {0}, ~ProbeEnds(m, key)
    PROVE  Occupied(m) = Slots(m)
<1>1. ASSUME NEW s \in Slots(m) PROVE m.keys[s] # Empty
  <2>1. PICK d \in Slots(m) : ProbeSlot(m, key, d) = s
    BY ProbesPermute
  <2> QED
    BY <2>1 DEF ProbeEnds, Stops
<1> QED
  BY <1>1 DEF Occupied

\* map_index never answers -1: a probe that ends does not come back to where it
\* started, so line 132 of map.c is never true and map_get never returns NULL.
LEMMA IndexFound ==
    ASSUME NEW m, NEW key \in Nat, m.capacity \in Nat \ {0}, ProbeEnds(m, key)
    PROVE  map_index(m, key) = StopSlot(m, key) /\ map_index(m, key) # NotFound
<1>1. 0 \in Slots(m) /\ ProbeDistance(m, key) \in Slots(m) /\ StopSlot(m, key) \in Slots(m)
  BY ProbeStops DEF Slots
<1>2. ProbeSlot(m, key, 0) = key % m.capacity
  BY DEF ProbeSlot
<1>3. StopSlot(m, key) = key % m.capacity => ProbeDistance(m, key) = 0
  BY <1>1, <1>2, ProbesPermute DEF StopSlot
<1> QED
  BY <1>1, <1>3 DEF map_index, NotFound, Slots

LEMMA MapFields ==
    ASSUME NEW K, NEW V, NEW m, MapOver(m, K, V)
    PROVE  /\ m.capacity \in Nat \ {0} /\ m.capacity \in Nat
           /\ m.entryCount \in Int
           /\ m.keys \in [Slots(m) -> K \cup {Empty}]
           /\ m.values \in [Slots(m) -> V \cup {Uninit}]
BY DEF MapOver

----------------------------------------------------------------------------
(* Writing one slot.                                                       *)

\* What the slots in use hold.
Entries(m) == {<<m.keys[i], m.values[i]>> : i \in Occupied(m)}

DistinctKeys(m) == \A i, j \in Occupied(m) : m.keys[i] = m.keys[j] => i = j

\* Every key is where its own probe stops.
Homed(m) ==
    \A i \in Occupied(m) : ProbeEnds(m, m.keys[i]) /\ StopSlot(m, m.keys[i]) = i

LEMMA HomedKeys ==
    ASSUME NEW m, Homed(m)
    PROVE  /\ DistinctKeys(m)
           /\ \A key \in StoredKeys(m) : ProbeEnds(m, key) /\ m.keys[StopSlot(m, key)] = key
BY DEF Homed, DistinctKeys, StoredKeys, Occupied

LEMMA OccupiedFinite ==
    ASSUME NEW m, m.capacity \in Nat
    PROVE  /\ IsFiniteSet(Slots(m)) /\ Cardinality(Slots(m)) = m.capacity
           /\ IsFiniteSet(Occupied(m)) /\ Cardinality(Occupied(m)) \in 0 .. m.capacity
<1>1. IsFiniteSet(Slots(m)) /\ Cardinality(Slots(m)) = m.capacity
  <2>1. 0 \in Int /\ m.capacity - 1 \in Int
    OBVIOUS
  <2>2. /\ IsFiniteSet(0 .. (m.capacity - 1))
        /\ Cardinality(0 .. (m.capacity - 1)) =
             IF 0 > m.capacity - 1 THEN 0 ELSE m.capacity - 1 - 0 + 1
    BY <2>1, FS_Interval
  <2> QED
    BY <2>2 DEF Slots
<1>2. Occupied(m) \in SUBSET Slots(m)
  BY DEF Occupied
<1>3. IsFiniteSet(Occupied(m)) /\ Cardinality(Occupied(m)) <= Cardinality(Slots(m))
  BY <1>1, <1>2, FS_Subset
<1>4. Cardinality(Occupied(m)) \in Nat
  BY <1>3, FS_CardinalityType
<1> QED
  BY <1>1, <1>3, <1>4

\* With fewer slots in use than there are, every probe ends.
LEMMA RoomForProbe ==
    ASSUME NEW m, m.capacity \in Nat \ {0}, NEW key \in Nat,
           Cardinality(Occupied(m)) < m.capacity
    PROVE  ProbeEnds(m, key)
<1>1. SUFFICES ASSUME ~ProbeEnds(m, key) PROVE FALSE
  OBVIOUS
<1>2. Cardinality(Occupied(m)) = m.capacity
  BY <1>1, EndlessProbe, OccupiedFinite
<1> QED
  BY <1>2

\* A key of K, a value of V, and a map over them in which the key finds its slot.
Placing(K, V, m, key, value) ==
    /\ K \in SUBSET Nat
    /\ MapOver(m, K, V)
    /\ key \in K
    /\ value \in V \cup {Uninit}
    /\ ProbeEnds(m, key)

LEMMA PlacedFields ==
    ASSUME NEW K, NEW V, NEW m, NEW key, NEW value, Placing(K, V, m, key, value)
    PROVE  /\ MapOver(Place(m, key, value), K, V)
           /\ Place(m, key, value).capacity = m.capacity
           /\ Place(m, key, value).entryCount = m.entryCount + 1
           /\ Place(m, key, value).lock = m.lock
           /\ Slots(Place(m, key, value)) = Slots(m)
           /\ \A i \in Slots(m) :
                /\ Place(m, key, value).keys[i] =
                     IF i = StopSlot(m, key) THEN key ELSE m.keys[i]
                /\ Place(m, key, value).values[i] =
                     IF i = StopSlot(m, key) THEN value ELSE m.values[i]
           /\ StopSlot(m, key) \in Slots(m)
           /\ m.keys[StopSlot(m, key)] \in {Empty, key}
<1> DEFINE p == Place(m, key, value)
           s == StopSlot(m, key)
<1>0. /\ K \in SUBSET Nat /\ key \in K /\ key \in Nat /\ value \in V \cup {Uninit}
      /\ MapOver(m, K, V) /\ ProbeEnds(m, key)
      /\ m.capacity \in Nat \ {0} /\ m.keys \in [Slots(m) -> K \cup {Empty}]
  BY MapFields DEF Placing
<1>1. s \in Slots(m) /\ m.keys[s] \in {Empty, key}
  BY <1>0, ProbeStops
<1>2. p = [capacity |-> m.capacity, entryCount |-> m.entryCount + 1,
           keys |-> [m.keys EXCEPT ![s] = key],
           values |-> [m.values EXCEPT ![s] = value], lock |-> m.lock]
  <2> DEFINE withKey   == [m EXCEPT !.keys[s] = key]
             withValue == [withKey EXCEPT !.values[s] = value]
             counted   == [withValue EXCEPT !.entryCount = m.entryCount + 1]
  <2>1. p = counted
    BY DEF Place
  <2>2. withKey = [capacity |-> m.capacity, entryCount |-> m.entryCount,
                   keys |-> [m.keys EXCEPT ![s] = key], values |-> m.values, lock |-> m.lock]
    BY <1>0 DEF MapOver
  <2> HIDE DEF p, withKey
  <2>3. withValue = [capacity |-> m.capacity, entryCount |-> m.entryCount,
                     keys |-> [m.keys EXCEPT ![s] = key],
                     values |-> [m.values EXCEPT ![s] = value], lock |-> m.lock]
    BY <2>2
  <2> HIDE DEF withValue
  <2> QED
    BY <2>1, <2>3
<1>3. Slots(p) = Slots(m)
  BY <1>2 DEF Slots
<1> HIDE DEF p, s
<1>4. MapOver(p, K, V)
  BY <1>0, <1>1, <1>2, <1>3 DEF MapOver
<1>5. \A i \in Slots(m) : /\ p.keys[i] = IF i = s THEN key ELSE m.keys[i]
                         /\ p.values[i] = IF i = s THEN value ELSE m.values[i]
  BY <1>0, <1>1, <1>2 DEF MapOver
<1> QED
  BY <1>1, <1>2, <1>3, <1>4, <1>5 DEF p, s

\* The key is stored, and no other one is lost.
LEMMA PlacedKeys ==
    ASSUME NEW K, NEW V, NEW m, NEW key, NEW value, Placing(K, V, m, key, value)
    PROVE  /\ StoredKeys(Place(m, key, value)) = StoredKeys(m) \cup {key}
           /\ Occupied(Place(m, key, value)) = Occupied(m) \cup {StopSlot(m, key)}
           /\ Cardinality(Occupied(Place(m, key, value))) <= Cardinality(Occupied(m)) + 1
<1> DEFINE p == Place(m, key, value)
           s == StopSlot(m, key)
<1>0. /\ K \in SUBSET Nat /\ key \in K /\ key \in Nat /\ value \in V \cup {Uninit}
      /\ MapOver(m, K, V) /\ ProbeEnds(m, key)
      /\ m.capacity \in Nat \ {0} /\ m.keys \in [Slots(m) -> K \cup {Empty}]
  BY MapFields DEF Placing
<1>1. Slots(p) = Slots(m) /\ s \in Slots(m) /\ m.keys[s] \in {Empty, key}
  BY PlacedFields
<1>2. key # Empty
  BY <1>0 DEF Empty
<1>3. \A i \in Slots(m) : p.keys[i] = IF i = s THEN key ELSE m.keys[i]
  BY PlacedFields
<1> HIDE DEF p, s
<1>4. StoredKeys(p) = StoredKeys(m) \cup {key}
  <2>1. StoredKeys(p) \subseteq StoredKeys(m) \cup {key}
    BY <1>1, <1>3 DEF StoredKeys
  <2>2. key \in StoredKeys(p)
    BY <1>1, <1>2, <1>3 DEF StoredKeys
  <2>3. ASSUME NEW k \in StoredKeys(m) PROVE k \in StoredKeys(p)
    <3>1. PICK i \in Slots(m) : m.keys[i] = k /\ k # Empty
      BY DEF StoredKeys
    <3>2. CASE i = s
      BY <1>1, <2>2, <3>1, <3>2
    <3>3. CASE i # s
      BY <1>1, <1>3, <3>1, <3>3 DEF StoredKeys
    <3> QED
      BY <3>2, <3>3
  <2> QED
    BY <2>1, <2>2, <2>3
<1>5. Occupied(p) = Occupied(m) \cup {s}
  BY <1>1, <1>2, <1>3 DEF Occupied
<1>6. Cardinality(Occupied(p)) <= Cardinality(Occupied(m)) + 1
  <2>1. IsFiniteSet(Occupied(m)) /\ Cardinality(Occupied(m)) \in Nat
    BY <1>0, OccupiedFinite
  <2>2. Cardinality(Occupied(m) \cup {s}) = IF s \in Occupied(m) THEN Cardinality(Occupied(m))
                                           ELSE Cardinality(Occupied(m)) + 1
    BY <2>1, FS_AddElement
  <2> QED
    BY <1>5, <2>1, <2>2
<1> QED
  BY <1>4, <1>5, <1>6 DEF p, s

\* Only the entry of the key changes, when its probe cannot miss it.
LEMMA PlacedEntries ==
    ASSUME NEW K, NEW V, NEW m, NEW key, NEW value, Placing(K, V, m, key, value),
           DistinctKeys(m),
           key \in StoredKeys(m) => m.keys[StopSlot(m, key)] = key
    PROVE  /\ DistinctKeys(Place(m, key, value))
           /\ Entries(Place(m, key, value)) =
                {e \in Entries(m) : e[1] # key} \cup {<<key, value>>}
<1> DEFINE p == Place(m, key, value)
           s == StopSlot(m, key)
<1>0. /\ K \in SUBSET Nat /\ key \in K /\ key \in Nat /\ value \in V \cup {Uninit}
      /\ MapOver(m, K, V) /\ ProbeEnds(m, key)
      /\ m.capacity \in Nat \ {0} /\ m.keys \in [Slots(m) -> K \cup {Empty}]
  BY MapFields DEF Placing
<1>1. Slots(p) = Slots(m) /\ s \in Slots(m) /\ m.keys[s] \in {Empty, key}
  BY PlacedFields
<1>2. Occupied(p) = Occupied(m) \cup {s}
  BY PlacedKeys
<1>3. \A i \in Occupied(m) : m.keys[i] = key => i = s
  BY <1>1 DEF DistinctKeys, Occupied, StoredKeys
<1>4. \A i \in Slots(m) : /\ p.keys[i] = IF i = s THEN key ELSE m.keys[i]
                         /\ p.values[i] = IF i = s THEN value ELSE m.values[i]
  BY PlacedFields
<1> HIDE DEF p, s
<1>5. Occupied(m) \subseteq Slots(m) /\ Occupied(p) \subseteq Slots(m)
  BY <1>1 DEF Occupied
<1>6. DistinctKeys(p)
  BY <1>2, <1>3, <1>4, <1>5 DEF DistinctKeys
<1>7. ASSUME NEW e \in Entries(p)
      PROVE  e \in {x \in Entries(m) : x[1] # key} \cup {<<key, value>>}
  <2>1. PICK i \in Occupied(p) : e = <<p.keys[i], p.values[i]>>
    BY DEF Entries
  <2>2. CASE i = s
    BY <1>4, <1>5, <2>1, <2>2
  <2>3. CASE i # s
    <3>1. i \in Occupied(m) /\ e = <<m.keys[i], m.values[i]>> /\ m.keys[i] # key
      BY <1>2, <1>3, <1>4, <1>5, <2>1, <2>3
    <3> QED
      BY <3>1 DEF Entries
  <2> QED
    BY <2>2, <2>3
<1>8. ASSUME NEW e \in Entries(m), e[1] # key
      PROVE  e \in Entries(p)
  <2>1. PICK i \in Occupied(m) : e = <<m.keys[i], m.values[i]>>
    BY DEF Entries
  <2>2. i # s
    BY <1>1, <1>8, <2>1 DEF Occupied
  <2>3. i \in Occupied(p) /\ e = <<p.keys[i], p.values[i]>>
    BY <1>2, <1>4, <1>5, <2>1, <2>2
  <2> QED
    BY <2>3 DEF Entries
<1>9. <<key, value>> \in Entries(p)
  <2>1. s \in Occupied(p) /\ p.keys[s] = key /\ p.values[s] = value
    BY <1>1, <1>2, <1>4
  <2> QED
    BY <2>1 DEF Entries
<1> QED
  BY <1>6, <1>7, <1>8, <1>9 DEF p

\* A slot in use is never given to another key, so no probe is cut short.
LEMMA PlacedHomed ==
    ASSUME NEW K, NEW V, NEW m, NEW key, NEW value, Placing(K, V, m, key, value),
           Homed(m)
    PROVE  Homed(Place(m, key, value))
<1> DEFINE p == Place(m, key, value)
           s == StopSlot(m, key)
<1>0. /\ K \in SUBSET Nat /\ key \in K /\ key \in Nat /\ value \in V \cup {Uninit}
      /\ MapOver(m, K, V) /\ ProbeEnds(m, key)
      /\ m.capacity \in Nat \ {0} /\ m.keys \in [Slots(m) -> K \cup {Empty}]
  BY MapFields DEF Placing
<1>1. /\ \A i \in Slots(m) : p.keys[i] = IF i = s THEN key ELSE m.keys[i]
      /\ p.capacity = m.capacity
      /\ Slots(p) = Slots(m) /\ s \in Slots(m) /\ m.keys[s] \in {Empty, key}
  BY PlacedFields
<1>2. Occupied(p) = Occupied(m) \cup {s}
  BY PlacedKeys
<1>3. \A k, d : ProbeSlot(p, k, d) = ProbeSlot(m, k, d)
  BY <1>1 DEF ProbeSlot
<1>4. key # Empty /\ key \in Nat
  BY <1>0 DEF Empty
<1>5. ASSUME NEW k \in Nat, ProbeEnds(m, k), p.keys[StopSlot(m, k)] = k,
             \A d \in Slots(m) :
                 d < ProbeDistance(m, k) /\ ProbeSlot(m, k, d) = s => key # k
      PROVE  ProbeEnds(p, k) /\ StopSlot(p, k) = StopSlot(m, k)
  <2> DEFINE dist == ProbeDistance(m, k)
  <2>1. /\ dist \in Slots(m)
        /\ \A d \in Slots(m) : d < dist => m.keys[ProbeSlot(m, k, d)] \notin {Empty, k}
    BY <1>0, <1>5, ProbeStops
  <2>2. \A d \in Slots(m) : ProbeSlot(m, k, d) \in Slots(m)
    BY <1>0, <1>1, ProbesPermute
  <2>3. \A d \in Slots(p) : d < dist => p.keys[ProbeSlot(p, k, d)] \notin {Empty, k}
    BY <1>1, <1>3, <1>4, <1>5, <2>1, <2>2
  <2>4. p.keys[ProbeSlot(p, k, dist)] \in {Empty, k} /\ dist \in Slots(p)
    BY <1>1, <1>3, <1>5, <2>1 DEF StopSlot
  <2>5. ProbeEnds(p, k) /\ StopSlot(p, k) = ProbeSlot(p, k, dist)
    BY <1>0, <1>1, <2>3, <2>4, StopsOnce
  <2> QED
    BY <1>3, <2>5 DEF StopSlot
<1>6. ASSUME NEW i \in Occupied(p)
      PROVE  ProbeEnds(p, p.keys[i]) /\ StopSlot(p, p.keys[i]) = i
  <2>1. CASE i = s
    <3>1. p.keys[i] = key
      BY <1>1, <2>1
    <3>2. \A d \in Slots(m) : d < ProbeDistance(m, key) => ProbeSlot(m, key, d) # s
      <4>1. ProbeDistance(m, key) \in Slots(m)
        BY <1>0, <1>4, ProbeStops
      <4>2. \A d \in Slots(m) : ProbeSlot(m, key, d) = s => d = ProbeDistance(m, key)
        BY <1>0, <1>4, <4>1, ProbesPermute DEF StopSlot
      <4> QED
        BY <4>1, <4>2 DEF Slots
    <3> QED
      BY <1>0, <1>1, <1>4, <1>5, <2>1, <3>1, <3>2
  <2>2. CASE i # s
    <3>1. i \in Occupied(m) /\ i \in Slots(m) /\ p.keys[i] = m.keys[i]
      BY <1>1, <1>2, <2>2 DEF Occupied
    <3>2. m.keys[i] \in Nat /\ ProbeEnds(m, m.keys[i]) /\ StopSlot(m, m.keys[i]) = i
      BY <1>0, <1>1, <1>4, <3>1 DEF Homed, Occupied, Empty
    <3>3. m.keys[i] # key
      BY <2>2, <3>2
    <3> QED
      BY <1>5, <3>1, <3>2, <3>3
  <2> QED
    BY <2>1, <2>2
<1> QED
  BY <1>6 DEF Homed

----------------------------------------------------------------------------
(* Growth.                                                                 *)

\* The loop that moves the entries is well defined, for maps of any size: no least
\* number of slots is left for which there would be no such function.
LEMMA MovedSteps ==
    ASSUME NEW m, m.capacity \in Nat
    PROVE  /\ Moved(m)[0] = Doubled(m)
           /\ \A n \in 1 .. m.capacity :
                Moved(m)[n] =
                  IF m.keys[n - 1] = Empty THEN Moved(m)[n - 1]
                  ELSE Place(Moved(m)[n - 1], m.keys[n - 1], m.values[n - 1])
<1> DEFINE next(x, n) == IF m.keys[n - 1] = Empty THEN x
                         ELSE Place(x, m.keys[n - 1], m.values[n - 1])
           isLoop(f, n) == f = [i \in 0 .. n |-> IF i = 0 THEN Doubled(m)
                                                 ELSE next(f[i - 1], i)]
           undefined == {n \in Nat : ~ \E f : isLoop(f, n)}
<1>1. \E f : isLoop(f, 0)
  <2>1. isLoop([i \in 0 .. 0 |-> Doubled(m)], 0)
    OBVIOUS
  <2> QED
    BY <2>1
<1>2. ASSUME NEW k \in Nat \ {0}, NEW f, isLoop(f, k - 1)
      PROVE  \E g : isLoop(g, k)
  <2> DEFINE g == [i \in 0 .. k |-> IF i = k THEN next(f[k - 1], k) ELSE f[i]]
  <2> HIDE DEF next
  <2>1. ASSUME NEW i \in 0 .. k
        PROVE  g[i] = IF i = 0 THEN Doubled(m) ELSE next(g[i - 1], i)
    <3>1. CASE i = k
      <4>1. g[i] = next(f[k - 1], k) /\ g[i - 1] = f[k - 1] /\ i # 0
        BY <3>1
      <4> QED
        BY <3>1, <4>1
    <3>2. CASE i # k
      <4>1. i \in 0 .. (k - 1) /\ g[i] = f[i]
        BY <3>2
      <4>2. i # 0 => i - 1 \in 0 .. (k - 1) /\ i - 1 # k /\ g[i - 1] = f[i - 1]
        BY <4>1
      <4>3. f[i] = IF i = 0 THEN Doubled(m) ELSE next(f[i - 1], i)
        BY <1>2, <4>1
      <4> QED
        BY <4>1, <4>2, <4>3
    <3> QED
      BY <3>1, <3>2
  <2>2. isLoop(g, k)
    BY <2>1
  <2> QED
    BY <2>2
<1>3. undefined = {}
  <2> HIDE DEF isLoop
  <2>1. SUFFICES ASSUME undefined # {} PROVE FALSE
    OBVIOUS
  <2>2. PICK k \in undefined : \A n \in undefined : k <= n
    BY <2>1, NatMinimum
  <2>3. k \in Nat \ {0} /\ ~ \E f : isLoop(f, k)
    BY <1>1, <2>2
  <2>4. k - 1 \in Nat /\ k - 1 \notin undefined
    BY <2>2, <2>3
  <2>5. PICK f : isLoop(f, k - 1)
    BY <2>4
  <2> QED
    BY <1>2, <2>3, <2>5
<1>4. \E f : isLoop(f, m.capacity)
  <2> HIDE DEF isLoop
  <2> QED
    BY <1>3
<1>5. isLoop(Moved(m), m.capacity)
  BY <1>4 DEF Moved
<1> HIDE DEF next
<1>6. \A n \in 0 .. m.capacity :
        Moved(m)[n] = IF n = 0 THEN Doubled(m) ELSE next(Moved(m)[n - 1], n)
  BY <1>5
<1>7. 0 \in 0 .. m.capacity /\ \A n \in 1 .. m.capacity : n \in 0 .. m.capacity /\ n # 0
  OBVIOUS
<1> QED
  BY <1>6, <1>7 DEF next

\* After n of the old slots, x holds what they held, each key where its probe stops.
Carried(K, V, m, n, x) ==
    /\ MapOver(x, K, V)
    /\ x.capacity = 2 * m.capacity
    /\ x.lock = m.lock
    /\ x.entryCount \in 0 .. n
    /\ Cardinality(Occupied(x)) <= x.entryCount
    /\ StoredKeys(x) = {m.keys[i] : i \in 0 .. (n - 1)} \ {Empty}
    /\ Homed(x)
    /\ DistinctKeys(m) =>
         Entries(x) = {<<m.keys[i], m.values[i]>> : i \in {j \in Occupied(m) : j < n}}

LEMMA NoneCarried ==
    ASSUME NEW K, NEW V, NEW m, MapOver(m, K, V)
    PROVE  Carried(K, V, m, 0, Doubled(m))
<1> DEFINE x == Doubled(m)
<1>1. /\ m.capacity \in Nat \ {0} /\ 2 * m.capacity \in Nat \ {0}
      /\ x = [capacity |-> 2 * m.capacity, entryCount |-> 0,
              keys |-> [i \in 0 .. (2 * m.capacity - 1) |-> Empty],
              values |-> [i \in 0 .. (2 * m.capacity - 1) |-> Uninit], lock |-> m.lock]
  BY MapFields DEF Doubled, FreshKeys, FreshValues
<1> HIDE DEF x
<1>2. MapOver(x, K, V) /\ \A i \in Slots(x) : x.keys[i] = Empty
  BY <1>1 DEF MapOver, Slots
<1>3. Occupied(x) = {} /\ StoredKeys(x) = {}
  BY <1>2 DEF Occupied, StoredKeys
<1>4. Cardinality(Occupied(x)) = 0
  BY <1>3, FS_EmptySet
<1>5. Homed(x) /\ Entries(x) = {}
  BY <1>3 DEF Homed, Entries
<1>6. {m.keys[i] : i \in 0 .. (0 - 1)} = {}
  OBVIOUS
<1>7. {<<m.keys[i], m.values[i]>> : i \in {j \in Occupied(m) : j < 0}} = {}
  <2>1. {j \in Occupied(m) : j < 0} = {}
    BY DEF Occupied, Slots
  <2> QED
    BY <2>1
<1>8. x.capacity = 2 * m.capacity /\ x.lock = m.lock /\ x.entryCount = 0
  BY <1>1
<1> QED
  BY <1>2, <1>3, <1>4, <1>5, <1>6, <1>7, <1>8 DEF Carried, x

LEMMA OneMoreCarried ==
    ASSUME NEW K \in SUBSET Nat, NEW V, NEW m, MapOver(m, K, V),
           NEW n \in 1 .. m.capacity, NEW x, Carried(K, V, m, n - 1, x)
    PROVE  Carried(K, V, m, n, IF m.keys[n - 1] = Empty THEN x
                               ELSE Place(x, m.keys[n - 1], m.values[n - 1]))
<1> DEFINE key   == m.keys[n - 1]
           value == m.values[n - 1]
           p     == Place(x, key, value)
           before(k) == {m.keys[i] : i \in 0 .. (k - 1)} \ {Empty}
           entries(k) == {<<m.keys[i], m.values[i]>> : i \in {j \in Occupied(m) : j < k}}
<1>1. /\ m.capacity \in Nat \ {0} /\ n \in Nat \ {0} /\ n <= m.capacity /\ n - 1 \in Slots(m)
      /\ key \in K \cup {Empty} /\ value \in V \cup {Uninit}
  BY MapFields DEF Slots
<1>2. /\ MapOver(x, K, V) /\ x.capacity = 2 * m.capacity /\ x.lock = m.lock
      /\ x.entryCount \in 0 .. (n - 1) /\ Cardinality(Occupied(x)) <= x.entryCount
      /\ StoredKeys(x) = before(n - 1) /\ Homed(x)
      /\ DistinctKeys(m) => Entries(x) = entries(n - 1)
  BY DEF Carried
<1>3. \A i : i \in 0 .. (n - 1) <=> i \in 0 .. (n - 1 - 1) \/ i = n - 1
  BY <1>1
<1>4. before(n) = before(n - 1) \cup ({key} \ {Empty})
  BY <1>3
<1>5. CASE key = Empty
  <2>1. before(n) = before(n - 1)
    BY <1>4, <1>5
  <2>2. \A j \in Occupied(m) : j < n <=> j < n - 1
    BY <1>1, <1>5 DEF Occupied, Slots
  <2>3. entries(n) = entries(n - 1)
    BY <2>2
  <2>4. x.entryCount \in 0 .. n
    BY <1>1, <1>2
  <2> QED
    BY <1>2, <1>5, <2>1, <2>3, <2>4 DEF Carried
<1>6. CASE key # Empty
  <2>1. Placing(K, V, x, key, value)
    <3>1. key \in Nat /\ key \in K
      BY <1>1, <1>6
    <3>2. x.capacity \in Nat \ {0} /\ Cardinality(Occupied(x)) < x.capacity
      <4>1. x.capacity \in Nat \ {0} /\ Cardinality(Occupied(x)) \in Nat
        BY <1>1, <1>2, OccupiedFinite
      <4> QED
        BY <1>1, <1>2, <4>1
    <3>3. ProbeEnds(x, key)
      BY <3>1, <3>2, RoomForProbe
    <3> QED
      BY <1>1, <1>2, <3>1, <3>3 DEF Placing
  <2> HIDE DEF p, key, value
  <2>2. /\ MapOver(p, K, V) /\ p.capacity = x.capacity
        /\ p.entryCount = x.entryCount + 1 /\ p.lock = x.lock
    BY <2>1, PlacedFields DEF p
  <2>3. /\ StoredKeys(p) = StoredKeys(x) \cup {key}
        /\ Cardinality(Occupied(p)) <= Cardinality(Occupied(x)) + 1
    BY <2>1, PlacedKeys DEF p
  <2>4. Homed(p)
    BY <1>2, <2>1, PlacedHomed DEF p
  <2>5. p.entryCount \in 0 .. n /\ Cardinality(Occupied(p)) <= p.entryCount
    <3>1. Cardinality(Occupied(p)) \in Nat /\ Cardinality(Occupied(x)) \in Nat
      <4>1. x.capacity \in Nat /\ p.capacity \in Nat
        BY <1>1, <1>2, <2>2
      <4> QED
        BY <4>1, OccupiedFinite
    <3> QED
      BY <1>1, <1>2, <2>2, <2>3, <3>1
  <2>6. StoredKeys(p) = before(n)
    <3> HIDE DEF before
    <3> QED
      BY <1>2, <1>4, <1>6, <2>3
  <2>7. ASSUME DistinctKeys(m) PROVE Entries(p) = entries(n)
    <3>1. /\ DistinctKeys(x)
          /\ key \in StoredKeys(x) => x.keys[StopSlot(x, key)] = key
      BY <1>2, HomedKeys
    <3>2. Entries(p) = {e \in Entries(x) : e[1] # key} \cup {<<key, value>>}
      BY <2>1, <3>1, PlacedEntries DEF p
    <3>3. n - 1 \in Occupied(m)
      BY <1>1, <1>6 DEF Occupied, key
    <3>4. \A j \in Occupied(m) : j < n - 1 => m.keys[j] # key
      BY <1>1, <2>7, <3>3 DEF DistinctKeys, key, Occupied, Slots
    <3>5. \A e \in Entries(x) : e[1] # key
      BY <1>2, <2>7, <3>4
    <3>6. Entries(p) = Entries(x) \cup {<<key, value>>}
      BY <3>2, <3>5
    <3>7. \A j \in Occupied(m) : j < n <=> j < n - 1 \/ j = n - 1
      BY <1>1 DEF Occupied, Slots
    <3>8. entries(n) = entries(n - 1) \cup {<<key, value>>}
      BY <3>3, <3>7 DEF key, value
    <3> HIDE DEF entries
    <3> QED
      BY <1>2, <2>7, <3>6, <3>8
  <2>8. Carried(K, V, m, n, p)
    BY <1>2, <2>2, <2>4, <2>5, <2>6, <2>7 DEF Carried
  <2> QED
    BY <1>6, <2>8 DEF p, key, value
<1> QED
  BY <1>5, <1>6

\* By the least number of slots for which it could fail.
LEMMA AllCarried ==
    ASSUME NEW K \in SUBSET Nat, NEW V, NEW m, MapOver(m, K, V)
    PROVE  Carried(K, V, m, m.capacity, map_rehash(m))
<1> DEFINE failing == {n \in 0 .. m.capacity : ~Carried(K, V, m, n, Moved(m)[n])}
<1>1. m.capacity \in Nat \ {0}
  BY MapFields
<1>2. failing = {}
  <2>1. SUFFICES ASSUME failing # {} PROVE FALSE
    OBVIOUS
  <2>2. failing \in SUBSET Nat
    BY <1>1
  <2>3. PICK n \in failing : \A k \in failing : n <= k
    BY <2>1, <2>2, NatMinimum
  <2>4. n # 0
    BY <1>1, <2>3, MovedSteps, NoneCarried
  <2>5. n \in 1 .. m.capacity /\ n - 1 \in 0 .. m.capacity /\ n - 1 \notin failing
    BY <1>1, <2>3, <2>4
  <2>6. Carried(K, V, m, n - 1, Moved(m)[n - 1])
    BY <2>5
  <2>7. Carried(K, V, m, n, IF m.keys[n - 1] = Empty THEN Moved(m)[n - 1]
                            ELSE Place(Moved(m)[n - 1], m.keys[n - 1], m.values[n - 1]))
    BY <2>5, <2>6, OneMoreCarried
  <2>8. Moved(m)[n] = IF m.keys[n - 1] = Empty THEN Moved(m)[n - 1]
                      ELSE Place(Moved(m)[n - 1], m.keys[n - 1], m.values[n - 1])
    BY <1>1, <2>5, MovedSteps
  <2> QED
    BY <2>3, <2>7, <2>8
<1> QED
  BY <1>1, <1>2 DEF map_rehash

\* Growth keeps the entries, makes every key findable and leaves room.
LEMMA Rehashed ==
    ASSUME NEW K, NEW V, NEW m, MapOver(m, K, V), K \in SUBSET Nat
    PROVE  /\ MapOver(map_rehash(m), K, V)
           /\ map_rehash(m).capacity = 2 * m.capacity
           /\ map_rehash(m).entryCount \in 0 .. m.capacity
           /\ Cardinality(Occupied(map_rehash(m))) <= map_rehash(m).entryCount
           /\ StoredKeys(map_rehash(m)) = StoredKeys(m)
           /\ Homed(map_rehash(m))
           /\ DistinctKeys(m) => Entries(map_rehash(m)) = Entries(m)
           /\ \A key \in Nat : ProbeEnds(map_rehash(m), key)
<1> DEFINE x == map_rehash(m)
<1>1. Carried(K, V, m, m.capacity, x) /\ m.capacity \in Nat \ {0}
  BY AllCarried, MapFields
<1> HIDE DEF x
<1>2. \A i \in Occupied(m) : i < m.capacity
  BY <1>1 DEF Occupied, Slots
<1>3. {j \in Occupied(m) : j < m.capacity} = Occupied(m)
  BY <1>2
<1>4. /\ MapOver(x, K, V) /\ x.capacity = 2 * m.capacity
      /\ x.entryCount \in 0 .. m.capacity /\ Cardinality(Occupied(x)) <= x.entryCount
      /\ StoredKeys(x) = StoredKeys(m) /\ Homed(x)
      /\ DistinctKeys(m) => Entries(x) = Entries(m)
  BY <1>1, <1>3 DEF Carried, StoredKeys, Entries, Slots
<1>5. ASSUME NEW key \in Nat PROVE ProbeEnds(x, key)
  <2>1. x.capacity \in Nat \ {0} /\ Cardinality(Occupied(x)) \in Nat
    BY <1>1, <1>4, OccupiedFinite
  <2>2. Cardinality(Occupied(x)) < x.capacity
    BY <1>1, <1>4, <2>1
  <2> QED
    BY <2>1, <2>2, RoomForProbe
<1> QED
  BY <1>4, <1>5 DEF x

----------------------------------------------------------------------------
(* The lock.                                                               *)

\* What a map stores does not depend on its lock or its counter.
SameArrays(r, m) == r.capacity = m.capacity /\ r.keys = m.keys /\ r.values = m.values

LEMMA SameContent ==
    ASSUME NEW r, NEW m, SameArrays(r, m)
    PROVE  /\ Slots(r) = Slots(m) /\ Occupied(r) = Occupied(m)
           /\ StoredKeys(r) = StoredKeys(m) /\ Entries(r) = Entries(m)
           /\ DistinctKeys(r) <=> DistinctKeys(m)
           /\ \A key : /\ ProbeEnds(r, key) <=> ProbeEnds(m, key)
                       /\ StopSlot(r, key) = StopSlot(m, key)
           /\ Homed(r) <=> Homed(m)
<1>1. Slots(r) = Slots(m) /\ \A k, d : ProbeSlot(r, k, d) = ProbeSlot(m, k, d)
  BY DEF SameArrays, Slots, ProbeSlot
<1>2. Occupied(r) = Occupied(m) /\ StoredKeys(r) = StoredKeys(m)
  BY <1>1 DEF SameArrays, Occupied, StoredKeys
<1>3. Entries(r) = Entries(m) /\ (DistinctKeys(r) <=> DistinctKeys(m))
  BY <1>2 DEF SameArrays, Entries, DistinctKeys
<1>4. \A key : Stops(r, key) = Stops(m, key)
  BY <1>1 DEF SameArrays, Stops
<1>5. \A key : /\ ProbeEnds(r, key) <=> ProbeEnds(m, key)
               /\ StopSlot(r, key) = StopSlot(m, key)
  <2> DEFINE least(S) == CHOOSE d \in S : \A e \in S : d <= e
  <2>1. \A key : /\ ProbeDistance(r, key) = least(Stops(r, key))
                 /\ ProbeDistance(m, key) = least(Stops(m, key))
    BY DEF ProbeDistance
  <2> HIDE DEF least
  <2>2. \A key : ProbeDistance(r, key) = ProbeDistance(m, key)
    BY <1>4, <2>1
  <2> QED
    BY <1>1, <1>4, <2>2 DEF ProbeEnds, StopSlot
<1>6. Homed(r) <=> Homed(m)
  BY <1>2, <1>5 DEF SameArrays, Homed
<1> QED
  BY <1>1, <1>2, <1>3, <1>5, <1>6

LEMMA Relocked ==
    ASSUME NEW K, NEW V, NEW m, MapOver(m, K, V), NEW l
    PROVE  /\ MapOver([m EXCEPT !.lock = l], K, V)
           /\ SameArrays([m EXCEPT !.lock = l], m)
           /\ [m EXCEPT !.lock = l].entryCount = m.entryCount
           /\ [m EXCEPT !.lock = l].lock = l
<1> DEFINE r == [m EXCEPT !.lock = l]
<1>1. r = [capacity |-> m.capacity, entryCount |-> m.entryCount, keys |-> m.keys,
           values |-> m.values, lock |-> l]
  BY DEF MapOver
<1> HIDE DEF r
<1>2. SameArrays(r, m) /\ r.entryCount = m.entryCount /\ r.lock = l
  BY <1>1 DEF SameArrays
<1>3. MapOver(r, K, V)
  BY <1>1 DEF MapOver, Slots
<1> QED
  BY <1>2, <1>3 DEF r

\* The capacity and what the lock still grants go together: growth happens once,
\* and after it the map has room for the operation that still passes.
Grown(m) ==
    /\ m.entryCount <= m.capacity
    /\ \/ m.capacity = InitialCapacity /\ m.lock = "free"
       \/ /\ m.capacity = 2 * InitialCapacity
          /\ m.lock \in {"granting", "stuck"}
          /\ m.lock = "granting" => m.entryCount <= InitialCapacity + 1

LEMMA GrownCapacity ==
    ASSUME NEW m, Grown(m)
    PROVE  m.capacity \in {InitialCapacity, 2 * InitialCapacity} /\ m.lock \in LockStates
BY DEF Grown, LockStates

LEMMA CreatedMap ==
    ASSUME NEW K, NEW V
    PROVE  /\ MapOver(map_create, K, V) /\ Grown(map_create)
           /\ Occupied(map_create) = {} /\ StoredKeys(map_create) = {}
           /\ Entries(map_create) = {} /\ Homed(map_create)
           /\ map_create.capacity = InitialCapacity
           /\ map_create.entryCount = 0 /\ Cardinality(Occupied(map_create)) = 0
<1> DEFINE x == map_create
<1>1. /\ InitialCapacity \in Nat \ {0}
      /\ x = [capacity |-> InitialCapacity, entryCount |-> 0,
              keys |-> [i \in 0 .. (InitialCapacity - 1) |-> Empty],
              values |-> [i \in 0 .. (InitialCapacity - 1) |-> Uninit], lock |-> "free"]
  BY CapacityAssumption DEF map_create, FreshKeys, FreshValues
<1> HIDE DEF x
<1>2. MapOver(x, K, V) /\ \A i \in Slots(x) : x.keys[i] = Empty
  BY <1>1 DEF MapOver, Slots
<1>3. Occupied(x) = {} /\ StoredKeys(x) = {}
  BY <1>2 DEF Occupied, StoredKeys
<1>4. Cardinality(Occupied(x)) = 0
  BY <1>3, FS_EmptySet
<1>5. Homed(x) /\ Entries(x) = {}
  BY <1>3 DEF Homed, Entries
<1>6. x.capacity = InitialCapacity /\ x.entryCount = 0 /\ x.lock = "free"
  BY <1>1
<1>7. Grown(x)
  BY <1>1, <1>6 DEF Grown
<1> QED
  BY <1>2, <1>3, <1>4, <1>5, <1>6, <1>7 DEF x

LEMMA Read ==
    ASSUME NEW K, NEW V, NEW m, MapOver(m, K, V)
    PROVE  /\ MapOver(AfterRead(m), K, V) /\ SameArrays(AfterRead(m), m)
           /\ AfterRead(m).entryCount = m.entryCount
           /\ Grown(m) => Grown(AfterRead(m))
<1>1. /\ MapOver(AfterRead(m), K, V) /\ SameArrays(AfterRead(m), m)
      /\ AfterRead(m).entryCount = m.entryCount /\ AfterRead(m).lock = Locked(m.lock)
  BY Relocked DEF AfterRead
<1>2. ASSUME Grown(m) PROVE Grown(AfterRead(m))
  <2> DEFINE r == AfterRead(m)
  <2>1. /\ r.capacity = m.capacity /\ r.entryCount = m.entryCount
        /\ r.lock = IF m.lock = "granting" THEN "stuck" ELSE m.lock
    BY <1>1 DEF SameArrays, Locked
  <2> HIDE DEF r
  <2>2. Grown(r)
    BY <1>2, <2>1 DEF Grown
  <2> QED
    BY <2>2 DEF r
<1> QED
  BY <1>1, <1>2

----------------------------------------------------------------------------
(* The operations.                                                         *)

\* An insertion that neither blocks nor spins.
Inserting(K, V, m, key, value) ==
    /\ K \in SUBSET Nat
    /\ MapOver(m, K, V)
    /\ key \in K
    /\ value \in V \cup {Uninit}
    /\ ~InsertHangs(m, key)

Roomy(m) == IF NeedsGrowth(m) THEN map_rehash(m) ELSE m

LEMMA InsertsRoomy ==
    ASSUME NEW K, NEW V, NEW m, NEW key, NEW value, Inserting(K, V, m, key, value)
    PROVE  /\ Placing(K, V, Roomy(m), key, value)
           /\ Roomy(m).capacity = IF NeedsGrowth(m) THEN 2 * m.capacity ELSE m.capacity
           /\ IF NeedsGrowth(m) THEN Roomy(m).entryCount \in 0 .. m.capacity
              ELSE Roomy(m).entryCount = m.entryCount
           /\ StoredKeys(Roomy(m)) = StoredKeys(m)
           /\ Cardinality(Occupied(Roomy(m))) <=
                IF NeedsGrowth(m) THEN Roomy(m).entryCount ELSE Cardinality(Occupied(m))
           /\ Homed(m) \/ NeedsGrowth(m) => Homed(Roomy(m))
           /\ DistinctKeys(m) => DistinctKeys(Roomy(m)) /\ Entries(Roomy(m)) = Entries(m)
<1>0. /\ K \in SUBSET Nat /\ MapOver(m, K, V) /\ key \in K /\ key \in Nat
      /\ value \in V \cup {Uninit} /\ (~NeedsGrowth(m) => ProbeEnds(m, key))
      /\ m.capacity \in Nat
  BY MapFields DEF Inserting, InsertHangs
<1>1. CASE NeedsGrowth(m)
  <2> DEFINE x == map_rehash(m)
  <2>1. /\ MapOver(x, K, V) /\ x.capacity = 2 * m.capacity /\ x.entryCount \in 0 .. m.capacity
        /\ Cardinality(Occupied(x)) <= x.entryCount /\ StoredKeys(x) = StoredKeys(m)
        /\ Homed(x) /\ (DistinctKeys(m) => Entries(x) = Entries(m)) /\ ProbeEnds(x, key)
    BY <1>0, Rehashed
  <2>2. x = Roomy(m)
    BY <1>1 DEF Roomy
  <2> HIDE DEF x
  <2>3. DistinctKeys(x) /\ Placing(K, V, x, key, value)
    BY <1>0, <2>1, HomedKeys DEF Placing
  <2> QED
    BY <1>1, <2>1, <2>2, <2>3
<1>2. CASE ~NeedsGrowth(m)
  <2>1. Roomy(m) = m /\ Placing(K, V, m, key, value)
    BY <1>0, <1>2 DEF Roomy, Placing
  <2>2. Cardinality(Occupied(m)) \in Nat
    BY <1>0, OccupiedFinite
  <2> QED
    BY <1>2, <2>1, <2>2
<1> QED
  BY <1>1, <1>2

\* What map_insert leaves behind: the key stored, no other lost, no slot uncounted;
\* and, when the key's probe cannot miss it, exactly its entry replaced.
LEMMA Inserted ==
    ASSUME NEW K, NEW V, NEW m, NEW key, NEW value, Inserting(K, V, m, key, value),
           NEW r \in map_insert(m, key, value)
    PROVE  /\ MapOver(r, K, V)
           /\ r.capacity = IF NeedsGrowth(m) THEN 2 * m.capacity ELSE m.capacity
           /\ IF NeedsGrowth(m) THEN r.entryCount \in 1 .. (m.capacity + 1)
              ELSE r.entryCount = m.entryCount + 1
           /\ r.lock \in LocksAfterInsert(m)
           /\ StoredKeys(r) = StoredKeys(m) \cup {key}
           /\ Cardinality(Occupied(r)) <=
                IF NeedsGrowth(m) THEN r.entryCount ELSE Cardinality(Occupied(m)) + 1
           /\ Homed(m) \/ NeedsGrowth(m) => Homed(r)
           /\ Homed(m) \/ (DistinctKeys(m) /\ key \notin StoredKeys(m)) =>
                /\ DistinctKeys(r)
                /\ Entries(r) = {e \in Entries(m) : e[1] # key} \cup {<<key, value>>}
<1> DEFINE x == Roomy(m)
           p == Place(x, key, value)
<1>0. m.capacity \in Nat /\ m.entryCount \in Int
  BY MapFields DEF Inserting
<1>1. /\ Placing(K, V, x, key, value)
      /\ x.capacity = IF NeedsGrowth(m) THEN 2 * m.capacity ELSE m.capacity
      /\ IF NeedsGrowth(m) THEN x.entryCount \in 0 .. m.capacity
         ELSE x.entryCount = m.entryCount
      /\ StoredKeys(x) = StoredKeys(m)
      /\ Cardinality(Occupied(x)) <=
           IF NeedsGrowth(m) THEN x.entryCount ELSE Cardinality(Occupied(m))
      /\ Homed(m) \/ NeedsGrowth(m) => Homed(x)
      /\ DistinctKeys(m) => DistinctKeys(x) /\ Entries(x) = Entries(m)
  BY InsertsRoomy
<1>2. PICK l \in LocksAfterInsert(m) : r = [p EXCEPT !.lock = l]
  BY DEF map_insert, Roomy
<1> HIDE DEF x, p
<1>3. /\ MapOver(p, K, V) /\ p.capacity = x.capacity /\ p.entryCount = x.entryCount + 1
  BY <1>1, PlacedFields DEF p
<1>4. /\ StoredKeys(p) = StoredKeys(x) \cup {key}
      /\ Cardinality(Occupied(p)) <= Cardinality(Occupied(x)) + 1
  BY <1>1, PlacedKeys DEF p
<1>5. /\ MapOver(r, K, V) /\ SameArrays(r, p) /\ r.entryCount = p.entryCount /\ r.lock = l
  BY <1>2, <1>3, Relocked
<1>6. /\ Occupied(r) = Occupied(p) /\ StoredKeys(r) = StoredKeys(p) /\ Entries(r) = Entries(p)
      /\ DistinctKeys(r) <=> DistinctKeys(p)
      /\ Homed(r) <=> Homed(p)
  BY <1>5, SameContent
<1>7. Cardinality(Occupied(r)) <=
        IF NeedsGrowth(m) THEN r.entryCount ELSE Cardinality(Occupied(m)) + 1
  <2>1. x.capacity \in Nat /\ p.capacity \in Nat /\ x.entryCount \in Int
    BY <1>0, <1>1, <1>3
  <2>2. /\ Cardinality(Occupied(p)) \in Nat /\ Cardinality(Occupied(x)) \in Nat
        /\ Cardinality(Occupied(m)) \in Nat
    BY <1>0, <2>1, OccupiedFinite
  <2> QED
    BY <1>1, <1>3, <1>4, <1>5, <1>6, <2>1, <2>2
<1>8. Homed(m) \/ NeedsGrowth(m) => Homed(r)
  <2>1. Homed(x) => Homed(p)
    BY <1>1, PlacedHomed DEF p
  <2> QED
    BY <1>1, <1>6, <2>1
<1>9. ASSUME Homed(m) \/ (DistinctKeys(m) /\ key \notin StoredKeys(m))
      PROVE  /\ DistinctKeys(r)
             /\ Entries(r) = {e \in Entries(m) : e[1] # key} \cup {<<key, value>>}
  <2>1. DistinctKeys(m) /\ DistinctKeys(x) /\ Entries(x) = Entries(m)
    BY <1>1, <1>9, HomedKeys
  <2>2. key \in StoredKeys(x) => x.keys[StopSlot(x, key)] = key
    BY <1>1, <1>9, HomedKeys
  <2>3. /\ DistinctKeys(p)
        /\ Entries(p) = {e \in Entries(x) : e[1] # key} \cup {<<key, value>>}
    BY <1>1, <2>1, <2>2, PlacedEntries DEF p
  <2> QED
    BY <1>6, <2>1, <2>3
<1>10. IF NeedsGrowth(m) THEN r.entryCount \in 1 .. (m.capacity + 1)
       ELSE r.entryCount = m.entryCount + 1
  BY <1>0, <1>1, <1>3, <1>5
<1> QED
  BY <1>1, <1>2, <1>3, <1>4, <1>5, <1>6, <1>7, <1>8, <1>9, <1>10 DEF SameArrays

LEMMA InsertGrown ==
    ASSUME NEW K, NEW V, NEW m, NEW key, NEW value, Inserting(K, V, m, key, value),
           NEW r \in map_insert(m, key, value), Grown(m)
    PROVE  Grown(r)
<1>1. /\ r.capacity = IF NeedsGrowth(m) THEN 2 * m.capacity ELSE m.capacity
      /\ IF NeedsGrowth(m) THEN r.entryCount \in 1 .. (m.capacity + 1)
         ELSE r.entryCount = m.entryCount + 1
      /\ r.lock \in LocksAfterInsert(m)
  BY Inserted
<1>2. /\ InitialCapacity \in Nat /\ InitialCapacity >= 2
      /\ m.entryCount \in Int /\ m.lock # "stuck"
  BY CapacityAssumption, MapFields DEF Inserting, InsertHangs, WriterBlocks
<1>3. CASE m.lock = "free" /\ m.capacity = InitialCapacity
  BY <1>1, <1>2, <1>3 DEF Grown, NeedsGrowth, LocksAfterInsert, Locked
<1>4. CASE /\ m.lock = "granting" /\ m.capacity = 2 * InitialCapacity
           /\ m.entryCount <= InitialCapacity + 1
  <2>1. ~NeedsGrowth(m)
    BY <1>2, <1>4 DEF NeedsGrowth
  <2> QED
    BY <1>1, <1>2, <1>4, <2>1 DEF Grown, LocksAfterInsert, Locked
<1> QED
  BY <1>2, <1>3, <1>4 DEF Grown

\* A deletion that neither blocks nor spins.
Deleting(K, V, m, key) ==
    /\ K \in SUBSET Nat
    /\ MapOver(m, K, V)
    /\ key \in Nat
    /\ ~DeleteHangs(m, key)

LEMMA DeletedFields ==
    ASSUME NEW K, NEW V, NEW m, NEW key, Deleting(K, V, m, key)
    PROVE  /\ MapOver(map_delete(m, key), K, V)
           /\ map_delete(m, key).capacity = m.capacity
           /\ map_delete(m, key).entryCount = m.entryCount - 1
           /\ map_delete(m, key).lock = Locked(m.lock)
           /\ map_delete(m, key).values = m.values
           /\ \A i \in Slots(m) :
                map_delete(m, key).keys[i] = IF i = StopSlot(m, key) THEN Empty ELSE m.keys[i]
           /\ StopSlot(m, key) \in Slots(m)
           /\ m.keys[StopSlot(m, key)] \in {Empty, key}
<1> DEFINE s == StopSlot(m, key)
           r == map_delete(m, key)
<1>1. /\ MapOver(m, K, V) /\ m.capacity \in Nat \ {0} /\ key \in Nat /\ ProbeEnds(m, key)
      /\ m.keys \in [Slots(m) -> K \cup {Empty}]
  BY MapFields DEF Deleting, DeleteHangs
<1>2. map_index(m, key) = s /\ map_index(m, key) # NotFound
  BY <1>1, IndexFound
<1>3. s \in Slots(m) /\ m.keys[s] \in {Empty, key}
  BY <1>1, ProbeStops
<1>4. r = [m EXCEPT !.keys[s] = Empty, !.entryCount = @ - 1, !.lock = Locked(@)]
  BY <1>2 DEF map_delete
<1> HIDE DEF s, r
<1>5. r = [capacity |-> m.capacity, entryCount |-> m.entryCount - 1,
           keys |-> [m.keys EXCEPT ![s] = Empty], values |-> m.values,
           lock |-> Locked(m.lock)]
  <2> DEFINE cleared == [m EXCEPT !.keys[s] = Empty]
             counted == [cleared EXCEPT !.entryCount = m.entryCount - 1]
  <2>1. r = [counted EXCEPT !.lock = Locked(m.lock)]
    BY <1>4
  <2>2. cleared = [capacity |-> m.capacity, entryCount |-> m.entryCount,
                   keys |-> [m.keys EXCEPT ![s] = Empty], values |-> m.values,
                   lock |-> m.lock]
    BY <1>1 DEF MapOver
  <2> HIDE DEF cleared
  <2>3. counted = [capacity |-> m.capacity, entryCount |-> m.entryCount - 1,
                   keys |-> [m.keys EXCEPT ![s] = Empty], values |-> m.values,
                   lock |-> m.lock]
    BY <2>2
  <2> HIDE DEF counted
  <2> QED
    BY <2>1, <2>3
<1>6. MapOver(r, K, V)
  BY <1>1, <1>3, <1>5 DEF MapOver, Slots
<1>7. \A i \in Slots(m) : r.keys[i] = IF i = s THEN Empty ELSE m.keys[i]
  BY <1>1, <1>3, <1>5
<1>8. /\ r.capacity = m.capacity /\ r.entryCount = m.entryCount - 1
      /\ r.lock = Locked(m.lock) /\ r.values = m.values
  BY <1>5
<1> QED
  BY <1>3, <1>6, <1>7, <1>8 DEF s, r

\* What map_delete leaves behind: at most the key's own slot is cleared.
LEMMA Deleted ==
    ASSUME NEW K, NEW V, NEW m, NEW key, Deleting(K, V, m, key)
    PROVE  /\ Occupied(map_delete(m, key)) = Occupied(m) \ {StopSlot(m, key)}
           /\ Cardinality(Occupied(map_delete(m, key))) =
                IF m.keys[StopSlot(m, key)] = Empty THEN Cardinality(Occupied(m))
                ELSE Cardinality(Occupied(m)) - 1
           /\ StoredKeys(m) \ {key} \subseteq StoredKeys(map_delete(m, key))
           /\ Entries(map_delete(m, key)) \subseteq Entries(m)
           /\ {e \in Entries(m) : e[1] # key} \subseteq Entries(map_delete(m, key))
           /\ DistinctKeys(m) => DistinctKeys(map_delete(m, key))
           /\ Grown(m) => Grown(map_delete(m, key))
<1> DEFINE s == StopSlot(m, key)
           r == map_delete(m, key)
<1>1. /\ m.capacity \in Nat /\ m.entryCount \in Int /\ key \in Nat /\ key # Empty
      /\ m.lock # "stuck"
  BY MapFields DEF Deleting, DeleteHangs, WriterBlocks, Empty
<1>2. /\ r.capacity = m.capacity /\ r.entryCount = m.entryCount - 1
      /\ r.lock = Locked(m.lock) /\ r.values = m.values
      /\ \A i \in Slots(m) : r.keys[i] = IF i = s THEN Empty ELSE m.keys[i]
      /\ s \in Slots(m) /\ m.keys[s] \in {Empty, key}
  BY DeletedFields
<1> HIDE DEF s, r
<1>3. Slots(r) = Slots(m)
  BY <1>2 DEF Slots
<1>4. Occupied(r) = Occupied(m) \ {s}
  BY <1>2, <1>3 DEF Occupied
<1>5. Occupied(m) \subseteq Slots(m) /\ \A i \in Occupied(r) : r.keys[i] = m.keys[i]
  BY <1>2, <1>4 DEF Occupied
<1>6. Cardinality(Occupied(r)) =
        IF m.keys[s] = Empty THEN Cardinality(Occupied(m)) ELSE Cardinality(Occupied(m)) - 1
  <2>1. s \in Occupied(m) <=> m.keys[s] # Empty
    BY <1>2 DEF Occupied
  <2>2. IsFiniteSet(Occupied(m))
    BY <1>1, OccupiedFinite
  <2>3. Cardinality(Occupied(m) \ {s}) =
          IF s \in Occupied(m) THEN Cardinality(Occupied(m)) - 1 ELSE Cardinality(Occupied(m))
    BY <2>2, FS_RemoveElement
  <2> QED
    BY <1>4, <2>1, <2>3
<1>7. ASSUME NEW k \in StoredKeys(m), k # key PROVE k \in StoredKeys(r)
  <2>1. PICK i \in Slots(m) : m.keys[i] = k /\ k # Empty
    BY DEF StoredKeys
  <2>2. i # s
    BY <1>2, <1>7, <2>1
  <2> QED
    BY <1>2, <1>3, <2>1, <2>2 DEF StoredKeys
<1>8. Entries(r) \subseteq Entries(m)
  BY <1>2, <1>4, <1>5 DEF Entries
<1>9. ASSUME NEW e \in Entries(m), e[1] # key PROVE e \in Entries(r)
  <2>1. PICK i \in Occupied(m) : e = <<m.keys[i], m.values[i]>>
    BY DEF Entries
  <2>2. i # s
    BY <1>2, <1>9, <2>1 DEF Occupied
  <2>3. i \in Occupied(r) /\ e = <<r.keys[i], r.values[i]>>
    BY <1>2, <1>4, <1>5, <2>1, <2>2
  <2> QED
    BY <2>3 DEF Entries
<1>10. DistinctKeys(m) => DistinctKeys(r)
  BY <1>4, <1>5 DEF DistinctKeys
<1>11. ASSUME Grown(m) PROVE Grown(r)
  <2>1. InitialCapacity \in Nat
    BY CapacityAssumption
  <2> QED
    BY <1>1, <1>2, <1>11, <2>1 DEF Grown, Locked
<1> QED
  BY <1>4, <1>6, <1>7, <1>8, <1>9, <1>10, <1>11 DEF s, r

\* A key that is where its probe stops is read with the value stored for it.
LEMMA Found ==
    ASSUME NEW K, NEW V, NEW m, MapOver(m, K, V), K \in SUBSET Nat, Homed(m),
           NEW key, NEW value, <<key, value>> \in Entries(m), NEW null
    PROVE  ProbeEnds(m, key) /\ map_get(m, key, null) = value
<1>1. PICK i \in Occupied(m) : key = m.keys[i] /\ value = m.values[i]
  BY DEF Entries
<1>2. ProbeEnds(m, key) /\ StopSlot(m, key) = i
  BY <1>1 DEF Homed
<1>3. key \in Nat /\ m.capacity \in Nat \ {0}
  <2>1. m.capacity \in Nat \ {0} /\ m.keys \in [Slots(m) -> K \cup {Empty}]
    BY MapFields
  <2> QED
    BY <1>1, <2>1 DEF Occupied
<1>4. map_index(m, key) = StopSlot(m, key) /\ map_index(m, key) # NotFound
  BY <1>2, <1>3, IndexFound
<1> QED
  BY <1>1, <1>2, <1>4 DEF map_get

=============================================================================
