--------------------------- MODULE MapLibrary_proofs ---------------------------
EXTENDS MapLibrary, FlowMap_proofs, TLAPS

----------------------------------------------------------------------------
(* The inductive invariant.                                                *)

\* The map is well formed, grew at most once, and the ghosts have their types.
TypeInv ==
    /\ MapOver(map, Keys, Values)
    /\ Grown(map)
    /\ content \in [Keys -> Values \cup {Null}]
    /\ phantoms \in Nat
    /\ deletes \in Nat
    /\ hung \in {"no", "insert", "delete", "get"}
    /\ calls \in 0 .. MaxCalls

\* While nothing has been deleted every key is where its probe stops, and the
\* entries include what was inserted.
Exact ==
    deletes = 0 =>
        /\ Homed(map)
        /\ \A k \in Keys : Present(k) => <<k, content[k]>> \in Entries(map)

ContentInv == KeysNotLost /\ CountCoversSlots /\ InsertSpinsOnlyAfterPhantom /\ Exact

MapInv == TypeInv /\ ContentInv

LEMMA InitMapInv == Init => MapInv
<1> SUFFICES ASSUME Init PROVE MapInv
  OBVIOUS
<1>1. /\ MapOver(map, Keys, Values) /\ Grown(map) /\ Homed(map)
      /\ map.entryCount = 0 /\ Cardinality(Occupied(map)) = 0
  BY CreatedMap DEF Init
<1>2. \A k \in Keys : ~Present(k)
  BY DEF Init, Present
<1>3. TypeInv
  BY <1>1, BoundAssumption DEF Init, TypeInv
<1>4. KeysNotLost /\ Exact
  BY <1>1, <1>2 DEF KeysNotLost, Exact
<1>5. CountCoversSlots /\ InsertSpinsOnlyAfterPhantom
  BY <1>1 DEF Init, CountCoversSlots, InsertSpinsOnlyAfterPhantom
<1> QED
  BY <1>3, <1>4, <1>5 DEF MapInv, ContentInv

LEMMA CallCounted ==
    ASSUME TypeInv, Call
    PROVE  calls' \in 0 .. MaxCalls /\ hung = "no"
BY BoundAssumption DEF TypeInv, Call

LEMMA InsertStep ==
    ASSUME MapInv, NEW k \in Keys, NEW v \in Values, Insert(k, v)
    PROVE  MapInv'
<1>0. calls' \in 0 .. MaxCalls /\ hung = "no"
  BY CallCounted DEF MapInv, Insert
<1>1. Inserting(Keys, Values, map, k, v) /\ map' \in map_insert(map, k, v)
  BY KeysAssumption DEF MapInv, TypeInv, Insert, Inserting
<1>2. /\ MapOver(map', Keys, Values)
      /\ map'.capacity = IF NeedsGrowth(map) THEN 2 * map.capacity ELSE map.capacity
      /\ IF NeedsGrowth(map) THEN map'.entryCount \in 1 .. (map.capacity + 1)
         ELSE map'.entryCount = map.entryCount + 1
      /\ StoredKeys(map') = StoredKeys(map) \cup {k}
      /\ Cardinality(Occupied(map')) <=
           IF NeedsGrowth(map) THEN map'.entryCount ELSE Cardinality(Occupied(map)) + 1
      /\ Homed(map) => Homed(map')
      /\ Homed(map) =>
           Entries(map') = {e \in Entries(map) : e[1] # k} \cup {<<k, v>>}
  BY <1>1, Inserted
<1>3. Grown(map')
  BY <1>1, InsertGrown DEF MapInv, TypeInv
<1>4. /\ content' = [content EXCEPT ![k] = v] /\ content \in [Keys -> Values \cup {Null}]
      /\ UNCHANGED <<phantoms, deletes, hung>> /\ phantoms \in Nat
  BY DEF Insert, MapInv, TypeInv
<1>5. TypeInv'
  BY <1>0, <1>2, <1>3, <1>4 DEF MapInv, TypeInv
<1>6. KeysNotLost'
  BY <1>2, <1>4 DEF MapInv, ContentInv, KeysNotLost, Present
<1>7. CountCoversSlots'
  <2>1. /\ map.capacity \in Nat /\ map'.capacity \in Nat /\ map.entryCount \in Int
        /\ map'.entryCount \in Int
    BY <1>2, MapFields DEF MapInv, TypeInv
  <2>2. Cardinality(Occupied(map)) \in Nat /\ Cardinality(Occupied(map')) \in Nat
    BY <2>1, OccupiedFinite
  <2>3. Cardinality(Occupied(map)) <= map.entryCount + phantoms
    BY DEF MapInv, ContentInv, CountCoversSlots
  <2> QED
    BY <1>2, <1>4, <2>1, <2>2, <2>3 DEF CountCoversSlots
<1>8. InsertSpinsOnlyAfterPhantom'
  BY <1>0, <1>4 DEF InsertSpinsOnlyAfterPhantom
<1>9. Exact'
  <2>1. SUFFICES ASSUME deletes' = 0
                 PROVE  /\ Homed(map')
                        /\ \A j \in Keys : Present(j)' => <<j, content'[j]>> \in Entries(map')
    BY DEF Exact
  <2>2. Homed(map) /\ \A j \in Keys : Present(j) => <<j, content[j]>> \in Entries(map)
    BY <1>4, <2>1 DEF MapInv, ContentInv, Exact
  <2>3. ASSUME NEW j \in Keys, Present(j)' PROVE <<j, content'[j]>> \in Entries(map')
    <3>1. CASE j = k
      BY <1>2, <1>4, <2>2, <3>1
    <3>2. CASE j # k
      <4>1. content'[j] = content[j] /\ <<j, content[j]>> \in Entries(map)
        BY <1>4, <2>2, <2>3, <3>2 DEF Present
      <4> QED
        BY <1>2, <2>2, <3>2, <4>1
    <3> QED
      BY <3>1, <3>2
  <2> QED
    BY <1>2, <2>2, <2>3
<1> QED
  BY <1>5, <1>6, <1>7, <1>8, <1>9 DEF MapInv, ContentInv

LEMMA DeleteStep ==
    ASSUME MapInv, NEW k \in Keys, Delete(k)
    PROVE  MapInv'
<1>0. calls' \in 0 .. MaxCalls /\ hung = "no"
  BY CallCounted DEF MapInv, Delete
<1>1. Deleting(Keys, Values, map, k) /\ map' = map_delete(map, k)
  BY KeysAssumption DEF MapInv, TypeInv, Delete, Deleting
<1>2. /\ MapOver(map', Keys, Values) /\ map'.entryCount = map.entryCount - 1
      /\ map'.capacity = map.capacity
  BY <1>1, DeletedFields
<1>3. /\ Cardinality(Occupied(map')) =
           IF map.keys[StopSlot(map, k)] = Empty THEN Cardinality(Occupied(map))
           ELSE Cardinality(Occupied(map)) - 1
      /\ StoredKeys(map) \ {k} \subseteq StoredKeys(map')
      /\ Grown(map')
  BY <1>1, Deleted DEF MapInv, TypeInv
<1>4. /\ content' = [content EXCEPT ![k] = Null] /\ content \in [Keys -> Values \cup {Null}]
      /\ phantoms' = phantoms + (IF map.keys[StopSlot(map, k)] = Empty THEN 1 ELSE 0)
      /\ deletes' = deletes + 1 /\ UNCHANGED hung /\ phantoms \in Nat /\ deletes \in Nat
  BY DEF Delete, MapInv, TypeInv
<1>5. TypeInv'
  BY <1>0, <1>2, <1>3, <1>4 DEF MapInv, TypeInv
<1>6. KeysNotLost'
  BY <1>3, <1>4 DEF MapInv, ContentInv, KeysNotLost, Present
<1>7. CountCoversSlots'
  <2>1. map.capacity \in Nat /\ map.entryCount \in Int
    BY MapFields DEF MapInv, TypeInv
  <2>2. Cardinality(Occupied(map)) \in Nat
    BY <2>1, OccupiedFinite
  <2>3. Cardinality(Occupied(map)) <= map.entryCount + phantoms
    BY DEF MapInv, ContentInv, CountCoversSlots
  <2> QED
    BY <1>2, <1>3, <1>4, <2>1, <2>2, <2>3 DEF CountCoversSlots
<1>8. InsertSpinsOnlyAfterPhantom' /\ Exact'
  BY <1>0, <1>4 DEF InsertSpinsOnlyAfterPhantom, Exact
<1> QED
  BY <1>5, <1>6, <1>7, <1>8 DEF MapInv, ContentInv

\* map_get and nm_print_state leave everything but the lock alone.
LEMMA ReadStep ==
    ASSUME MapInv, Call, map' = AfterRead(map),
           UNCHANGED <<content, phantoms, deletes, hung>>
    PROVE  MapInv'
<1>0. calls' \in 0 .. MaxCalls /\ hung = "no"
  BY CallCounted DEF MapInv
<1>1. /\ MapOver(map', Keys, Values) /\ SameArrays(map', map)
      /\ map'.entryCount = map.entryCount /\ Grown(map')
  BY Read DEF MapInv, TypeInv
<1>2. /\ Occupied(map') = Occupied(map) /\ StoredKeys(map') = StoredKeys(map)
      /\ Entries(map') = Entries(map) /\ (Homed(map') <=> Homed(map))
  BY <1>1, SameContent
<1>3. TypeInv'
  BY <1>0, <1>1 DEF MapInv, TypeInv
<1>4. KeysNotLost' /\ CountCoversSlots' /\ InsertSpinsOnlyAfterPhantom' /\ Exact'
  BY <1>0, <1>1, <1>2
  DEF MapInv, ContentInv, KeysNotLost, Present, CountCoversSlots,
      InsertSpinsOnlyAfterPhantom, Exact
<1> QED
  BY <1>3, <1>4 DEF MapInv, ContentInv

\* An insertion blocks for ever only after growth, and probes for ever only in a
\* map whose slots outnumber its counter.
LEMMA InsertHangsBecause ==
    ASSUME MapInv, NEW k \in Keys, InsertHangs(map, k)
    PROVE  phantoms > 0 \/ (map.lock = "stuck" /\ map.capacity > InitialCapacity)
<1>1. CASE WriterBlocks(map)
  <2>1. map.lock = "stuck" /\ map.capacity = 2 * InitialCapacity
    BY <1>1 DEF WriterBlocks, MapInv, TypeInv, Grown
  <2> QED
    BY <2>1, CapacityAssumption
<1>2. CASE ~NeedsGrowth(map) /\ ~ProbeEnds(map, k)
  <2>1. map.capacity \in Nat \ {0} /\ map.entryCount \in Int /\ k \in Nat
    BY MapFields, KeysAssumption DEF MapInv, TypeInv
  <2>2. Cardinality(Occupied(map)) = map.capacity
    BY <1>2, <2>1, EndlessProbe, OccupiedFinite
  <2>3. map.entryCount < map.capacity
    BY <1>2, <2>1 DEF NeedsGrowth, MapInv, TypeInv, Grown
  <2>4. map.capacity <= map.entryCount + phantoms /\ phantoms \in Nat
    BY <2>2 DEF MapInv, TypeInv, ContentInv, CountCoversSlots
  <2> QED
    BY <2>1, <2>3, <2>4
<1> QED
  BY <1>1, <1>2 DEF InsertHangs

LEMMA HangStep ==
    ASSUME MapInv, NEW operation \in {"insert", "delete", "get"}, Hang(operation),
           operation = "insert" => \E k \in Keys : InsertHangs(map, k)
    PROVE  MapInv'
<1>0. calls' \in 0 .. MaxCalls /\ hung = "no"
  BY CallCounted DEF MapInv, Hang
<1>1. hung' = operation /\ UNCHANGED <<map, content, phantoms, deletes>>
  BY DEF Hang
<1>2. InsertSpinsOnlyAfterPhantom'
  BY <1>1, InsertHangsBecause DEF InsertSpinsOnlyAfterPhantom
<1>3. TypeInv'
  BY <1>0, <1>1 DEF MapInv, TypeInv
<1>4. KeysNotLost' /\ CountCoversSlots' /\ Exact'
  BY <1>1 DEF MapInv, ContentInv, KeysNotLost, Present, CountCoversSlots, Exact
<1> QED
  BY <1>2, <1>3, <1>4 DEF MapInv, ContentInv

LEMMA MapStep == MapInv /\ [Next]_vars => MapInv'
<1> SUFFICES ASSUME MapInv, [Next]_vars PROVE MapInv'
  OBVIOUS
<1>1. CASE UNCHANGED vars
  BY <1>1
  DEF vars, MapInv, TypeInv, ContentInv, KeysNotLost, Present, CountCoversSlots,
      InsertSpinsOnlyAfterPhantom, Exact
<1>2. ASSUME NEW k \in Keys, NEW v \in Values, Insert(k, v) PROVE MapInv'
  BY <1>2, InsertStep
<1>3. ASSUME NEW k \in Keys, Delete(k) PROVE MapInv'
  BY <1>3, DeleteStep
<1>4. ASSUME NEW k \in Keys, Get(k) PROVE MapInv'
  BY <1>4, ReadStep DEF Get
<1>5. CASE PrintKeys
  BY <1>5, ReadStep DEF PrintKeys
<1>6. CASE HangInInsert
  BY <1>6, HangStep DEF HangInInsert
<1>7. CASE HangInDelete \/ HangInGet
  BY <1>7, HangStep DEF HangInDelete, HangInGet
<1> QED
  BY <1>1, <1>2, <1>3, <1>4, <1>5, <1>6, <1>7 DEF Next

LEMMA MapInvariant == Spec => []MapInv
BY InitMapInv, MapStep, PTL DEF Spec

----------------------------------------------------------------------------
(* The theorems.                                                           *)

\* The capacity, the arrays, the lock and the counters keep their types, whatever
\* is called: the arrays have the length the capacity says, and growth, which
\* leaves the lock broken, happens at most once.
THEOREM TypeCorrect == Spec => []TypeOK
<1>1. ASSUME MapInv PROVE TypeOK
  <2>1. /\ map.entryCount \in Int /\ map.keys \in [Slots(map) -> Keys \cup {Empty}]
        /\ map.values \in [Slots(map) -> Values \cup {Uninit}]
    BY <1>1, MapFields DEF MapInv, TypeInv
  <2>2. map.capacity \in {InitialCapacity, 2 * InitialCapacity} /\ map.lock \in LockStates
    BY <1>1, GrownCapacity DEF MapInv, TypeInv
  <2> QED
    BY <1>1, <2>1, <2>2 DEF MapInv, TypeInv, TypeOK
<1> QED
  BY <1>1, MapInvariant, PTL

\* Until something is deleted the map of map.c is a map: map_get answers what was
\* inserted last, through collisions, overwrites and growth, for every capacity.
THEOREM ExactWithoutDeletesCorrect == Spec => []ExactWithoutDeletes
<1>1. ASSUME MapInv PROVE ExactWithoutDeletes
  <2>1. SUFFICES ASSUME deletes = 0, NEW k \in Keys, Present(k)
                 PROVE  ProbeEnds(map, k) /\ map_get(map, k, Null) = content[k]
    BY DEF ExactWithoutDeletes
  <2>2. /\ Homed(map) /\ <<k, content[k]>> \in Entries(map)
        /\ MapOver(map, Keys, Values) /\ Keys \in SUBSET Nat
    BY <1>1, <2>1, KeysAssumption DEF MapInv, TypeInv, ContentInv, Exact
  <2> QED
    BY <2>2, Found
<1> QED
  BY <1>1, MapInvariant, PTL

\* A key that was inserted and not deleted keeps a slot, whatever else is deleted,
\* present or not, and however the map grows.
THEOREM KeysNotLostCorrect == Spec => []KeysNotLost
<1>1. MapInv => KeysNotLost
  BY DEF MapInv, ContentInv
<1> QED
  BY <1>1, MapInvariant, PTL

\* The counter is behind the slots in use by no more than the number of deletions
\* of keys that were not found.
THEOREM CountCoversSlotsCorrect == Spec => []CountCoversSlots
<1>1. MapInv => CountCoversSlots
  BY DEF MapInv, ContentInv
<1> QED
  BY <1>1, MapInvariant, PTL

\* The unbounded probe of an insertion ends for every capacity and every set of
\* keys, unless a key that was not there has been deleted.
THEOREM InsertSpinsOnlyAfterPhantomCorrect == Spec => []InsertSpinsOnlyAfterPhantom
<1>1. MapInv => InsertSpinsOnlyAfterPhantom
  BY DEF MapInv, ContentInv
<1> QED
  BY <1>1, MapInvariant, PTL

=============================================================================
