------------------------------- MODULE FlowMap -------------------------------
(***************************************************************************)
(* The hash map of map.c, as pure operators on a record.                   *)
(*                                                                         *)
(* The manager keeps its flows in one (network_manager.c:19) and every     *)
(* agent its flow routings in another (agent_control.c:18).  Keys are flow *)
(* numbers; -1 marks a free slot, so a slot of `keys' is the only record   *)
(* of whether it is in use, and deletion leaves no tombstone.              *)
(*                                                                         *)
(* The field `lock' is the state of the pthread_rwlock of map.c:25.        *)
(* map_rehash runs with the write lock held and calls map_insert, which    *)
(* takes the same lock again: POSIX leaves that undefined.  The outcomes   *)
(* modelled are those of glibc.  Where the nested pthread_rwlock_wrlock    *)
(* returns EDEADLK (its result is ignored), the nested unlock frees the    *)
(* lock and the outer unlock of a free lock leaves its reader count        *)
(* negative.  After that,                                                  *)
(*   "granting"  one more operation passes, whichever it is, and           *)
(*   "stuck"     writers block for ever while readers still pass.          *)
(* A library that does not repair the count leaves the lock "stuck" at     *)
(* once.  Which of the two happens is left open.                           *)
(***************************************************************************)
EXTENDS Integers, FiniteSets

CONSTANTS InitialCapacity,  \* 4 at map.c:17
          Uninit            \* what a slot of malloc'ed values holds

\* Growth from c to 2c slots leaves c free; the growing insertion takes one and
\* the one operation the lock still grants another.  With c >= 2 no operation
\* that is granted finds the map full again, so growth happens at most once.
ASSUME CapacityAssumption == InitialCapacity \in Nat /\ InitialCapacity >= 2

Empty == -1

LockStates == {"free", "granting", "stuck"}

Slots(m) == 0 .. (m.capacity - 1)

FreshKeys(capacity) == [i \in 0 .. (capacity - 1) |-> Empty]

FreshValues(capacity) == [i \in 0 .. (capacity - 1) |-> Uninit]

map_create ==
    [capacity   |-> InitialCapacity,
     entryCount |-> 0,
     keys       |-> FreshKeys(InitialCapacity),
     values     |-> FreshValues(InitialCapacity),
     lock       |-> "free"]

----------------------------------------------------------------------------
(* Linear probing: the loop of map.c:45 and of map.c:127.  It has no bound *)
(* of its own, it stops at the first slot that is free or holds the key.   *)

ProbeSlot(m, key, distance) == (key + distance) % m.capacity

Stops(m, key) ==
    {d \in Slots(m) : m.keys[ProbeSlot(m, key, d)] \in {Empty, key}}

ProbeEnds(m, key) == Stops(m, key) # {}

ProbeDistance(m, key) == CHOOSE d \in Stops(m, key) : \A e \in Stops(m, key) : d <= e

StopSlot(m, key) == ProbeSlot(m, key, ProbeDistance(m, key))

\* map_index answers -1 when the probe came back to where it started.
NotFound == -1

map_index(m, key) ==
    LET looped == ProbeDistance(m, key) > 0
    IN  IF looped /\ StopSlot(m, key) = key % m.capacity
        THEN NotFound
        ELSE StopSlot(m, key)

----------------------------------------------------------------------------
(* Insertion and growth.                                                   *)

\* Mutant of Place: the value of a key that is there already is kept.
Place_KeepsOld(m, key, value) ==
    [m EXCEPT !.keys[StopSlot(m, key)]   = key,
              !.values[StopSlot(m, key)] =
                  IF m.keys[StopSlot(m, key)] = key THEN @ ELSE value,
              !.entryCount               = @ + 1]

\* Mutant of Place: the value goes to the slot the key hashes to.
Place_ValueAtHome(m, key, value) ==
    [m EXCEPT !.keys[StopSlot(m, key)]       = key,
              !.values[ProbeSlot(m, key, 0)] = value,
              !.entryCount                   = @ + 1]

\* Lines 44-50: write the slot where the probe stops and count the entry,
\* whether or not the key was there already.
Place(m, key, value) ==
    [m EXCEPT !.keys[StopSlot(m, key)]   = key,
              !.values[StopSlot(m, key)] = value,
              !.entryCount               = @ + 1]

\* Mutant of NeedsGrowth: one entry too late.
NeedsGrowth_Late(m) == m.entryCount > m.capacity

NeedsGrowth(m) == m.entryCount = m.capacity

\* Mutant of Doubled: the array of values is not replaced.
Doubled_KeepsValues(m) ==
    [capacity   |-> 2 * m.capacity,
     entryCount |-> 0,
     keys       |-> FreshKeys(2 * m.capacity),
     values     |-> m.values,
     lock       |-> m.lock]

\* Lines 64-70: empty arrays of twice the length.
Doubled(m) ==
    [capacity   |-> 2 * m.capacity,
     entryCount |-> 0,
     keys       |-> FreshKeys(2 * m.capacity),
     values     |-> FreshValues(2 * m.capacity),
     lock       |-> m.lock]

\* Mutant of Moved: the loop stops before the last slot.
Moved_SkipsLast(m) ==
    LET moved[n \in 0 .. m.capacity] ==
            IF n = 0 THEN Doubled(m)
            ELSE IF m.keys[n - 1] = Empty \/ n = m.capacity THEN moved[n - 1]
            ELSE Place(moved[n - 1], m.keys[n - 1], m.values[n - 1])
    IN  moved

\* The loop of lines 72-76, after n of the old slots.  Its map_insert never grows
\* the map again: at most the old capacity of keys goes into twice as many slots.
Moved(m) ==
    LET moved[n \in 0 .. m.capacity] ==
            IF n = 0 THEN Doubled(m)
            ELSE IF m.keys[n - 1] = Empty THEN moved[n - 1]
            ELSE Place(moved[n - 1], m.keys[n - 1], m.values[n - 1])
    IN  moved

\* Mutant of map_rehash: the count is reset after the keys have moved.
map_rehash_CountsNone(m) == [Moved(m)[m.capacity] EXCEPT !.entryCount = 0]

map_rehash(m) == Moved(m)[m.capacity]

----------------------------------------------------------------------------
(* The lock.                                                               *)

Locked(lock) == IF lock = "granting" THEN "stuck" ELSE lock

LocksAfterInsert(m) ==
    IF NeedsGrowth(m) THEN {"granting", "stuck"} ELSE {Locked(m.lock)}

WriterBlocks(m) == m.lock = "stuck"

InsertHangs(m, key) ==
    \/ WriterBlocks(m)
    \/ ~NeedsGrowth(m) /\ ~ProbeEnds(m, key)

DeleteHangs(m, key) == WriterBlocks(m) \/ ~ProbeEnds(m, key)

GetHangs(m, key) == ~ProbeEnds(m, key)

----------------------------------------------------------------------------
(* The operations, for a caller that is neither blocked nor spinning.      *)

\* The maps an insertion may leave: they differ in their lock.
map_insert(m, key, value) ==
    LET roomy == IF NeedsGrowth(m) THEN map_rehash(m) ELSE m
    IN  {[Place(roomy, key, value) EXCEPT !.lock = l] : l \in LocksAfterInsert(m)}

\* Mutant of map_delete: the slot the key hashes to is cleared.
map_delete_HomeSlot(m, key) ==
    [m EXCEPT !.keys[ProbeSlot(m, key, 0)] = Empty,
              !.entryCount                 = @ - 1,
              !.lock                       = Locked(@)]

\* Line 112 tells a missing key by map_index = -1, which a free slot is not:
\* deleting an absent key empties an empty slot and still counts it out.
map_delete(m, key) ==
    IF map_index(m, key) = NotFound
    THEN [m EXCEPT !.lock = Locked(@)]
    ELSE [m EXCEPT !.keys[map_index(m, key)] = Empty,
                   !.entryCount              = @ - 1,
                   !.lock                    = Locked(@)]

\* The value map_get returns; NULL only when map_index says -1.
map_get(m, key, null) ==
    IF map_index(m, key) = NotFound THEN null ELSE m.values[map_index(m, key)]

\* A reader: takes and releases the lock.
AfterRead(m) == [m EXCEPT !.lock = Locked(@)]

----------------------------------------------------------------------------
(* What a map stores.                                                      *)

StoredKeys(m) == {m.keys[i] : i \in Slots(m)} \ {Empty}

SlotsOf(m, key) == {i \in Slots(m) : m.keys[i] = key}

Occupied(m) == {i \in Slots(m) : m.keys[i] # Empty}

=============================================================================
