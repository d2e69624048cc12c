------------------------------ MODULE MapLibrary ------------------------------
(***************************************************************************)
(* The map of map.c used by one thread, next to the abstract map its       *)
(* comments describe: map_insert sets a key, map_delete removes it,        *)
(* map_get returns its value or NULL.  Both users of the map, the          *)
(* manager's loop and the agent's control loop, are single threads.        *)
(***************************************************************************)
EXTENDS FlowMap

CONSTANTS Keys,      \* the flow numbers in use
          Values,    \* what flows are stored as
          Null,      \* NULL
          MaxCalls   \* bound: calls in a behaviour

ASSUME KeysAssumption == Keys \subseteq Nat

ASSUME BoundAssumption == MaxCalls \in Nat

VARIABLES
    map,       \* the Map struct
    content,   \* the abstract map: Null where a key is absent
    phantoms,  \* completed deletions of keys whose probe found a free slot
    deletes,   \* completed deletions
    hung,      \* the call that never returns: "no" while there is none
    calls      \* calls so far

vars == <<map, content, phantoms, deletes, hung, calls>>

Init ==
    /\ map = map_create
    /\ content = [k \in Keys |-> Null]
    /\ phantoms = 0
    /\ deletes = 0
    /\ hung = "no"
    /\ calls = 0

----------------------------------------------------------------------------

\* The single thread makes its next call.
Call == hung = "no" /\ calls < MaxCalls /\ calls' = calls + 1

Insert(k, v) ==
    /\ Call
    /\ ~InsertHangs(map, k)
    /\ map' \in map_insert(map, k, v)
    /\ content' = [content EXCEPT ![k] = v]
    /\ UNCHANGED <<phantoms, deletes, hung>>

Delete(k) ==
    /\ Call
    /\ ~DeleteHangs(map, k)
    /\ map' = map_delete(map, k)
    /\ content' = [content EXCEPT ![k] = Null]
    /\ phantoms' = phantoms + (IF map.keys[StopSlot(map, k)] = Empty THEN 1 ELSE 0)
    /\ deletes' = deletes + 1
    /\ UNCHANGED hung

Get(k) ==
    /\ Call
    /\ ~GetHangs(map, k)
    /\ map' = AfterRead(map)
    /\ UNCHANGED <<content, phantoms, deletes, hung>>

PrintKeys ==
    /\ Call
    /\ map' = AfterRead(map)
    /\ UNCHANGED <<content, phantoms, deletes, hung>>

\* A call that blocks on the lock or probes for ever.
Hang(operation) ==
    /\ Call
    /\ hung' = operation
    /\ UNCHANGED <<map, content, phantoms, deletes>>

HangInInsert == \E k \in Keys : InsertHangs(map, k) /\ Hang("insert")

HangInDelete == \E k \in Keys : DeleteHangs(map, k) /\ Hang("delete")

HangInGet == \E k \in Keys : GetHangs(map, k) /\ Hang("get")

Next ==
    \/ \E k \in Keys, v \in Values : Insert(k, v)
    \/ \E k \in Keys : Delete(k) \/ Get(k)
    \/ PrintKeys
    \/ HangInInsert
    \/ HangInDelete
    \/ HangInGet

Spec == Init /\ [][Next]_vars

----------------------------------------------------------------------------

\* Every variable has its type; in particular the two arrays of the map always
\* have the length its capacity says (map_rehash replaces all three).
TypeOK ==
    /\ map.capacity \in {InitialCapacity, 2 * InitialCapacity}
    /\ map.entryCount \in Int
    /\ map.keys \in [Slots(map) -> Keys \cup {Empty}]
    /\ map.values \in [Slots(map) -> Values \cup {Uninit}]
    /\ map.lock \in LockStates
    /\ content \in [Keys -> Values \cup {Null}]
    /\ phantoms \in Nat
    /\ deletes \in Nat
    /\ hung \in {"no", "insert", "delete", "get"}
    /\ calls \in 0 .. MaxCalls

Present(k) == content[k] # Null

\* As long as nothing has been deleted the map is exact: a present key is found
\* by its probe with the value inserted last, through collisions, overwrites
\* and growth (map.c:37-80, 89-100).
ExactWithoutDeletes ==
    deletes = 0 => \A k \in Keys : Present(k) =>
        /\ ProbeEnds(map, k)
        /\ map_get(map, k, Null) = content[k]

\* Whatever is deleted, present or not, a key that is present keeps a slot:
\* deletion never clears the slot of another key, and growth drops none
\* (map.c:60-80, 108-118).  It may be out of reach of its probe.
KeysNotLost == \A k \in Keys : Present(k) => k \in StoredKeys(map)

\* _entryCount falls behind the slots in use only by the deletions of keys
\* that were not found (map.c:112-115); growth counts afresh (map.c:65).
CountCoversSlots == Cardinality(Occupied(map)) <= map.entryCount + phantoms

\* The unbounded probe of map_insert (map.c:45) ends unless a deletion of a
\* key that was not found has made the map look emptier than it is; an
\* insertion that hangs for another reason blocks on the lock after growth.
InsertSpinsOnlyAfterPhantom ==
    hung = "insert" => \/ phantoms > 0
                       \/ map.lock = "stuck" /\ map.capacity > InitialCapacity

=============================================================================
