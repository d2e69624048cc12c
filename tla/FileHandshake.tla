----------------------------- MODULE FileHandshake -----------------------------
(* What the directory ext_controller/reqs promises to those who use it: a       *)
(* worker serves one filed request at a time, acknowledges what it has served  *)
(* and only then takes the request away.  Nothing is promised about how long a *)
(* worker lives.                                                               *)
EXTENDS FiniteSets

VARIABLES
    filed,     \* the numbers of the requests that are in the directory
    acks,      \* the numbers of the acknowledgements that are there
    worker     \* [phase, serving]: the one who serves

handshakeVars == <<filed, acks, worker>>

\* serving is the set of the request being served, empty if there is none.
NobodyServed == {}

Init ==
    /\ filed = {}
    /\ acks = {}
    /\ worker = [phase |-> "idle", serving |-> NobodyServed]

File ==
    /\ \E id \in filed' : filed' = filed \cup {id}
    /\ UNCHANGED <<acks, worker>>

\* Only a request that is there is served.
PickUp ==
    /\ worker.phase = "idle"
    /\ \E id \in filed : worker' = [phase |-> "serving", serving |-> {id}]
    /\ UNCHANGED <<filed, acks>>

Acknowledge ==
    /\ worker.phase = "serving"
    /\ acks' = acks \cup worker.serving
    /\ worker' = [worker EXCEPT !.phase = "acknowledged"]
    /\ UNCHANGED filed

\* A request goes only after its acknowledgement.
TakeAway ==
    /\ worker.phase = "acknowledged"
    /\ filed' = filed \ worker.serving
    /\ worker' = [phase |-> "idle", serving |-> NobodyServed]
    /\ UNCHANGED acks

Collect ==
    /\ \E id \in acks : acks' = acks \ {id}
    /\ UNCHANGED <<filed, worker>>

\* A worker may end at any moment, and the next one starts with what is there.
End ==
    /\ worker' = [phase |-> "gone", serving |-> NobodyServed]
    /\ UNCHANGED <<filed, acks>>

Start ==
    /\ worker' = [phase |-> "idle", serving |-> NobodyServed]
    /\ UNCHANGED <<filed, acks>>

Next == File \/ PickUp \/ Acknowledge \/ TakeAway \/ Collect \/ End \/ Start

HandshakeSpec == Init /\ [][Next]_handshakeVars

=============================================================================
