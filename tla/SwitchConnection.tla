--------------------------- MODULE SwitchConnection ---------------------------
(* The calls of a P4Runtime client (mininet/utils/p4runtime_lib/switch.py and   *)
(* bmv2.py) as what they do to the switch at the other end.  A switch is a     *)
(* record: the device number its server answers to, the program in its         *)
(* pipeline, and the entries and groups written since that program came.       *)
EXTENDS FiniteSets

\* simple_switch_grpc as it is started: a program from its command line, or none.
FreshSwitch(device, program) ==
    [device |-> device, program |-> program, entries |-> {}, groups |-> {}]

\* The answer to the arbitration request: a server knows one device.
Arbitrates(switch, device) == switch.device = device

\* VERIFY_AND_COMMIT with reassign: the pipeline is exchanged, and nothing that
\* was written into the old one is left.
SetForwardingPipelineConfig(switch, program) ==
    FreshSwitch(switch.device, program)

\* Lines 93-96: only a default entry may be there already.
UpdateType(entry) == IF entry.default THEN "MODIFY" ELSE "INSERT"

EntryKey(entry) == <<entry.table, entry.match, entry.priority, entry.default>>

SameKey(switch, entry) == {e \in switch.entries : EntryKey(e) = EntryKey(entry)}

\* The server answers ALREADY_EXISTS and the call raises.
RefusesEntry(switch, entry) ==
    UpdateType(entry) = "INSERT" /\ SameKey(switch, entry) # {}

WriteTableEntry(switch, entry) ==
    [switch EXCEPT !.entries = (@ \ SameKey(switch, entry)) \cup {entry}]

\* Lines 141-146: groups and clone sessions are inserted, never replaced.
RefusesGroup(switch, group) ==
    \E g \in switch.groups : g.kind = group.kind /\ g.id = group.id

WritePREEntry(switch, group) == [switch EXCEPT !.groups = @ \cup {group}]

=============================================================================
