----------------------------- MODULE P4InfoHelper -----------------------------
(* How a name and a value of a runtime configuration become the numbers and    *)
(* bytes of a P4Runtime message, and back (p4runtime_lib/helper.py and          *)
(* convert.py).  A P4Info is a record of two sequences, tables and actions, of  *)
(* what the compiler declares; a call that raises is one whose "can" predicate  *)
(* is FALSE.                                                                   *)
EXTENDS Integers, SequencesExt, FiniteSetsExt

----------------------------------------------------------------------------
(* convert.py: a value is a number, a text or a list.                      *)

Number(n) == [type |-> "int", n |-> n]
\* form is what the two patterns tell apart; parts are the bytes, or what stands
\* between the dots of an address.
Text(form, parts) == [type |-> "str", form |-> form, parts |-> parts]
List(items) == [type |-> "list", items |-> items]

bitwidthToBytes(bitwidth) == (bitwidth + 7) \div 8

\* 2 ** n
TwoTo(n) ==
    LET power[i \in 0 .. n] == IF i = 0 THEN 1 ELSE 2 * power[i - 1] IN power[n]

\* What is left of a number without its last 0, 1, ... n bytes.
Left(number, n) ==
    LET left[i \in 0 .. n] == IF i = 0 THEN number ELSE left[i - 1] \div 256 IN left

\* Mutant of encodeNum: the lowest byte comes first.
encodeNum_LittleEndian(number, bitwidth) ==
    LET n == bitwidthToBytes(bitwidth)
    IN [i \in 1 .. n |-> Left(number, n)[i - 1] % 256]

encodeNum(number, bitwidth) ==
    LET n == bitwidthToBytes(bitwidth)
    IN [i \in 1 .. n |-> Left(number, n)[n - i] % 256]

decodeNum(bytes) ==
    LET number[i \in 0 .. Len(bytes)] ==
            IF i = 0 THEN 0 ELSE 256 * number[i - 1] + bytes[i]
    IN number[Len(bytes)]

\* A list of one is its element.
Unwrapped(x) == IF x.type = "list" /\ Len(x.items) = 1 THEN x.items[1] ELSE x

\* A number that does not fit raises, inet_aton raises, and the length is asserted
\* for a text, which is taken for encoded if it is no address.
CanEncode(x, bitwidth) ==
    LET y == Unwrapped(x) IN
    \/ y.type = "int" /\ y.n \in 0 .. TwoTo(bitwidth) - 1
    \/ /\ y.type = "str"
       /\ y.form = "ipv4" => \A i \in DOMAIN y.parts : y.parts[i] \in 0 .. 255
       /\ Len(y.parts) = bitwidthToBytes(bitwidth)

encode(x, bitwidth) ==
    LET y == Unwrapped(x) IN
    IF y.type = "int" THEN encodeNum(y.n, bitwidth) ELSE y.parts

----------------------------------------------------------------------------
(* Look-ups.  Top-level objects are found by their name or their alias,    *)
(* fields and parameters only under the full name of what they belong to.  *)

\* What the compiler sees to: numbers and full names tell objects apart,
Identified(objects) ==
    /\ objects \in Seq(ToSet(objects))
    /\ \A o, p \in ToSet(objects) : o.id = p.id \/ o.name = p.name => o = p

\* no alias is the full name of another object, and every field has a width.
IsP4Info(info) ==
    /\ \A objects \in {info.tables, info.actions} :
        /\ Identified(objects)
        /\ \A o, p \in ToSet(objects) : o.alias = p.name => o = p
    /\ \A fields \in {t.match_fields : t \in ToSet(info.tables)}
                    \cup {a.params : a \in ToSet(info.actions)} :
        /\ Identified(fields)
        /\ \A f \in ToSet(fields) : f.bitwidth \in Nat \ {0}

Named(objects, name) == {o \in ToSet(objects) : name \in {o.name, o.alias}}

\* The first in the order of the file.
get(objects, name) ==
    objects[Min({i \in DOMAIN objects : objects[i] \in Named(objects, name)})]

get_id(objects, name) == get(objects, name).id

get_name(objects, id) == (CHOOSE o \in ToSet(objects) : o.id = id).name

get_match_field(info, table_name) ==
    UNION {ToSet(t.match_fields) : t \in {u \in ToSet(info.tables) : u.name = table_name}}

get_action_param(info, action_name) ==
    UNION {ToSet(a.params) : a \in {b \in ToSet(info.actions) : b.name = action_name}}

Only(objects, name) == CHOOSE o \in objects : o.name = name

\* EXACT has one value, the others have two: a prefix length, a mask or a bound.
CanMatch(field, value) ==
    CASE field.match_type = "EXACT" -> CanEncode(value, field.bitwidth)
      [] field.match_type = "LPM" ->
            /\ value.type = "list" /\ Len(value.items) > 1
            /\ CanEncode(value.items[1], field.bitwidth)
            /\ value.items[2].type = "int"
      [] field.match_type \in {"TERNARY", "RANGE"} ->
            /\ value.type = "list" /\ Len(value.items) > 1
            /\ \A i \in 1 .. 2 : CanEncode(value.items[i], field.bitwidth)
      [] OTHER -> FALSE

get_match_field_pb(field, value) ==
    [field_id |-> field.id,
     operands |-> CASE field.match_type = "EXACT" -> <<encode(value, field.bitwidth)>>
                    [] field.match_type = "LPM" ->
                        <<encode(value.items[1], field.bitwidth), value.items[2].n>>
                    [] OTHER -> [i \in 1 .. 2 |->
                                    encode(value.items[i], field.bitwidth)]]

\* The way back: one operand or all of them.
get_match_field_value(field, match) ==
    IF field.match_type = "EXACT" THEN match.operands[1] ELSE match.operands

----------------------------------------------------------------------------
(* Entries.  An entry of the configuration names its table, match fields,  *)
(* action and parameters; match and action_params are functions from names *)
(* to values.                                                              *)

CanBuildTableEntry(info, entry) ==
    /\ Named(info.tables, entry.table) # {}
    /\ Named(info.actions, entry.action_name) # {}
    /\ \A name \in DOMAIN entry.match :
        \E field \in get_match_field(info, entry.table) :
            field.name = name /\ CanMatch(field, entry.match[name])
    /\ \A name \in DOMAIN entry.action_params :
        \E param \in get_action_param(info, entry.action_name) :
            param.name = name /\ CanEncode(entry.action_params[name], param.bitwidth)

get_action_param_pb(param, value) ==
    [param_id |-> param.id, value |-> encode(value, param.bitwidth)]

buildTableEntry(info, entry) ==
    [table    |-> get_id(info.tables, entry.table),
     priority |-> entry.priority,
     match    |-> {get_match_field_pb(Only(get_match_field(info, entry.table), name),
                                      entry.match[name]) : name \in DOMAIN entry.match},
     default  |-> entry.default_action,
     action   |-> get_id(info.actions, entry.action_name),
     params   |-> {get_action_param_pb(Only(get_action_param(info, entry.action_name),
                                            name), entry.action_params[name]) :
                        name \in DOMAIN entry.action_params}]

buildMulticastGroupEntry(rule) ==
    [kind |-> "multicast", id |-> rule.id, replicas |-> ToSet(rule.replicas), length |-> 0]

\* packet_length_bytes is 0 where the rule has none.
buildCloneSessionEntry(rule) ==
    [kind |-> "clone", id |-> rule.id, replicas |-> ToSet(rule.replicas),
     length |-> rule.packet_length_bytes]

=============================================================================
