--------------------------- MODULE MCExerciseRunner ---------------------------
(* The command lines, topologies and runtime configurations of the runs of     *)
(* ExerciseRunner.                                                              *)
EXTENDS ExerciseRunner

\* One P4Info with exact, prefix and range matches and the action of basic.p4.
Info ==
    [tables |-> <<
        [name |-> "MyIngress.ipv4_lpm", alias |-> "ipv4_lpm", id |-> 1, match_fields |->
            <<[name |-> "dstAddr", id |-> 1, bitwidth |-> 32, match_type |-> "LPM"]>>],
        [name |-> "MyIngress.port", alias |-> "port", id |-> 2, match_fields |->
            <<[name |-> "ingress_port", id |-> 1, bitwidth |-> 9, match_type |-> "EXACT"],
              [name |-> "udp", id |-> 2, bitwidth |-> 16, match_type |-> "RANGE"]>>]>>,
     actions |-> <<
        [name |-> "MyIngress.forward", alias |-> "forward", id |-> 7, params |->
            <<[name |-> "port", id |-> 1, bitwidth |-> 9]>>],
        [name |-> "NoAction", alias |-> "NoAction", id |-> 8, params |-> <<>>]>>]

Entry(table, match, default, action, params) ==
    [kind |-> "table", complete |-> TRUE, table |-> table, match |-> match,
     default_action |-> default, action_name |-> action, action_params |-> params,
     priority |-> 0]

NoValues == [name \in {} |-> 0]

ToHost == Entry("MyIngress.ipv4_lpm",
                "dstAddr" :> List(<<Text("ipv4", <<10, 0, 1, 1>>), Number(32)>>), FALSE,
                "MyIngress.forward", "port" :> Number(258))
AtPort == Entry("MyIngress.port",
                ("ingress_port" :> List(<<Number(511)>>)) @@
                ("udp" :> List(<<Number(8108), Number(11567)>>)), FALSE,
                "NoAction", NoValues)
DefaultDrop == Entry("ipv4_lpm", NoValues, TRUE, "NoAction", NoValues)
DefaultForward == Entry("MyIngress.ipv4_lpm", NoValues, TRUE, "MyIngress.forward",
                        "port" :> Number(1))
\* Found by its alias, its match field is not.
ByAlias == [ToHost EXCEPT !.table = "ipv4_lpm"]
TooLarge == [ToHost EXCEPT !.action_params = "port" :> Number(512)]
NotAnAddress == [ToHost EXCEPT !.match = "dstAddr" :>
                    List(<<Text("ipv4", <<10, 0, 1, 256>>), Number(32)>>)]

Group(kind, length) ==
    [kind |-> kind, complete |-> TRUE, id |-> 1, replicas |-> <<1, 2>>,
     packet_length_bytes |-> length]

Configuration(entries, groups) ==
    [target |-> "bmv2", p4info |-> "file", bmv2_json |-> "file", info |-> Info,
     program |-> "runtime", table_entries |-> entries, group_entries |-> groups]

Full == Configuration(<<ToHost, DefaultDrop, AtPort, DefaultForward>>,
                      <<Group("multicast", 0), Group("clone", 100)>>)
NoEntries == Configuration(<<>>, <<>>)
Failing(entry) == Configuration(<<AtPort, entry>>, <<>>)
NoInfo == [Full EXCEPT !.p4info = "missing"]

\* What a line of a CLI file adds.
Line(n) == [table |-> n, match |-> {}, priority |-> 0, default |-> FALSE]

Host == [kind |-> "h", port |-> Nobody]
End(p) == [kind |-> "s", port |-> p]
Links == {{Host, End("p1")}, {End("p2"), End("p3")}}

Of(one, other) == "s1" :> one @@ "s2" :> other

Exercise(exe, default, programs, confs, lines) ==
    [exe |-> exe, default |-> default, program |-> programs, links |-> Links,
     commandsEnd |-> TRUE, runtime_json |-> confs, cli_input |-> lines]

Plain == Of(Default, Default)
NoLines == Of({}, {})

\* The Makefile's own way to run.
Grpc(conf1, conf2, lines) ==
    Exercise("grpc", "basic", Plain, Of(conf1, conf2), lines)

Loading == Grpc(Full, NoEntries, Of({}, {Line(3)}))
Unloaded == Grpc(NoInfo, NoConf, NoLines)
Thrift == Exercise("thrift", "basic", Of("one", "other"), Of(NoConf, NoConf),
                   Of({Line(3)}, {}))

SomeExercises ==
    {Loading, Unloaded, Thrift,
     Grpc(NoEntries, Failing(ByAlias), NoLines),
     [Unloaded EXCEPT !.commandsEnd = FALSE]}

OtherExercises ==
    {Grpc(NoConf, Failing(TooLarge), NoLines), Grpc(Failing(NotAnAddress), NoConf, NoLines),
     Grpc(NoConf, Failing(AtPort), NoLines),
     Grpc(NoConf, Configuration(<<>>, <<Group("clone", 0), Group("clone", 9)>>), NoLines),
     Exercise("thrift", Default, Plain, Of(NoConf, NoConf), NoLines),
     Exercise("thrift", "basic", Plain, Of(NoEntries, NoConf), NoLines),
     Exercise("grpc", "basic", Of(Missing, Default), Of(NoConf, NoConf), NoLines),
     [Unloaded EXCEPT !.links = {{Host, [Host EXCEPT !.port = "p1"]}}]}

AllExercises == SomeExercises \cup OtherExercises

Order == <<"s1", "s2">>

=============================================================================
