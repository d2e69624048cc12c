------------------------------ MODULE MCAppRunner ------------------------------
(* The manifests and networks of the run of AppRunner.                          *)
EXTENDS AppRunner

h1 == Node("h", 1)
h2 == Node("h", 2)
h3 == Node("h", 3)
s1 == Node("s", 1)
s2 == Node("s", 2)
s3 == Node("s", 3)

\* Up to three of seven links, which name their ends in either order, and the ring
\* of the switches with a host at one of them, in every order.
Cables == {<<h1, s1>>, <<s2, h1>>, <<s2, h2>>, <<h2, s3>>, <<s2, s1>>, <<s2, s3>>,
           <<s1, s3>>}
Ring == {<<s2, s1>>, <<s2, s3>>, <<s1, s3>>}
Networks ==
    {links \in UNION {[1 .. n -> Cables] : n \in 1 .. 3} : IsInjective(links)}
    \cup {links \in [1 .. 4 -> Ring \cup {<<h2, s3>>}] : IsInjective(links)}

Target ==
    [use |-> "multiswitch", before |-> None, flags |-> None, after |-> None,
     test |-> FALSE, program |-> FALSE, switch_config |-> FALSE, links |-> <<>>,
     hosts |-> <<>>, entries |-> None, auto |-> TRUE, cli |-> FALSE]

App(target) ==
    [program |-> TRUE, language |-> "p4-16", targets |-> "one" :> target,
     order |-> <<"one">>, default |-> None, arg |-> None, shipped |-> FALSE]

Triangle == <<<<h1, s1>>, <<s1, s2>>, <<h2, s2>>, <<s3, s1>>, <<s2, s3>>, <<s3, h3>>>>

Host(node, cmd, wait, ends, heeds) ==
    [node |-> node, cmd |-> cmd, wait |-> wait, ends |-> ends, heeds |-> heeds]

Client == Host(h1, TRUE, TRUE, TRUE, {"INT"})
Server == Host(h2, TRUE, FALSE, FALSE, {"INT"})
Deaf == Host(h2, TRUE, FALSE, FALSE, {"TERM"})
Stubborn == Host(h3, TRUE, FALSE, FALSE, {})
Endless == Host(h3, TRUE, TRUE, FALSE, {"INT", "TERM"})
Passive == Host(h1, FALSE, FALSE, FALSE, {})
Unlinked == Host(Node("h", 9), TRUE, FALSE, TRUE, {})

WithHosts(hosts) == App([Target EXCEPT !.links = Triangle, !.hosts = hosts])

OneSwitch(target) ==
    [App(Target) EXCEPT !.targets = "mininet" :> target @@ "other" :> Target,
                   !.order = <<"mininet", "other">>]

Using(use) == [Target EXCEPT !.use = use]
Plain == App(Using("compile-bmv2"))

AllApps ==
    {App([Target EXCEPT !.links = links]) : links \in Networks}
    \cup {WithHosts(<<Server, Client, Deaf>>), WithHosts(<<Passive, Deaf, Server>>),
          WithHosts(<<Server, Stubborn>>), WithHosts(<<Client, Endless>>),
          WithHosts(<<Server, Unlinked>>)}
    \cup {[WithHosts(<<Client>>) EXCEPT !.shipped = TRUE],
          App([Target EXCEPT !.links = Triangle, !.entries = "unreadable"]),
          App([Target EXCEPT !.links = Triangle, !.entries = "list", !.cli = TRUE]),
          App([Target EXCEPT !.links = <<<<h1, s1>>, <<s1, h1>>, <<s1, s2>>>>]),
          App([Target EXCEPT !.links = <<<<h1, h2>>, <<h2, s1>>>>]),
          OneSwitch([Target EXCEPT !.use = None, !.switch_config = TRUE]),
          OneSwitch([Target EXCEPT !.use = None])}
    \cup {App([Using("stf") EXCEPT !.test = b]) : b \in BOOLEAN}
    \cup {App([Using("custom") EXCEPT !.program = b]) : b \in BOOLEAN}
    \cup {App([Using("compile-bmv2") EXCEPT !.before = b]) : b \in {"list", "bad"}}
    \cup {App([Using("compile-bmv2") EXCEPT !.flags = b]) : b \in {"list", "bad"}}
    \cup {App([Using("compile-bmv2") EXCEPT !.after = b]) : b \in {"list", "bad"}}
    \cup {[Plain EXCEPT !.shipped = TRUE], [Plain EXCEPT !.program = FALSE],
          [Plain EXCEPT !.language = None], [Plain EXCEPT !.language = "p4-15"],
          [Plain EXCEPT !.order = <<>>], [Plain EXCEPT !.arg = "two"],
          [Plain EXCEPT !.default = "one"], App(Using("bmv3"))}

=============================================================================
