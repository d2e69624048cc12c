------------------------------ MODULE EdgeSwitch ------------------------------
(* What the program of an edge switch does to an IPv4 packet                    *)
(* (mininet/ext_controller/templates/edge_template.p4).  A packet is a record   *)
(* [protocol, src, dst], its ends are locations [addr, port].  A program is     *)
(* what the generator fills in: the host behind port 1, and for each direction  *)
(* the rules, each with the real destination and the agent that stands for it.  *)
(* The next hop is behind port 2; addresses of the Ethernet header follow from  *)
(* the port, and neither they nor TTL and checksums are modelled.               *)
EXTENDS Naturals

OnPort(port, packet) == [port |-> port, packet |-> packet]

Dropped == [port |-> 0]

\* ( agent, my_host_ip, _): fake_source of the destination.
IncomingRules(program, packet) ==
    {r \in program.incoming : packet.src = r.from /\ packet.dst.addr = program.host}

fake_source(rule, packet) == OnPort(1, [packet EXCEPT !.src = rule.as])

\* ( my_host_ip, _, destination): reroute to the agent.
OutgoingRules(program, packet) ==
    {r \in program.outgoing : packet.src.addr = program.host /\ packet.dst = r.to}

reroute(rule, packet) == OnPort(2, [packet EXCEPT !.dst = rule.via])

\* tcp_routing and udp_routing: the first entry that fits, incoming rules before
\* outgoing ones, then what belongs to the host, then everything else.
routing(program, packet) ==
    LET incoming == IncomingRules(program, packet)
        outgoing == OutgoingRules(program, packet)
    IN IF incoming # {} THEN fake_source(CHOOSE r \in incoming : TRUE, packet)
       ELSE IF outgoing # {} THEN reroute(CHOOSE r \in outgoing : TRUE, packet)
       ELSE OnPort(IF packet.dst.addr = program.host THEN 1 ELSE 2, packet)

\* Traffic that is neither TCP nor UDP has to come from the host or go to it.
ipv4_lpm(program, packet) ==
    IF packet.src.addr = program.host THEN OnPort(2, packet)
    ELSE IF packet.dst.addr = program.host THEN OnPort(1, packet)
    ELSE Dropped

MyIngress(program, packet) ==
    IF packet.protocol \in {"tcp", "udp"} THEN routing(program, packet)
    ELSE ipv4_lpm(program, packet)

=============================================================================
