-------------------------------- MODULE AppTopo --------------------------------
(* The demonstration network as it is numbered (mininet/utils/mininet/          *)
(* apptopo.py): which port of a switch carries which link.  A link is a pair of *)
(* nodes; a node is [kind, num].  Mininet numbers the ports of a switch from 1  *)
(* in the order of the calls of addLink.                                       *)
EXTENDS ShortestPath, FiniteSetsExt, TLC

Node(kind, num) == [kind |-> kind, num |-> num]
Nodes == [kind : STRING, num : Nat]

NodesOf(links) == UNION {{links[i][1], links[i][2]} : i \in DOMAIN links}
HostsOf(links) == {n \in NodesOf(links) : n.kind = "h"}
SwitchesOf(links) == {n \in NodesOf(links) : n.kind = "s"}

\* The hosts, each once, in one fixed order: the code sorts them by name.
host_names(links) == SetToSeq(HostsOf(links))

\* The assertion of line 33: only switches at the other end of a host's link.
Numberable(links) == \A i \in DOMAIN links : \E j \in {1, 2} : links[i][j].kind = "s"

\* The elements of a sequence at the chosen positions, in their order.
Rank(chosen, i) == Cardinality({j \in chosen : j <= i})
Picked(seq, chosen) ==
    [k \in 1 .. Cardinality(chosen) |-> seq[CHOOSE i \in chosen : Rank(chosen, i) = k]]

\* A link, or a call of addLink, that has an end at node, and what is at the other end.
Touches(link, node) == node \in {link[1], link[2]}
Peer(link, node) == IF link[1] = node THEN link[2] ELSE link[1]

\* addLink's calls: host by host its links, the host first, then the links between
\* switches as they are listed.
HostCalls(links, host) ==
    Picked([i \in DOMAIN links |-> <<host, Peer(links[i], host)>>],
           {i \in DOMAIN links : Touches(links[i], host)})

SwitchCalls(links) ==
    Picked(links, {i \in DOMAIN links : links[i][1].kind = "s" /\ links[i][2].kind = "s"})

addLinks(links) ==
    FlattenSeq([i \in DOMAIN host_names(links) |->
                   HostCalls(links, host_names(links)[i])]) \o SwitchCalls(links)

\* The calls that give sw a port.
CallsAt(links, sw) == {i \in DOMAIN addLinks(links) : Touches(addLinks(links)[i], sw)}

\* sw_ports: what a switch has been told about its links.
sw_ports(links, sw) ==
    Picked([i \in DOMAIN addLinks(links) |-> Peer(addLinks(links)[i], sw)],
           CallsAt(links, sw))

\* Mutant of port_index: list positions are used as port numbers.
port_index_FromZero(links, sw, peer) ==
    Min({i \in DOMAIN sw_ports(links, sw) : sw_ports(links, sw)[i] = peer}) - 1

\* sw_ports[sw].index(peer) + 1: the first of several links to one peer.
port_index(links, sw, peer) ==
    Min({i \in DOMAIN sw_ports(links, sw) : sw_ports(links, sw)[i] = peer})

\* What Mininet gives to the i-th call, at the end that is sw.
MininetPort(links, i, sw) == Rank(CallsAt(links, sw), i)

\* No two links join the same nodes, and none a node to itself.
Simple(links) ==
    \A i \in DOMAIN links :
        /\ links[i][1] # links[i][2]
        /\ \A j \in DOMAIN links :
             {links[i][1], links[i][2]} = {links[j][1], links[j][2]} => i = j

\* _host_links[host][sw]: address, gateway and port, by number.
host_link(links, host, sw) ==
    [host_ip |-> <<10, 0, sw.num, host.num>>, sw_ip |-> <<10, 0, sw.num, 254>>,
     sw_port |-> port_index(links, sw, host)]

=============================================================================
