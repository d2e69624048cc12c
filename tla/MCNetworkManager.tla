--------------------------- MODULE MCNetworkManager ---------------------------
(* The topologies and the requests of the runs of NetworkManager.          *)
EXTENDS NetworkManager

At(address, p) == [address |-> address, port |-> p]

Node(address, p, site, capacity) ==
    [location |-> At(address, p), siteID |-> site, throughput |-> capacity]

AgentAt(address, site) == [location |-> At(address, 5679), siteID |-> site]

\* The topology of overlay_list.txt and agent_list.txt: one overlay of two nodes.
TwoNodes == <<Node("n0", 8100, 0, 3), Node("n1", 8100, 1, 4)>>

TwoAgents == <<AgentAt("a0", 0), AgentAt("a1", 1)>>

\* Two overlays of two nodes, listed so that the first entry node is not always
\* in the overlay of the first exit node.
FourNodes == <<Node("n0", 8100, 0, 2), Node("n1", 8200, 1, 3),
               Node("n2", 8200, 0, 4), Node("n3", 8100, 1, 1)>>

Request(resources, bypass, entry, exit, in, out) ==
    [dst |-> At("receiver", 12345), resources |-> resources, bypass |-> bypass,
     entryOverlaySite |-> entry, exitOverlaySite |-> exit,
     inboundAgent |-> in, outboundAgent |-> out]

Back == Request(1, FALSE, 1, 0, 1, 0)
Bypass == Request(2, TRUE, 0, 1, 0, 1)
Free == Request(0, FALSE, 0, 1, 0, 1)

FileRequests == {Bypass, Back}
FreeRequests == {Free}

=============================================================================
