--------------------------- MODULE TopologyManager ---------------------------
(***************************************************************************)
(* topology_manager.c: the overlay nodes and the agents the manager reads  *)
(* from overlay_list.txt and agent_list.txt, and the capacity left at      *)
(* every node.  A node is named by its place in the list.  A location is a *)
(* record of an address and a port; the port of a node names the overlay   *)
(* (the Spines instance) it belongs to.                                    *)
(***************************************************************************)
EXTENDS Integers, Sequences

CONSTANTS
    OverlayList,  \* [location, siteID, throughput] for every node
    AgentList,    \* [location, siteID] for every agent
    NoHost        \* an Agent struct whose bytes name no host

VARIABLE throughput  \* Node.throughput, the capacity left, per node

Nodes == DOMAIN OverlayList

OverlayPort(n) == OverlayList[n].location.port

ListedAgents == {AgentList[a] : a \in DOMAIN AgentList}

ASSUME TopologyAssumption ==
    /\ Nodes \subseteq Nat
    /\ DOMAIN AgentList \subseteq Nat
    /\ \A n \in Nodes : OverlayList[n].throughput \in Int
    /\ NoHost \notin ListedAgents

\* initialize reads both lists.
initialThroughput == [n \in Nodes |-> OverlayList[n].throughput]

\* The loop keeps the order of the list, which is the order of the numbers.
returnOverlays(site) == {n \in Nodes : OverlayList[n].siteID = site}

\* The first agent of the site.  When the site has none the function ends
\* without a return statement: the caller's variable keeps what was there, the
\* agent of an earlier call or bytes of other frames.
returnAgent(site, leftover) ==
    LET matching == {a \in DOMAIN AgentList : AgentList[a].siteID = site}
    IN  IF matching = {}
        THEN {leftover, NoHost}
        ELSE {AgentList[CHOOSE a \in matching : \A b \in matching : a <= b]}

\* Mutant of reduceResources: the loop ends at the first node of the overlay.
reduceResources_FirstOnly(overlayPort, amount) ==
    throughput' = [n \in Nodes |->
        IF /\ OverlayPort(n) = overlayPort
           /\ \A k \in Nodes : OverlayPort(k) = overlayPort => n <= k
        THEN throughput[n] - amount
        ELSE throughput[n]]

\* Every node of the overlay is charged, wherever the flow enters and leaves.
reduceResources(overlayPort, amount) ==
    throughput' = [n \in Nodes |-> IF OverlayPort(n) = overlayPort
                                   THEN throughput[n] - amount
                                   ELSE throughput[n]]

=============================================================================
