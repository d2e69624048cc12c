----------------------------- MODULE MCFlowSystem -----------------------------
(* The topologies and the requests of the runs of FlowSystem.              *)
EXTENDS FlowSystem

At(address, p) == [address |-> address, port |-> p]

Node(address, p, site, capacity) ==
    [location |-> At(address, p), siteID |-> site, throughput |-> capacity]

AgentAt(address, site) == [location |-> At(address, 5679), siteID |-> site]

TwoNodes == <<Node("n0", 8100, 0, 2), Node("n1", 8100, 1, 2)>>

TwoAgents == <<AgentAt("a0", 0), AgentAt("a1", 1)>>

Request(receiver, bypass, entry, exit, in, out) ==
    [dst |-> At(receiver, 12345), resources |-> 1, bypass |-> bypass,
     entryOverlaySite |-> entry, exitOverlaySite |-> exit,
     inboundAgent |-> in, outboundAgent |-> out]

Forth == Request("r0", FALSE, 0, 1, 0, 1)
Other == Request("r2", FALSE, 0, 1, 0, 1)
Bypass == Request("r3", TRUE, 0, 1, 0, 1)

\* A second agent at the exit, and requests for either.
ThreeAgents == Append(TwoAgents, AgentAt("a2", 2))
Detour == Request("r4", FALSE, 0, 1, 0, 2)

AllRequests == {Forth, Other, Bypass}
OverlayRequests == {Forth, Other}
DetourRequests == {Forth, Detour}

=============================================================================
