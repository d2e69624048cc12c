--------------------------- MODULE MCFlowController ---------------------------
(* The requests of the run of FlowController.                              *)
EXTENDS FlowController

CONSTANTS s1, s2

Text(s, dst, agent, wellFormed) ==
    [switch |-> s, client |-> "h1", rule |-> [dst |-> dst, agent |-> agent],
     wellFormed |-> wellFormed]

At(addr, port) == [addr |-> addr, port |-> port]

\* Two flows through one switch, to one address and by one agent, another through
\* the other switch, and an address that is none.
SomeTexts ==
    {Text(s1, At("h2", 80), At("h3", 11568), TRUE),
     Text(s1, At("h2", 81), At("h3", 11569), TRUE),
     Text(s2, At("h2", 80), At("h3", 11569), TRUE),
     Text(s1, At("h2", 80), At("h3", 11568), FALSE)}

\* s1 is the first switch that is started.
Devices == [s \in Switches |-> 0]

=============================================================================
