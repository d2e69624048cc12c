---------------------------- MODULE MCAgentControl ----------------------------
(* The hosts and the messages of the runs of AgentControl.                 *)
EXTENDS AgentControl

At(address, p) == [address |-> address, port |-> p]

Add(type, id, target, overlay, bypass, flowPort) ==
    [type |-> type, flowId |-> id, target |-> target, overlay |-> overlay,
     bypass |-> bypass, flowPort |-> flowPort]

Inbound(id, p) ==
    Add("ADD_FLOW_ROUTING_INBOUND", id, At("n1", p), At("n0", 8100), FALSE, p)

Outbound(id, p) ==
    Add("ADD_FLOW_ROUTING_OUTBOUND", id, At("receiver", 12345), At("n1", 8100), FALSE, p)

Bypass(id) ==
    Add("ADD_FLOW_ROUTING_OUTBOUND", id, At("other", 12345), At("n1", 8100), TRUE, 8110)

\* client.c:120-122 leaves the overlay out.
Bare ==
    Add("ADD_FLOW_ROUTING_OUTBOUND", 3, At("receiver", 11999), At(NoAddress, 0), FALSE, 0)

Remove(id) == [type |-> "REMOVE_FLOW_ROUTING", flowId |-> id]

PrintState == [type |-> "PRINT_STATE"]

AllMessages ==
    {Inbound(0, 8108), Outbound(0, 8108), Inbound(2, 8109), Bypass(1), Bare,
     Remove(0), PrintState, UnreadBuffer}

AddMessages == {Inbound(0, 8108), Outbound(0, 8108), Bypass(1)}

=============================================================================
