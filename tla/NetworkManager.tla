---------------------------- MODULE NetworkManager ----------------------------
(***************************************************************************)
(* The manager: manager.c (the control loop), network_manager.c (flow      *)
(* creation and removal), net_util.c (calls to agents), with the map and   *)
(* the topology of the modules it extends.                                 *)
(*                                                                         *)
(* The manager is one thread that serves one client connection at a time.  *)
(* Between two places where it waits (accept, the answer of an agent, the  *)
(* acknowledgement file of the switch controller) nothing can interfere,   *)
(* so a step runs from one wait to the next.  `mpc' says where it waits:   *)
(*   accept      in accept (manager.c:54)                                  *)
(*   outbound    for the outbound agent's answer (network_manager.c:146)   *)
(*   inbound     for the inbound agent's answer (network_manager.c:168)    *)
(*   filing      between creating and filling the request file             *)
(*   controller  for the acknowledgement file (network_manager.c:195)      *)
(*   hung        in a map operation that never returns                     *)
(*   stopped     after TERMINATE                                           *)
(*   crashed     after a signal, its own or another's                      *)
(*                                                                         *)
(* Clients, agents and the switch controller are open here: a client may   *)
(* send anything, an agent may answer, be unreachable or die before it     *)
(* answers, and the controller may end at any point and be started again.  *)
(***************************************************************************)
EXTENDS FlowMap, TopologyManager, FiniteSetsExt

CONSTANTS
    Requests,     \* the RegisterFlow bodies clients send
    FlowIds,      \* the flow numbers clients ask to delete
    FirstPort,    \* 8108 at network_manager.c:20
    LowPort,      \* 4000 at network_manager.c:235
    PortSpace,    \* 65536 at network_manager.c:235
    BypassPorts,  \* ports at which an agent opens a bypass
    UninitInts,   \* what an int of malloc'ed memory may hold
    MaxDeletes,   \* bound: DELETE_FLOW messages served
    MaxRestarts   \* bound: times the manager or the controller is started again

ASSUME PortAssumption ==
    /\ FirstPort \in Nat
    /\ LowPort \in Nat
    /\ PortSpace \in Nat
    /\ BypassPorts \subseteq Nat
    /\ UninitInts \subseteq Int

\* A client may ask for a flow that was never granted, but not for a negative
\* number: that would be an index below the arrays (map.c:44).
ASSUME RequestAssumption ==
    /\ \A r \in Requests : r.resources \in Int
    /\ FlowIds \subseteq Nat

ASSUME BoundAssumption == MaxDeletes \in Nat /\ MaxRestarts \in Nat

VARIABLES
    flow_ct,        \* the number of the next flow
    map,            \* the registered flows
    port,           \* the next flow port
    portHash,       \* the flow ports handed out
    mpc,            \* where the manager waits
    buf,            \* main's receive buffer
    outboundAgent,  \* locals of create_flow a later call may find in its frame
    inboundAgent,
    cur,            \* the flow being created, NoFlow outside create_flow
    rpc,            \* the connection to an agent
    reqs,           \* the request files r<flow>, read by the switch controller
    acks,           \* the flows with an acknowledgement file ack<flow>
    controller,     \* the switch controller: the file it is busy with
    granted,        \* history: flows acknowledged since the manager started
    removed,        \* history: granted flows a client has deleted since
    deletes,        \* history: DELETE_FLOW messages served
    restarts,       \* history: times the manager was started again
    controllerRestarts  \* history: times the switch controller was

flowVars == <<flow_ct, map, throughput, granted>>
portVars == <<port, portHash>>
frameVars == <<outboundAgent, inboundAgent>>
fileVars == <<reqs, acks>>
historyVars == <<removed, deletes, restarts, controllerRestarts>>

vars == <<flowVars, portVars, mpc, buf, frameVars, cur, rpc, fileVars,
          controller, historyVars>>

ClientMessages ==
    {[type |-> "REGISTER_FLOW", registerFlow |-> r] : r \in Requests}
    \cup {[type |-> "DELETE_FLOW", flowId |-> i] : i \in FlowIds}
    \cup {[type |-> "TERMINATE"], [type |-> "PRINT_STATE"]}

\* The bytes of a fresh stack are no message the loop knows.
FreshBuffer == [type |-> "UNKNOWN"]

NoFlow == [id |-> -1]

NoCall == [phase |-> "idle"]

IdleController == [phase |-> "idle"]

DeadController == [phase |-> "dead"]

\* nm_initialize, and the initial values of the globals.
Init ==
    /\ flow_ct = 0
    /\ map = map_create
    /\ throughput = initialThroughput
    /\ port = FirstPort
    /\ portHash = {}
    /\ mpc = "accept"
    /\ buf = FreshBuffer
    /\ outboundAgent = NoHost
    /\ inboundAgent = NoHost
    /\ cur = NoFlow
    /\ rpc = NoCall
    /\ granted = {}
    /\ removed = {}
    /\ reqs = {}
    /\ acks = {}
    /\ controller = IdleController
    /\ deletes = 0
    /\ restarts = 0
    /\ controllerRestarts = 0

----------------------------------------------------------------------------
(* Choosing nodes, agents and a port: network_manager.c:35-135.            *)

\* Mutant of SuitablePairs: the capacity of the exit node is not looked at.
SuitablePairs_EntryOnly(r) ==
    {p \in returnOverlays(r.entryOverlaySite) \X returnOverlays(r.exitOverlaySite) :
        /\ throughput[p[1]] >= r.resources
        /\ OverlayPort(p[1]) = OverlayPort(p[2])}

\* The pairs of nodes the nested loops of lines 58-84 accept.
SuitablePairs(r) ==
    {p \in returnOverlays(r.entryOverlaySite) \X returnOverlays(r.exitOverlaySite) :
        /\ throughput[p[1]] >= r.resources
        /\ throughput[p[2]] >= r.resources
        /\ OverlayPort(p[1]) = OverlayPort(p[2])}

\* The one they accept first: the outer loop runs over entry nodes.
FirstPair(pairs) ==
    CHOOSE p \in pairs : \A q \in pairs :
        p[1] < q[1] \/ (p[1] = q[1] /\ p[2] <= q[2])

PortRefused == port < LowPort \/ port > PortSpace

\* Mutant of requestPort: the next port is not advanced.
requestPort_Repeats ==
    /\ portHash' = portHash \cup {port}
    /\ UNCHANGED port

requestPort ==
    /\ portHash' = portHash \cup {port}
    /\ port' = port + 1

\* create_flow has begun on r: both agents are looked up (lines 52-54).
LookUpAgents(r) ==
    /\ outboundAgent' \in returnAgent(r.outboundAgent, outboundAgent)
    /\ inboundAgent' \in returnAgent(r.inboundAgent, inboundAgent)

NewFlow(r, flowId, pair) ==
    [id |-> flowId, request |-> r, entry |-> pair[1], exit |-> pair[2],
     newPort |-> port, inPort |-> -1]

\* Lines 138-141: where the agent at the exit delivers, and through which node.
OutboundMessage(f) ==
    [type |-> "ADD_FLOW_ROUTING_OUTBOUND", flowId |-> f.id,
     target |-> f.request.dst, overlay |-> OverlayList[f.exit].location,
     bypass |-> f.request.bypass, flowPort |-> f.newPort]

\* Mutant of InboundMessage: the traffic is sent back to the entry node.
InboundMessage_EntryNode(f) ==
    [type |-> "ADD_FLOW_ROUTING_INBOUND", flowId |-> f.id,
     target |-> [address |-> OverlayList[f.entry].location.address,
                 port |-> f.newPort],
     overlay |-> OverlayList[f.entry].location,
     bypass |-> f.request.bypass, flowPort |-> f.newPort]

\* Lines 160-164: to which Spines port the agent at the entry sends.
InboundMessage(f) ==
    [type |-> "ADD_FLOW_ROUTING_INBOUND", flowId |-> f.id,
     target |-> [address |-> OverlayList[f.exit].location.address,
                 port |-> f.newPort],
     overlay |-> OverlayList[f.entry].location,
     bypass |-> f.request.bypass, flowPort |-> f.newPort]

\* send_message_r: connect and send; the answer or the failure comes later.
Calling(agent, message) ==
    [phase |-> "calling", agent |-> agent, message |-> message, data |-> 0]

\* Mutant of RefuseRequest: flow_ct is taken back twice.
RefuseRequest_TwiceBack(r) ==
    /\ LookUpAgents(r)
    /\ SuitablePairs(r) = {} \/ PortRefused
    /\ flow_ct' = flow_ct - 1
    /\ UNCHANGED <<map, throughput, granted, portVars, mpc, cur, rpc, historyVars>>

\* create_flow fails before it has called an agent; flow_ct is back where it was.
RefuseRequest(r) ==
    /\ LookUpAgents(r)
    /\ SuitablePairs(r) = {} \/ PortRefused
    /\ UNCHANGED <<flowVars, portVars, mpc, cur, rpc, historyVars>>

BeginFlow(r) ==
    /\ LookUpAgents(r)
    /\ SuitablePairs(r) # {}
    /\ ~PortRefused
    /\ requestPort
    /\ cur' = NewFlow(r, flow_ct, FirstPair(SuitablePairs(r)))
    /\ flow_ct' = flow_ct + 1
    /\ rpc' = Calling(outboundAgent', OutboundMessage(cur'))
    /\ mpc' = "outbound"
    /\ UNCHANGED <<map, throughput, granted, historyVars>>

RegisterFlow(r) == RefuseRequest(r) \/ BeginFlow(r)

----------------------------------------------------------------------------
(* Creating the flow: network_manager.c:146-204.                           *)

\* response->ack.data: the answer, or whatever the malloc'ed message held when
\* the agent closed the connection without one (net_util.c:49-52).
Acked(d) ==
    \/ rpc.phase = "answered" /\ d = rpc.data
    \/ rpc.phase = "closed" /\ d \in UninitInts

\* What the map keeps of a flow.
StoredFlow(f) ==
    [originalDst |-> f.request.dst,
     outDst |-> outboundAgent.location,
     inDst |-> [address |-> inboundAgent.location.address, port |-> f.inPort]]

Grant(f) ==
    [id |-> f.id, port |-> f.newPort, entry |-> f.entry, exit |-> f.exit,
     request |-> f.request, flow |-> StoredFlow(f)]

\* Lines 201-204, and the answer to the client (manager.c:63-64).
CommitFlow(f) ==
    \/ /\ ~InsertHangs(map, f.id)
       /\ map' \in map_insert(map, f.id, StoredFlow(f))
       /\ reduceResources(OverlayPort(f.entry), f.request.resources)
       /\ granted' = granted \cup {Grant(f)}
       /\ cur' = NoFlow
       /\ mpc' = "accept"
       /\ UNCHANGED flow_ct
    \/ /\ InsertHangs(map, f.id)
       /\ cur' = f
       /\ mpc' = "hung"
       /\ UNCHANGED flowVars

OutboundOpened ==
    /\ mpc = "outbound"
    /\ \E d \in UninitInts \cup {rpc.data} : Acked(d) /\ d > 0
    /\ rpc' = Calling(inboundAgent, InboundMessage(cur))
    /\ mpc' = "inbound"
    /\ UNCHANGED <<flowVars, portVars, buf, frameVars, cur, fileVars, controller,
                   historyVars>>

\* Mutant of OpenFailed: flow_ct is not taken back.
OpenFailed_KeepsNumber ==
    /\ mpc \in {"outbound", "inbound"}
    /\ \E d \in UninitInts \cup {rpc.data} : Acked(d) /\ d <= 0
    /\ cur' = NoFlow
    /\ rpc' = NoCall
    /\ mpc' = "accept"
    /\ UNCHANGED <<flowVars, portVars, buf, frameVars, fileVars, controller, historyVars>>

\* An answer that is no port: lines 149-156 and 175-179.
OpenFailed ==
    /\ mpc \in {"outbound", "inbound"}
    /\ \E d \in UninitInts \cup {rpc.data} : Acked(d) /\ d <= 0
    /\ flow_ct' = flow_ct - 1
    /\ cur' = NoFlow
    /\ rpc' = NoCall
    /\ mpc' = "accept"
    /\ UNCHANGED <<map, throughput, granted, portVars, buf, frameVars, fileVars,
                   controller, historyVars>>

\* send_message_r returned NULL; lines 148 and 169 dereference it.
AgentUnreachable ==
    /\ mpc \in {"outbound", "inbound"}
    /\ rpc.phase = "refused"
    /\ rpc' = NoCall
    /\ mpc' = "crashed"
    /\ UNCHANGED <<flowVars, portVars, buf, frameVars, cur, fileVars, controller,
                   historyVars>>

OtherRequests(f) == {q \in reqs : q.id # f.id}

\* Line 190: the rule the switch is to be programmed with.
RequestText(f) == <<[from |-> f.request.dst, to |-> outboundAgent.location]>>

\* fopen creates or truncates r<flow> (line 186).
InboundOpened ==
    /\ mpc = "inbound"
    /\ \E d \in UninitInts \cup {rpc.data} :
        /\ Acked(d) /\ d > 0
        /\ LET f == [cur EXCEPT !.inPort = d]
           IN  \/ /\ ~f.request.bypass
                  /\ CommitFlow(f)
                  /\ UNCHANGED reqs
               \/ /\ f.request.bypass
                  /\ cur' = f
                  /\ reqs' = OtherRequests(f) \cup {[id |-> f.id, text |-> <<>>]}
                  /\ mpc' = "filing"
                  /\ UNCHANGED flowVars
    /\ rpc' = NoCall
    /\ UNCHANGED <<portVars, buf, frameVars, acks, controller, historyVars>>

\* The text is buffered and reaches the file at fclose (line 191).
FillRequestFile ==
    /\ mpc = "filing"
    /\ reqs' = OtherRequests(cur) \cup {[id |-> cur.id, text |-> RequestText(cur)]}
    /\ mpc' = "controller"
    /\ UNCHANGED <<flowVars, portVars, buf, frameVars, cur, rpc, acks, controller,
                   historyVars>>

\* Mutant of ControllerDone: the acknowledgement file is not removed.
ControllerDone_KeepsFile ==
    /\ mpc = "controller"
    /\ cur.id \in acks
    /\ CommitFlow(cur)
    /\ UNCHANGED <<portVars, buf, frameVars, rpc, fileVars, controller, historyVars>>

\* Mutant of ControllerDone: the manager clears the request away itself.
ControllerDone_ClearsRequest ==
    /\ mpc = "controller"
    /\ cur.id \in acks
    /\ acks' = acks \ {cur.id}
    /\ reqs' = OtherRequests(cur)
    /\ CommitFlow(cur)
    /\ UNCHANGED <<portVars, buf, frameVars, rpc, controller, historyVars>>

\* Lines 195-198: the loop sees ack<flow> and removes it.
ControllerDone ==
    /\ mpc = "controller"
    /\ cur.id \in acks
    /\ acks' = acks \ {cur.id}
    /\ CommitFlow(cur)
    /\ UNCHANGED <<portVars, buf, frameVars, rpc, reqs, controller, historyVars>>

----------------------------------------------------------------------------
(* The control loop: manager.c:53-76.                                      *)

IdsGranted == {f.id : f \in granted}

\* remove_flow drops the map entry: no port, capacity or agent is given back.
DeleteFlow(flowId) ==
    /\ deletes < MaxDeletes
    /\ deletes' = deletes + 1
    /\ removed' = removed \cup ({flowId} \cap IdsGranted)
    /\ \/ /\ ~DeleteHangs(map, flowId)
          /\ map' = map_delete(map, flowId)
          /\ UNCHANGED mpc
       \/ /\ DeleteHangs(map, flowId)
          /\ mpc' = "hung"
          /\ UNCHANGED map
    /\ UNCHANGED <<flow_ct, throughput, granted, portVars, frameVars, cur, rpc, restarts,
                   controllerRestarts>>

Terminate ==
    /\ mpc' = "stopped"
    /\ UNCHANGED <<flowVars, portVars, frameVars, cur, rpc, historyVars>>

\* nm_print_state only reads; a message of no known type is dropped.
NoEffect == UNCHANGED <<flowVars, portVars, mpc, frameVars, cur, rpc, historyVars>>

Dispatch(msg) ==
    \/ msg.type = "REGISTER_FLOW" /\ RegisterFlow(msg.registerFlow)
    \/ msg.type = "DELETE_FLOW" /\ DeleteFlow(msg.flowId)
    \/ msg.type = "TERMINATE" /\ Terminate
    \/ msg.type \in {"PRINT_STATE", "UNKNOWN"} /\ NoEffect

\* A client connects and sends a message, or closes without sending: the result
\* of recv is not looked at, so the previous message is served again.
ServeClient ==
    /\ mpc = "accept"
    /\ \E msg \in ClientMessages \cup {buf} : buf' = msg /\ Dispatch(msg)
    /\ UNCHANGED <<fileVars, controller>>

\* The bound on restarts is one for the manager and the controller.
MayRestart == restarts + controllerRestarts < MaxRestarts

\* A signal from outside, in any state of a running manager.
Kill ==
    /\ mpc \notin {"stopped", "crashed"}
    /\ MayRestart
    /\ mpc' = "crashed"
    /\ rpc' = NoCall
    /\ UNCHANGED <<flowVars, portVars, buf, frameVars, cur, fileVars, controller,
                   historyVars>>

\* Nothing survives but the files in ext_controller/reqs.
Restart ==
    /\ mpc \in {"stopped", "crashed"}
    /\ MayRestart
    /\ restarts' = restarts + 1
    /\ flow_ct' = 0
    /\ map' = map_create
    /\ throughput' = initialThroughput
    /\ port' = FirstPort
    /\ portHash' = {}
    /\ mpc' = "accept"
    /\ buf' = FreshBuffer
    /\ outboundAgent' = NoHost
    /\ inboundAgent' = NoHost
    /\ cur' = NoFlow
    /\ rpc' = NoCall
    /\ granted' = {}
    /\ removed' = {}
    /\ UNCHANGED <<fileVars, controller, deletes, controllerRestarts>>

----------------------------------------------------------------------------
(* The manager's surroundings.                                             *)

CallEnds(phase, data) ==
    [phase |-> phase, agent |-> rpc.agent, message |-> rpc.message, data |-> data]

\* An agent answers with the port it opened: the flow port, or one of its own
\* for a bypass (agent_data.c:162, 272, 351).
AgentAnswers ==
    /\ rpc.phase = "calling"
    /\ rpc.agent # NoHost
    /\ \E p \in IF rpc.message.bypass THEN BypassPorts ELSE {rpc.message.flowPort} :
        rpc' = CallEnds("answered", p)

\* Nothing listens at the agent's address, or the address is none.
ConnectionRefused ==
    /\ rpc.phase = "calling"
    /\ rpc' = CallEnds("refused", 0)

\* The agent dies, or drops the connection, before it answers.
ConnectionClosed ==
    /\ rpc.phase = "calling"
    /\ rpc.agent # NoHost
    /\ rpc' = CallEnds("closed", 0)

Agents ==
    /\ AgentAnswers \/ ConnectionRefused \/ ConnectionClosed
    /\ UNCHANGED <<flowVars, portVars, mpc, buf, frameVars, cur, fileVars, controller,
                   historyVars>>

\* controller.py reads a request file; data[0] of an empty one is an IndexError
\* that ends the controller.
ControllerReads ==
    /\ controller.phase = "idle"
    /\ \E q \in reqs :
        controller' = IF q.text = <<>>
                      THEN DeadController
                      ELSE [phase |-> "installing", id |-> q.id]
    /\ UNCHANGED fileVars

ControllerAcks ==
    /\ controller.phase = "installing"
    /\ acks' = acks \cup {controller.id}
    /\ controller' = [phase |-> "removing", id |-> controller.id]
    /\ UNCHANGED reqs

ControllerRemoves ==
    /\ controller.phase = "removing"
    /\ reqs' = {q \in reqs : q.id # controller.id}
    /\ controller' = IdleController
    /\ UNCHANGED acks

Controller ==
    /\ ControllerReads \/ ControllerAcks \/ ControllerRemoves
    /\ UNCHANGED <<flowVars, portVars, mpc, buf, frameVars, cur, rpc, historyVars>>

\* An exception nobody catches, a signal or the file "exit" ends the controller
\* wherever it is; what it has written stays.
ControllerDies ==
    /\ controller.phase # "dead"
    /\ MayRestart
    /\ controller' = DeadController
    /\ UNCHANGED controllerRestarts

\* It is started again and finds the files that are there: a request that was
\* acknowledged and not yet removed is served once more.
RestartController ==
    /\ controller.phase = "dead"
    /\ MayRestart
    /\ controllerRestarts' = controllerRestarts + 1
    /\ controller' = IdleController

ControllerFails ==
    /\ ControllerDies \/ RestartController
    /\ UNCHANGED <<flowVars, portVars, mpc, buf, frameVars, cur, rpc, fileVars, removed,
                   deletes, restarts>>

----------------------------------------------------------------------------

\* The steps of a create_flow that has been begun.
Progress ==
    OutboundOpened \/ InboundOpened \/ OpenFailed \/ AgentUnreachable
    \/ FillRequestFile \/ ControllerDone

Next ==
    \/ ServeClient
    \/ Progress
    \/ Kill
    \/ Restart
    \/ Agents
    \/ Controller
    \/ ControllerFails

Spec == Init /\ [][Next]_vars

----------------------------------------------------------------------------
(* Properties.                                                             *)

Running == mpc \in {"accept", "outbound", "inbound", "filing", "controller", "hung"}

InCreateFlow == mpc \in {"outbound", "inbound", "filing", "controller"}

FlowsInCreation ==
    [id : Nat, request : Requests, entry : Nodes, exit : Nodes,
     newPort : Nat, inPort : Int]

\* The manager's variables have their types.  The map has its own type
\* invariant, MapLibrary!TypeOK, for the operators of FlowMap.
TypeOK ==
    /\ flow_ct \in Nat
    /\ throughput \in [Nodes -> Int]
    /\ port \in Nat
    /\ portHash \subseteq Nat
    /\ mpc \in {"accept", "outbound", "inbound", "filing", "controller", "hung",
                "stopped", "crashed"}
    /\ buf \in ClientMessages \cup {FreshBuffer}
    /\ outboundAgent \in ListedAgents \cup {NoHost}
    /\ inboundAgent \in ListedAgents \cup {NoHost}
    /\ cur \in FlowsInCreation \cup {NoFlow}
    /\ rpc.phase \in {"idle", "calling", "answered", "refused", "closed"}
    /\ rpc.phase # "idle" => rpc.message.flowPort \in Nat /\ rpc.data \in Int
    /\ InCreateFlow => cur # NoFlow
    /\ mpc \in {"outbound", "inbound"} => rpc.phase # "idle"
    /\ \A q \in reqs : q.id \in Nat
    /\ controller.phase \in {"idle", "installing", "removing", "dead"}
    /\ controller.phase \in {"installing", "removing"} => controller.id \in Nat
    /\ acks \subseteq Nat
    /\ removed \subseteq FlowIds
    /\ deletes \in 0 .. MaxDeletes
    /\ restarts \in Nat
    /\ controllerRestarts \in Nat
    /\ restarts + controllerRestarts <= MaxRestarts

\* README.md:75 "The flow receives its own unique port number": no two flows the
\* manager has acknowledged since it started, nor one it is creating, share a
\* port, although flow numbers are handed back when a creation fails and ports
\* are not (network_manager.c:131-135, 231-245).
PortsUnique ==
    /\ \A f, g \in granted : f.port = g.port => f.id = g.id
    /\ cur # NoFlow => \A f \in granted : f.port # cur.newPort

\* The numbers of the acknowledged flows are 0, 1, 2, ... without a gap, in
\* spite of every failure path that takes the counter back, and one flow has one
\* number (network_manager.c:35, 88, 133, 154, 177).
IdsDense ==
    /\ IdsGranted = 0 .. ((IF cur = NoFlow THEN flow_ct ELSE flow_ct - 1) - 1)
    /\ \A f, g \in granted : f.id = g.id => f = g

Taken(flows) == MapThenSumSet(LAMBDA f : f.request.resources, flows)

\* What is left at a node is what it had less what the acknowledged flows of its
\* overlay take: a refused, failed or unfinished creation takes nothing, and a
\* deletion returns nothing (network_manager.c:202, topology_manager.c:133-146).
CapacityAccounted ==
    \A n \in Nodes : throughput[n] =
        OverlayList[n].throughput -
        Taken({f \in granted : OverlayPort(f.entry) = OverlayPort(n)})

\* A flow that was acknowledged and not deleted is still in the map with its own
\* endpoints, whatever was deleted beside it and however the map grew.
LiveFlowsListed ==
    Running => \A f \in granted : f.id \notin removed =>
        \E s \in SlotsOf(map, f.id) : map.values[s] = f.flow

\* Every slot nm_print_state dereferences (network_manager.c:214-216) holds the
\* flow that was acknowledged under its key.
PrintedFlowsGranted ==
    \A s \in Occupied(map) :
        \E f \in granted : f.id = map.keys[s] /\ f.flow = map.values[s]

\* Without deletions the manager can hang in its map only once the map has
\* grown, that is, with more flows than InitialCapacity.
HangsOnlyAfterGrowth ==
    mpc = "hung" /\ deletes = 0 =>
        Cardinality(granted) > InitialCapacity /\ map.capacity > InitialCapacity

\* Every overlay has at most two nodes, and flows go from one site to another, as
\* in overlay_list.txt.
TwoNodeOverlays ==
    /\ \A a, b, n \in Nodes :
        a # b /\ OverlayPort(a) = OverlayPort(b) /\ OverlayPort(n) = OverlayPort(a) =>
            n \in {a, b}
    /\ \A n \in Nodes : OverlayList[n].throughput >= 0
    /\ \A r \in Requests : r.entryOverlaySite # r.exitOverlaySite

\* No node is charged more than it has, when every overlay has two nodes: the
\* capacity checked before the agents are called is still there when it is
\* taken (network_manager.c:64-72, 202).
NoOverdraft == TwoNodeOverlays => \A n \in Nodes : throughput[n] >= 0

\* The manager waits for, or hangs with, the acknowledged flow id.
Awaits(id) == mpc \in {"controller", "hung"} /\ cur.id = id

\* As long as the manager is not restarted it never takes an acknowledgement for
\* another flow's, though flow numbers are reused after failures, the controller
\* removes request files late and may serve a request twice when it is started
\* again (network_manager.c:181-199, controller.py:138-160): an acknowledgement
\* is there only for the flow the manager waits with or, once the controller has
\* been started again, for one that was granted, whose number is never filed
\* again; with one life of the controller none is left behind.
AckBelongsToWaiter ==
    restarts = 0 /\ mpc # "crashed" =>
        /\ \A id \in acks : Awaits(id) \/ id \in IdsGranted
        /\ controllerRestarts = 0 =>
            acks \subseteq (IF mpc = "controller" THEN {cur.id} ELSE {})

\* The directory of requests as the manager and the controller it expects use it.
RequestFiles == INSTANCE FileHandshake WITH
        filed <- {q.id : q \in reqs},
        acks <- acks,
        worker <- [phase   |-> CASE controller.phase = "installing" -> "serving"
                                 [] controller.phase = "removing" -> "acknowledged"
                                 [] controller.phase = "dead" -> "gone"
                                 [] OTHER -> "idle",
                   serving |-> IF controller.phase \in {"installing", "removing"}
                               THEN {controller.id} ELSE {}]

\* The manager and the controller it expects keep to the protocol that the real
\* controller implements (FlowController), through failures and restarts of
\* either: nobody but the controller takes a request away, and only after
\* acknowledging it.
UsesHandshake == RequestFiles!HandshakeSpec

\* README.md:188 "Support of multiple simultaneous flows": the manager does not
\* stop working because flows are registered.
NeverHung == mpc # "hung"

=============================================================================
