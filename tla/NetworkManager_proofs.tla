------------------------ MODULE NetworkManager_proofs ------------------------
EXTENDS NetworkManager, FlowMap_proofs, TLAPS

----------------------------------------------------------------------------
(* Choosing from lists.                                                    *)

LEMMA ReturnedAgent ==
    ASSUME NEW site, NEW leftover \in ListedAgents \cup {NoHost}
    PROVE  returnAgent(site, leftover) \subseteq ListedAgents \cup {NoHost}
<1> DEFINE matching == {a \in DOMAIN AgentList : AgentList[a].siteID = site}
<1>1. CASE matching = {}
  BY <1>1 DEF returnAgent
<1>2. CASE matching # {}
  <2>1. matching \in SUBSET Nat
    BY TopologyAssumption
  <2>2. \E a \in matching : \A b \in matching : a <= b
    BY <1>2, <2>1, NatMinimum
  <2>3. (CHOOSE a \in matching : \A b \in matching : a <= b) \in matching
    BY <2>2
  <2>4. AgentList[CHOOSE a \in matching : \A b \in matching : a <= b] \in ListedAgents
    BY <2>3 DEF ListedAgents
  <2> QED
    BY <1>2, <2>4 DEF returnAgent
<1> QED
  BY <1>1, <1>2

LEMMA ChosenPair ==
    ASSUME NEW pairs \in SUBSET (Nodes \X Nodes), pairs # {}
    PROVE  FirstPair(pairs) \in pairs
<1> DEFINE entries == {p[1] : p \in pairs}
<1>1. entries \in SUBSET Nat /\ entries # {}
  BY TopologyAssumption
<1>2. PICK e \in entries : \A n \in entries : e <= n
  BY <1>1, NatMinimum
<1> DEFINE exits == {p[2] : p \in {q \in pairs : q[1] = e}}
<1>3. exits \in SUBSET Nat /\ exits # {}
  BY TopologyAssumption
<1>4. PICK x \in exits : \A n \in exits : x <= n
  BY <1>3, NatMinimum
<1>5. PICK p \in pairs : p[1] = e /\ p[2] = x
  OBVIOUS
<1>6. ASSUME NEW q \in pairs
      PROVE  p[1] < q[1] \/ (p[1] = q[1] /\ p[2] <= q[2])
  <2>1. q[1] \in Nat /\ q[2] \in Nat /\ e \in Nat
    BY <1>1, TopologyAssumption
  <2>2. e <= q[1]
    BY <1>2
  <2>3. CASE q[1] = e
    BY <1>4, <1>5, <2>3
  <2>4. CASE q[1] # e
    BY <1>5, <2>1, <2>2, <2>4
  <2> QED
    BY <2>3, <2>4
<1> QED
  BY <1>6 DEF FirstPair

----------------------------------------------------------------------------
(* The inductive invariant.                                                *)

\* The flow counter and the flow under creation move together.
CounterLedger ==
    /\ cur # NoFlow => flow_ct = cur.id + 1
    /\ mpc = "accept" => cur = NoFlow

TypeInv == TypeOK /\ CounterLedger

\* Every port in use by a flow was handed out, and the next one is above all.
PortLedger ==
    /\ \A p \in portHash : p < port
    /\ cur # NoFlow => cur.newPort \in portHash
    /\ \A f \in granted : f.port \in portHash

NumberInv == PortLedger /\ PortsUnique /\ IdsDense

----------------------------------------------------------------------------
(* Types.                                                                  *)

LEMMA InitTypeInv == Init => TypeInv
<1> SUFFICES ASSUME Init PROVE TypeInv
  OBVIOUS
<1>1. throughput \in [Nodes -> Int]
  BY TopologyAssumption DEF Init, initialThroughput
<1>2. TypeOK
  BY <1>1, PortAssumption, BoundAssumption
  DEF Init, TypeOK, NoFlow, NoCall, IdleController, InCreateFlow
<1> QED
  BY <1>2 DEF TypeInv, CounterLedger, Init

\* A flow being created is told from NoFlow by its number.
LEMMA FlowInCreation ==
    ASSUME NEW f \in FlowsInCreation
    PROVE  f # NoFlow /\ f.id \in Nat
BY DEF FlowsInCreation, NoFlow

\* Charging a node leaves integers.
LEMMA ReducedThroughput ==
    ASSUME TypeOK, NEW overlayPort, NEW amount \in Int, reduceResources(overlayPort, amount)
    PROVE  throughput' \in [Nodes -> Int]
BY DEF TypeOK, reduceResources

\* Committing a flow ends create_flow or hangs in the map.
LEMMA CommitStep ==
    ASSUME TypeInv, NEW f \in FlowsInCreation, CommitFlow(f), f.id = cur.id, cur # NoFlow
    PROVE  /\ flow_ct' = flow_ct
           /\ throughput' \in [Nodes -> Int]
           /\ \/ mpc' = "accept" /\ cur' = NoFlow /\ granted' = granted \cup {Grant(f)}
              \/ mpc' = "hung" /\ cur' = f /\ granted' = granted
<1>1. f.request.resources \in Int
  BY RequestAssumption DEF FlowsInCreation
<1>2. CASE reduceResources(OverlayPort(f.entry), f.request.resources) /\ cur' = NoFlow
  BY <1>1, <1>2, ReducedThroughput DEF TypeInv, CommitFlow, flowVars
<1>3. CASE UNCHANGED flowVars
  BY <1>3 DEF TypeInv, TypeOK, CommitFlow, flowVars
<1> QED
  BY <1>2, <1>3 DEF CommitFlow

LEMMA TypeStep == TypeInv /\ [Next]_vars => TypeInv'
<1> SUFFICES ASSUME TypeInv, [Next]_vars PROVE TypeInv'
  OBVIOUS
<1> USE DEF TypeInv, CounterLedger
<1>0. CASE UNCHANGED vars
  BY <1>0 DEF TypeOK, InCreateFlow, vars, flowVars, portVars, frameVars, fileVars, historyVars
<1>1. ASSUME NEW msg \in ClientMessages \cup {buf}, mpc = "accept", buf' = msg,
             Dispatch(msg), UNCHANGED <<fileVars, controller>>
      PROVE  TypeInv'
  <2>0. msg \in ClientMessages \cup {FreshBuffer} /\ cur = NoFlow
    BY <1>1 DEF TypeOK
  <2>1. ASSUME NEW r \in Requests, RefuseRequest(r) PROVE TypeInv'
    <3>1. outboundAgent' \in ListedAgents \cup {NoHost} /\ inboundAgent' \in ListedAgents \cup {NoHost}
      BY <2>1, ReturnedAgent DEF TypeOK, RefuseRequest, LookUpAgents
    <3> QED
      BY <1>1, <2>0, <2>1, <3>1
      DEF TypeOK, RefuseRequest, InCreateFlow, flowVars, portVars, fileVars, historyVars
  <2>2. ASSUME NEW r \in Requests, BeginFlow(r) PROVE TypeInv'
    <3>1. outboundAgent' \in ListedAgents \cup {NoHost} /\ inboundAgent' \in ListedAgents \cup {NoHost}
      BY <2>2, ReturnedAgent DEF TypeOK, BeginFlow, LookUpAgents
    <3>2. SuitablePairs(r) \in SUBSET (Nodes \X Nodes)
      BY DEF SuitablePairs, returnOverlays
    <3>3. FirstPair(SuitablePairs(r)) \in Nodes \X Nodes
      BY <2>2, <3>2, ChosenPair DEF BeginFlow
    <3>4. cur' \in FlowsInCreation /\ cur'.id = flow_ct /\ cur'.newPort = port
      BY <2>2, <3>3 DEF BeginFlow, NewFlow, FlowsInCreation, TypeOK
    <3>5. cur' # NoFlow
      BY <3>4, FlowInCreation
    <3>6. rpc'.phase = "calling" /\ rpc'.message.flowPort = port /\ rpc'.data = 0
      BY <2>2, <3>4 DEF BeginFlow, Calling, OutboundMessage
    <3>7. flow_ct' = flow_ct + 1 /\ port' = port + 1 /\ portHash' = portHash \cup {port}
          /\ mpc' = "outbound" /\ UNCHANGED <<throughput, removed, deletes, restarts, controllerRestarts>>
      BY <2>2 DEF BeginFlow, requestPort, historyVars
    <3> QED
      BY <1>1, <2>0, <3>1, <3>4, <3>5, <3>6, <3>7 DEF TypeOK, InCreateFlow, fileVars
  <2>3. ASSUME NEW i \in FlowIds, DeleteFlow(i) PROVE TypeInv'
    <3>1. removed' \subseteq FlowIds
      BY <2>3 DEF TypeOK, DeleteFlow
    <3>2. deletes' \in 0 .. MaxDeletes
      BY <2>3, BoundAssumption DEF TypeOK, DeleteFlow
    <3> QED
      BY <1>1, <2>0, <2>3, <3>1, <3>2
      DEF TypeOK, DeleteFlow, InCreateFlow, portVars, frameVars, fileVars
  <2>4. CASE Terminate
    BY <1>1, <2>0, <2>4
    DEF TypeOK, Terminate, InCreateFlow, flowVars, portVars, frameVars, fileVars, historyVars
  <2>5. CASE NoEffect
    BY <1>1, <2>0, <2>5
    DEF TypeOK, NoEffect, InCreateFlow, flowVars, portVars, frameVars, fileVars, historyVars
  <2>6. msg.type = "REGISTER_FLOW" => msg.registerFlow \in Requests
    BY <2>0 DEF ClientMessages, FreshBuffer
  <2>7. msg.type = "DELETE_FLOW" => msg.flowId \in FlowIds
    BY <2>0 DEF ClientMessages, FreshBuffer
  <2> QED
    BY <1>1, <2>1, <2>2, <2>3, <2>4, <2>5, <2>6, <2>7 DEF Dispatch, RegisterFlow
<1>2. CASE OutboundOpened
  <2>1. cur # NoFlow /\ cur \in FlowsInCreation
    BY <1>2 DEF OutboundOpened, TypeOK, InCreateFlow
  <2>2. rpc'.phase = "calling" /\ rpc'.message.flowPort \in Nat /\ rpc'.data = 0
    BY <1>2, <2>1 DEF OutboundOpened, Calling, InboundMessage, FlowsInCreation
  <2> QED
    BY <1>2, <2>1, <2>2
    DEF OutboundOpened, TypeOK, InCreateFlow, flowVars, portVars, frameVars, fileVars, historyVars
<1>3. CASE InboundOpened
  <2>1. PICK d \in UninitInts \cup {rpc.data} :
          /\ Acked(d)
          /\ LET f == [cur EXCEPT !.inPort = d]
             IN  \/ CommitFlow(f) /\ UNCHANGED reqs
                 \/ /\ cur' = f
                    /\ reqs' = OtherRequests(f) \cup {[id |-> f.id, text |-> <<>>]}
                    /\ mpc' = "filing"
                    /\ UNCHANGED flowVars
    BY <1>3 DEF InboundOpened
  <2> DEFINE f == [cur EXCEPT !.inPort = d]
  <2>2. d \in Int
    BY <2>1, PortAssumption DEF Acked, TypeOK
  <2>3. cur # NoFlow /\ cur \in FlowsInCreation
    BY <1>3 DEF InboundOpened, TypeOK, InCreateFlow
  <2>4. f \in FlowsInCreation /\ f.id = cur.id /\ f # NoFlow
    <3>1. f \in FlowsInCreation /\ f.id = cur.id
      BY <2>2, <2>3 DEF FlowsInCreation
    <3> QED
      BY <3>1, FlowInCreation
  <2>5. rpc' = NoCall /\ UNCHANGED <<portVars, buf, frameVars, acks, controller, historyVars>>
    BY <1>3 DEF InboundOpened
  <2> HIDE DEF f
  <2>6. CASE CommitFlow(f) /\ UNCHANGED reqs
    <3>1. /\ flow_ct' = flow_ct /\ throughput' \in [Nodes -> Int]
          /\ \/ mpc' = "accept" /\ cur' = NoFlow
             \/ mpc' = "hung" /\ cur' = f
      BY <2>3, <2>4, <2>6, CommitStep
    <3> QED
      BY <2>3, <2>4, <2>5, <2>6, <3>1
      DEF TypeOK, InCreateFlow, NoCall, portVars, frameVars, historyVars
  <2>7. CASE /\ cur' = f
             /\ reqs' = OtherRequests(f) \cup {[id |-> f.id, text |-> <<>>]}
             /\ mpc' = "filing"
             /\ UNCHANGED flowVars
    <3>1. \A q \in reqs' : q.id \in Nat
      BY <2>4, <2>7 DEF OtherRequests, TypeOK, FlowsInCreation
    <3> QED
      BY <2>3, <2>4, <2>5, <2>7, <3>1
      DEF TypeOK, InCreateFlow, NoCall, flowVars, portVars, frameVars, historyVars
  <2> QED
    BY <2>1, <2>6, <2>7 DEF f
<1>4. CASE OpenFailed
  <2>1. cur # NoFlow /\ cur.id \in Nat
    BY <1>4 DEF OpenFailed, TypeOK, InCreateFlow, FlowsInCreation
  <2> QED
    BY <1>4, <2>1
    DEF OpenFailed, TypeOK, InCreateFlow, NoCall, portVars, frameVars, fileVars, historyVars
<1>5. CASE AgentUnreachable
  BY <1>5
  DEF AgentUnreachable, TypeOK, InCreateFlow, NoCall, flowVars, portVars, frameVars,
      fileVars, historyVars
<1>6. CASE FillRequestFile
  <2>1. \A q \in reqs' : q.id \in Nat
    BY <1>6 DEF FillRequestFile, OtherRequests, TypeOK, InCreateFlow, FlowsInCreation
  <2> QED
    BY <1>6, <2>1
    DEF FillRequestFile, TypeOK, InCreateFlow, flowVars, portVars, frameVars, historyVars
<1>7. CASE ControllerDone
  <2>1. cur # NoFlow /\ cur \in FlowsInCreation
    BY <1>7 DEF ControllerDone, TypeOK, InCreateFlow
  <2>2. /\ flow_ct' = flow_ct /\ throughput' \in [Nodes -> Int]
        /\ \/ mpc' = "accept" /\ cur' = NoFlow
           \/ mpc' = "hung" /\ cur' = cur
    BY <1>7, <2>1, CommitStep DEF ControllerDone
  <2>3. acks' \subseteq Nat
    BY <1>7 DEF ControllerDone, TypeOK
  <2> QED
    BY <1>7, <2>1, <2>2, <2>3
    DEF ControllerDone, TypeOK, InCreateFlow, portVars, frameVars, historyVars
<1>8. CASE Kill
  BY <1>8
  DEF Kill, TypeOK, InCreateFlow, NoCall, flowVars, portVars, frameVars, fileVars, historyVars
<1>9. CASE Restart
  <2>1. throughput' \in [Nodes -> Int]
    BY <1>9, TopologyAssumption DEF Restart, initialThroughput
  <2> QED
    BY <1>9, <2>1, PortAssumption, BoundAssumption
    DEF Restart, MayRestart, TypeOK, InCreateFlow, NoFlow, NoCall, fileVars
<1>10. CASE Agents
  <2>1. /\ rpc.phase = "calling"
        /\ rpc'.phase \in {"answered", "refused", "closed"}
        /\ rpc'.message.flowPort \in Nat
        /\ rpc'.data \in Int
    <3>1. CASE AgentAnswers
      <4>1. PICK p \in IF rpc.message.bypass THEN BypassPorts ELSE {rpc.message.flowPort} :
              rpc' = CallEnds("answered", p)
        BY <3>1 DEF AgentAnswers
      <4>2. rpc.phase = "calling" /\ rpc.message.flowPort \in Nat
        BY <3>1 DEF AgentAnswers, TypeOK
      <4>3. p \in Nat
        BY <4>1, <4>2, PortAssumption
      <4> QED
        BY <4>1, <4>2, <4>3 DEF CallEnds
    <3>2. CASE ConnectionRefused
      BY <3>2 DEF ConnectionRefused, CallEnds, TypeOK
    <3>3. CASE ConnectionClosed
      BY <3>3 DEF ConnectionClosed, CallEnds, TypeOK
    <3> QED
      BY <1>10, <3>1, <3>2, <3>3 DEF Agents
  <2> QED
    BY <1>10, <2>1
    DEF Agents, TypeOK, InCreateFlow, flowVars, portVars, frameVars, fileVars, historyVars
<1>11. CASE Controller
  <2>1. /\ \A q \in reqs' : q.id \in Nat
        /\ controller'.phase \in {"idle", "installing", "removing", "dead"}
        /\ controller'.phase \in {"installing", "removing"} => controller'.id \in Nat
        /\ acks' \subseteq Nat
    <3>1. CASE ControllerReads
      BY <3>1 DEF ControllerReads, DeadController, TypeOK, fileVars
    <3>2. CASE ControllerAcks
      BY <3>2 DEF ControllerAcks, TypeOK
    <3>3. CASE ControllerRemoves
      BY <3>3 DEF ControllerRemoves, IdleController, TypeOK
    <3> QED
      BY <1>11, <3>1, <3>2, <3>3 DEF Controller
  <2> QED
    BY <1>11, <2>1
    DEF Controller, TypeOK, InCreateFlow, flowVars, portVars, frameVars, historyVars
<1>12. CASE ControllerFails
  <2>1. /\ controller'.phase \in {"idle", "dead"}
        /\ controllerRestarts' \in Nat
        /\ restarts + controllerRestarts' <= MaxRestarts
    BY <1>12, BoundAssumption
    DEF ControllerFails, ControllerDies, RestartController, MayRestart, DeadController,
        IdleController, TypeOK
  <2> QED
    BY <1>12, <2>1
    DEF ControllerFails, TypeOK, InCreateFlow, flowVars, portVars, frameVars, fileVars
<1> QED
  BY <1>0, <1>1, <1>2, <1>3, <1>4, <1>5, <1>6, <1>7, <1>8, <1>9, <1>10, <1>11, <1>12
  DEF Next, ServeClient, Progress

\* Every reachable state of the manager, its agents' connection and the
\* controller's files is of the types TypeOK gives.
THEOREM TypeCorrect == Spec => []TypeOK
<1>1. Spec => []TypeInv
  BY InitTypeInv, TypeStep, PTL DEF Spec
<1>2. TypeInv => TypeOK
  BY DEF TypeInv
<1> QED
  BY <1>1, <1>2, PTL

----------------------------------------------------------------------------
(* Ports and numbers.                                                      *)

LEMMA InitNumberInv == Init => NumberInv
<1> SUFFICES ASSUME Init PROVE NumberInv
  OBVIOUS
<1>1. IdsGranted = {} /\ flow_ct = 0 /\ cur = NoFlow /\ granted = {} /\ portHash = {}
  BY DEF Init, IdsGranted
<1>2. IdsGranted = 0 .. ((IF cur = NoFlow THEN flow_ct ELSE flow_ct - 1) - 1)
  BY <1>1
<1> QED
  BY <1>1, <1>2 DEF NumberInv, PortLedger, PortsUnique, IdsDense

\* A step that hands out no port, changes no number and acknowledges no flow.
LEMMA NumbersKept ==
    ASSUME NumberInv, TypeInv, UNCHANGED <<flow_ct, portVars, granted>>,
           \/ cur' = cur
           \/ cur # NoFlow /\ cur' # NoFlow /\ cur'.newPort = cur.newPort
    PROVE  NumberInv'
<1>1. IdsGranted' = IdsGranted
  BY DEF IdsGranted
<1>2. PortLedger' /\ PortsUnique'
  BY DEF NumberInv, PortLedger, PortsUnique, portVars
<1> QED
  BY <1>1, <1>2 DEF NumberInv, IdsDense

\* The number and the port of the flow being created are new, and become those
\* of the flow that is acknowledged.
LEMMA NumbersCommitted ==
    ASSUME TypeInv, NumberInv, NEW f \in FlowsInCreation, CommitFlow(f),
           f.id = cur.id, f.newPort = cur.newPort, cur # NoFlow, UNCHANGED portVars
    PROVE  NumberInv'
<1>1. cur \in FlowsInCreation /\ cur.id \in Nat /\ flow_ct = cur.id + 1
  BY FlowInCreation DEF TypeInv, TypeOK, CounterLedger
<1>2. CASE mpc' = "hung" /\ cur' = f /\ granted' = granted
  <2>1. flow_ct' = flow_ct
    BY CommitStep
  <2>2. cur' # NoFlow
    BY <1>2, FlowInCreation
  <2> QED
    BY <1>2, <2>1, <2>2, NumbersKept
<1>3. CASE mpc' = "accept" /\ cur' = NoFlow /\ granted' = granted \cup {Grant(f)}
  <2>1. flow_ct' = flow_ct
    BY CommitStep
  <2>2. Grant(f).id = cur.id /\ Grant(f).port = cur.newPort
    BY DEF Grant
  <2>3. IdsGranted = 0 .. (cur.id - 1)
    BY <1>1 DEF NumberInv, IdsDense
  <2>4. IdsGranted' = IdsGranted \cup {cur.id}
    BY <1>3, <2>2 DEF IdsGranted
  <2>5. IdsGranted' = 0 .. (flow_ct' - 1)
    BY <1>1, <2>1, <2>3, <2>4
  <2>6. \A g \in granted : g.id # cur.id
    BY <1>1, <2>3 DEF IdsGranted
  <2>7. \A g, h \in granted' : g.id = h.id => g = h
    BY <1>3, <2>2, <2>6 DEF NumberInv, IdsDense
  <2>8. PortLedger' /\ PortsUnique'
    BY <1>3, <2>2 DEF NumberInv, PortLedger, PortsUnique, portVars
  <2> QED
    BY <1>3, <2>5, <2>7, <2>8 DEF NumberInv, IdsDense
<1> QED
  BY <1>2, <1>3, CommitStep

LEMMA NumberStep == TypeInv /\ NumberInv /\ [Next]_vars => NumberInv'
<1> SUFFICES ASSUME TypeInv, NumberInv, [Next]_vars PROVE NumberInv'
  OBVIOUS
<1>0. CASE UNCHANGED vars
  BY <1>0, NumbersKept DEF vars, flowVars
<1>1. ASSUME NEW r, BeginFlow(r), mpc = "accept" PROVE NumberInv'
  <2>1. cur = NoFlow /\ flow_ct \in Nat /\ port \in Nat /\ portHash \subseteq Nat
    BY <1>1 DEF TypeInv, CounterLedger, TypeOK
  <2>2. /\ cur'.id = flow_ct /\ cur'.newPort = port /\ flow_ct' = flow_ct + 1
        /\ port' = port + 1 /\ portHash' = portHash \cup {port} /\ granted' = granted
    BY <1>1 DEF BeginFlow, NewFlow, requestPort
  <2>3. cur' # NoFlow
    BY <2>1, <2>2 DEF NoFlow
  <2>4. IdsGranted' = 0 .. ((flow_ct' - 1) - 1)
    BY <2>1, <2>2 DEF IdsGranted, NumberInv, IdsDense
  <2>5. \A f \in granted : f.port # port
    BY <2>1 DEF NumberInv, PortLedger
  <2>6. PortLedger'
    BY <2>1, <2>2 DEF NumberInv, PortLedger
  <2>7. PortsUnique'
    BY <2>2, <2>5 DEF NumberInv, PortsUnique
  <2> QED
    BY <2>2, <2>3, <2>4, <2>6, <2>7 DEF NumberInv, IdsDense
<1>2. CASE ServeClient
  <2>1. PICK msg \in ClientMessages \cup {buf} : Dispatch(msg)
    BY <1>2 DEF ServeClient
  <2>2. CASE RefuseRequest(msg.registerFlow)
    BY <2>2, NumbersKept DEF RefuseRequest, flowVars
  <2>3. CASE DeleteFlow(msg.flowId)
    BY <2>3, NumbersKept DEF DeleteFlow
  <2>4. CASE Terminate \/ NoEffect
    BY <2>4, NumbersKept DEF Terminate, NoEffect, flowVars
  <2> QED
    BY <1>1, <1>2, <2>1, <2>2, <2>3, <2>4 DEF ServeClient, Dispatch, RegisterFlow
<1>3. CASE OutboundOpened \/ AgentUnreachable \/ FillRequestFile \/ Kill \/ Agents
           \/ Controller \/ ControllerFails
  BY <1>3, NumbersKept
  DEF OutboundOpened, AgentUnreachable, FillRequestFile, Kill, Agents, Controller,
      ControllerFails, flowVars
<1>4. CASE InboundOpened
  <2>1. PICK d \in UninitInts \cup {rpc.data} :
          /\ Acked(d)
          /\ LET f == [cur EXCEPT !.inPort = d]
             IN  \/ CommitFlow(f)
                 \/ cur' = f /\ UNCHANGED flowVars
    BY <1>4 DEF InboundOpened
  <2> DEFINE f == [cur EXCEPT !.inPort = d]
  <2>2. d \in Int
    BY <2>1, PortAssumption DEF Acked, TypeInv, TypeOK
  <2>3. cur # NoFlow /\ cur \in FlowsInCreation
    BY <1>4 DEF InboundOpened, TypeInv, TypeOK, InCreateFlow
  <2>4. f \in FlowsInCreation /\ f.id = cur.id /\ f.newPort = cur.newPort
    BY <2>2, <2>3 DEF FlowsInCreation
  <2>5. f # NoFlow
    BY <2>4, FlowInCreation
  <2>6. UNCHANGED portVars
    BY <1>4 DEF InboundOpened
  <2> HIDE DEF f
  <2>7. CASE CommitFlow(f)
    BY <2>3, <2>4, <2>6, <2>7, NumbersCommitted
  <2>8. CASE cur' = f /\ UNCHANGED flowVars
    BY <2>3, <2>4, <2>5, <2>6, <2>8, NumbersKept DEF flowVars
  <2> QED
    BY <2>1, <2>7, <2>8 DEF f
<1>5. CASE ControllerDone
  <2>1. cur # NoFlow /\ cur \in FlowsInCreation
    BY <1>5 DEF ControllerDone, TypeInv, TypeOK, InCreateFlow
  <2> QED
    BY <1>5, <2>1, NumbersCommitted DEF ControllerDone
<1>6. CASE OpenFailed
  <2>1. cur # NoFlow /\ cur.id \in Nat /\ flow_ct = cur.id + 1
    BY <1>6 DEF OpenFailed, TypeInv, TypeOK, CounterLedger, InCreateFlow, FlowsInCreation
  <2>2. flow_ct' = flow_ct - 1 /\ cur' = NoFlow /\ UNCHANGED <<granted, portVars>>
    BY <1>6 DEF OpenFailed
  <2>3. IdsGranted' = 0 .. (flow_ct' - 1)
    BY <2>1, <2>2 DEF IdsGranted, NumberInv, IdsDense
  <2>4. PortLedger' /\ PortsUnique'
    BY <2>2 DEF NumberInv, PortLedger, PortsUnique, portVars
  <2> QED
    BY <2>2, <2>3, <2>4 DEF NumberInv, IdsDense
<1>7. CASE Restart
  <2>1. granted' = {} /\ flow_ct' = 0 /\ cur' = NoFlow /\ portHash' = {}
    BY <1>7 DEF Restart
  <2>2. IdsGranted' = {} /\ IdsGranted' = 0 .. (flow_ct' - 1)
    BY <2>1 DEF IdsGranted
  <2> QED
    BY <2>1, <2>2 DEF NumberInv, PortLedger, PortsUnique, IdsDense
<1> QED
  BY <1>0, <1>2, <1>3, <1>4, <1>5, <1>6, <1>7 DEF Next, Progress

\* Both invariants at once, for the theorems below.
LEMMA NumbersInvariant == Spec => [](TypeInv /\ NumberInv)
<1>1. Init => TypeInv /\ NumberInv
  BY InitTypeInv, InitNumberInv
<1>2. (TypeInv /\ NumberInv) /\ [Next]_vars => (TypeInv /\ NumberInv)'
  BY TypeStep, NumberStep
<1> QED
  BY <1>1, <1>2, PTL DEF Spec

\* No two flows the manager has acknowledged since it started share a port, nor
\* does the one it is creating, for any topology, requests and port range.
THEOREM PortsUniqueCorrect == Spec => []PortsUnique
<1>1. TypeInv /\ NumberInv => PortsUnique
  BY DEF NumberInv
<1> QED
  BY <1>1, NumbersInvariant, PTL

\* Flow numbers are handed out without gaps or repetition, through every failure
\* of create_flow.
THEOREM IdsDenseCorrect == Spec => []IdsDense
<1>1. TypeInv /\ NumberInv => IdsDense
  BY DEF NumberInv
<1> QED
  BY <1>1, NumbersInvariant, PTL

----------------------------------------------------------------------------
(* The steps that touch the flows.                                         *)

\* What a step may do to the flows: nothing, delete one, acknowledge the one being
\* created (or hang in the attempt), or lose them all.
LEMMA FlowSteps ==
    ASSUME TypeInv, [Next]_vars
    PROVE  \/ /\ UNCHANGED <<map, throughput, granted, removed, deletes>>
              /\ mpc' = "hung" => mpc = "hung"
           \/ /\ \E i \in FlowIds : DeleteFlow(i)
              /\ mpc = "accept"
           \/ /\ \E f \in FlowsInCreation :
                   /\ CommitFlow(f) /\ cur # NoFlow
                   /\ f.id = cur.id /\ f.request = cur.request
                   /\ f.entry = cur.entry /\ f.exit = cur.exit
              /\ InCreateFlow
              /\ UNCHANGED <<removed, deletes>>
           \/ Restart
<1>1. CASE UNCHANGED vars
  BY <1>1 DEF vars, flowVars, historyVars
<1>2. CASE ServeClient
  <2>1. PICK msg \in ClientMessages \cup {buf} : Dispatch(msg)
    BY <1>2 DEF ServeClient
  <2>2. mpc = "accept" /\ msg \in ClientMessages \cup {FreshBuffer}
    BY <1>2, <2>1 DEF ServeClient, TypeInv, TypeOK
  <2>3. CASE RegisterFlow(msg.registerFlow)
    BY <2>2, <2>3 DEF RegisterFlow, RefuseRequest, BeginFlow, flowVars, historyVars
  <2>4. CASE msg.type = "DELETE_FLOW" /\ DeleteFlow(msg.flowId)
    <3>1. msg.flowId \in FlowIds
      BY <2>2, <2>4 DEF ClientMessages, FreshBuffer
    <3> QED
      BY <2>2, <2>4, <3>1
  <2>5. CASE Terminate \/ NoEffect
    BY <2>2, <2>5 DEF Terminate, NoEffect, flowVars, historyVars
  <2> QED
    BY <2>1, <2>3, <2>4, <2>5 DEF Dispatch
<1>3. CASE OutboundOpened \/ OpenFailed \/ AgentUnreachable \/ FillRequestFile \/ Kill
  BY <1>3 DEF OutboundOpened, OpenFailed, AgentUnreachable, FillRequestFile, Kill,
              flowVars, historyVars
<1>4. CASE InboundOpened
  <2>1. PICK d \in UninitInts \cup {rpc.data} :
          /\ Acked(d)
          /\ LET f == [cur EXCEPT !.inPort = d]
             IN  CommitFlow(f) \/ (mpc' = "filing" /\ UNCHANGED flowVars)
    BY <1>4 DEF InboundOpened
  <2> DEFINE f == [cur EXCEPT !.inPort = d]
  <2>2. d \in Int
    BY <2>1, PortAssumption DEF Acked, TypeInv, TypeOK
  <2>3. cur # NoFlow /\ cur \in FlowsInCreation /\ InCreateFlow
    BY <1>4 DEF InboundOpened, TypeInv, TypeOK, InCreateFlow
  <2>4. /\ f \in FlowsInCreation /\ f.id = cur.id /\ f.request = cur.request
        /\ f.entry = cur.entry /\ f.exit = cur.exit
    BY <2>2, <2>3 DEF FlowsInCreation
  <2>5. UNCHANGED <<removed, deletes>>
    BY <1>4 DEF InboundOpened, historyVars
  <2> HIDE DEF f
  <2>6. CASE CommitFlow(f)
    BY <2>3, <2>4, <2>5, <2>6
  <2>7. CASE mpc' = "filing" /\ UNCHANGED flowVars
    BY <2>5, <2>7 DEF flowVars
  <2> QED
    BY <2>1, <2>6, <2>7 DEF f
<1>5. CASE ControllerDone
  <2>1. CommitFlow(cur) /\ InCreateFlow /\ UNCHANGED <<removed, deletes>>
    BY <1>5 DEF ControllerDone, InCreateFlow, historyVars
  <2>2. cur # NoFlow /\ cur \in FlowsInCreation
    BY <2>1 DEF TypeInv, TypeOK
  <2> QED
    BY <2>1, <2>2
<1>6. CASE Agents \/ Controller \/ ControllerFails
  BY <1>6 DEF Agents, Controller, ControllerFails, flowVars, historyVars
<1> QED
  BY <1>1, <1>2, <1>3, <1>4, <1>5, <1>6 DEF Next, Progress

----------------------------------------------------------------------------
(* The map of the flows.                                                   *)

FlowValues ==
    {[originalDst |-> r.dst, outDst |-> a.location,
      inDst |-> [address |-> b.location.address, port |-> p]] :
        r \in Requests, a \in ListedAgents \cup {NoHost},
        b \in ListedAgents \cup {NoHost}, p \in Int}

\* The map holds acknowledged flows, each once, and all that are not deleted.
MapLedger ==
    /\ MapOver(map, Nat, FlowValues)
    /\ Grown(map)
    /\ DistinctKeys(map)
    /\ \A e \in Entries(map) : \E f \in granted : e = <<f.id, f.flow>>
    /\ \A f \in granted : f.id \notin removed => <<f.id, f.flow>> \in Entries(map)

\* Without deletions the counter counts the slots in use, and no more flows than
\* were acknowledged until the map has grown.
GrowthLedger ==
    deletes = 0 =>
        /\ Cardinality(Occupied(map)) <= map.entryCount
        /\ map.capacity = InitialCapacity => map.entryCount <= Cardinality(granted)
        /\ map.capacity > InitialCapacity => Cardinality(granted) > InitialCapacity
        /\ mpc = "hung" => map.capacity > InitialCapacity

FlowMapInv == IsFiniteSet(granted) /\ MapLedger /\ GrowthLedger

LEMMA FreshFlowMap ==
    ASSUME NEW m, m = map_create
    PROVE  /\ MapOver(m, Nat, FlowValues) /\ Grown(m) /\ DistinctKeys(m) /\ Entries(m) = {}
           /\ m.entryCount = 0 /\ Cardinality(Occupied(m)) = 0 /\ m.capacity = InitialCapacity
<1>1. /\ MapOver(m, Nat, FlowValues) /\ Grown(m) /\ Entries(m) = {} /\ Homed(m)
      /\ m.entryCount = 0 /\ Cardinality(Occupied(m)) = 0 /\ m.capacity = InitialCapacity
  BY CreatedMap
<1> QED
  BY <1>1, HomedKeys

LEMMA InitFlowMapInv == Init => FlowMapInv
<1> SUFFICES ASSUME Init PROVE FlowMapInv
  OBVIOUS
<1>1. map = map_create /\ granted = {} /\ mpc = "accept"
  BY DEF Init
<1>2. IsFiniteSet(granted) /\ Cardinality(granted) = 0
  BY <1>1, FS_EmptySet
<1> QED
  BY <1>1, <1>2, FreshFlowMap, CapacityAssumption DEF FlowMapInv, MapLedger, GrowthLedger

\* remove_flow clears at most the slot of the flow it was asked to remove.
LEMMA FlowDeleted ==
    ASSUME TypeInv, FlowMapInv, NEW i \in FlowIds, DeleteFlow(i)
    PROVE  FlowMapInv'
<1>1. deletes \in Nat /\ deletes' = deletes + 1 /\ granted' = granted
      /\ removed' = removed \cup ({i} \cap IdsGranted) /\ i \in Nat
  BY BoundAssumption, RequestAssumption DEF DeleteFlow, TypeInv, TypeOK
<1>2. GrowthLedger'
  BY <1>1 DEF GrowthLedger
<1>3. \A f \in granted : f.id \notin removed' => f.id \notin removed /\ f.id # i
  BY <1>1 DEF IdsGranted
<1>4. CASE UNCHANGED map
  BY <1>1, <1>2, <1>3, <1>4 DEF FlowMapInv, MapLedger
<1>5. CASE ~DeleteHangs(map, i) /\ map' = map_delete(map, i)
  <2>1. Deleting(Nat, FlowValues, map, i)
    BY <1>1, <1>5 DEF Deleting, FlowMapInv, MapLedger
  <2>2. MapOver(map', Nat, FlowValues)
    BY <1>5, <2>1, DeletedFields
  <2>3. /\ Entries(map') \subseteq Entries(map)
        /\ {e \in Entries(map) : e[1] # i} \subseteq Entries(map')
        /\ DistinctKeys(map') /\ Grown(map')
    BY <1>5, <2>1, Deleted DEF FlowMapInv, MapLedger
  <2>4. \A f \in granted : f.id \notin removed' => <<f.id, f.flow>> \in Entries(map')
    BY <1>3, <2>3 DEF FlowMapInv, MapLedger
  <2>5. MapLedger'
    BY <1>1, <2>2, <2>3, <2>4 DEF FlowMapInv, MapLedger
  <2> QED
    BY <1>1, <1>2, <2>5 DEF FlowMapInv
<1> QED
  BY <1>1, <1>4, <1>5 DEF DeleteFlow

\* The number of the flow that is acknowledged is new, so it takes a free slot.
LEMMA FlowInserted ==
    ASSUME TypeInv, NumberInv, FlowMapInv, NEW f \in FlowsInCreation, f.id = cur.id,
           cur # NoFlow, ~InsertHangs(map, f.id),
           map' \in map_insert(map, f.id, StoredFlow(f)),
           granted' = granted \cup {Grant(f)}, mpc' = "accept",
           UNCHANGED <<removed, deletes>>
    PROVE  FlowMapInv'
<1> DEFINE key   == f.id
           value == StoredFlow(f)
<1>1. Grant(f).id = key /\ Grant(f).flow = value
  BY DEF Grant
<1>2. key \in Nat /\ value \in FlowValues
  <2>1. outboundAgent \in ListedAgents \cup {NoHost} /\ inboundAgent \in ListedAgents \cup {NoHost}
    BY DEF TypeInv, TypeOK
  <2> QED
    BY <2>1 DEF FlowsInCreation, StoredFlow, FlowValues
<1> HIDE DEF key, value
<1>3. \A g \in granted : g.id # key
  <2>1. IdsGranted = 0 .. (key - 1)
    BY <1>2 DEF TypeInv, CounterLedger, NumberInv, IdsDense, key
  <2> QED
    BY <1>2, <2>1 DEF IdsGranted
<1>4. /\ MapOver(map, Nat, FlowValues) /\ DistinctKeys(map) /\ Grown(map)
      /\ \A e \in Entries(map) : \E g \in granted : e = <<g.id, g.flow>>
      /\ \A g \in granted : g.id \notin removed => <<g.id, g.flow>> \in Entries(map)
  BY DEF FlowMapInv, MapLedger
<1>5. key \notin StoredKeys(map) /\ \A e \in Entries(map) : e[1] # key
  <2>1. \A e \in Entries(map) : e[1] # key
    BY <1>3, <1>4
  <2>2. ASSUME NEW k \in StoredKeys(map) PROVE k # key
    <3>1. PICK i \in Occupied(map) : map.keys[i] = k
      BY DEF StoredKeys, Occupied
    <3>2. <<map.keys[i], map.values[i]>> \in Entries(map)
      BY <3>1 DEF Entries
    <3> QED
      BY <2>1, <3>1, <3>2
  <2> QED
    BY <2>1, <2>2
<1>6. Inserting(Nat, FlowValues, map, key, value) /\ map' \in map_insert(map, key, value)
  BY <1>2, <1>4 DEF Inserting, key, value
<1>7. /\ MapOver(map', Nat, FlowValues)
      /\ map'.capacity = IF NeedsGrowth(map) THEN 2 * map.capacity ELSE map.capacity
      /\ IF NeedsGrowth(map) THEN map'.entryCount \in 1 .. (map.capacity + 1)
         ELSE map'.entryCount = map.entryCount + 1
      /\ Cardinality(Occupied(map')) <=
           IF NeedsGrowth(map) THEN map'.entryCount ELSE Cardinality(Occupied(map)) + 1
      /\ DistinctKeys(map')
      /\ Entries(map') = {e \in Entries(map) : e[1] # key} \cup {<<key, value>>}
  BY <1>4, <1>5, <1>6, Inserted
<1>8. Grown(map')
  BY <1>4, <1>6, InsertGrown
<1>9. Entries(map') = Entries(map) \cup {<<key, value>>}
  BY <1>5, <1>7
<1>10. MapLedger'
  <2>1. \A e \in Entries(map') : \E g \in granted' : e = <<g.id, g.flow>>
    BY <1>1, <1>4, <1>9
  <2>2. \A g \in granted' : g.id \notin removed' => <<g.id, g.flow>> \in Entries(map')
    BY <1>1, <1>4, <1>9
  <2> QED
    BY <1>7, <1>8, <2>1, <2>2 DEF MapLedger
<1>11. /\ IsFiniteSet(granted') /\ Cardinality(granted') = Cardinality(granted) + 1
       /\ Cardinality(granted) \in Nat
  <2>1. Grant(f) \notin granted /\ IsFiniteSet(granted)
    BY <1>1, <1>3 DEF FlowMapInv
  <2> QED
    BY <2>1, FS_AddElement, FS_CardinalityType
<1>12. GrowthLedger'
  <2>1. /\ map.capacity \in Nat /\ map.entryCount \in Int /\ map'.entryCount \in Int
        /\ map'.capacity \in Nat
        /\ InitialCapacity \in Nat /\ InitialCapacity >= 2
        /\ map.capacity \in {InitialCapacity, 2 * InitialCapacity}
    BY <1>4, <1>7, MapFields, GrownCapacity, CapacityAssumption
  <2>2. Cardinality(Occupied(map)) \in Nat /\ Cardinality(Occupied(map')) \in Nat
    BY <2>1, OccupiedFinite
  <2>3. SUFFICES ASSUME deletes = 0
                 PROVE  /\ Cardinality(Occupied(map')) <= map'.entryCount
                        /\ map'.capacity = InitialCapacity =>
                             map'.entryCount <= Cardinality(granted')
                        /\ map'.capacity > InitialCapacity =>
                             Cardinality(granted') > InitialCapacity
    BY DEF GrowthLedger
  <2>4. /\ Cardinality(Occupied(map)) <= map.entryCount
        /\ map.capacity = InitialCapacity => map.entryCount <= Cardinality(granted)
        /\ map.capacity > InitialCapacity => Cardinality(granted) > InitialCapacity
    BY <2>3 DEF FlowMapInv, GrowthLedger
  <2>5. CASE NeedsGrowth(map)
    <3>1. map.entryCount = map.capacity
      BY <2>5 DEF NeedsGrowth
    <3> QED
      BY <1>7, <1>11, <2>1, <2>2, <2>4, <2>5, <3>1
  <2>6. CASE ~NeedsGrowth(map)
    BY <1>7, <1>11, <2>1, <2>2, <2>4, <2>6
  <2> QED
    BY <2>5, <2>6
<1> QED
  BY <1>10, <1>11, <1>12 DEF FlowMapInv

\* Without deletions an insertion that hangs finds the lock broken, by growth.
LEMMA CommitHangs ==
    ASSUME FlowMapInv, NEW key \in Nat, InsertHangs(map, key), deletes = 0
    PROVE  map.capacity > InitialCapacity
<1>1. /\ map.capacity \in Nat \ {0} /\ map.entryCount \in Int
      /\ InitialCapacity \in Nat /\ InitialCapacity >= 2
  BY MapFields, CapacityAssumption DEF FlowMapInv, MapLedger
<1>2. CASE WriterBlocks(map)
  <2>1. map.capacity = 2 * InitialCapacity
    BY <1>2 DEF WriterBlocks, FlowMapInv, MapLedger, Grown
  <2> QED
    BY <1>1, <2>1
<1>3. CASE ~NeedsGrowth(map) /\ ~ProbeEnds(map, key)
  <2>1. Cardinality(Occupied(map)) = map.capacity
    BY <1>1, <1>3, EndlessProbe, OccupiedFinite
  <2>2. Cardinality(Occupied(map)) <= map.entryCount /\ map.entryCount <= map.capacity
    BY DEF FlowMapInv, MapLedger, GrowthLedger, Grown
  <2>3. map.entryCount # map.capacity
    BY <1>3 DEF NeedsGrowth
  <2> QED
    BY <1>1, <2>1, <2>2, <2>3
<1> QED
  BY <1>2, <1>3 DEF InsertHangs

LEMMA FlowMapStep == TypeInv /\ NumberInv /\ FlowMapInv /\ [Next]_vars => FlowMapInv'
<1> SUFFICES ASSUME TypeInv, NumberInv, FlowMapInv, [Next]_vars PROVE FlowMapInv'
  OBVIOUS
<1>1. CASE /\ UNCHANGED <<map, throughput, granted, removed, deletes>>
           /\ mpc' = "hung" => mpc = "hung"
  BY <1>1 DEF FlowMapInv, MapLedger, GrowthLedger
<1>2. CASE \E i \in FlowIds : DeleteFlow(i)
  BY <1>2, FlowDeleted
<1>3. ASSUME NEW f \in FlowsInCreation, CommitFlow(f), cur # NoFlow, f.id = cur.id,
             UNCHANGED <<removed, deletes>>
      PROVE  FlowMapInv'
  <2>1. CASE /\ ~InsertHangs(map, f.id) /\ map' \in map_insert(map, f.id, StoredFlow(f))
             /\ granted' = granted \cup {Grant(f)} /\ mpc' = "accept"
    BY <1>3, <2>1, FlowInserted
  <2>2. CASE InsertHangs(map, f.id) /\ mpc' = "hung" /\ UNCHANGED flowVars
    <3>1. f.id \in Nat
      BY DEF FlowsInCreation
    <3>2. deletes = 0 => map.capacity > InitialCapacity
      BY <2>2, <3>1, CommitHangs
    <3> QED
      BY <1>3, <2>2, <3>2 DEF FlowMapInv, MapLedger, GrowthLedger, flowVars
  <2> QED
    BY <1>3, <2>1, <2>2 DEF CommitFlow
<1>4. CASE Restart
  <2>1. map' = map_create /\ granted' = {} /\ mpc' = "accept"
    BY <1>4 DEF Restart
  <2>2. IsFiniteSet(granted') /\ Cardinality(granted') = 0
    BY <2>1, FS_EmptySet
  <2>3. /\ MapOver(map', Nat, FlowValues) /\ Grown(map') /\ DistinctKeys(map')
        /\ Entries(map') = {} /\ map'.entryCount = 0
        /\ Cardinality(Occupied(map')) = 0 /\ map'.capacity = InitialCapacity
    BY <2>1, FreshFlowMap
  <2> QED
    BY <2>1, <2>2, <2>3, CapacityAssumption DEF FlowMapInv, MapLedger, GrowthLedger
<1> QED
  BY <1>1, <1>2, <1>3, <1>4, FlowSteps

LEMMA FlowMapInvariant == Spec => []FlowMapInv
<1>1. Init => TypeInv /\ NumberInv /\ FlowMapInv
  BY InitTypeInv, InitNumberInv, InitFlowMapInv
<1>2. (TypeInv /\ NumberInv /\ FlowMapInv) /\ [Next]_vars => (TypeInv /\ NumberInv /\ FlowMapInv)'
  BY TypeStep, NumberStep, FlowMapStep
<1> QED
  BY <1>1, <1>2, PTL DEF Spec

\* Every flow that was acknowledged and not deleted is in the map with its own
\* endpoints, for any number of flows, any deletions and any growth.
THEOREM LiveFlowsListedCorrect == Spec => []LiveFlowsListed
<1>1. ASSUME FlowMapInv PROVE LiveFlowsListed
  <2>1. SUFFICES ASSUME NEW f \in granted, f.id \notin removed
                 PROVE  \E s \in SlotsOf(map, f.id) : map.values[s] = f.flow
    BY DEF LiveFlowsListed
  <2>2. <<f.id, f.flow>> \in Entries(map)
    BY <1>1, <2>1 DEF FlowMapInv, MapLedger
  <2>3. PICK s \in Occupied(map) : <<f.id, f.flow>> = <<map.keys[s], map.values[s]>>
    BY <2>2 DEF Entries
  <2>4. f.id = map.keys[s] /\ f.flow = map.values[s]
    BY <2>3
  <2>5. s \in SlotsOf(map, f.id)
    BY <2>4 DEF SlotsOf, Occupied
  <2> QED
    BY <2>4, <2>5
<1> QED
  BY <1>1, FlowMapInvariant, PTL

\* nm_print_state never reads a slot that holds anything but a flow the manager
\* has acknowledged under that number.
THEOREM PrintedFlowsGrantedCorrect == Spec => []PrintedFlowsGranted
<1>1. ASSUME FlowMapInv PROVE PrintedFlowsGranted
  <2>1. SUFFICES ASSUME NEW s \in Occupied(map)
                 PROVE  \E f \in granted : f.id = map.keys[s] /\ f.flow = map.values[s]
    BY DEF PrintedFlowsGranted
  <2>2. <<map.keys[s], map.values[s]>> \in Entries(map)
    BY <2>1 DEF Entries
  <2>3. PICK f \in granted : <<map.keys[s], map.values[s]>> = <<f.id, f.flow>>
    BY <1>1, <2>2 DEF FlowMapInv, MapLedger
  <2> QED
    BY <2>3
<1> QED
  BY <1>1, FlowMapInvariant, PTL

\* Without deletions the manager hangs only after it has acknowledged more flows
\* than the initial capacity, whatever that is: only growth breaks the lock.
THEOREM HangsOnlyAfterGrowthCorrect == Spec => []HangsOnlyAfterGrowth
<1>1. ASSUME FlowMapInv PROVE HangsOnlyAfterGrowth
  BY <1>1 DEF FlowMapInv, GrowthLedger, HangsOnlyAfterGrowth
<1> QED
  BY <1>1, FlowMapInvariant, PTL

----------------------------------------------------------------------------
(* Sums over finite sets of flows.                                         *)

\* A claim about finite sets that fails has a least set for which it fails.
LEMMA LeastSet ==
    ASSUME NEW family, family # {}, \A s \in family : IsFiniteSet(s)
    PROVE  \E s \in family : \A x \in s : s \ {x} \notin family
<1> DEFINE sizes == {Cardinality(s) : s \in family}
<1>1. sizes \in SUBSET Nat /\ sizes # {}
  BY FS_CardinalityType
<1>2. PICK s \in family : \A t \in family : Cardinality(s) <= Cardinality(t)
  <2>1. PICK n \in sizes : \A k \in sizes : n <= k
    BY <1>1, NatMinimum
  <2> QED
    BY <2>1
<1>3. ASSUME NEW x \in s PROVE s \ {x} \notin family
  <2>1. IsFiniteSet(s) /\ Cardinality(s) \in Nat
    BY FS_CardinalityType
  <2>2. Cardinality(s \ {x}) = Cardinality(s) - 1
    BY <2>1, FS_RemoveElement
  <2>3. ~(Cardinality(s) <= Cardinality(s) - 1)
    BY <2>1
  <2> QED
    BY <1>2, <2>2, <2>3
<1> QED
  BY <1>3

Amount(f) == f.request.resources

First(s) == CHOOSE x \in s : TRUE

LEMMA FirstIn ==
    ASSUME NEW s, s # {}
    PROVE  First(s) \in s
BY DEF First

\* The function by which the library adds up the amounts of a set of flows.
Totals(total, flows) ==
    total = [s \in SUBSET flows |->
                IF s = {} THEN 0 ELSE Amount(First(s)) + total[s \ {First(s)}]]

LEMMA TotalsStep ==
    ASSUME NEW f, NEW flows, Totals(f, flows)
    PROVE  /\ f[{}] = 0
           /\ \A s \in SUBSET flows : s # {} => f[s] = Amount(First(s)) + f[s \ {First(s)}]
<1>1. \A s \in SUBSET flows :
        f[s] = IF s = {} THEN 0 ELSE Amount(First(s)) + f[s \ {First(s)}]
  BY DEF Totals
<1> QED
  BY <1>1

LEMMA TotalsAgree ==
    ASSUME NEW f, NEW S, Totals(f, S), NEW g, NEW T, Totals(g, T),
           NEW s \in SUBSET (S \cap T), IsFiniteSet(s)
    PROVE  f[s] = g[s]
<1> DEFINE family == {t \in SUBSET s : f[t] # g[t]}
<1>1. SUFFICES ASSUME family # {} PROVE FALSE
  OBVIOUS
<1>2. \A t \in family : IsFiniteSet(t)
  BY FS_Subset
<1>3. PICK t \in family : \A x \in t : t \ {x} \notin family
  <2> HIDE DEF family
  <2> QED
    BY <1>1, <1>2, LeastSet
<1>4. t # {} /\ t \in SUBSET S /\ t \in SUBSET T
  BY <1>3, TotalsStep
<1>5. First(t) \in t /\ f[t \ {First(t)}] = g[t \ {First(t)}]
  BY <1>3, <1>4, FirstIn
<1>6. f[t] = Amount(First(t)) + f[t \ {First(t)}] /\ g[t] = Amount(First(t)) + g[t \ {First(t)}]
  BY <1>4, TotalsStep
<1> QED
  BY <1>3, <1>5, <1>6

LEMMA TotalsExist ==
    ASSUME NEW S, IsFiniteSet(S)
    PROVE  \E f : Totals(f, S)
<1> DEFINE family == {T \in SUBSET S : ~ \E f : Totals(f, T)}
<1>1. SUFFICES ASSUME family # {} PROVE FALSE
  OBVIOUS
<1>2. \A T \in family : IsFiniteSet(T)
  BY FS_Subset
<1>3. PICK T \in family : \A x \in T : T \ {x} \notin family
  <2> HIDE DEF family
  <2> QED
    BY <1>1, <1>2, LeastSet
<1> DEFINE rest(x) == CHOOSE h : Totals(h, T \ {x})
           g == [s \in SUBSET T |-> IF s = {} THEN 0
                                    ELSE Amount(First(s)) + rest(First(s))[s \ {First(s)}]]
<1>4. ASSUME NEW x \in T PROVE Totals(rest(x), T \ {x})
  <2>1. \E h : Totals(h, T \ {x})
    BY <1>3
  <2> QED
    BY <2>1
<1> HIDE DEF rest
<1>5. ASSUME NEW s \in SUBSET T, s # {}
      PROVE  rest(First(s))[s \ {First(s)}] = g[s \ {First(s)}]
  <2> DEFINE x == First(s)
             t == s \ {First(s)}
  <2>1. x \in T /\ Totals(rest(x), T \ {x}) /\ t \in SUBSET T /\ t \in SUBSET (T \ {x})
    BY <1>4, <1>5, FirstIn
  <2> HIDE DEF x, t
  <2>2. CASE t = {}
    <3>1. rest(x)[t] = 0
      BY <2>1, <2>2, TotalsStep
    <3>2. g[t] = 0
      BY <2>1, <2>2
    <3> QED
      BY <3>1, <3>2 DEF x, t
  <2>3. CASE t # {}
    <3>1. First(t) \in t /\ First(t) \in T
      BY <2>1, <2>3, FirstIn
    <3>2. g[t] = Amount(First(t)) + rest(First(t))[t \ {First(t)}]
      BY <2>1, <2>3
    <3>3. rest(x)[t] = Amount(First(t)) + rest(x)[t \ {First(t)}]
      BY <2>1, <2>3, TotalsStep
    <3>4. Totals(rest(First(t)), T \ {First(t)})
      BY <1>4, <3>1
    <3>5. /\ t \ {First(t)} \in SUBSET ((T \ {x}) \cap (T \ {First(t)}))
          /\ IsFiniteSet(t \ {First(t)})
      <4>1. T \in SUBSET S /\ t \ {First(t)} \in SUBSET T
        BY <1>3, <2>1
      <4> QED
        BY <2>1, <4>1, FS_Subset
    <3>6. rest(x)[t \ {First(t)}] = rest(First(t))[t \ {First(t)}]
      BY <2>1, <3>4, <3>5, TotalsAgree
    <3> QED
      BY <3>2, <3>3, <3>6 DEF x, t
  <2> QED
    BY <2>2, <2>3
<1>6. ASSUME NEW s \in SUBSET T
      PROVE  g[s] = IF s = {} THEN 0 ELSE Amount(First(s)) + g[s \ {First(s)}]
  BY <1>5
<1>7. g = [s \in SUBSET T |-> g[s]]
  OBVIOUS
<1> HIDE DEF g
<1>8. Totals(g, T)
  BY <1>6, <1>7 DEF Totals
<1> QED
  BY <1>3, <1>8

LEMMA TakenTotal ==
    ASSUME NEW S, IsFiniteSet(S), NEW f, NEW T, Totals(f, T), S \in SUBSET T
    PROVE  Taken(S) = f[S]
<1> DEFINE g == CHOOSE total : Totals(total, S)
<1>1. Taken(S) = g[S]
  BY DEF Taken, MapThenSumSet, MapThenFoldSet, Totals, Amount, First
<1>2. Totals(g, S)
  BY TotalsExist
<1> HIDE DEF g
<1> QED
  BY <1>1, <1>2, TotalsAgree

\* An empty set has nothing; another one what its chosen element adds to the rest.
LEMMA TakenStep ==
    ASSUME NEW S, IsFiniteSet(S)
    PROVE  /\ S = {} => Taken(S) = 0
           /\ S # {} => Taken(S) = Amount(First(S)) + Taken(S \ {First(S)})
<1>1. PICK f : Totals(f, S)
  BY TotalsExist
<1>2. IsFiniteSet(S \ {First(S)})
  BY FS_Subset
<1>3. Taken(S) = f[S] /\ Taken(S \ {First(S)}) = f[S \ {First(S)}]
  BY <1>1, <1>2, TakenTotal
<1>4. /\ f[{}] = 0
      /\ S # {} => f[S] = Amount(First(S)) + f[S \ {First(S)}]
  BY <1>1, TotalsStep
<1> QED
  BY <1>3, <1>4

LEMMA TakenInteger ==
    ASSUME NEW S, IsFiniteSet(S), \A f \in S : Amount(f) \in Int
    PROVE  Taken(S) \in Int
<1> DEFINE family == {T \in SUBSET S : Taken(T) \notin Int}
<1>1. SUFFICES ASSUME family # {} PROVE FALSE
  OBVIOUS
<1>2. \A T \in family : IsFiniteSet(T)
  BY FS_Subset
<1>3. PICK T \in family : \A x \in T : T \ {x} \notin family
  <2> HIDE DEF family
  <2> QED
    BY <1>1, <1>2, LeastSet
<1>4. T # {} /\ IsFiniteSet(T)
  <2>1. IsFiniteSet(T) /\ Taken(T) \notin Int
    BY <1>2, <1>3
  <2>2. T = {} => Taken(T) = 0
    BY <2>1, TakenStep
  <2> QED
    BY <2>1, <2>2
<1>5. First(T) \in T /\ Taken(T \ {First(T)}) \in Int
  BY <1>3, <1>4, FirstIn
<1>6. Taken(T) = Amount(First(T)) + Taken(T \ {First(T)})
  BY <1>4, TakenStep
<1> QED
  BY <1>3, <1>5, <1>6

\* The order in which the library adds does not matter.
LEMMA TakenWithout ==
    ASSUME NEW S, IsFiniteSet(S), \A f \in S : Amount(f) \in Int, NEW x \in S
    PROVE  Taken(S) = Amount(x) + Taken(S \ {x})
<1> DEFINE family == {T \in SUBSET S : \E y \in T : Taken(T) # Amount(y) + Taken(T \ {y})}
<1>1. SUFFICES ASSUME family # {} PROVE FALSE
  OBVIOUS
<1>2. \A T \in family : IsFiniteSet(T)
  BY FS_Subset
<1>3. PICK T \in family : \A y \in T : T \ {y} \notin family
  <2> HIDE DEF family
  <2> QED
    BY <1>1, <1>2, LeastSet
<1>4. PICK y \in T : Taken(T) # Amount(y) + Taken(T \ {y})
  BY <1>3
<1> DEFINE c == First(T)
<1>5. IsFiniteSet(T) /\ c \in T /\ T \in SUBSET S /\ Taken(T) = Amount(c) + Taken(T \ {c})
  BY <1>2, <1>3, <1>4, FirstIn, TakenStep
<1> HIDE DEF c
<1>6. y # c
  BY <1>4, <1>5
<1>7. Taken(T \ {c}) = Amount(y) + Taken((T \ {c}) \ {y})
  BY <1>3, <1>5, <1>6
<1>8. Taken(T \ {y}) = Amount(c) + Taken((T \ {y}) \ {c})
  BY <1>3, <1>4, <1>5, <1>6
<1>9. (T \ {c}) \ {y} = (T \ {y}) \ {c}
  OBVIOUS
<1>10. Amount(y) \in Int /\ Amount(c) \in Int /\ Taken((T \ {c}) \ {y}) \in Int
  <2>1. IsFiniteSet((T \ {c}) \ {y})
    BY <1>5, FS_Subset
  <2> QED
    BY <1>5, <2>1, TakenInteger
<1>11. Amount(c) + (Amount(y) + Taken((T \ {c}) \ {y})) =
          Amount(y) + (Amount(c) + Taken((T \ {c}) \ {y}))
  BY <1>10
<1> HIDE DEF family
<1> QED
  BY <1>4, <1>5, <1>7, <1>8, <1>9, <1>11

LEMMA TakenWith ==
    ASSUME NEW S, IsFiniteSet(S), \A f \in S : Amount(f) \in Int,
           NEW x, x \notin S, Amount(x) \in Int
    PROVE  Taken(S \cup {x}) = Taken(S) + Amount(x)
<1>1. IsFiniteSet(S \cup {x}) /\ (S \cup {x}) \ {x} = S
  BY FS_AddElement
<1>2. Taken(S \cup {x}) = Amount(x) + Taken(S)
  BY <1>1, TakenWithout
<1> QED
  BY <1>2, TakenInteger

----------------------------------------------------------------------------
(* Capacity.                                                               *)

\* The overlay nodes of the flow being created are a pair create_flow accepts.
LEMMA AcceptedPair ==
    ASSUME NEW r, SuitablePairs(r) # {}
    PROVE  /\ FirstPair(SuitablePairs(r)) \in SuitablePairs(r)
           /\ FirstPair(SuitablePairs(r)) \in Nodes \X Nodes
<1>1. SuitablePairs(r) \in SUBSET (Nodes \X Nodes)
  BY DEF SuitablePairs, returnOverlays
<1> QED
  BY <1>1, ChosenPair

\* The sum over the flows of the overlay of node n.
CapacityInv ==
    /\ IsFiniteSet(granted)
    /\ \A f \in granted : f.request.resources \in Int
    /\ CapacityAccounted

LEMMA InitCapacityInv == Init => CapacityInv
<1> SUFFICES ASSUME Init PROVE CapacityInv
  OBVIOUS
<1>1. granted = {} /\ throughput = [n \in Nodes |-> OverlayList[n].throughput]
  BY DEF Init, initialThroughput
<1>2. IsFiniteSet({}) /\ Taken({}) = 0
  BY FS_EmptySet, TakenStep
<1>3. \A n \in Nodes : {f \in granted : OverlayPort(f.entry) = OverlayPort(n)} = {}
  BY <1>1
<1>4. CapacityAccounted
  BY <1>1, <1>2, <1>3, TopologyAssumption DEF CapacityAccounted
<1> QED
  BY <1>1, <1>2, <1>4 DEF CapacityInv

LEMMA CapacityStep == TypeInv /\ NumberInv /\ CapacityInv /\ [Next]_vars => CapacityInv'
<1> SUFFICES ASSUME TypeInv, NumberInv, CapacityInv, [Next]_vars PROVE CapacityInv'
  OBVIOUS
<1>1. CASE UNCHANGED <<throughput, granted>>
  BY <1>1 DEF CapacityInv, CapacityAccounted
<1>2. ASSUME NEW f \in FlowsInCreation, cur # NoFlow, f.id = cur.id,
             reduceResources(OverlayPort(f.entry), f.request.resources),
             granted' = granted \cup {Grant(f)}
      PROVE  CapacityInv'
  <2> DEFINE g == Grant(f)
             of(flows, n) == {x \in flows : OverlayPort(x.entry) = OverlayPort(n)}
  <2>1. /\ g.request.resources = f.request.resources /\ g.entry = f.entry /\ g.id = f.id
        /\ f.request.resources \in Int
    BY RequestAssumption DEF Grant, FlowsInCreation
  <2>2. g \notin granted
    <3>1. IdsGranted = 0 .. (f.id - 1) /\ f.id \in Nat
      BY <1>2 DEF TypeInv, CounterLedger, NumberInv, IdsDense, FlowsInCreation
    <3> QED
      BY <2>1, <3>1 DEF IdsGranted
  <2> HIDE DEF g
  <2>3. IsFiniteSet(granted') /\ \A x \in granted' : x.request.resources \in Int
    BY <1>2, <2>1, FS_AddElement DEF CapacityInv, g
  <2>4. ASSUME NEW n \in Nodes
        PROVE  throughput'[n] = OverlayList[n].throughput - Taken(of(granted', n))
    <3>1. throughput[n] = OverlayList[n].throughput - Taken(of(granted, n))
      BY DEF CapacityInv, CapacityAccounted
    <3>2. /\ IsFiniteSet(of(granted, n)) /\ \A x \in of(granted, n) : Amount(x) \in Int
          /\ g \notin of(granted, n) /\ Amount(g) = f.request.resources
      BY <2>1, <2>2, FS_Subset DEF CapacityInv, Amount
    <3>3. Taken(of(granted, n)) \in Int /\ OverlayList[n].throughput \in Int
      BY <3>2, TakenInteger, TopologyAssumption
    <3>4. CASE OverlayPort(n) = OverlayPort(f.entry)
      <4>1. of(granted', n) = of(granted, n) \cup {g}
        BY <1>2, <2>1, <3>4 DEF g
      <4>2. Taken(of(granted', n)) = Taken(of(granted, n)) + f.request.resources
        <5> HIDE DEF of
        <5> QED
          BY <2>1, <3>2, <4>1, TakenWith
      <4>3. throughput'[n] = throughput[n] - f.request.resources
        BY <1>2, <3>4 DEF reduceResources
      <4> HIDE DEF of
      <4> QED
        BY <2>1, <3>1, <3>3, <4>2, <4>3
    <3>5. CASE OverlayPort(n) # OverlayPort(f.entry)
      <4>1. of(granted', n) = of(granted, n)
        BY <1>2, <2>1, <3>5 DEF g
      <4>2. throughput'[n] = throughput[n]
        BY <1>2, <3>5 DEF reduceResources
      <4> QED
        BY <3>1, <4>1, <4>2
    <3> QED
      BY <3>4, <3>5
  <2> QED
    BY <2>3, <2>4 DEF CapacityInv, CapacityAccounted
<1>3. CASE Restart
  <2>1. granted' = {} /\ throughput' = [n \in Nodes |-> OverlayList[n].throughput]
    BY <1>3 DEF Restart, initialThroughput
  <2>2. IsFiniteSet({}) /\ Taken({}) = 0
    BY FS_EmptySet, TakenStep
  <2>3. ASSUME NEW n \in Nodes
        PROVE  throughput'[n] =
                 OverlayList[n].throughput -
                 Taken({f \in granted' : OverlayPort(f.entry) = OverlayPort(n)})
    <3> DEFINE none == {f \in granted' : OverlayPort(f.entry) = OverlayPort(n)}
    <3>1. none = {}
      BY <2>1
    <3>2. throughput'[n] = OverlayList[n].throughput /\ OverlayList[n].throughput \in Int
      BY <2>1, TopologyAssumption
    <3> HIDE DEF none
    <3>3. throughput'[n] = OverlayList[n].throughput - Taken(none)
      BY <2>2, <3>1, <3>2
    <3> QED
      BY <3>3 DEF none
  <2>4. CapacityAccounted'
    BY <2>3 DEF CapacityAccounted
  <2> QED
    BY <2>1, <2>2, <2>4 DEF CapacityInv
<1>4. (\E i \in FlowIds : DeleteFlow(i)) => UNCHANGED <<throughput, granted>>
  BY DEF DeleteFlow
<1>5. \A f : CommitFlow(f) =>
        \/ UNCHANGED <<throughput, granted>>
        \/ /\ reduceResources(OverlayPort(f.entry), f.request.resources)
           /\ granted' = granted \cup {Grant(f)}
  BY DEF CommitFlow, flowVars
<1> QED
  BY <1>1, <1>2, <1>3, <1>4, <1>5, FlowSteps

\* What is left at every node is what it had less what the acknowledged flows of
\* its overlay take, for any topology and any amounts.
THEOREM CapacityAccountedCorrect == Spec => []CapacityAccounted
<1>1. Init => TypeInv /\ NumberInv /\ CapacityInv
  BY InitTypeInv, InitNumberInv, InitCapacityInv
<1>2. (TypeInv /\ NumberInv /\ CapacityInv) /\ [Next]_vars => (TypeInv /\ NumberInv /\ CapacityInv)'
  BY TypeStep, NumberStep, CapacityStep
<1>3. TypeInv /\ NumberInv /\ CapacityInv => CapacityAccounted
  BY DEF CapacityInv
<1> QED
  BY <1>1, <1>2, <1>3, PTL DEF Spec

\* The two nodes of the flow being created still have what it asks for.
Reserved ==
    InCreateFlow =>
        /\ OverlayPort(cur.entry) = OverlayPort(cur.exit)
        /\ throughput[cur.entry] >= cur.request.resources
        /\ throughput[cur.exit] >= cur.request.resources
        /\ TwoNodeOverlays => cur.entry # cur.exit

OverdraftInv == NoOverdraft /\ Reserved

LEMMA InitOverdraftInv == Init => OverdraftInv
BY DEF Init, initialThroughput, OverdraftInv, NoOverdraft, TwoNodeOverlays, Reserved, InCreateFlow

\* A step that charges nothing and begins nothing.
LEMMA ReservationKept ==
    ASSUME OverdraftInv, UNCHANGED throughput,
           InCreateFlow' => /\ InCreateFlow /\ cur'.request = cur.request
                            /\ cur'.entry = cur.entry /\ cur'.exit = cur.exit
    PROVE  OverdraftInv'
BY DEF OverdraftInv, NoOverdraft, TwoNodeOverlays, Reserved, OverlayPort

LEMMA FlowReserved ==
    ASSUME OverdraftInv, NEW r \in Requests, BeginFlow(r)
    PROVE  OverdraftInv'
<1> DEFINE p == FirstPair(SuitablePairs(r))
<1>1. p \in SuitablePairs(r)
  BY AcceptedPair DEF BeginFlow
<1>2. cur' = NewFlow(r, flow_ct, p) /\ UNCHANGED throughput
  BY DEF BeginFlow
<1> HIDE DEF p
<1>3. cur'.request = r /\ cur'.entry = p[1] /\ cur'.exit = p[2]
  BY <1>2 DEF NewFlow
<1>4. /\ throughput[p[1]] >= r.resources /\ throughput[p[2]] >= r.resources
      /\ OverlayPort(p[1]) = OverlayPort(p[2])
      /\ OverlayList[p[1]].siteID = r.entryOverlaySite
      /\ OverlayList[p[2]].siteID = r.exitOverlaySite
  BY <1>1 DEF SuitablePairs, returnOverlays
<1>5. TwoNodeOverlays => p[1] # p[2]
  BY <1>4 DEF TwoNodeOverlays
<1> QED
  BY <1>2, <1>3, <1>4, <1>5
  DEF OverdraftInv, NoOverdraft, TwoNodeOverlays, Reserved, OverlayPort

\* The overlay that is charged has no node but the two that were looked at.
LEMMA FlowCharged ==
    ASSUME TypeInv, OverdraftInv, InCreateFlow, NEW f \in FlowsInCreation,
           f.request = cur.request, f.entry = cur.entry, f.exit = cur.exit,
           reduceResources(OverlayPort(f.entry), f.request.resources), mpc' = "accept"
    PROVE  OverdraftInv'
<1>1. ASSUME TwoNodeOverlays, NEW n \in Nodes PROVE throughput'[n] >= 0
  <2>1. /\ f.entry \in Nodes /\ f.exit \in Nodes /\ f.request.resources \in Int
        /\ throughput \in [Nodes -> Int] /\ throughput[n] >= 0
    BY <1>1, RequestAssumption
    DEF FlowsInCreation, TypeInv, TypeOK, OverdraftInv, NoOverdraft
  <2>2. CASE OverlayPort(n) = OverlayPort(f.entry)
    <3>1. n \in {f.entry, f.exit}
      BY <1>1, <2>1, <2>2 DEF OverdraftInv, Reserved, TwoNodeOverlays
    <3>2. throughput[n] >= f.request.resources
      BY <3>1 DEF OverdraftInv, Reserved
    <3> QED
      BY <2>1, <2>2, <3>2 DEF reduceResources
  <2>3. CASE OverlayPort(n) # OverlayPort(f.entry)
    BY <2>1, <2>3 DEF reduceResources
  <2> QED
    BY <2>2, <2>3
<1> QED
  BY <1>1 DEF OverdraftInv, NoOverdraft, TwoNodeOverlays, Reserved, InCreateFlow, OverlayPort

LEMMA OverdraftStep == TypeInv /\ OverdraftInv /\ [Next]_vars => OverdraftInv'
<1> SUFFICES ASSUME TypeInv, OverdraftInv, [Next]_vars PROVE OverdraftInv'
  OBVIOUS
<1>1. CASE UNCHANGED vars
  BY <1>1, ReservationKept DEF vars, flowVars, InCreateFlow
<1>2. CASE ServeClient
  <2>1. PICK msg \in ClientMessages \cup {buf} : Dispatch(msg)
    BY <1>2 DEF ServeClient
  <2>2. mpc = "accept" /\ msg \in ClientMessages \cup {FreshBuffer}
    BY <1>2, <2>1 DEF ServeClient, TypeInv, TypeOK
  <2>3. ASSUME NEW r \in Requests, RegisterFlow(r) PROVE OverdraftInv'
    <3>1. CASE RefuseRequest(r)
      BY <2>2, <3>1, ReservationKept DEF RefuseRequest, flowVars, InCreateFlow
    <3>2. CASE BeginFlow(r)
      BY <3>2, FlowReserved
    <3> QED
      BY <2>3, <3>1, <3>2 DEF RegisterFlow
  <2>4. msg.type = "REGISTER_FLOW" => msg.registerFlow \in Requests
    BY <2>2 DEF ClientMessages, FreshBuffer
  <2>5. CASE DeleteFlow(msg.flowId)
    BY <2>2, <2>5, ReservationKept DEF DeleteFlow, InCreateFlow
  <2>6. CASE Terminate \/ NoEffect
    BY <2>2, <2>6, ReservationKept DEF Terminate, NoEffect, flowVars, InCreateFlow
  <2> QED
    BY <2>1, <2>3, <2>4, <2>5, <2>6 DEF Dispatch
<1>3. CASE OutboundOpened \/ FillRequestFile
  BY <1>3, ReservationKept DEF OutboundOpened, FillRequestFile, flowVars, InCreateFlow
<1>4. CASE OpenFailed \/ AgentUnreachable \/ Kill
  BY <1>4, ReservationKept DEF OpenFailed, AgentUnreachable, Kill, flowVars, InCreateFlow
<1>5. CASE InboundOpened
  <2>1. PICK d \in UninitInts \cup {rpc.data} :
          /\ Acked(d)
          /\ LET f == [cur EXCEPT !.inPort = d]
             IN  \/ CommitFlow(f)
                 \/ cur' = f /\ mpc' = "filing" /\ UNCHANGED flowVars
    BY <1>5 DEF InboundOpened
  <2> DEFINE f == [cur EXCEPT !.inPort = d]
  <2>2. d \in Int
    BY <2>1, PortAssumption DEF Acked, TypeInv, TypeOK
  <2>3. cur \in FlowsInCreation /\ InCreateFlow
    BY <1>5 DEF InboundOpened, TypeInv, TypeOK, InCreateFlow
  <2>4. /\ f \in FlowsInCreation /\ f.request = cur.request
        /\ f.entry = cur.entry /\ f.exit = cur.exit
    BY <2>2, <2>3 DEF FlowsInCreation
  <2> HIDE DEF f
  <2>5. CASE CommitFlow(f)
    <3>1. CASE UNCHANGED flowVars /\ mpc' = "hung"
      BY <3>1, ReservationKept DEF flowVars, InCreateFlow
    <3>2. CASE /\ reduceResources(OverlayPort(f.entry), f.request.resources)
               /\ mpc' = "accept"
      BY <2>3, <2>4, <3>2, FlowCharged
    <3> QED
      BY <2>5, <3>1, <3>2 DEF CommitFlow
  <2>6. CASE cur' = f /\ mpc' = "filing" /\ UNCHANGED flowVars
    BY <2>3, <2>4, <2>6, ReservationKept DEF flowVars
  <2> QED
    BY <2>1, <2>5, <2>6 DEF f
<1>6. CASE ControllerDone
  <2>1. CommitFlow(cur) /\ InCreateFlow
    BY <1>6 DEF ControllerDone, InCreateFlow
  <2>2. cur \in FlowsInCreation
    BY <2>1 DEF TypeInv, TypeOK
  <2>3. CASE UNCHANGED flowVars /\ mpc' = "hung"
    BY <2>3, ReservationKept DEF flowVars, InCreateFlow
  <2>4. CASE /\ reduceResources(OverlayPort(cur.entry), cur.request.resources)
             /\ mpc' = "accept"
    BY <2>1, <2>2, <2>4, FlowCharged
  <2> QED
    BY <2>1, <2>3, <2>4 DEF CommitFlow
<1>7. CASE Restart
  BY <1>7 DEF Restart, initialThroughput, OverdraftInv, NoOverdraft, TwoNodeOverlays,
              Reserved, InCreateFlow, OverlayPort
<1>8. CASE Agents \/ Controller \/ ControllerFails
  BY <1>8, ReservationKept DEF Agents, Controller, ControllerFails, flowVars, InCreateFlow
<1> QED
  BY <1>1, <1>2, <1>3, <1>4, <1>5, <1>6, <1>7, <1>8 DEF Next, Progress

\* In overlays of two nodes no node is ever charged more than it has: the capacity
\* checked before the agents are called is still there when it is taken.
THEOREM NoOverdraftCorrect == Spec => []NoOverdraft
<1>1. Init => TypeInv /\ OverdraftInv
  BY InitTypeInv, InitOverdraftInv
<1>2. (TypeInv /\ OverdraftInv) /\ [Next]_vars => (TypeInv /\ OverdraftInv)'
  BY TypeStep, OverdraftStep
<1>3. TypeInv /\ OverdraftInv => NoOverdraft
  BY DEF OverdraftInv
<1> QED
  BY <1>1, <1>2, <1>3, PTL DEF Spec

----------------------------------------------------------------------------
(* The handshake with the switch controller.                               *)

FirstLife == restarts = 0 /\ mpc # "crashed"

\* Nothing is read from a file before it is filled.
UnfilledRequest == mpc = "filing" => \A q \in reqs : q.id = cur.id => q.text = <<>>

\* Served once or served again: the manager waits with the flow or has granted it.
Served(id) == Awaits(id) \/ id \in IdsGranted

\* However often the controller is started again it serves no flow that may still
\* hand its number back.
ServiceInv ==
    FirstLife =>
        /\ \A id \in acks : Served(id)
        /\ \A q \in reqs : Served(q.id) \/ (mpc = "filing" /\ q.id = cur.id)
        /\ UnfilledRequest
        /\ controller.phase \in {"installing", "removing"} => Served(controller.id)

LEMMA InitServiceInv == Init => ServiceInv
  BY DEF Init, ServiceInv, UnfilledRequest, IdleController

\* A step of the manager outside the two writes of a request file.
LEMMA ServiceKept ==
    ASSUME ServiceInv, UNCHANGED <<fileVars, controller>>, FirstLife' => FirstLife,
           mpc # "filing", mpc' # "filing", \A id : Served(id) => Served(id)'
    PROVE  ServiceInv'
  BY DEF ServiceInv, UnfilledRequest, fileVars

\* A flow stays served when it is granted, when nothing changes, and while the
\* manager goes on with another.
LEMMA ServedStays ==
    ASSUME \/ granted' = granted /\ mpc \notin {"controller", "hung"}
           \/ UNCHANGED <<granted, mpc, cur>>
           \/ CommitFlow(cur)
           \/ \E f : CommitFlow(f) /\ mpc = "inbound",
           NEW id, Served(id)
    PROVE  Served(id)'
<1>1. CASE granted' = granted /\ mpc \notin {"controller", "hung"}
  BY <1>1 DEF Served, Awaits, IdsGranted
<1>2. CASE UNCHANGED <<granted, mpc, cur>>
  BY <1>2 DEF Served, Awaits, IdsGranted
<1>3. ASSUME NEW f, CommitFlow(f), f.id = cur.id \/ mpc = "inbound" PROVE Served(id)'
  <2>1. \/ granted' = granted \cup {Grant(f)}
        \/ granted' = granted /\ mpc' = "hung" /\ cur' = f
    BY <1>3 DEF CommitFlow, flowVars
  <2>2. Grant(f).id = f.id
    BY DEF Grant
  <2>3. id \in IdsGranted \/ (id = cur.id /\ mpc \in {"controller", "hung"})
    BY DEF Served, Awaits
  <2>4. IdsGranted \subseteq IdsGranted'
    BY <2>1 DEF IdsGranted
  <2>5. CASE id \in IdsGranted
    BY <2>4, <2>5 DEF Served
  <2>6. CASE id = f.id
    <3>1. CASE granted' = granted \cup {Grant(f)}
      BY <2>2, <2>6, <3>1 DEF Served, IdsGranted
    <3>2. CASE mpc' = "hung" /\ cur' = f
      BY <2>6, <3>2 DEF Served, Awaits
    <3> QED
      BY <2>1, <3>1, <3>2
  <2> QED
    BY <1>3, <2>3, <2>5, <2>6
<1> QED
  BY <1>1, <1>2, <1>3

LEMMA ServiceController ==
    ASSUME ServiceInv, Controller \/ ControllerFails
    PROVE  ServiceInv'
<1>1. UNCHANGED <<mpc, cur, granted, restarts>>
  BY DEF Controller, ControllerFails, flowVars, historyVars
<1>2. \A id : Served(id)' <=> Served(id)
  BY <1>1 DEF Served, Awaits, IdsGranted
<1> SUFFICES ASSUME FirstLife'
             PROVE  ServiceInv'
  BY DEF ServiceInv
<1>3. /\ \A id \in acks : Served(id)
      /\ \A q \in reqs : Served(q.id) \/ (mpc = "filing" /\ q.id = cur.id)
      /\ UnfilledRequest
      /\ controller.phase \in {"installing", "removing"} => Served(controller.id)
  BY <1>1 DEF ServiceInv, FirstLife
<1>4. \A q \in reqs : q.text # <<>> => Served(q.id)
  BY <1>3 DEF UnfilledRequest
<1>5. CASE ControllerReads
  <2>1. /\ UNCHANGED <<reqs, acks>>
        /\ controller'.phase \in {"installing", "removing"} =>
             \E q \in reqs : q.text # <<>> /\ controller'.id = q.id
    BY <1>5 DEF ControllerReads, DeadController, fileVars
  <2> QED
    BY <1>1, <1>2, <1>3, <1>4, <2>1 DEF ServiceInv, UnfilledRequest
<1>6. CASE ControllerAcks
  <2>1. /\ acks' = acks \cup {controller.id} /\ UNCHANGED reqs
        /\ controller.phase = "installing" /\ controller'.id = controller.id
    BY <1>6 DEF ControllerAcks
  <2> QED
    BY <1>1, <1>2, <1>3, <2>1 DEF ServiceInv, UnfilledRequest
<1>7. CASE ControllerRemoves
  <2>1. reqs' \subseteq reqs /\ UNCHANGED acks /\ controller'.phase = "idle"
    BY <1>7 DEF ControllerRemoves, IdleController
  <2> QED
    BY <1>1, <1>2, <1>3, <2>1 DEF ServiceInv, UnfilledRequest
<1>8. CASE ControllerFails
  <2>1. UNCHANGED <<reqs, acks>> /\ controller'.phase \in {"idle", "dead"}
    BY <1>8 DEF ControllerFails, ControllerDies, RestartController, DeadController,
                IdleController, fileVars
  <2> QED
    BY <1>1, <1>2, <1>3, <2>1 DEF ServiceInv, UnfilledRequest
<1> QED
  BY <1>5, <1>6, <1>7, <1>8 DEF Controller

LEMMA ServiceStep == TypeInv /\ ServiceInv /\ [Next]_vars => ServiceInv'
<1> SUFFICES ASSUME TypeInv, ServiceInv, [Next]_vars PROVE ServiceInv'
  OBVIOUS
<1>1. CASE UNCHANGED <<fileVars, controller, granted, mpc, cur, restarts>>
  <2>1. \A id : Served(id)' <=> Served(id)
    BY <1>1 DEF Served, Awaits, IdsGranted
  <2> QED
    BY <1>1, <2>1 DEF ServiceInv, UnfilledRequest, FirstLife, fileVars
<1>2. CASE ServeClient
  <2>1. PICK msg \in ClientMessages \cup {buf} : Dispatch(msg)
    BY <1>2 DEF ServeClient
  <2>2. mpc = "accept" /\ UNCHANGED <<fileVars, controller>>
    BY <1>2 DEF ServeClient
  <2>3. mpc' \in {"accept", "outbound", "hung", "stopped"} /\ UNCHANGED <<granted, restarts>>
    BY <2>1, <2>2 DEF Dispatch, RegisterFlow, RefuseRequest, BeginFlow, DeleteFlow, Terminate,
                      NoEffect, flowVars, historyVars
  <2>4. \A id : Served(id) => Served(id)'
    BY <2>2, <2>3, ServedStays
  <2> QED
    BY <2>2, <2>3, <2>4, ServiceKept DEF FirstLife
<1>3. CASE OutboundOpened \/ OpenFailed \/ AgentUnreachable
  <2>1. /\ mpc \in {"outbound", "inbound"} /\ mpc' \in {"inbound", "accept", "crashed"}
        /\ UNCHANGED <<fileVars, controller, restarts, granted>>
    BY <1>3 DEF OutboundOpened, OpenFailed, AgentUnreachable, flowVars, historyVars
  <2>2. \A id : Served(id) => Served(id)'
    BY <2>1, ServedStays
  <2> QED
    BY <2>1, <2>2, ServiceKept DEF FirstLife
<1>4. CASE InboundOpened
  <2>1. PICK d \in UninitInts \cup {rpc.data} :
          LET f == [cur EXCEPT !.inPort = d]
          IN  \/ CommitFlow(f) /\ UNCHANGED reqs
              \/ /\ cur' = f /\ mpc' = "filing" /\ UNCHANGED flowVars
                 /\ reqs' = OtherRequests(f) \cup {[id |-> f.id, text |-> <<>>]}
    BY <1>4 DEF InboundOpened
  <2>2. mpc = "inbound" /\ UNCHANGED <<acks, controller, restarts>>
    BY <1>4 DEF InboundOpened, historyVars
  <2> DEFINE f == [cur EXCEPT !.inPort = d]
  <2> HIDE DEF f
  <2>3. CASE CommitFlow(f) /\ UNCHANGED reqs
    <3>1. mpc' \in {"accept", "hung"}
      BY <2>3 DEF CommitFlow
    <3>2. \A id : Served(id) => Served(id)'
      BY <2>2, <2>3, ServedStays
    <3> QED
      BY <2>2, <2>3, <3>1, <3>2, ServiceKept DEF FirstLife, fileVars
  <2>4. CASE /\ cur' = f /\ mpc' = "filing" /\ UNCHANGED flowVars
             /\ reqs' = OtherRequests(f) \cup {[id |-> f.id, text |-> <<>>]}
    <3>1. \A q \in reqs' : q \in reqs \/ q.id = cur'.id
      BY <2>4 DEF OtherRequests
    <3>2. \A q \in reqs' : q.id = cur'.id => q.text = <<>>
      BY <2>4 DEF OtherRequests
    <3>3. \A id : Served(id) => Served(id)'
      BY <2>2, <2>4, ServedStays DEF flowVars
    <3> QED
      BY <2>2, <2>4, <3>1, <3>2, <3>3 DEF ServiceInv, UnfilledRequest, FirstLife
  <2> QED
    BY <2>1, <2>3, <2>4 DEF f
<1>5. CASE FillRequestFile
  <2>1. /\ mpc = "filing" /\ mpc' = "controller"
        /\ UNCHANGED <<cur, granted, acks, controller, restarts>>
        /\ \A q \in reqs' : q \in reqs \/ q.id = cur.id
    BY <1>5 DEF FillRequestFile, OtherRequests, flowVars, historyVars
  <2>2. \A id : Served(id) => Served(id)'
    BY <2>1, ServedStays
  <2>3. Served(cur.id)'
    BY <2>1 DEF Served, Awaits
  <2> QED
    BY <2>1, <2>2, <2>3 DEF ServiceInv, UnfilledRequest, FirstLife
<1>6. CASE ControllerDone
  <2>1. /\ mpc = "controller" /\ acks' = acks \ {cur.id}
        /\ UNCHANGED <<reqs, controller, restarts>>
        /\ mpc' \in {"accept", "hung"} /\ CommitFlow(cur)
    BY <1>6 DEF ControllerDone, CommitFlow, historyVars
  <2>2. \A id : Served(id) => Served(id)'
    BY <2>1, ServedStays
  <2> QED
    BY <2>1, <2>2 DEF ServiceInv, UnfilledRequest, FirstLife
<1>7. CASE Kill
  BY <1>7 DEF Kill, ServiceInv, FirstLife
<1>8. CASE Restart
  <2>1. restarts' = restarts + 1 /\ restarts \in Nat
    BY <1>8 DEF Restart, TypeInv, TypeOK
  <2>2. restarts' # 0
    BY <2>1
  <2> QED
    BY <2>2 DEF ServiceInv, FirstLife
<1>9. CASE Agents \/ UNCHANGED vars
  BY <1>1, <1>9 DEF Agents, vars, flowVars, historyVars
<1>10. CASE Controller \/ ControllerFails
  BY <1>10, ServiceController
<1> QED
  BY <1>2, <1>3, <1>4, <1>5, <1>6, <1>7, <1>8, <1>9, <1>10 DEF Next, Progress

\* What follows is about the controller's first life.

\* A request file is that of the waiting flow or is about to be removed.
RequestLedger ==
    \A q \in reqs :
        \/ mpc \in {"filing", "controller"} /\ q.id = cur.id
        \/ controller.phase = "removing" /\ q.id = controller.id

\* The controller works for the waiting flow, once.
InstallsForWaiter ==
    /\ controller.phase = "installing" =>
           mpc = "controller" /\ controller.id = cur.id /\ acks = {}
    /\ acks # {} => \A q \in reqs : controller.phase = "removing" /\ q.id = controller.id

FirstLives == FirstLife /\ controllerRestarts = 0

\* No acknowledgement waits but for the flow the manager waits with.
AcksAwaited == FirstLives => acks \subseteq (IF mpc = "controller" THEN {cur.id} ELSE {})

HandshakeInv ==
    /\ AcksAwaited
    /\ FirstLives /\ controller.phase # "dead" =>
           RequestLedger /\ UnfilledRequest /\ InstallsForWaiter

LEMMA InitHandshakeInv == Init => HandshakeInv
  BY DEF Init, HandshakeInv, AcksAwaited, FirstLives, FirstLife, RequestLedger,
         UnfilledRequest, InstallsForWaiter, IdleController

\* A step of the manager while it waits for no acknowledgement, before and after.
LEMMA HandshakeIdle ==
    ASSUME HandshakeInv, UNCHANGED <<fileVars, controller>>,
           FirstLives' => FirstLives,
           mpc \notin {"filing", "controller"}, mpc' \notin {"filing", "controller"}
    PROVE  HandshakeInv'
  BY DEF HandshakeInv, AcksAwaited, FirstLives, FirstLife, RequestLedger, UnfilledRequest,
         InstallsForWaiter, fileVars

\* A step that leaves the manager where it waits, and everything it shares with
\* the controller.
LEMMA HandshakeKept ==
    ASSUME HandshakeInv, UNCHANGED <<fileVars, controller, mpc, cur, restarts,
                                    controllerRestarts>>
    PROVE  HandshakeInv'
  BY DEF HandshakeInv, AcksAwaited, FirstLives, FirstLife, RequestLedger, UnfilledRequest,
         InstallsForWaiter, fileVars

LEMMA HandshakeController ==
    ASSUME TypeInv, HandshakeInv, Controller
    PROVE  HandshakeInv'
<1>0. UNCHANGED <<mpc, cur, restarts, controllerRestarts>>
  BY DEF Controller, historyVars
<1>1. ASSUME FirstLives, controller.phase # "dead"
      PROVE  /\ acks' \subseteq (IF mpc' = "controller" THEN {cur'.id} ELSE {})
             /\ controller'.phase # "dead" =>
                    RequestLedger' /\ UnfilledRequest' /\ InstallsForWaiter'
  <2>0. /\ RequestLedger /\ UnfilledRequest /\ InstallsForWaiter
        /\ acks \subseteq (IF mpc = "controller" THEN {cur.id} ELSE {})
    BY <1>1 DEF HandshakeInv, AcksAwaited
  <2>1. CASE ControllerReads
    <3>1. PICK q \in reqs :
            controller' = IF q.text = <<>> THEN DeadController
                          ELSE [phase |-> "installing", id |-> q.id]
      BY <2>1 DEF ControllerReads
    <3>2. controller.phase = "idle" /\ UNCHANGED fileVars
      BY <2>1 DEF ControllerReads
    <3>3. \A r \in reqs : mpc \in {"filing", "controller"} /\ r.id = cur.id
      BY <2>0, <3>2 DEF RequestLedger
    <3>4. acks = {}
      BY <2>0, <3>2 DEF InstallsForWaiter
    <3>5. q.text # <<>> => mpc = "controller" /\ q.id = cur.id
      BY <2>0, <3>3 DEF UnfilledRequest
    <3>6. CASE q.text = <<>>
      BY <1>0, <2>0, <3>1, <3>2, <3>6 DEF DeadController, fileVars
    <3>7. CASE q.text # <<>>
      <4>1. controller' = [phase |-> "installing", id |-> q.id]
        BY <3>1, <3>7
      <4> QED
        BY <1>0, <2>0, <3>2, <3>3, <3>4, <3>5, <3>7, <4>1
        DEF RequestLedger, UnfilledRequest, InstallsForWaiter, fileVars
    <3> QED
      BY <3>6, <3>7
  <2>2. CASE ControllerAcks
    <3>1. /\ acks' = acks \cup {controller.id} /\ UNCHANGED reqs
          /\ controller' = [phase |-> "removing", id |-> controller.id]
          /\ controller.phase = "installing"
      BY <2>2 DEF ControllerAcks
    <3>2. mpc = "controller" /\ controller.id = cur.id /\ acks = {}
      BY <2>0, <3>1 DEF InstallsForWaiter
    <3>3. \A q \in reqs : q.id = cur.id
      BY <2>0, <3>1 DEF RequestLedger
    <3> QED
      BY <1>0, <2>0, <3>1, <3>2, <3>3
      DEF RequestLedger, UnfilledRequest, InstallsForWaiter
  <2>3. CASE ControllerRemoves
    <3>1. /\ reqs' = {q \in reqs : q.id # controller.id} /\ UNCHANGED acks
          /\ controller' = IdleController
          /\ controller.phase = "removing"
      BY <2>3 DEF ControllerRemoves
    <3>2. controller'.phase = "idle"
      BY <3>1 DEF IdleController
    <3>3. \A q \in reqs' : q \in reqs /\ q.id # controller.id
      BY <3>1
    <3>4. RequestLedger' /\ UnfilledRequest'
      BY <1>0, <2>0, <3>3 DEF RequestLedger, UnfilledRequest
    <3>5. InstallsForWaiter'
      BY <1>0, <2>0, <3>1, <3>2, <3>3 DEF InstallsForWaiter
    <3> QED
      BY <1>0, <2>0, <3>1, <3>4, <3>5
  <2> QED
    BY <2>1, <2>2, <2>3 DEF Controller
<1> QED
  <2>1. controller.phase # "dead"
    BY DEF Controller, ControllerReads, ControllerAcks, ControllerRemoves
  <2>2. FirstLives' => FirstLives
    BY <1>0 DEF FirstLives, FirstLife
  <2> QED
    BY <1>1, <2>1, <2>2 DEF HandshakeInv, AcksAwaited

LEMMA HandshakeStep == TypeInv /\ HandshakeInv /\ [Next]_vars => HandshakeInv'
<1> SUFFICES ASSUME TypeInv, HandshakeInv, [Next]_vars PROVE HandshakeInv'
  OBVIOUS
<1>0. CASE UNCHANGED vars
  BY <1>0, HandshakeKept DEF vars, historyVars
<1>1. CASE ServeClient
  <2>1. PICK msg \in ClientMessages \cup {buf} : Dispatch(msg)
    BY <1>1 DEF ServeClient
  <2>2. mpc = "accept" /\ UNCHANGED <<fileVars, controller>>
    BY <1>1 DEF ServeClient
  <2>3. CASE RegisterFlow(msg.registerFlow)
    <3>1. mpc' \in {"accept", "outbound"} /\ UNCHANGED <<restarts, controllerRestarts>>
      BY <2>2, <2>3 DEF RegisterFlow, RefuseRequest, BeginFlow, historyVars
    <3> QED
      BY <2>2, <3>1, HandshakeIdle DEF FirstLives, FirstLife
  <2>4. CASE DeleteFlow(msg.flowId)
    <3>1. mpc' \in {"accept", "hung"} /\ UNCHANGED <<restarts, controllerRestarts>>
      BY <2>2, <2>4 DEF DeleteFlow
    <3> QED
      BY <2>2, <3>1, HandshakeIdle DEF FirstLives, FirstLife
  <2>5. CASE Terminate \/ NoEffect
    <3>1. mpc' \in {"accept", "stopped"} /\ UNCHANGED <<restarts, controllerRestarts>>
      BY <2>2, <2>5 DEF Terminate, NoEffect, historyVars
    <3> QED
      BY <2>2, <3>1, HandshakeIdle DEF FirstLives, FirstLife
  <2> QED
    BY <2>1, <2>3, <2>4, <2>5 DEF Dispatch
<1>2. CASE OutboundOpened \/ OpenFailed \/ AgentUnreachable
  <2>1. /\ mpc \in {"outbound", "inbound"} /\ mpc' \in {"inbound", "accept", "crashed"}
        /\ UNCHANGED <<fileVars, controller, restarts, controllerRestarts>>
    BY <1>2 DEF OutboundOpened, OpenFailed, AgentUnreachable, historyVars
  <2> QED
    BY <2>1, HandshakeIdle DEF FirstLives, FirstLife
<1>3. CASE InboundOpened
  <2>1. PICK d \in UninitInts \cup {rpc.data} :
          LET f == [cur EXCEPT !.inPort = d]
          IN  \/ CommitFlow(f) /\ UNCHANGED reqs
              \/ /\ cur' = f /\ mpc' = "filing"
                 /\ reqs' = OtherRequests(f) \cup {[id |-> f.id, text |-> <<>>]}
    BY <1>3 DEF InboundOpened
  <2>2. mpc = "inbound" /\ UNCHANGED <<acks, controller, restarts, controllerRestarts>>
    BY <1>3 DEF InboundOpened, historyVars
  <2> DEFINE f == [cur EXCEPT !.inPort = d]
  <2> HIDE DEF f
  <2>3. CASE CommitFlow(f) /\ UNCHANGED reqs
    <3>1. mpc' \in {"accept", "hung"}
      BY <2>3 DEF CommitFlow
    <3> QED
      BY <2>2, <2>3, <3>1, HandshakeIdle DEF FirstLives, FirstLife, fileVars
  <2>4. CASE /\ cur' = f /\ mpc' = "filing"
             /\ reqs' = OtherRequests(f) \cup {[id |-> f.id, text |-> <<>>]}
    <3>1. \A q \in reqs' :
            \/ q \in reqs
            \/ q.id = cur'.id /\ q.text = <<>>
      BY <2>4 DEF OtherRequests
    <3>2. \A q \in reqs' : q.id = cur'.id => q.text = <<>>
      BY <2>4 DEF OtherRequests
    <3> QED
      BY <2>2, <2>4, <3>1, <3>2
      DEF HandshakeInv, AcksAwaited, FirstLives, FirstLife, RequestLedger, UnfilledRequest,
          InstallsForWaiter
  <2> QED
    BY <2>1, <2>3, <2>4 DEF f
<1>4. CASE FillRequestFile
  <2>1. /\ mpc = "filing" /\ mpc' = "controller"
        /\ UNCHANGED <<cur, acks, controller, restarts, controllerRestarts>>
        /\ \A q \in reqs' : q \in reqs \/ q.id = cur.id
    BY <1>4 DEF FillRequestFile, OtherRequests, historyVars
  <2> QED
    BY <2>1 DEF HandshakeInv, AcksAwaited, FirstLives, FirstLife, RequestLedger,
                UnfilledRequest, InstallsForWaiter
<1>5. CASE ControllerDone
  <2>1. /\ mpc = "controller" /\ cur.id \in acks /\ acks' = acks \ {cur.id}
        /\ UNCHANGED <<reqs, controller, restarts, controllerRestarts>>
        /\ mpc' \in {"accept", "hung"}
    BY <1>5 DEF ControllerDone, CommitFlow, historyVars
  <2> QED
    BY <2>1 DEF HandshakeInv, AcksAwaited, FirstLives, FirstLife, RequestLedger,
                UnfilledRequest, InstallsForWaiter
<1>6. CASE Kill
  <2>1. mpc' = "crashed"
    BY <1>6 DEF Kill
  <2> QED
    BY <2>1 DEF HandshakeInv, AcksAwaited, FirstLives, FirstLife
<1>7. CASE Restart
  <2>1. restarts' = restarts + 1 /\ restarts \in Nat
    BY <1>7, BoundAssumption DEF Restart, TypeInv, TypeOK
  <2>2. restarts' # 0
    BY <2>1
  <2> QED
    BY <2>2 DEF HandshakeInv, AcksAwaited, FirstLives, FirstLife
<1>8. CASE Agents
  BY <1>8, HandshakeKept DEF Agents, historyVars
<1>9. CASE Controller
  BY <1>9, HandshakeController
<1>10. CASE ControllerFails
  <2>1. /\ UNCHANGED <<fileVars, mpc, cur, restarts>> /\ controllerRestarts \in Nat
        /\ \/ controller'.phase = "dead" /\ UNCHANGED controllerRestarts
           \/ controllerRestarts' = controllerRestarts + 1
    BY <1>10 DEF ControllerFails, ControllerDies, RestartController, DeadController, TypeInv,
                 TypeOK
  <2>2. CASE controller'.phase = "dead" /\ UNCHANGED controllerRestarts
    BY <2>1, <2>2 DEF HandshakeInv, AcksAwaited, FirstLives, FirstLife, fileVars
  <2>3. CASE controllerRestarts' = controllerRestarts + 1
    <3>1. controllerRestarts' # 0
      BY <2>1, <2>3
    <3> QED
      BY <3>1 DEF HandshakeInv, AcksAwaited, FirstLives
  <2> QED
    BY <2>1, <2>2, <2>3
<1> QED
  BY <1>0, <1>1, <1>2, <1>3, <1>4, <1>5, <1>6, <1>7, <1>8, <1>9, <1>10 DEF Next, Progress

\* Until the manager is restarted it takes no acknowledgement for another flow's, for
\* any agents, requests and failures and however often the controller ends and is
\* started again; with one life of the controller none is ever left behind.
THEOREM AckBelongsToWaiterCorrect == Spec => []AckBelongsToWaiter
<1>1. Init => TypeInv /\ ServiceInv /\ HandshakeInv
  BY InitTypeInv, InitServiceInv, InitHandshakeInv
<1>2. (TypeInv /\ ServiceInv /\ HandshakeInv) /\ [Next]_vars
        => (TypeInv /\ ServiceInv /\ HandshakeInv)'
  BY TypeStep, ServiceStep, HandshakeStep
<1>3. TypeInv /\ ServiceInv /\ HandshakeInv => AckBelongsToWaiter
  BY DEF ServiceInv, Served, HandshakeInv, AcksAwaited, FirstLives, FirstLife,
         AckBelongsToWaiter
<1> QED
  BY <1>1, <1>2, <1>3, PTL DEF Spec

----------------------------------------------------------------------------
(* The protocol of the request files.                                      *)

\* Writing the file of a flow, whatever it holds, files its request.
LEMMA FiledOnce ==
    ASSUME NEW f, NEW text, UNCHANGED <<acks, controller>>,
           reqs' = OtherRequests(f) \cup {[id |-> f.id, text |-> text]}
    PROVE  RequestFiles!File
<1>1. {q.id : q \in reqs'} = {q.id : q \in reqs} \cup {f.id}
  <2> DEFINE r == [id |-> f.id, text |-> text]
  <2>1. r.id = f.id
    OBVIOUS
  <2>2. \A q : q \in reqs' <=> (q \in reqs /\ q.id # f.id) \/ q = r
    BY DEF OtherRequests
  <2> HIDE DEF r
  <2>3. {q.id : q \in reqs'} \subseteq {q.id : q \in reqs} \cup {f.id}
    BY <2>1, <2>2
  <2>4. {q.id : q \in reqs} \subseteq {q.id : q \in reqs'}
    BY <2>1, <2>2
  <2>5. f.id \in {q.id : q \in reqs'}
    BY <2>1, <2>2
  <2> QED
    BY <2>3, <2>4, <2>5
<1> QED
  BY <1>1 DEF RequestFiles!File

\* Each of the controller's steps is the one of the protocol.
LEMMA ControllerKeepsProtocol ==
    Controller => [RequestFiles!Next]_(RequestFiles!handshakeVars)
<1> SUFFICES ASSUME Controller PROVE [RequestFiles!Next]_(RequestFiles!handshakeVars)
  OBVIOUS
<1>1. CASE ControllerReads
  <2>1. PICK q \in reqs : controller' = IF q.text = <<>>
                                        THEN DeadController
                                        ELSE [phase |-> "installing", id |-> q.id]
    BY <1>1 DEF ControllerReads
  <2>2. controller.phase = "idle" /\ UNCHANGED fileVars
    BY <1>1 DEF ControllerReads
  <2>3. CASE q.text = <<>>
    BY <2>1, <2>2, <2>3
    DEF RequestFiles!Next, RequestFiles!End, RequestFiles!NobodyServed, DeadController, fileVars
  <2>4. CASE q.text # <<>>
    BY <2>1, <2>2, <2>4 DEF RequestFiles!Next, RequestFiles!PickUp, fileVars
  <2> QED
    BY <2>3, <2>4
<1>2. CASE ControllerAcks
  BY <1>2 DEF ControllerAcks, RequestFiles!Next, RequestFiles!Acknowledge
<1>3. CASE ControllerRemoves
  <2>1. {q.id : q \in reqs'} = {q.id : q \in reqs} \ {controller.id}
    BY <1>3 DEF ControllerRemoves
  <2> QED
    BY <1>3, <2>1 DEF ControllerRemoves, IdleController, RequestFiles!Next,
                      RequestFiles!TakeAway, RequestFiles!NobodyServed
<1> QED
  BY <1>1, <1>2, <1>3 DEF Controller

LEMMA FailuresKeepProtocol ==
    ControllerFails => [RequestFiles!Next]_(RequestFiles!handshakeVars)
<1> SUFFICES ASSUME ControllerFails PROVE [RequestFiles!Next]_(RequestFiles!handshakeVars)
  OBVIOUS
<1>1. UNCHANGED fileVars
  BY DEF ControllerFails
<1>2. CASE ControllerDies
  BY <1>1, <1>2 DEF ControllerDies, DeadController, RequestFiles!Next, RequestFiles!End,
                    RequestFiles!NobodyServed, fileVars
<1>3. CASE RestartController
  BY <1>1, <1>3 DEF RestartController, IdleController, RequestFiles!Next, RequestFiles!Start,
                    RequestFiles!NobodyServed, fileVars
<1> QED
  BY <1>2, <1>3 DEF ControllerFails

LEMMA ProtocolStep == [Next]_vars => [RequestFiles!Next]_(RequestFiles!handshakeVars)
<1> SUFFICES ASSUME [Next]_vars PROVE [RequestFiles!Next]_(RequestFiles!handshakeVars)
  OBVIOUS
<1>1. CASE UNCHANGED <<fileVars, controller>>
  BY <1>1 DEF RequestFiles!handshakeVars, fileVars
<1>2. CASE InboundOpened
  <2>1. UNCHANGED <<acks, controller>>
    BY <1>2 DEF InboundOpened
  <2>2. CASE UNCHANGED reqs
    BY <1>1, <2>1, <2>2 DEF fileVars
  <2>3. CASE \E f : reqs' = OtherRequests(f) \cup {[id |-> f.id, text |-> <<>>]}
    BY <2>1, <2>3, FiledOnce DEF RequestFiles!Next
  <2> QED
    BY <1>2, <2>2, <2>3 DEF InboundOpened
<1>3. CASE FillRequestFile
  <2>1. RequestFiles!File
    BY <1>3, FiledOnce DEF FillRequestFile
  <2> QED
    BY <2>1 DEF RequestFiles!Next
<1>4. CASE ControllerDone
  <2>1. cur.id \in acks /\ acks' = acks \ {cur.id} /\ UNCHANGED <<reqs, controller>>
    BY <1>4 DEF ControllerDone
  <2> QED
    BY <2>1 DEF RequestFiles!Next, RequestFiles!Collect
<1>5. CASE ServeClient \/ OutboundOpened \/ OpenFailed \/ AgentUnreachable \/ Kill
           \/ Restart \/ Agents \/ UNCHANGED vars
  BY <1>1, <1>5 DEF ServeClient, OutboundOpened, OpenFailed, AgentUnreachable, Kill,
                    Restart, Agents, vars
<1> QED
  BY <1>2, <1>3, <1>4, <1>5, ControllerKeepsProtocol, FailuresKeepProtocol DEF Next, Progress

\* The manager and the controller, restarts of both included, keep to the protocol of the request files
\* that FlowController implements from the other side.
THEOREM ProtocolUsed == Spec => UsesHandshake
<1>1. Init => RequestFiles!Init
  BY DEF Init, IdleController, RequestFiles!Init, RequestFiles!NobodyServed
<1> QED
  BY <1>1, ProtocolStep, PTL DEF Spec, UsesHandshake, RequestFiles!HandshakeSpec

=============================================================================
