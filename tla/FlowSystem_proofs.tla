--------------------------- MODULE FlowSystem_proofs ---------------------------
(* For any topology, requests, ports and number of kills and restarts.  The    *)
(* theorems about the agents alone are in AgentControl_proofs; what is needed  *)
(* of them here is stated for the agents of the system.                        *)
EXTENDS FlowSystem, NetworkManager_proofs, SequenceTheorems

----------------------------------------------------------------------------
(* The manager's side: invariants of NetworkManager alone.                 *)

\* The manager waits for the agent it chose, with the message of the flow it is
\* creating, and asks the switch controller only for a bypass.
DialInv ==
    /\ rpc.phase # "idle" <=> mpc \in {"outbound", "inbound"}
    /\ mpc = "outbound" => rpc.agent = outboundAgent /\ rpc.message = OutboundMessage(cur)
    /\ mpc = "inbound" => rpc.agent = inboundAgent /\ rpc.message = InboundMessage(cur)
    /\ mpc \in {"filing", "controller"} => cur.request.bypass

\* An agent that answers is a listed one, and so is the entry of every flow.
ReachedInv ==
    /\ rpc.phase \in {"answered", "closed"} => rpc.agent # NoHost
    /\ mpc \in {"filing", "controller"} => inboundAgent # NoHost
    /\ \A f \in granted : \E a \in ListedAgents :
           f.flow.inDst.address = a.location.address

ManagerInv == TypeInv /\ NumberInv /\ OverdraftInv /\ DialInv /\ ReachedInv

LEMMA InitManagerInv == Init => ManagerInv
BY InitTypeInv, InitNumberInv, InitOverdraftInv
DEF ManagerInv, DialInv, ReachedInv, Init, NoCall

\* A message that is not for a flow in creation leaves the call as it is.
LEMMA DialKept ==
    ASSUME DialInv, UNCHANGED <<mpc, cur, rpc, frameVars>>
    PROVE  DialInv'
BY DEF DialInv, frameVars, OutboundMessage, InboundMessage

\* A step into a place where the manager waits for no agent.
LEMMA DialOver ==
    ASSUME DialInv, rpc'.phase = "idle",
           \/ mpc' \in {"accept", "hung", "stopped", "crashed"}
           \/ mpc' \in {"filing", "controller"} /\ cur'.request.bypass
    PROVE  DialInv'
BY DEF DialInv

LEMMA DialStep == TypeInv /\ DialInv /\ [Next]_vars => DialInv'
<1> SUFFICES ASSUME TypeInv, DialInv, [Next]_vars PROVE DialInv'
  OBVIOUS
<1>0. CASE UNCHANGED vars
  BY <1>0, DialKept DEF vars
<1>1. CASE ServeClient
  <2>1. PICK msg \in ClientMessages \cup {buf} : Dispatch(msg)
    BY <1>1 DEF ServeClient
  <2>2. mpc = "accept" /\ rpc.phase = "idle"
    BY <1>1 DEF ServeClient, DialInv, TypeInv, TypeOK
  <2>3. CASE RefuseRequest(msg.registerFlow)
    BY <2>2, <2>3, DialOver DEF RefuseRequest
  <2>4. CASE BeginFlow(msg.registerFlow)
    BY <2>4 DEF BeginFlow, Calling, DialInv
  <2>5. CASE DeleteFlow(msg.flowId) \/ Terminate \/ NoEffect
    BY <2>2, <2>5, DialOver DEF DeleteFlow, Terminate, NoEffect
  <2> QED
    BY <2>1, <2>3, <2>4, <2>5 DEF Dispatch, RegisterFlow
<1>2. CASE OutboundOpened
  BY <1>2 DEF OutboundOpened, Calling, DialInv, frameVars, InboundMessage
<1>3. CASE InboundOpened
  <2>1. PICK d \in UninitInts \cup {rpc.data} :
          LET f == [cur EXCEPT !.inPort = d]
          IN  \/ CommitFlow(f)
              \/ f.request.bypass /\ cur' = f /\ mpc' = "filing"
    BY <1>3 DEF InboundOpened
  <2>2. rpc' = NoCall
    BY <1>3 DEF InboundOpened
  <2> QED
    BY <2>1, <2>2, DialOver DEF CommitFlow, NoCall
<1>4. CASE OpenFailed \/ AgentUnreachable \/ Kill \/ Restart
  BY <1>4, DialOver DEF OpenFailed, AgentUnreachable, Kill, Restart, NoCall
<1>5. CASE FillRequestFile
  BY <1>5, DialOver DEF FillRequestFile, DialInv, TypeInv, TypeOK
<1>6. CASE ControllerDone
  BY <1>6, DialOver DEF ControllerDone, CommitFlow, DialInv, TypeInv, TypeOK
<1>7. CASE Agents
  <2>1. rpc.phase = "calling" /\ rpc'.phase # "idle"
        /\ rpc'.agent = rpc.agent /\ rpc'.message = rpc.message
    BY <1>7 DEF Agents, AgentAnswers, ConnectionRefused, ConnectionClosed, CallEnds
  <2> QED
    BY <1>7, <2>1 DEF Agents, DialInv, frameVars, OutboundMessage, InboundMessage
<1>8. CASE Controller \/ ControllerFails
  BY <1>8, DialKept
  DEF Controller, ControllerFails, ControllerDies, RestartController, flowVars, historyVars
<1> QED
  BY <1>0, <1>1, <1>2, <1>3, <1>4, <1>5, <1>6, <1>7, <1>8 DEF Next, Progress

LEMMA FlowCommittedReached ==
    ASSUME TypeInv, ReachedInv, NEW f, CommitFlow(f), inboundAgent # NoHost,
           rpc'.phase = "idle"
    PROVE  ReachedInv'
<1>1. mpc' \in {"accept", "hung"} /\ granted' \in {granted, granted \cup {Grant(f)}}
  BY DEF CommitFlow, flowVars
<1>2. inboundAgent \in ListedAgents
  BY DEF TypeInv, TypeOK
<1>3. Grant(f).flow.inDst.address = inboundAgent.location.address
  BY DEF Grant, StoredFlow
<1> QED
  BY <1>1, <1>2, <1>3 DEF ReachedInv

LEMMA ReachedStep == TypeInv /\ DialInv /\ ReachedInv /\ [Next]_vars => ReachedInv'
<1> SUFFICES ASSUME TypeInv, DialInv, ReachedInv, [Next]_vars PROVE ReachedInv'
  OBVIOUS
<1>a. ASSUME rpc'.phase \in {"idle", "calling"},
             mpc' \in {"filing", "controller"} => inboundAgent' # NoHost,
             granted' \in {granted, {}}
      PROVE  ReachedInv'
  BY <1>a DEF ReachedInv
<1>b. CASE UNCHANGED <<rpc, mpc, inboundAgent, granted>>
  BY <1>b DEF ReachedInv
<1>1. CASE UNCHANGED vars
  BY <1>1, <1>b DEF vars, flowVars, frameVars
<1>2. CASE ServeClient
  <2>1. PICK msg \in ClientMessages \cup {buf} : Dispatch(msg)
    BY <1>2 DEF ServeClient
  <2>2. mpc = "accept" /\ rpc.phase = "idle"
    BY <1>2 DEF ServeClient, DialInv, TypeInv, TypeOK
  <2>3. CASE BeginFlow(msg.registerFlow)
    BY <1>a, <2>3 DEF BeginFlow, Calling
  <2>4. CASE RefuseRequest(msg.registerFlow) \/ DeleteFlow(msg.flowId) \/ Terminate \/ NoEffect
    BY <1>a, <2>2, <2>4 DEF RefuseRequest, DeleteFlow, Terminate, NoEffect, flowVars
  <2> QED
    BY <2>1, <2>3, <2>4 DEF Dispatch, RegisterFlow
<1>3. CASE InboundOpened
  <2>1. PICK d, f : Acked(d) /\ (CommitFlow(f) \/ (mpc' = "filing" /\ UNCHANGED flowVars))
    BY <1>3 DEF InboundOpened
  <2>2. rpc' = NoCall /\ inboundAgent' = inboundAgent /\ inboundAgent # NoHost
    BY <1>3, <2>1 DEF InboundOpened, frameVars, Acked, DialInv, ReachedInv
  <2> QED
    BY <1>a, <2>1, <2>2, FlowCommittedReached DEF NoCall, flowVars
<1>4. CASE ControllerDone
  BY <1>4, FlowCommittedReached DEF ControllerDone, DialInv, ReachedInv, TypeInv, TypeOK
<1>5. CASE OutboundOpened \/ OpenFailed \/ AgentUnreachable \/ Kill \/ Restart
  BY <1>5, <1>a
  DEF OutboundOpened, OpenFailed, AgentUnreachable, Kill, Restart, NoCall, Calling, flowVars
<1>6. CASE FillRequestFile
  BY <1>6 DEF FillRequestFile, ReachedInv, flowVars, frameVars
<1>7. CASE Agents
  BY <1>7
  DEF Agents, AgentAnswers, ConnectionRefused, ConnectionClosed, CallEnds, ReachedInv,
      flowVars, frameVars
<1>8. CASE Controller \/ ControllerFails
  BY <1>8, <1>b
  DEF Controller, ControllerFails, ControllerDies, RestartController, flowVars, frameVars
<1> QED
  BY <1>1, <1>2, <1>3, <1>4, <1>5, <1>6, <1>7, <1>8 DEF Next, Progress

LEMMA ManagerStepInv == ManagerInv /\ [Next]_vars => ManagerInv'
BY TypeStep, NumberStep, OverdraftStep, DialStep, ReachedStep DEF ManagerInv

----------------------------------------------------------------------------
(* The agents' side.                                                       *)

List(s) == s \in Seq({s[i] : i \in DOMAIN s})

Service(message, caller) == [message |-> message, caller |-> caller]

Interface(kind, target, overlay, p, state) ==
    [kind |-> kind, target |-> target, overlay |-> overlay, port |-> p, state |-> state]

IsInterface(t) == t = Interface(t.kind, t.target, t.overlay, t.port, t.state)

NoneFails(h) == \A i \in DOMAIN threads[h] : threads[h][i].state # "failing"

HostShape(h) ==
    /\ List(threads[h])
    /\ \A i \in DOMAIN threads[h] : IsInterface(threads[h][i])
    /\ errors = 0 => NoneFails(h)
    /\ currentPort[h] \in Nat /\ currentPort[h] >= FirstBypassPort
    /\ \/ serving[h] = A!NoService
       \/ serving[h] = Service(serving[h].message, serving[h].caller)

Shape ==
    /\ DOMAIN agentPc = Hosts /\ DOMAIN serving = Hosts /\ DOMAIN done = Hosts
    /\ DOMAIN currentPort = Hosts /\ DOMAIN threads = Hosts /\ DOMAIN frame = Hosts
    /\ \A h \in Hosts : HostShape(h)
    /\ direct \in Nat /\ kills \in Nat /\ errors \in 0 .. MaxErrors

\* Every thread but the one the control thread waits for has an open interface.
OthersServe(h) ==
    \A i \in DOMAIN threads[h] :
        threads[h][i].state # "serving" => agentPc[h] = "creating" /\ i = Len(threads[h])

\* The thread the control thread waits for is its message's, and `done' its port.
NewestWorks(h) ==
    agentPc[h] = "creating" =>
        LET t   == threads[h][Len(threads[h])]
            msg == serving[h].message
        IN  /\ threads[h] # <<>>
            /\ t.kind = A!Kind(msg) /\ t.target = msg.target /\ frame[h] = msg.target
            /\ t.overlay = msg.overlay
            /\ ~msg.bypass => t.port = msg.flowPort
            /\ done[h] # 0 => t.state = "serving" /\ t.port = done[h]
            /\ done[h] # 0 /\ msg.bypass => done[h] \in Nat /\ done[h] >= FirstBypassPort

Serial == \A h \in Hosts : OthersServe(h) /\ NewestWorks(h)

\* An agent that works for the manager works for the call the manager waits in.
CallersWait ==
    \A h \in Hosts : Accepted(h) =>
        /\ Awaited(h) /\ serving[h].message = rpc.message
        /\ agentPc[h] \in {"creating", "hung"}

SystemInv == errors = 0 => ManagerInv /\ Serial /\ CallersWait

LEMMA InterfaceFields ==
    ASSUME NEW kind, NEW target, NEW overlay, NEW p, NEW state
    PROVE  LET t == Interface(kind, target, overlay, p, state)
           IN  /\ t.kind = kind /\ t.target = target /\ t.overlay = overlay
               /\ t.port = p /\ t.state = state /\ IsInterface(t)
BY DEF Interface, IsInterface

Reopened(t, q, target, state) ==
    [t EXCEPT !.port = q, !.target = target, !.state = state]

LEMMA InterfaceReopened ==
    ASSUME NEW t, IsInterface(t), NEW q, NEW target, NEW state
    PROVE  Reopened(t, q, target, state) = Interface(t.kind, target, t.overlay, q, state)
<1> DEFINE one == [t EXCEPT !.port = q]
           two == [one EXCEPT !.target = target]
<1>1. one = Interface(t.kind, t.target, t.overlay, q, t.state)
  BY DEF IsInterface, Interface
<1> HIDE DEF one
<1>2. two = Interface(t.kind, target, t.overlay, q, t.state)
  BY <1>1 DEF Interface
<1> HIDE DEF two
<1>3. [two EXCEPT !.state = state] = Interface(t.kind, target, t.overlay, q, state)
  BY <1>2 DEF Interface
<1>4. Reopened(t, q, target, state) = [two EXCEPT !.state = state]
  BY DEF one, two, Reopened
<1> QED
  BY <1>3, <1>4

LEMMA InitSystemInv == SystemInit => Shape /\ SystemInv
<1> SUFFICES ASSUME SystemInit PROVE Shape /\ SystemInv
  OBVIOUS
<1>1. Init /\ A!Init
  BY DEF SystemInit
<1>2. \A h \in Hosts : threads[h] = <<>> /\ agentPc[h] = "accept"
                      /\ serving[h] = A!NoService /\ currentPort[h] = FirstBypassPort
  BY <1>1 DEF A!Init
<1>3. List(<<>>)
  BY DEF List
<1>4. Shape
  BY <1>1, <1>2, <1>3, AgentParameters DEF Shape, HostShape, NoneFails, A!Init
<1>5. Serial /\ CallersWait
  BY <1>2 DEF Serial, OthersServe, NewestWorks, CallersWait, Accepted, A!NoService
<1> QED
  BY <1>1, <1>4, <1>5, InitManagerInv DEF SystemInv

----------------------------------------------------------------------------
(* What a step does to an agent: six ways, told host by host.              *)

SameHost(g) ==
    /\ agentPc'[g] = agentPc[g] /\ serving'[g] = serving[g] /\ done'[g] = done[g]
    /\ currentPort'[g] = currentPort[g] /\ threads'[g] = threads[g]
    /\ frame'[g] = frame[g]

OnlyHost(h) ==
    /\ DOMAIN agentPc' = Hosts /\ DOMAIN serving' = Hosts /\ DOMAIN done' = Hosts
    /\ DOMAIN currentPort' = Hosts /\ DOMAIN threads' = Hosts /\ DOMAIN frame' = Hosts
    /\ \A g \in Hosts \ {h} : SameHost(g)

\* The process ends, or begins.
Renewed(h, p) ==
    /\ OnlyHost(h)
    /\ agentPc'[h] = p /\ serving'[h] = A!NoService /\ done'[h] = 0
    /\ currentPort'[h] = FirstBypassPort /\ threads'[h] = <<>>
    /\ p = "accept" => ~AgentUp(h)

\* The control thread starts a thread for a message.
Added(h, msg, caller) ==
    /\ OnlyHost(h)
    /\ agentPc[h] = "accept" /\ agentPc'[h] = "creating"
    /\ serving'[h] = Service(msg, caller) /\ done'[h] = 0
    /\ currentPort'[h] = currentPort[h] /\ frame'[h] = msg.target
    /\ threads'[h] = Append(threads[h], A!NewThread(msg))

\* The control thread is done with a message, or hangs in its map.
Turned(h) ==
    /\ OnlyHost(h)
    /\ done'[h] = done[h] /\ currentPort'[h] = currentPort[h]
    /\ threads'[h] = threads[h] /\ frame'[h] = frame[h]
    /\ agentPc[h] = "creating" => done[h] # 0
    /\ \/ serving'[h] = A!NoService /\ agentPc[h] = "creating" /\ agentPc'[h] = "accept"
       \/ /\ serving'[h] = serving[h] /\ agentPc[h] \in {"accept", "creating"}
          /\ agentPc'[h] \in {agentPc[h], "hung"} \ {"creating"}

\* A thread steps: the control thread is where it was.
Stepped(h, i, t) ==
    /\ OnlyHost(h)
    /\ agentPc'[h] = agentPc[h] /\ serving'[h] = serving[h] /\ frame'[h] = frame[h]
    /\ agentPc[h] \notin {"stopped", "crashed"}
    /\ i \in DOMAIN threads[h] /\ threads[h][i].state = "starting"
    /\ threads'[h] = [threads[h] EXCEPT ![i] = t]

\* A thread that starts has its interface open, and signals its port.
Opens(h, i, t) ==
    /\ Stepped(h, i, t)
    /\ IsInterface(t) /\ t.state = "serving"
    /\ t.kind = threads[h][i].kind /\ t.overlay = threads[h][i].overlay
    /\ t.kind # "bypass" => /\ t.port = threads[h][i].port
                            /\ t.target = threads[h][i].target
    /\ t.kind = "inbound" => ~A!UdpBusy(h, t.port)
    /\ t.kind = "outbound" => ~A!SpinesBusy(t.overlay, t.port)
    /\ t.kind = "bypass" => /\ t.port = currentPort[h]
                            /\ t.target \in {threads[h][i].target, frame[h]}
    /\ t.kind \in {"inbound", "outbound", "bypass"}
    /\ done'[h] = t.port
    /\ currentPort'[h] \in {currentPort[h], currentPort[h] + 1}

\* An outbound thread is over before it has signalled.
Fails(h, i, t) ==
    /\ Stepped(h, i, t)
    /\ IsInterface(t) /\ t.state = "ended"
    /\ t.kind = threads[h][i].kind /\ t.overlay = threads[h][i].overlay
    /\ t.target = threads[h][i].target /\ t.port = threads[h][i].port
    /\ done'[h] = done[h] /\ currentPort'[h] = currentPort[h]

\* A socket fails, or works again.
Breaks(h) ==
    /\ errors' # 0
    /\ OnlyHost(h)
    /\ agentPc'[h] = agentPc[h] /\ serving'[h] = serving[h]
    /\ currentPort'[h] \in {currentPort[h], currentPort[h] + 1}
    /\ \E i \in DOMAIN threads[h] : \E t :
        IsInterface(t) /\ threads'[h] = [threads[h] EXCEPT ![i] = t]

\* The next port is taken.
Skips(h) ==
    /\ OnlyHost(h)
    /\ agentPc'[h] = agentPc[h] /\ serving'[h] = serving[h] /\ frame'[h] = frame[h]
    /\ threads'[h] = threads[h] /\ done'[h] = done[h]
    /\ currentPort'[h] = currentPort[h] + 1

----------------------------------------------------------------------------
(* The paths of flows.                                                     *)

NodeLocations == {OverlayList[n].location : n \in Nodes}

\* What an agent is sent by a manager.
Addition(msg) == msg.type \in A!AddTypes /\ msg.overlay \in NodeLocations

\* While only the manager connects, every thread is one of its messages'.
ManagersThreads ==
    /\ \A o \in orphans : Addition(o.message)
    /\ direct = 0 => \A h \in Hosts : \A i \in DOMAIN threads[h] :
           threads[h][i].overlay \in NodeLocations

\* Two open interfaces of one kind do not share a port.
Exclusive ==
    /\ \A h \in Hosts : \A i, j \in A!ServingThreads(h) :
        /\ threads[h][i].kind = "inbound" /\ threads[h][j].kind = "inbound"
        /\ A!Port16(threads[h][i].port) = A!Port16(threads[h][j].port)
        /\ A!Port16(threads[h][i].port) # 0
        => i = j
    /\ \A g, h \in Hosts : \A i \in A!ServingThreads(g), j \in A!ServingThreads(h) :
        /\ threads[g][i].kind = "outbound" /\ threads[h][j].kind = "outbound"
        /\ threads[g][i].overlay = threads[h][j].overlay
        /\ A!Port16(threads[g][i].port) = A!Port16(threads[h][j].port)
        => g = h /\ i = j

\* No process of an agent has ended.
Quiet == errors = 0 /\ kills = 0 /\ direct = 0

\* An interface is open at host h.
Open(h, kind, target, overlay, p) ==
    /\ h \in Hosts
    /\ \E i \in DOMAIN threads[h] :
        LET t == threads[h][i]
        IN  /\ t.state = "serving" /\ t.kind = kind /\ t.target = target
            /\ t.overlay = overlay /\ t.port = p

OutboundOpen(h, f, p) ==
    Open(h, "outbound", f.request.dst, OverlayList[f.exit].location, p)

InboundOpen(h, f, p) ==
    Open(h, "inbound", [address |-> OverlayList[f.exit].location.address, port |-> p],
         OverlayList[f.entry].location, p)

\* Both ends of a flow are open: of one that is acknowledged, and as far as it is
\* built, of one that is being created.
GrantWired(f) ==
    /\ f.flow.inDst.port = f.port
    /\ f.entry \in Nodes /\ f.exit \in Nodes /\ OverlayPort(f.entry) = OverlayPort(f.exit)
    /\ OutboundOpen(f.flow.outDst.address, f, f.port)
    /\ InboundOpen(f.flow.inDst.address, f, f.port)

OutboundWired ==
    ~cur.request.bypass => OutboundOpen(outboundAgent.location.address, cur, cur.newPort)

InboundWired ==
    ~cur.request.bypass =>
        /\ rpc.data = cur.newPort
        /\ InboundOpen(inboundAgent.location.address, cur, cur.newPort)

PathsWired ==
    /\ rpc.phase # "closed"
    /\ \A f \in granted : ~f.request.bypass => GrantWired(f)
    /\ mpc = "outbound" /\ rpc.phase = "answered" => OutboundWired
    /\ mpc = "inbound" => OutboundWired
    /\ mpc = "inbound" /\ rpc.phase = "answered" => InboundWired

WiredInv == Quiet => PathsWired /\ \A h \in Hosts : AgentUp(h)

\* The ports of the flows this manager has acknowledged or is creating.
End(f, p) == [port |-> p, exit |-> f.exit, dst |-> f.request.dst]

KnownEnds ==
    {End(f, f.port) : f \in granted} \cup
        IF cur = NoFlow THEN {} ELSE {End(cur, cur.newPort)}

\* A thread at the port of a flow is a thread of that flow.
Fits(t) ==
    t.kind # "bypass" =>
        /\ t.port \in portHash
        /\ \A k \in KnownEnds : t.port = k.port =>
            t.target = IF t.kind = "inbound"
                       THEN [address |-> OverlayList[k.exit].location.address,
                             port |-> k.port]
                       ELSE k.dst

OwnPorts ==
    errors = 0 /\ direct = 0 /\ restarts = 0 =>
        /\ \A o \in orphans : Fits(A!NewThread(o.message))
        /\ \A h \in Hosts : \A i \in DOMAIN threads[h] : Fits(threads[h][i])

----------------------------------------------------------------------------

LEMMA FreshIsRenewed ==
    ASSUME Shape, NEW h \in Hosts, NEW p, A!FreshAgent(h),
           agentPc' = [agentPc EXCEPT ![h] = p], p = "accept" => ~AgentUp(h)
    PROVE  Renewed(h, p)
BY DEF Shape, A!FreshAgent, Renewed, OnlyHost, SameHost

LEMMA ReceiveIs ==
    ASSUME Shape, NEW h \in Hosts, NEW msg, NEW caller, A!Receive(h, msg, caller)
    PROVE  agentPc[h] = "accept" /\ (Added(h, msg, caller) \/ Turned(h))
<1>0. agentPc[h] = "accept"
  BY DEF A!Receive
<1>1. CASE A!AddRouting(h, msg, caller)
  BY <1>0, <1>1
  DEF Shape, A!AddRouting, A!create_interface, Added, OnlyHost, SameHost, Service
<1>2. CASE A!RemoveRouting(h, msg.flowId)
  BY <1>0, <1>2 DEF Shape, A!RemoveRouting, A!dataVars, Turned, OnlyHost, SameHost
<1>3. CASE A!PrintRoutings(h) \/ UNCHANGED <<agentPc, serving, A!dataVars>>
  BY <1>0, <1>3 DEF Shape, A!PrintRoutings, A!dataVars, Turned, OnlyHost, SameHost
<1> QED
  BY <1>0, <1>1, <1>2, <1>3 DEF A!Receive

LEMMA AnswerIs ==
    ASSUME Shape, NEW h \in Hosts, A!AnswerCaller(h) \/ A!HangInAdd(h)
    PROVE  Turned(h)
BY DEF Shape, A!AnswerCaller, A!HangInAdd, A!dataVars, Turned, OnlyHost, SameHost

\* A thread that runs opens its interface, fails, tries the next port or ends the
\* process, because its message names no overlay node.
ThreadOutcome(h) ==
    \/ UNCHANGED errors /\ \E i, t : Opens(h, i, t) \/ Fails(h, i, t)
    \/ UNCHANGED errors /\ Skips(h)
    \/ errors < MaxErrors /\ errors' = errors + 1 /\ Breaks(h)
    \/ /\ UNCHANGED errors /\ Renewed(h, "crashed")
       /\ \E i \in DOMAIN threads[h] : ~A!HasOverlay(threads[h][i])

LEMMA OpenedIs ==
    ASSUME Shape, NEW h \in Hosts, NEW i \in DOMAIN threads[h], NEW kind, NEW p, NEW target,
           A!Starting(h, i, kind), A!Opened(h, i, p, target), UNCHANGED <<A!controlVars, frame>>,
           currentPort' \in {currentPort, [currentPort EXCEPT ![h] = @ + 1]},
           \/ /\ kind = "inbound" /\ ~A!UdpBusy(h, p)
              /\ p = threads[h][i].port /\ target = threads[h][i].target
           \/ /\ kind = "outbound" /\ ~A!SpinesBusy(threads[h][i].overlay, p)
              /\ p = threads[h][i].port /\ target = threads[h][i].target
           \/ /\ kind = "bypass" /\ p = currentPort[h] /\ ~A!UdpBusy(h, p)
              /\ target \in {threads[h][i].target, frame[h]}
    PROVE  \E t : Opens(h, i, t)
<1>0. PICK u : u = threads[h][i]
  OBVIOUS
<1> DEFINE t == Interface(u.kind, target, u.overlay, p, "serving")
<1>1. IsInterface(u)
  BY <1>0 DEF Shape, HostShape
<1>2. Reopened(u, p, target, "serving") = t
  BY <1>1, InterfaceReopened
<1>3. /\ t.kind = u.kind /\ t.overlay = u.overlay /\ t.port = p /\ t.target = target
      /\ t.state = "serving" /\ IsInterface(t)
  BY InterfaceFields
<1>4. /\ u.kind = kind /\ u.state = "starting" /\ agentPc[h] \notin {"stopped", "crashed"}
      /\ threads' = [threads EXCEPT ![h][i] = t] /\ done' = [done EXCEPT ![h] = p]
  BY <1>0, <1>2 DEF A!Starting, A!Opened, Reopened
<1> HIDE DEF t
<1>5. /\ OnlyHost(h) /\ done'[h] = p /\ threads'[h] = [threads[h] EXCEPT ![i] = t]
      /\ currentPort'[h] \in {currentPort[h], currentPort[h] + 1}
      /\ agentPc'[h] = agentPc[h] /\ serving'[h] = serving[h] /\ frame'[h] = frame[h]
  BY <1>4 DEF Shape, OnlyHost, SameHost, A!controlVars
<1> QED
  BY <1>0, <1>3, <1>4, <1>5 DEF Opens, Stepped

LEMMA FailedIs ==
    ASSUME Shape, NEW h \in Hosts, NEW i \in DOMAIN threads[h],
           threads[h][i].state = "starting", agentPc[h] \notin {"stopped", "crashed"},
           threads' = [threads EXCEPT ![h][i].state = "ended"],
           UNCHANGED <<A!controlVars, done, currentPort, frame>>
    PROVE  \E t : Fails(h, i, t)
<1> DEFINE u == threads[h][i]
           t == Interface(u.kind, u.target, u.overlay, u.port, "ended")
<1>1. u = Interface(u.kind, u.target, u.overlay, u.port, u.state)
  BY DEF Shape, HostShape, IsInterface
<1>2. [u EXCEPT !.state = "ended"] = t
  BY <1>1 DEF Interface
<1>3. /\ t.kind = u.kind /\ t.overlay = u.overlay /\ t.port = u.port
      /\ t.target = u.target /\ t.state = "ended" /\ IsInterface(t)
  BY InterfaceFields
<1>4. threads' = [threads EXCEPT ![h][i] = t]
  BY <1>2
<1> HIDE DEF t
<1>5. /\ OnlyHost(h) /\ done'[h] = done[h] /\ currentPort'[h] = currentPort[h]
      /\ threads'[h] = [threads[h] EXCEPT ![i] = t]
      /\ agentPc'[h] = agentPc[h] /\ serving'[h] = serving[h] /\ frame'[h] = frame[h]
  BY <1>4 DEF Shape, OnlyHost, SameHost, A!controlVars
<1> QED
  BY <1>3, <1>5 DEF Fails, Stepped

LEMMA BrokenIs ==
    ASSUME Shape, NEW h \in Hosts, NEW i \in DOMAIN threads[h], NEW next,
           errors' = errors + 1 \/ (errors' = errors /\ threads[h][i].state = "failing"),
           threads' = [threads EXCEPT ![h][i].state = next],
           currentPort' \in {currentPort, [currentPort EXCEPT ![h] = @ + 1]},
           UNCHANGED <<A!controlVars, done, frame>>
    PROVE  Breaks(h)
<1> DEFINE u == threads[h][i]
           t == Interface(u.kind, u.target, u.overlay, u.port, next)
<1>1. u = Interface(u.kind, u.target, u.overlay, u.port, u.state)
  BY DEF Shape, HostShape, IsInterface
<1>2. [u EXCEPT !.state = next] = t
  BY <1>1 DEF Interface
<1>3. IsInterface(t)
  BY InterfaceFields
<1>4. threads' = [threads EXCEPT ![h][i] = t]
  BY <1>2
<1> HIDE DEF t
<1>5. /\ OnlyHost(h) /\ threads'[h] = [threads[h] EXCEPT ![i] = t]
      /\ currentPort'[h] \in {currentPort[h], currentPort[h] + 1}
  BY <1>4 DEF Shape, OnlyHost, SameHost, A!controlVars
<1>6. errors' # 0
  BY DEF Shape, HostShape, NoneFails
<1> QED
  BY <1>3, <1>5, <1>6 DEF Breaks, A!controlVars

LEMMA ThreadIs ==
    ASSUME Shape, NEW h \in Hosts, A!StartThread(h)
    PROVE  UNCHANGED <<direct, kills>> /\ ThreadOutcome(h)
<1>1. PICK i \in DOMAIN threads[h] :
        \/ A!StartInbound(h, i)
        \/ A!StartOutbound(h, i)
        \/ A!OutboundFails(h, i)
        \/ A!StartBypass(h, i)
        \/ A!CrashInThread(h, i)
  BY DEF A!StartThread
<1>2. CASE A!StartInbound(h, i)
  <2>1. \E t : Opens(h, i, t)
    BY <1>2, OpenedIs DEF A!StartInbound, A!controlVars
  <2> QED
    BY <1>2, <2>1 DEF A!StartInbound, A!boundVars, ThreadOutcome
<1>3. CASE A!StartOutbound(h, i)
  <2>1. \E t : Opens(h, i, t)
    BY <1>3, OpenedIs DEF A!StartOutbound, A!controlVars
  <2> QED
    BY <1>3, <2>1 DEF A!StartOutbound, A!boundVars, ThreadOutcome
<1>4. CASE A!OutboundFails(h, i)
  <2>1. /\ threads[h][i].state = "starting" /\ agentPc[h] \notin {"stopped", "crashed"}
        /\ threads' = [threads EXCEPT ![h][i].state = "ended"]
        /\ UNCHANGED <<A!controlVars, done, currentPort, frame, direct, kills>>
        /\ \/ UNCHANGED errors
           \/ errors < MaxErrors /\ errors' = errors + 1
    BY <1>4 DEF A!OutboundFails, A!Starting
  <2> QED
    BY <2>1, FailedIs, BrokenIs DEF ThreadOutcome
<1>5. CASE A!StartBypass(h, i)
  <2>1. /\ A!Starting(h, i, "bypass") /\ UNCHANGED <<A!controlVars, frame>>
        /\ currentPort' = [currentPort EXCEPT ![h] = @ + 1]
        /\ UNCHANGED <<errors, direct, kills>>
    BY <1>5 DEF A!StartBypass, A!getNextPort, A!boundVars
  <2>2. CASE UNCHANGED <<threads, done>>
    BY <2>1, <2>2 DEF Shape, Skips, OnlyHost, SameHost, A!controlVars, ThreadOutcome
  <2>3. ASSUME NEW target \in {threads[h][i].target, frame[h]},
               ~A!UdpBusy(h, currentPort[h]), A!Opened(h, i, currentPort[h], target)
        PROVE  \E t : Opens(h, i, t)
    BY <2>1, <2>3, OpenedIs
  <2> QED
    BY <1>5, <2>1, <2>2, <2>3 DEF A!StartBypass, ThreadOutcome
<1>6. CASE A!CrashInThread(h, i)
  BY <1>6, FreshIsRenewed DEF A!CrashInThread, A!boundVars, ThreadOutcome
<1> QED
  BY <1>1, <1>2, <1>3, <1>4, <1>5, <1>6

----------------------------------------------------------------------------
(* Lists of threads.                                                       *)

LEMMA ListFacts ==
    ASSUME NEW s, List(s)
    PROVE  /\ Len(s) \in Nat /\ DOMAIN s = 1 .. Len(s)
           /\ s # <<>> => Len(s) \in DOMAIN s
<1> DEFINE S == {s[i] : i \in DOMAIN s}
<1>1. s \in Seq(S)
  BY DEF List
<1> HIDE DEF S
<1> QED
  BY <1>1

LEMMA SeqIsList == ASSUME NEW T, NEW s \in Seq(T) PROVE List(s)
<1>1. DOMAIN s = 1 .. Len(s) /\ s \in [1 .. Len(s) -> T] /\ Len(s) \in Nat
  BY LenProperties
<1> QED
  BY <1>1, SeqDef DEF List

LEMMA ListAppended ==
    ASSUME NEW s, List(s), NEW e
    PROVE  LET r == Append(s, e) IN
           /\ List(r) /\ Len(r) = Len(s) + 1 /\ DOMAIN r = DOMAIN s \cup {Len(r)}
           /\ \A i \in DOMAIN s : r[i] = s[i] /\ i # Len(r)
           /\ r[Len(r)] = e /\ r # <<>>
<1> DEFINE r == Append(s, e)
           S == {s[i] : i \in DOMAIN s}
           T == S \cup {e}
<1>1. s \in Seq(S) /\ S \subseteq T /\ e \in T
  BY DEF List
<1> HIDE DEF S, T
<1>2. s \in Seq(T)
  BY <1>1, SeqMonotonic
<1>3. /\ r \in Seq(T) /\ r # <<>> /\ Len(r) = Len(s) + 1
      /\ \A i \in 1 .. Len(s) : r[i] = s[i]
      /\ r[Len(s) + 1] = e
  BY <1>1, <1>2, AppendProperties
<1>4. Len(s) \in Nat /\ DOMAIN s = 1 .. Len(s)
  BY <1>2, LenProperties
<1>5. DOMAIN r = 1 .. Len(r) /\ r \in [1 .. Len(r) -> T] /\ Len(r) \in Nat
  BY <1>3, LenProperties
<1>6. List(r)
  BY <1>3, SeqIsList
<1> QED
  BY <1>3, <1>4, <1>5, <1>6

LEMMA ListReplaced ==
    ASSUME NEW s, List(s), NEW i \in DOMAIN s, NEW e, NEW r, r = [s EXCEPT ![i] = e]
    PROVE  /\ List(r) /\ Len(r) = Len(s) /\ DOMAIN r = DOMAIN s
           /\ \A j \in DOMAIN s : r[j] = IF j = i THEN e ELSE s[j]
           /\ r # <<>> /\ s # <<>>
<1> DEFINE S == {s[j] : j \in DOMAIN s}
           T == S \cup {e}
<1>1. s \in Seq(S) /\ S \subseteq T /\ e \in T
  BY DEF List
<1> HIDE DEF S, T
<1>2. s \in Seq(T)
  BY <1>1, SeqMonotonic
<1>3. Len(s) \in Nat /\ DOMAIN s = 1 .. Len(s)
  BY <1>2, LenProperties
<1>4. r \in Seq(T) /\ Len(r) = Len(s)
  BY <1>1, <1>2, <1>3, ExceptSeq
<1>5. DOMAIN r = 1 .. Len(r) /\ r \in [1 .. Len(r) -> T]
  BY <1>4, LenProperties
<1>6. List(r)
  BY <1>4, SeqIsList
<1>7. r # <<>> /\ s # <<>>
  BY <1>3, <1>4, EmptySeq
<1> QED
  BY <1>3, <1>4, <1>6, <1>7

----------------------------------------------------------------------------
(* Every step of an agent is one of the six.                               *)

Moves(h) ==
    \/ \E p \in {"accept", "stopped", "crashed"} : Renewed(h, p)
    \/ \E msg, caller : Added(h, msg, caller)
    \/ Turned(h)
    \/ \E i, t : Opens(h, i, t) \/ Fails(h, i, t)
    \/ Skips(h)
    \/ Breaks(h)

CountersKept ==
    /\ direct' \in {direct, direct + 1} /\ kills' \in {kills, kills + 1}
    /\ errors' \in {errors, errors + 1} /\ errors' \in 0 .. MaxErrors

LEMMA ShapeElsewhere ==
    ASSUME NEW g \in Hosts, HostShape(g), SameHost(g), errors' = 0 => errors = 0
    PROVE  HostShape(g)'
BY DEF HostShape, NoneFails, SameHost

LEMMA ShapeMoves ==
    ASSUME Shape, NEW h \in Hosts, Moves(h), CountersKept
    PROVE  Shape'
<1>0. HostShape(h) /\ (errors' = 0 => errors = 0 /\ NoneFails(h))
  BY DEF Shape, HostShape, CountersKept
<1>a. SUFFICES OnlyHost(h) /\ HostShape(h)'
  BY <1>0, ShapeElsewhere DEF Shape, OnlyHost, CountersKept
<1>b. ASSUME NEW i \in DOMAIN threads[h], NEW t, IsInterface(t),
             threads'[h] = [threads[h] EXCEPT ![i] = t],
             serving'[h] = serving[h],
             currentPort'[h] \in {currentPort[h], currentPort[h] + 1},
             t.state # "failing" \/ errors' # 0
      PROVE  HostShape(h)'
  <2>1. /\ List(threads'[h])
        /\ \A j \in DOMAIN threads'[h] :
              j \in DOMAIN threads[h] /\ threads'[h][j] \in {t, threads[h][j]}
    <3>1. List(threads[h])
      BY <1>0 DEF HostShape
    <3> QED
      BY <1>b, <3>1, ListReplaced
  <2>2. errors' = 0 => NoneFails(h)'
    BY <1>0, <1>b, <2>1 DEF NoneFails
  <2> QED
    BY <1>0, <1>b, <2>1, <2>2, AgentParameters DEF HostShape
<1>1. CASE \E p \in {"accept", "stopped", "crashed"} : Renewed(h, p)
  BY <1>1, AgentParameters DEF Renewed, HostShape, NoneFails, List
<1>2. CASE \E msg, caller : Added(h, msg, caller)
  <2>1. PICK msg, caller : Added(h, msg, caller)
    BY <1>2
  <2>2. IsInterface(A!NewThread(msg)) /\ A!NewThread(msg).state # "failing"
    BY DEF IsInterface, Interface, A!NewThread
  <2>3. /\ List(threads'[h])
        /\ \A i \in DOMAIN threads'[h] : IsInterface(threads'[h][i])
        /\ errors' = 0 => NoneFails(h)'
    <3>1. PICK s, r, e : /\ s = threads[h] /\ r = threads'[h] /\ e = A!NewThread(msg)
                         /\ List(s) /\ r = Append(s, e)
      BY <1>0, <2>1 DEF Added, HostShape
    <3>2. /\ List(r) /\ DOMAIN r = DOMAIN s \cup {Len(r)}
          /\ \A i \in DOMAIN s : r[i] = s[i]
          /\ r[Len(r)] = e
      BY <3>1, ListAppended
    <3> QED
      BY <1>0, <2>2, <3>1, <3>2 DEF HostShape, NoneFails
  <2>4. serving'[h] = Service(serving'[h].message, serving'[h].caller)
    BY <2>1 DEF Added, Service
  <2> QED
    BY <1>0, <2>1, <2>3, <2>4 DEF Added, HostShape
<1>3. CASE Turned(h)
  BY <1>0, <1>3 DEF Turned, HostShape, NoneFails
<1>4. CASE \E i, t : Opens(h, i, t) \/ Fails(h, i, t)
  BY <1>4, <1>b DEF Opens, Fails, Stepped
<1>5. CASE Skips(h)
  BY <1>0, <1>5, AgentParameters DEF Skips, HostShape, NoneFails
<1>6. CASE Breaks(h)
  BY <1>6, <1>b DEF Breaks
<1> QED
  BY <1>1, <1>2, <1>3, <1>4, <1>5, <1>6 DEF Moves

LEMMA AgentMoves ==
    ASSUME Shape, NEW h \in Hosts, AgentStep(h) \/ AgentEnds(h)
    PROVE  Moves(h) /\ CountersKept
<1>0. /\ direct \in Nat /\ kills \in Nat /\ errors \in 0 .. MaxErrors
      /\ MaxErrors \in Nat
  BY AgentParameters DEF Shape
<1>1. CASE \E msg, caller : A!Receive(h, msg, caller) /\ UNCHANGED <<errors, kills>>
                            /\ direct' \in {direct, direct + 1}
  BY <1>0, <1>1, ReceiveIs DEF Moves, CountersKept
<1>2. CASE A!AnswerCaller(h) \/ A!HangInAdd(h)
  BY <1>0, <1>2, AnswerIs
  DEF Moves, CountersKept, A!AnswerCaller, A!HangInAdd, A!boundVars
<1>3. CASE A!StartThread(h)
  BY <1>0, <1>3, ThreadIs DEF Moves, CountersKept, ThreadOutcome
<1>4. CASE A!ReceiveError(h) \/ A!SpinesDisconnects(h)
  <2>1. Breaks(h)
    BY <1>4, BrokenIs DEF A!ReceiveError, A!SpinesDisconnects, A!ServingThreads
  <2> QED
    BY <1>0, <1>4, <2>1 DEF Moves, CountersKept, A!ReceiveError, A!SpinesDisconnects
<1>5. CASE A!AcceptDirect(h)
  <2>1. CASE A!TerminateAgent(h)
    <3>1. Renewed(h, "stopped")
      BY <2>1, FreshIsRenewed DEF A!TerminateAgent
    <3> QED
      BY <1>0, <1>5, <3>1 DEF A!AcceptDirect, Moves, CountersKept
  <2> QED
    BY <1>5, <2>1, <1>1 DEF A!AcceptDirect
<1>6. CASE A!KillAgent(h)
  <2>1. Renewed(h, "crashed")
    BY <1>6, FreshIsRenewed DEF A!KillAgent
  <2> QED
    BY <1>0, <1>6, <2>1 DEF A!KillAgent, Moves, CountersKept
<1>7. CASE A!RestartAgent(h)
  BY <1>0, <1>7, FreshIsRenewed DEF A!RestartAgent, AgentUp, Moves, CountersKept, A!boundVars
<1>8. CASE A!OpeningFails(h)
  <2>1. PICK i \in DOMAIN threads[h] : A!OpenFails(h, i) \/ A!SocketsReturn(h, i)
    BY <1>8 DEF A!OpeningFails
  <2>2. CASE A!OpenFails(h, i)
    <3>1. currentPort' \in {currentPort, [currentPort EXCEPT ![h] = @ + 1]}
      BY <2>2 DEF A!OpenFails, A!getNextPort
    <3>2. Breaks(h)
      BY <2>2, <3>1, BrokenIs DEF A!OpenFails
    <3> QED
      BY <1>0, <2>2, <3>2 DEF Moves, CountersKept, A!OpenFails
  <2>3. CASE A!SocketsReturn(h, i)
    <3>1. Breaks(h)
      BY <2>3, BrokenIs DEF A!SocketsReturn, A!boundVars
    <3> QED
      BY <1>0, <2>3, <3>1 DEF Moves, CountersKept, A!SocketsReturn, A!boundVars
  <2> QED
    BY <2>1, <2>2, <2>3
<1> QED
  BY <1>1, <1>2, <1>3, <1>4, <1>5, <1>6, <1>7, <1>8
  DEF AgentStep, AgentEnds, AgentAccepts, AgentAcceptsOrphan, AgentReplies, ThreadRuns,
      AgentAlone, boundVars

LEMMA ShapeStep == Shape /\ [SystemNext]_systemVars => Shape'
<1> SUFFICES ASSUME Shape, [SystemNext]_systemVars PROVE Shape'
  OBVIOUS
<1>1. CASE UNCHANGED agentVars
  BY <1>1 DEF Shape, HostShape, NoneFails, agentVars, controlVars, dataVars, boundVars
<1>2. CASE ManagerKilled
  <2>1. ASSUME NEW h \in Hosts PROVE HostShape(h)'
    <3>1. serving'[h] = serving[h] \/
            (Accepted(h) /\ serving'[h] = [serving[h] EXCEPT !.caller = "gone"])
      BY <1>2, <2>1 DEF ManagerKilled
    <3>2. HostShape(h)
      BY DEF Shape
    <3>3. Accepted(h) => serving[h] = Service(serving[h].message, serving[h].caller)
      BY <3>2 DEF HostShape, Accepted, A!NoService
    <3>4. \/ serving'[h] = A!NoService
          \/ serving'[h] = Service(serving'[h].message, serving'[h].caller)
      BY <3>1, <3>2, <3>3 DEF HostShape, Service
    <3> QED
      BY <1>2, <3>2, <3>4 DEF HostShape, NoneFails, ManagerKilled, dataVars, boundVars
  <2> QED
    BY <1>2, <2>1 DEF Shape, ManagerKilled, dataVars, boundVars
<1>3. CASE \E h \in Hosts : AgentStep(h) \/ AgentEnds(h)
  BY <1>3, AgentMoves, ShapeMoves
<1> QED
  BY <1>1, <1>2, <1>3 DEF SystemNext, ManagerStep, CallRefused, systemVars

----------------------------------------------------------------------------
(* The manager is implemented.                                             *)

SerialAt(h) == OthersServe(h) /\ NewestWorks(h)

LEMMA SerialElsewhere ==
    ASSUME NEW g, SerialAt(g), SameHost(g)
    PROVE  SerialAt(g)'
BY DEF SerialAt, OthersServe, NewestWorks, SameHost

LEMMA SerialAdded ==
    ASSUME NEW h \in Hosts, HostShape(h), SerialAt(h), NEW msg, NEW caller,
           Added(h, msg, caller)
    PROVE  SerialAt(h)'
<1>1. PICK s, r, e : /\ s = threads[h] /\ r = threads'[h] /\ e = A!NewThread(msg)
                     /\ List(s) /\ r = Append(s, e)
  BY DEF Added, HostShape
<1>2. /\ DOMAIN r = DOMAIN s \cup {Len(r)} /\ r # <<>>
      /\ \A i \in DOMAIN s : r[i] = s[i]
      /\ r[Len(r)] = e
  BY <1>1, ListAppended
<1>3. \A i \in DOMAIN s : s[i].state = "serving"
  BY <1>1 DEF SerialAt, OthersServe, Added
<1>4. OthersServe(h)'
  BY <1>1, <1>2, <1>3 DEF OthersServe, Added
<1>5. /\ e.kind = A!Kind(msg) /\ e.target = msg.target /\ e.overlay = msg.overlay
      /\ ~msg.bypass => e.port = msg.flowPort
  BY <1>1 DEF A!NewThread
<1>6. Service(msg, caller).message = msg
  BY DEF Service
<1>7. NewestWorks(h)'
  BY <1>1, <1>2, <1>5, <1>6 DEF NewestWorks, Added
<1> QED
  BY <1>4, <1>7 DEF SerialAt

LEMMA SerialTurned ==
    ASSUME NEW h \in Hosts, HostShape(h), SerialAt(h), Turned(h)
    PROVE  SerialAt(h)'
<1>1. \A i \in DOMAIN threads[h] : threads[h][i].state = "serving"
  BY DEF SerialAt, OthersServe, NewestWorks, Turned
<1> QED
  BY <1>1 DEF SerialAt, OthersServe, NewestWorks, Turned

LEMMA SerialStepped ==
    ASSUME NEW h \in Hosts, HostShape(h), SerialAt(h), NEW i, NEW t,
           Opens(h, i, t) \/ Fails(h, i, t)
    PROVE  SerialAt(h)'
<1>1. /\ Stepped(h, i, t) /\ i \in DOMAIN threads[h]
      /\ threads'[h] = [threads[h] EXCEPT ![i] = t] /\ List(threads[h])
      /\ agentPc'[h] = agentPc[h] /\ serving'[h] = serving[h] /\ frame'[h] = frame[h]
      /\ agentPc[h] = "creating" /\ i = Len(threads[h]) /\ threads[h][i].state = "starting"
  BY DEF Opens, Fails, Stepped, HostShape, SerialAt, OthersServe
<1>2. /\ Len(threads'[h]) = i /\ DOMAIN threads'[h] = DOMAIN threads[h]
      /\ \A j \in DOMAIN threads[h] :
            threads'[h][j] = IF j = i THEN t ELSE threads[h][j]
      /\ threads'[h] # <<>>
  BY <1>1, ListReplaced
<1>3. OthersServe(h)'
  BY <1>1, <1>2 DEF OthersServe, SerialAt
<1> DEFINE u == threads[h][i]
           msg == serving[h].message
<1>4. /\ u.kind = A!Kind(msg) /\ u.target = msg.target /\ frame[h] = msg.target
      /\ u.overlay = msg.overlay
      /\ ~msg.bypass => u.port = msg.flowPort
      /\ done[h] = 0
  BY <1>1 DEF SerialAt, NewestWorks
<1>5. t.kind = "bypass" <=> msg.bypass
  BY <1>1, <1>4 DEF A!Kind, Opens, Fails
<1>6. /\ t.kind = A!Kind(msg) /\ t.target = msg.target /\ t.overlay = msg.overlay
      /\ ~msg.bypass => t.port = msg.flowPort
  <2>1. CASE Opens(h, i, t)
    BY <1>4, <1>5, <2>1 DEF Opens
  <2>2. CASE Fails(h, i, t)
    BY <1>4, <1>5, <2>2 DEF Fails
  <2> QED
    BY <2>1, <2>2
<1>7. done'[h] # 0 =>
        /\ t.state = "serving" /\ t.port = done'[h]
        /\ msg.bypass => done'[h] \in Nat /\ done'[h] >= FirstBypassPort
  <2>1. CASE Opens(h, i, t)
    BY <1>5, <2>1 DEF Opens, HostShape
  <2>2. CASE Fails(h, i, t)
    BY <1>4, <2>2 DEF Fails
  <2> QED
    BY <2>1, <2>2
<1>8. NewestWorks(h)'
  BY <1>1, <1>2, <1>4, <1>6, <1>7 DEF NewestWorks
<1> QED
  BY <1>3, <1>8 DEF SerialAt

LEMMA MovesAlone == ASSUME NEW h, Moves(h) PROVE OnlyHost(h)
BY DEF Moves, Renewed, Added, Turned, Opens, Fails, Stepped, Skips, Breaks

LEMMA SerialMoves ==
    ASSUME Shape, Serial, NEW h \in Hosts, Moves(h), errors' = 0
    PROVE  Serial'
<1>0. HostShape(h) /\ SerialAt(h)
  BY DEF Shape, Serial, SerialAt
<1>1. CASE \E p \in {"accept", "stopped", "crashed"} : Renewed(h, p)
  <2>1. OnlyHost(h) /\ SerialAt(h)'
    BY <1>1 DEF Renewed, SerialAt, OthersServe, NewestWorks
  <2> QED
    BY <2>1, SerialElsewhere DEF OnlyHost, Serial, SerialAt
<1>2. CASE \E msg, caller : Added(h, msg, caller)
  <2>1. OnlyHost(h) /\ SerialAt(h)'
    BY <1>0, <1>2, SerialAdded DEF Added
  <2> QED
    BY <2>1, SerialElsewhere DEF OnlyHost, Serial, SerialAt
<1>3. CASE Turned(h)
  <2>1. OnlyHost(h) /\ SerialAt(h)'
    BY <1>0, <1>3, SerialTurned DEF Turned
  <2> QED
    BY <2>1, SerialElsewhere DEF OnlyHost, Serial, SerialAt
<1>4. CASE \E i, t : Opens(h, i, t) \/ Fails(h, i, t)
  <2>1. OnlyHost(h) /\ SerialAt(h)'
    BY <1>0, <1>4, SerialStepped DEF Opens, Fails, Stepped
  <2> QED
    BY <2>1, SerialElsewhere DEF OnlyHost, Serial, SerialAt
<1>5. CASE Skips(h)
  <2>1. OnlyHost(h) /\ SerialAt(h)'
    BY <1>0, <1>5 DEF Skips, SerialAt, OthersServe, NewestWorks
  <2> QED
    BY <2>1, SerialElsewhere DEF OnlyHost, Serial, SerialAt
<1>6. CASE Breaks(h)
  BY <1>6 DEF Breaks, Shape
<1> QED
  BY <1>1, <1>2, <1>3, <1>4, <1>5, <1>6 DEF Moves

\* The history only grows.
LEMMA HistoryStep ==
    Shape /\ [SystemNext]_systemVars =>
        /\ errors' = 0 => errors = 0
        /\ direct' = 0 => direct = 0
        /\ kills' = 0 => kills = 0
<1> SUFFICES ASSUME Shape, [SystemNext]_systemVars
             PROVE  /\ errors' = 0 => errors = 0
                    /\ direct' = 0 => direct = 0
                    /\ kills' = 0 => kills = 0
  OBVIOUS
<1>1. CASE UNCHANGED boundVars
  BY <1>1 DEF boundVars
<1>2. CASE \E h \in Hosts : AgentStep(h) \/ AgentEnds(h)
  <2>1. CountersKept
    BY <1>2, AgentMoves
  <2> QED
    BY <2>1 DEF CountersKept, Shape
<1> QED
  BY <1>1, <1>2
  DEF SystemNext, ManagerStep, ManagerKilled, CallRefused, systemVars, agentVars, boundVars

\* The manager does nothing else while it waits for an answer.
LEMMA ManagerIsWaiting ==
    ASSUME TypeInv, DialInv,
           ServeClient \/ Progress \/ Restart \/ Controller \/ ControllerFails
    PROVE  rpc' = rpc \/ rpc.phase # "calling"
<1>1. CASE ServeClient \/ Restart \/ FillRequestFile \/ ControllerDone
  BY <1>1 DEF ServeClient, Restart, FillRequestFile, ControllerDone, DialInv
<1>2. CASE OutboundOpened \/ InboundOpened \/ OpenFailed \/ AgentUnreachable
  BY <1>2 DEF OutboundOpened, InboundOpened, OpenFailed, AgentUnreachable, Acked
<1>3. CASE Controller \/ ControllerFails
  BY <1>3 DEF Controller, ControllerFails, ControllerDies, RestartController
<1> QED
  BY <1>1, <1>2, <1>3 DEF Progress

CallerWaits(h) ==
    Accepted(h) => /\ Awaited(h) /\ serving[h].message = rpc.message
                   /\ agentPc[h] \in {"creating", "hung"}

\* When an agent steps, the call changes only if the manager waits for that agent.
LEMMA OthersCalls ==
    ASSUME CallersWait, NEW h \in Hosts, AgentStep(h) \/ AgentEnds(h)
    PROVE  rpc' = rpc \/ Awaited(h)
BY DEF CallersWait, AgentStep, AgentEnds, AgentAccepts, AgentAcceptsOrphan, AgentReplies,
       ThreadRuns, AgentAlone, CallsDropped, vars, A!AnswerCaller

LEMMA CallerElsewhere ==
    ASSUME CallersWait, NEW h \in Hosts, NEW g \in Hosts \ {h}, SameHost(g),
           rpc' = rpc \/ Awaited(h)
    PROVE  CallerWaits(g)'
BY DEF CallersWait, CallerWaits, Accepted, Awaited, SameHost

LEMMA CallerHere ==
    ASSUME Shape, CallersWait, NEW h \in Hosts, AgentStep(h) \/ AgentEnds(h), errors' = 0
    PROVE  CallerWaits(h)'
<1>0. CallerWaits(h) /\ errors \in Nat
  BY DEF CallersWait, CallerWaits, Shape
<1>a. ASSUME NEW msg, NEW caller, A!Receive(h, msg, caller), rpc' = rpc,
             caller = "manager" => Awaited(h) /\ msg = rpc.message
      PROVE  CallerWaits(h)'
  <2>1. agentPc[h] = "accept" /\ (Added(h, msg, caller) \/ Turned(h))
    BY <1>a, ReceiveIs
  <2>2. CASE Added(h, msg, caller)
    <3>1. Service(msg, caller).message = msg /\ Service(msg, caller).caller = caller
      BY DEF Service
    <3> QED
      BY <1>a, <2>2, <3>1 DEF CallerWaits, Accepted, Awaited, Added
  <2>3. CASE Turned(h)
    BY <1>0, <2>1, <2>3 DEF CallerWaits, Accepted, Turned
  <2> QED
    BY <2>1, <2>2, <2>3
<1>b. CASE \E p \in {"accept", "stopped", "crashed"} : Renewed(h, p)
  BY <1>b DEF CallerWaits, Accepted, Renewed, A!NoService
<1>c. CASE agentPc'[h] = agentPc[h] /\ serving'[h] = serving[h]
           /\ (agentPc'[h] # "crashed" => rpc' = rpc)
  BY <1>0, <1>c DEF CallerWaits, Accepted, Awaited
<1>1. CASE AgentAccepts(h)
  BY <1>1, <1>a DEF AgentAccepts, vars
<1>2. CASE AgentAcceptsOrphan(h)
  BY <1>2, <1>a DEF AgentAcceptsOrphan, vars
<1>3. CASE AgentReplies(h)
  BY <1>3 DEF AgentReplies, A!AnswerCaller, CallerWaits, Accepted, Shape, A!NoService
<1>4. CASE ThreadRuns(h)
  <2>1. ThreadOutcome(h) /\ (agentPc'[h] # "crashed" => rpc' = rpc)
    BY <1>4, ThreadIs DEF ThreadRuns, vars
  <2> QED
    BY <2>1, <1>0, <1>b, <1>c DEF ThreadOutcome, Opens, Fails, Stepped, Skips, Breaks
<1>5. CASE AgentAlone(h)
  <2>1. rpc' = rpc
    BY <1>5 DEF AgentAlone, vars
  <2>2. CASE A!AcceptDirect(h) /\ agentPc'[h] # "stopped"
    BY <1>a, <2>1, <2>2 DEF A!AcceptDirect, A!TerminateAgent, Shape
  <2>3. CASE A!HangInAdd(h)
    BY <1>0, <2>1, <2>3 DEF A!HangInAdd, CallerWaits, Accepted, Awaited, Shape
  <2>4. CASE A!ReceiveError(h) \/ A!SpinesDisconnects(h) \/ A!OpeningFails(h)
    <3>1. UNCHANGED A!controlVars
      BY <2>4
      DEF A!ReceiveError, A!SpinesDisconnects, A!OpeningFails, A!OpenFails, A!SocketsReturn
    <3> QED
      BY <1>c, <2>1, <3>1 DEF A!controlVars
  <2>5. CASE A!RestartAgent(h)
    BY <1>b, <2>5, FreshIsRenewed DEF A!RestartAgent, AgentUp
  <2> QED
    BY <1>5, <2>2, <2>3, <2>4, <2>5 DEF AgentAlone
<1>6. CASE AgentEnds(h)
  <2>1. A!FreshAgent(h)
    BY <1>6
    DEF AgentEnds, A!KillAgent, A!AcceptDirect, A!TerminateAgent, A!Receive, A!AddRouting,
        A!RemoveRouting, A!PrintRoutings, Shape
  <2> QED
    BY <2>1 DEF A!FreshAgent, CallerWaits, Accepted, A!NoService, Shape
<1> QED
  BY <1>1, <1>2, <1>3, <1>4, <1>5, <1>6 DEF AgentStep

LEMMA CallersStep ==
    ASSUME Shape, TypeInv, DialInv, CallersWait, SystemNext, errors' = 0
    PROVE  CallersWait'
<1>a. SUFFICES \A g \in Hosts : CallerWaits(g)'
  BY DEF CallersWait, CallerWaits
<1>b. \A g \in Hosts : CallerWaits(g)
  BY DEF CallersWait, CallerWaits
<1>1. CASE ManagerStep
  <2>1. UNCHANGED <<serving, agentPc>> /\ (rpc' = rpc \/ rpc.phase # "calling")
    BY <1>1, ManagerIsWaiting
    DEF ManagerStep, agentVars, controlVars, dataVars
  <2> QED
    BY <1>b, <2>1 DEF CallerWaits, Accepted, Awaited
<1>2. CASE ManagerKilled
  <2>1. \A g \in Hosts : serving'[g].caller # "manager"
    <3>1. SUFFICES ASSUME NEW g \in Hosts PROVE serving'[g].caller # "manager"
      OBVIOUS
    <3>2. CASE Accepted(g)
      <4>1. serving[g] = Service(serving[g].message, serving[g].caller)
        BY <3>2 DEF Shape, HostShape, Accepted, A!NoService
      <4>2. serving'[g] = [serving[g] EXCEPT !.caller = "gone"]
        BY <1>2, <3>2 DEF ManagerKilled
      <4> QED
        BY <4>1, <4>2 DEF Service
    <3>3. CASE ~Accepted(g)
      BY <1>2, <3>3 DEF ManagerKilled, Accepted
    <3> QED
      BY <3>2, <3>3
  <2> QED
    BY <2>1 DEF CallerWaits, Accepted
<1>3. CASE CallRefused
  <2>1. \A g \in Hosts : ~Accepted(g)
    BY <1>b, <1>3 DEF CallerWaits, CallRefused, Awaited, AgentUp
  <2> QED
    BY <1>3, <2>1 DEF CallerWaits, Accepted, CallRefused, agentVars, controlVars
<1>4. CASE \E h \in Hosts : AgentStep(h) \/ AgentEnds(h)
  <2>1. PICK h \in Hosts : AgentStep(h) \/ AgentEnds(h)
    BY <1>4
  <2>2. OnlyHost(h)
    BY <2>1, AgentMoves, MovesAlone
  <2> QED
    BY <2>1, <2>2, OthersCalls, CallerElsewhere, CallerHere DEF OnlyHost
<1> QED
  BY <1>1, <1>2, <1>3, <1>4 DEF SystemNext

\* A port the agents' bypasses may have is one the manager expects.
PortsCovered == \A p \in Nat : p >= FirstBypassPort => p \in BypassPorts

LEMMA StepImplements ==
    ASSUME PortsCovered, TypeInv, DialInv, Serial, CallersWait, [SystemNext]_systemVars
    PROVE  [Next]_vars
<1>a. ASSUME NEW phase, NEW data, rpc' = CallEnds(phase, data), ManagerWaits,
             rpc.phase = "calling",
             \/ phase = "refused" /\ data = 0
             \/ phase = "closed" /\ data = 0 /\ rpc.agent # NoHost
             \/ /\ phase = "answered" /\ rpc.agent # NoHost
                /\ data \in IF rpc.message.bypass THEN BypassPorts
                            ELSE {rpc.message.flowPort}
      PROVE  Next
  BY <1>a DEF Next, Agents, AgentAnswers, ConnectionRefused, ConnectionClosed, ManagerWaits
<1>1. CASE UNCHANGED systemVars
  BY <1>1 DEF systemVars
<1>2. CASE ManagerStep \/ ManagerKilled
  BY <1>2 DEF ManagerStep, ManagerKilled, Next
<1>3. CASE CallRefused
  BY <1>3, <1>a DEF CallRefused
<1>4. ASSUME NEW h \in Hosts, AgentStep(h) \/ AgentEnds(h)
      PROVE  [Next]_vars
  <2>1. CASE AgentReplies(h) /\ Accepted(h)
    <3>1. /\ rpc' = CallEnds("answered", done[h]) /\ ManagerWaits
          /\ agentPc[h] = "creating" /\ done[h] # 0
      BY <2>1 DEF AgentReplies, A!AnswerCaller
    <3>2. Awaited(h) /\ serving[h].message = rpc.message
      BY <2>1 DEF CallersWait
    <3>3. done[h] \in IF rpc.message.bypass THEN BypassPorts ELSE {rpc.message.flowPort}
      BY <3>1, <3>2 DEF Serial, NewestWorks, PortsCovered
    <3> QED
      BY <1>a, <3>1, <3>2, <3>3 DEF Awaited
  <2>2. CASE CallsDropped(h)
    BY <2>2, <1>a DEF CallsDropped, Awaited, ManagerWaits, vars
  <2>3. CASE UNCHANGED vars
    BY <2>3
  <2> QED
    BY <1>4, <2>1, <2>2, <2>3
    DEF AgentStep, AgentEnds, AgentAccepts, AgentAcceptsOrphan, AgentReplies, ThreadRuns,
        AgentAlone, ManagerWaits, vars
<1> QED
  BY <1>1, <1>2, <1>3, <1>4 DEF SystemNext

LEMMA SystemStep ==
    PortsCovered /\ Shape /\ SystemInv /\ [SystemNext]_systemVars => SystemInv'
<1> SUFFICES ASSUME PortsCovered, Shape, SystemInv, [SystemNext]_systemVars, errors' = 0
             PROVE  (ManagerInv /\ Serial /\ CallersWait)'
  BY DEF SystemInv
<1>1. errors = 0 /\ ManagerInv /\ Serial /\ CallersWait
  BY HistoryStep DEF SystemInv
<1>2. TypeInv /\ DialInv
  BY <1>1 DEF ManagerInv
<1>3. ManagerInv'
  BY <1>1, <1>2, StepImplements, ManagerStepInv
<1>4. CASE UNCHANGED <<agentVars, rpc>>
  BY <1>1, <1>3, <1>4
  DEF Serial, OthersServe, NewestWorks, CallersWait, Accepted, Awaited, agentVars,
      controlVars, dataVars
<1>5. CASE SystemNext
  <2>1. CallersWait'
    BY <1>1, <1>2, <1>5, CallersStep
  <2>2. Serial'
    <3>1. CASE /\ UNCHANGED <<agentPc, threads, done, frame>>
               /\ \A h \in Hosts : serving'[h].message = serving[h].message
      BY <1>1, <3>1 DEF Serial, OthersServe, NewestWorks
    <3>2. CASE ManagerKilled
      <4>1. ASSUME NEW h \in Hosts PROVE serving'[h].message = serving[h].message
        <5>1. Accepted(h) => serving[h] = Service(serving[h].message, serving[h].caller)
          BY DEF Shape, HostShape, Accepted, A!NoService
        <5>2. IF Accepted(h) THEN serving'[h] = [serving[h] EXCEPT !.caller = "gone"]
                             ELSE serving'[h] = serving[h]
          BY <3>2 DEF ManagerKilled
        <5> QED
          BY <5>1, <5>2 DEF Service
      <4> QED
        BY <3>1, <3>2, <4>1 DEF ManagerKilled, dataVars
    <3>3. CASE ManagerStep \/ CallRefused
      BY <3>1, <3>3 DEF ManagerStep, CallRefused, agentVars, controlVars, dataVars
    <3>4. CASE \E h \in Hosts : AgentStep(h) \/ AgentEnds(h)
      BY <1>1, <3>4, AgentMoves, SerialMoves
    <3> QED
      BY <1>5, <3>2, <3>3, <3>4 DEF SystemNext
  <2> QED
    BY <1>3, <2>1, <2>2
<1> QED
  BY <1>4, <1>5 DEF systemVars, vars

\* Theorem.  The agents do what NetworkManager lets agents do: as long as no
\* socket fails, every behaviour of the manager and its agents is one of the
\* manager in its open surroundings (agent_control.c:66-124, agent_data.c:86-376
\* against net_util.c:26-58).
THEOREM ManagerImplemented ==
    ASSUME MaxErrors = 0, PortsCovered
    PROVE  SystemSpec => ImplementsManager
<1>1. SystemInit => Init /\ Shape /\ SystemInv
  BY InitSystemInv DEF SystemInit
<1>2. Shape /\ SystemInv /\ [SystemNext]_systemVars => Shape' /\ SystemInv' /\ [Next]_vars
  <2> SUFFICES ASSUME Shape, SystemInv, [SystemNext]_systemVars
               PROVE  Shape' /\ SystemInv' /\ [Next]_vars
    OBVIOUS
  <2>1. errors = 0
    BY DEF Shape
  <2> QED
    BY <2>1, ShapeStep, SystemStep, StepImplements DEF SystemInv, ManagerInv
<1> QED
  BY <1>1, <1>2, PTL DEF SystemSpec, Spec, ImplementsManager

\* Theorem.  What is promised of the manager alone is kept when it runs with its
\* agents: the numbers and the map of the flows, the capacities of the overlays
\* and the file handshake, also with a switch controller that is started again.
THEOREM ManagersPromisesKept ==
    ASSUME MaxErrors = 0, PortsCovered
    PROVE  SystemSpec =>
        /\ []IdsDense /\ []PortsUnique
        /\ []LiveFlowsListed /\ []PrintedFlowsGranted /\ []HangsOnlyAfterGrowth
        /\ []CapacityAccounted /\ []NoOverdraft
        /\ []AckBelongsToWaiter /\ UsesHandshake
<1>1. ImplementsManager => Spec
  BY DEF ImplementsManager
<1> QED
  BY <1>1, ManagerImplemented, IdsDenseCorrect, PortsUniqueCorrect, LiveFlowsListedCorrect,
     PrintedFlowsGrantedCorrect, HangsOnlyAfterGrowthCorrect, CapacityAccountedCorrect,
     NoOverdraftCorrect, AckBelongsToWaiterCorrect, ProtocolUsed, PTL

----------------------------------------------------------------------------
(* What becomes of the threads of an agent.                                *)

\* A thread is a former one, further on its way.
Descends(t, u) ==
    /\ t.kind = u.kind /\ t.overlay = u.overlay
    /\ t.kind # "bypass" => t.port = u.port /\ t.target = u.target

Newcomer(h, t) == \E msg, caller : Added(h, msg, caller) /\ t = A!NewThread(msg)

ServesOn(t, s, i) == i \in DOMAIN s /\ s[i] = t

ThreadsAfter(h) ==
    /\ \A j \in DOMAIN threads'[h] :
        \/ \E i \in DOMAIN threads[h] : Descends(threads'[h][j], threads[h][i])
        \/ Newcomer(h, threads'[h][j])
    /\ AgentUp(h) /\ AgentUp(h)' =>
        \A i \in A!ServingThreads(h) : ServesOn(threads[h][i], threads'[h], i)
    /\ \/ \E i, t : Opens(h, i, t)
       \/ \A i \in A!ServingThreads(h)' : ServesOn(threads'[h][i], threads[h], i)

LEMMA ThreadsReplaced ==
    ASSUME NEW h \in Hosts, HostShape(h), NEW i, NEW t, Stepped(h, i, t)
    PROVE  /\ DOMAIN threads'[h] = DOMAIN threads[h]
           /\ \A j \in DOMAIN threads[h] :
                threads'[h][j] = IF j = i THEN t ELSE threads[h][j]
BY ListReplaced DEF Stepped, HostShape

LEMMA ThreadsMove ==
    ASSUME Shape, NEW h \in Hosts, Moves(h), errors' = 0
    PROVE  ThreadsAfter(h)
<1>0. HostShape(h)
  BY DEF Shape
<1>1. CASE \E p \in {"accept", "stopped", "crashed"} : Renewed(h, p)
  <2>1. DOMAIN threads'[h] = {} /\ ~(AgentUp(h) /\ AgentUp(h)')
    BY <1>1 DEF Renewed, AgentUp
  <2> QED
    BY <2>1 DEF ThreadsAfter, A!ServingThreads
<1>2. CASE \E msg, caller : Added(h, msg, caller)
  <2>1. PICK msg, caller : Added(h, msg, caller)
    BY <1>2
  <2>2. PICK s, r, e : /\ s = threads[h] /\ r = threads'[h] /\ e = A!NewThread(msg)
                       /\ List(s) /\ r = Append(s, e)
    BY <1>0, <2>1 DEF Added, HostShape
  <2>3. /\ DOMAIN r = DOMAIN s \cup {Len(r)}
        /\ \A i \in DOMAIN s : r[i] = s[i]
        /\ r[Len(r)] = e
    BY <2>2, ListAppended
  <2>4. e.state = "starting"
    BY <2>2 DEF A!NewThread
  <2>5. \A j \in DOMAIN r : (j \in DOMAIN s /\ r[j] = s[j]) \/ r[j] = e
    BY <2>3
  <2>6. \A j \in DOMAIN r :
          (\E i \in DOMAIN s : Descends(r[j], s[i])) \/ Newcomer(h, r[j])
    BY <2>1, <2>2, <2>5 DEF Descends, Newcomer
  <2>7. \A j \in DOMAIN r : r[j].state = "serving" => ServesOn(r[j], s, j)
    BY <2>4, <2>5 DEF ServesOn
  <2>8. \A i \in DOMAIN s : ServesOn(s[i], r, i)
    BY <2>3 DEF ServesOn
  <2> QED
    BY <2>2, <2>6, <2>7, <2>8 DEF ThreadsAfter, A!ServingThreads
<1>3. CASE Turned(h) \/ Skips(h)
  BY <1>3 DEF Turned, Skips, ThreadsAfter, Descends, ServesOn, A!ServingThreads
<1>4. CASE \E i, t : Opens(h, i, t) \/ Fails(h, i, t)
  <2>1. PICK i, t : Opens(h, i, t) \/ Fails(h, i, t)
    BY <1>4
  <2>2. /\ DOMAIN threads'[h] = DOMAIN threads[h]
        /\ \A j \in DOMAIN threads[h] :
                threads'[h][j] = IF j = i THEN t ELSE threads[h][j]
    BY <1>0, <2>1, ThreadsReplaced DEF Opens, Fails
  <2>3. Descends(t, threads[h][i]) /\ i \in DOMAIN threads[h]
        /\ threads[h][i].state = "starting"
    BY <2>1 DEF Opens, Fails, Stepped, Descends
  <2>4. Fails(h, i, t) => t.state = "ended"
    BY DEF Fails
  <2>5. \A j \in DOMAIN threads'[h] :
          \E k \in DOMAIN threads[h] : Descends(threads'[h][j], threads[h][k])
    BY <2>2, <2>3 DEF Descends
  <2>6. \A j \in A!ServingThreads(h) : ServesOn(threads[h][j], threads'[h], j)
    BY <2>2, <2>3 DEF A!ServingThreads, ServesOn
  <2>7. \/ \E k, u : Opens(h, k, u)
        \/ \A j \in A!ServingThreads(h)' : ServesOn(threads'[h][j], threads[h], j)
    BY <2>1, <2>2, <2>4 DEF A!ServingThreads, ServesOn
  <2> QED
    BY <2>5, <2>6, <2>7 DEF ThreadsAfter
<1>6. CASE Breaks(h)
  BY <1>6 DEF Breaks, Shape
<1> QED
  BY <1>1, <1>2, <1>3, <1>4, <1>6 DEF Moves

\* A new thread is for a message of a manager, of this one or of an earlier.
LEMMA AddedIs ==
    ASSUME Shape, NEW h \in Hosts, AgentStep(h) \/ AgentEnds(h), direct' = 0,
           NEW msg, NEW caller, Added(h, msg, caller)
    PROVE  \/ rpc.phase = "calling" /\ msg = rpc.message
           \/ \E o \in orphans : msg = o.message
<1>0. agentPc[h] = "accept" /\ agentPc'[h] = "creating" /\ serving'[h] = Service(msg, caller)
      /\ DOMAIN agentPc = Hosts
  BY DEF Added, Shape
<1>1. ASSUME NEW m, NEW c, A!Receive(h, m, c) PROVE msg = m
  <2>1. serving'[h] = Service(m, c)
    BY <1>0, <1>1, ReceiveIs DEF Added, Turned
  <2> QED
    BY <1>0, <2>1 DEF Service
<1>2. CASE AgentAccepts(h)
  BY <1>1, <1>2 DEF AgentAccepts, Awaited
<1>3. CASE AgentAcceptsOrphan(h)
  BY <1>1, <1>3 DEF AgentAcceptsOrphan
<1>4. CASE ThreadRuns(h)
  <2>1. ThreadOutcome(h)
    BY <1>4, ThreadIs DEF ThreadRuns
  <2> QED
    BY <1>0, <2>1 DEF ThreadOutcome, Opens, Fails, Stepped, Skips, Breaks, Renewed
<1>5. CASE A!AcceptDirect(h)
  BY <1>5 DEF A!AcceptDirect, Shape
<1> QED
  BY <1>0, <1>2, <1>3, <1>4, <1>5
  DEF AgentStep, AgentEnds, AgentReplies, A!AnswerCaller, AgentAlone, A!HangInAdd,
      A!OpeningFails, A!OpenFails, A!SocketsReturn, A!ReceiveError, A!SpinesDisconnects,
      A!controlVars, A!RestartAgent, A!KillAgent

----------------------------------------------------------------------------
(* Whose threads there are, and which ports they share.                    *)

ThreadsInv == errors = 0 => ManagersThreads /\ Exclusive

LEMMA MessageSent ==
    ASSUME TypeInv, DialInv, rpc.phase # "idle"
    PROVE  /\ mpc \in {"outbound", "inbound"} /\ cur \in FlowsInCreation
           /\ rpc.message \in {OutboundMessage(cur), InboundMessage(cur)}
           /\ Addition(rpc.message)
<1>1. /\ mpc \in {"outbound", "inbound"} /\ cur \in FlowsInCreation
      /\ rpc.message \in {OutboundMessage(cur), InboundMessage(cur)}
  BY DEF DialInv, TypeInv, TypeOK, InCreateFlow
<1>2. cur.entry \in Nodes /\ cur.exit \in Nodes
  BY <1>1 DEF FlowsInCreation
<1>3. Addition(OutboundMessage(cur)) /\ Addition(InboundMessage(cur))
  BY <1>2 DEF Addition, OutboundMessage, InboundMessage, NodeLocations, A!AddTypes
<1> QED
  BY <1>1, <1>3

\* The orphans are calls of this manager that was killed, or earlier ones.
LEMMA OrphansStep ==
    ASSUME [SystemNext]_systemVars, NEW o \in orphans'
    PROVE  o \in orphans \/ (rpc.phase = "calling" /\ o.message = rpc.message)
BY DEF SystemNext, ManagerStep, ManagerKilled, CallRefused, AgentStep, AgentEnds,
       AgentAccepts, AgentAcceptsOrphan, AgentReplies, ThreadRuns, AgentAlone, CallsDropped,
       Awaited, systemVars

\* Where no agent steps its threads stay.
LEMMA AgentsRest ==
    [SystemNext]_systemVars =>
        \/ UNCHANGED <<agentPc, threads, done, currentPort, frame, direct, kills, errors>>
        \/ \E h \in Hosts : AgentStep(h) \/ AgentEnds(h)
BY DEF SystemNext, ManagerStep, ManagerKilled, CallRefused, systemVars, agentVars,
       controlVars, dataVars, boundVars

LEMMA ManagersThreadsStep ==
    ASSUME Shape, TypeInv, DialInv, ManagersThreads, [SystemNext]_systemVars, errors' = 0
    PROVE  ManagersThreads'
<1>1. \A o \in orphans' : Addition(o.message)
  BY OrphansStep, MessageSent DEF ManagersThreads
<1>2. ASSUME direct' = 0, NEW g \in Hosts, NEW j \in DOMAIN threads'[g]
      PROVE  threads'[g][j].overlay \in NodeLocations
  <2>0. direct = 0
    BY <1>2, HistoryStep
  <2>1. CASE threads'[g] = threads[g]
    BY <1>2, <2>0, <2>1 DEF ManagersThreads
  <2>2. CASE \E h \in Hosts : AgentStep(h) \/ AgentEnds(h)
    <3>1. PICK h \in Hosts : AgentStep(h) \/ AgentEnds(h)
      BY <2>2
    <3>2. Moves(h) /\ ThreadsAfter(h)
      BY <3>1, AgentMoves, ThreadsMove
    <3>3. CASE g # h
      BY <2>1, <3>2, <3>3, MovesAlone DEF OnlyHost, SameHost
    <3>4. CASE g = h
      <4>1. CASE \E i \in DOMAIN threads[h] : Descends(threads'[h][j], threads[h][i])
        BY <2>0, <3>4, <4>1 DEF Descends, ManagersThreads
      <4>2. CASE Newcomer(h, threads'[h][j])
        <5>1. PICK msg, caller : Added(h, msg, caller) /\ threads'[h][j] = A!NewThread(msg)
          BY <4>2 DEF Newcomer
        <5>2. Addition(msg)
          BY <1>2, <3>1, <5>1, AddedIs, MessageSent DEF ManagersThreads
        <5> QED
          BY <3>4, <5>1, <5>2 DEF Addition, A!NewThread
      <4> QED
        BY <1>2, <3>2, <3>4, <4>1, <4>2 DEF ThreadsAfter
    <3> QED
      BY <3>3, <3>4
  <2> QED
    BY <2>1, <2>2, AgentsRest
<1> QED
  BY <1>1, <1>2 DEF ManagersThreads

\* A step that opens no interface leaves the ports of the open ones apart.
LEMMA ExclusiveKept ==
    ASSUME Exclusive,
           \A g \in Hosts : \A i \in A!ServingThreads(g)' :
               ServesOn(threads'[g][i], threads[g], i)
    PROVE  Exclusive'
<1>1. \A g \in Hosts : \A i \in A!ServingThreads(g)' :
        i \in A!ServingThreads(g) /\ threads[g][i] = threads'[g][i]
  BY DEF ServesOn, A!ServingThreads
<1> QED
  BY <1>1 DEF Exclusive, A!Port16

LEMMA ExclusiveOpened ==
    ASSUME Shape, Exclusive, NEW h \in Hosts, NEW k, NEW t, Opens(h, k, t)
    PROVE  Exclusive'
<1>1. \A g \in Hosts : \A i \in A!ServingThreads(g)' :
        \/ g = h /\ i = k /\ threads'[g][i] = t
        \/ /\ i \in A!ServingThreads(g) /\ threads'[g][i] = threads[g][i]
           /\ ~(g = h /\ i = k)
  <2>1. /\ Stepped(h, k, t) /\ HostShape(h)
        /\ \A g \in Hosts \ {h} : threads'[g] = threads[g]
        /\ threads[h][k].state = "starting"
    BY DEF Opens, Stepped, OnlyHost, SameHost, Shape
  <2>2. /\ DOMAIN threads'[h] = DOMAIN threads[h]
        /\ \A j \in DOMAIN threads[h] :
                threads'[h][j] = IF j = k THEN t ELSE threads[h][j]
    BY <2>1, ThreadsReplaced
  <2> QED
    BY <2>1, <2>2 DEF A!ServingThreads
<1>2. ASSUME t.kind = "inbound", NEW i \in A!ServingThreads(h),
             threads[h][i].kind = "inbound", A!Port16(t.port) # 0
      PROVE  A!Port16(threads[h][i].port) # A!Port16(t.port)
  BY <1>2 DEF Opens, A!UdpBusy
<1>3. ASSUME t.kind = "outbound", NEW g \in Hosts, NEW i \in A!ServingThreads(g),
             threads[g][i].kind = "outbound", threads[g][i].overlay = t.overlay
      PROVE  A!Port16(threads[g][i].port) # A!Port16(t.port)
  BY <1>3 DEF Opens, A!SpinesBusy
<1>4. ASSUME NEW g \in Hosts, NEW i \in A!ServingThreads(g)', NEW j \in A!ServingThreads(g)',
             threads'[g][i].kind = "inbound", threads'[g][j].kind = "inbound",
             A!Port16(threads'[g][i].port) = A!Port16(threads'[g][j].port),
             A!Port16(threads'[g][i].port) # 0
      PROVE  i = j
  BY <1>1, <1>2, <1>4 DEF Exclusive
<1>5. ASSUME NEW f \in Hosts, NEW g \in Hosts,
             NEW i \in A!ServingThreads(f)', NEW j \in A!ServingThreads(g)',
             threads'[f][i].kind = "outbound", threads'[g][j].kind = "outbound",
             threads'[f][i].overlay = threads'[g][j].overlay,
             A!Port16(threads'[f][i].port) = A!Port16(threads'[g][j].port)
      PROVE  f = g /\ i = j
  BY <1>1, <1>3, <1>5 DEF Exclusive
<1> QED
  BY <1>4, <1>5 DEF Exclusive, A!Port16

LEMMA ThreadsStep ==
    Shape /\ SystemInv /\ ThreadsInv /\ [SystemNext]_systemVars => ThreadsInv'
<1> SUFFICES ASSUME Shape, SystemInv, ThreadsInv, [SystemNext]_systemVars, errors' = 0
             PROVE  ManagersThreads' /\ Exclusive'
  BY DEF ThreadsInv
<1>0. errors = 0 /\ TypeInv /\ DialInv /\ ManagersThreads /\ Exclusive
  BY HistoryStep DEF SystemInv, ManagerInv, ThreadsInv
<1>1. ManagersThreads'
  BY <1>0, ManagersThreadsStep
<1>2. CASE UNCHANGED threads
  <2>1. \A g \in Hosts : \A i \in A!ServingThreads(g)' :
          ServesOn(threads'[g][i], threads[g], i)
    BY <1>2 DEF ServesOn, A!ServingThreads
  <2> QED
    BY <1>0, <1>1, <2>1, ExclusiveKept
<1>3. CASE \E h \in Hosts : AgentStep(h) \/ AgentEnds(h)
  <2>1. PICK h \in Hosts : AgentStep(h) \/ AgentEnds(h)
    BY <1>3
  <2>2. Moves(h) /\ ThreadsAfter(h)
    BY <2>1, AgentMoves, ThreadsMove
  <2>3. \A g \in Hosts \ {h} : threads'[g] = threads[g]
    BY <2>2, MovesAlone DEF OnlyHost, SameHost
  <2>4. CASE \E i, t : Opens(h, i, t)
    BY <1>0, <1>1, <2>4, ExclusiveOpened
  <2>5. CASE \A i \in A!ServingThreads(h)' : ServesOn(threads'[h][i], threads[h], i)
    <3>1. \A g \in Hosts : \A i \in A!ServingThreads(g)' :
            ServesOn(threads'[g][i], threads[g], i)
      BY <2>3, <2>5 DEF ServesOn, A!ServingThreads
    <3> QED
      BY <1>0, <1>1, <3>1, ExclusiveKept
  <2> QED
    BY <2>2, <2>4, <2>5 DEF ThreadsAfter
<1> QED
  BY <1>1, <1>2, <1>3, AgentsRest

----------------------------------------------------------------------------
(* The paths stay open.                                                    *)

\* While no process is killed and no socket fails, agents run on and drop no call.
LEMMA QuietAgents ==
    ASSUME Shape, ManagersThreads, direct = 0, Quiet', NEW h \in Hosts, AgentUp(h),
           AgentStep(h) \/ AgentEnds(h)
    PROVE  AgentUp(h)' /\ (rpc' = rpc \/ (AgentReplies(h) /\ Accepted(h)))
<1>0. errors' = 0 /\ kills' = 0 /\ direct' = 0 /\ errors \in Nat /\ kills \in Nat
  BY AgentParameters DEF Quiet, Shape
<1>1. ~AgentEnds(h) /\ ~A!AcceptDirect(h) /\ ~A!ReceiveError(h) /\ ~A!SpinesDisconnects(h)
  BY <1>0
  DEF AgentEnds, A!KillAgent, A!AcceptDirect, A!ReceiveError, A!SpinesDisconnects, Shape
<1>2. CASE AgentAccepts(h) \/ AgentAcceptsOrphan(h)
  BY <1>2, ReceiveIs DEF AgentAccepts, AgentAcceptsOrphan, Added, Turned, AgentUp, vars
<1>3. CASE AgentReplies(h)
  BY <1>3 DEF AgentReplies, A!AnswerCaller, AgentUp, Shape
<1>4. CASE ThreadRuns(h)
  <2>1. ThreadOutcome(h)
    BY <1>4, ThreadIs DEF ThreadRuns
  <2>2. \A i \in DOMAIN threads[h] : A!HasOverlay(threads[h][i])
    BY NodeAssumption DEF ManagersThreads, NodeLocations, A!HasOverlay
  <2>3. agentPc'[h] = agentPc[h]
    BY <2>1, <2>2 DEF ThreadOutcome, Opens, Fails, Stepped, Skips, Breaks
  <2> QED
    BY <1>4, <2>3 DEF ThreadRuns, AgentUp, vars
<1>5. CASE AgentAlone(h)
  <2>1. A!HangInAdd(h) \/ A!OpeningFails(h)
    BY <1>1, <1>5 DEF AgentAlone, A!RestartAgent, AgentUp
  <2>2. AgentUp(h)'
    BY <2>1
    DEF A!HangInAdd, A!OpeningFails, A!OpenFails, A!SocketsReturn, A!controlVars, AgentUp,
        Shape
  <2> QED
    BY <1>5, <2>2 DEF AgentAlone, vars
<1> QED
  BY <1>1, <1>2, <1>3, <1>4, <1>5 DEF AgentStep

\* An interface that is open stays open.
LEMMA OpenKept ==
    ASSUME Shape, [SystemNext]_systemVars, errors' = 0,
           \A g \in Hosts : AgentUp(g) /\ AgentUp(g)',
           NEW h, NEW kind, NEW target, NEW overlay, NEW p,
           Open(h, kind, target, overlay, p)
    PROVE  Open(h, kind, target, overlay, p)'
<1>1. PICK i \in A!ServingThreads(h) :
        LET t == threads[h][i]
        IN  t.kind = kind /\ t.target = target /\ t.overlay = overlay /\ t.port = p
  BY DEF Open, A!ServingThreads
<1>2. h \in Hosts /\ threads[h][i].state = "serving"
  BY <1>1 DEF Open, A!ServingThreads
<1>3. SUFFICES ServesOn(threads[h][i], threads'[h], i)
  BY <1>1, <1>2 DEF ServesOn, Open
<1>4. CASE threads'[h] = threads[h]
  BY <1>1, <1>4 DEF ServesOn, A!ServingThreads
<1>5. CASE \E g \in Hosts : AgentStep(g) \/ AgentEnds(g)
  <2>1. PICK g \in Hosts : AgentStep(g) \/ AgentEnds(g)
    BY <1>5
  <2>2. OnlyHost(g) /\ ThreadsAfter(g)
    BY <2>1, AgentMoves, ThreadsMove, MovesAlone
  <2>3. CASE g = h
    BY <1>1, <2>2, <2>3 DEF ThreadsAfter
  <2>4. CASE g # h
    BY <1>2, <1>4, <2>2, <2>4 DEF OnlyHost, SameHost
  <2> QED
    BY <2>3, <2>4
<1> QED
  BY <1>4, <1>5, AgentsRest

\* What the agent answers is open.
LEMMA AnsweredOpen ==
    ASSUME Serial, NEW h \in Hosts, agentPc[h] = "creating", done[h] # 0, List(threads[h]),
           NEW msg, msg = serving[h].message, ~msg.bypass
    PROVE  /\ done[h] = msg.flowPort
           /\ Open(h, A!Kind(msg), msg.target, msg.overlay, msg.flowPort)
<1> DEFINE n == Len(threads[h])
           t == threads[h][n]
<1>1. /\ threads[h] # <<>> /\ t.kind = A!Kind(msg) /\ t.target = msg.target
      /\ t.overlay = msg.overlay /\ t.port = msg.flowPort
      /\ t.state = "serving" /\ t.port = done[h]
  BY DEF Serial, NewestWorks
<1>2. n \in DOMAIN threads[h]
  BY <1>1, ListFacts
<1> QED
  BY <1>1, <1>2 DEF Open

\* The same flow with the same ends: no conjunct of PathsWired has more to say.
LEMMA FlowCommittedWired ==
    ASSUME ManagerInv, PathsWired, InCreateFlow, NEW f, CommitFlow(f),
           f.request = cur.request, f.entry = cur.entry, f.exit = cur.exit,
           f.newPort = cur.newPort,
           ~f.request.bypass => OutboundWired /\ InboundWired /\ f.inPort = f.newPort,
           UNCHANGED threads, rpc'.phase = "idle"
    PROVE  PathsWired'
<1>1. mpc' \in {"accept", "hung"} /\ granted' \in {granted, granted \cup {Grant(f)}}
  BY DEF CommitFlow, flowVars
<1>2. ASSUME ~f.request.bypass PROVE GrantWired(Grant(f))
  <2>1. /\ Grant(f).port = cur.newPort /\ Grant(f).request = cur.request
        /\ Grant(f).entry = cur.entry /\ Grant(f).exit = cur.exit
        /\ Grant(f).flow.outDst.address = outboundAgent.location.address
        /\ Grant(f).flow.inDst.address = inboundAgent.location.address
        /\ Grant(f).flow.inDst.port = f.inPort
    BY DEF Grant, StoredFlow
  <2>2. /\ cur.entry \in Nodes /\ cur.exit \in Nodes
        /\ OverlayPort(cur.entry) = OverlayPort(cur.exit)
    BY DEF ManagerInv, TypeInv, TypeOK, OverdraftInv, Reserved, FlowsInCreation
  <2>3. OutboundOpen(outboundAgent.location.address, cur, cur.newPort)
        /\ InboundOpen(inboundAgent.location.address, cur, cur.newPort)
        /\ f.inPort = cur.newPort
    BY <1>2 DEF OutboundWired, InboundWired
  <2> QED
    BY <2>1, <2>2, <2>3 DEF GrantWired, OutboundOpen, InboundOpen, OverlayPort
<1>3. Grant(f).request = f.request
  BY DEF Grant
<1>4. \A g \in granted' : ~g.request.bypass => GrantWired(g)
  BY <1>1, <1>2, <1>3 DEF PathsWired
<1>5. \A g \in granted' : ~g.request.bypass => GrantWired(g)'
  BY <1>4 DEF GrantWired, OutboundOpen, InboundOpen, Open, OverlayPort
<1> QED
  BY <1>1, <1>5 DEF PathsWired

\* The manager's own steps build the paths it was answered.
LEMMA ManagerWired ==
    ASSUME ManagerInv, PathsWired, UNCHANGED threads,
           ServeClient \/ Progress \/ Restart \/ Controller \/ ControllerFails \/ Kill
    PROVE  PathsWired'
<1>a. ASSUME rpc'.phase # "closed", granted' \in {granted, {}},
             mpc' \notin {"outbound", "inbound"} \/ rpc'.phase = "calling",
             mpc' = "inbound" => OutboundWired'
      PROVE  PathsWired'
  BY <1>a DEF PathsWired, GrantWired, OutboundOpen, InboundOpen, Open, OverlayPort
<1>0. TypeInv /\ TypeOK /\ DialInv
  BY DEF ManagerInv, TypeInv
<1>1. CASE ServeClient
  <2>1. PICK msg \in ClientMessages \cup {buf} : Dispatch(msg)
    BY <1>1 DEF ServeClient
  <2>2. mpc = "accept" /\ rpc.phase = "idle"
    BY <1>0, <1>1 DEF ServeClient, DialInv, TypeInv, TypeOK
  <2>3. CASE BeginFlow(msg.registerFlow)
    BY <1>a, <2>3 DEF BeginFlow, Calling
  <2>4. CASE RefuseRequest(msg.registerFlow) \/ DeleteFlow(msg.flowId) \/ Terminate \/ NoEffect
    BY <1>a, <2>2, <2>4 DEF RefuseRequest, DeleteFlow, Terminate, NoEffect, flowVars
  <2> QED
    BY <2>1, <2>3, <2>4 DEF Dispatch, RegisterFlow
<1>2. CASE OutboundOpened
  <2>1. OutboundWired
    BY <1>2 DEF OutboundOpened, Acked, PathsWired
  <2> QED
    BY <1>2, <1>a, <2>1
    DEF OutboundOpened, Calling, flowVars, frameVars, OutboundWired, OutboundOpen, Open
<1>3. CASE InboundOpened
  <2>1. PICK d : /\ Acked(d)
                 /\ LET f == [cur EXCEPT !.inPort = d]
                    IN  \/ ~f.request.bypass /\ CommitFlow(f)
                        \/ mpc' = "filing" /\ UNCHANGED flowVars
    BY <1>3 DEF InboundOpened
  <2>2. mpc = "inbound" /\ rpc' = NoCall /\ InCreateFlow /\ cur \in FlowsInCreation
    BY <1>0, <1>3 DEF InboundOpened, InCreateFlow, TypeOK
  <2>3. rpc.phase = "answered" /\ d = rpc.data /\ OutboundWired /\ InboundWired
    BY <2>1, <2>2 DEF Acked, PathsWired
  <2>4. PICK f : f = [cur EXCEPT !.inPort = d]
    OBVIOUS
  <2>5. /\ f.request = cur.request /\ f.entry = cur.entry /\ f.exit = cur.exit
        /\ f.newPort = cur.newPort /\ f.inPort = d
    BY <2>2, <2>4 DEF FlowsInCreation
  <2>6. CASE ~f.request.bypass /\ CommitFlow(f)
    <3>1. f.inPort = f.newPort
      BY <2>3, <2>5, <2>6 DEF InboundWired
    <3> QED
      BY <2>2, <2>3, <2>5, <2>6, <3>1, FlowCommittedWired DEF NoCall
  <2>7. CASE mpc' = "filing" /\ UNCHANGED flowVars
    BY <1>a, <2>2, <2>7 DEF NoCall, flowVars
  <2> QED
    BY <2>1, <2>4, <2>6, <2>7
<1>4. CASE ControllerDone
  BY <1>0, <1>4, FlowCommittedWired DEF ControllerDone, InCreateFlow, DialInv
<1>5. CASE OpenFailed \/ AgentUnreachable \/ FillRequestFile \/ Restart \/ Kill
  BY <1>0, <1>5, <1>a
  DEF OpenFailed, AgentUnreachable, FillRequestFile, Restart, Kill, NoCall, flowVars, DialInv
<1>6. CASE Controller \/ ControllerFails
  <2>1. UNCHANGED <<granted, mpc, cur, rpc, outboundAgent, inboundAgent>>
    BY <1>6 DEF Controller, ControllerFails, flowVars, frameVars
  <2> QED
    BY <2>1
    DEF PathsWired, GrantWired, OutboundWired, InboundWired, OutboundOpen, InboundOpen, Open
<1> QED
  BY <1>1, <1>2, <1>3, <1>4, <1>5, <1>6 DEF Progress

\* A step of the call alone.
LEMMA WiredKept ==
    ASSUME PathsWired, UNCHANGED <<threads, granted, mpc, cur, outboundAgent, inboundAgent>>,
           rpc'.phase # "closed",
           mpc = "outbound" /\ rpc'.phase = "answered" => OutboundWired,
           mpc = "inbound" /\ rpc'.phase = "answered" => InboundWired'
    PROVE  PathsWired'
<1>1. \A f \in granted : GrantWired(f) => GrantWired(f)'
  BY DEF GrantWired, OutboundOpen, InboundOpen, Open, OverlayPort
<1>2. OutboundWired => OutboundWired'
  BY DEF OutboundWired, OutboundOpen, Open
<1> QED
  BY <1>1, <1>2 DEF PathsWired

\* An agent's answer is true: the interface the manager asked for is open.
LEMMA AnswerWired ==
    ASSUME Shape, DialInv, Serial, CallersWait, PathsWired,
           NEW h \in Hosts, AgentReplies(h), Accepted(h)
    PROVE  PathsWired'
<1>1. /\ Awaited(h) /\ serving[h].message = rpc.message /\ ManagerWaits
      /\ rpc' = CallEnds("answered", done[h])
      /\ agentPc[h] = "creating" /\ done[h] # 0 /\ UNCHANGED threads
  BY DEF CallersWait, AgentReplies, A!AnswerCaller, A!dataVars
<1>2. List(threads[h])
  BY DEF Shape, HostShape
<1>3. rpc.phase = "calling" /\ h = rpc.agent.location.address
  BY <1>1 DEF Awaited
<1>4. UNCHANGED <<mpc, granted, cur, outboundAgent, inboundAgent>>
  BY <1>1 DEF ManagerWaits, flowVars, frameVars
<1>5. rpc'.phase = "answered" /\ rpc'.data = done[h]
  BY <1>1 DEF CallEnds
<1>6. ASSUME mpc = "outbound", ~cur.request.bypass
      PROVE  OutboundOpen(outboundAgent.location.address, cur, cur.newPort)
  <2>1. PICK m : m = OutboundMessage(cur)
    OBVIOUS
  <2>2. /\ m.bypass = cur.request.bypass /\ m.target = cur.request.dst
        /\ m.overlay = OverlayList[cur.exit].location /\ m.flowPort = cur.newPort
        /\ A!Kind(m) = "outbound"
    BY <1>6, <2>1 DEF OutboundMessage, A!Kind
  <2>3. rpc.message = m /\ rpc.agent = outboundAgent
    BY <1>6, <2>1 DEF DialInv
  <2> QED
    BY <1>1, <1>2, <1>3, <1>6, <2>2, <2>3, AnsweredOpen DEF OutboundOpen
<1>7. ASSUME mpc = "inbound", ~cur.request.bypass
      PROVE  /\ done[h] = cur.newPort
             /\ InboundOpen(inboundAgent.location.address, cur, cur.newPort)
  <2>1. PICK m : m = InboundMessage(cur)
    OBVIOUS
  <2>2. /\ m.bypass = cur.request.bypass /\ m.overlay = OverlayList[cur.entry].location
        /\ m.target = [address |-> OverlayList[cur.exit].location.address,
                       port |-> cur.newPort]
        /\ m.flowPort = cur.newPort /\ A!Kind(m) = "inbound"
    BY <1>7, <2>1 DEF InboundMessage, A!Kind
  <2>3. rpc.message = m /\ rpc.agent = inboundAgent
    BY <1>7, <2>1 DEF DialInv
  <2> QED
    BY <1>1, <1>2, <1>3, <1>7, <2>2, <2>3, AnsweredOpen DEF InboundOpen
<1>8. mpc = "outbound" => OutboundWired
  BY <1>6 DEF OutboundWired
<1>9. mpc = "inbound" => InboundWired'
  BY <1>1, <1>4, <1>5, <1>7 DEF InboundWired, InboundOpen, Open
<1> QED
  BY <1>1, <1>4, <1>5, <1>8, <1>9, WiredKept

LEMMA WiredStep ==
    Shape /\ SystemInv /\ ThreadsInv /\ WiredInv /\ [SystemNext]_systemVars => WiredInv'
<1> SUFFICES ASSUME Shape, SystemInv, ThreadsInv, WiredInv, [SystemNext]_systemVars, Quiet'
             PROVE  PathsWired' /\ \A h \in Hosts : AgentUp(h)'
  BY DEF WiredInv
<1>0. /\ errors = 0 /\ errors' = 0 /\ direct = 0 /\ ManagersThreads /\ PathsWired
      /\ ManagerInv /\ DialInv /\ Serial /\ CallersWait
      /\ \A h \in Hosts : AgentUp(h)
  BY HistoryStep DEF Quiet, WiredInv, SystemInv, ManagerInv, ThreadsInv
<1>1. \A h \in Hosts : AgentUp(h)'
  <2>1. CASE UNCHANGED agentPc
    BY <1>0, <2>1 DEF AgentUp
  <2>2. CASE \E h \in Hosts : AgentStep(h) \/ AgentEnds(h)
    <3>1. PICK h \in Hosts : AgentStep(h) \/ AgentEnds(h)
      BY <2>2
    <3>2. AgentUp(h)' /\ OnlyHost(h)
      BY <1>0, <3>1, QuietAgents, AgentMoves, MovesAlone
    <3> QED
      BY <1>0, <3>2 DEF OnlyHost, SameHost, AgentUp
  <2> QED
    BY <2>1, <2>2, AgentsRest
<1>2. PathsWired'
  <2>1. CASE ManagerStep \/ ManagerKilled
    BY <1>0, <2>1, ManagerWired
    DEF ManagerStep, ManagerKilled, agentVars, dataVars
  <2>2. CASE CallRefused \/ UNCHANGED systemVars
    <3>1. /\ UNCHANGED <<threads, granted, mpc, cur, outboundAgent, inboundAgent>>
          /\ rpc' = rpc \/ rpc'.phase = "refused"
      BY <2>2
      DEF CallRefused, ManagerWaits, CallEnds, systemVars, vars, agentVars, dataVars,
          flowVars, frameVars
    <3>2. rpc' = rpc => (InboundWired => InboundWired')
      BY <3>1 DEF InboundWired, InboundOpen, Open
    <3> QED
      BY <1>0, <3>1, <3>2, WiredKept DEF PathsWired
  <2>3. CASE \E h \in Hosts : AgentStep(h) \/ AgentEnds(h)
    <3>1. PICK h \in Hosts : AgentStep(h) \/ AgentEnds(h)
      BY <2>3
    <3>2. CASE AgentReplies(h) /\ Accepted(h)
      BY <1>0, <3>2, AnswerWired
    <3>3. CASE rpc' = rpc
      <4>1. UNCHANGED <<mpc, granted, cur, outboundAgent, inboundAgent>>
        BY <3>1
        DEF AgentStep, AgentEnds, AgentAccepts, AgentAcceptsOrphan, AgentReplies, ThreadRuns,
            AgentAlone, CallsDropped, ManagerWaits, vars, flowVars, frameVars
      <4>2. \A f \in granted : GrantWired(f) => GrantWired(f)'
        BY <1>0, <1>1, OpenKept DEF GrantWired, OutboundOpen, InboundOpen, OverlayPort
      <4>3. OutboundWired => OutboundWired'
        BY <1>0, <1>1, <4>1, OpenKept DEF OutboundWired, OutboundOpen
      <4>4. InboundWired => InboundWired'
        BY <1>0, <1>1, <3>3, <4>1, OpenKept DEF InboundWired, InboundOpen
      <4> QED
        BY <1>0, <3>3, <4>1, <4>2, <4>3, <4>4 DEF PathsWired
    <3> QED
      BY <1>0, <3>1, <3>2, <3>3, QuietAgents
  <2> QED
    BY <2>1, <2>2, <2>3 DEF SystemNext
<1> QED
  BY <1>1, <1>2

----------------------------------------------------------------------------
(* The ports of the threads, until the manager is started again.           *)

\* What the manager sends fits what it knows.
LEMMA MessageFits ==
    ASSUME TypeInv, DialInv, NumberInv, rpc.phase # "idle"
    PROVE  Fits(A!NewThread(rpc.message))
<1>1. /\ mpc \in {"outbound", "inbound"} /\ cur \in FlowsInCreation /\ cur # NoFlow
      /\ rpc.message \in {OutboundMessage(cur), InboundMessage(cur)}
  BY MessageSent, FlowInCreation
<1>2. cur.newPort \in portHash
  BY <1>1 DEF NumberInv, PortLedger
<1>3. ASSUME NEW k \in KnownEnds, k.port = cur.newPort
      PROVE  k.exit = cur.exit /\ k.dst = cur.request.dst
  <2>1. CASE k = End(cur, cur.newPort)
    BY <2>1 DEF End
  <2>2. CASE \E f \in granted : k = End(f, f.port)
    BY <1>1, <1>3, <2>2 DEF End, NumberInv, PortsUnique
  <2> QED
    BY <1>1, <2>1, <2>2 DEF KnownEnds
<1>4. ASSUME NEW m, m \in {OutboundMessage(cur), InboundMessage(cur)}
      PROVE  Fits(A!NewThread(m))
  <2>1. PICK t : t = A!NewThread(m)
    OBVIOUS
  <2>2. /\ m.bypass = cur.request.bypass /\ m.flowPort = cur.newPort
        /\ t.kind = A!Kind(m) /\ t.target = m.target
        /\ t.port = IF m.bypass THEN 0 ELSE m.flowPort
    BY <1>4, <2>1 DEF OutboundMessage, InboundMessage, A!NewThread
  <2>3. t.kind # "bypass" => ~m.bypass /\ t.port = cur.newPort
    BY <2>2 DEF A!Kind
  <2>4. \/ m.target = cur.request.dst /\ A!Kind(m) \in {"outbound", "bypass"}
        \/ /\ m.target = [address |-> OverlayList[cur.exit].location.address,
                          port |-> cur.newPort]
           /\ A!Kind(m) \in {"inbound", "bypass"}
    BY <1>4 DEF OutboundMessage, InboundMessage, A!Kind
  <2> QED
    BY <1>2, <1>3, <2>1, <2>2, <2>3, <2>4 DEF Fits
<1> QED
  BY <1>1, <1>4

\* A port that is handed out is new to every thread.
LEMMA FitsOn ==
    ASSUME TypeInv, NumberInv, [Next]_vars, restarts' = 0, NEW t, Fits(t)
    PROVE  Fits(t)'
<1>a. ASSUME portHash' = portHash, KnownEnds' \subseteq KnownEnds
      PROVE  Fits(t)'
  BY <1>a DEF Fits
<1>b. ASSUME UNCHANGED <<portHash, granted, cur>>
      PROVE  Fits(t)'
  BY <1>a, <1>b DEF KnownEnds
<1>c. ASSUME NEW f, CommitFlow(f), UNCHANGED portHash, cur # NoFlow,
             f.request = cur.request, f.exit = cur.exit, f.newPort = cur.newPort
      PROVE  Fits(t)'
  <2>1. End(f, f.newPort) = End(cur, cur.newPort)
    BY <1>c DEF End
  <2>2. End(Grant(f), Grant(f).port) = End(f, f.newPort)
    BY DEF End, Grant
  <2>3. \/ cur' = NoFlow /\ granted' = granted \cup {Grant(f)}
        \/ cur' = f /\ granted' = granted
    BY <1>c DEF CommitFlow, flowVars
  <2>4. KnownEnds' \subseteq KnownEnds
    BY <1>c, <2>1, <2>2, <2>3 DEF KnownEnds
  <2> QED
    BY <1>a, <1>c, <2>4
<1>1. CASE UNCHANGED vars
  BY <1>1, <1>b DEF vars, portVars, flowVars
<1>2. CASE ServeClient
  <2>1. PICK msg \in ClientMessages \cup {buf} : Dispatch(msg)
    BY <1>2 DEF ServeClient
  <2>2. CASE BeginFlow(msg.registerFlow)
    <3>1. cur = NoFlow /\ granted' = granted /\ portHash' = portHash \cup {port}
          /\ cur'.newPort = port
      BY <1>2, <2>2
      DEF ServeClient, TypeInv, CounterLedger, BeginFlow, requestPort, NewFlow
    <3>2. \A k \in KnownEnds' : k \in KnownEnds \/ k.port = port
      BY <3>1 DEF KnownEnds, End
    <3>3. port \notin portHash
      BY DEF NumberInv, PortLedger, TypeInv, TypeOK
    <3> QED
      BY <3>1, <3>2, <3>3 DEF Fits
  <2>3. CASE RefuseRequest(msg.registerFlow) \/ DeleteFlow(msg.flowId) \/ Terminate \/ NoEffect
    BY <2>3, <1>b DEF RefuseRequest, DeleteFlow, Terminate, NoEffect, portVars, flowVars
  <2> QED
    BY <2>1, <2>2, <2>3 DEF Dispatch, RegisterFlow
<1>3. CASE InboundOpened
  <2>1. cur # NoFlow /\ cur \in FlowsInCreation /\ UNCHANGED portHash
    BY <1>3 DEF InboundOpened, TypeInv, TypeOK, InCreateFlow, portVars
  <2>2. PICK d, f : /\ f = [cur EXCEPT !.inPort = d]
                    /\ CommitFlow(f) \/ (cur' = f /\ UNCHANGED flowVars)
    BY <1>3 DEF InboundOpened
  <2>3. f.request = cur.request /\ f.exit = cur.exit /\ f.newPort = cur.newPort
    BY <2>1, <2>2 DEF FlowsInCreation
  <2>4. CASE cur' = f /\ UNCHANGED flowVars
    <3>1. End(f, f.newPort) = End(cur, cur.newPort)
      BY <2>3 DEF End
    <3> QED
      BY <1>a, <2>1, <2>4, <3>1 DEF KnownEnds, flowVars
  <2> QED
    BY <1>c, <2>1, <2>2, <2>3, <2>4
<1>4. CASE ControllerDone
  BY <1>4, <1>c DEF ControllerDone, TypeInv, TypeOK, InCreateFlow, portVars
<1>5. CASE OpenFailed
  BY <1>5, <1>a DEF OpenFailed, portVars, KnownEnds
<1>6. CASE \/ OutboundOpened \/ AgentUnreachable \/ FillRequestFile \/ Kill \/ Agents
           \/ Controller \/ ControllerFails
  BY <1>6, <1>b
  DEF OutboundOpened, AgentUnreachable, FillRequestFile, Kill, Agents, Controller,
      ControllerFails, ControllerDies, RestartController, portVars, flowVars
<1>7. CASE Restart
  BY <1>7 DEF Restart, TypeInv, TypeOK
<1> QED
  BY <1>1, <1>2, <1>3, <1>4, <1>5, <1>6, <1>7 DEF Next, Progress

LEMMA OwnPortsStep ==
    /\ PortsCovered /\ Shape /\ SystemInv /\ OwnPorts
    /\ [SystemNext]_systemVars
    => OwnPorts'
<1> SUFFICES ASSUME PortsCovered, Shape, SystemInv, OwnPorts, [SystemNext]_systemVars,
                    errors' = 0, direct' = 0, restarts' = 0
             PROVE  /\ \A o \in orphans' : Fits(A!NewThread(o.message))'
                    /\ \A g \in Hosts : \A j \in DOMAIN threads'[g] : Fits(threads[g][j])'
  BY DEF OwnPorts
<1>1. /\ errors = 0 /\ direct = 0 /\ Serial /\ CallersWait
      /\ TypeInv /\ DialInv /\ NumberInv
  BY HistoryStep DEF SystemInv, ManagerInv
<1>2. [Next]_vars
  BY <1>1, StepImplements
<1>3. restarts = 0
  <2>1. restarts' = restarts \/ Restart
    BY <1>2
    DEF Next, vars, historyVars, ServeClient, Dispatch, RegisterFlow, RefuseRequest,
        BeginFlow, DeleteFlow, Terminate, NoEffect, Progress, OutboundOpened, InboundOpened,
        OpenFailed, AgentUnreachable, FillRequestFile, ControllerDone, Kill, Agents,
        Controller, ControllerFails, ControllerDies, RestartController
  <2> QED
    BY <1>1, <2>1 DEF Restart, TypeInv, TypeOK
<1>4. \A t : Fits(t) => Fits(t)'
  BY <1>1, <1>2, FitsOn
<1>5. \A m : rpc.phase # "idle" /\ m = rpc.message => Fits(A!NewThread(m))
  BY <1>1, MessageFits
<1>6. \A o \in orphans : Fits(A!NewThread(o.message))
  BY <1>1, <1>3 DEF OwnPorts
<1>7. ASSUME NEW o \in orphans' PROVE Fits(A!NewThread(o.message))'
  <2>1. Fits(A!NewThread(o.message))
    BY <1>5, <1>6, <1>7, OrphansStep
  <2> QED
    BY <1>4, <2>1
<1>8. ASSUME NEW g \in Hosts, NEW j \in DOMAIN threads'[g]
      PROVE  Fits(threads[g][j])'
  <2>0. PICK t : t = threads'[g][j]
    OBVIOUS
  <2>1. SUFFICES Fits(threads'[g][j])
    BY <1>4, <2>0 DEF Fits
  <2>2. CASE threads'[g] = threads[g]
    BY <1>1, <1>3, <1>8, <2>2 DEF OwnPorts
  <2>3. CASE \E h \in Hosts : AgentStep(h) \/ AgentEnds(h)
    <3>1. PICK h \in Hosts : AgentStep(h) \/ AgentEnds(h)
      BY <2>3
    <3>2. OnlyHost(h) /\ ThreadsAfter(h)
      BY <3>1, AgentMoves, ThreadsMove, MovesAlone
    <3>3. CASE g # h
      BY <2>2, <3>2, <3>3 DEF OnlyHost, SameHost
    <3>4. CASE g = h
      <4>1. CASE \E i \in DOMAIN threads[h] : Descends(threads'[h][j], threads[h][i])
        BY <1>1, <1>3, <3>4, <4>1 DEF Descends, OwnPorts, Fits
      <4>2. CASE Newcomer(h, threads'[h][j])
        BY <1>5, <1>6, <3>1, <3>4, <4>2, AddedIs DEF Newcomer
      <4> QED
        BY <1>8, <3>2, <3>4, <4>1, <4>2 DEF ThreadsAfter
    <3> QED
      BY <3>3, <3>4
  <2> QED
    BY <2>2, <2>3, AgentsRest
<1> QED
  BY <1>7, <1>8

----------------------------------------------------------------------------
(* The theorems.                                                           *)

LEMMA InitPathsInv == SystemInit => ThreadsInv /\ WiredInv /\ OwnPorts
<1> SUFFICES ASSUME SystemInit PROVE ThreadsInv /\ WiredInv /\ OwnPorts
  OBVIOUS
<1>1. /\ orphans = {} /\ granted = {} /\ rpc.phase = "idle" /\ mpc = "accept"
      /\ \A h \in Hosts : threads[h] = <<>> /\ agentPc[h] = "accept"
  BY DEF SystemInit, Init, A!Init, NoCall
<1>2. ThreadsInv
  BY <1>1 DEF ThreadsInv, ManagersThreads, Exclusive, A!ServingThreads
<1>3. WiredInv
  BY <1>1 DEF WiredInv, PathsWired, AgentUp
<1>4. OwnPorts
  BY <1>1 DEF OwnPorts
<1> QED
  BY <1>2, <1>3, <1>4

PathsInv == Shape /\ SystemInv /\ ThreadsInv /\ WiredInv /\ OwnPorts

LEMMA SystemInvariant ==
    ASSUME PortsCovered PROVE SystemSpec => []PathsInv
<1>1. SystemInit => PathsInv
  BY InitSystemInv, InitPathsInv DEF PathsInv
<1>2. PathsInv /\ [SystemNext]_systemVars => PathsInv'
  BY ShapeStep, SystemStep, ThreadsStep, WiredStep, OwnPortsStep DEF PathsInv
<1> QED
  BY <1>1, <1>2, PTL DEF SystemSpec

\* What is delivered for a flow comes out of a thread that carries on what the
\* thread at the flow's inbound interface sends.
LEMMA DeliveredBy ==
    ASSUME NEW location, NEW dst, dst \in Delivered(location)
    PROVE  \E h \in Hosts :
             \E i \in A!ServingThreads(location.address) : \E j \in A!ServingThreads(h) :
                /\ threads[h][j].target = dst
                /\ threads[location.address][i].port = location.port
                /\ Carries(threads[location.address][i], threads[h][j])
<1>1. PICK v \in UNION {ServingAt(h) : h \in Hosts} :
        /\ v.target = dst
        /\ \E t \in ServingAt(location.address) : t.port = location.port /\ Carries(t, v)
  BY DEF Delivered
<1>2. PICK h \in Hosts : v \in ServingAt(h)
  BY <1>1
<1>3. PICK j \in A!ServingThreads(h) : v = threads[h][j]
  BY <1>2 DEF ServingAt
<1>4. PICK t \in ServingAt(location.address) : t.port = location.port /\ Carries(t, v)
  BY <1>1
<1>5. PICK i \in A!ServingThreads(location.address) : t = threads[location.address][i]
  BY <1>4 DEF ServingAt
<1> QED
  BY <1>1, <1>2, <1>3, <1>4, <1>5

LEMMA WiredDelivers ==
    ASSUME Shape, ManagersThreads, direct = 0, Exclusive, NEW f \in granted, GrantWired(f),
           f.port \in 1 .. PortSpace - 1
    PROVE  Delivered(f.flow.inDst) = {f.request.dst}
<1> DEFINE a == f.flow.inDst.address
           b == f.flow.outDst.address
<1>1. PICK i \in A!ServingThreads(a) :
        /\ a \in Hosts
        /\ threads[a][i].kind = "inbound" /\ threads[a][i].port = f.port
        /\ threads[a][i].target =
             [address |-> OverlayList[f.exit].location.address, port |-> f.port]
        /\ threads[a][i].overlay = OverlayList[f.entry].location
  BY DEF GrantWired, InboundOpen, Open, A!ServingThreads
<1>2. PICK j \in A!ServingThreads(b) :
        /\ b \in Hosts
        /\ threads[b][j].kind = "outbound" /\ threads[b][j].port = f.port
        /\ threads[b][j].target = f.request.dst
        /\ threads[b][j].overlay = OverlayList[f.exit].location
  BY DEF GrantWired, OutboundOpen, Open, A!ServingThreads
<1>3. /\ f.flow.inDst.port = f.port /\ f.exit \in Nodes
      /\ OverlayList[f.entry].location.port = OverlayList[f.exit].location.port
  BY DEF GrantWired, OverlayPort
<1>4. f.request.dst \in Delivered(f.flow.inDst)
  <2>1. threads[a][i] \in ServingAt(a) /\ threads[b][j] \in ServingAt(b)
    BY <1>1, <1>2 DEF ServingAt
  <2>2. Carries(threads[a][i], threads[b][j])
    BY <1>1, <1>2, <1>3 DEF Carries
  <2> QED
    BY <1>1, <1>2, <1>3, <2>1, <2>2 DEF Delivered
<1>5. ASSUME NEW dst \in Delivered(f.flow.inDst) PROVE dst = f.request.dst
  <2>1. PICK h, k, l :
          /\ h \in Hosts /\ k \in A!ServingThreads(a) /\ l \in A!ServingThreads(h)
          /\ threads[h][l].target = dst
          /\ threads[a][k].port = f.port
          /\ Carries(threads[a][k], threads[h][l])
    BY <1>3, <1>5, DeliveredBy
  <2>2. A!Port16(f.port) # 0
    BY AgentParameters DEF A!Port16
  <2>3. k = i
    BY <1>1, <2>1, <2>2 DEF Exclusive, Carries
  <2>4. PICK t, u : t = threads[a][i] /\ u = threads[h][l]
    OBVIOUS
  <2>5. /\ u.kind = "outbound" /\ u.overlay.port = OverlayList[f.exit].location.port
        /\ [address |-> OverlayList[f.exit].location.address, port |-> f.port]
             = [address |-> u.overlay.address, port |-> u.port]
    BY <1>1, <1>3, <2>1, <2>3, <2>4 DEF Carries
  <2>6. u.overlay.address = OverlayList[f.exit].location.address /\ u.port = f.port
    BY <2>5
  <2>7. PICK n \in Nodes : u.overlay = OverlayList[n].location
    BY <2>1, <2>4 DEF ManagersThreads, NodeLocations, A!ServingThreads
  <2>8. u.overlay = OverlayList[f.exit].location
    <3>1. /\ u.overlay = [address |-> u.overlay.address, port |-> u.overlay.port]
          /\ OverlayList[f.exit].location =
               [address |-> OverlayList[f.exit].location.address,
                port |-> OverlayList[f.exit].location.port]
      BY <1>3, <2>7, NodeAssumption
    <3> QED
      BY <2>5, <2>6, <3>1
  <2>9. h = b /\ l = j
    BY <1>2, <2>1, <2>4, <2>5, <2>6, <2>8 DEF Exclusive
  <2> QED
    BY <1>2, <2>1, <2>9
<1> QED
  BY <1>4, <1>5

\* Theorem.  As long as no socket fails and no agent is killed, an acknowledged
\* flow carries what is sent to it to its destination and nowhere else.
THEOREM PathWiredCorrect ==
    ASSUME PortsCovered PROVE SystemSpec => []PathWired
<1>1. PathsInv => PathWired
  <2> SUFFICES ASSUME PathsInv, errors + kills + direct = 0, NEW f \in OverlayFlows
               PROVE  Delivered(f.flow.inDst) = {f.request.dst}
    BY DEF PathWired
  <2>1. Quiet
    BY DEF Quiet, PathsInv, Shape
  <2>2. f \in granted /\ ~f.request.bypass /\ f.port \in 1 .. PortSpace - 1
    BY DEF OverlayFlows
  <2>3. GrantWired(f)
    BY <2>1, <2>2 DEF PathsInv, WiredInv, PathsWired
  <2> QED
    BY <2>1, <2>2, <2>3, WiredDelivers DEF PathsInv, ThreadsInv, Quiet
<1> QED
  BY <1>1, SystemInvariant, PTL

\* Theorem.  What is sent to an acknowledged flow is delivered to no other
\* destination, though agents die, or the manager is started again.
THEOREM NoMisdeliveryCorrect ==
    ASSUME PortsCovered PROVE SystemSpec => []NoMisdelivery
<1>1. PathsInv => NoMisdelivery
  <2> SUFFICES ASSUME PathsInv, errors + direct = 0, kills = 0 \/ restarts = 0,
                      NEW f \in OverlayFlows, f.flow.inDst.port = f.port,
                      NEW dst \in Delivered(f.flow.inDst)
               PROVE  dst = f.request.dst
    BY DEF NoMisdelivery
  <2>1. errors = 0 /\ direct = 0 /\ f \in granted /\ ~f.request.bypass
        /\ f.port \in 1 .. PortSpace - 1
    BY DEF PathsInv, Shape, OverlayFlows
  <2>2. CASE kills = 0
    <3>1. GrantWired(f)
      BY <2>1, <2>2 DEF PathsInv, WiredInv, PathsWired, Quiet
    <3> QED
      BY <2>1, <3>1, WiredDelivers DEF PathsInv, ThreadsInv
  <2>3. CASE restarts = 0
    <3> DEFINE a == f.flow.inDst.address
    <3>1. PICK h, i, j :
            /\ h \in Hosts /\ i \in A!ServingThreads(a) /\ j \in A!ServingThreads(h)
            /\ threads[h][j].target = dst
            /\ threads[a][i].port = f.port
            /\ Carries(threads[a][i], threads[h][j])
      BY DeliveredBy
    <3>2. PICK t, u : t = threads[a][i] /\ u = threads[h][j]
      OBVIOUS
    <3>3. /\ t.kind = "inbound" /\ t.port = f.port /\ u.kind = "outbound" /\ u.target = dst
          /\ t.target = [address |-> u.overlay.address, port |-> u.port]
      BY <3>1, <3>2 DEF Carries
    <3>4. a \in Hosts
      BY <2>1 DEF PathsInv, SystemInv, ManagerInv, ReachedInv, Hosts
    <3>5. Fits(t) /\ Fits(u)
      BY <2>1, <2>3, <3>1, <3>2, <3>4 DEF PathsInv, OwnPorts, A!ServingThreads
    <3>6. PICK k \in KnownEnds : k.port = f.port /\ k.dst = f.request.dst
      <4>1. End(f, f.port) \in KnownEnds
        BY <2>1 DEF KnownEnds
      <4>2. End(f, f.port).port = f.port /\ End(f, f.port).dst = f.request.dst
        BY DEF End
      <4> QED
        BY <4>1, <4>2
    <3>7. t.target = [address |-> OverlayList[k.exit].location.address, port |-> f.port]
      BY <3>3, <3>5, <3>6 DEF Fits
    <3>8. u.port = f.port
      BY <3>3, <3>7
    <3> QED
      BY <3>3, <3>5, <3>6, <3>8 DEF Fits
  <2> QED
    BY <2>2, <2>3
<1> QED
  BY <1>1, SystemInvariant, PTL

=============================================================================
