----------------------------- MODULE AgentControl -----------------------------
(***************************************************************************)
(* The agents: agent_control.c (the control loop) and agent_data.c (the    *)
(* threads that carry the traffic of a flow).  A host runs at most one     *)
(* agent, because the control port is fixed.                               *)
(*                                                                         *)
(* A control thread serves one connection at a time.  For an ADD message   *)
(* create_interface clears the global `done', starts a thread and polls    *)
(* until `done' is set; the value it finds is the port it answers with.    *)
(* `agentPc' says where the control thread is:                             *)
(*   accept    in accept (agent_control.c:67)                              *)
(*   creating  polling `done' (agent_data.c:77)                            *)
(*   hung      in a map operation that never returns                       *)
(*   stopped   after TERMINATE          crashed  after a signal            *)
(* and every thread it started is                                          *)
(*   starting  before its interface is open, retrying where it retries     *)
(*   failing   retrying while no socket can be opened, for a while or for  *)
(*             good (the attempts leak descriptors, which run out)         *)
(*   serving   in its forwarding loop                                      *)
(*   ended                                                                 *)
(* An attempt that finds its port busy and is retried with the same one    *)
(* changes nothing here; the descriptors it leaks are not counted.         *)
(*                                                                         *)
(* Spines is external: a port can be bound once at a daemon, and a daemon  *)
(* may refuse a session or drop one.                                       *)
(***************************************************************************)
EXTENDS FlowMap, Sequences

CONSTANTS
    Hosts,            \* the addresses agents run at
    DirectMessages,   \* what connections that are not the manager's may send
    NoAddress,        \* the address of a Location that was left out
    FirstBypassPort,  \* 11567 at agent_data.c:30
    TakenPorts,       \* UDP ports other processes hold, on every host
    PortSpace,        \* 65536: ports are cut to 16 bits by htons
    MaxDirect,        \* bound: connections that are not the manager's
    MaxErrors,        \* bound: errors of sockets and of Spines
    MaxKills          \* bound: signals that end an agent

ASSUME AgentPortAssumption ==
    /\ FirstBypassPort \in Nat \ {0}
    /\ PortSpace \in Nat \ {0}
    /\ TakenPorts \subseteq Nat

ASSUME AgentBoundAssumption ==
    MaxDirect \in Nat /\ MaxErrors \in Nat /\ MaxKills \in Nat

AddTypes == {"ADD_FLOW_ROUTING_INBOUND", "ADD_FLOW_ROUTING_OUTBOUND"}

\* What the agent reads of a message.  A negative flow number is not a key of
\* map.c:44, where it would be the mark of a free slot or an index below zero.
ASSUME AgentMessageAssumption ==
    \A msg \in DirectMessages :
        /\ msg.type \in AddTypes =>
               msg.flowId \in Nat /\ msg.bypass \in BOOLEAN /\ msg.flowPort \in Nat
        /\ msg.type = "REMOVE_FLOW_ROUTING" => msg.flowId \in Nat

VARIABLES
    agentPc,         \* where the control thread is, per host
    agentBuf,        \* run_control's receive buffer
    serving,         \* the connection create_interface works for
    done,            \* the global the threads signal with
    currentPort,     \* the next port tried for a bypass
    flowRoutingMap,  \* the flow routings of the agent
    threads,         \* the threads started, in order
    frame,           \* the target in create_interface's last stack frame
    acked,           \* history: acknowledgements sent since the agent started
    forgotten,       \* history: flow numbers removed since the agent started
    direct,          \* history: connections that are not the manager's
    errors,          \* history: errors of sockets and of Spines
    kills            \* history: signals

controlVars == <<agentPc, agentBuf, serving, flowRoutingMap, acked, forgotten>>
dataVars == <<done, currentPort, threads, frame>>
boundVars == <<direct, errors, kills>>
agentVars == <<controlVars, dataVars, boundVars>>

UnreadBuffer == [type |-> "UNKNOWN"]

NoService == [caller |-> "nobody"]

NoTarget == [address |-> NoAddress, port |-> 0]

FreshAgent(h) ==
    /\ agentBuf' = [agentBuf EXCEPT ![h] = UnreadBuffer]
    /\ serving' = [serving EXCEPT ![h] = NoService]
    /\ done' = [done EXCEPT ![h] = 0]
    /\ currentPort' = [currentPort EXCEPT ![h] = FirstBypassPort]
    /\ flowRoutingMap' = [flowRoutingMap EXCEPT ![h] = map_create]
    /\ threads' = [threads EXCEPT ![h] = <<>>]
    /\ frame' = [frame EXCEPT ![h] = NoTarget]
    /\ acked' = [acked EXCEPT ![h] = {}]
    /\ forgotten' = [forgotten EXCEPT ![h] = {}]

Init ==
    /\ agentPc = [h \in Hosts |-> "accept"]
    /\ agentBuf = [h \in Hosts |-> UnreadBuffer]
    /\ serving = [h \in Hosts |-> NoService]
    /\ done = [h \in Hosts |-> 0]
    /\ currentPort = [h \in Hosts |-> FirstBypassPort]
    /\ flowRoutingMap = [h \in Hosts |-> map_create]
    /\ threads = [h \in Hosts |-> <<>>]
    /\ frame = [h \in Hosts |-> NoTarget]
    /\ acked = [h \in Hosts |-> {}]
    /\ forgotten = [h \in Hosts |-> {}]
    /\ direct = 0
    /\ errors = 0
    /\ kills = 0

----------------------------------------------------------------------------
(* The control loop: agent_control.c:66-124.                               *)

Kind(msg) ==
    IF msg.bypass THEN "bypass"
    ELSE IF msg.type = "ADD_FLOW_ROUTING_INBOUND" THEN "inbound" ELSE "outbound"

\* A bypass thread takes its port when it runs, and no overlay.
NewThread(msg) ==
    [kind |-> Kind(msg), target |-> msg.target, overlay |-> msg.overlay,
     port |-> IF msg.bypass THEN 0 ELSE msg.flowPort, state |-> "starting"]

\* Mutant of create_interface: `done' is not cleared.
create_interface_KeepsDone(h, msg) ==
    /\ frame' = [frame EXCEPT ![h] = msg.target]
    /\ threads' = [threads EXCEPT ![h] = Append(@, NewThread(msg))]
    /\ UNCHANGED <<done, currentPort>>

\* Mutant of create_interface: the branch for a bypass starts no thread.
create_interface_NoBypass(h, msg) ==
    /\ done' = [done EXCEPT ![h] = 0]
    /\ frame' = [frame EXCEPT ![h] = msg.target]
    /\ threads' = IF msg.bypass THEN threads
                  ELSE [threads EXCEPT ![h] = Append(@, NewThread(msg))]
    /\ UNCHANGED currentPort

\* create_interface up to its polling loop.
create_interface(h, msg) ==
    /\ done' = [done EXCEPT ![h] = 0]
    /\ frame' = [frame EXCEPT ![h] = msg.target]
    /\ threads' = [threads EXCEPT ![h] = Append(@, NewThread(msg))]
    /\ UNCHANGED currentPort

AddRouting(h, msg, caller) ==
    /\ create_interface(h, msg)
    /\ serving' = [serving EXCEPT ![h] = [message |-> msg, caller |-> caller]]
    /\ agentPc' = [agentPc EXCEPT ![h] = "creating"]
    /\ UNCHANGED <<flowRoutingMap, acked, forgotten>>

RemoveRouting(h, flowId) ==
    /\ \/ /\ ~DeleteHangs(flowRoutingMap[h], flowId)
          /\ flowRoutingMap' = [flowRoutingMap EXCEPT ![h] = map_delete(@, flowId)]
          /\ forgotten' = [forgotten EXCEPT ![h] = @ \cup {flowId}]
          /\ UNCHANGED agentPc
       \/ /\ DeleteHangs(flowRoutingMap[h], flowId)
          /\ agentPc' = [agentPc EXCEPT ![h] = "hung"]
          /\ UNCHANGED <<flowRoutingMap, forgotten>>
    /\ UNCHANGED <<serving, acked, dataVars>>

\* run_control returns and main with it: the process ends with its threads.
TerminateAgent(h) ==
    /\ FreshAgent(h)
    /\ agentPc' = [agentPc EXCEPT ![h] = "stopped"]

PrintRoutings(h) ==
    /\ flowRoutingMap' = [flowRoutingMap EXCEPT ![h] = AfterRead(@)]
    /\ UNCHANGED <<agentPc, serving, acked, forgotten, dataVars>>

\* The control thread accepts a connection of `caller' and handles its message.
Receive(h, msg, caller) ==
    /\ agentPc[h] = "accept"
    /\ \/ msg.type \in AddTypes /\ AddRouting(h, msg, caller)
       \/ msg.type = "REMOVE_FLOW_ROUTING" /\ RemoveRouting(h, msg.flowId)
       \/ msg.type = "PRINT_STATE" /\ PrintRoutings(h)
       \/ /\ msg.type = "UNKNOWN"
          /\ UNCHANGED <<agentPc, serving, flowRoutingMap, acked, forgotten, dataVars>>
    /\ agentBuf' = [agentBuf EXCEPT ![h] = msg]

\* A connection that is not the manager's; one that sends nothing leaves the
\* previous message in the buffer, and it is handled again.
AcceptDirect(h) ==
    /\ direct < MaxDirect
    /\ direct' = direct + 1
    /\ \/ \E msg \in DirectMessages \cup {agentBuf[h]} : Receive(h, msg, "client")
       \/ agentPc[h] = "accept" /\ TerminateAgent(h)
    /\ UNCHANGED <<errors, kills>>

\* The map keeps a pointer into a stack frame that is gone; nothing reads it.
Dangling == Uninit

FlowOf(h) == serving[h].message.flowId

\* `done' is set: the routing is added and the port answered.
AnswerCaller(h) ==
    /\ agentPc[h] = "creating"
    /\ done[h] # 0
    /\ ~InsertHangs(flowRoutingMap[h], FlowOf(h))
    /\ \E m \in map_insert(flowRoutingMap[h], FlowOf(h), Dangling) :
        flowRoutingMap' = [flowRoutingMap EXCEPT ![h] = m]
    /\ acked' = [acked EXCEPT ![h] = @ \cup {[message |-> serving[h].message,
                                             port     |-> done[h],
                                             thread   |-> Len(threads[h])]}]
    /\ serving' = [serving EXCEPT ![h] = NoService]
    /\ agentPc' = [agentPc EXCEPT ![h] = "accept"]
    /\ UNCHANGED <<agentBuf, forgotten, dataVars, boundVars>>

HangInAdd(h) ==
    /\ agentPc[h] = "creating"
    /\ done[h] # 0
    /\ InsertHangs(flowRoutingMap[h], FlowOf(h))
    /\ agentPc' = [agentPc EXCEPT ![h] = "hung"]
    /\ UNCHANGED <<agentBuf, serving, flowRoutingMap, acked, forgotten, dataVars, boundVars>>

----------------------------------------------------------------------------
(* The threads: agent_data.c:86-376.                                       *)

\* What the network sees of a port.
Port16(p) == p % PortSpace

ServingThreads(h) == {i \in DOMAIN threads[h] : threads[h][i].state = "serving"}

\* Port 0 lets bind choose a free port, which nobody is told.
UdpBusy(h, p) ==
    /\ Port16(p) # 0
    /\ \/ Port16(p) \in TakenPorts
       \/ \E i \in ServingThreads(h) :
              threads[h][i].kind \in {"inbound", "bypass"} /\ Port16(threads[h][i].port) = Port16(p)

SpinesBusy(overlay, p) ==
    \E h \in Hosts : \E i \in ServingThreads(h) :
        LET t == threads[h][i]
        IN  t.kind = "outbound" /\ t.overlay = overlay /\ Port16(t.port) = Port16(p)

\* The interface of thread i is open at port p and forwards to target.
Opened(h, i, p, target) ==
    /\ threads' = [threads EXCEPT ![h][i] =
                       [@ EXCEPT !.port = p, !.target = target, !.state = "serving"]]
    /\ done' = [done EXCEPT ![h] = p]

Starting(h, i, kind) ==
    /\ agentPc[h] \notin {"stopped", "crashed"}
    /\ threads[h][i].kind = kind
    /\ threads[h][i].state = "starting"

HasOverlay(t) == t.overlay.address # NoAddress

\* createInbound, with sockets; while the port is busy it is called again and
\* again.
StartInbound(h, i) ==
    /\ Starting(h, i, "inbound")
    /\ HasOverlay(threads[h][i])
    /\ ~UdpBusy(h, threads[h][i].port)
    /\ Opened(h, i, threads[h][i].port, threads[h][i].target)
    /\ UNCHANGED <<controlVars, currentPort, frame, boundVars>>

StartOutbound(h, i) ==
    /\ Starting(h, i, "outbound")
    /\ HasOverlay(threads[h][i])
    /\ ~SpinesBusy(threads[h][i].overlay, threads[h][i].port)
    /\ Opened(h, i, threads[h][i].port, threads[h][i].target)
    /\ UNCHANGED <<controlVars, currentPort, frame, boundVars>>

\* createOutbound returns early: its thread is over and `done' stays 0.
OutboundFails(h, i) ==
    /\ Starting(h, i, "outbound")
    /\ HasOverlay(threads[h][i])
    /\ \/ /\ SpinesBusy(threads[h][i].overlay, threads[h][i].port)
          /\ UNCHANGED errors
       \/ /\ errors < MaxErrors
          /\ errors' = errors + 1
    /\ threads' = [threads EXCEPT ![h][i].state = "ended"]
    /\ UNCHANGED <<controlVars, done, currentPort, frame, direct, kills>>

\* Mutant of getNextPort: the same port is tried again.
getNextPort_Repeats(h) == UNCHANGED currentPort

getNextPort(h) == currentPort' = [currentPort EXCEPT ![h] = @ + 1]

\* createBypass with the next port, until one is free.  Its target is read
\* through a pointer into create_interface's frame, which is the thread's own
\* while that call polls, and which a later call has reused.
StartBypass(h, i) ==
    /\ Starting(h, i, "bypass")
    /\ getNextPort(h)
    /\ \/ /\ UdpBusy(h, currentPort[h])
          /\ UNCHANGED <<threads, done>>
       \/ /\ ~UdpBusy(h, currentPort[h])
          /\ \E target \in {threads[h][i].target, frame[h]} :
                Opened(h, i, currentPort[h], target)
    /\ UNCHANGED <<controlVars, frame, boundVars>>

\* gethostbyname of no address answers NULL, which is dereferenced (lines 110
\* and 216): the whole agent is gone.
CrashInThread(h, i) ==
    /\ Starting(h, i, "inbound") \/ Starting(h, i, "outbound")
    /\ ~HasOverlay(threads[h][i])
    /\ FreshAgent(h)
    /\ agentPc' = [agentPc EXCEPT ![h] = "crashed"]
    /\ UNCHANGED boundVars

StartThread(h) ==
    \E i \in DOMAIN threads[h] :
        \/ StartInbound(h, i)
        \/ StartOutbound(h, i)
        \/ OutboundFails(h, i)
        \/ StartBypass(h, i)
        \/ CrashInThread(h, i)

\* spines_socket or socket() fails: createInbound (lines 126-139) and createBypass
\* (lines 313-332) return 0 and are called again without `done', createBypass with
\* the next port.  Nothing says how long that lasts; every attempt counts as an error.
OpenFails(h, i) ==
    /\ errors < MaxErrors
    /\ errors' = errors + 1
    /\ agentPc[h] \notin {"stopped", "crashed"}
    /\ threads[h][i].state \in {"starting", "failing"}
    /\ \/ /\ threads[h][i].kind = "inbound"
          /\ HasOverlay(threads[h][i])
          /\ UNCHANGED currentPort
       \/ /\ threads[h][i].kind = "bypass"
          /\ getNextPort(h)
    /\ threads' = [threads EXCEPT ![h][i].state = "failing"]
    /\ UNCHANGED <<controlVars, done, frame, direct, kills>>

\* Sockets can be opened again, and the next attempt gets further.
SocketsReturn(h, i) ==
    /\ threads[h][i].state = "failing"
    /\ threads' = [threads EXCEPT ![h][i].state = "starting"]
    /\ UNCHANGED <<controlVars, done, currentPort, frame, boundVars>>

OpeningFails(h) == \E i \in DOMAIN threads[h] : OpenFails(h, i) \/ SocketsReturn(h, i)

\* recv fails: createInbound and createBypass leave their loop and end without
\* a return statement, so their caller may end or call them again.
ReceiveError(h) ==
    /\ errors < MaxErrors
    /\ errors' = errors + 1
    /\ \E i \in ServingThreads(h), next \in {"starting", "ended"} :
        /\ threads[h][i].kind \in {"inbound", "bypass"}
        /\ threads' = [threads EXCEPT ![h][i].state = next]
    /\ UNCHANGED <<controlVars, done, currentPort, frame, direct, kills>>

\* spines_recvfrom fails: the outbound thread closes its sockets and is over.
SpinesDisconnects(h) ==
    /\ errors < MaxErrors
    /\ errors' = errors + 1
    /\ \E i \in ServingThreads(h) :
        /\ threads[h][i].kind = "outbound"
        /\ threads' = [threads EXCEPT ![h][i].state = "ended"]
    /\ UNCHANGED <<controlVars, done, currentPort, frame, direct, kills>>

----------------------------------------------------------------------------

KillAgent(h) ==
    /\ kills < MaxKills
    /\ kills' = kills + 1
    /\ agentPc[h] \notin {"stopped", "crashed"}
    /\ FreshAgent(h)
    /\ agentPc' = [agentPc EXCEPT ![h] = "crashed"]
    /\ UNCHANGED <<direct, errors>>

\* The agent is started again after a signal or a TERMINATE.
RestartAgent(h) ==
    /\ agentPc[h] \in {"stopped", "crashed"}
    /\ FreshAgent(h)
    /\ agentPc' = [agentPc EXCEPT ![h] = "accept"]
    /\ UNCHANGED boundVars

ControlAnswers(h) == AnswerCaller(h) \/ HangInAdd(h)

Next ==
    \E h \in Hosts :
        \/ AcceptDirect(h)
        \/ ControlAnswers(h)
        \/ StartThread(h)
        \/ OpeningFails(h)
        \/ ReceiveError(h)
        \/ SpinesDisconnects(h)
        \/ KillAgent(h)
        \/ RestartAgent(h)

Spec == Init /\ [][Next]_agentVars

\* The threads of a running process keep running.  That sockets which fail work
\* again is not assumed, nor that a port in use becomes free.
AgentFairness ==
    \A h \in Hosts : WF_agentVars(ControlAnswers(h)) /\ WF_agentVars(StartThread(h))

FairSpec == Spec /\ AgentFairness

----------------------------------------------------------------------------
(* Properties.                                                             *)

ThreadStates == {"starting", "failing", "serving", "ended"}

\* Every variable has its type, and the control thread polls only for a thread
\* it has started.
TypeOK ==
    /\ agentPc \in [Hosts -> {"accept", "creating", "hung", "stopped", "crashed"}]
    /\ done \in [Hosts -> Nat]
    /\ currentPort \in [Hosts -> Nat]
    /\ DOMAIN threads = Hosts
    /\ \A h \in Hosts : \A i \in DOMAIN threads[h] :
        /\ threads[h][i].kind \in {"inbound", "outbound", "bypass"}
        /\ threads[h][i].state \in ThreadStates
        /\ threads[h][i].port \in Nat
    /\ \A h \in Hosts : agentPc[h] = "creating" =>
        /\ serving[h].message.type \in AddTypes
        /\ threads[h] # <<>>
    /\ \A h \in Hosts : \A a \in acked[h] : a.thread \in DOMAIN threads[h]
    /\ direct \in 0 .. MaxDirect
    /\ errors \in 0 .. MaxErrors
    /\ kills \in 0 .. MaxKills

Serves(t, msg, p) ==
    /\ t.state = "serving"
    /\ t.kind = Kind(msg)
    /\ t.port = p
    /\ t.target = msg.target
    /\ ~msg.bypass => t.overlay = msg.overlay

\* As long as no socket fails, every acknowledged port is an open interface that
\* forwards where the message said, started for that very message, although all
\* threads of an agent signal through one variable (agent_data.c:53-84).
AcksHonoured ==
    errors = 0 => \A h \in Hosts : \A a \in acked[h] :
        /\ Serves(threads[h][a.thread], a.message, a.port)
        /\ \A b \in acked[h] : a.thread = b.thread => a = b

\* A routing that was acknowledged and not removed is in the agent's map,
\* whatever was removed beside it and however the map grew.
RoutesListed ==
    \A h \in Hosts : \A a \in acked[h] :
        a.message.flowId \notin forgotten[h] =>
            a.message.flowId \in StoredKeys(flowRoutingMap[h])

NewestThread(h) == threads[h][Len(threads[h])]

\* What keeps create_interface polling: the outbound thread is over, no socket can
\* be opened, or the flow port is taken on this host.
Blocked(h) ==
    \/ NewestThread(h).state \in {"ended", "failing"}
    \/ /\ NewestThread(h).kind = "inbound"
       /\ NewestThread(h).state = "starting"
       /\ UdpBusy(h, NewestThread(h).port)

\* The control thread does not stay in create_interface (agent_data.c:77-80)
\* unless from some moment on the interface can never be opened: an attempt that
\* failed and an earlier thread that comes back for its port do not hold it up.
CreationEnds ==
    \A h \in Hosts :
        \/ []<>(agentPc[h] # "creating")
        \/ <>[](agentPc[h] = "creating" /\ Blocked(h))

\* agent_data.c:76 "This is okay because an agent control plane is single
\* threaded": the port create_interface returns is that of its own thread.
AnswersOwnInterface ==
    [][\A h \in Hosts : (agentPc[h] = "creating" /\ agentPc'[h] = "accept") =>
           NewestThread(h).port = done[h]]_agentVars

=============================================================================
