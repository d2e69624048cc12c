------------------------------ MODULE FlowSystem ------------------------------
(***************************************************************************)
(* The manager together with the agents it calls: NetworkManager, whose    *)
(* agents are open, composed with AgentControl, whose callers are.  The    *)
(* connection between them is `rpc': the manager's call waits in the       *)
(* listen queue of the agent until its control thread accepts it, and the  *)
(* agent answers it when the interface is open.                            *)
(*                                                                         *)
(* The traffic itself is not modelled: where a packet would go is read off *)
(* the threads that forward it.                                            *)
(***************************************************************************)
EXTENDS NetworkManager

CONSTANTS  \* of AgentControl
    DirectMessages, NoAddress, FirstBypassPort, TakenPorts,
    MaxDirect, MaxErrors, MaxKills

\* The agents' parameters, which AgentControl assumes where it is extended.
ASSUME AgentParameters ==
    /\ FirstBypassPort \in Nat \ {0}
    /\ PortSpace \in Nat \ {0}
    /\ MaxDirect \in Nat /\ MaxErrors \in Nat /\ MaxKills \in Nat

\* A listed node has an address, and `bypass' is a flag.
ASSUME NodeAssumption ==
    /\ \A n \in Nodes :
        LET l == OverlayList[n].location
        IN  l = [address |-> l.address, port |-> l.port] /\ l.address # NoAddress
    /\ \A r \in Requests : r.bypass \in BOOLEAN

VARIABLES
    agentPc, agentBuf, serving, done, currentPort, flowRoutingMap, threads,
    frame, acked, forgotten, direct, errors, kills,  \* of AgentControl
    orphans  \* calls in a listen queue whose manager is gone

Hosts == {a.location.address : a \in ListedAgents}

A == INSTANCE AgentControl

controlVars == <<agentPc, agentBuf, serving, flowRoutingMap, acked, forgotten>>
dataVars == <<done, currentPort, threads, frame>>
boundVars == <<direct, errors, kills>>
agentVars == <<controlVars, dataVars, boundVars>>

systemVars == <<vars, agentVars, orphans>>

SystemInit == Init /\ A!Init /\ orphans = {}

----------------------------------------------------------------------------
(* The connection.                                                         *)

\* The manager waits for the agent of host h.
Awaited(h) ==
    /\ rpc.phase = "calling"
    /\ rpc.agent # NoHost
    /\ rpc.agent.location.address = h

Accepted(h) == serving[h].caller = "manager"

AgentUp(h) == agentPc[h] \notin {"stopped", "crashed"}

\* Only the connection changes at the manager.
ManagerWaits == UNCHANGED <<flowVars, portVars, mpc, buf, frameVars, cur, fileVars,
                            controller, historyVars>>

\* The listen queue is in order: calls of an earlier manager come first.
AgentAccepts(h) ==
    /\ Awaited(h) /\ ~Accepted(h)
    /\ \A o \in orphans : o.host # h
    /\ A!Receive(h, rpc.message, "manager")
    /\ UNCHANGED <<boundVars, orphans, vars>>

\* The message of a manager that was killed is still in the socket.
AgentAcceptsOrphan(h) ==
    /\ \E o \in orphans :
        /\ o.host = h
        /\ A!Receive(h, o.message, "gone")
        /\ orphans' = orphans \ {o}
    /\ UNCHANGED <<boundVars, vars>>

AgentReplies(h) ==
    /\ A!AnswerCaller(h)
    /\ IF Accepted(h)
       THEN rpc' = CallEnds("answered", done[h])
       ELSE UNCHANGED rpc
    /\ ManagerWaits
    /\ UNCHANGED orphans

\* The agent's process is over and its sockets are closed, waiting connections too.
CallsDropped(h) ==
    /\ IF Awaited(h) THEN rpc' = CallEnds("closed", 0) ELSE UNCHANGED rpc
    /\ orphans' = {o \in orphans : o.host # h}
    /\ ManagerWaits

\* By a signal from outside or by TERMINATE.
AgentEnds(h) ==
    /\ \/ A!KillAgent(h)
       \/ A!AcceptDirect(h) /\ agentPc'[h] = "stopped"
    /\ CallsDropped(h)

\* A thread of the agent runs, and may end the whole process.
ThreadRuns(h) ==
    /\ A!StartThread(h)
    /\ IF agentPc'[h] = "crashed" THEN CallsDropped(h) ELSE UNCHANGED <<vars, orphans>>

\* Nothing listens at the agent's address, or it is no address.
CallRefused ==
    /\ rpc.phase = "calling"
    /\ rpc.agent # NoHost => ~AgentUp(rpc.agent.location.address)
    /\ rpc' = CallEnds("refused", 0)
    /\ ManagerWaits
    /\ UNCHANGED <<agentVars, orphans>>

AgentAlone(h) ==
    /\ \/ A!AcceptDirect(h) /\ agentPc'[h] # "stopped"
       \/ A!HangInAdd(h)
       \/ A!OpeningFails(h)
       \/ A!ReceiveError(h)
       \/ A!SpinesDisconnects(h)
       \/ A!RestartAgent(h)
    /\ UNCHANGED <<vars, orphans>>

AgentStep(h) ==
    AgentAccepts(h) \/ AgentAcceptsOrphan(h) \/ AgentReplies(h) \/ ThreadRuns(h)
    \/ AgentAlone(h)

----------------------------------------------------------------------------
(* The manager and the switch controller.                                  *)

ManagerStep ==
    /\ ServeClient \/ Progress \/ Restart \/ Controller \/ ControllerFails
    /\ UNCHANGED <<agentVars, orphans>>

\* A call the agent has accepted is worked on to its end, one in the listen
\* queue is read later.
ManagerKilled ==
    /\ Kill
    /\ serving' = [h \in Hosts |-> IF Accepted(h) THEN [serving[h] EXCEPT !.caller = "gone"]
                                   ELSE serving[h]]
    /\ orphans' = orphans \cup
           {[host |-> h, message |-> rpc.message] :
                h \in {k \in Hosts : Awaited(k) /\ ~Accepted(k) /\ AgentUp(k)}}
    /\ UNCHANGED <<agentPc, agentBuf, flowRoutingMap, acked, forgotten, dataVars,
                   boundVars>>

SystemNext ==
    \/ ManagerStep
    \/ ManagerKilled
    \/ CallRefused
    \/ \E h \in Hosts : AgentStep(h) \/ AgentEnds(h)

SystemSpec == SystemInit /\ [][SystemNext]_systemVars

\* Every process that runs keeps running; nothing is assumed of Spines, sockets or
\* ports, of who is killed or started again, or of the order in which they run.
SystemFairness ==
    /\ WF_systemVars(Progress /\ UNCHANGED <<agentVars, orphans>>)
    /\ WF_systemVars(Controller /\ UNCHANGED <<agentVars, orphans>>)
    /\ WF_systemVars(CallRefused)
    /\ \A h \in Hosts :
        /\ WF_systemVars(AgentAccepts(h))
        /\ WF_systemVars(AgentAcceptsOrphan(h))
        /\ WF_systemVars(AgentReplies(h))
        /\ WF_systemVars(ThreadRuns(h))

FairSystemSpec == SystemSpec /\ SystemFairness

----------------------------------------------------------------------------
(* Properties.                                                             *)

ServingAt(h) == {threads[h][i] : i \in A!ServingThreads(h)}

\* What inbound thread t sends into the overlay comes out at outbound thread u.
Carries(t, u) ==
    /\ t.kind = "inbound" /\ u.kind = "outbound"
    /\ t.overlay.port = u.overlay.port
    /\ t.target = [address |-> u.overlay.address, port |-> u.port]

\* Where a packet sent to port p of host h through the overlay is delivered.
Delivered(location) ==
    {u.target : u \in {v \in UNION {ServingAt(h) : h \in Hosts} :
        \E t \in ServingAt(location.address) : t.port = location.port /\ Carries(t, v)}}

\* The flows through the overlay that have a port of the network: the last port
\* that requestPort lets through is none (network_manager.c:235).
OverlayFlows == {f \in granted : ~f.request.bypass /\ f.port \in 1 .. PortSpace - 1}

\* README.md:62, 73: as long as no socket fails and no agent is killed, a flow
\* that has been acknowledged carries what is sent to its inbound interface to
\* its destination and nowhere else, whatever failed before or beside it and
\* though a restarted manager hands out the same ports again: the ports, overlay
\* nodes and targets in the two messages of network_manager.c:138-164 fit.
PathWired ==
    errors + kills + direct = 0 =>
        \A f \in OverlayFlows : Delivered(f.flow.inDst) = {f.request.dst}

\* README.md:62: what is sent to a flow's inbound interface is never delivered to
\* another flow's destination, though agents die and their ports are free again,
\* or the manager is started again and hands out ports that are in use.  (With
\* both, or with socket errors, it may be: see DeliveredToDestination and
\* AgentControl!AnswersOwnInterface.)  An agent that dies before it answers may
\* leave the manager any number for a port: network_manager.c:169.
NoMisdelivery ==
    errors + direct = 0 /\ (kills = 0 \/ restarts = 0) =>
        \A f \in OverlayFlows : f.flow.inDst.port = f.port =>
            Delivered(f.flow.inDst) \subseteq {f.request.dst}

\* README.md:62 "extracts traffic from spines and directs it to its original
\* destination": what is sent to a flow's inbound interface is delivered to no
\* other destination, whatever processes are killed and started again.
DeliveredToDestination ==
    errors + direct = 0 => \A f \in OverlayFlows :
        Delivered(f.flow.inDst) \subseteq {f.request.dst}

\* The agents do what NetworkManager lets agents do: the composed system
\* implements the manager with open surroundings, as long as no socket fails.
ImplementsManager == Spec

\* What may keep a creation from ending: the controller is gone, on a request file
\* it read too early or otherwise, an agent cannot open the interface it polls for,
\* or, after a restart, the controller removed the new request file for the old one.
Stuck ==
    \/ controller.phase = "dead"
    \/ \E h \in Hosts : agentPc[h] = "creating" /\ A!Blocked(h)
    \/ /\ restarts > 0
       /\ mpc = "controller"
       /\ cur.id \notin {q.id : q \in reqs} \cup acks


\* README.md:73 "An inbound and outbound connections are started in their
\* agents": a creation that has been begun ends, also after a restart.
CreationEnds == InCreateFlow ~> ~InCreateFlow

=============================================================================
