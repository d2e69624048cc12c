---------------------------- MODULE FlowController ----------------------------
(* The switch controller (mininet/controller.py): it polls a directory for the  *)
(* requests of the network manager, turns each into a P4 program, compiles it  *)
(* and puts it in the place of the program of the switch the request names.    *)
(* The manager's side of the directory is network_manager.c:181-199.           *)
EXTENDS SwitchConnection, EdgeSwitch, Integers, Sequences

CONSTANTS
    Flows,          \* the numbers the manager may file requests under
    Texts,          \* what it may write: [switch, client, rule, wellFormed]
    NoText,         \* the content between fopen and fclose
    NoFile,         \* there is no such file
    Switches,       \* the addresses of the switches
    DeviceOf,       \* the device number each was started with
    NoProgram,      \* not compiled yet
    BasicProgram,   \* what a switch starts with
    NoFlow,         \* nobody is waited with or served
    MaxRestarts,    \* bound on restarts of the manager and of the controller
    MaxFailures     \* bound on switches that go down and compilations that fail

ASSUME FlowsAssumption == NoFlow \notin Flows /\ "exit" \notin Flows

ASSUME TextsAssumption ==
    /\ \A t \in Texts :
        t.switch \in Switches /\ t.wellFormed \in BOOLEAN
    /\ NoText \notin Texts /\ NoFile \notin Texts /\ NoText # NoFile

ASSUME BoundsAssumption == MaxRestarts \in Nat /\ MaxFailures \in Nat

VARIABLES
    requests,    \* the text of every file r<id>, or NoFile
    acks,        \* the numbers of the files ack<id>
    exitFile,    \* the file "exit" is there
    awaited,     \* the flow the manager waits with, or NoFlow
    filed,       \* the flows the manager has filed since it started
    pc,          \* where the controller is
    flow,        \* the request it serves, or NoFlow
    todo,        \* the files of the last walk that are still to be looked at
    text,        \* what was read from the request being served
    replacement, \* ext_controller/replacement.p4
    build,       \* build/replacement.json and its p4info
    connections, \* the global list of switch.py: a sequence of [address, open]
    switches,    \* what every switch runs
    up,          \* the switches that can be reached
    restarts, outages, badCompiles,
    newest       \* history: the last text acknowledged for each switch, or NoText

fileVars == <<requests, acks, exitFile>>
managerVars == <<awaited, filed>>
buildVars == <<replacement, build>>
switchVars == <<connections, switches, up>>
boundVars == <<restarts, outages, badCompiles>>
placeVars == <<pc, flow, todo, text>>
controllerVars == <<fileVars, managerVars, placeVars, buildVars, switchVars,
                    boundVars, newest>>

\* Mutant of generate_p4: the two directions are exchanged.
generate_p4_Exchanged(t) ==
    [host |-> t.client,
     incoming |-> {[from |-> t.rule.dst, as |-> t.rule.agent]},
     outgoing |-> {[to |-> t.rule.agent, via |-> t.rule.dst]}]

\* The template with one rule for each direction: answers of the agent appear to
\* come from the destination, what goes to the destination goes to the agent.
generate_p4(t) ==
    [host |-> t.client,
     incoming |-> {[from |-> t.rule.agent, as |-> t.rule.dst]},
     outgoing |-> {[to |-> t.rule.dst, via |-> t.rule.agent]}]

\* pc while a request is served, in the order of install_switch_program.
Serving == {"compile", "connect", "install", "acknowledge"}

Filed == {f \in Flows : requests[f] # NoFile}

Init ==
    /\ requests = [f \in Flows |-> NoFile]
    /\ acks = {}
    /\ exitFile = FALSE
    /\ awaited = NoFlow
    /\ filed = {}
    /\ pc = "idle"
    /\ flow = NoFlow
    /\ todo = {}
    /\ text = NoText
    /\ replacement = NoProgram
    /\ build = NoProgram
    /\ connections = <<>>
    /\ switches = [s \in Switches |-> FreshSwitch(DeviceOf[s], BasicProgram)]
    /\ up = Switches
    /\ restarts = 0 /\ outages = 0 /\ badCompiles = 0
    /\ newest = [s \in Switches |-> NoText]

----------------------------------------------------------------------------
(* The manager and the operator.                                           *)

\* fopen: the file is there and empty.  Flow numbers are not used twice by one
\* run of the manager.
FileRequest(f) ==
    /\ awaited = NoFlow
    /\ f \notin filed
    /\ awaited' = f
    /\ filed' = filed \cup {f}
    /\ requests' = [requests EXCEPT ![f] = NoText]
    /\ UNCHANGED <<acks, exitFile, placeVars, buildVars, switchVars, boundVars, newest>>

\* fclose: the text reaches the file.
FillRequest(t) ==
    /\ awaited # NoFlow
    /\ requests[awaited] = NoText
    /\ requests' = [requests EXCEPT ![awaited] = t]
    /\ UNCHANGED <<acks, exitFile, managerVars, placeVars, buildVars, switchVars,
                   boundVars, newest>>

TakeAck ==
    /\ awaited \in acks
    /\ acks' = acks \ {awaited}
    /\ awaited' = NoFlow
    /\ UNCHANGED <<requests, exitFile, filed, placeVars, buildVars, switchVars,
                   boundVars, newest>>

\* The manager is killed and started again: its numbers start over.
RestartManager ==
    /\ restarts < MaxRestarts
    /\ restarts' = restarts + 1
    /\ awaited' = NoFlow
    /\ filed' = {}
    /\ UNCHANGED <<fileVars, placeVars, buildVars, switchVars, outages, badCompiles,
                   newest>>

AskToExit ==
    /\ pc \notin {"dead", "ended"}
    /\ ~exitFile
    /\ exitFile' = TRUE
    /\ UNCHANGED <<requests, acks, managerVars, placeVars, buildVars, switchVars,
                   boundVars, newest>>

ManagerStep ==
    \/ \E f \in Flows : FileRequest(f)
    \/ \E t \in Texts : FillRequest(t)
    \/ TakeAck
    \/ RestartManager
    \/ AskToExit

----------------------------------------------------------------------------
(* The loop: run(), controller.py:144-167.                                 *)

\* "exit" stands for the file of that name in todo; ack files are passed over.
ExitFiles == IF exitFile THEN {"exit"} ELSE {}

\* os.walk lists the directory once for a whole round.
ListFiles ==
    /\ pc = "idle"
    /\ Filed \cup ExitFiles # {}
    /\ todo' = Filed \cup ExitFiles
    /\ pc' = "looking"
    /\ UNCHANGED <<fileVars, managerVars, flow, text, buildVars, switchVars, boundVars,
                   newest>>

EndRound ==
    /\ pc = "looking"
    /\ todo = {}
    /\ pc' = "idle"
    /\ UNCHANGED <<fileVars, managerVars, flow, todo, text, buildVars, switchVars,
                   boundVars, newest>>

\* Files behind "exit" in the listing are left where they are.
FindExit ==
    /\ pc = "looking"
    /\ "exit" \in todo
    /\ pc' = "ended"
    /\ exitFile' = FALSE
    /\ UNCHANGED <<requests, acks, managerVars, flow, todo, text, buildVars, switchVars,
                   boundVars, newest>>

\* An exception nobody catches ends the controller; its streams end with it.
Dies ==
    /\ pc' = "dead"
    /\ connections' = <<>>
    /\ UNCHANGED <<fileVars, managerVars, switches, up, boundVars, newest>>

----------------------------------------------------------------------------
(* process() and install_switch_program(), controller.py:88-141.           *)

\* readlines of an empty file has no line 0; p4_ip and p4_mac index the parts of
\* what a user typed.
Unreadable(t) == IF t = NoText THEN TRUE ELSE ~t.wellFormed

ReadRequest(f) ==
    /\ pc = "looking"
    /\ f \in todo
    /\ ~Unreadable(requests[f])
    /\ flow' = f
    /\ todo' = todo \ {f}
    /\ text' = requests[f]
    /\ replacement' = generate_p4(requests[f])
    /\ pc' = "compile"
    /\ UNCHANGED <<fileVars, managerVars, build, switchVars, boundVars, newest>>

DieReading(f) ==
    /\ pc = "looking"
    /\ f \in todo
    /\ Unreadable(requests[f])
    /\ Dies
    /\ UNCHANGED <<flow, todo, text, buildVars>>

\* The compiler writes both files, or it fails and leaves those of an earlier
\* request: popen's result is printed and not looked at.
Compile ==
    /\ pc = "compile"
    /\ \/ /\ build' = replacement
          /\ UNCHANGED badCompiles
       \/ /\ outages + badCompiles < MaxFailures
          /\ badCompiles' = badCompiles + 1
          /\ UNCHANGED build
    /\ pc' = "connect"
    /\ UNCHANGED <<fileVars, managerVars, flow, todo, text, replacement, switchVars,
                   restarts, outages, newest>>

\* P4InfoHelper reads build/, the connection is made and arbitrated, for device 0.
CanConnect ==
    /\ build # NoProgram
    /\ text.switch \in up
    /\ Arbitrates(switches[text.switch], 0)

Connect ==
    /\ pc = "connect"
    /\ CanConnect
    /\ connections' = Append(connections, [address |-> text.switch, open |-> TRUE])
    /\ pc' = "install"
    /\ UNCHANGED <<fileVars, managerVars, flow, todo, text, buildVars, switches, up,
                   boundVars, newest>>

DieConnecting ==
    /\ pc = "connect"
    /\ ~CanConnect
    /\ Dies
    /\ UNCHANGED <<flow, todo, text, buildVars>>

\* The newest connection; a switch that went away has ended its stream.
Connected == connections[Len(connections)].open

\* Mutant of ShutdownAllSwitchConnections: the first of the list only.
ShutdownAllSwitchConnections_First ==
    connections' = [connections EXCEPT ![1].open = FALSE]

\* Every connection there has been since the controller started.
ShutdownAllSwitchConnections ==
    connections' = [i \in DOMAIN connections |-> [connections[i] EXCEPT !.open = FALSE]]

\* Mutant of Install: the request is taken for acknowledged.
Install_SkipsAck ==
    /\ pc = "install"
    /\ Connected
    /\ switches' = [switches EXCEPT ![text.switch] =
                        SetForwardingPipelineConfig(@, build)]
    /\ ShutdownAllSwitchConnections
    /\ pc' = "remove"
    /\ UNCHANGED <<fileVars, managerVars, flow, todo, text, buildVars, up, boundVars,
                   newest>>

Install ==
    /\ pc = "install"
    /\ Connected
    /\ switches' = [switches EXCEPT ![text.switch] =
                        SetForwardingPipelineConfig(@, build)]
    /\ ShutdownAllSwitchConnections
    /\ pc' = "acknowledge"
    /\ UNCHANGED <<fileVars, managerVars, flow, todo, text, buildVars, up, boundVars,
                   newest>>

DieInstalling ==
    /\ pc = "install"
    /\ ~Connected
    /\ Dies
    /\ UNCHANGED <<flow, todo, text, buildVars>>

\* Mutant of Acknowledge: the file is not written.
Acknowledge_Forgets ==
    /\ pc = "acknowledge"
    /\ newest' = [newest EXCEPT ![text.switch] = text]
    /\ pc' = "remove"
    /\ UNCHANGED <<fileVars, managerVars, flow, todo, text, buildVars, switchVars,
                   boundVars>>

Acknowledge ==
    /\ pc = "acknowledge"
    /\ acks' = acks \cup {flow}
    /\ newest' = [newest EXCEPT ![text.switch] = text]
    /\ pc' = "remove"
    /\ UNCHANGED <<requests, exitFile, managerVars, flow, todo, text, buildVars,
                   switchVars, boundVars>>

RemoveRequest ==
    /\ pc = "remove"
    /\ requests' = [requests EXCEPT ![flow] = NoFile]
    /\ flow' = NoFlow
    /\ text' = NoText
    /\ pc' = "looking"
    /\ UNCHANGED <<acks, exitFile, managerVars, todo, buildVars, switchVars, boundVars,
                   newest>>

ControllerStep ==
    \/ ListFiles
    \/ EndRound
    \/ FindExit
    \/ \E f \in Flows : ReadRequest(f) \/ DieReading(f)
    \/ Compile
    \/ Connect
    \/ DieConnecting
    \/ Install
    \/ DieInstalling
    \/ Acknowledge
    \/ RemoveRequest

----------------------------------------------------------------------------
(* What happens to the controller and the switches from outside.           *)

\* Mutant of RestartController: the request being served is taken over.
RestartController_KeepsFlow ==
    /\ restarts < MaxRestarts
    /\ restarts' = restarts + 1
    /\ pc' = "idle"
    /\ todo' = {}
    /\ text' = NoText
    /\ connections' = <<>>
    /\ UNCHANGED <<fileVars, managerVars, flow, buildVars, switches, up, outages,
                   badCompiles, newest>>

\* The controller is started again, after it ended by itself or by a signal.
RestartController ==
    /\ restarts < MaxRestarts
    /\ restarts' = restarts + 1
    /\ pc' = "idle"
    /\ flow' = NoFlow
    /\ todo' = {}
    /\ text' = NoText
    /\ connections' = <<>>
    /\ UNCHANGED <<fileVars, managerVars, buildVars, switches, up, outages, badCompiles,
                   newest>>

\* A switch goes down and its streams with it; what comes up again starts afresh.
SwitchDown(s) ==
    /\ outages + badCompiles < MaxFailures
    /\ outages' = outages + 1
    /\ s \in up
    /\ up' = up \ {s}
    /\ switches' = [switches EXCEPT ![s] = FreshSwitch(DeviceOf[s], BasicProgram)]
    /\ connections' = [i \in DOMAIN connections |->
           IF connections[i].address = s THEN [connections[i] EXCEPT !.open = FALSE]
           ELSE connections[i]]
    /\ UNCHANGED <<fileVars, managerVars, placeVars, buildVars, restarts, badCompiles,
                   newest>>

SwitchUp(s) ==
    /\ up' = up \cup {s}
    /\ s \notin up
    /\ UNCHANGED <<fileVars, managerVars, placeVars, buildVars, connections, switches,
                   boundVars, newest>>

Next ==
    \/ ManagerStep
    \/ ControllerStep
    \/ RestartController
    \/ \E s \in Switches : SwitchDown(s) \/ SwitchUp(s)

Spec == Init /\ [][Next]_controllerVars

\* The loop of a running controller goes on, and so does the manager's fclose.
FairSpec ==
    /\ Spec
    /\ WF_controllerVars(ControllerStep)
    /\ WF_controllerVars(\E t \in Texts : FillRequest(t))

----------------------------------------------------------------------------
(* Properties.                                                             *)

Places == {"idle", "looking", "remove", "dead", "ended"} \cup Serving

\* Every variable has its type; a request is being served exactly where
\* controller.py:114-160 has one, and what is listed for this round is still there.
TypeOK ==
    /\ requests \in [Flows -> Texts \cup {NoText, NoFile}]
    /\ acks \subseteq Flows
    /\ exitFile \in BOOLEAN
    /\ awaited \in Flows \cup {NoFlow}
    /\ filed \subseteq Flows
    /\ pc \in Places
    /\ flow \in Flows \cup {NoFlow}
    /\ text \in Texts \cup {NoText}
    /\ todo \subseteq Flows \cup {"exit"}
    /\ pc \in Serving \cup {"remove"} =>
           flow \in Filed \ todo /\ text \in Texts
    /\ pc \in {"idle", "looking"} => flow = NoFlow /\ text = NoText
    /\ todo \ {"exit"} \subseteq Filed
    /\ connections \in Seq([address : Switches, open : BOOLEAN])
    /\ pc = "install" => connections # <<>>
    /\ up \subseteq Switches
    /\ DOMAIN switches = Switches
    /\ newest \in [Switches -> Texts \cup {NoText}]
    /\ restarts \in 0 .. MaxRestarts
    /\ outages \in Nat /\ badCompiles \in Nat
    /\ outages + badCompiles <= MaxFailures

Locations == UNION {{t.rule.dst, t.rule.agent} : t \in Texts}

Packet(protocol, src, dst) == [protocol |-> protocol, src |-> src, dst |-> dst]

AnswerTo(packet) == Packet(packet.protocol, packet.dst, packet.src)

\* README.md:36-45: what the client sends to the destination goes to the agent
\* instead, and what the agent answers reaches the client as an answer of the
\* destination.  Other traffic of the client passes as it is, in both directions.
\* A destination behind the client's own address is left out.
Reroutes(program, t) == t.rule.dst.addr # t.client =>
    \A protocol \in {"tcp", "udp"}, from \in Locations, l \in Locations :
        LET client == [addr |-> t.client, port |-> from.port]
            request == Packet(protocol, client, t.rule.dst)
            seen == Packet(protocol, client, t.rule.agent)
            other == Packet(protocol, client, l)
        IN /\ MyIngress(program, request) = OnPort(2, seen)
           /\ MyIngress(program, AnswerTo(seen)) = OnPort(1, AnswerTo(request))
           /\ l.addr # t.client /\ l # t.rule.dst =>
                MyIngress(program, other) = OnPort(2, other)
           /\ l # t.rule.agent =>
                MyIngress(program, AnswerTo(other)) = OnPort(1, AnswerTo(other))

\* Unless a compilation failed, a switch went down or somebody was restarted, the
\* traffic through a switch is that of the request acknowledged last for it,
\* whatever is filed and installed for other switches through the same files: only
\* the next request for this switch takes the rule away (controller.py:106, which
\* drops the rules of all earlier flows of the switch).
NewestRuleInstalled ==
    restarts + outages + badCompiles = 0 => \A s \in Switches :
        newest[s] # NoText =>
            \/ Reroutes(switches[s].program, newest[s])
            \/ pc = "acknowledge" /\ text.switch = s

\* switch.py:29-31 closes every connection there has been: between two requests
\* no stream is left open, though the list is never emptied.
StreamsClosed ==
    pc # "install" => \A i \in DOMAIN connections : ~connections[i].open

\* The controller's files are used as the manager believes, whoever is restarted
\* and whatever fails: a request goes only after its acknowledgement, which is
\* written only for a request that was there.
H == INSTANCE FileHandshake WITH
        filed <- Filed,
        acks <- acks,
        worker <- [phase   |-> CASE pc \in Serving -> "serving"
                                 [] pc = "remove" -> "acknowledged"
                                 [] pc \in {"dead", "ended"} -> "gone"
                                 [] OTHER -> "idle",
                   serving |-> IF pc \in Serving \cup {"remove"} THEN {flow} ELSE {}]

ImplementsHandshake == H!HandshakeSpec

\* A request the manager has written and waits with is acknowledged in the end,
\* unless the controller is gone or, after a restart, the file was removed for an
\* older one of the same number.
RequestServed ==
    \A f \in Flows : (awaited = f /\ requests[f] \in Texts) ~>
        \/ awaited # f
        \/ f \in acks
        \/ pc \in {"dead", "ended"}
        \/ restarts > 0 /\ requests[f] = NoFile

=============================================================================
