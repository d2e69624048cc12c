------------------------- MODULE FlowController_proofs -------------------------
(* For any set of flows, texts and switches and any number of restarts and      *)
(* failures.                                                                    *)
EXTENDS FlowController, SequenceTheorems, TLAPS

Connections == [address : Switches, open : BOOLEAN]

\* Closing some of the connections leaves a list of connections.
LEMMA ClosedConnections ==
    ASSUME NEW c \in Seq(Connections), NEW d, DOMAIN d = DOMAIN c,
           \A i \in DOMAIN c : d[i] = c[i] \/ d[i] = [c[i] EXCEPT !.open = FALSE],
           d = [i \in DOMAIN c |-> d[i]]
    PROVE  d \in Seq(Connections)
<1>1. \A i \in DOMAIN c : c[i] \in Connections
  OBVIOUS
<1>2. \A i \in DOMAIN c : d[i] \in Connections
  BY <1>1 DEF Connections
<1>3. DOMAIN c = 1 .. Len(c) /\ Len(c) \in Nat
  OBVIOUS
<1>4. d \in [1 .. Len(c) -> Connections]
  BY <1>2, <1>3
<1> QED
  BY <1>3, <1>4, SeqDef

----------------------------------------------------------------------------
(* Types.                                                                  *)

\* TypeOK holds in the beginning.
LEMMA TypeInit == Init => TypeOK
<1> SUFFICES ASSUME Init PROVE TypeOK
  OBVIOUS
<1>1. connections \in Seq([address : Switches, open : BOOLEAN])
  BY DEF Init
<1>2. 0 \in 0 .. MaxRestarts /\ 0 <= MaxFailures
  BY BoundsAssumption
<1>3. DOMAIN switches = Switches
  BY DEF Init
<1>4. requests \in [Flows -> Texts \cup {NoText, NoFile}]
  BY DEF Init
<1>5. newest \in [Switches -> Texts \cup {NoText}]
  BY DEF Init
<1>6. outages \in Nat /\ badCompiles \in Nat /\ outages + badCompiles <= MaxFailures
  BY <1>2 DEF Init
<1> QED
  BY <1>1, <1>2, <1>3, <1>4, <1>5, <1>6 DEF Init, TypeOK, Places, Serving

\* What the manager and the operator do keeps the types.
LEMMA TypeManager == TypeOK /\ ManagerStep => TypeOK'
<1> SUFFICES ASSUME TypeOK, ManagerStep PROVE TypeOK'
  OBVIOUS
<1> USE FlowsAssumption, TextsAssumption
<1>1. ASSUME NEW f \in Flows, FileRequest(f) PROVE TypeOK'
  <2>1. requests' \in [Flows -> Texts \cup {NoText, NoFile}] /\ Filed \subseteq Filed'
    BY <1>1 DEF FileRequest, TypeOK, Filed
  <2> QED
    BY <1>1, <2>1 DEF FileRequest, TypeOK, placeVars, buildVars, switchVars, boundVars
<1>2. ASSUME NEW t \in Texts, FillRequest(t) PROVE TypeOK'
  <2>1. requests' \in [Flows -> Texts \cup {NoText, NoFile}] /\ Filed \subseteq Filed'
    BY <1>2 DEF FillRequest, TypeOK, Filed
  <2> QED
    BY <1>2, <2>1
    DEF FillRequest, TypeOK, managerVars, placeVars, buildVars, switchVars, boundVars
<1>3. CASE TakeAck
  BY <1>3 DEF TakeAck, TypeOK, Filed, placeVars, buildVars, switchVars, boundVars
<1>4. CASE RestartManager
  BY <1>4, BoundsAssumption
  DEF RestartManager, TypeOK, Filed, fileVars, placeVars, buildVars, switchVars
<1>5. CASE AskToExit
  BY <1>5 DEF AskToExit, TypeOK, Filed, managerVars, placeVars, buildVars, switchVars,
              boundVars
<1> QED
  BY <1>1, <1>2, <1>3, <1>4, <1>5 DEF ManagerStep

\* So does every death of the controller.
LEMMA TypeDies ==
    ASSUME TypeOK, Dies, UNCHANGED <<flow, todo, text, buildVars>>
    PROVE  TypeOK'
<1>1. connections' \in Seq([address : Switches, open : BOOLEAN])
  BY DEF Dies
<1> QED
  BY <1>1 DEF Dies, TypeOK, Places, Serving, Filed, fileVars, managerVars, buildVars,
              boundVars

\* A step of the controller, request by request.
LEMMA TypeController == TypeOK /\ ControllerStep => TypeOK'
<1> SUFFICES ASSUME TypeOK, ControllerStep PROVE TypeOK'
  OBVIOUS
<1> USE FlowsAssumption, TextsAssumption
<1>1. CASE ListFiles
  BY <1>1 DEF ListFiles, ExitFiles, TypeOK, Places, Serving, Filed, fileVars, managerVars,
              buildVars, switchVars, boundVars
<1>2. CASE EndRound
  BY <1>2 DEF EndRound, TypeOK, Places, Serving, Filed, fileVars, managerVars,
              buildVars, switchVars, boundVars
<1>3. CASE FindExit
  BY <1>3 DEF FindExit, TypeOK, Places, Serving, Filed, managerVars, buildVars,
              switchVars, boundVars
<1>4. ASSUME NEW f \in Flows, ReadRequest(f) PROVE TypeOK'
  <2>1. requests[f] \in Texts /\ f \in Filed
    BY <1>4 DEF ReadRequest, Unreadable, TypeOK, Filed
  <2> QED
    BY <1>4, <2>1 DEF ReadRequest, TypeOK, Places, Serving, Filed, fileVars, managerVars,
                      switchVars, boundVars
<1>5. ASSUME NEW f \in Flows, DieReading(f) PROVE TypeOK'
  BY <1>5, TypeDies DEF DieReading
<1>6. CASE Compile
  <2>1. badCompiles' \in Nat /\ outages' + badCompiles' <= MaxFailures
    BY <1>6, BoundsAssumption DEF Compile, TypeOK
  <2> QED
    BY <1>6, <2>1 DEF Compile, TypeOK, Places, Serving, Filed, fileVars, managerVars,
                      switchVars
<1>7. CASE Connect
  <2>1. [address |-> text.switch, open |-> TRUE] \in [address : Switches, open : BOOLEAN]
    BY <1>7 DEF Connect, TypeOK, Serving
  <2>2. connections' \in Seq([address : Switches, open : BOOLEAN]) /\ connections' # <<>>
    BY <1>7, <2>1 DEF Connect, TypeOK
  <2> QED
    BY <1>7, <2>2 DEF Connect, TypeOK, Places, Serving, Filed, fileVars, managerVars,
                      buildVars, boundVars
<1>8. CASE DieConnecting
  BY <1>8, TypeDies DEF DieConnecting
<1>9. CASE Install
  <2>1. connections' \in Seq([address : Switches, open : BOOLEAN])
    BY <1>9, ClosedConnections
    DEF Install, ShutdownAllSwitchConnections, TypeOK, Connections
  <2>2. DOMAIN switches' = Switches
    BY <1>9 DEF Install, TypeOK
  <2> QED
    BY <1>9, <2>1, <2>2 DEF Install, TypeOK, Places, Serving, Filed, fileVars,
                            managerVars, buildVars, boundVars
<1>10. CASE DieInstalling
  BY <1>10, TypeDies DEF DieInstalling
<1>11. CASE Acknowledge
  BY <1>11 DEF Acknowledge, TypeOK, Places, Serving, Filed, managerVars, buildVars,
               switchVars, boundVars
<1>12. CASE RemoveRequest
  <2>1. /\ requests' \in [Flows -> Texts \cup {NoText, NoFile}]
        /\ Filed' = Filed \ {flow}
    BY <1>12 DEF RemoveRequest, TypeOK, Filed
  <2>2. todo' \ {"exit"} \subseteq Filed'
    BY <1>12, <2>1 DEF RemoveRequest, TypeOK, Filed
  <2> QED
    BY <1>12, <2>1, <2>2 DEF RemoveRequest, TypeOK, Places, Serving, managerVars,
                             buildVars, switchVars, boundVars
<1> QED
  BY <1>1, <1>2, <1>3, <1>4, <1>5, <1>6, <1>7, <1>8, <1>9, <1>10, <1>11, <1>12
  DEF ControllerStep

\* Restarts and outages keep the types.
LEMMA TypeSurroundings ==
    TypeOK /\ (RestartController \/ \E s \in Switches : SwitchDown(s) \/ SwitchUp(s))
        => TypeOK'
<1> SUFFICES ASSUME TypeOK PROVE
        /\ RestartController => TypeOK'
        /\ \A s \in Switches : SwitchDown(s) \/ SwitchUp(s) => TypeOK'
  OBVIOUS
<1>1. CASE RestartController
  <2>1. connections' \in Seq([address : Switches, open : BOOLEAN])
    BY <1>1 DEF RestartController
  <2>2. restarts' \in 0 .. MaxRestarts
    BY <1>1, BoundsAssumption DEF RestartController, TypeOK
  <2> QED
    BY <1>1, <2>1, <2>2 DEF RestartController, TypeOK, Places, Serving, Filed, fileVars,
                            managerVars, buildVars
<1>2. ASSUME NEW s \in Switches, SwitchDown(s) PROVE TypeOK'
  <2>1. connections' \in Seq([address : Switches, open : BOOLEAN])
    BY <1>2, ClosedConnections DEF SwitchDown, TypeOK, Connections
  <2>2. pc' = "install" => connections' # <<>>
    BY <1>2 DEF SwitchDown, TypeOK, placeVars
  <2>3. outages' \in Nat /\ outages' + badCompiles <= MaxFailures
    BY <1>2, BoundsAssumption DEF SwitchDown, TypeOK
  <2>4. DOMAIN switches' = Switches /\ up' \subseteq Switches
    BY <1>2 DEF SwitchDown, TypeOK
  <2> QED
    BY <1>2, <2>1, <2>2, <2>3, <2>4
    DEF SwitchDown, TypeOK, Filed, fileVars, managerVars, placeVars, buildVars
<1>3. ASSUME NEW s \in Switches, SwitchUp(s) PROVE TypeOK'
  BY <1>3 DEF SwitchUp, TypeOK, Filed, fileVars, managerVars, placeVars, buildVars,
              boundVars
<1> QED
  BY <1>1, <1>2, <1>3

\* Every step keeps the types.
LEMMA TypeStep == TypeOK /\ [Next]_controllerVars => TypeOK'
<1> SUFFICES ASSUME TypeOK, [Next]_controllerVars PROVE TypeOK'
  OBVIOUS
<1>1. CASE UNCHANGED controllerVars
  BY <1>1 DEF controllerVars, TypeOK, Filed, fileVars, managerVars, placeVars, buildVars,
              switchVars, boundVars
<1> QED
  BY <1>1, TypeManager, TypeController, TypeSurroundings DEF Next

\* Every variable of the controller always has its type, and a request is being
\* served exactly where controller.py has one.
THEOREM TypeCorrect == Spec => []TypeOK
<1> QED
  BY TypeInit, TypeStep, PTL DEF Spec

----------------------------------------------------------------------------
(* Streams.                                                                *)

\* What is in the list of connections is a record.
LEMMA Records == TypeOK => \A i \in DOMAIN connections :
        /\ connections[i] \in Connections
        /\ [connections[i] EXCEPT !.open = FALSE].open = FALSE
<1> SUFFICES ASSUME TypeOK, NEW i \in DOMAIN connections
             PROVE connections[i] \in Connections
  BY DEF Connections
<1>1. connections \in Seq(Connections)
  BY DEF TypeOK, Connections
<1>2. i \in 1 .. Len(connections)
  BY <1>1, LenProperties
<1> QED
  BY <1>1, <1>2, ElementOfSeq

\* No step leaves a stream open behind the installation it was opened for.
LEMMA StreamsStep == TypeOK /\ StreamsClosed /\ [Next]_controllerVars => StreamsClosed'
<1> SUFFICES ASSUME TypeOK, StreamsClosed, [Next]_controllerVars PROVE StreamsClosed'
  OBVIOUS
<1>1. CASE ManagerStep \/ UNCHANGED controllerVars
  BY <1>1 DEF ManagerStep, FileRequest, FillRequest, TakeAck, RestartManager, AskToExit,
              StreamsClosed, controllerVars, placeVars, switchVars
<1>2. CASE ControllerStep
  <2>1. CASE Dies
    BY <2>1 DEF Dies, StreamsClosed
  <2>2. CASE Install
    <3>1. \A i \in DOMAIN connections' : ~connections'[i].open
      BY <2>2, Records DEF Install, ShutdownAllSwitchConnections
    <3> QED
      BY <3>1 DEF StreamsClosed
  <2>3. CASE Connect
    BY <2>3 DEF Connect, StreamsClosed
  <2>4. CASE UNCHANGED switchVars /\ pc # "install"
    BY <2>4 DEF StreamsClosed, switchVars
  <2> QED
    BY <1>2, <2>1, <2>2, <2>3, <2>4
    DEF ControllerStep, ListFiles, EndRound, FindExit, ReadRequest, DieReading, Compile,
        DieConnecting, DieInstalling, Acknowledge, RemoveRequest
<1>3. CASE RestartController
  BY <1>3 DEF RestartController, StreamsClosed
<1>4. ASSUME NEW s \in Switches, SwitchDown(s) \/ SwitchUp(s) PROVE StreamsClosed'
  <2>1. pc' = pc /\ DOMAIN connections' = DOMAIN connections
    BY <1>4 DEF SwitchDown, SwitchUp, placeVars
  <2>2. ASSUME NEW i \in DOMAIN connections, ~connections[i].open
        PROVE ~connections'[i].open
    BY <1>4, <2>2, Records DEF SwitchDown, SwitchUp
  <2> QED
    BY <2>1, <2>2 DEF StreamsClosed
<1> QED
  BY <1>1, <1>2, <1>3, <1>4 DEF Next

\* Between two installations no stream to a switch is open.
THEOREM StreamsClosedCorrect == Spec => []StreamsClosed
<1>1. Init => StreamsClosed
  BY DEF Init, StreamsClosed
<1> QED
  BY <1>1, StreamsStep, TypeCorrect, PTL DEF Spec

----------------------------------------------------------------------------
(* Rules.                                                                  *)

NothingFailed == restarts + outages + badCompiles = 0

\* What NewestRuleInstalled rests on: the request's own program is handed from
\* file to file until it is in the switch.
ProgramHandedOn ==
    NothingFailed =>
        /\ pc = "compile" => replacement = generate_p4(text)
        /\ pc \in {"connect", "install"} => build = generate_p4(text)
        /\ pc = "acknowledge" => switches[text.switch].program = generate_p4(text)

RuleInvariant == ProgramHandedOn /\ NewestRuleInstalled

\* generate_p4 writes the rules the request asks for.
LEMMA GeneratedReroutes == \A t : Reroutes(generate_p4(t), t)
<1> SUFFICES ASSUME NEW t, t.rule.dst.addr # t.client,
                    NEW protocol \in {"tcp", "udp"}, NEW from \in Locations,
                    NEW l \in Locations
             PROVE
    LET client == [addr |-> t.client, port |-> from.port]
        request == Packet(protocol, client, t.rule.dst)
        seen == Packet(protocol, client, t.rule.agent)
        other == Packet(protocol, client, l)
    IN /\ MyIngress(generate_p4(t), request) = OnPort(2, seen)
       /\ MyIngress(generate_p4(t), AnswerTo(seen)) = OnPort(1, AnswerTo(request))
       /\ l.addr # t.client /\ l # t.rule.dst =>
            MyIngress(generate_p4(t), other) = OnPort(2, other)
       /\ l # t.rule.agent =>
            MyIngress(generate_p4(t), AnswerTo(other)) = OnPort(1, AnswerTo(other))
  BY DEF Reroutes
<1> DEFINE P == generate_p4(t)
           client == [addr |-> t.client, port |-> from.port]
           In(p) == p.src = t.rule.agent /\ p.dst.addr = t.client
           Out(p) == p.src.addr = t.client /\ p.dst = t.rule.dst
<1>1. ASSUME NEW src, NEW dst, ~In(Packet(protocol, src, dst)),
             ~Out(Packet(protocol, src, dst))
      PROVE  MyIngress(P, Packet(protocol, src, dst)) =
                OnPort(IF dst.addr = t.client THEN 1 ELSE 2, Packet(protocol, src, dst))
  BY <1>1 DEF MyIngress, routing, IncomingRules, OutgoingRules, generate_p4, Packet
<1>2. ASSUME NEW src, NEW dst, In(Packet(protocol, src, dst))
      PROVE  MyIngress(P, Packet(protocol, src, dst)) =
                OnPort(1, Packet(protocol, t.rule.dst, dst))
  <2> DEFINE p == Packet(protocol, src, dst)
             rule == [from |-> t.rule.agent, as |-> t.rule.dst]
  <2>1. IncomingRules(P, p) = {rule}
    BY <1>2 DEF IncomingRules, generate_p4, Packet
  <2>2. (CHOOSE r \in IncomingRules(P, p) : TRUE) = rule
    BY <2>1
  <2>3. MyIngress(P, p) = fake_source(rule, p)
    BY <2>1, <2>2 DEF MyIngress, routing, Packet
  <2> QED
    BY <2>3 DEF fake_source, OnPort, Packet
<1>3. ASSUME NEW src, NEW dst, ~In(Packet(protocol, src, dst)),
             Out(Packet(protocol, src, dst))
      PROVE  MyIngress(P, Packet(protocol, src, dst)) =
                OnPort(2, Packet(protocol, src, t.rule.agent))
  <2> DEFINE p == Packet(protocol, src, dst)
             rule == [to |-> t.rule.dst, via |-> t.rule.agent]
  <2>1. IncomingRules(P, p) = {} /\ OutgoingRules(P, p) = {rule}
    BY <1>3 DEF IncomingRules, OutgoingRules, generate_p4, Packet
  <2>2. (CHOOSE r \in OutgoingRules(P, p) : TRUE) = rule
    BY <2>1
  <2>3. MyIngress(P, p) = reroute(rule, p)
    BY <2>1, <2>2 DEF MyIngress, routing, Packet
  <2> QED
    BY <2>3 DEF reroute, OnPort, Packet
<1>4. MyIngress(P, Packet(protocol, client, t.rule.dst)) =
        OnPort(2, Packet(protocol, client, t.rule.agent))
  BY <1>3 DEF Packet
<1>5. MyIngress(P, Packet(protocol, t.rule.agent, client)) =
        OnPort(1, Packet(protocol, t.rule.dst, client))
  BY <1>2 DEF Packet
<1>6. l.addr # t.client /\ l # t.rule.dst =>
        MyIngress(P, Packet(protocol, client, l)) = OnPort(2, Packet(protocol, client, l))
  BY <1>1 DEF Packet
<1>7. l # t.rule.agent =>
        MyIngress(P, Packet(protocol, l, client)) = OnPort(1, Packet(protocol, l, client))
  BY <1>1 DEF Packet
<1> QED
  BY <1>4, <1>5, <1>6, <1>7 DEF AnswerTo, Packet

\* If nothing has failed after a step, nothing had failed before it.
LEMMA FailuresStay == TypeOK /\ [Next]_controllerVars /\ NothingFailed' =>
        /\ NothingFailed
        /\ UNCHANGED boundVars
<1> SUFFICES ASSUME TypeOK, [Next]_controllerVars, NothingFailed'
             PROVE NothingFailed /\ UNCHANGED boundVars
  OBVIOUS
<1>1. restarts \in Nat /\ outages \in Nat /\ badCompiles \in Nat
  BY BoundsAssumption DEF TypeOK
<1>2. UNCHANGED boundVars \/ (restarts' = restarts + 1 /\ UNCHANGED <<outages, badCompiles>>)
      \/ (outages' = outages + 1 /\ UNCHANGED <<restarts, badCompiles>>)
      \/ (badCompiles' = badCompiles + 1 /\ UNCHANGED <<restarts, outages>>)
  BY DEF Next, ManagerStep, FileRequest, FillRequest, TakeAck, RestartManager, AskToExit,
         ControllerStep, ListFiles, EndRound, FindExit, ReadRequest, DieReading, Dies,
         Compile, Connect, DieConnecting, Install, DieInstalling, Acknowledge,
         RemoveRequest, RestartController, SwitchDown, SwitchUp, controllerVars, boundVars
<1> QED
  BY <1>1, <1>2 DEF NothingFailed, boundVars

\* Every step hands the program on and leaves the other switches alone.
LEMMA RuleStep == TypeOK /\ RuleInvariant /\ [Next]_controllerVars => RuleInvariant'
<1> SUFFICES ASSUME TypeOK, RuleInvariant, [Next]_controllerVars, NothingFailed'
             PROVE  /\ ProgramHandedOn'
                    /\ \A s \in Switches : newest'[s] # NoText =>
                         \/ Reroutes(switches'[s].program, newest'[s])
                         \/ pc' = "acknowledge" /\ text'.switch = s
  <2>1. CASE NothingFailed'
    BY <2>1 DEF RuleInvariant, NewestRuleInstalled
  <2>2. CASE ~NothingFailed'
    BY <2>2 DEF RuleInvariant, NewestRuleInstalled, ProgramHandedOn, NothingFailed
  <2> QED
    BY <2>1, <2>2
<1>1. NothingFailed /\ UNCHANGED boundVars
  BY FailuresStay
<1>2. /\ pc = "compile" => replacement = generate_p4(text)
      /\ pc \in {"connect", "install"} => build = generate_p4(text)
      /\ pc = "acknowledge" => switches[text.switch].program = generate_p4(text)
      /\ \A s \in Switches : newest[s] # NoText =>
            \/ Reroutes(switches[s].program, newest[s])
            \/ pc = "acknowledge" /\ text.switch = s
  BY <1>1 DEF RuleInvariant, ProgramHandedOn, NewestRuleInstalled, NothingFailed
<1>3. CASE ManagerStep \/ UNCHANGED controllerVars
  BY <1>2, <1>3
  DEF ManagerStep, FileRequest, FillRequest, TakeAck, RestartManager, AskToExit,
      ProgramHandedOn, controllerVars, placeVars, buildVars, switchVars
<1>4. CASE ControllerStep
  <2>1. ASSUME NEW f \in Flows, ReadRequest(f) PROVE RuleInvariant'
    BY <1>2, <2>1
    DEF ReadRequest, RuleInvariant, ProgramHandedOn, NewestRuleInstalled, switchVars
  <2>2. CASE Compile
    <3>1. build' = replacement
      <4>1. badCompiles \in Nat /\ badCompiles' = badCompiles
        BY <1>1 DEF TypeOK, boundVars
      <4> QED
        BY <2>2, <4>1 DEF Compile
    <3> QED
      BY <1>2, <2>2, <3>1 DEF Compile, ProgramHandedOn, switchVars
  <2>3. CASE Connect
    BY <1>2, <2>3 DEF Connect, ProgramHandedOn, buildVars
  <2>4. CASE Install
    <3>1. text.switch \in Switches
      BY <2>4, TextsAssumption DEF Install, TypeOK, Serving
    <3>2. switches'[text.switch].program = build
      BY <2>4, <3>1 DEF Install, TypeOK, SetForwardingPipelineConfig, FreshSwitch
    <3>3. \A s \in Switches : s # text.switch => switches'[s] = switches[s]
      BY <2>4 DEF Install, TypeOK
    <3> QED
      BY <1>2, <2>4, <3>2, <3>3 DEF Install, ProgramHandedOn
  <2>5. CASE Acknowledge
    <3>1. newest'[text.switch] = text
      BY <2>5, TextsAssumption DEF Acknowledge, TypeOK, Serving
    <3>2. \A s \in Switches : s # text.switch => newest'[s] = newest[s]
      BY <2>5 DEF Acknowledge, TypeOK
    <3> QED
      BY <1>2, <2>5, <3>1, <3>2, GeneratedReroutes
      DEF Acknowledge, ProgramHandedOn, switchVars
  <2>6. CASE /\ UNCHANGED <<switches, newest>>
             /\ pc \notin {"compile", "connect", "install", "acknowledge"}
             /\ pc' \notin {"compile", "connect", "install", "acknowledge"}
    BY <1>2, <2>6 DEF ProgramHandedOn
  <2>7. CASE Dies
    <3>1. pc # "acknowledge"
      BY <1>4, <2>7 DEF ControllerStep, ListFiles, EndRound, FindExit, ReadRequest,
           DieReading, Compile, Connect, DieConnecting, Install, DieInstalling,
           Acknowledge, RemoveRequest, Dies
    <3> QED
      BY <1>2, <2>7, <3>1 DEF Dies, ProgramHandedOn
  <2> QED
    BY <1>4, <2>1, <2>2, <2>3, <2>4, <2>5, <2>6, <2>7
    DEF ControllerStep, ListFiles, EndRound, FindExit, DieReading, DieConnecting,
        DieInstalling, RemoveRequest, switchVars, RuleInvariant, NewestRuleInstalled,
        NothingFailed
<1>5. CASE RestartController
  <2>1. restarts \in Nat /\ restarts' = restarts
    BY <1>1, BoundsAssumption DEF TypeOK, boundVars
  <2> QED
    BY <1>5, <2>1 DEF RestartController
<1>6. ASSUME NEW s \in Switches, SwitchDown(s) PROVE FALSE
  <2>1. outages \in Nat /\ outages' = outages
    BY <1>1 DEF TypeOK, boundVars
  <2> QED
    BY <1>6, <2>1 DEF SwitchDown
<1>7. ASSUME NEW s \in Switches, SwitchUp(s) PROVE RuleInvariant'
  BY <1>2, <1>7
  DEF SwitchUp, RuleInvariant, ProgramHandedOn, NewestRuleInstalled, placeVars, buildVars
<1> QED
  BY <1>3, <1>4, <1>5, <1>6, <1>7
  DEF Next, RuleInvariant, NewestRuleInstalled, NothingFailed

\* As long as nothing is restarted and nothing fails, every switch reroutes for the
\* request acknowledged last for it (controller.py:106).
THEOREM NewestRuleCorrect == Spec => []NewestRuleInstalled
<1>1. Init => RuleInvariant
  BY DEF Init, RuleInvariant, ProgramHandedOn, NewestRuleInstalled
<1>2. Spec => []RuleInvariant
  BY <1>1, RuleStep, TypeCorrect, PTL DEF Spec
<1>3. RuleInvariant => NewestRuleInstalled
  BY DEF RuleInvariant
<1> QED
  BY <1>2, <1>3, PTL

----------------------------------------------------------------------------
(* The controller keeps the promise of its directory.                      *)

\* A manager's or operator's step files a request, collects an acknowledgement or
\* changes nothing of the directory's protocol.
LEMMA ManagerHandshake ==
    TypeOK /\ ManagerStep => [H!Next]_(H!handshakeVars)
<1> SUFFICES ASSUME TypeOK, ManagerStep PROVE [H!Next]_(H!handshakeVars)
  OBVIOUS
<1> USE TextsAssumption
<1>1. ASSUME NEW f \in Flows, FileRequest(f) PROVE H!File
  <2>1. Filed' = Filed \cup {f}
    BY <1>1 DEF FileRequest, TypeOK, Filed
  <2> QED
    BY <1>1, <2>1 DEF FileRequest, H!File, placeVars
<1>2. ASSUME NEW t \in Texts, FillRequest(t) PROVE UNCHANGED H!handshakeVars
  <2>1. Filed' = Filed
    BY <1>2 DEF FillRequest, TypeOK, Filed
  <2> QED
    BY <1>2, <2>1 DEF FillRequest, H!handshakeVars, placeVars
<1>3. CASE TakeAck
  BY <1>3 DEF TakeAck, H!Next, H!Collect, Filed, placeVars
<1>4. CASE RestartManager \/ AskToExit
  BY <1>4 DEF RestartManager, AskToExit, H!handshakeVars, Filed, fileVars, placeVars
<1> QED
  BY <1>1, <1>2, <1>3, <1>4 DEF ManagerStep, H!Next

\* A step of the controller picks up, acknowledges, takes away, ends or is not
\* seen from outside.
LEMMA ControllerHandshake ==
    TypeOK /\ ControllerStep => [H!Next]_(H!handshakeVars)
<1> SUFFICES ASSUME TypeOK, ControllerStep PROVE [H!Next]_(H!handshakeVars)
  OBVIOUS
<1> USE DEF Serving
<1>1. CASE ListFiles \/ EndRound
  BY <1>1 DEF ListFiles, EndRound, H!handshakeVars, Filed, fileVars
<1>2. CASE FindExit
  BY <1>2 DEF FindExit, H!Next, H!End, H!NobodyServed, Filed
<1>3. ASSUME NEW f \in Flows, ReadRequest(f) PROVE H!PickUp
  <2>1. f \in Filed
    BY <1>3, FlowsAssumption DEF ReadRequest, TypeOK
  <2> QED
    BY <1>3, <2>1 DEF ReadRequest, H!PickUp, Filed, fileVars
<1>4. CASE Dies
  BY <1>4 DEF Dies, H!Next, H!End, H!NobodyServed, Filed, fileVars
<1>5. CASE Compile \/ Connect \/ Install
  BY <1>5 DEF Compile, Connect, Install, H!handshakeVars, Filed, fileVars
<1>6. CASE Acknowledge
  BY <1>6 DEF Acknowledge, H!Next, H!Acknowledge, Filed
<1>7. CASE RemoveRequest
  <2>1. Filed' = Filed \ {flow}
    BY <1>7 DEF RemoveRequest, TypeOK, Filed
  <2> QED
    BY <1>7, <2>1 DEF RemoveRequest, H!Next, H!TakeAway, H!NobodyServed
<1> QED
  BY <1>1, <1>2, <1>3, <1>4, <1>5, <1>6, <1>7
  DEF ControllerStep, DieReading, DieConnecting, DieInstalling, H!Next

\* Restarts and outages: a new controller starts with what is there.
LEMMA HandshakeStep ==
    TypeOK /\ [Next]_controllerVars => [H!Next]_(H!handshakeVars)
<1> SUFFICES ASSUME TypeOK, [Next]_controllerVars PROVE [H!Next]_(H!handshakeVars)
  OBVIOUS
<1>1. CASE UNCHANGED controllerVars
  BY <1>1 DEF controllerVars, H!handshakeVars, Filed, fileVars, placeVars
<1>2. CASE RestartController
  BY <1>2 DEF RestartController, H!Next, H!Start, H!NobodyServed, Filed, fileVars, Serving
<1>3. ASSUME NEW s \in Switches, SwitchDown(s) \/ SwitchUp(s)
      PROVE UNCHANGED H!handshakeVars
  BY <1>3 DEF SwitchDown, SwitchUp, H!handshakeVars, Filed, fileVars, placeVars
<1> QED
  BY <1>1, <1>2, <1>3, ManagerHandshake, ControllerHandshake DEF Next

\* The controller with its restarts and failures implements the directory's
\* protocol: a request that was filed goes only after it was acknowledged.
THEOREM HandshakeImplemented == Spec => ImplementsHandshake
<1>1. Init => H!Init
  BY DEF Init, H!Init, H!NobodyServed, Filed, Serving
<1> QED
  BY <1>1, HandshakeStep, TypeCorrect, PTL DEF Spec, ImplementsHandshake, H!HandshakeSpec

=============================================================================
