-------------------------- MODULE AgentControl_proofs --------------------------
(* For any set of hosts, messages and taken ports, and any number of           *)
(* connections, errors and signals.                                            *)
EXTENDS AgentControl, FlowMap_proofs, SequenceTheorems, TLAPS

----------------------------------------------------------------------------
(* Types.                                                                  *)

\* The messages an agent handles: what is sent, or the buffer nobody wrote.
Messages == DirectMessages \cup {UnreadBuffer}

Additions == {msg \in Messages : msg.type \in AddTypes}

Targets == {msg.target : msg \in Additions} \cup {NoTarget}

Overlays == {msg.overlay : msg \in Additions}

Threads ==
    [kind : {"inbound", "outbound", "bypass"}, target : Targets, overlay : Overlays,
     port : Nat, state : ThreadStates]

\* A message read as the addition or removal of a routing has the fields read.
LEMMA MessageFields ==
    ASSUME NEW msg \in Messages
    PROVE  /\ msg \in Additions =>
                msg.flowId \in Nat /\ msg.bypass \in BOOLEAN /\ msg.flowPort \in Nat
           /\ msg.type = "REMOVE_FLOW_ROUTING" => msg.flowId \in Nat
BY AgentMessageAssumption DEF Messages, Additions, UnreadBuffer, AddTypes

\* The lists of threads have their types.
ThreadInv == threads \in [Hosts -> Seq(Threads)] /\ frame \in [Hosts -> Targets]

\* The control thread works for a message it has started a thread for.
ServiceInv ==
    /\ agentPc \in [Hosts -> {"accept", "creating", "hung", "stopped", "crashed"}]
    /\ agentBuf \in [Hosts -> Messages]
    /\ DOMAIN serving = Hosts
    /\ \A h \in Hosts : agentPc[h] = "creating" =>
        /\ serving[h].message \in Additions
        /\ threads[h] # <<>>

NumberInv ==
    /\ done \in [Hosts -> Nat]
    /\ currentPort \in [Hosts -> Nat \ {0}]
    /\ direct \in 0 .. MaxDirect
    /\ errors \in 0 .. MaxErrors
    /\ kills \in 0 .. MaxKills

\* The routing maps are well formed, with flow numbers for keys.
RoutingInv ==
    /\ DOMAIN flowRoutingMap = Hosts
    /\ \A h \in Hosts : MapOver(flowRoutingMap[h], Nat, {})

HistoryInv ==
    /\ DOMAIN acked = Hosts /\ DOMAIN forgotten = Hosts
    /\ \A h \in Hosts : \A a \in acked[h] : a.thread \in DOMAIN threads[h]

TypeInv == ThreadInv /\ ServiceInv /\ NumberInv /\ RoutingInv /\ HistoryInv

\* Every thread but the one the control thread waits for has an open interface,
\* and that one has met no error.
OthersServe(h) ==
    \A i \in DOMAIN threads[h] : threads[h][i].state # "serving" =>
        /\ threads[h][i].state # "failing"
        /\ agentPc[h] = "creating" /\ i = Len(threads[h])

\* The thread the control thread waits for was started for its message and is not
\* acknowledged; `done' is its signal.
NewestWorks(h) ==
    agentPc[h] = "creating" =>
        LET t   == threads[h][Len(threads[h])]
            msg == serving[h].message
        IN  /\ t.kind = Kind(msg) /\ t.target = msg.target /\ frame[h] = msg.target
            /\ ~msg.bypass => t.overlay = msg.overlay
            /\ done[h] # 0 => t.state = "serving" /\ t.port = done[h]
            /\ \A a \in acked[h] : a.thread # Len(threads[h])

AcksServed(h) ==
    \A a \in acked[h] :
        /\ Serves(threads[h][a.thread], a.message, a.port)
        /\ \A b \in acked[h] : a.thread = b.thread => a = b

HonestInv ==
    errors = 0 => \A h \in Hosts : OthersServe(h) /\ NewestWorks(h) /\ AcksServed(h)

AgentInv == TypeInv /\ RoutesListed /\ HonestInv

LEMMA InitAgentInv == Init => AgentInv
<1> SUFFICES ASSUME Init PROVE AgentInv
  OBVIOUS
<1>1. ThreadInv
  BY DEF Init, ThreadInv, Targets
<1>2. ServiceInv
  BY DEF Init, ServiceInv, Messages
<1>3. NumberInv
  BY AgentPortAssumption, AgentBoundAssumption DEF Init, NumberInv
<1>4. RoutingInv
  BY CreatedMap DEF Init, RoutingInv
<1>5. HistoryInv /\ RoutesListed
  BY DEF Init, HistoryInv, RoutesListed
<1>6. HonestInv
  BY DEF Init, HonestInv, OthersServe, NewestWorks, AcksServed
<1> QED
  BY <1>1, <1>2, <1>3, <1>4, <1>5, <1>6 DEF AgentInv, TypeInv

SameAgent(g) ==
    /\ agentPc'[g] = agentPc[g] /\ serving'[g] = serving[g] /\ acked'[g] = acked[g]
    /\ threads'[g] = threads[g] /\ done'[g] = done[g] /\ frame'[g] = frame[g]

\* A step of one host leaves the threads of the others as they were.
LEMMA HonestElsewhere ==
    ASSUME HonestInv, errors' = errors, NEW h \in Hosts,
           \A g \in Hosts \ {h} : SameAgent(g),
           errors = 0 => (OthersServe(h) /\ NewestWorks(h) /\ AcksServed(h))'
    PROVE  HonestInv'
<1> SUFFICES ASSUME errors = 0, NEW g \in Hosts, g # h
             PROVE  (OthersServe(g) /\ NewestWorks(g) /\ AcksServed(g))'
  BY DEF HonestInv
<1>1. OthersServe(g) /\ NewestWorks(g) /\ AcksServed(g) /\ SameAgent(g)
  BY DEF HonestInv
<1> QED
  BY <1>1 DEF SameAgent, OthersServe, NewestWorks, AcksServed

----------------------------------------------------------------------------
(* The process.                                                            *)

\* An agent that starts, or is over, has no thread and has acknowledged nothing.
LEMMA FreshStep ==
    ASSUME AgentInv, NEW h \in Hosts, FreshAgent(h),
           NEW p \in {"accept", "stopped", "crashed"}, agentPc' = [agentPc EXCEPT ![h] = p],
           direct' \in 0 .. MaxDirect, UNCHANGED errors, kills' \in 0 .. MaxKills
    PROVE  AgentInv'
<1>1. ThreadInv'
  BY DEF FreshAgent, AgentInv, TypeInv, ThreadInv, Targets
<1>2. ServiceInv'
  BY DEF FreshAgent, AgentInv, TypeInv, ServiceInv, ThreadInv, Messages
<1>3. NumberInv'
  BY AgentPortAssumption DEF FreshAgent, AgentInv, TypeInv, NumberInv
<1>4. RoutingInv'
  BY CreatedMap DEF FreshAgent, AgentInv, TypeInv, RoutingInv
<1>5. HistoryInv' /\ RoutesListed'
  BY DEF FreshAgent, AgentInv, TypeInv, HistoryInv, ThreadInv, RoutingInv, RoutesListed
<1>6. HonestInv'
  <2>1. \A g \in Hosts \ {h} : SameAgent(g)
    BY DEF FreshAgent, SameAgent, AgentInv, TypeInv, ThreadInv, ServiceInv, HistoryInv,
           NumberInv
  <2>2. (OthersServe(h) /\ NewestWorks(h) /\ AcksServed(h))'
    BY DEF FreshAgent, OthersServe, NewestWorks, AcksServed, AgentInv, TypeInv, ThreadInv,
           ServiceInv, HistoryInv
  <2> QED
    BY <2>1, <2>2, HonestElsewhere DEF AgentInv
<1> QED
  BY <1>1, <1>2, <1>3, <1>4, <1>5, <1>6 DEF AgentInv, TypeInv
----------------------------------------------------------------------------
(* The control thread.                                                     *)

LEMMA AddStep ==
    ASSUME AgentInv, NEW h \in Hosts, NEW msg \in Additions, agentPc[h] = "accept",
           NEW caller, AddRouting(h, msg, caller), agentBuf' = [agentBuf EXCEPT ![h] = msg],
           direct' \in 0 .. MaxDirect, UNCHANGED <<errors, kills>>
    PROVE  AgentInv'
<1> DEFINE n == Len(threads[h])
           t == NewThread(msg)
<1>0. msg \in Messages /\ msg.flowPort \in Nat /\ msg.bypass \in BOOLEAN
  BY MessageFields DEF Additions
<1>1. /\ threads' = [threads EXCEPT ![h] = Append(@, t)]
      /\ done' = [done EXCEPT ![h] = 0] /\ frame' = [frame EXCEPT ![h] = msg.target]
      /\ currentPort' = currentPort
      /\ serving' = [serving EXCEPT ![h] = [message |-> msg, caller |-> caller]]
      /\ agentPc' = [agentPc EXCEPT ![h] = "creating"]
      /\ UNCHANGED <<flowRoutingMap, acked, forgotten>>
  BY DEF AddRouting, create_interface
<1>2. /\ t \in Threads /\ t.state = "starting" /\ t.kind = Kind(msg)
      /\ t.target = msg.target /\ t.overlay = msg.overlay
  BY <1>0 DEF NewThread, Kind, Threads, ThreadStates, Targets, Overlays
<1>3. threads[h] \in Seq(Threads) /\ n \in Nat /\ DOMAIN threads[h] = 1 .. n
  BY DEF AgentInv, TypeInv, ThreadInv
<1> HIDE DEF t
<1>4. /\ threads'[h] \in Seq(Threads) /\ Len(threads'[h]) = n + 1
      /\ \A i \in 1 .. n : threads'[h][i] = threads[h][i]
      /\ threads'[h][n + 1] = t /\ DOMAIN threads'[h] = 1 .. (n + 1)
  BY <1>1, <1>2, <1>3 DEF AgentInv, TypeInv, ThreadInv
<1>5. ThreadInv'
  BY <1>1, <1>4 DEF AgentInv, TypeInv, ThreadInv, Targets
<1>6. ServiceInv'
  <2>0. threads'[h] # <<>>
    BY <1>3, <1>4
  <2>1. DOMAIN serving' = Hosts /\ serving'[h].message = msg
        /\ agentBuf' \in [Hosts -> Messages]
        /\ agentPc' \in [Hosts -> {"accept", "creating", "hung", "stopped", "crashed"}]
    BY <1>0, <1>1 DEF AgentInv, TypeInv, ServiceInv
  <2>2. \A g \in Hosts \ {h} : agentPc'[g] = agentPc[g] /\ serving'[g] = serving[g]
                              /\ threads'[g] = threads[g]
    BY <1>1 DEF AgentInv, TypeInv, ThreadInv, ServiceInv
  <2> QED
    BY <2>0, <2>1, <2>2 DEF AgentInv, TypeInv, ServiceInv
<1>7. NumberInv' /\ RoutingInv'
  BY <1>1 DEF AgentInv, TypeInv, NumberInv, RoutingInv
<1>8. HistoryInv' /\ RoutesListed'
  BY <1>1, <1>3, <1>4 DEF AgentInv, TypeInv, ThreadInv, HistoryInv, RoutesListed
<1>9. HonestInv'
  <2>1. \A g \in Hosts \ {h} : SameAgent(g)
    BY <1>1 DEF SameAgent, AgentInv, TypeInv, ThreadInv, ServiceInv, HistoryInv, NumberInv
  <2>2. SUFFICES ASSUME errors = 0
                 PROVE  (OthersServe(h) /\ NewestWorks(h) /\ AcksServed(h))'
    BY <2>1, HonestElsewhere DEF AgentInv
  <2>3. OthersServe(h) /\ AcksServed(h) /\ \A a \in acked[h] : a.thread \in 1 .. n
    BY <1>3, <2>2 DEF AgentInv, HonestInv, TypeInv, HistoryInv
  <2>4. agentPc'[h] = "creating" /\ serving'[h].message = msg /\ done'[h] = 0
        /\ acked'[h] = acked[h] /\ frame'[h] = msg.target
    BY <1>1 DEF AgentInv, TypeInv, ThreadInv, ServiceInv, NumberInv
  <2>5. OthersServe(h)'
    <3>1. \A i \in 1 .. n : threads'[h][i].state = "serving"
      BY <1>3, <1>4, <2>3 DEF OthersServe
    <3>2. threads'[h][n + 1].state # "failing"
      BY <1>2, <1>4
    <3>3. \A i \in DOMAIN threads'[h] : i \in 1 .. n \/ i = n + 1
      BY <1>3, <1>4
    <3> QED
      BY <1>4, <2>4, <3>1, <3>2, <3>3 DEF OthersServe
  <2>6. NewestWorks(h)'
    BY <1>2, <1>3, <1>4, <2>3, <2>4 DEF NewestWorks
  <2>7. AcksServed(h)'
    BY <1>4, <2>3, <2>4 DEF AcksServed
  <2> QED
    BY <2>5, <2>6, <2>7
<1> QED
  BY <1>5, <1>6, <1>7, <1>8, <1>9 DEF AgentInv, TypeInv

LEMMA RemoveStep ==
    ASSUME AgentInv, NEW h \in Hosts, NEW msg \in Messages, agentPc[h] = "accept",
           msg.flowId \in Nat, RemoveRouting(h, msg.flowId),
           agentBuf' = [agentBuf EXCEPT ![h] = msg],
           direct' \in 0 .. MaxDirect, UNCHANGED <<errors, kills>>
    PROVE  AgentInv'
<1> DEFINE k == msg.flowId
           m == flowRoutingMap[h]
<1>1. UNCHANGED <<serving, acked, done, currentPort, threads, frame>>
  BY DEF RemoveRouting, dataVars
<1>2. DOMAIN flowRoutingMap = Hosts /\ DOMAIN forgotten = Hosts /\ MapOver(m, Nat, {})
  BY DEF AgentInv, TypeInv, RoutingInv, HistoryInv
<1>3. ThreadInv' /\ NumberInv'
  BY <1>1 DEF AgentInv, TypeInv, ThreadInv, NumberInv
<1>4. /\ agentPc' \in [Hosts -> {"accept", "creating", "hung", "stopped", "crashed"}]
      /\ agentPc'[h] # "creating"
      /\ \A g \in Hosts \ {h} : agentPc'[g] = agentPc[g]
  BY DEF RemoveRouting, AgentInv, TypeInv, ServiceInv
<1>5. ServiceInv'
  BY <1>1, <1>4 DEF AgentInv, TypeInv, ServiceInv
<1>6. HonestInv'
  <2>1. \A g \in Hosts \ {h} : SameAgent(g)
    BY <1>1, <1>4 DEF SameAgent
  <2>2. SUFFICES ASSUME errors = 0
                 PROVE  (OthersServe(h) /\ NewestWorks(h) /\ AcksServed(h))'
    BY <2>1, HonestElsewhere DEF AgentInv
  <2>3. OthersServe(h) /\ AcksServed(h)
    BY <2>2 DEF AgentInv, HonestInv
  <2> QED
    BY <1>1, <1>4, <2>3 DEF OthersServe, NewestWorks, AcksServed
<1>7. RoutingInv' /\ HistoryInv' /\ RoutesListed'
  <2>1. CASE DeleteHangs(m, k)
    BY <1>1, <2>1
    DEF RemoveRouting, AgentInv, TypeInv, RoutingInv, HistoryInv, RoutesListed
  <2>2. CASE ~DeleteHangs(m, k)
    <3>1. /\ flowRoutingMap' = [flowRoutingMap EXCEPT ![h] = map_delete(m, k)]
          /\ forgotten' = [forgotten EXCEPT ![h] = @ \cup {k}]
      BY <2>2 DEF RemoveRouting
    <3>2. Deleting(Nat, {}, m, k)
      BY <1>2, <2>2 DEF Deleting
    <3>3. MapOver(map_delete(m, k), Nat, {})
          /\ StoredKeys(m) \ {k} \subseteq StoredKeys(map_delete(m, k))
      BY <3>2, DeletedFields, Deleted
    <3>4. RoutingInv' /\ HistoryInv'
      BY <1>1, <1>2, <3>1, <3>3 DEF AgentInv, TypeInv, RoutingInv, HistoryInv
    <3>5. RoutesListed'
      BY <1>1, <1>2, <3>1, <3>3 DEF AgentInv, RoutesListed
    <3> QED
      BY <3>4, <3>5
  <2> QED
    BY <2>1, <2>2
<1> QED
  BY <1>3, <1>5, <1>6, <1>7 DEF AgentInv, TypeInv
\* A message that changes nothing but the lock of the map, or nothing at all.
LEMMA IdleStep ==
    ASSUME AgentInv, NEW h \in Hosts, NEW msg \in Messages, agentPc[h] = "accept",
           \/ UNCHANGED flowRoutingMap
           \/ flowRoutingMap' = [flowRoutingMap EXCEPT ![h] = AfterRead(@)],
           UNCHANGED <<agentPc, serving, acked, forgotten, dataVars>>,
           agentBuf' = [agentBuf EXCEPT ![h] = msg],
           direct' \in 0 .. MaxDirect, UNCHANGED <<errors, kills>>
    PROVE  AgentInv'
<1>1. ThreadInv' /\ ServiceInv' /\ NumberInv' /\ HistoryInv'
  BY DEF dataVars, AgentInv, TypeInv, ThreadInv, ServiceInv, NumberInv, HistoryInv
<1>2. HonestInv'
  BY DEF dataVars, AgentInv, HonestInv, OthersServe, NewestWorks, AcksServed
<1>3. RoutingInv' /\ RoutesListed'
  <2>1. CASE UNCHANGED flowRoutingMap
    BY <2>1 DEF AgentInv, TypeInv, RoutingInv, RoutesListed
  <2>2. CASE flowRoutingMap' = [flowRoutingMap EXCEPT ![h] = AfterRead(@)]
    <3>1. MapOver(flowRoutingMap[h], Nat, {}) /\ DOMAIN flowRoutingMap = Hosts
      BY DEF AgentInv, TypeInv, RoutingInv
    <3>2. MapOver(AfterRead(flowRoutingMap[h]), Nat, {})
          /\ SameArrays(AfterRead(flowRoutingMap[h]), flowRoutingMap[h])
      BY <3>1, Read
    <3>3. StoredKeys(AfterRead(flowRoutingMap[h])) = StoredKeys(flowRoutingMap[h])
      BY <3>2, SameContent
    <3> QED
      BY <2>2, <3>1, <3>2, <3>3 DEF AgentInv, TypeInv, RoutingInv, RoutesListed
  <2> QED
    BY <2>1, <2>2
<1> QED
  BY <1>1, <1>2, <1>3 DEF AgentInv, TypeInv

LEMMA ReceiveStep ==
    ASSUME AgentInv, NEW h \in Hosts, NEW msg \in Messages, NEW caller,
           Receive(h, msg, caller), direct' \in 0 .. MaxDirect, UNCHANGED <<errors, kills>>
    PROVE  AgentInv'
<1>0. agentPc[h] = "accept" /\ agentBuf' = [agentBuf EXCEPT ![h] = msg]
  BY DEF Receive
<1>1. CASE msg.type \in AddTypes /\ AddRouting(h, msg, caller)
  BY <1>0, <1>1, AddStep DEF Additions
<1>2. CASE msg.type = "REMOVE_FLOW_ROUTING" /\ RemoveRouting(h, msg.flowId)
  BY <1>0, <1>2, RemoveStep, MessageFields
<1>3. CASE PrintRoutings(h)
  BY <1>0, <1>3, IdleStep DEF PrintRoutings
<1>4. CASE UNCHANGED <<agentPc, serving, flowRoutingMap, acked, forgotten, dataVars>>
  BY <1>0, <1>4, IdleStep
<1> QED
  BY <1>1, <1>2, <1>3, <1>4 DEF Receive

\* The routing of an acknowledged message is added before the answer is sent.
LEMMA AnswerStep ==
    ASSUME AgentInv, NEW h \in Hosts, AnswerCaller(h)
    PROVE  AgentInv'
<1> DEFINE msg == serving[h].message
           n   == Len(threads[h])
           ack == [message |-> msg, port |-> done[h], thread |-> n]
           m   == flowRoutingMap[h]
<1>1. /\ agentPc[h] = "creating" /\ done[h] # 0 /\ ~InsertHangs(m, msg.flowId)
      /\ \E r \in map_insert(m, msg.flowId, Uninit) :
            flowRoutingMap' = [flowRoutingMap EXCEPT ![h] = r]
      /\ acked' = [acked EXCEPT ![h] = @ \cup {ack}]
      /\ serving' = [serving EXCEPT ![h] = NoService]
      /\ agentPc' = [agentPc EXCEPT ![h] = "accept"]
      /\ UNCHANGED <<agentBuf, forgotten, done, currentPort, threads, frame, direct,
                     errors, kills>>
  BY DEF AnswerCaller, FlowOf, Dangling, dataVars, boundVars
<1>2. msg \in Additions /\ threads[h] # <<>> /\ threads[h] \in Seq(Threads)
  BY <1>1 DEF AgentInv, TypeInv, ServiceInv, ThreadInv
<1>3. msg.flowId \in Nat
  BY <1>2, MessageFields DEF Additions
<1>4. n \in DOMAIN threads[h]
  BY <1>2
<1>5. PICK r \in map_insert(m, msg.flowId, Uninit) :
            flowRoutingMap' = [flowRoutingMap EXCEPT ![h] = r]
  BY <1>1
<1>6. MapOver(r, Nat, {}) /\ StoredKeys(r) = StoredKeys(m) \cup {msg.flowId}
  <2>1. Inserting(Nat, {}, m, msg.flowId, Uninit)
    BY <1>1, <1>3 DEF Inserting, AgentInv, TypeInv, RoutingInv
  <2> QED
    BY <1>5, <2>1, Inserted
<1>7. ThreadInv' /\ ServiceInv' /\ NumberInv'
  BY <1>1 DEF AgentInv, TypeInv, ThreadInv, ServiceInv, NumberInv
<1>8. RoutingInv'
  BY <1>5, <1>6 DEF AgentInv, TypeInv, RoutingInv
<1>9. HistoryInv'
  BY <1>1, <1>4 DEF AgentInv, TypeInv, HistoryInv
<1>10. RoutesListed'
  BY <1>1, <1>5, <1>6 DEF AgentInv, TypeInv, RoutingInv, HistoryInv, RoutesListed
<1>11. HonestInv'
  <2>1. \A g \in Hosts \ {h} : SameAgent(g)
    BY <1>1 DEF SameAgent, AgentInv, TypeInv, ServiceInv, HistoryInv
  <2>2. SUFFICES ASSUME errors = 0
                 PROVE  (OthersServe(h) /\ NewestWorks(h) /\ AcksServed(h))'
    BY <1>1, <2>1, HonestElsewhere DEF AgentInv
  <2>3. OthersServe(h) /\ NewestWorks(h) /\ AcksServed(h)
    BY <2>2 DEF AgentInv, HonestInv
  <2>4. Serves(threads[h][n], msg, done[h]) /\ \A a \in acked[h] : a.thread # n
    BY <1>1, <2>3 DEF NewestWorks, Serves
  <2>5. OthersServe(h)'
    BY <1>1, <2>3, <2>4 DEF OthersServe, Serves
  <2>6. NewestWorks(h)'
    BY <1>1 DEF NewestWorks, AgentInv, TypeInv, ServiceInv
  <2>7. AcksServed(h)'
    BY <1>1, <2>3, <2>4 DEF AcksServed, AgentInv, TypeInv, HistoryInv
  <2> QED
    BY <2>5, <2>6, <2>7
<1> QED
  BY <1>7, <1>8, <1>9, <1>10, <1>11 DEF AgentInv, TypeInv

LEMMA HangInAddStep ==
    ASSUME AgentInv, NEW h \in Hosts, HangInAdd(h)
    PROVE  AgentInv'
<1>1. /\ agentPc[h] = "creating" /\ done[h] # 0
      /\ agentPc' = [agentPc EXCEPT ![h] = "hung"]
      /\ UNCHANGED <<agentBuf, serving, flowRoutingMap, acked, forgotten, done, currentPort,
                     threads, frame, direct, errors, kills>>
  BY DEF HangInAdd, dataVars, boundVars
<1>2. ThreadInv' /\ ServiceInv' /\ NumberInv' /\ RoutingInv' /\ HistoryInv'
  BY <1>1 DEF AgentInv, TypeInv, ThreadInv, ServiceInv, NumberInv, RoutingInv, HistoryInv
<1>3. RoutesListed'
  BY <1>1 DEF AgentInv, RoutesListed
<1>4. HonestInv'
  <2>1. \A g \in Hosts \ {h} : SameAgent(g)
    BY <1>1 DEF SameAgent, AgentInv, TypeInv, ServiceInv
  <2>2. SUFFICES ASSUME errors = 0
                 PROVE  (OthersServe(h) /\ NewestWorks(h) /\ AcksServed(h))'
    BY <1>1, <2>1, HonestElsewhere DEF AgentInv
  <2>3. OthersServe(h) /\ NewestWorks(h) /\ AcksServed(h)
    BY <2>2 DEF AgentInv, HonestInv
  <2>4. agentPc'[h] = "hung" /\ threads[h][Len(threads[h])].state = "serving"
    BY <1>1, <2>3 DEF NewestWorks, AgentInv, TypeInv, ServiceInv
  <2> QED
    BY <1>1, <2>3, <2>4 DEF OthersServe, NewestWorks, AcksServed
<1> QED
  BY <1>2, <1>3, <1>4 DEF AgentInv, TypeInv
----------------------------------------------------------------------------
(* The threads.                                                            *)

\* Thread i of host h becomes t.
Becomes(h, i, t) ==
    threads' = [threads EXCEPT ![h] = [threads[h] EXCEPT ![i] = t]]

LEMMA ThreadBecomes ==
    ASSUME ThreadInv, NEW h \in Hosts, NEW i \in DOMAIN threads[h], NEW t \in Threads,
           Becomes(h, i, t)
    PROVE  /\ threads' \in [Hosts -> Seq(Threads)]
           /\ Len(threads'[h]) = Len(threads[h])
           /\ \A g \in Hosts : DOMAIN threads'[g] = DOMAIN threads[g]
           /\ \A g \in Hosts : g # h => threads'[g] = threads[g]
           /\ \A j \in DOMAIN threads[h] :
                threads'[h][j] = IF j = i THEN t ELSE threads[h][j]
           /\ threads[h] # <<>> /\ threads'[h] # <<>>
<1> DEFINE s == [threads[h] EXCEPT ![i] = t]
<1>1. threads[h] \in Seq(Threads)
  BY DEF ThreadInv
<1>2. /\ s \in Seq(Threads) /\ Len(s) = Len(threads[h]) /\ DOMAIN s = DOMAIN threads[h]
      /\ \A j \in DOMAIN threads[h] : s[j] = IF j = i THEN t ELSE threads[h][j]
  BY <1>1
<1>3. threads[h] # <<>> /\ s # <<>>
  BY <1>2
<1> HIDE DEF s
<1>4. threads' = [threads EXCEPT ![h] = s]
  BY DEF Becomes, s
<1> QED
  BY <1>2, <1>3, <1>4 DEF ThreadInv

\* What a step of one thread keeps but for the threads themselves.
LEMMA ThreadStepTypes ==
    ASSUME AgentInv, NEW h \in Hosts, NEW i \in DOMAIN threads[h], NEW t \in Threads,
           Becomes(h, i, t), UNCHANGED <<controlVars, frame>>, NumberInv'
    PROVE  TypeInv' /\ RoutesListed'
<1>1. /\ threads' \in [Hosts -> Seq(Threads)]
      /\ \A g \in Hosts : DOMAIN threads'[g] = DOMAIN threads[g]
      /\ \A g \in Hosts : threads'[g] = <<>> => threads[g] = <<>>
  BY ThreadBecomes DEF AgentInv, TypeInv
<1>2. ThreadInv' /\ ServiceInv'
  BY <1>1 DEF controlVars, AgentInv, TypeInv, ThreadInv, ServiceInv
<1>3. RoutingInv' /\ HistoryInv' /\ RoutesListed'
  BY <1>1 DEF controlVars, AgentInv, TypeInv, RoutingInv, HistoryInv, RoutesListed
<1> QED
  BY <1>2, <1>3 DEF TypeInv

\* While no socket has failed only the newest thread is starting, and the control
\* thread waits for it; so the port that thread signals is its own.
LEMMA OpenedStep ==
    ASSUME AgentInv, NEW h \in Hosts, NEW i \in DOMAIN threads[h], NEW p \in Nat,
           NEW target \in {threads[h][i].target, frame[h]},
           threads[h][i].state = "starting", Opened(h, i, p, target),
           UNCHANGED <<controlVars, frame, boundVars>>,
           currentPort' \in [Hosts -> Nat \ {0}]
    PROVE  AgentInv'
<1> DEFINE n == Len(threads[h])
           t == [threads[h][i] EXCEPT !.port = p, !.target = target, !.state = "serving"]
<1>1. threads[h][i] \in Threads /\ frame[h] \in Targets /\ n \in DOMAIN threads[h]
  <2>1. threads[h] \in Seq(Threads) /\ frame[h] \in Targets
    BY DEF AgentInv, TypeInv, ThreadInv
  <2> QED
    BY <2>1
<1>2. /\ t \in Threads /\ t.state = "serving" /\ t.port = p /\ t.target = target
      /\ t.kind = threads[h][i].kind /\ t.overlay = threads[h][i].overlay
  BY <1>1 DEF Threads, ThreadStates
<1>3. Becomes(h, i, t) /\ done' = [done EXCEPT ![h] = p]
  BY DEF Opened, Becomes
<1> HIDE DEF t
<1>4. NumberInv'
  BY <1>3 DEF boundVars, AgentInv, TypeInv, NumberInv
<1>5. TypeInv' /\ RoutesListed'
  BY <1>2, <1>3, <1>4, ThreadStepTypes
<1>6. /\ Len(threads'[h]) = n /\ DOMAIN threads'[h] = DOMAIN threads[h]
      /\ \A g \in Hosts : g # h => threads'[g] = threads[g]
      /\ \A j \in DOMAIN threads[h] : threads'[h][j] = IF j = i THEN t ELSE threads[h][j]
  BY <1>2, <1>3, ThreadBecomes DEF AgentInv, TypeInv
<1>7. HonestInv'
  <2>1. \A g \in Hosts \ {h} : SameAgent(g)
    BY <1>3, <1>6 DEF SameAgent, controlVars, AgentInv, TypeInv, NumberInv
  <2>2. SUFFICES ASSUME errors = 0
                 PROVE  (OthersServe(h) /\ NewestWorks(h) /\ AcksServed(h))'
    BY <2>1, HonestElsewhere DEF AgentInv, boundVars
  <2>3. OthersServe(h) /\ NewestWorks(h) /\ AcksServed(h)
    BY <2>2 DEF AgentInv, HonestInv
  <2>4. agentPc[h] = "creating" /\ i = n
    BY <2>3 DEF OthersServe
  <2>5. /\ agentPc'[h] = agentPc[h] /\ serving'[h] = serving[h] /\ acked'[h] = acked[h]
        /\ frame'[h] = frame[h] /\ done'[h] = p
    BY <1>3 DEF controlVars, AgentInv, TypeInv, NumberInv
  <2>6. OthersServe(h)'
    BY <1>2, <1>6, <2>3, <2>5 DEF OthersServe
  <2>7. NewestWorks(h)'
    BY <1>1, <1>2, <1>6, <2>3, <2>4, <2>5 DEF NewestWorks
  <2>8. AcksServed(h)'
    <3>1. \A a \in acked[h] : a.thread # i /\ a.thread \in DOMAIN threads[h]
      BY <2>3, <2>4 DEF NewestWorks, AgentInv, TypeInv, HistoryInv
    <3> QED
      BY <1>6, <2>3, <2>5, <3>1 DEF AcksServed, Serves
  <2> QED
    BY <2>6, <2>7, <2>8
<1> QED
  BY <1>5, <1>7 DEF AgentInv

\* The thread of an outbound interface is over before it signals.
LEMMA FailedStep ==
    ASSUME AgentInv, NEW h \in Hosts, NEW i \in DOMAIN threads[h],
           threads[h][i].state = "starting",
           Becomes(h, i, [threads[h][i] EXCEPT !.state = "ended"]),
           UNCHANGED <<controlVars, done, currentPort, frame, boundVars>>
    PROVE  AgentInv'
<1> DEFINE n == Len(threads[h])
           t == [threads[h][i] EXCEPT !.state = "ended"]
<1>1. threads[h][i] \in Threads /\ n \in DOMAIN threads[h]
  <2>1. threads[h] \in Seq(Threads)
    BY DEF AgentInv, TypeInv, ThreadInv
  <2> QED
    BY <2>1
<1>2. /\ t \in Threads /\ t.state = "ended" /\ t.target = threads[h][i].target
      /\ t.kind = threads[h][i].kind /\ t.overlay = threads[h][i].overlay
  BY <1>1 DEF Threads, ThreadStates
<1> HIDE DEF t
<1>3. Becomes(h, i, t)
  BY DEF t
<1>4. NumberInv'
  BY DEF boundVars, AgentInv, TypeInv, NumberInv
<1>5. TypeInv' /\ RoutesListed'
  BY <1>2, <1>3, <1>4, ThreadStepTypes
<1>6. /\ Len(threads'[h]) = n /\ DOMAIN threads'[h] = DOMAIN threads[h]
      /\ \A g \in Hosts : g # h => threads'[g] = threads[g]
      /\ \A j \in DOMAIN threads[h] : threads'[h][j] = IF j = i THEN t ELSE threads[h][j]
  BY <1>2, <1>3, ThreadBecomes DEF AgentInv, TypeInv
<1>7. HonestInv'
  <2>1. \A g \in Hosts \ {h} : SameAgent(g)
    BY <1>6 DEF SameAgent, controlVars
  <2>2. SUFFICES ASSUME errors = 0
                 PROVE  (OthersServe(h) /\ NewestWorks(h) /\ AcksServed(h))'
    BY <2>1, HonestElsewhere DEF AgentInv, boundVars
  <2>3. OthersServe(h) /\ NewestWorks(h) /\ AcksServed(h)
    BY <2>2 DEF AgentInv, HonestInv
  <2>4. agentPc[h] = "creating" /\ i = n /\ done[h] = 0
    BY <2>3 DEF OthersServe, NewestWorks
  <2>5. OthersServe(h)'
    <3>1. agentPc'[h] = "creating"
      BY <2>4 DEF controlVars
    <3> QED
      BY <1>2, <1>6, <2>3, <2>4, <3>1 DEF OthersServe
  <2>6. NewestWorks(h)'
    BY <1>1, <1>2, <1>6, <2>3, <2>4 DEF NewestWorks, controlVars
  <2>7. AcksServed(h)'
    <3>1. \A a \in acked[h] : a.thread # i /\ a.thread \in DOMAIN threads[h]
      BY <2>3, <2>4 DEF NewestWorks, AgentInv, TypeInv, HistoryInv
    <3> QED
      BY <1>6, <2>3, <3>1 DEF AcksServed, Serves, controlVars
  <2> QED
    BY <2>5, <2>6, <2>7
<1> QED
  BY <1>5, <1>7 DEF AgentInv

\* A socket fails: nothing is said of the ports any more.
LEMMA BrokenStep ==
    ASSUME AgentInv, NEW h \in Hosts, NEW i \in DOMAIN threads[h],
           NEW next \in {"starting", "failing", "ended"},
           Becomes(h, i, [threads[h][i] EXCEPT !.state = next]),
           errors < MaxErrors, errors' = errors + 1,
           currentPort' \in [Hosts -> Nat \ {0}],
           UNCHANGED <<controlVars, done, frame, direct, kills>>
    PROVE  AgentInv'
<1> DEFINE t == [threads[h][i] EXCEPT !.state = next]
<1>1. threads[h][i] \in Threads
  BY DEF AgentInv, TypeInv, ThreadInv
<1>2. t \in Threads
  BY <1>1 DEF Threads, ThreadStates
<1>3. NumberInv' /\ errors' # 0
  BY AgentBoundAssumption DEF AgentInv, TypeInv, NumberInv
<1>4. TypeInv' /\ RoutesListed'
  BY <1>2, <1>3, ThreadStepTypes
<1> QED
  BY <1>3, <1>4 DEF AgentInv, HonestInv

LEMMA StartThreadStep ==
    ASSUME AgentInv, NEW h \in Hosts, StartThread(h)
    PROVE  AgentInv'
<1>1. PICK i \in DOMAIN threads[h] :
        \/ StartInbound(h, i)
        \/ StartOutbound(h, i)
        \/ OutboundFails(h, i)
        \/ StartBypass(h, i)
        \/ CrashInThread(h, i)
  BY DEF StartThread
<1>2. threads[h][i] \in Threads
  BY DEF AgentInv, TypeInv, ThreadInv
<1>3. /\ threads[h][i].port \in Nat /\ currentPort[h] \in Nat
      /\ currentPort \in [Hosts -> Nat \ {0}]
  BY <1>2 DEF Threads, AgentInv, TypeInv, NumberInv
<1>4. CASE StartInbound(h, i) \/ StartOutbound(h, i)
  BY <1>3, <1>4, OpenedStep DEF StartInbound, StartOutbound, Starting
<1>5. CASE OutboundFails(h, i)
  <2>1. /\ threads[h][i].state = "starting"
        /\ Becomes(h, i, [threads[h][i] EXCEPT !.state = "ended"])
        /\ UNCHANGED <<controlVars, done, currentPort, frame, direct, kills>>
    BY <1>5 DEF OutboundFails, Starting, Becomes
  <2>2. CASE UNCHANGED errors
    BY <2>1, <2>2, FailedStep DEF boundVars
  <2>3. CASE errors < MaxErrors /\ errors' = errors + 1
    BY <1>3, <2>1, <2>3, BrokenStep
  <2> QED
    BY <1>5, <2>2, <2>3 DEF OutboundFails
<1>6. CASE StartBypass(h, i)
  <2>1. /\ threads[h][i].state = "starting" /\ UNCHANGED <<controlVars, frame, boundVars>>
        /\ currentPort' = [currentPort EXCEPT ![h] = @ + 1]
    BY <1>6 DEF StartBypass, Starting, getNextPort
  <2>2. currentPort' \in [Hosts -> Nat \ {0}]
    BY <1>3, <2>1
  <2>3. CASE UNCHANGED <<threads, done>>
    <3>1. TypeInv'
      BY <2>1, <2>2, <2>3
      DEF AgentInv, TypeInv, ThreadInv, ServiceInv, NumberInv, RoutingInv, HistoryInv,
          controlVars, boundVars
    <3>2. RoutesListed' /\ HonestInv'
      BY <2>1, <2>3
      DEF AgentInv, RoutesListed, HonestInv, OthersServe, NewestWorks, AcksServed,
          controlVars, boundVars
    <3> QED
      BY <3>1, <3>2 DEF AgentInv
  <2>4. ASSUME NEW target \in {threads[h][i].target, frame[h]},
               Opened(h, i, currentPort[h], target)
        PROVE  AgentInv'
    BY <1>3, <2>1, <2>2, <2>4, OpenedStep
  <2> QED
    BY <1>6, <2>3, <2>4 DEF StartBypass
<1>7. CASE CrashInThread(h, i)
  BY <1>7, FreshStep DEF CrashInThread, boundVars, AgentInv, TypeInv, NumberInv
<1> QED
  BY <1>1, <1>4, <1>5, <1>6, <1>7

LEMMA SocketErrorStep ==
    ASSUME AgentInv, NEW h \in Hosts, ReceiveError(h) \/ SpinesDisconnects(h)
    PROVE  AgentInv'
<1>1. /\ errors < MaxErrors /\ errors' = errors + 1
      /\ UNCHANGED <<controlVars, done, currentPort, frame, direct, kills>>
  BY DEF ReceiveError, SpinesDisconnects
<1>2. PICK i \in DOMAIN threads[h], next \in {"starting", "ended"} :
        threads' = [threads EXCEPT ![h][i].state = next]
  BY DEF ReceiveError, SpinesDisconnects, ServingThreads
<1>3. Becomes(h, i, [threads[h][i] EXCEPT !.state = next])
  BY <1>2 DEF Becomes
<1>4. currentPort' \in [Hosts -> Nat \ {0}]
  BY <1>1 DEF AgentInv, TypeInv, NumberInv
<1> QED
  BY <1>1, <1>3, <1>4, BrokenStep

\* An attempt fails before it has a socket; only then can one come back to it.
LEMMA OpeningFailsStep ==
    ASSUME AgentInv, NEW h \in Hosts, OpeningFails(h)
    PROVE  AgentInv'
<1>1. PICK i \in DOMAIN threads[h] : OpenFails(h, i) \/ SocketsReturn(h, i)
  BY DEF OpeningFails
<1>2. currentPort \in [Hosts -> Nat \ {0}]
  BY DEF AgentInv, TypeInv, NumberInv
<1>3. CASE OpenFails(h, i)
  <2>1. /\ errors < MaxErrors /\ errors' = errors + 1
        /\ UNCHANGED <<controlVars, done, frame, direct, kills>>
        /\ Becomes(h, i, [threads[h][i] EXCEPT !.state = "failing"])
    BY <1>3 DEF OpenFails, Becomes
  <2>2. currentPort' \in [Hosts -> Nat \ {0}]
    BY <1>2, <1>3 DEF OpenFails, getNextPort
  <2> QED
    BY <2>1, <2>2, BrokenStep
<1>4. CASE SocketsReturn(h, i)
  <2> DEFINE t == [threads[h][i] EXCEPT !.state = "starting"]
  <2>1. threads[h][i] \in Threads
    BY DEF AgentInv, TypeInv, ThreadInv
  <2>2. t \in Threads
    BY <2>1 DEF Threads, ThreadStates
  <2>3. /\ Becomes(h, i, t) /\ threads[h][i].state = "failing"
        /\ UNCHANGED <<controlVars, done, currentPort, frame, boundVars>>
    BY <1>4 DEF SocketsReturn, Becomes
  <2>4. NumberInv'
    BY <2>3 DEF boundVars, AgentInv, TypeInv, NumberInv
  <2>5. TypeInv' /\ RoutesListed'
    BY <2>2, <2>3, <2>4, ThreadStepTypes
  <2>6. errors # 0 /\ errors' = errors
    BY <2>3 DEF AgentInv, HonestInv, OthersServe, boundVars
  <2> QED
    BY <2>5, <2>6 DEF AgentInv, HonestInv
<1> QED
  BY <1>1, <1>3, <1>4

----------------------------------------------------------------------------

LEMMA AgentStep == AgentInv /\ [Next]_agentVars => AgentInv'
<1> SUFFICES ASSUME AgentInv, [Next]_agentVars PROVE AgentInv'
  OBVIOUS
<1>1. CASE UNCHANGED agentVars
  <2>1. TypeInv'
    BY <1>1
    DEF AgentInv, TypeInv, ThreadInv, ServiceInv, NumberInv, RoutingInv, HistoryInv,
        agentVars, controlVars, dataVars, boundVars
  <2>2. RoutesListed' /\ HonestInv'
    BY <1>1
    DEF AgentInv, RoutesListed, HonestInv, OthersServe, NewestWorks, AcksServed,
        agentVars, controlVars, dataVars, boundVars
  <2> QED
    BY <2>1, <2>2 DEF AgentInv
<1>2. CASE Next
  <2>1. PICK h \in Hosts :
          \/ AcceptDirect(h)
          \/ ControlAnswers(h)
          \/ StartThread(h)
          \/ OpeningFails(h)
          \/ ReceiveError(h)
          \/ SpinesDisconnects(h)
          \/ KillAgent(h)
          \/ RestartAgent(h)
    BY <1>2 DEF Next
  <2>2. direct \in 0 .. MaxDirect /\ kills \in 0 .. MaxKills
    BY DEF AgentInv, TypeInv, NumberInv
  <2>3. CASE AcceptDirect(h)
    <3>1. direct' \in 0 .. MaxDirect /\ UNCHANGED <<errors, kills>>
      BY <2>2, <2>3, AgentBoundAssumption DEF AcceptDirect
    <3>2. CASE TerminateAgent(h)
      BY <2>2, <3>1, <3>2, FreshStep DEF TerminateAgent
    <3>3. ASSUME NEW msg \in DirectMessages \cup {agentBuf[h]}, Receive(h, msg, "client")
          PROVE  AgentInv'
      <4>1. msg \in Messages
        BY DEF Messages, AgentInv, TypeInv, ServiceInv
      <4> QED
        BY <3>1, <3>3, <4>1, ReceiveStep
    <3> QED
      BY <2>3, <3>2, <3>3 DEF AcceptDirect
  <2>4. CASE ControlAnswers(h)
    BY <2>4, AnswerStep, HangInAddStep DEF ControlAnswers
  <2>5. CASE StartThread(h)
    BY <2>5, StartThreadStep
  <2>6. CASE ReceiveError(h) \/ SpinesDisconnects(h)
    BY <2>6, SocketErrorStep
  <2>7. CASE KillAgent(h)
    <3>1. kills' \in 0 .. MaxKills
      BY <2>2, <2>7, AgentBoundAssumption DEF KillAgent
    <3> QED
      BY <2>2, <2>7, <3>1, FreshStep DEF KillAgent
  <2>8. CASE RestartAgent(h)
    BY <2>2, <2>8, FreshStep DEF RestartAgent, boundVars
  <2>9. CASE OpeningFails(h)
    BY <2>9, OpeningFailsStep
  <2> QED
    BY <2>1, <2>3, <2>4, <2>5, <2>6, <2>7, <2>8, <2>9
<1> QED
  BY <1>1, <1>2

LEMMA AgentInvariant == Spec => []AgentInv
BY InitAgentInv, AgentStep, PTL DEF Spec

----------------------------------------------------------------------------
(* The theorems.                                                           *)

\* Every variable keeps its type, for any messages; the control thread polls only
\* for a thread it has started, and an acknowledgement names one.
THEOREM TypeCorrect == Spec => []TypeOK
<1>1. ASSUME AgentInv PROVE TypeOK
  <2>1. /\ DOMAIN threads = Hosts
        /\ \A h \in Hosts : \A i \in DOMAIN threads[h] : threads[h][i] \in Threads
    BY <1>1 DEF AgentInv, TypeInv, ThreadInv
  <2>2. \A h \in Hosts : \A i \in DOMAIN threads[h] :
          /\ threads[h][i].kind \in {"inbound", "outbound", "bypass"}
          /\ threads[h][i].state \in ThreadStates
          /\ threads[h][i].port \in Nat
    BY <2>1 DEF Threads
  <2>3. /\ agentPc \in [Hosts -> {"accept", "creating", "hung", "stopped", "crashed"}]
        /\ \A h \in Hosts : agentPc[h] = "creating" =>
             serving[h].message.type \in AddTypes /\ threads[h] # <<>>
    BY <1>1 DEF AgentInv, TypeInv, ServiceInv, Additions
  <2>4. /\ done \in [Hosts -> Nat] /\ currentPort \in [Hosts -> Nat]
        /\ direct \in 0 .. MaxDirect /\ errors \in 0 .. MaxErrors
        /\ kills \in 0 .. MaxKills
    BY <1>1 DEF AgentInv, TypeInv, NumberInv
  <2> QED
    BY <1>1, <2>1, <2>2, <2>3, <2>4 DEF AgentInv, TypeInv, HistoryInv, TypeOK
<1> QED
  BY <1>1, AgentInvariant, PTL

\* Until a socket fails every acknowledged port is an open interface that forwards
\* where its message said, for any number of messages, hosts and restarts: while
\* the control thread polls, the only thread that can set `done' is its own.
THEOREM AcksHonouredCorrect == Spec => []AcksHonoured
<1>1. AgentInv => AcksHonoured
  BY DEF AgentInv, HonestInv, AcksServed, AcksHonoured
<1> QED
  BY <1>1, AgentInvariant, PTL

\* A routing that was acknowledged and not removed stays in the agent's map, for
\* any map capacity, any order of additions and removals, and any failure.
THEOREM RoutesListedCorrect == Spec => []RoutesListed
<1>1. AgentInv => RoutesListed
  BY DEF AgentInv
<1> QED
  BY <1>1, AgentInvariant, PTL

=============================================================================
