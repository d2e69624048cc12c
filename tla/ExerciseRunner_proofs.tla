------------------------- MODULE ExerciseRunner_proofs -------------------------
(* Theorems about ExerciseRunner, for every number of switches and runs: a      *)
(* switch that was taken for started runs itself, whatever earlier runs left;  *)
(* a run that ends by net.stop does not stand in the way of the next one; and  *)
(* at the prompt every switch holds what its configuration says.               *)
EXTENDS ExerciseRunner, FiniteSetTheorems, WellFoundedInduction, TLAPS

-----------------------------------------------------------------------------
(* The inductive invariant.                                                 *)

Busy == {"polling", "hosts", "programming", "pipeline", "rules", "cli"}

\* After net.start.
Later == {"hosts", "programming", "pipeline", "rules", "cli", "stopping"}

Distinct(s) == \A i, j \in DOMAIN s : s[i] = s[j] => i = j

\* What each loop over the switches has done, and what it has still to do.
Loops ==
    /\ pc \in {"off", "creating", "starting", "polling"} \cup Later
    /\ run \in 0 .. MaxRuns
    /\ pc # "off" => run \in Runs
    /\ exercise \in Exercises \cup {Nobody}
    /\ todo \in Seq(Switches) /\ Distinct(todo)
    /\ DOMAIN objects \subseteq Switches /\ started \subseteq DOMAIN objects
    /\ pc = "creating" => started = {} /\ DOMAIN objects = Switches \ ToSet(todo)
    /\ pc \in {"starting", "polling"} =>
         DOMAIN objects = Switches /\ started = Switches \ ToSet(todo)
    /\ pc \in Later => DOMAIN objects = Switches /\ started = Switches
    /\ pc \in {"polling", "pipeline", "rules"} => todo # <<>>
    /\ connection = IF pc \in {"pipeline", "rules"}
                    THEN [open |-> TRUE, server |-> connection.server,
                          left |-> connection.left]
                    ELSE NoConnection

\* With grpc every switch has a P4Runtime port of its own, above all thrift ports;
\* without, the thrift port is the only one.
PortTable ==
    /\ \A s \in DOMAIN objects :
         IF exercise.exe = "grpc"
         THEN /\ objects[s].port \in Nat /\ objects[s].port >= 50051
              /\ objects[s].thrift_port \in Nat /\ objects[s].thrift_port < 50051
              /\ pc = "creating" => objects[s].port < counters.grpc
              /\ \A r \in DOMAIN objects : objects[r].port = objects[s].port => r = s
         ELSE objects[s].port = objects[s].thrift_port
    /\ pc = "creating" /\ exercise.exe = "grpc" =>
         /\ counters.grpc \in Nat /\ counters.grpc >= 50051
         /\ counters.thrift \in Nat
         /\ counters.thrift + Len(todo) <= 9090 + Len(SwitchNames)

\* Every process is a record.
Records ==
    /\ procs = [id \in Ids |-> procs[id]]
    /\ \A id \in Alive :
         procs[id] = [phase |-> procs[id].phase, port |-> procs[id].port,
                      thrift_port |-> procs[id].thrift_port, switch |-> procs[id].switch]

\* The processes of this run have the ports of its switch objects.
ProcessTable ==
    /\ \A id \in Alive :
         /\ procs[id].phase \in {"starting", "listening"}
         /\ id[1] <= run
         /\ id[1] = run =>
              /\ id[2] \in DOMAIN objects
              /\ procs[id].port = objects[id[2]].port
              /\ procs[id].thrift_port = objects[id[2]].thrift_port
    /\ \A p \in foreign : ServersAt(p) = {}
    /\ disturbances \in Nat
    /\ disturbances = 0 => foreign = {}

\* What is left of earlier runs listens,
Outlived == \A id \in Alive : id[1] < run \/ pc = "off" => procs[id].phase = "listening"

\* at other ports than those of this run's switches.
Apart ==
    \A s \in DOMAIN objects : \A id \in Alive :
        id[1] < run => objects[s].port \notin Ports(procs[id])

\* Every switch that was taken for started listens.
Serving ==
    pc \in {"starting"} \cup Busy => \A s \in started :
        \/ <<run, s>> \in ServersAt(objects[s].port)
        \/ \E r \in Switches \ {s} : objects[r].port = objects[s].port

\* A run that stops its switches leaves none that it has done with.
LeftToStop ==
    pc = "stopping" => \A id \in Alive :
        id[1] = run => \E i \in DOMAIN todo : todo[i] = id[2]

Connected ==
    pc \in {"pipeline", "rules"} /\ exercise.exe = "grpc" =>
        connection.server = <<run, Head(todo)>>

\* All of this as long as no other program and no crash comes in between.
Undisputed ==
    Undisturbed => Outlived /\ Apart /\ Serving /\ LeftToStop /\ Connected

\* As long as no run ended early, the processes on the machine are those of the run
\* that goes on, and while it stops its switches, of those that are left to stop.
OwnProcesses ==
    clean =>
        /\ pc \in {"off", "creating"} => Alive = {}
        /\ \A id \in Alive :
             /\ id[1] = run
             /\ pc = "stopping" => \E i \in DOMAIN todo : todo[i] = id[2]

RunInv == Loops /\ PortTable /\ Records /\ ProcessTable /\ Undisputed /\ OwnProcesses

-----------------------------------------------------------------------------
(* Lists of switches.                                                       *)

LEMMA TailOfDistinct ==
    ASSUME NEW S, NEW q \in Seq(S), q # <<>>, Distinct(q)
    PROVE  /\ Head(q) \in S /\ Head(q) \in ToSet(q)
           /\ Tail(q) \in Seq(S) /\ Distinct(Tail(q))
           /\ Len(q) \in Nat /\ Len(Tail(q)) = Len(q) - 1 /\ Len(q) >= 1
           /\ ToSet(Tail(q)) = ToSet(q) \ {Head(q)}
<1>1. /\ Tail(q) \in Seq(S) /\ Len(q) \in Nat /\ Len(Tail(q)) = Len(q) - 1 /\ Len(q) >= 1
      /\ Head(q) = q[1] /\ 1 \in DOMAIN q /\ q[1] \in S
  OBVIOUS
<1>2. \A i \in DOMAIN Tail(q) : i + 1 \in DOMAIN q /\ Tail(q)[i] = q[i + 1] /\ i + 1 # 1
  OBVIOUS
<1>3. \A i \in DOMAIN q : i # 1 => i - 1 \in DOMAIN Tail(q) /\ Tail(q)[i - 1] = q[i]
  OBVIOUS
<1>4. Distinct(Tail(q))
  <2> SUFFICES ASSUME NEW i \in DOMAIN Tail(q), NEW j \in DOMAIN Tail(q),
                      Tail(q)[i] = Tail(q)[j]
               PROVE  i = j
    BY DEF Distinct
  <2>1. i + 1 = j + 1
    BY <1>2 DEF Distinct
  <2>2. i \in Nat /\ j \in Nat
    BY <1>1
  <2> QED
    BY <2>1, <2>2
<1>5. ToSet(Tail(q)) = ToSet(q) \ {Head(q)}
  <2>1. ASSUME NEW i \in DOMAIN Tail(q) PROVE Tail(q)[i] \in ToSet(q) \ {Head(q)}
    BY <1>1, <1>2 DEF ToSet, Distinct
  <2>2. ASSUME NEW i \in DOMAIN q, q[i] # Head(q) PROVE q[i] \in ToSet(Tail(q))
    <3>1. i # 1
      BY <1>1, <2>2
    <3> QED
      BY <3>1, <1>3 DEF ToSet
  <2> QED
    BY <2>1, <2>2 DEF ToSet
<1> QED
  BY <1>1, <1>4, <1>5 DEF ToSet

LEMMA AllNames ==
    /\ SwitchNames \in Seq(Switches) /\ Distinct(SwitchNames)
    /\ ToSet(SwitchNames) = Switches
    /\ Len(SwitchNames) \in Nat /\ Len(SwitchNames) <= 15485
BY NamesAssumption DEF Switches, Distinct

\* program_switches goes through all of them once, in any order.
LEMMA Orders ==
    ASSUME NEW order \in SetToSeqs(Switches)
    PROVE  order \in Seq(Switches) /\ Distinct(order)
<1>1. SwitchNames \in Surjection(1 .. Len(SwitchNames), Switches)
  BY NamesAssumption DEF Surjection, Switches, ToSet
<1>2. IsFiniteSet(1 .. Len(SwitchNames))
  BY AllNames, FS_Interval
<1>3. Cardinality(Switches) \in Nat
  BY <1>1, <1>2, FS_Surjection, FS_CardinalityType
<1>4. /\ order \in [1 .. Cardinality(Switches) -> Switches]
      /\ \A i, j \in 1 .. Cardinality(Switches) : i # j => order[i] # order[j]
  BY DEF SetToSeqs
<1> QED
  BY <1>3, <1>4 DEF Distinct

LEMMA NoEntry == ToSet(<<>>) = {} /\ DOMAIN <<>> = {} /\ \A S : <<>> \in Seq(S)
BY DEF ToSet

-----------------------------------------------------------------------------
(* What the steps do to the processes.                                      *)

\* The process of id is the one it was, except for what it is programmed with.
Same(id) ==
    /\ procs'[id].phase = procs[id].phase
    /\ procs'[id].port = procs[id].port
    /\ procs'[id].thrift_port = procs[id].thrift_port

\* Nobody is new, and everybody stays as he was.
Quiet == Records' /\ Alive' \subseteq Alive /\ \A id \in Alive' : Same(id)

LEMMA Untouched ==
    ASSUME Records, procs' = procs
    PROVE  Quiet /\ Alive' = Alive
BY DEF Quiet, Records, Alive, Same

\* Programming a switch.
LEMMA Programmed ==
    ASSUME Records,
           NEW new, procs' = [id \in Ids |-> procs'[id]],
           \A id \in Ids : \/ procs'[id] = procs[id]
                           \/ id \in Alive /\ procs'[id] = [procs[id] EXCEPT !.switch = new[id]]
    PROVE  Quiet /\ Alive' = Alive
<1>1. ASSUME NEW id \in Alive
      PROVE  /\ Same(id)
             /\ procs'[id] = [phase |-> procs'[id].phase, port |-> procs'[id].port,
                              thrift_port |-> procs'[id].thrift_port,
                              switch |-> procs'[id].switch]
  <2>1. id \in Ids
    BY DEF Alive
  <2>2. procs[id] = [phase |-> procs[id].phase, port |-> procs[id].port,
                      thrift_port |-> procs[id].thrift_port, switch |-> procs[id].switch]
    BY DEF Records
  <2>3. CASE procs'[id] = procs[id]
    BY <2>2, <2>3 DEF Same
  <2>4. CASE procs'[id] = [procs[id] EXCEPT !.switch = new[id]]
    BY <2>2, <2>4 DEF Same
  <2> QED
    BY <2>1, <2>3, <2>4
<1>2. Alive' = Alive
  <2>1. \A id \in Ids : id \in Alive' <=> id \in Alive
    BY <1>1 DEF Alive, Same
  <2> QED
    BY <2>1 DEF Alive
<1> QED
  BY <1>1, <1>2 DEF Quiet, Records

LEMMA ProgrammingIsQuiet ==
    ASSUME Records,
           SetPipeline \/ InsertRule \/ \E job \in cliJobs : CliJobRuns(job)
    PROVE  Quiet /\ Alive' = Alive
<1>1. CASE SetPipeline
  <2> DEFINE i == connection.server
             new == [id \in Ids |->
                       SetForwardingPipelineConfig(procs[id].switch, Conf.program)]
  <2>1. i \in Alive /\ i \in Ids
    BY <1>1 DEF SetPipeline, Answers, Alive
  <2>2. procs' = [procs EXCEPT ![i] = [procs[i] EXCEPT !.switch = new[i]]]
    BY <1>1, <2>1 DEF SetPipeline
  <2>3. procs' = [id \in Ids |-> procs'[id]]
    BY <2>2 DEF Records
  <2>4. \A id \in Ids : \/ procs'[id] = procs[id]
                        \/ id \in Alive /\ procs'[id] = [procs[id] EXCEPT !.switch = new[id]]
    BY <2>1, <2>2 DEF Records
  <2> HIDE DEF new
  <2> QED
    BY <2>3, <2>4, Programmed
<1>2. CASE InsertRule
  <2> DEFINE i == connection.server
             new == [id \in Ids |-> Inserted(procs[id].switch, Rule)]
  <2>1. i \in Alive /\ i \in Ids
    BY <1>2 DEF InsertRule, Answers, Alive
  <2>2. procs' = [procs EXCEPT ![i] = [procs[i] EXCEPT !.switch = new[i]]]
    BY <1>2, <2>1 DEF InsertRule
  <2>3. procs' = [id \in Ids |-> procs'[id]]
    BY <2>2 DEF Records
  <2>4. \A id \in Ids : \/ procs'[id] = procs[id]
                        \/ id \in Alive /\ procs'[id] = [procs[id] EXCEPT !.switch = new[id]]
    BY <2>1, <2>2 DEF Records
  <2> HIDE DEF new
  <2> QED
    BY <2>3, <2>4, Programmed
<1>3. ASSUME NEW job \in cliJobs, CliJobRuns(job) PROVE Quiet /\ Alive' = Alive
  <2> DEFINE new == [id \in Ids |-> [procs[id].switch EXCEPT !.entries = @ \cup job.entries]]
  <2>1. procs' = [id \in Ids |-> procs'[id]]
    BY <1>3 DEF CliJobRuns
  <2>2. \A id \in Ids : \/ procs'[id] = procs[id]
                        \/ id \in Alive /\ procs'[id] = [procs[id] EXCEPT !.switch = new[id]]
    BY <1>3 DEF CliJobRuns, ServersAt
  <2> HIDE DEF new
  <2> QED
    BY <2>1, <2>2, Programmed
<1> QED
  BY <1>1, <1>2, <1>3

\* A process that ends, by itself or stopped.
LEMMA Ended ==
    ASSUME Records, NEW i \in Ids, procs' = [procs EXCEPT ![i] = NoProcess]
    PROVE  Quiet /\ Alive' = Alive \ {i}
<1>1. /\ procs' = [id \in Ids |-> procs'[id]]
      /\ \A id \in Ids : procs'[id] = IF id = i THEN NoProcess ELSE procs[id]
  BY DEF Records
<1>2. Alive' = Alive \ {i}
  BY <1>1 DEF Alive, NoProcess
<1> QED
  BY <1>1, <1>2 DEF Quiet, Records, Same, Alive

\* A process that binds its ports, both of which were free.
LEMMA Bound ==
    ASSUME Records, NEW i \in Ids, ProcessListens(i)
    PROVE  \/ Quiet /\ Alive' = Alive \ {i}
           \/ /\ Records' /\ Alive' = Alive
              /\ \A id \in Alive \ {i} : Same(id)
              /\ procs'[i].phase = "listening"
              /\ procs'[i].port = procs[i].port
              /\ procs'[i].thrift_port = procs[i].thrift_port
              /\ \A p \in Ports(procs[i]) : ~check_listening_on_port(p)
<1>1. CASE \E p \in Ports(procs[i]) : check_listening_on_port(p)
  BY <1>1, Ended DEF ProcessListens
<1>2. CASE \A p \in Ports(procs[i]) : ~check_listening_on_port(p)
  <2>1. procs' = [procs EXCEPT ![i] = [procs[i] EXCEPT !.phase = "listening"]]
    BY <1>2 DEF ProcessListens
  <2>2. /\ procs' = [id \in Ids |-> procs'[id]]
        /\ \A id \in Ids : id # i => procs'[id] = procs[id]
        /\ procs'[i] = [procs[i] EXCEPT !.phase = "listening"]
    BY <2>1 DEF Records
  <2>3. i \in Alive /\ procs[i].phase = "starting"
    BY DEF ProcessListens
  <2>4. procs[i] = [phase |-> procs[i].phase, port |-> procs[i].port,
                    thrift_port |-> procs[i].thrift_port, switch |-> procs[i].switch]
    BY <2>3 DEF Records
  <2>5. /\ procs'[i].phase = "listening"
        /\ procs'[i].port = procs[i].port
        /\ procs'[i].thrift_port = procs[i].thrift_port
        /\ procs'[i].switch = procs[i].switch
        /\ procs'[i] = [phase |-> "listening", port |-> procs[i].port,
                    thrift_port |-> procs[i].thrift_port, switch |-> procs[i].switch]
    BY <2>2, <2>4
  <2>6. Alive' = Alive
    BY <2>2, <2>3, <2>5 DEF Alive
  <2>7. Records'
    BY <2>2, <2>5, <2>6 DEF Records, Alive
  <2> QED
    BY <1>2, <2>2, <2>5, <2>6, <2>7 DEF Same, Alive
<1> QED
  BY <1>1, <1>2

\* The process StartSwitch starts: its record and nothing else is new.
LEMMA StartedProcess ==
    ASSUME Loops, Records, StartSwitch
    PROVE  LET i == <<run, Head(todo)>> IN
           /\ i \in Ids /\ i[1] = run /\ i[2] = Head(todo) /\ Records'
           /\ Alive' = Alive \cup {i}
           /\ \A id \in Alive \ {i} : Same(id)
           /\ procs'[i].phase = "starting"
           /\ procs'[i].port = objects[Head(todo)].port
           /\ procs'[i].thrift_port = objects[Head(todo)].thrift_port
<1> DEFINE i == <<run, Head(todo)>>
           sw == FreshSwitch(objects[Head(todo)].device_id, ProgramOf(Head(todo)))
           new == [phase  |-> "starting", port   |-> objects[Head(todo)].port,
                   thrift_port |-> objects[Head(todo)].thrift_port, switch |-> sw]
<1>1. i \in Ids /\ i[1] = run /\ i[2] = Head(todo)
  BY TailOfDistinct DEF StartSwitch, Loops, Ids
<1>2. procs' = [procs EXCEPT ![i] = new]
  BY DEF StartSwitch
<1> HIDE DEF sw, i
<1>3. /\ procs' = [id \in Ids |-> procs'[id]]
      /\ \A id \in Ids : id # i => procs'[id] = procs[id]
      /\ procs'[i] = new
  BY <1>1, <1>2 DEF Records
<1>4. Alive' = Alive \cup {i}
  BY <1>1, <1>3 DEF Alive
<1>5. Records'
  BY <1>3, <1>4 DEF Records, Alive
<1>6. \A id \in Alive \ {i} : Same(id)
  BY <1>3 DEF Same, Alive
<1> QED
  BY <1>1, <1>3, <1>4, <1>5, <1>6 DEF i

-----------------------------------------------------------------------------
(* It holds at the beginning, and every step keeps each of its parts.       *)

LEMMA InitRun == Init => RunInv
<1> SUFFICES ASSUME Init PROVE RunInv
  OBVIOUS
<1>1. procs = [id \in Ids |-> NoProcess] /\ Alive = {}
  BY DEF Init, Alive, NoProcess
<1>2. Loops
  <2>1. run \in 0 .. MaxRuns /\ pc = "off" /\ exercise = Nobody /\ connection = NoConnection
    BY BoundsAssumption DEF Init
  <2>2. todo \in Seq(Switches) /\ Distinct(todo)
    BY NoEntry DEF Init, Distinct
  <2>3. DOMAIN objects \subseteq Switches /\ started \subseteq DOMAIN objects
    BY NoEntry DEF Init
  <2> QED
    BY <2>1, <2>2, <2>3 DEF Loops, Later
<1>3. PortTable
  BY NoEntry DEF Init, PortTable
<1>4. Records /\ ProcessTable
  BY <1>1 DEF Init, Records, ProcessTable
<1>5. Undisputed /\ OwnProcesses
  BY <1>1, NoEntry DEF Init, Undisputed, Outlived, Apart, Serving, LeftToStop,
     Connected, OwnProcesses, Busy
<1> QED
  BY <1>2, <1>3, <1>4, <1>5 DEF RunInv

\* What the processes do, or others, changes nothing of the runner.
LEMMA World ==
    ASSUME \/ \E id \in Ids : ProcessListens(id) \/ ProcessCrashes(id)
           \/ \E job \in cliJobs : CliJobRuns(job)
           \/ \E p \in {50051, 9090} : ForeignListens(p)
           \/ UNCHANGED vars
    PROVE  UNCHANGED runnerVars /\ UNCHANGED historyVars
BY DEF ProcessListens, ProcessCrashes, CliJobRuns, ForeignListens, vars

\* The ways to end early are one.
LEMMA Early ==
    ASSUME RefuseSwitch \/ SwitchNotUp \/ ProgramFails \/ Interrupt
    PROVE  EndEarly /\ pc # "off"
BY DEF RefuseSwitch, SwitchNotUp, ProgramFails, Interrupt

LEMMA ConnectionGoesOn ==
    ASSUME NEW c, NEW l,
           c = [open |-> TRUE, server |-> c.server, left |-> c.left]
    PROVE  LET d == [c EXCEPT !.left = l] IN
           d = [open |-> TRUE, server |-> d.server, left |-> d.left]
<1> DEFINE d == [c EXCEPT !.left = l]
<1>1. DOMAIN c = {"open", "server", "left"} /\ c.open = TRUE
  OBVIOUS
<1>2. DOMAIN d = {"open", "server", "left"} /\ d.open = TRUE /\ d = [x \in DOMAIN d |-> d[x]]
  BY <1>1
<1> HIDE DEF d
<1>3. d = [open |-> TRUE, server |-> d.server, left |-> d.left]
  BY <1>2
<1> QED
  BY <1>3 DEF d

LEMMA StepLoops == ASSUME Loops, [Next]_vars PROVE Loops'
<1> USE DEF Loops, Later
<1>1. CASE \E e \in Exercises : StartRunner(e)
  <2>1. PICK e \in Exercises : StartRunner(e)
    BY <1>1
  <2>2. /\ run \in Nat /\ run' = run + 1 /\ run < MaxRuns
        /\ pc' \in {"creating", "off"} /\ exercise' = e
        /\ objects' = <<>> /\ started' = {} /\ connection' = NoConnection
        /\ todo' = SwitchNames
    BY <2>1, BoundsAssumption DEF StartRunner
  <2>3. run' \in Runs /\ run' \in 0 .. MaxRuns
    BY <2>2, BoundsAssumption DEF Runs
  <2> QED
    BY <2>2, <2>3, AllNames, NoEntry
<1>2. CASE RefuseSwitch \/ SwitchNotUp \/ ProgramFails \/ Interrupt
  BY <1>2, Early DEF EndEarly
<1>3. CASE CreateSwitch
  <2>1. /\ pc = "creating" /\ pc' = pc /\ todo # <<>> /\ todo' = Tail(todo)
        /\ DOMAIN objects' = {Head(todo)} \cup DOMAIN objects
        /\ UNCHANGED <<run, exercise, started, connection>>
    BY <1>3 DEF CreateSwitch
  <2> QED
    BY <2>1, TailOfDistinct
<1>4. CASE NetworkCreated
  BY <1>4, AllNames, NoEntry DEF NetworkCreated
<1>5. CASE StartSwitch
  BY <1>5 DEF StartSwitch
<1>6. CASE SwitchUp
  <2>1. /\ pc = "polling" /\ pc' = "starting" /\ todo # <<>> /\ todo' = Tail(todo)
        /\ started' = started \cup {Head(todo)}
        /\ UNCHANGED <<run, exercise, objects, connection>>
    BY <1>6 DEF SwitchUp
  <2> QED
    BY <2>1, TailOfDistinct
<1>7. CASE NetworkStarted
  BY <1>7, NoEntry DEF NetworkStarted
<1>8. CASE ProgramHosts
  BY <1>8, Orders DEF ProgramHosts
<1>9. CASE LeaveSwitch
  BY <1>9, TailOfDistinct DEF LeaveSwitch
<1>10. CASE ConnectToSwitch
  BY <1>10 DEF ConnectToSwitch
<1>11. CASE SetPipeline
  BY <1>11 DEF SetPipeline
<1>12. CASE InsertRule
  <2>1. /\ pc = "rules" /\ connection' = [connection EXCEPT !.left = Tail(@)]
        /\ UNCHANGED <<pc, run, exercise, todo, objects, started>>
    BY <1>12 DEF InsertRule
  <2>2. connection' = [open |-> TRUE, server |-> connection'.server,
                       left |-> connection'.left]
    BY <2>1, ConnectionGoesOn
  <2> QED
    BY <2>1, <2>2
<1>13. CASE SwitchProgrammed
  BY <1>13, TailOfDistinct DEF SwitchProgrammed
<1>14. CASE do_net_cli
  BY <1>14 DEF do_net_cli
<1>15. CASE LeaveCli
  BY <1>15, AllNames DEF LeaveCli
<1>16. CASE StopSwitch
  BY <1>16, TailOfDistinct DEF StopSwitch
<1>17. CASE NetworkStopped
  BY <1>17 DEF NetworkStopped
<1>18. CASE \/ \E id \in Ids : ProcessListens(id) \/ ProcessCrashes(id)
            \/ \E job \in cliJobs : CliJobRuns(job)
            \/ \E p \in {50051, 9090} : ForeignListens(p)
            \/ UNCHANGED vars
  <2>1. UNCHANGED <<pc, run, exercise, todo, objects, started, connection>>
    BY <1>18, World DEF runnerVars
  <2> QED
    BY <2>1
<1> QED
  BY <1>1, <1>2, <1>3, <1>4, <1>5, <1>6, <1>7, <1>8, <1>9, <1>10, <1>11, <1>12, <1>13,
     <1>14, <1>15, <1>16, <1>17, <1>18 DEF Next, RunnerStep

LEMMA StepPortTable == ASSUME Loops, PortTable, [Next]_vars PROVE PortTable'
<1>1. CASE \E e \in Exercises : StartRunner(e)
  <2>1. /\ objects' = <<>> /\ todo' = SwitchNames
        /\ counters' = [grpc |-> 50051, thrift |-> 9090, device |-> 0]
    BY <1>1 DEF StartRunner
  <2> QED
    BY <2>1, NoEntry, AllNames DEF PortTable
<1>2. CASE RefuseSwitch \/ SwitchNotUp \/ ProgramFails \/ Interrupt
  <2>1. EndEarly
    BY <1>2, Early
  <2> QED
    BY <2>1 DEF EndEarly, PortTable
<1>3. CASE CreateSwitch
  <2> DEFINE s == Head(todo)
  <2>1. /\ pc = "creating" /\ pc' = pc /\ todo # <<>> /\ todo' = Tail(todo)
        /\ exercise' = exercise
        /\ DOMAIN objects' = {s} \cup DOMAIN objects
        /\ \A r \in DOMAIN objects : r # s => objects'[r] = objects[r]
        /\ objects'[s] = [port |-> port(s), thrift_port |-> thrift_port(s),
                          device_id |-> counters.device]
        /\ counters' = [grpc   |-> counters.grpc + 1,
                        thrift |-> IF OwnCounter(s) THEN counters.thrift
                                   ELSE counters.thrift + 1,
                        device |-> counters.device + 1]
    BY <1>3 DEF CreateSwitch
  <2>2. s \notin DOMAIN objects
    BY <2>1, TailOfDistinct DEF Loops
  <2>3. CASE exercise.exe = "grpc"
    <3>1. ~OwnCounter(s) /\ port(s) = counters.grpc /\ thrift_port(s) = counters.thrift
      BY <2>3 DEF OwnCounter, port, thrift_port
    <3>2. Len(todo) \in Nat /\ Len(todo') = Len(todo) - 1 /\ Len(todo) >= 1
      BY <2>1, TailOfDistinct DEF Loops
    <3>3. /\ counters.grpc \in Nat /\ counters.grpc >= 50051 /\ counters.thrift \in Nat
          /\ counters.thrift + Len(todo) <= 9090 + Len(SwitchNames)
      BY <2>1, <2>3 DEF PortTable
    <3>4. counters.thrift < 50051
      BY <3>2, <3>3, AllNames
    <3>5. /\ counters'.grpc = counters.grpc + 1 /\ counters'.thrift = counters.thrift + 1
      BY <2>1, <3>1
    <3>6. /\ counters'.grpc \in Nat /\ counters'.grpc >= 50051 /\ counters'.thrift \in Nat
          /\ counters'.thrift + Len(todo') <= 9090 + Len(SwitchNames)
      <4> DEFINE a == counters.thrift
                 b == Len(todo)
                 c == Len(SwitchNames)
      <4>1. counters'.grpc \in Nat /\ counters'.grpc >= 50051 /\ counters'.thrift \in Nat
        BY <3>3, <3>5
      <4>2. a \in Nat /\ b \in Nat /\ c \in Nat /\ a + b <= 9090 + c
        BY <3>2, <3>3, AllNames
      <4>3. counters'.thrift = a + 1 /\ Len(todo') = b - 1
        BY <3>2, <3>5
      <4> HIDE DEF a, b
      <4>4. counters'.thrift + Len(todo') <= 9090 + c
        <5> HIDE DEF c
        <5> QED
          BY <4>2, <4>3
      <4> QED
        BY <4>1, <4>4
    <3>7. objects'[s].port = counters.grpc /\ objects'[s].thrift_port = counters.thrift
      BY <2>1, <3>1
    <3>8. ASSUME NEW r \in DOMAIN objects
          PROVE  /\ objects'[r] = objects[r] /\ objects[r].port \in Nat
                 /\ objects[r].port >= 50051 /\ objects[r].port < counters.grpc
                 /\ objects[r].thrift_port \in Nat /\ objects[r].thrift_port < 50051
                 /\ \A q \in DOMAIN objects : objects[q].port = objects[r].port => q = r
      BY <2>1, <2>2, <2>3 DEF PortTable
    <3>9. ASSUME NEW r \in DOMAIN objects'
          PROVE  /\ objects'[r].port \in Nat /\ objects'[r].port >= 50051
                 /\ objects'[r].thrift_port \in Nat /\ objects'[r].thrift_port < 50051
                 /\ objects'[r].port < counters'.grpc
                 /\ \A q \in DOMAIN objects' : objects'[q].port = objects'[r].port => q = r
      <4>1. CASE r = s
        BY <4>1, <2>1, <3>3, <3>4, <3>5, <3>7, <3>8
      <4>2. CASE r # s
        BY <4>2, <2>1, <3>3, <3>5, <3>7, <3>8
      <4> QED
        BY <4>1, <4>2
    <3> QED
      BY <2>1, <2>3, <3>6, <3>9 DEF PortTable
  <2>4. CASE exercise.exe # "grpc"
    <3>1. objects'[s].port = objects'[s].thrift_port
      BY <2>1, <2>4 DEF port
    <3> QED
      BY <2>1, <2>2, <2>4, <3>1 DEF PortTable
  <2> QED
    BY <2>3, <2>4
\* No other step creates a switch.
<1>4. CASE UNCHANGED <<objects, exercise>> /\ pc' # "creating"
  BY <1>4 DEF PortTable
<1>5. CASE \/ NetworkCreated \/ StartSwitch \/ SwitchUp \/ NetworkStarted \/ ProgramHosts
           \/ LeaveSwitch \/ ConnectToSwitch \/ SetPipeline \/ InsertRule
           \/ SwitchProgrammed \/ do_net_cli \/ LeaveCli \/ StopSwitch \/ NetworkStopped
  BY <1>4, <1>5 DEF NetworkCreated, StartSwitch, SwitchUp, NetworkStarted, ProgramHosts,
     LeaveSwitch, ConnectToSwitch, SetPipeline, InsertRule, SwitchProgrammed, do_net_cli,
     LeaveCli, StopSwitch, NetworkStopped
<1>6. CASE \/ \E id \in Ids : ProcessListens(id) \/ ProcessCrashes(id)
           \/ \E job \in cliJobs : CliJobRuns(job)
           \/ \E p \in {50051, 9090} : ForeignListens(p)
           \/ UNCHANGED vars
  BY <1>6, World DEF runnerVars, PortTable
<1> QED
  BY <1>1, <1>2, <1>3, <1>5, <1>6 DEF Next, RunnerStep

\* The numbers of earlier runs are smaller.
LEMMA IdTypes ==
    \A id \in Ids : id = <<id[1], id[2]>> /\ id[1] \in Nat /\ id[2] \in Switches
BY BoundsAssumption DEF Ids, Runs

LEMMA QuietServers ==
    ASSUME Quiet
    PROVE  /\ \A id \in Alive' : Ports(procs'[id]) = Ports(procs[id])
           /\ \A p : ServersAt(p)' \subseteq ServersAt(p)
           /\ \A p : \A id \in ServersAt(p) : id \in Alive' => id \in ServersAt(p)'
<1>1. \A id \in Alive' : Ports(procs'[id]) = Ports(procs[id]) /\ id \in Alive
                         /\ procs'[id].phase = procs[id].phase
  BY DEF Quiet, Same, Ports
<1> QED
  BY <1>1 DEF ServersAt

\* Steps that neither start nor end a run, nor create a switch, start a process or
\* disturb one.
Calm ==
    \/ NetworkCreated \/ SwitchUp \/ NetworkStarted \/ ProgramHosts
    \/ LeaveSwitch \/ ConnectToSwitch \/ SetPipeline \/ InsertRule \/ SwitchProgrammed
    \/ do_net_cli \/ LeaveCli \/ StopSwitch
    \/ \E job \in cliJobs : CliJobRuns(job)
    \/ UNCHANGED vars

LEMMA CalmSteps ==
    ASSUME Loops, Records, Calm
    PROVE  /\ Quiet /\ (StopSwitch \/ Alive' = Alive)
           /\ UNCHANGED <<run, exercise, objects, foreign, disturbances, clean, late>>
<1> USE DEF worldVars, historyVars
<1>1. CASE \/ NetworkCreated \/ SwitchUp \/ NetworkStarted \/ ProgramHosts
           \/ LeaveSwitch \/ ConnectToSwitch \/ SwitchProgrammed \/ do_net_cli
           \/ LeaveCli \/ UNCHANGED vars
  <2>1. UNCHANGED <<procs, run, exercise, objects, foreign, disturbances, clean, late>>
    BY <1>1 DEF NetworkCreated, SwitchUp, NetworkStarted, ProgramHosts, LeaveSwitch,
       ConnectToSwitch, SwitchProgrammed, do_net_cli, LeaveCli, vars, runnerVars
  <2> QED
    BY <2>1, Untouched
<1>2. CASE StopSwitch
  <2>1. <<run, Head(todo)>> \in Ids
    BY <1>2, TailOfDistinct DEF StopSwitch, Loops, Ids
  <2> QED
    BY <1>2, <2>1, Ended DEF StopSwitch
<1>3. CASE SetPipeline \/ InsertRule \/ \E job \in cliJobs : CliJobRuns(job)
  <2>1. UNCHANGED <<run, exercise, objects, foreign, disturbances, clean, late>>
    BY <1>3 DEF SetPipeline, InsertRule, CliJobRuns, runnerVars
  <2> QED
    BY <1>3, <2>1, ProgrammingIsQuiet
<1> QED
  BY <1>1, <1>2, <1>3 DEF Calm

LEMMA StepKinds ==
    ASSUME Next \/ UNCHANGED vars
    PROVE  \/ \E e \in Exercises : StartRunner(e)
           \/ RefuseSwitch \/ SwitchNotUp \/ ProgramFails \/ Interrupt
           \/ CreateSwitch \/ StartSwitch \/ NetworkStopped \/ Calm
           \/ \E id \in Ids : ProcessListens(id) \/ ProcessCrashes(id)
           \/ \E p \in {50051, 9090} : ForeignListens(p)
BY DEF Next, RunnerStep, Calm

LEMMA Crashes ==
    ASSUME Records, NEW i \in Ids, ProcessCrashes(i)
    PROVE  /\ Quiet /\ UNCHANGED <<run, pc, todo, objects, foreign, clean, late>>
           /\ disturbances' = disturbances + 1
BY Ended DEF ProcessCrashes, runnerVars, historyVars

\* A quiet step leaves the ports to those who had them.
LEMMA QuietTable ==
    ASSUME Records, ProcessTable, Quiet, run' = run, foreign' = foreign,
           DOMAIN objects \subseteq DOMAIN objects',
           \A s \in DOMAIN objects : objects'[s] = objects[s],
           disturbances' = disturbances \/ disturbances' = disturbances + 1
    PROVE  ProcessTable'
<1>1. ASSUME NEW id \in Alive'
      PROVE  /\ procs'[id].phase \in {"starting", "listening"}
             /\ id[1] <= run'
             /\ id[1] = run' =>
                  /\ id[2] \in DOMAIN objects'
                  /\ procs'[id].port = objects'[id[2]].port
                  /\ procs'[id].thrift_port = objects'[id[2]].thrift_port
  BY DEF Quiet, Same, ProcessTable
<1>2. \A p \in foreign' : ServersAt(p)' = {}
  BY QuietServers DEF ProcessTable
<1>3. disturbances' \in Nat /\ (disturbances' = 0 => foreign' = {})
  BY DEF ProcessTable
<1> QED
  BY <1>1, <1>2, <1>3 DEF ProcessTable

LEMMA StepRecords == ASSUME Loops, Records, [Next]_vars PROVE Records'
<1>1. CASE RefuseSwitch \/ SwitchNotUp \/ ProgramFails \/ Interrupt
  <2>1. procs' = procs
    BY <1>1, Early DEF EndEarly, worldVars
  <2> QED
    BY <2>1, Untouched DEF Quiet
<1>5. CASE \/ \E e \in Exercises : StartRunner(e)
           \/ CreateSwitch \/ NetworkStopped
           \/ \E p \in {50051, 9090} : ForeignListens(p)
  <2>1. procs' = procs
    BY <1>5 DEF StartRunner, CreateSwitch, NetworkStopped, ForeignListens, worldVars
  <2> QED
    BY <2>1, Untouched DEF Quiet
<1>2. CASE StartSwitch
  BY <1>2, StartedProcess
<1>3. CASE Calm
  BY <1>3, CalmSteps DEF Quiet
<1>4. CASE \E id \in Ids : ProcessListens(id) \/ ProcessCrashes(id)
  BY <1>4, Bound, Crashes DEF Quiet
<1> QED
  BY <1>1, <1>2, <1>3, <1>4, <1>5, StepKinds

LEMMA StepProcessTable ==
    ASSUME Loops, Records, ProcessTable, [Next]_vars
    PROVE  ProcessTable'
<1>1. CASE \E e \in Exercises : StartRunner(e)
  <2>1. run' = run + 1 /\ run \in Nat /\ UNCHANGED <<procs, foreign, disturbances>>
    BY <1>1, BoundsAssumption DEF StartRunner, worldVars, Loops
  <2>2. Alive' = Alive /\ \A p : ServersAt(p)' = ServersAt(p)
    BY <2>1 DEF Alive, ServersAt
  <2>3. \A id \in Alive : id[1] \in Nat
    BY IdTypes DEF Alive
  <2> QED
    BY <2>1, <2>2, <2>3 DEF ProcessTable
<1>2. CASE RefuseSwitch \/ SwitchNotUp \/ ProgramFails \/ Interrupt
  <2>1. UNCHANGED <<procs, run, objects, foreign, disturbances>>
    BY <1>2, Early DEF EndEarly, worldVars
  <2> QED
    BY <2>1, Untouched, QuietTable
<1>3. CASE CreateSwitch
  <2>1. /\ UNCHANGED <<procs, run, foreign, disturbances>>
        /\ DOMAIN objects' = {Head(todo)} \cup DOMAIN objects
        /\ \A r \in DOMAIN objects : r # Head(todo) => objects'[r] = objects[r]
        /\ pc = "creating" /\ todo # <<>>
    BY <1>3 DEF CreateSwitch, worldVars
  <2>2. Head(todo) \notin DOMAIN objects
    BY <2>1, TailOfDistinct DEF Loops
  <2> QED
    BY <2>1, <2>2, Untouched, QuietTable
<1>4. CASE StartSwitch
  <2> DEFINE i == <<run, Head(todo)>>
  <2>1. UNCHANGED <<run, objects, foreign, disturbances>>
    BY <1>4 DEF StartSwitch
  <2>2. /\ i \in Ids /\ i[1] = run /\ i[2] = Head(todo)
        /\ Alive' = Alive \cup {i} /\ \A id \in Alive \ {i} : Same(id)
        /\ procs'[i].phase = "starting"
        /\ procs'[i].port = objects[Head(todo)].port
        /\ procs'[i].thrift_port = objects[Head(todo)].thrift_port
    BY <1>4, StartedProcess
  <2>3. Head(todo) \in DOMAIN objects
    BY <1>4, TailOfDistinct DEF StartSwitch, Loops
  <2> HIDE DEF i
  <2>4. i[1] <= run
    BY <2>2, IdTypes
  <2>5. ASSUME NEW id \in Alive'
        PROVE  /\ procs'[id].phase \in {"starting", "listening"}
               /\ id[1] <= run'
               /\ id[1] = run' =>
                    /\ id[2] \in DOMAIN objects'
                    /\ procs'[id].port = objects'[id[2]].port
                    /\ procs'[id].thrift_port = objects'[id[2]].thrift_port
    <3>1. CASE id = i
      BY <3>1, <2>1, <2>2, <2>3, <2>4
    <3>2. CASE id # i
      BY <3>2, <2>1, <2>2 DEF ProcessTable, Same
    <3> QED
      BY <3>1, <3>2
  <2>6. ASSUME NEW p \in foreign PROVE ServersAt(p)' = {}
    <3>1. ServersAt(p)' \subseteq ServersAt(p)
      BY <2>2 DEF ServersAt, Same, Ports
    <3> QED
      BY <3>1 DEF ProcessTable
  <2> QED
    BY <2>1, <2>5, <2>6 DEF ProcessTable
<1>5. CASE NetworkStopped
  <2>1. UNCHANGED <<procs, run, objects, foreign, disturbances>>
    BY <1>5 DEF NetworkStopped, worldVars
  <2> QED
    BY <2>1, Untouched, QuietTable
<1>6. CASE Calm
  BY <1>6, CalmSteps, QuietTable
<1>7. ASSUME NEW i \in Ids, ProcessListens(i) PROVE ProcessTable'
  <2>1. UNCHANGED <<run, objects, foreign, disturbances>> /\ i \in Alive
    BY <1>7 DEF ProcessListens, runnerVars
  <2>2. CASE Quiet
    BY <2>1, <2>2, QuietTable
  <2>3. CASE /\ Alive' = Alive /\ \A id \in Alive \ {i} : Same(id)
             /\ procs'[i].phase = "listening"
             /\ procs'[i].port = procs[i].port
             /\ procs'[i].thrift_port = procs[i].thrift_port
             /\ \A p \in Ports(procs[i]) : ~check_listening_on_port(p)
    <3>1. ASSUME NEW id \in Alive'
          PROVE  /\ procs'[id].phase \in {"starting", "listening"}
                 /\ procs'[id].port = procs[id].port
                 /\ procs'[id].thrift_port = procs[id].thrift_port
      BY <2>3 DEF Same, ProcessTable
    <3>2. ASSUME NEW p \in foreign PROVE ServersAt(p)' = {}
      <4>1. p \notin Ports(procs[i])
        BY <2>3 DEF check_listening_on_port
      <4>2. ServersAt(p)' \subseteq ServersAt(p)
        BY <2>3, <4>1 DEF ServersAt, Same, Ports
      <4> QED
        BY <4>2 DEF ProcessTable
    <3> QED
      BY <2>1, <2>3, <3>1, <3>2 DEF ProcessTable
  <2> QED
    BY <1>7, <2>2, <2>3, Bound
<1>8. ASSUME NEW i \in Ids, ProcessCrashes(i) PROVE ProcessTable'
  BY <1>8, Crashes, QuietTable
<1>9. ASSUME NEW p \in {50051, 9090}, ForeignListens(p) PROVE ProcessTable'
  <2>1. /\ UNCHANGED <<procs, run, objects>> /\ foreign' = foreign \cup {p}
        /\ disturbances' = disturbances + 1 /\ ServersAt(p) = {}
    BY <1>9 DEF ForeignListens, runnerVars, check_listening_on_port
  <2>2. Alive' = Alive /\ \A q : ServersAt(q)' = ServersAt(q)
    BY <2>1 DEF Alive, ServersAt
  <2> QED
    BY <2>1, <2>2 DEF ProcessTable
<1> QED
  BY <1>1, <1>2, <1>3, <1>4, <1>5, <1>6, <1>7, <1>8, <1>9, StepKinds

\* Who listens on the port of a switch is the switch, or one that was given the same
\* port, as long as what is left of earlier runs keeps to other ports.
LEMMA Servers ==
    ASSUME Loops, PortTable, ProcessTable, Undisturbed, Apart,
           NEW s \in DOMAIN objects, check_listening_on_port(objects[s].port)
    PROVE  \/ ServersAt(objects[s].port) = {<<run, s>>}
           \/ /\ exercise.exe # "grpc"
              /\ \E r \in Switches \ {s} : objects[r].port = objects[s].port
<1>1. ServersAt(objects[s].port) # {}
  BY DEF check_listening_on_port, ProcessTable, Undisturbed
<1>2. ASSUME NEW id \in ServersAt(objects[s].port)
      PROVE  /\ id = <<run, id[2]>> /\ id[2] \in DOMAIN objects
             /\ \/ objects[s].port = objects[id[2]].port
                \/ objects[s].port = objects[id[2]].thrift_port
  <2>1. id \in Alive /\ id \in Ids /\ objects[s].port \in Ports(procs[id])
    BY DEF ServersAt, Alive
  <2>2. ~(id[1] < run)
    BY <2>1 DEF Apart
  <2>3. id[1] = run
    BY <2>1, <2>2, IdTypes, BoundsAssumption DEF ProcessTable, Loops
  <2> QED
    BY <2>1, <2>3, IdTypes DEF ProcessTable, Ports
<1>3. CASE exercise.exe = "grpc"
  <2>1. \A id \in ServersAt(objects[s].port) : id = <<run, s>>
    BY <1>2, <1>3 DEF PortTable
  <2> QED
    BY <1>1, <2>1
<1>4. CASE exercise.exe # "grpc"
  <2>1. \A id \in ServersAt(objects[s].port) : objects[s].port = objects[id[2]].port
    BY <1>2, <1>4 DEF PortTable
  <2>2. CASE \E id \in ServersAt(objects[s].port) : id[2] # s
    BY <1>2, <1>4, <2>1, <2>2 DEF Loops
  <2>3. CASE \A id \in ServersAt(objects[s].port) : id[2] = s
    BY <1>1, <1>2, <2>3
  <2> QED
    BY <2>2, <2>3
<1> QED
  BY <1>3, <1>4

\* The switch that is stopped is the head of todo; what is left to stop is its tail.
LEMMA StoppedInTurn ==
    ASSUME todo \in Seq(Switches), todo # <<>>, todo' = Tail(todo),
           Alive' = Alive \ {<<run, Head(todo)>>}
    PROVE  \A id \in Alive' :
             id[1] = run /\ (\E i \in DOMAIN todo : todo[i] = id[2]) =>
                \E i \in DOMAIN todo' : todo'[i] = id[2]
<1>1. \A i \in DOMAIN todo : i = 1 \/ (i - 1 \in DOMAIN todo' /\ todo'[i - 1] = todo[i])
  OBVIOUS
<1> SUFFICES ASSUME NEW id \in Alive', id[1] = run,
                    NEW i \in DOMAIN todo, todo[i] = id[2]
             PROVE  \E j \in DOMAIN todo' : todo'[j] = id[2]
  OBVIOUS
<1>2. id = <<id[1], id[2]>> /\ id # <<run, Head(todo)>>
  BY IdTypes DEF Alive
<1>3. i # 1
  BY <1>2
<1> QED
  BY <1>1, <1>3

\* What a quiet step of the same run leaves as it is.
LEMMA QuietApart ==
    ASSUME Quiet, UNCHANGED <<run, objects>>
    PROVE  /\ Apart => Apart'
           /\ Outlived /\ (pc' = "off" => pc = "off") => Outlived'
<1>1. \A id \in Alive' : /\ id \in Alive /\ Ports(procs'[id]) = Ports(procs[id])
                         /\ procs'[id].phase = procs[id].phase
  BY QuietServers DEF Quiet, Same
<1> QED
  BY <1>1 DEF Apart, Outlived

LEMMA QuietServing ==
    ASSUME Quiet, Alive' = Alive, UNCHANGED <<run, objects>>, Serving,
           started' = started, pc \in {"starting"} \cup Busy
    PROVE  Serving'
<1>1. \A p : \A id \in ServersAt(p) : id \in ServersAt(p)'
  BY QuietServers DEF ServersAt
<1> QED
  BY <1>1 DEF Serving

LEMMA CalmUndisputed ==
    ASSUME Loops, PortTable, Records, ProcessTable, Undisputed, Undisturbed, Calm
    PROVE  Outlived' /\ Apart' /\ Serving' /\ LeftToStop' /\ Connected'
<1>1. /\ Quiet /\ (StopSwitch \/ Alive' = Alive)
      /\ UNCHANGED <<run, exercise, objects, foreign, disturbances, clean, late>>
  BY CalmSteps
<1>2. Outlived /\ Apart /\ Serving /\ LeftToStop /\ Connected
  BY DEF Undisputed
<1>3. pc' = "off" => pc = "off"
  BY DEF Calm, NetworkCreated, SwitchUp, NetworkStarted, ProgramHosts, LeaveSwitch,
     ConnectToSwitch, SetPipeline, InsertRule, SwitchProgrammed, do_net_cli, LeaveCli,
     StopSwitch, CliJobRuns, vars, runnerVars
<1>4. Outlived' /\ Apart'
  BY <1>1, <1>2, <1>3, QuietApart
<1>5. CASE NetworkCreated
  <2>1. pc' = "starting" /\ started' = started /\ started = {}
    BY <1>5 DEF NetworkCreated, Loops
  <2> QED
    BY <2>1, <1>4 DEF Serving, LeftToStop, Connected
<1>6. CASE SwitchUp
  <2> DEFINE s == Head(todo)
  <2>1. /\ pc = "polling" /\ pc' = "starting" /\ started' = started \cup {s}
        /\ <<run, s>> \in Alive /\ check_listening_on_port(objects[s].port)
    BY <1>6 DEF SwitchUp
  <2>2. s \in DOMAIN objects
    BY <2>1, TailOfDistinct DEF Loops
  <2>3. \/ <<run, s>> \in ServersAt(objects[s].port)
        \/ \E r \in Switches \ {s} : objects[r].port = objects[s].port
    BY <1>2, <2>1, <2>2, Servers
  <2>4. procs' = procs
    BY <1>6 DEF SwitchUp, worldVars
  <2>5. \A p : ServersAt(p)' = ServersAt(p)
    BY <2>4 DEF ServersAt, Alive
  <2> HIDE DEF s
  <2>6. Serving'
    BY <1>1, <1>2, <2>1, <2>3, <2>5 DEF Serving, Busy
  <2> QED
    BY <2>1, <2>6, <1>4 DEF LeftToStop, Connected
<1>7. CASE \/ NetworkStarted \/ ProgramHosts \/ LeaveSwitch \/ SwitchProgrammed
           \/ do_net_cli
  <2>1. /\ pc \in {"starting"} \cup Busy /\ pc' \in {"hosts", "programming", "cli"}
        /\ started' = started /\ ~StopSwitch
    BY <1>7 DEF NetworkStarted, ProgramHosts, LeaveSwitch, SwitchProgrammed, do_net_cli,
       Busy, StopSwitch
  <2> QED
    BY <2>1, <1>1, <1>2, <1>4, QuietServing DEF LeftToStop, Connected
<1>8. CASE ConnectToSwitch
  <2> DEFINE s == Head(todo)
  <2>1. /\ pc = "programming" /\ pc' = "pipeline" /\ todo # <<>>
        /\ UNCHANGED <<todo, started>> /\ ~StopSwitch
        /\ connection'.server = IF exercise.exe = "grpc" THEN ServerOf(s) ELSE Nobody
    BY <1>8 DEF ConnectToSwitch, StopSwitch
  <2>2. Serving'
    BY <2>1, <1>1, <1>2, QuietServing DEF Busy
  <2>3. ASSUME exercise.exe = "grpc" PROVE connection'.server = <<run, s>>
    <3>1. s \in DOMAIN objects /\ s \in started
      BY <2>1, TailOfDistinct DEF Loops, Later
    <3>2. <<run, s>> \in ServersAt(objects[s].port)
      <4>1. \A r \in Switches \ {s} : objects[r].port # objects[s].port
        BY <2>1, <2>3, <3>1 DEF PortTable, Loops, Later
      <4> QED
        BY <1>2, <2>1, <3>1, <4>1 DEF Serving, Busy
    <3>3. ServersAt(objects[s].port) = {<<run, s>>}
      BY <1>2, <2>3, <3>1, <3>2, Servers DEF check_listening_on_port
    <3> QED
      BY <2>1, <2>3, <3>3 DEF ServerOf
  <2> HIDE DEF s
  <2>4. Connected'
    BY <2>1, <2>3, <1>1 DEF Connected, s
  <2> QED
    BY <2>1, <2>2, <2>4, <1>4 DEF LeftToStop
<1>9. CASE SetPipeline \/ InsertRule
  <2>1. /\ pc \in {"pipeline", "rules"} /\ pc' = "rules" /\ UNCHANGED <<todo, started>>
        /\ ~StopSwitch
    BY <1>9 DEF SetPipeline, InsertRule, StopSwitch
  <2>2. connection'.server = connection.server
    <3>1. CASE SetPipeline
      BY <3>1 DEF SetPipeline
    <3>2. CASE InsertRule
      <4>1. connection = [open |-> TRUE, server |-> connection.server,
                          left |-> connection.left]
        BY <2>1 DEF Loops
      <4>2. DOMAIN connection = {"open", "server", "left"}
        BY <4>1
      <4> QED
        BY <3>2, <4>2 DEF InsertRule
    <3> QED
      BY <1>9, <3>1, <3>2
  <2>3. Serving'
    BY <2>1, <1>1, <1>2, QuietServing DEF Busy
  <2> QED
    BY <2>1, <2>2, <2>3, <1>1, <1>2, <1>4 DEF LeftToStop, Connected
<1>10. CASE LeaveCli
  <2>1. pc' = "stopping" /\ todo' = SwitchNames
    BY <1>10 DEF LeaveCli
  <2>2. \A id \in Alive' : id[2] \in Switches
    BY IdTypes DEF Alive
  <2>3. \A t \in Switches : \E i \in DOMAIN SwitchNames : SwitchNames[i] = t
    BY DEF Switches, ToSet
  <2> QED
    BY <2>1, <2>2, <2>3, <1>4 DEF Serving, Busy, LeftToStop, Connected
<1>11. CASE StopSwitch
  <2>1. /\ pc = "stopping" /\ pc' = pc /\ todo # <<>> /\ todo' = Tail(todo)
        /\ procs' = [procs EXCEPT ![<<run, Head(todo)>>] = NoProcess]
    BY <1>11 DEF StopSwitch
  <2>2. <<run, Head(todo)>> \in Ids
    BY <2>1, TailOfDistinct DEF Loops, Ids
  <2>3. Alive' = Alive \ {<<run, Head(todo)>>}
    BY <2>1, <2>2, Ended
  <2>4. LeftToStop'
    BY <1>1, <1>2, <2>1, <2>3, StoppedInTurn DEF LeftToStop, Loops
  <2> QED
    BY <2>1, <2>4, <1>4 DEF Serving, Busy, Connected
<1>12. CASE (\E job \in cliJobs : CliJobRuns(job)) \/ UNCHANGED vars
  <2>1. UNCHANGED <<pc, todo, started, connection>>
    BY <1>12 DEF CliJobRuns, vars, runnerVars
  <2>2. Alive' = Alive
    <3>1. CASE UNCHANGED vars
      BY <3>1 DEF vars, worldVars, Alive
    <3>2. CASE \E job \in cliJobs : CliJobRuns(job)
      BY <3>2, ProgrammingIsQuiet
    <3> QED
      BY <1>12, <3>1, <3>2
  <2>3. Serving'
    <3>1. CASE pc \in {"starting"} \cup Busy
      BY <3>1, <2>1, <2>2, <1>1, <1>2, QuietServing
    <3>2. CASE pc \notin {"starting"} \cup Busy
      BY <3>2, <2>1 DEF Serving
    <3> QED
      BY <3>1, <3>2
  <2>4. LeftToStop' /\ Connected'
    BY <2>1, <2>2, <1>1, <1>2 DEF LeftToStop, Connected
  <2> QED
    BY <2>3, <2>4, <1>4
<1> QED
  BY <1>5, <1>6, <1>7, <1>8, <1>9, <1>10, <1>11, <1>12 DEF Calm

LEMMA StepUndisputed ==
    ASSUME Loops, PortTable, Records, ProcessTable, Undisputed, [Next]_vars
    PROVE  Undisputed'
<1> SUFFICES ASSUME Undisturbed' PROVE Outlived' /\ Apart' /\ Serving' /\ LeftToStop' /\ Connected'
  BY DEF Undisputed
<1>a. Undisturbed => Outlived /\ Apart /\ Serving /\ LeftToStop /\ Connected
  BY DEF Undisputed
<1>b. \A id \in Alive : /\ id[1] \in Nat /\ id[1] <= run /\ run \in Nat
                        /\ procs[id].phase \in {"starting", "listening"}
  BY IdTypes, BoundsAssumption DEF Alive, ProcessTable, Loops
<1>1. CASE \E e \in Exercises : StartRunner(e)
  <2>1. /\ pc = "off" /\ pc' \in {"creating", "off"} /\ objects' = <<>>
        /\ UNCHANGED <<procs, disturbances, late>>
    BY <1>1 DEF StartRunner, worldVars, historyVars
  <2>2. Undisturbed /\ Alive' = Alive
    BY <2>1 DEF Undisturbed, Alive
  <2>3. Outlived'
    BY <1>a, <2>1, <2>2 DEF Outlived
  <2>4. Apart'
    BY <2>1, NoEntry DEF Apart
  <2> QED
    BY <2>1, <2>3, <2>4 DEF Serving, Busy, LeftToStop, Connected
<1>2. CASE RefuseSwitch \/ SwitchNotUp \/ ProgramFails \/ Interrupt
  <2>1. /\ pc' = "off" /\ UNCHANGED <<procs, run, objects, disturbances>>
        /\ late' = (late \/ \E id \in Alive : id[1] = run /\ procs[id].phase = "starting")
    BY <1>2, Early DEF EndEarly, worldVars
  <2>2. /\ Undisturbed /\ Alive' = Alive
        /\ ~\E id \in Alive : id[1] = run /\ procs[id].phase = "starting"
    BY <2>1 DEF Undisturbed, Alive
  <2>3. Outlived'
    BY <1>a, <1>b, <2>1, <2>2 DEF Outlived
  <2>4. Apart'
    BY <1>a, <2>1, <2>2 DEF Apart
  <2> QED
    BY <2>1, <2>3, <2>4 DEF Serving, Busy, LeftToStop, Connected
\* The port of the new switch was free, and what is left listens.
<1>3. CASE CreateSwitch
  <2> DEFINE s == Head(todo)
  <2>1. /\ pc = "creating" /\ pc' = pc /\ UNCHANGED <<procs, run, foreign, disturbances, late>>
        /\ DOMAIN objects' = {s} \cup DOMAIN objects
        /\ \A r \in DOMAIN objects : r # s => objects'[r] = objects[r]
        /\ objects'[s].port = port(s) /\ ~check_listening_on_port(port(s))
    BY <1>3 DEF CreateSwitch, CanCreate, worldVars, historyVars
  <2>2. Undisturbed /\ Alive' = Alive
    BY <2>1 DEF Undisturbed, Alive
  <2> HIDE DEF s
  <2>3. \A id \in Alive : id[1] < run => port(s) \notin Ports(procs[id])
    BY <1>a, <2>1, <2>2 DEF Outlived, check_listening_on_port, ServersAt
  <2>4. Apart'
    BY <1>a, <2>1, <2>2, <2>3 DEF Apart
  <2>5. Outlived'
    BY <1>a, <2>1, <2>2 DEF Outlived
  <2> QED
    BY <2>1, <2>4, <2>5 DEF Serving, Busy, LeftToStop, Connected
<1>4. CASE StartSwitch
  <2> DEFINE i == <<run, Head(todo)>>
  <2>1. /\ pc = "starting" /\ pc' = "polling" /\ todo # <<>>
        /\ UNCHANGED <<run, objects, started, disturbances, late>>
    BY <1>4 DEF StartSwitch, historyVars
  <2>2. /\ i[1] = run /\ Alive' = Alive \cup {i} /\ \A id \in Alive \ {i} : Same(id)
    BY <1>4, StartedProcess
  <2>3. Undisturbed
    BY <2>1 DEF Undisturbed
  <2>4. \A t \in started : <<run, t>> # i
    BY <2>1, TailOfDistinct DEF Loops
  <2> HIDE DEF i
  <2>5. Outlived' /\ Apart'
    <3>1. \A id \in Alive' : id[1] < run => id \in Alive /\ Same(id)
      BY <1>b, <2>2, <2>1 DEF Loops
    <3> QED
      BY <1>a, <2>1, <2>3, <3>1 DEF Outlived, Apart, Same, Ports
  <2>6. \A p : \A id \in ServersAt(p) : id # i => id \in ServersAt(p)'
    BY <2>2 DEF ServersAt, Same, Ports
  <2>7. Serving'
    BY <1>a, <2>1, <2>3, <2>4, <2>6 DEF Serving
  <2> QED
    BY <2>1, <2>5, <2>7 DEF LeftToStop, Connected
\* Every switch has been stopped.
<1>5. CASE NetworkStopped
  <2>1. /\ pc = "stopping" /\ pc' = "off" /\ todo = <<>>
        /\ UNCHANGED <<procs, run, objects, disturbances, late>>
    BY <1>5 DEF NetworkStopped, worldVars, historyVars
  <2>2. Undisturbed /\ Alive' = Alive
    BY <2>1 DEF Undisturbed, Alive
  <2>3. \A id \in Alive : id[1] # run
    BY <1>a, <2>1, <2>2, NoEntry DEF LeftToStop
  <2>4. Outlived' /\ Apart'
    BY <1>a, <1>b, <2>1, <2>2, <2>3 DEF Outlived, Apart
  <2> QED
    BY <2>1, <2>4 DEF Serving, Busy, LeftToStop, Connected
<1>6. CASE Calm
  <2>1. Undisturbed
    BY <1>6, CalmSteps DEF Undisturbed
  <2> QED
    BY <1>6, <2>1, CalmUndisputed
<1>7. ASSUME NEW i \in Ids, ProcessListens(i)
      PROVE  Outlived' /\ Apart' /\ Serving' /\ LeftToStop' /\ Connected'
  <2>1. /\ UNCHANGED <<pc, run, exercise, todo, objects, started, connection, disturbances, late>>
        /\ i \in Alive /\ procs[i].phase = "starting"
    BY <1>7 DEF ProcessListens, runnerVars, historyVars
  <2>2. Undisturbed
    BY <2>1 DEF Undisturbed
  <2>3. /\ Alive' \subseteq Alive /\ Alive \ {i} \subseteq Alive'
        /\ \A id \in Alive' \ {i} : Same(id)
        /\ i \in Alive' => /\ procs'[i].phase \in {"starting", "listening"}
                           /\ (procs'[i].phase = "starting" => Same(i))
                           /\ Ports(procs'[i]) = Ports(procs[i])
    BY <1>7, <2>1, Bound DEF Quiet, Same, Ports
  <2>4. Outlived' /\ Apart'
    BY <1>a, <2>1, <2>2, <2>3 DEF Outlived, Apart, Same, Ports
  <2>5. \A p : \A id \in ServersAt(p) : id \in ServersAt(p)'
    BY <2>1, <2>3 DEF ServersAt, Same, Ports
  <2>6. Serving' /\ LeftToStop' /\ Connected'
    BY <1>a, <2>1, <2>2, <2>3, <2>5 DEF Serving, LeftToStop, Connected
  <2> QED
    BY <2>4, <2>6
<1>8. ASSUME NEW i \in Ids, ProcessCrashes(i) PROVE FALSE
  BY <1>8, Crashes DEF Undisturbed, ProcessTable
<1>9. ASSUME NEW p \in {50051, 9090}, ForeignListens(p) PROVE FALSE
  BY <1>9 DEF ForeignListens, Undisturbed, ProcessTable
<1> QED
  BY <1>1, <1>2, <1>3, <1>4, <1>5, <1>6, <1>7, <1>8, <1>9, StepKinds

LEMMA StepOwnProcesses ==
    ASSUME Loops, Records, OwnProcesses, [Next]_vars
    PROVE  OwnProcesses'
<1> SUFFICES ASSUME clean'
             PROVE  /\ pc' \in {"off", "creating"} => Alive' = {}
                    /\ \A id \in Alive' :
                         /\ id[1] = run'
                         /\ pc' = "stopping" => \E i \in DOMAIN todo' : todo'[i] = id[2]
  BY DEF OwnProcesses
<1>1. CASE RefuseSwitch \/ SwitchNotUp \/ ProgramFails \/ Interrupt
  BY <1>1, Early DEF EndEarly
<1>2. CASE (\E e \in Exercises : StartRunner(e)) \/ CreateSwitch
  <2>1. pc \in {"off", "creating"} /\ procs' = procs
    BY <1>2 DEF StartRunner, CreateSwitch, worldVars
  <2>2. clean
    <3>1. UNCHANGED historyVars
      BY <1>2 DEF StartRunner, CreateSwitch
    <3> QED
      BY <3>1, Zenon DEF historyVars
  <2>3. Alive' = {}
    BY <2>1, <2>2 DEF OwnProcesses, Alive
  <2> QED
    BY <2>3
<1>3. CASE StartSwitch
  <2>1. pc = "starting" /\ pc' = "polling" /\ run' = run /\ clean' = clean
    BY <1>3 DEF StartSwitch, historyVars
  <2>2. Alive' = Alive \cup {<<run, Head(todo)>>} /\ <<run, Head(todo)>>[1] = run
    BY <1>3, StartedProcess
  <2> QED
    BY <2>1, <2>2 DEF OwnProcesses
<1>4. CASE NetworkStopped
  <2>1. pc = "stopping" /\ todo = <<>> /\ UNCHANGED <<procs, clean>>
    BY <1>4 DEF NetworkStopped, worldVars, historyVars
  <2>2. Alive' = {}
    BY <2>1, NoEntry DEF OwnProcesses, Alive
  <2> QED
    BY <2>2
<1>5. CASE Calm
  <2>1. Alive' \subseteq Alive /\ run' = run /\ clean
    BY <1>5, CalmSteps DEF Quiet
  <2>2. CASE StopSwitch
    <3>1. /\ pc = "stopping" /\ pc' = pc /\ todo # <<>> /\ todo' = Tail(todo)
          /\ procs' = [procs EXCEPT ![<<run, Head(todo)>>] = NoProcess]
      BY <2>2 DEF StopSwitch
    <3>2. <<run, Head(todo)>> \in Ids
      BY <3>1, TailOfDistinct DEF Loops, Ids
    <3>3. Alive' = Alive \ {<<run, Head(todo)>>}
      BY <3>1, <3>2, Ended
    <3> QED
      BY <2>1, <3>1, <3>3, StoppedInTurn DEF OwnProcesses, Loops
  <2>3. CASE LeaveCli
    <3>1. pc' = "stopping" /\ todo' = SwitchNames
      BY <2>3 DEF LeaveCli
    <3>2. \A id \in Alive : id[2] \in Switches
      BY IdTypes DEF Alive
    <3>3. \A t \in Switches : \E i \in DOMAIN SwitchNames : SwitchNames[i] = t
      BY DEF Switches, ToSet
    <3> QED
      BY <2>1, <3>1, <3>2, <3>3 DEF OwnProcesses
  <2>4. CASE ~StopSwitch /\ ~LeaveCli
    <3>1. /\ pc' \in {"off", "creating"} => pc' = pc
          /\ pc' = "stopping" => pc' = pc /\ todo' = todo
      BY <1>5, <2>4 DEF Calm, NetworkCreated, SwitchUp, NetworkStarted, ProgramHosts,
         LeaveSwitch, ConnectToSwitch, SetPipeline, InsertRule, SwitchProgrammed,
         do_net_cli, CliJobRuns, vars, runnerVars
    <3> QED
      BY <2>1, <3>1 DEF OwnProcesses
  <2> QED
    BY <2>2, <2>3, <2>4
<1>6. CASE \E i \in Ids : ProcessListens(i) \/ ProcessCrashes(i)
  <2>1. UNCHANGED <<pc, run, todo, clean>>
    BY <1>6 DEF ProcessListens, ProcessCrashes, runnerVars, historyVars
  <2>2. Alive' \subseteq Alive
    BY <1>6, Bound, Crashes DEF Quiet
  <2> QED
    BY <2>1, <2>2 DEF OwnProcesses
<1>7. CASE \E p \in {50051, 9090} : ForeignListens(p)
  <2>1. UNCHANGED <<pc, run, todo, procs>>
    BY <1>7 DEF ForeignListens, runnerVars
  <2>2. clean
    BY <1>7 DEF ForeignListens, historyVars
  <2> QED
    BY <2>1, <2>2 DEF OwnProcesses, Alive
<1> QED
  BY <1>1, <1>2, <1>3, <1>4, <1>5, <1>6, <1>7, StepKinds

LEMMA StepRun == RunInv /\ [Next]_vars => RunInv'
BY StepLoops, StepPortTable, StepRecords, StepProcessTable, StepUndisputed,
   StepOwnProcesses DEF RunInv

LEMMA RunInvariant == Spec => []RunInv
<1> QED
  BY InitRun, StepRun, PTL DEF Spec

-----------------------------------------------------------------------------
(* The theorems.                                                            *)

\* A connection is open exactly while program_switch is in its try block, for a
\* switch that has been started, and a process of this run belongs to a switch that
\* was created (run_exercise.py, create_network to program_switches), however runs
\* end and processes crash.
THEOREM TypeCorrect == Spec => []TypeOK
<1>1. RunInv => TypeOK
  <2> SUFFICES ASSUME RunInv PROVE TypeOK
    OBVIOUS
  <2>1. ToSet(todo) \subseteq Switches
    BY DEF RunInv, Loops, ToSet
  <2>2. connection.open <=> pc \in {"pipeline", "rules"}
    <3>1. CASE pc \in {"pipeline", "rules"}
      <4>1. connection = [open |-> TRUE, server |-> connection.server,
                          left |-> connection.left]
        BY <3>1 DEF RunInv, Loops
      <4>2. connection.open = TRUE
        BY <4>1
      <4> QED
        BY <3>1, <4>2
    <3>2. CASE pc \notin {"pipeline", "rules"}
      BY <3>2 DEF RunInv, Loops, NoConnection
    <3> QED
      BY <3>1, <3>2
  <2>3. connection.open => Head(todo) \in started
    BY <2>2, TailOfDistinct DEF RunInv, Loops, Later
  <2>4. pc \in {"off", "creating", "starting", "polling", "hosts", "programming",
              "pipeline", "rules", "cli", "stopping"}
    BY DEF RunInv, Loops, Later
  <2> QED
    BY <2>1, <2>2, <2>3, <2>4 DEF RunInv, Loops, ProcessTable, TypeOK
<1> QED
  BY <1>1, RunInvariant, PTL

\* For every number of switches and runs: a switch that was taken for started
\* (p4runtime_switch.py, lines 69-71 and 92-98) runs itself, alone on its port, and
\* what is programmed is its process and no other, whatever earlier runs left on the
\* machine - but for the disturbances that StartedRuns names.
THEOREM StartedRunsCorrect == Spec => []StartedRuns
<1>1. RunInv => StartedRuns
  <2> SUFFICES ASSUME RunInv, Running, Undisturbed
               PROVE  /\ \A s \in started :
                           \/ ServersAt(objects[s].port) = {<<run, s>>}
                           \/ \E r \in Switches \ {s} : objects[r].port = objects[s].port
                      /\ connection.open /\ exercise.exe = "grpc" =>
                           connection.server = <<run, Head(todo)>>
    BY DEF StartedRuns
  <2>1. Apart /\ Serving /\ Connected
    BY DEF RunInv, Undisputed
  <2>2. ASSUME NEW s \in started
        PROVE  \/ ServersAt(objects[s].port) = {<<run, s>>}
               \/ \E r \in Switches \ {s} : objects[r].port = objects[s].port
    <3>1. pc \in {"starting"} \cup Busy
      BY DEF Running, RunInv, Loops, Busy, Later
    <3>2. CASE <<run, s>> \in ServersAt(objects[s].port)
      <4>1. s \in DOMAIN objects /\ check_listening_on_port(objects[s].port)
        BY <3>2 DEF RunInv, Loops, check_listening_on_port
      <4> QED
        BY <4>1, <2>1, Servers DEF RunInv
    <3> QED
      BY <2>1, <3>1, <3>2 DEF Serving
  <2>3. connection.open => pc \in {"pipeline", "rules"}
    BY DEF RunInv, Loops, NoConnection
  <2> QED
    BY <2>1, <2>2, <2>3 DEF Connected
<1> QED
  BY <1>1, RunInvariant, PTL

\* Where nobody is alive nobody listens.
LEMMA NobodyListens ==
    ASSUME Alive = {}, foreign = {}
    PROVE  \A p : ~check_listening_on_port(p)
BY DEF check_listening_on_port, ServersAt

\* After runs that were all left by the user's prompt, the next run finds the ports
\* of its switches free (p4runtime_switch.py, lines 57-71, p4_mininet.py, lines 85-87
\* and 152-157), unless another program listens on them.
THEOREM CleanRunsRepeatCorrect == Spec => []CleanRunsRepeat
<1>1. RunInv => CleanRunsRepeat
  BY NobodyListens DEF RunInv, OwnProcesses, CleanRunsRepeat
<1> QED
  BY <1>1, RunInvariant, PTL

-----------------------------------------------------------------------------
(* Numbers: the least of a set, and induction from it.                      *)

\* The initial segments 0..n of the numbers of S are finite sets, and strict
\* inclusion of finite sets is well founded: the least segment belongs to the
\* least number.
LEMMA NatMinimum ==
    ASSUME NEW S \in SUBSET Nat, S # {}
    PROVE  \E m \in S : \A n \in S : m <= n
<1> DEFINE segments == {0 .. n : n \in S}
<1>1. segments \subseteq FiniteSubsetsOf(Nat) /\ segments # {}
  <2>1. \A n \in S : 0 .. n \in SUBSET Nat /\ IsFiniteSet(0 .. n)
    BY FS_Interval
  <2> QED
    BY <2>1 DEF FiniteSubsetsOf
<1>2. \E t \in segments : \A u \in segments : <<u, t>> \notin StrictSubsetOrdering(Nat)
  <2> HIDE DEF segments
  <2>1. IsWellFoundedOn(StrictSubsetOrdering(Nat), FiniteSubsetsOf(Nat))
    BY FS_StrictSubsetOrderingWellFounded
  <2> QED
    BY <1>1, <2>1, WFMin
<1>3. PICK m \in S : \A n \in S : <<0 .. n, 0 .. m>> \notin StrictSubsetOrdering(Nat)
  BY <1>2
<1>4. ASSUME NEW n \in S PROVE m <= n
  <2>1. SUFFICES ASSUME n < m PROVE FALSE
    OBVIOUS
  <2>2. 0 .. n \subseteq 0 .. m /\ 0 .. n # 0 .. m
    <3>1. m \in 0 .. m /\ m \notin 0 .. n
      BY <2>1
    <3> QED
      BY <2>1, <3>1
  <2>3. <<0 .. n, 0 .. m>> \in (SUBSET Nat) \X (SUBSET Nat)
    OBVIOUS
  <2> QED
    BY <1>3, <2>2, <2>3 DEF StrictSubsetOrdering
<1> QED
  BY <1>4

\* What holds for 0 and goes from every number to the next holds for all up to N.
LEMMA Upwards ==
    ASSUME NEW N \in Nat, NEW P, 0 \in P, \A n \in 1 .. N : n - 1 \in P => n \in P
    PROVE  \A n \in 0 .. N : n \in P
<1> DEFINE failing == {n \in 0 .. N : n \notin P}
<1>1. SUFFICES ASSUME failing # {} PROVE FALSE
  OBVIOUS
<1>2. PICK n \in failing : \A m \in failing : n <= m
  <2>1. failing \in SUBSET Nat
    OBVIOUS
  <2> QED
    BY <1>1, <2>1, NatMinimum
<1>3. n \in 1 .. N /\ n - 1 \in 0 .. N /\ n - 1 \notin failing
  BY <1>2
<1> QED
  BY <1>2, <1>3

-----------------------------------------------------------------------------
(* A number of the file in bytes, and back.                                 *)

\* What comes out of n steps of a loop, one after the other.
Chain(S, base, step, n, f) ==
    /\ f \in [0 .. n -> S] /\ f[0] = base
    /\ \A i \in 1 .. n : f[i] = step[<<f[i - 1], i>>]

\* A loop has a value after every step.
LEMMA ChainExists ==
    ASSUME NEW S, NEW base \in S, NEW N \in Nat, NEW step \in [S \X (1 .. N) -> S]
    PROVE  \E f : Chain(S, base, step, N, f)
<1> DEFINE P == {n \in 0 .. N : \E f : Chain(S, base, step, n, f)}
<1>1. 0 \in P
  <2>1. Chain(S, base, step, 0, [i \in 0 .. 0 |-> base])
    BY DEF Chain
  <2> QED
    BY <2>1
<1>2. ASSUME NEW n \in 1 .. N, n - 1 \in P PROVE n \in P
  <2>1. PICK f : Chain(S, base, step, n - 1, f)
    BY <1>2
  <2> DEFINE g == [i \in 0 .. n |-> IF i = n THEN step[<<f[n - 1], n>>] ELSE f[i]]
  <2>2. f[n - 1] \in S /\ step[<<f[n - 1], n>>] \in S
    BY <2>1 DEF Chain
  <2>3. g \in [0 .. n -> S] /\ g[0] = base
    BY <2>1, <2>2 DEF Chain
  <2>4. ASSUME NEW i \in 1 .. n PROVE g[i] = step[<<g[i - 1], i>>]
    <3>1. i - 1 \in 0 .. n - 1 /\ g[i - 1] = f[i - 1]
      OBVIOUS
    <3>2. CASE i = n
      <4>1. g[n] = step[<<f[n - 1], n>>]
        OBVIOUS
      <4> QED
        BY <3>1, <3>2, <4>1
    <3>3. CASE i # n
      <4>1. i \in 1 .. n - 1 /\ g[i] = f[i]
        BY <3>3
      <4> QED
        BY <2>1, <3>1, <4>1 DEF Chain
    <3> QED
      BY <3>2, <3>3
  <2> HIDE DEF g
  <2>5. Chain(S, base, step, n, g)
    BY <2>3, <2>4 DEF Chain
  <2> QED
    BY <2>5
<1>3. \A n \in 0 .. N : n \in P
  <2> HIDE DEF P
  <2> QED
    BY <1>1, <1>2, Upwards
<1> QED
  BY <1>3

\* The powers of two.
LEMMA PowersAre ==
    ASSUME NEW w \in Nat
    PROVE  \E p : /\ p \in [0 .. w -> Nat] /\ p[0] = 1 /\ TwoTo(w) = p[w]
                  /\ \A i \in 1 .. w : p[i] = 2 * p[i - 1]
<1> DEFINE step == [q \in Nat \X (1 .. w) |-> 2 * q[1]]
           Body(f) == [i \in 0 .. w |-> IF i = 0 THEN 1 ELSE 2 * f[i - 1]]
<1>1. PICK f : Chain(Nat, 1, step, w, f)
  <2>1. step \in [Nat \X (1 .. w) -> Nat] /\ 1 \in Nat
    OBVIOUS
  <2> HIDE DEF step
  <2> QED
    BY <2>1, ChainExists
<1>2. f \in [0 .. w -> Nat] /\ f[0] = 1 /\ \A i \in 1 .. w : f[i] = step[<<f[i - 1], i>>]
  <2> HIDE DEF step
  <2> QED
    BY <1>1 DEF Chain
<1>3. f = Body(f)
  <2>1. \A i \in 1 .. w : <<f[i - 1], i>> \in Nat \X (1 .. w)
    BY <1>2
  <2>2. \A i \in 1 .. w : f[i] = 2 * f[i - 1]
    BY <1>2, <2>1
  <2> HIDE DEF step
  <2>3. DOMAIN f = 0 .. w /\ f = [i \in 0 .. w |-> f[i]]
    BY <1>2
  <2>4. \A i \in 0 .. w : f[i] = IF i = 0 THEN 1 ELSE 2 * f[i - 1]
    <3>1. \A i \in 0 .. w : i = 0 \/ i \in 1 .. w
      OBVIOUS
    <3>2. \A i \in 1 .. w : i # 0
      OBVIOUS
    <3> QED
      BY <1>2, <2>2, <3>1, <3>2
  <2> QED
    BY <2>3, <2>4, Zenon
<1> DEFINE p == CHOOSE g : g = Body(g)
<1>4. p = Body(p) /\ TwoTo(w) = p[w]
  <2>1. p = Body(p)
    <3> HIDE DEF Body
    <3> QED
      BY <1>3, Zenon
  <2>2. TwoTo(w) = p[w]
    BY Zenon DEF TwoTo
  <2> QED
    BY <2>1, <2>2
<1> HIDE DEF p
<1>5. DOMAIN p = 0 .. w /\ p[0] = 1 /\ \A i \in 1 .. w : p[i] = 2 * p[i - 1]
  BY <1>4
<1>6. \A i \in 0 .. w : i \in {n \in 0 .. w : p[n] \in Nat}
  <2>1. \A n \in 1 .. w : n - 1 \in {m \in 0 .. w : p[m] \in Nat}
                            => n \in {m \in 0 .. w : p[m] \in Nat}
    BY <1>5
  <2>2. 0 \in {m \in 0 .. w : p[m] \in Nat}
    BY <1>5
  <2> HIDE DEF Body
  <2> QED
    BY <2>1, <2>2, Upwards
<1>7. p \in [0 .. w -> Nat]
  BY <1>4, <1>6
<1> QED
  BY <1>4, <1>5, <1>7

\* What is left of a number, byte by byte.
IsLeft(l, x, n) ==
    /\ l \in [0 .. n -> Nat] /\ l[0] = x
    /\ \A i \in 1 .. n : l[i] = l[i - 1] \div 256

LEMMA LeftIs ==
    ASSUME NEW x \in Nat, NEW n \in Nat
    PROVE  IsLeft(Left(x, n), x, n)
<1> DEFINE step == [q \in Nat \X (1 .. n) |-> q[1] \div 256]
           Body(f) == [i \in 0 .. n |-> IF i = 0 THEN x ELSE f[i - 1] \div 256]
<1>1. PICK f : Chain(Nat, x, step, n, f)
  <2>1. step \in [Nat \X (1 .. n) -> Nat]
    OBVIOUS
  <2> HIDE DEF step
  <2> QED
    BY <2>1, ChainExists
<1>2. f \in [0 .. n -> Nat] /\ f[0] = x /\ \A i \in 1 .. n : f[i] = step[<<f[i - 1], i>>]
  <2> HIDE DEF step
  <2> QED
    BY <1>1 DEF Chain
<1>3. f = Body(f)
  <2>1. \A i \in 1 .. n : <<f[i - 1], i>> \in Nat \X (1 .. n)
    BY <1>2
  <2>2. \A i \in 1 .. n : f[i] = f[i - 1] \div 256
    BY <1>2, <2>1
  <2> HIDE DEF step
  <2>3. DOMAIN f = 0 .. n /\ f = [i \in 0 .. n |-> f[i]]
    BY <1>2
  <2>4. \A i \in 0 .. n : f[i] = IF i = 0 THEN x ELSE f[i - 1] \div 256
    <3>1. \A i \in 0 .. n : i = 0 \/ i \in 1 .. n
      OBVIOUS
    <3>2. \A i \in 1 .. n : i # 0
      OBVIOUS
    <3> QED
      BY <1>2, <2>2, <3>1, <3>2
  <2> QED
    BY <2>3, <2>4, Zenon
<1> DEFINE p == CHOOSE g : g = Body(g)
<1>4. p = Body(p) /\ Left(x, n) = p
  <2>1. p = Body(p)
    <3> HIDE DEF Body
    <3> QED
      BY <1>3, Zenon
  <2>2. Left(x, n) = p
    BY Zenon DEF Left
  <2> QED
    BY <2>1, <2>2
<1> HIDE DEF p
<1>5. DOMAIN p = 0 .. n /\ p[0] = x /\ \A i \in 1 .. n : p[i] = p[i - 1] \div 256
  BY <1>4
<1>6. \A i \in 0 .. n : i \in {m \in 0 .. n : p[m] \in Nat}
  <2>1. \A k \in 1 .. n : k - 1 \in {m \in 0 .. n : p[m] \in Nat}
                            => k \in {m \in 0 .. n : p[m] \in Nat}
    BY <1>5
  <2>2. 0 \in {m \in 0 .. n : p[m] \in Nat}
    BY <1>5
  <2> HIDE DEF Body
  <2> QED
    BY <2>1, <2>2, Upwards
<1>7. p \in [0 .. n -> Nat]
  BY <1>4, <1>6
<1> QED
  BY <1>4, <1>5, <1>7 DEF IsLeft

\* The numbers of n bytes.
LEMMA BytesOf ==
    ASSUME NEW w \in Nat \ {0}
    PROVE  /\ bitwidthToBytes(w) \in Nat \ {0}
           /\ \A i \in 0 .. bitwidthToBytes(w) - 1 : w - 8 * i \in 1 .. w
           /\ w <= 8 * bitwidthToBytes(w)
BY DEF bitwidthToBytes

\* A number that fits has nothing left after its bytes.
LEMMA NothingIsLeft ==
    ASSUME NEW w \in Nat \ {0}, NEW x \in 0 .. TwoTo(w) - 1
    PROVE  Left(x, bitwidthToBytes(w))[bitwidthToBytes(w)] = 0
<1> DEFINE n == bitwidthToBytes(w)
           l == Left(x, n)
<1>1. PICK p : /\ p \in [0 .. w -> Nat] /\ p[0] = 1 /\ TwoTo(w) = p[w]
               /\ \A i \in 1 .. w : p[i] = 2 * p[i - 1]
  BY PowersAre
<1>2. /\ n \in Nat \ {0} /\ \A i \in 0 .. n - 1 : w - 8 * i \in 1 .. w
      /\ w <= 8 * n
  BY BytesOf
<1>3. x \in Nat /\ x < p[w]
  BY <1>1
<1> HIDE DEF n
<1>4. l \in [0 .. n -> Nat] /\ l[0] = x /\ \A i \in 1 .. n : l[i] = l[i - 1] \div 256
  <2>1. n \in Nat
    BY <1>2
  <2>2. IsLeft(l, x, n)
    BY <1>3, <2>1, LeftIs
  <2> HIDE DEF l
  <2> QED
    BY <2>2 DEF IsLeft
<1> HIDE DEF l
<1> DEFINE P == {i \in 0 .. n - 1 : l[i] < p[w - 8 * i]}
<1>5. 0 \in P
  BY <1>2, <1>3, <1>4
<1>6. ASSUME NEW i \in 1 .. n - 1, i - 1 \in P PROVE i \in P
  <2> DEFINE k == w - 8 * i
  <2>1. i \in 0 .. n - 1 /\ i - 1 \in 0 .. n - 1 /\ k \in 1 .. w /\ w - 8 * (i - 1) = k + 8
        /\ k + 8 \in 1 .. w /\ i \in 1 .. n
    BY <1>2
  <2> HIDE DEF k
  <2>2. /\ k + 1 \in 1 .. w /\ k + 2 \in 1 .. w /\ k + 3 \in 1 .. w /\ k + 4 \in 1 .. w
        /\ k + 5 \in 1 .. w /\ k + 6 \in 1 .. w /\ k + 7 \in 1 .. w
        /\ (k + 1) - 1 = k /\ (k + 2) - 1 = k + 1 /\ (k + 3) - 1 = k + 2
        /\ (k + 4) - 1 = k + 3 /\ (k + 5) - 1 = k + 4 /\ (k + 6) - 1 = k + 5
        /\ (k + 7) - 1 = k + 6 /\ (k + 8) - 1 = k + 7
    BY <2>1
  <2>3. p[k] \in Nat
    <3>1. k \in 0 .. w
      BY <2>1
    <3> QED
      BY <1>1, <3>1
  <2>4. /\ p[k + 1] = 2 * p[k] /\ p[k + 2] = 2 * p[k + 1] /\ p[k + 3] = 2 * p[k + 2]
        /\ p[k + 4] = 2 * p[k + 3] /\ p[k + 5] = 2 * p[k + 4] /\ p[k + 6] = 2 * p[k + 5]
        /\ p[k + 7] = 2 * p[k + 6] /\ p[k + 8] = 2 * p[k + 7]
    BY <1>1, <2>1, <2>2
  <2>5. p[k + 8] = 256 * p[k]
    BY <2>3, <2>4
  <2>6. l[i - 1] \in Nat /\ l[i - 1] < 256 * p[k] /\ l[i] = l[i - 1] \div 256
    <3>1. l[i - 1] < p[w - 8 * (i - 1)]
      BY <1>6
    <3>2. l[i - 1] < 256 * p[k]
      BY <2>1, <2>5, <3>1
    <3>3. i - 1 \in 0 .. n
      BY <1>2, <2>1
    <3> HIDE DEF P
    <3> QED
      BY <1>4, <2>1, <3>2, <3>3
  <2>7. l[i] < p[k]
    BY <2>3, <2>6
  <2> QED
    BY <2>1, <2>7 DEF k
<1>7. n - 1 \in P
  <2>1. \A i \in 0 .. n - 1 : i \in P
    <3>1. n - 1 \in Nat
      BY <1>2
    <3> HIDE DEF P
    <3> QED
      BY <1>5, <1>6, <3>1, Upwards
  <2> QED
    BY <1>2, <2>1
<1>8. l[n - 1] < 256
  <2> DEFINE k == w - 8 * (n - 1)
  <2>1. k \in 1 .. w /\ k <= 8 /\ l[n - 1] < p[k]
    BY <1>2, <1>7
  <2> HIDE DEF k
  <2>2. \A i \in 1 .. w : p[i] = 2 * p[i - 1] /\ p[i - 1] \in Nat
    BY <1>1
  <2>3. ASSUME NEW j \in 1 .. 8, NEW b \in Nat, j \in 1 .. w, p[j - 1] = b
        PROVE  p[j] = 2 * b
    BY <2>2, <2>3
  <2>4. p[k] \in {2, 4, 8, 16, 32, 64, 128, 256}
    <3>1. 1 <= w => p[1] = 2
      BY <1>1, <2>3
    <3>2. 2 <= w => p[2] = 4
      BY <3>1, <2>3
    <3>3. 3 <= w => p[3] = 8
      BY <3>2, <2>3
    <3>4. 4 <= w => p[4] = 16
      BY <3>3, <2>3
    <3>5. 5 <= w => p[5] = 32
      BY <3>4, <2>3
    <3>6. 6 <= w => p[6] = 64
      BY <3>5, <2>3
    <3>7. 7 <= w => p[7] = 128
      BY <3>6, <2>3
    <3>8. 8 <= w => p[8] = 256
      BY <3>7, <2>3
    <3>9. k \in {1, 2, 3, 4, 5, 6, 7, 8} /\ k <= w
      BY <2>1
    <3> QED
      BY <3>1, <3>2, <3>3, <3>4, <3>5, <3>6, <3>7, <3>8, <3>9
  <2>5. n - 1 \in 0 .. n /\ l[n - 1] \in Nat
    BY <1>2, <1>4
  <2> QED
    BY <2>1, <2>4, <2>5
<1>9. l[n] = 0
  <2>1. n \in 1 .. n /\ l[n - 1] \in Nat
    BY <1>2, <1>4
  <2> QED
    BY <1>4, <1>8, <2>1
<1> QED
  BY <1>9 DEF l, n

\* A function that satisfies the equation of decodeNum's loop.
LEMMA SumIs ==
    ASSUME NEW b, NEW f, f = [i \in 0 .. Len(b) |-> f[i]],
           \A i \in 0 .. Len(b) : f[i] = IF i = 0 THEN 0 ELSE 256 * f[i - 1] + b[i]
    PROVE  f = [i \in 0 .. Len(b) |-> IF i = 0 THEN 0 ELSE 256 * f[i - 1] + b[i]]
BY Zenon

\* A number that fits its field comes back as it was.
LEMMA RoundTrip ==
    ASSUME NEW w \in Nat \ {0}, NEW x \in 0 .. TwoTo(w) - 1
    PROVE  decodeNum(encodeNum(x, w)) = x
<1> DEFINE n == bitwidthToBytes(w)
           l == Left(x, n)
           b == encodeNum(x, w)
           Body(f) == [i \in 0 .. Len(b) |-> IF i = 0 THEN 0 ELSE 256 * f[i - 1] + b[i]]
           f == [i \in 0 .. n |-> l[n - i]]
<1>1. x \in Nat /\ n \in Nat \ {0} /\ l[n] = 0
  BY BytesOf, NothingIsLeft, PowersAre
<1>2. l \in [0 .. n -> Nat] /\ l[0] = x /\ \A i \in 1 .. n : l[i] = l[i - 1] \div 256
  <2> HIDE DEF n
  <2>1. n \in Nat
    BY <1>1
  <2>2. IsLeft(l, x, n)
    BY <1>1, <2>1, LeftIs
  <2> HIDE DEF l
  <2> QED
    BY <2>2 DEF IsLeft
<1>3. b = [i \in 1 .. n |-> l[n - i] % 256]
  BY DEF encodeNum
<1>4. Len(b) = n
  BY <1>1, <1>3
<1> HIDE DEF n, l, b
<1>5. ASSUME NEW i \in 1 .. n PROVE l[n - i] = 256 * l[n - (i - 1)] + b[i]
  <2> DEFINE k == n - i
  <2>1. k \in 0 .. n /\ k + 1 \in 1 .. n /\ n - (i - 1) = k + 1 /\ (k + 1) - 1 = k
    BY <1>1
  <2> HIDE DEF k
  <2>2. l[k] \in Nat /\ l[k + 1] = l[k] \div 256
    BY <1>2, <2>1
  <2>3. b[i] = (l[k] % 256)
    BY <1>3 DEF k
  <2>4. l[k] = 256 * (l[k] \div 256) + (l[k] % 256)
    BY <2>2
  <2>5. l[k] = 256 * l[k + 1] + b[i]
    BY <2>2, <2>3, <2>4
  <2> QED
    BY <2>1, <2>5 DEF k
<1>6. DOMAIN f = 0 .. n /\ \A i \in 0 .. n : f[i] = l[n - i] /\ f[i] \in Nat
  BY <1>1, <1>2
<1>7. f[0] = 0 /\ f[n] = x
  BY <1>1, <1>2
<1>8. \A i \in 1 .. n : i - 1 \in 0 .. n /\ i \in 0 .. n /\ f[i] = 256 * f[i - 1] + b[i]
  BY <1>1, <1>5, <1>6
<1>9. f = Body(f)
  <2>1. f = [i \in 0 .. Len(b) |-> f[i]]
    BY <1>4
  <2> HIDE DEF f
  <2>2. \A i \in 0 .. Len(b) : f[i] = IF i = 0 THEN 0 ELSE 256 * f[i - 1] + b[i]
    <3>1. \A i \in 0 .. Len(b) : i = 0 \/ i \in 1 .. n
      BY <1>1, <1>4
    <3>2. \A i \in 1 .. n : i # 0
      BY <1>1
    <3> QED
      BY <1>7, <1>8, <3>1, <3>2
  <2>3. ASSUME NEW g, g = [i \in 0 .. Len(b) |-> g[i]],
               \A i \in 0 .. Len(b) : g[i] = IF i = 0 THEN 0 ELSE 256 * g[i - 1] + b[i]
        PROVE  g = Body(g)
    BY <2>3, SumIs
  <2> QED
    BY <2>1, <2>2, <2>3
<1> HIDE DEF f
<1> DEFINE p == CHOOSE g : g = Body(g)
<1>10. p = Body(p) /\ decodeNum(b) = p[n]
  <2>1. p = Body(p)
    <3> HIDE DEF Body
    <3> QED
      BY <1>9, Zenon
  <2>2. decodeNum(b) = p[Len(b)]
    BY DEF decodeNum
  <2> HIDE DEF p
  <2> QED
    BY <1>4, <2>1, <2>2
<1> HIDE DEF p
<1>11. p[0] = 0 /\ \A i \in 1 .. n : p[i] = 256 * p[i - 1] + b[i]
  BY <1>1, <1>4, <1>10
<1>12. \A i \in 0 .. n : i \in {m \in 0 .. n : p[m] = f[m]}
  <2>1. 0 \in {m \in 0 .. n : p[m] = f[m]}
    BY <1>1, <1>7, <1>11
  <2>2. ASSUME NEW i \in 1 .. n, i - 1 \in {m \in 0 .. n : p[m] = f[m]}
        PROVE  i \in {m \in 0 .. n : p[m] = f[m]}
    BY <1>8, <1>11, <2>2
  <2> HIDE DEF Body
  <2> QED
    BY <1>1, <2>1, <2>2, Upwards
<1>13. n \in 0 .. n
  BY <1>1
<1> QED
  BY <1>7, <1>10, <1>12, <1>13 DEF b

-----------------------------------------------------------------------------
(* An entry that is built says what the file says.                          *)

\* A value that fits is in the bytes it is encoded as.
LEMMA Encoded ==
    ASSUME NEW w \in Nat \ {0}, NEW x, CanEncode(x, w)
    PROVE  Says(encode(x, w), x)
<1> DEFINE y == Unwrapped(x)
<1>1. /\ y.type = "int" => y.n \in 0 .. TwoTo(w) - 1
      /\ encode(x, w) = IF y.type = "int" THEN encodeNum(y.n, w) ELSE y.parts
  BY DEF CanEncode, encode
<1>2. Says(encode(x, w), x) <=>
        IF y.type = "int" THEN decodeNum(encode(x, w)) = y.n ELSE encode(x, w) = y.parts
  BY DEF Says
<1> HIDE DEF y
<1>3. CASE y.type = "int"
  BY <1>1, <1>2, <1>3, RoundTrip
<1>4. CASE y.type # "int"
  BY <1>1, <1>2, <1>4
<1> QED
  BY <1>3, <1>4

\* The same for the operands of a match field.
LEMMA EncodedField ==
    ASSUME NEW f, f.bitwidth \in Nat \ {0}, NEW x, CanMatch(f, x)
    PROVE  SaysField(f, get_match_field_pb(f, x), x) /\ get_match_field_pb(f, x).field_id = f.id
<1> DEFINE m == get_match_field_pb(f, x)
<1>0. m.field_id = f.id
  BY DEF get_match_field_pb
<1>1. CASE f.match_type = "EXACT"
  <2>1. get_match_field_value(f, m) = encode(x, f.bitwidth) /\ CanEncode(x, f.bitwidth)
    BY <1>1 DEF get_match_field_value, get_match_field_pb, CanMatch
  <2> HIDE DEF m
  <2>2. Says(get_match_field_value(f, m), x)
    BY <2>1, Encoded
  <2> QED
    BY <1>0, <1>1, <2>2 DEF SaysField, m
<1>2. CASE f.match_type = "LPM"
  <2>1. /\ get_match_field_value(f, m) = <<encode(x.items[1], f.bitwidth), x.items[2].n>>
        /\ CanEncode(x.items[1], f.bitwidth)
    BY <1>2 DEF get_match_field_value, get_match_field_pb, CanMatch
  <2> HIDE DEF m
  <2>2. Says(encode(x.items[1], f.bitwidth), x.items[1])
    BY <2>1, Encoded
  <2> QED
    BY <1>0, <1>2, <2>1, <2>2 DEF SaysField, m
<1>3. CASE f.match_type \in {"TERNARY", "RANGE"}
  <2>1. /\ get_match_field_value(f, m) = [i \in 1 .. 2 |-> encode(x.items[i], f.bitwidth)]
        /\ \A i \in 1 .. 2 : CanEncode(x.items[i], f.bitwidth)
    BY <1>3 DEF get_match_field_value, get_match_field_pb, CanMatch
  <2> HIDE DEF m
  <2>2. \A i \in 1 .. 2 : Says(encode(x.items[i], f.bitwidth), x.items[i])
    BY <2>1, Encoded
  <2> QED
    BY <1>0, <1>3, <2>1, <2>2 DEF SaysField, m
<1> QED
  BY <1>1, <1>2, <1>3 DEF CanMatch

\* The first object with a name has that name.
LEMMA GetIs ==
    ASSUME NEW listed, Identified(listed), NEW name, Named(listed, name) # {}
    PROVE  get(listed, name) \in ToSet(listed)
           /\ name \in {get(listed, name).name, get(listed, name).alias}
<1> DEFINE S == {i \in DOMAIN listed : listed[i] \in Named(listed, name)}
<1>1. listed \in Seq(ToSet(listed))
  BY DEF Identified
<1>2. S \in SUBSET Nat /\ S # {}
  BY <1>1 DEF Named, ToSet
<1>3. get(listed, name) = listed[Min(S)]
  BY DEF get
<1> HIDE DEF S
<1>4. Min(S) \in S
  <2>1. \E x \in S : \A y \in S : x <= y
    BY <1>2, NatMinimum
  <2> QED
    BY <2>1 DEF Min
<1> QED
  BY <1>3, <1>4 DEF S, Named

\* Numbers tell objects apart, so the reverse look-up finds the name,
LEMMA NameIs ==
    ASSUME NEW listed, Identified(listed), NEW o \in ToSet(listed)
    PROVE  get_name(listed, o.id) = o.name
<1>1. (CHOOSE p \in ToSet(listed) : p.id = o.id) = o
  BY DEF Identified
<1> QED
  BY <1>1 DEF get_name

\* and names tell fields apart.
LEMMA OnlyIs ==
    ASSUME NEW fields, Identified(fields), NEW f \in ToSet(fields), NEW S,
           f \in S, S \subseteq ToSet(fields)
    PROVE  Only(S, f.name) = f
BY DEF Identified, Only

\* The parts of a compiled program's description.
LEMMA InfoParts ==
    ASSUME NEW info, IsP4Info(info)
    PROVE  /\ Identified(info.tables) /\ Identified(info.actions)
           /\ \A t, u \in ToSet(info.tables) : t.alias = u.name => t = u
           /\ \A a, b \in ToSet(info.actions) : a.alias = b.name => a = b
           /\ \A t \in ToSet(info.tables) : /\ Identified(t.match_fields)
                /\ \A f \in ToSet(t.match_fields) : f.bitwidth \in Nat \ {0}
           /\ \A a \in ToSet(info.actions) : /\ Identified(a.params)
                /\ \A q \in ToSet(a.params) : q.bitwidth \in Nat \ {0}
<1>1. /\ \A t \in ToSet(info.tables) : 
           t.match_fields \in {u.match_fields : u \in ToSet(info.tables)}
                                 \cup {a.params : a \in ToSet(info.actions)}
      /\ \A b \in ToSet(info.actions) : 
           b.params \in {u.match_fields : u \in ToSet(info.tables)}
                                 \cup {a.params : a \in ToSet(info.actions)}
  OBVIOUS
<1>2. \A listed \in {info.tables, info.actions} : /\ Identified(listed)
         /\ \A o, p \in ToSet(listed) : o.alias = p.name => o = p
  BY DEF IsP4Info
<1>3. \A fields \in {u.match_fields : u \in ToSet(info.tables)}
                                 \cup {a.params : a \in ToSet(info.actions)} :
         Identified(fields) /\ \A f \in ToSet(fields) : f.bitwidth \in Nat \ {0}
  BY Zenon DEF IsP4Info
<1> QED
  BY <1>1, <1>2, <1>3, Zenon

\* An entry that can be built reads as the rule it is built from: the fields of a
\* table are found by its full name, so an alias stands only where no field does.
LEMMA Built ==
    ASSUME NEW info, IsP4Info(info), NEW rule, CanBuildTableEntry(info, rule)
    PROVE  ReadsAs(info, buildTableEntry(info, rule), rule)
<1> DEFINE e == buildTableEntry(info, rule)
           t == get(info.tables, rule.table)
           a == get(info.actions, rule.action_name)
           F == get_match_field(info, rule.table)
           Q == get_action_param(info, rule.action_name)
           field(name) == Only(F, name)
           param(name) == Only(Q, name)
<1>1. /\ e.table = t.id /\ e.action = a.id
      /\ e.match = {get_match_field_pb(field(name), rule.match[name]) :
                        name \in DOMAIN rule.match}
      /\ e.params = {get_action_param_pb(param(name), rule.action_params[name]) :
                        name \in DOMAIN rule.action_params}
      /\ e.default = rule.default_action /\ e.priority = rule.priority
  BY DEF buildTableEntry, get_id
<1>2. /\ t \in ToSet(info.tables) /\ rule.table \in {t.name, t.alias}
      /\ a \in ToSet(info.actions) /\ rule.action_name \in {a.name, a.alias}
      /\ t.name = get_name(info.tables, t.id) /\ a.name = get_name(info.actions, a.id)
  BY InfoParts, GetIs, NameIs DEF CanBuildTableEntry
<1> HIDE DEF e, t, a
<1>3. F \subseteq ToSet(t.match_fields)
  <2>1. \A u \in ToSet(info.tables) : u.name = rule.table => u = t
    BY <1>2, InfoParts DEF Identified
  <2> QED
    BY <2>1 DEF get_match_field
<1>4. Q \subseteq ToSet(a.params)
  <2>1. \A u \in ToSet(info.actions) : u.name = rule.action_name => u = a
    BY <1>2, InfoParts DEF Identified
  <2> QED
    BY <2>1 DEF get_action_param
<1>5. \A name \in DOMAIN rule.match : \E f \in F : f.name = name /\ CanMatch(f, rule.match[name])
  BY DEF CanBuildTableEntry
<1>6. \A name \in DOMAIN rule.action_params :
        \E q \in Q : q.name = name /\ CanEncode(rule.action_params[name], q.bitwidth)
  BY DEF CanBuildTableEntry
<1> HIDE DEF F, Q
<1>7. ASSUME NEW name \in DOMAIN rule.match
      PROVE  /\ field(name) \in ToSet(t.match_fields) /\ field(name).name = name
             /\ LET m == get_match_field_pb(field(name), rule.match[name]) IN
                m.field_id = field(name).id /\ SaysField(field(name), m, rule.match[name])
  <2>1. PICK f \in F : f.name = name /\ CanMatch(f, rule.match[name])
    BY <1>5
  <2>2. f \in ToSet(t.match_fields) /\ Identified(t.match_fields) /\ f.bitwidth \in Nat \ {0}
    BY <1>2, <1>3, <2>1, InfoParts
  <2>3. field(name) = f
    BY <1>3, <2>1, <2>2, OnlyIs
  <2> QED
    BY <2>1, <2>2, <2>3, EncodedField
<1>8. ASSUME NEW name \in DOMAIN rule.action_params
      PROVE  /\ param(name) \in ToSet(a.params) /\ param(name).name = name
             /\ LET p == get_action_param_pb(param(name), rule.action_params[name]) IN
                p.param_id = param(name).id /\ Says(p.value, rule.action_params[name])
  <2>1. PICK q \in Q : q.name = name /\ CanEncode(rule.action_params[name], q.bitwidth)
    BY <1>6
  <2>2. q \in ToSet(a.params) /\ Identified(a.params) /\ q.bitwidth \in Nat \ {0}
    BY <1>2, <1>4, <2>1, InfoParts
  <2>3. param(name) = q
    BY <1>4, <2>1, <2>2, OnlyIs
  <2> QED
    BY <2>1, <2>2, <2>3, Encoded DEF get_action_param_pb
<1> HIDE DEF field, param
<1>9. \A n, m \in DOMAIN rule.match : field(n).id = field(m).id => n = m
  BY <1>2, <1>7, InfoParts DEF Identified
<1>10. \A n, m \in DOMAIN rule.action_params : param(n).id = param(m).id => n = m
  BY <1>2, <1>8, InfoParts DEF Identified
<1>11. /\ \A m \in e.match : \E f \in ToSet(t.match_fields) :
            /\ f.id = m.field_id /\ f.name \in DOMAIN rule.match
            /\ SaysField(f, m, rule.match[f.name])
       /\ \A name \in DOMAIN rule.match :
            \E m \in e.match, f \in ToSet(t.match_fields) :
                f.name = name /\ f.id = m.field_id
       /\ \A m, n \in e.match : m.field_id = n.field_id => m = n
  BY <1>1, <1>7, <1>9
<1>12. /\ \A p \in e.params : \E q \in ToSet(a.params) :
            /\ q.id = p.param_id /\ q.name \in DOMAIN rule.action_params
            /\ Says(p.value, rule.action_params[q.name])
       /\ \A name \in DOMAIN rule.action_params :
            \E p \in e.params, q \in ToSet(a.params) :
                q.name = name /\ q.id = p.param_id
       /\ \A p, q \in e.params : p.param_id = q.param_id => p = q
  BY <1>1, <1>8, <1>10
<1>13. \E u \in ToSet(info.tables) :
        /\ u.id = e.table /\ u.name = get_name(info.tables, e.table)
        /\ rule.table \in {u.name, u.alias}
        /\ \A m \in e.match : \E f \in ToSet(u.match_fields) :
            /\ f.id = m.field_id /\ f.name \in DOMAIN rule.match
            /\ SaysField(f, m, rule.match[f.name])
        /\ \A name \in DOMAIN rule.match :
            \E m \in e.match, f \in ToSet(u.match_fields) :
                f.name = name /\ f.id = m.field_id
        /\ \A m, n \in e.match : m.field_id = n.field_id => m = n
  <2>1. t.id = e.table /\ t.name = get_name(info.tables, e.table)
    BY <1>1, <1>2
  <2> QED
    BY <1>2, <1>11, <2>1, Zenon
<1>14. \E b \in ToSet(info.actions) :
        /\ b.id = e.action /\ b.name = get_name(info.actions, e.action)
        /\ rule.action_name \in {b.name, b.alias}
        /\ \A p \in e.params : \E q \in ToSet(b.params) :
            /\ q.id = p.param_id /\ q.name \in DOMAIN rule.action_params
            /\ Says(p.value, rule.action_params[q.name])
        /\ \A name \in DOMAIN rule.action_params :
            \E p \in e.params, q \in ToSet(b.params) :
                q.name = name /\ q.id = p.param_id
        /\ \A p, q \in e.params : p.param_id = q.param_id => p = q
  <2>1. a.id = e.action /\ a.name = get_name(info.actions, e.action)
    BY <1>1, <1>2
  <2> QED
    BY <1>2, <1>12, <2>1, Zenon
<1>15. ReadsAs(info, e, rule)
  BY <1>1, <1>13, <1>14, Zenon DEF ReadsAs
<1> QED
  BY <1>15 DEF e

-----------------------------------------------------------------------------
(* The configuration of a switch, one rule after the other.                 *)

IsSwitch(switch) ==
    switch = [device |-> switch.device, program |-> switch.program,
              entries |-> switch.entries, groups |-> switch.groups]

EntryOf(conf, i) == buildTableEntry(conf.info, Rules(conf)[i])

Replaces(new, old) == new.default /\ old.default /\ new.table = old.table

\* The first n rules are in the switch, and nothing else but lines of a CLI file.
Written(switch, conf, n) ==
    LET rules == Rules(conf)
        tables == {i \in 1 .. n : rules[i].kind = "table"}
        groups == (1 .. n) \ tables
    IN  /\ switch.program = conf.program
        /\ \A i \in tables :
            /\ CanBuildTableEntry(conf.info, rules[i])
            /\ \/ EntryOf(conf, i) \in switch.entries
               \/ \E j \in tables : j > i /\ Replaces(EntryOf(conf, j), EntryOf(conf, i))
        /\ \A e \in switch.entries \ CliEntries : \E i \in tables : e = EntryOf(conf, i)
        /\ \A i \in groups : GroupOf(rules[i]) \in switch.groups
        /\ \A g \in switch.groups : \E i \in groups : g = GroupOf(rules[i])

\* A new pipeline holds none of the rules.
LEMMA NoneWritten ==
    ASSUME NEW switch, NEW conf
    PROVE  LET new == SetForwardingPipelineConfig(switch, conf.program) IN
           IsSwitch(new) /\ Written(new, conf, 0)
<1> DEFINE new == SetForwardingPipelineConfig(switch, conf.program)
<1>1. IsSwitch(new) /\ new.program = conf.program /\ new.entries = {} /\ new.groups = {}
  BY DEF SetForwardingPipelineConfig, FreshSwitch, IsSwitch
<1> HIDE DEF new
<1>2. 1 .. 0 = {}
  OBVIOUS
<1>3. Written(new, conf, 0)
  BY <1>1, <1>2 DEF Written
<1> QED
  BY <1>1, <1>3 DEF new

\* A rule that the switch takes is added to those before it: it replaces none of them
\* but a default entry of its table.
LEMMA OneMoreRule ==
    ASSUME NEW switch, IsSwitch(switch), NEW conf, NEW n \in Nat, Written(switch, conf, n),
           NEW rule, rule = Rules(conf)[n + 1],
           rule.kind = "table" =>
             /\ CanBuildTableEntry(conf.info, rule)
             /\ ~RefusesEntry(switch, buildTableEntry(conf.info, rule))
    PROVE  LET new == IF rule.kind = "table"
                      THEN WriteTableEntry(switch, buildTableEntry(conf.info, rule))
                      ELSE WritePREEntry(switch, GroupOf(rule))
           IN  IsSwitch(new) /\ Written(new, conf, n + 1)
<1> DEFINE rules == Rules(conf)
           Tables(k) == {i \in 1 .. k : rules[i].kind = "table"}
           Groups(k) == (1 .. k) \ Tables(k)
<1>1. /\ switch.program = conf.program
      /\ \A i \in Tables(n) :
            /\ CanBuildTableEntry(conf.info, rules[i])
            /\ \/ EntryOf(conf, i) \in switch.entries
               \/ \E j \in Tables(n) : j > i /\ Replaces(EntryOf(conf, j), EntryOf(conf, i))
      /\ \A e \in switch.entries \ CliEntries : \E i \in Tables(n) : e = EntryOf(conf, i)
      /\ \A i \in Groups(n) : GroupOf(rules[i]) \in switch.groups
      /\ \A g \in switch.groups : \E i \in Groups(n) : g = GroupOf(rules[i])
  BY DEF Written
<1>2. \A i : i \in 1 .. n + 1 <=> i \in 1 .. n \/ i = n + 1
  OBVIOUS
<1>3. CASE rule.kind = "table"
  <2> DEFINE e == EntryOf(conf, n + 1)
             new == WriteTableEntry(switch, e)
  <2>1. /\ IsSwitch(new) /\ new.program = switch.program /\ new.groups = switch.groups
        /\ new.entries = (switch.entries \ SameKey(switch, e)) \cup {e}
    <3>1. \A entries : LET w == [switch EXCEPT !.entries = entries] IN
            /\ IsSwitch(w) /\ w.program = switch.program /\ w.groups = switch.groups
            /\ w.entries = entries
      BY DEF IsSwitch
    <3>2. new = [switch EXCEPT !.entries = (switch.entries \ SameKey(switch, e)) \cup {e}]
      BY DEF WriteTableEntry
    <3> HIDE DEF new, e
    <3> QED
      BY <3>1, <3>2
  <2>2. Tables(n + 1) = Tables(n) \cup {n + 1} /\ Groups(n + 1) = Groups(n)
    BY <1>2, <1>3
  <2>3. CanBuildTableEntry(conf.info, rules[n + 1]) /\ e = buildTableEntry(conf.info, rule)
    BY <1>3 DEF EntryOf
  <2>4. \A i \in Tables(n) : i < n + 1
    OBVIOUS
  <2>5. \A d \in SameKey(switch, e) : Replaces(e, d)
    BY <1>3, <2>3 DEF SameKey, EntryKey, RefusesEntry, UpdateType, Replaces
  <2> HIDE DEF new, e, rules, Tables, Groups
  <2>6. \A i \in Tables(n + 1) :
            /\ CanBuildTableEntry(conf.info, rules[i])
            /\ \/ EntryOf(conf, i) \in new.entries
               \/ \E j \in Tables(n + 1) : j > i /\ Replaces(EntryOf(conf, j), EntryOf(conf, i))
    <3> SUFFICES ASSUME NEW i \in Tables(n + 1)
                 PROVE  /\ CanBuildTableEntry(conf.info, rules[i])
                        /\ \/ EntryOf(conf, i) \in new.entries
                           \/ \E j \in Tables(n + 1) :
                                j > i /\ Replaces(EntryOf(conf, j), EntryOf(conf, i))
      OBVIOUS
    <3>1. CASE i = n + 1
      BY <2>1, <2>3, <3>1 DEF e
    <3>2. CASE i \in Tables(n)
      <4>1. CASE EntryOf(conf, i) \in SameKey(switch, e)
        <5>1. Replaces(EntryOf(conf, n + 1), EntryOf(conf, i)) /\ n + 1 > i
          BY <2>4, <2>5, <3>2, <4>1 DEF e
        <5> QED
          BY <1>1, <2>2, <3>2, <5>1
      <4>2. CASE EntryOf(conf, i) \notin SameKey(switch, e)
        BY <1>1, <2>1, <2>2, <3>2, <4>2
      <4> QED
        BY <4>1, <4>2
    <3> QED
      BY <2>2, <3>1, <3>2
  <2>7. \A d \in new.entries \ CliEntries : \E i \in Tables(n + 1) : d = EntryOf(conf, i)
    BY <1>1, <2>1, <2>2 DEF e
  <2>8. Written(new, conf, n + 1)
    BY <1>1, <2>1, <2>2, <2>6, <2>7 DEF Written, rules, Tables, Groups
  <2> QED
    BY <1>3, <2>1, <2>3, <2>8 DEF new
<1>4. CASE rule.kind # "table"
  <2> DEFINE new == WritePREEntry(switch, GroupOf(rule))
  <2>1. /\ IsSwitch(new) /\ new.program = switch.program /\ new.entries = switch.entries
        /\ new.groups = switch.groups \cup {GroupOf(rule)}
    BY DEF IsSwitch, WritePREEntry
  <2>2. Tables(n + 1) = Tables(n) /\ Groups(n + 1) = Groups(n) \cup {n + 1}
    BY <1>2, <1>4
  <2> HIDE DEF new, Tables, Groups
  <2>3. /\ \A i \in Groups(n + 1) : GroupOf(rules[i]) \in new.groups
        /\ \A g \in new.groups : \E i \in Groups(n + 1) : g = GroupOf(rules[i])
    BY <1>1, <2>1, <2>2
  <2>4. Written(new, conf, n + 1)
    BY <1>1, <2>1, <2>2, <2>3 DEF Written, Tables, Groups
  <2> QED
    BY <1>4, <2>1, <2>4 DEF new
<1> QED
  BY <1>3, <1>4

\* A CLI file adds its lines and nothing else.
\* Lines of a CLI file leave the rules as they are.
LEMMA LinesAdded ==
    ASSUME NEW switch, IsSwitch(switch), NEW lines, lines \subseteq CliEntries
    PROVE  LET new == [switch EXCEPT !.entries = @ \cup lines] IN
           /\ IsSwitch(new) /\ new.program = switch.program
           /\ \A conf, n : Written(switch, conf, n) => Written(new, conf, n)
<1> DEFINE new == [switch EXCEPT !.entries = @ \cup lines]
<1>1. /\ IsSwitch(new) /\ new.program = switch.program
      /\ new.entries = switch.entries \cup lines /\ new.groups = switch.groups
  BY DEF IsSwitch
<1> HIDE DEF new
<1>2. new.entries \ CliEntries \subseteq switch.entries \ CliEntries
  BY <1>1
<1>3. ASSUME NEW conf, NEW n, Written(switch, conf, n) PROVE Written(new, conf, n)
  BY <1>1, <1>2, <1>3 DEF Written
<1> QED
  BY <1>1, <1>3 DEF new

\* A group that is built is the one of the file.
LEMMA GroupReads ==
    ASSUME NEW rule, rule.kind \in {"multicast", "clone"}
    PROVE  ReadsAsGroup(GroupOf(rule), rule)
BY DEF ReadsAsGroup, GroupOf, buildMulticastGroupEntry, buildCloneSessionEntry

\* The rules are the table entries and, after them, the groups.
LEMMA RulesAre ==
    ASSUME NEW conf, IsConfiguration(conf)
    PROVE  LET t == Len(conf.table_entries)
               g == Len(conf.group_entries)
           IN  /\ t \in Nat /\ g \in Nat /\ Len(Rules(conf)) = t + g
               /\ DOMAIN conf.table_entries = 1 .. t /\ DOMAIN conf.group_entries = 1 .. g
               /\ DOMAIN Rules(conf) = 1 .. t + g
               /\ Rules(conf) \in Seq(ToSet(conf.table_entries) \cup ToSet(conf.group_entries))
               /\ \A i \in 1 .. t : /\ Rules(conf)[i] = conf.table_entries[i]
                                    /\ Rules(conf)[i].kind = "table"
               /\ \A i \in 1 .. g : /\ Rules(conf)[t + i] = conf.group_entries[i]
                                    /\ Rules(conf)[t + i].kind \in {"multicast", "clone"}
<1> DEFINE T == conf.table_entries
           G == conf.group_entries
           S == ToSet(T) \cup ToSet(G)
<1>1. /\ T \in Seq(S) /\ G \in Seq(S)
      /\ \A i \in DOMAIN T : T[i].kind = "table"
      /\ \A i \in DOMAIN G : G[i].kind \in {"multicast", "clone"}
  <2>1. T \in Seq(ToSet(T)) /\ G \in Seq(ToSet(G))
    BY DEF IsConfiguration
  <2>2. \A i \in DOMAIN T : T[i] \in ToSet(T)
    BY DEF ToSet
  <2>3. \A i \in DOMAIN G : G[i] \in ToSet(G)
    BY DEF ToSet
  <2> QED
    BY <2>1, <2>2, <2>3 DEF IsConfiguration
<1> HIDE DEF T, G, S
<1>2. /\ T \o G \in Seq(S) /\ Len(T \o G) = Len(T) + Len(G)
      /\ Len(T) \in Nat /\ Len(G) \in Nat
      /\ DOMAIN T = 1 .. Len(T) /\ DOMAIN G = 1 .. Len(G)
      /\ DOMAIN (T \o G) = 1 .. Len(T) + Len(G)
      /\ \A i \in 1 .. Len(T) : (T \o G)[i] = T[i]
  BY <1>1
<1>3. \A i \in 1 .. Len(G) : (T \o G)[Len(T) + i] = G[i]
  BY <1>1
<1>4. Rules(conf) = T \o G
  BY DEF Rules, T, G
<1>5. /\ DOMAIN Rules(conf) = 1 .. Len(T) + Len(G) /\ Rules(conf) \in Seq(S)
      /\ Len(Rules(conf)) = Len(T) + Len(G)
  BY <1>2, <1>4
<1>6. ASSUME NEW i \in 1 .. Len(T)
      PROVE  Rules(conf)[i] = T[i] /\ Rules(conf)[i].kind = "table"
  <2>1. Rules(conf)[i] = T[i] /\ i \in DOMAIN T
    BY <1>2, <1>4
  <2> QED
    BY <1>1, <2>1
<1>7. ASSUME NEW i \in 1 .. Len(G)
      PROVE  /\ Rules(conf)[Len(T) + i] = G[i]
             /\ Rules(conf)[Len(T) + i].kind \in {"multicast", "clone"}
  <2>1. Rules(conf)[Len(T) + i] = G[i] /\ i \in DOMAIN G
    BY <1>2, <1>3, <1>4
  <2> QED
    BY <1>1, <2>1
<1> QED
  BY <1>2, <1>5, <1>6, <1>7 DEF T, G, S

\* A switch with all the rules is loaded.
\* When the last rule is written, the configuration is loaded.
LEMMA AllWritten ==
    ASSUME NEW conf, IsConfiguration(conf), NEW switch,
           Written(switch, conf, Len(Rules(conf)))
    PROVE  Loaded(switch, conf)
<1> DEFINE t == Len(conf.table_entries)
           g == Len(conf.group_entries)
           n == Len(Rules(conf))
           rules == Rules(conf)
           tables == {i \in 1 .. n : rules[i].kind = "table"}
           groups == (1 .. n) \ tables
<1>1. /\ t \in Nat /\ g \in Nat /\ n = t + g
      /\ DOMAIN conf.table_entries = 1 .. t /\ DOMAIN conf.group_entries = 1 .. g
      /\ \A i \in 1 .. t : rules[i] = conf.table_entries[i] /\ rules[i].kind = "table"
      /\ \A i \in 1 .. g : /\ rules[t + i] = conf.group_entries[i]
                           /\ rules[t + i].kind \in {"multicast", "clone"}
  BY RulesAre
<1>2. /\ switch.program = conf.program
      /\ \A i \in tables :
            /\ CanBuildTableEntry(conf.info, rules[i])
            /\ \/ EntryOf(conf, i) \in switch.entries
               \/ \E j \in tables : j > i /\ Replaces(EntryOf(conf, j), EntryOf(conf, i))
      /\ \A e \in switch.entries \ CliEntries : \E i \in tables : e = EntryOf(conf, i)
      /\ \A i \in groups : GroupOf(rules[i]) \in switch.groups
      /\ \A h \in switch.groups : \E i \in groups : h = GroupOf(rules[i])
  BY DEF Written
<1> HIDE DEF n, t, g
<1>3. \A i \in 1 .. n : i \in 1 .. t \/ \E k \in 1 .. g : i = t + k
  <2> SUFFICES ASSUME NEW i \in 1 .. n, i \notin 1 .. t PROVE \E k \in 1 .. g : i = t + k
    OBVIOUS
  <2>1. i - t \in 1 .. g /\ i = t + (i - t)
    BY <1>1
  <2> QED
    BY <2>1
<1>4. tables = 1 .. t
  <2>1. \A k \in 1 .. g : rules[t + k].kind # "table"
    BY <1>1
  <2>2. \A i \in 1 .. t : i \in 1 .. n
    BY <1>1
  <2> HIDE DEF rules
  <2>3. ASSUME NEW i \in tables PROVE i \in 1 .. t
    BY <1>3, <2>1
  <2>4. ASSUME NEW i \in 1 .. t PROVE i \in tables
    BY <1>1, <2>2
  <2> HIDE DEF tables
  <2> QED
    BY <2>3, <2>4
<1>5. groups = {t + k : k \in 1 .. g}
  <2>1. \A k \in 1 .. g : t + k \in 1 .. n /\ t + k \notin 1 .. t
    BY <1>1
  <2> QED
    BY <1>3, <1>4, <2>1
<1> HIDE DEF tables, groups, rules
<1>6. ASSUME NEW i \in 1 .. t
      PROVE  /\ EntryOf(conf, i) = buildTableEntry(conf.info, conf.table_entries[i])
             /\ ReadsAs(conf.info, EntryOf(conf, i), conf.table_entries[i])
             /\ EntryOf(conf, i).default = conf.table_entries[i].default_action
             /\ EntryOf(conf, i).table = get_id(conf.info.tables, conf.table_entries[i].table)
  <2>1. EntryOf(conf, i) = buildTableEntry(conf.info, conf.table_entries[i])
    BY <1>1 DEF EntryOf, rules
  <2>2. CanBuildTableEntry(conf.info, conf.table_entries[i]) /\ IsP4Info(conf.info)
    BY <1>1, <1>2, <1>4 DEF IsConfiguration
  <2>3. ReadsAs(conf.info, EntryOf(conf, i), conf.table_entries[i])
    BY <2>1, <2>2, Built
  <2> QED
    BY <2>1, <2>3 DEF buildTableEntry
<1>7. ASSUME NEW i \in DOMAIN conf.table_entries
      PROVE  \/ Superseded(conf, i)
             \/ \E e \in switch.entries : ReadsAs(conf.info, e, conf.table_entries[i])
  <2>1. CASE EntryOf(conf, i) \in switch.entries
    BY <1>1, <1>6, <2>1
  <2>2. CASE \E j \in tables : j > i /\ Replaces(EntryOf(conf, j), EntryOf(conf, i))
    <3>1. PICK j \in 1 .. t : j > i /\ Replaces(EntryOf(conf, j), EntryOf(conf, i))
      BY <1>4, <2>2
    <3>2. i \in 1 .. t
      BY <1>1
    <3> QED
      BY <1>1, <1>6, <3>1, <3>2 DEF Replaces, Superseded
  <2> QED
    BY <1>1, <1>2, <1>4, <2>1, <2>2
<1>8. \A e \in switch.entries \ CliEntries :
        \E rule \in ToSet(conf.table_entries) : ReadsAs(conf.info, e, rule)
  <2>1. \A i \in 1 .. t : conf.table_entries[i] \in ToSet(conf.table_entries)
    BY <1>1 DEF ToSet
  <2> QED
    BY <1>2, <1>4, <1>6, <2>1
<1>9. ASSUME NEW k \in 1 .. g
      PROVE  /\ GroupOf(rules[t + k]) \in switch.groups
             /\ ReadsAsGroup(GroupOf(rules[t + k]), conf.group_entries[k])
             /\ conf.group_entries[k] \in ToSet(conf.group_entries)
  <2>1. t + k \in groups /\ k \in DOMAIN conf.group_entries
    BY <1>1, <1>5
  <2>2. /\ rules[t + k] = conf.group_entries[k]
        /\ conf.group_entries[k].kind \in {"multicast", "clone"}
    BY <1>1
  <2> QED
    BY <1>2, <2>1, <2>2, GroupReads DEF ToSet
<1>10. ASSUME NEW rule \in ToSet(conf.group_entries)
       PROVE  \E h \in switch.groups : ReadsAsGroup(h, rule)
  <2>1. PICK k \in 1 .. g : rule = conf.group_entries[k]
    BY <1>1 DEF ToSet
  <2>2. GroupOf(rules[t + k]) \in switch.groups /\ ReadsAsGroup(GroupOf(rules[t + k]), rule)
    BY <1>9, <2>1
  <2> QED
    BY <2>2
<1>11. \A h \in switch.groups :
         \E rule \in ToSet(conf.group_entries) : ReadsAsGroup(h, rule)
  BY <1>2, <1>5, <1>9
<1> QED
  BY <1>2, <1>7, <1>8, <1>10, <1>11 DEF Loaded

-----------------------------------------------------------------------------
(* What is in every switch while the switches are programmed.               *)

\* Every process has a switch, every run its exercise, and what is left for the CLI
\* comes from files.
SwitchTable ==
    /\ pc # "off" => exercise \in Exercises
    /\ \A job \in cliJobs : job.entries \subseteq CliEntries
    /\ \A id \in Alive : IsSwitch(procs[id].switch)

ConfOf(s) == exercise.runtime_json[s]

Configured(s) == ConfOf(s) # NoConf /\ check_switch_conf(ConfOf(s))

\* What the switch s of this run was started with,
AsStarted(s) == <<run, s>> \in Alive => procs[<<run, s>>].switch.program = ProgramOf(s)

\* the first n rules of its configuration,
Holds(s, n) == <<run, s>> \in Alive => Written(procs[<<run, s>>].switch, ConfOf(s), n)

\* and what it has when program_switches is done with it.
Done(s) == IF Configured(s) THEN Holds(s, Len(Rules(ConfOf(s)))) ELSE AsStarted(s)

\* What is left of a list after its first n elements.
Rest(q, n) == SubSeq(q, n + 1, Len(q))

InProgress(s) ==
    /\ Configured(s)
    /\ pc = "pipeline" => connection.left = Rules(ConfOf(s))
    /\ pc = "rules" => \E n \in 0 .. Len(Rules(ConfOf(s))) :
                         connection.left = Rest(Rules(ConfOf(s)), n) /\ Holds(s, n)

Programming == {"programming", "pipeline", "rules", "cli"}

Programs ==
    pc # "off" /\ Undisturbed /\ exercise.exe = "grpc" =>
        /\ pc \in {"creating", "starting", "polling", "hosts"} =>
             \A s \in Switches : AsStarted(s)
        /\ pc \in Programming => \A s \in Switches :
             IF s \in ToSet(todo)
             THEN (pc = "rules" /\ s = Head(todo)) \/ AsStarted(s)
             ELSE Done(s)
        /\ pc \in {"pipeline", "rules"} => InProgress(Head(todo))
        /\ pc = "cli" => todo = <<>>

LoadInv == SwitchTable /\ Programs

\* The rest gets shorter from its front.
LEMMA RestIs ==
    ASSUME NEW S, NEW q \in Seq(S), NEW n \in 0 .. Len(q)
    PROVE  /\ Rest(q, n) = <<>> => n = Len(q)
           /\ Rest(q, n) # <<>> => /\ n + 1 \in 0 .. Len(q)
                                   /\ Head(Rest(q, n)) = q[n + 1]
                                   /\ Tail(Rest(q, n)) = Rest(q, n + 1)
           /\ Rest(q, 0) = q
<1>1. Len(q) \in Nat /\ q = [i \in 1 .. Len(q) |-> q[i]]
  OBVIOUS
<1>2. /\ Rest(q, n) \in Seq(S) /\ Len(Rest(q, n)) = Len(q) - n
      /\ \A i \in 1 .. Len(q) - n : Rest(q, n)[i] = q[n + i]
  BY DEF Rest
<1>3. Rest(q, 0) = q
  <2>1. Rest(q, 0) = [i \in 1 .. Len(q) |-> q[i]]
    BY <1>1 DEF Rest
  <2> QED
    BY <1>1, <2>1
<1>4. ASSUME Rest(q, n) # <<>>
      PROVE  /\ n + 1 \in 0 .. Len(q) /\ Head(Rest(q, n)) = q[n + 1]
             /\ Tail(Rest(q, n)) = Rest(q, n + 1)
  <2>1. Len(q) - n \in Nat \ {0}
    BY <1>1, <1>2, <1>4
  <2>2. n + 1 \in 0 .. Len(q) /\ 1 \in 1 .. Len(q) - n
    BY <1>1, <2>1
  <2>3. Head(Rest(q, n)) = q[n + 1]
    BY <1>2, <2>2
  <2>4. /\ Rest(q, n + 1) \in Seq(S) /\ Len(Rest(q, n + 1)) = Len(q) - n - 1
        /\ \A i \in 1 .. Len(q) - n - 1 : Rest(q, n + 1)[i] = q[(n + 1) + i]
    <3> DEFINE m == n + 1
    <3>1. m \in 0 .. Len(q) /\ Len(q) - m = Len(q) - n - 1
      BY <1>1, <2>2
    <3> HIDE DEF m
    <3>2. /\ Rest(q, m) \in Seq(S) /\ Len(Rest(q, m)) = Len(q) - m
          /\ \A i \in 1 .. Len(q) - m : Rest(q, m)[i] = q[m + i]
      BY <3>1 DEF Rest
    <3> QED
      BY <3>1, <3>2 DEF m
  <2>5. /\ Tail(Rest(q, n)) \in Seq(S) /\ Len(Tail(Rest(q, n))) = Len(q) - n - 1
        /\ \A i \in 1 .. Len(q) - n - 1 : Tail(Rest(q, n))[i] = Rest(q, n)[i + 1]
    BY <1>2, <1>4
  <2>6. \A i \in 1 .. Len(q) - n - 1 : /\ i + 1 \in 1 .. Len(q) - n
                                       /\ n + (i + 1) = (n + 1) + i
    BY <1>1
  <2>7. \A i \in 1 .. Len(q) - n - 1 : Tail(Rest(q, n))[i] = Rest(q, n + 1)[i]
    BY <1>2, <2>4, <2>5, <2>6
  <2>8. ASSUME NEW a \in Seq(S), NEW b \in Seq(S), Len(a) = Len(b),
               \A i \in 1 .. Len(a) : a[i] = b[i]
        PROVE  a = b
    <3>1. a = [i \in 1 .. Len(a) |-> a[i]] /\ b = [i \in 1 .. Len(a) |-> b[i]]
      BY <2>8
    <3> QED
      BY <2>8, <3>1, Zenon
  <2> DEFINE tail == Tail(Rest(q, n))
  <2>9. tail = Rest(q, n + 1)
    <3> HIDE DEF tail
    <3> QED
      BY <2>4, <2>5, <2>7, <2>8 DEF tail
  <2> QED
    BY <2>2, <2>3, <2>9
<1> QED
  BY <1>1, <1>2, <1>3, <1>4

-----------------------------------------------------------------------------
(* What the steps do to what was loaded.                                    *)

\* A switch keeps its program and the rules it was given.
Keeps(id) ==
    /\ id \in Alive /\ IsSwitch(procs'[id].switch)
    /\ procs'[id].switch.program = procs[id].switch.program
    /\ \A conf, n : Written(procs[id].switch, conf, n) => Written(procs'[id].switch, conf, n)

LEMMA KeptSwitch ==
    ASSUME SwitchTable, NEW id \in Alive, procs'[id].switch = procs[id].switch
    PROVE  Keeps(id)
BY DEF Keeps, SwitchTable

\* Then what was loaded stays loaded.
LEMMA GoOn ==
    ASSUME UNCHANGED <<run, exercise>>, NEW s,
           <<run, s>> \in Alive' => Keeps(<<run, s>>)
    PROVE  /\ ConfOf(s)' = ConfOf(s) /\ Configured(s)' = Configured(s)
           /\ AsStarted(s) => AsStarted(s)'
           /\ \A n : Holds(s, n) => Holds(s, n)'
           /\ Done(s) => Done(s)'
<1>1. ConfOf(s)' = ConfOf(s) /\ ProgramOf(s)' = ProgramOf(s)
  BY DEF ConfOf, ProgramOf
<1>2. Configured(s)' = Configured(s)
  BY <1>1 DEF Configured
<1>3. AsStarted(s) => AsStarted(s)'
  BY <1>1 DEF AsStarted, Keeps
<1>4. \A n : Holds(s, n) => Holds(s, n)'
  BY <1>1 DEF Holds, Keeps
<1>5. Done(s) => Done(s)'
  BY <1>1, <1>2, <1>3, <1>4 DEF Done
<1> QED
  BY <1>1, <1>2, <1>3, <1>4, <1>5

\* What is written leaves a switch a switch.
LEMMA WrittenIsSwitch ==
    ASSUME NEW switch, IsSwitch(switch)
    PROVE  /\ \A e : IsSwitch(WriteTableEntry(switch, e))
           /\ \A g : IsSwitch(WritePREEntry(switch, g))
<1>1. \A entries : IsSwitch([switch EXCEPT !.entries = entries])
  BY DEF IsSwitch
<1>2. \A groups : IsSwitch([switch EXCEPT !.groups = groups])
  BY DEF IsSwitch
<1> QED
  BY <1>1, <1>2 DEF WriteTableEntry, WritePREEntry

\* The steps that give a switch what it did not have.
LEMMA Started ==
    ASSUME Loops, Records, SwitchTable, StartSwitch
    PROVE  LET i == <<run, Head(todo)>> IN
           /\ \A id \in Alive' : id = i \/ Keeps(id)
           /\ IsSwitch(procs'[i].switch)
           /\ procs'[i].switch.program = ProgramOf(Head(todo))
<1> DEFINE i == <<run, Head(todo)>>
           sw == FreshSwitch(objects[Head(todo)].device_id, ProgramOf(Head(todo)))
           new == [phase |-> "starting", port |-> objects[Head(todo)].port,
                   thrift_port |-> objects[Head(todo)].thrift_port, switch |-> sw]
<1>1. i \in Ids /\ Alive' = Alive \cup {i}
  BY StartedProcess
<1>2. IsSwitch(sw) /\ sw.program = ProgramOf(Head(todo))
  BY DEF FreshSwitch, IsSwitch
<1>3. procs' = [procs EXCEPT ![i] = new]
  BY DEF StartSwitch
<1> HIDE DEF i, sw
<1>4. procs'[i].switch = sw /\ \A id \in Ids : id # i => procs'[id] = procs[id]
  BY <1>1, <1>3 DEF Records
<1>5. \A id \in Alive' : id = i \/ Keeps(id)
  BY <1>1, <1>4, KeptSwitch DEF Alive
<1> QED
  BY <1>2, <1>4, <1>5 DEF i

LEMMA Given ==
    ASSUME Records, SwitchTable, SetPipeline \/ InsertRule
    PROVE  LET i == connection.server IN
           /\ i \in Alive /\ \A id \in Alive' : id = i \/ Keeps(id)
           /\ IsSwitch(procs'[i].switch)
           /\ procs'[i].switch = IF pc = "pipeline"
                                 THEN SetForwardingPipelineConfig(procs[i].switch, Conf.program)
                                 ELSE Inserted(procs[i].switch, Rule)
<1> DEFINE i == connection.server
           sw == IF pc = "pipeline"
                 THEN SetForwardingPipelineConfig(procs[i].switch, Conf.program)
                 ELSE Inserted(procs[i].switch, Rule)
<1>1. i \in Alive /\ i \in Ids /\ Alive' = Alive
  BY ProgrammingIsQuiet DEF SetPipeline, InsertRule, Answers, Alive
<1>2. procs' = [procs EXCEPT ![i] = [procs[i] EXCEPT !.switch = sw]]
  BY <1>1 DEF SetPipeline, InsertRule
<1>3. IsSwitch(procs[i].switch)
  BY <1>1 DEF SwitchTable
<1>4. IsSwitch(sw)
  BY <1>3, WrittenIsSwitch
     DEF SetForwardingPipelineConfig, FreshSwitch, IsSwitch, Inserted
<1> HIDE DEF i, sw
<1>5. /\ procs[i] = [phase |-> procs[i].phase, port |-> procs[i].port,
                     thrift_port |-> procs[i].thrift_port, switch |-> procs[i].switch]
      /\ procs = [id \in Ids |-> procs[id]]
  BY <1>1 DEF Records
<1>6. [procs[i] EXCEPT !.switch = sw].switch = sw
  BY <1>5
<1>7. procs'[i].switch = sw /\ \A id \in Ids : id # i => procs'[id] = procs[id]
  BY <1>1, <1>2, <1>5, <1>6
<1>8. \A id \in Alive' : id = i \/ Keeps(id)
  BY <1>1, <1>7, KeptSwitch DEF Alive
<1> QED
  BY <1>1, <1>4, <1>7, <1>8 DEF i, sw

\* The others leave every switch that is still there what it has.
LEMMA OthersKeep ==
    ASSUME Loops, Records, SwitchTable, Next \/ UNCHANGED vars,
           ~StartSwitch, ~SetPipeline, ~InsertRule
    PROVE  \A id \in Alive' : Keeps(id)
<1>1. CASE procs' = procs
  BY <1>1, KeptSwitch DEF Alive
<1>2. ASSUME NEW i \in Ids, procs' = [procs EXCEPT ![i] = NoProcess]
      PROVE  \A id \in Alive' : Keeps(id)
  <2>1. Alive' = Alive \ {i} /\ \A id \in Ids : id # i => procs'[id] = procs[id]
    BY <1>2, Ended DEF Records
  <2> QED
    BY <2>1, KeptSwitch DEF Alive
<1>3. CASE StopSwitch
  <2>1. <<run, Head(todo)>> \in Ids
    BY <1>3, TailOfDistinct DEF StopSwitch, Loops, Ids
  <2> QED
    BY <1>2, <1>3, <2>1 DEF StopSwitch
<1>4. ASSUME NEW i \in Ids, ProcessListens(i) PROVE \A id \in Alive' : Keeps(id)
  <2>1. CASE procs' = [procs EXCEPT ![i] = NoProcess]
    BY <1>2, <2>1
  <2>2. CASE procs' = [procs EXCEPT ![i] = [procs[i] EXCEPT !.phase = "listening"]]
    <3>1. i \in Alive /\ Alive' \subseteq Alive
      BY <1>4, Bound DEF ProcessListens, Quiet
    <3>2. procs[i] = [phase |-> procs[i].phase, port |-> procs[i].port,
                      thrift_port |-> procs[i].thrift_port, switch |-> procs[i].switch]
      BY <3>1 DEF Records
    <3>3. [procs[i] EXCEPT !.phase = "listening"].switch = procs[i].switch
      BY <3>2
    <3>4. \A id \in Ids : procs'[id].switch = procs[id].switch
      BY <2>2, <3>3 DEF Records
    <3> QED
      BY <3>1, <3>4, KeptSwitch DEF Alive
  <2> QED
    BY <1>4, <2>1, <2>2 DEF ProcessListens
<1>5. ASSUME NEW job \in cliJobs, CliJobRuns(job) PROVE \A id \in Alive' : Keeps(id)
  <2>1. /\ Alive' = Alive /\ job.entries \subseteq CliEntries
        /\ procs' = [id \in Ids |->
             IF id \in ServersAt(job.thrift_port)
             THEN [procs[id] EXCEPT !.switch.entries = @ \cup job.entries]
             ELSE procs[id]]
    BY <1>5, ProgrammingIsQuiet DEF CliJobRuns, SwitchTable
  <2> SUFFICES ASSUME NEW id \in Alive PROVE Keeps(id)
    BY <2>1
  <2>2. IsSwitch(procs[id].switch) /\ id \in Ids
    BY DEF SwitchTable, Alive
  <2>3. CASE id \in ServersAt(job.thrift_port)
    <3> DEFINE new == [procs[id].switch EXCEPT !.entries = @ \cup job.entries]
    <3>1. procs[id] = [phase |-> procs[id].phase, port |-> procs[id].port,
                       thrift_port |-> procs[id].thrift_port, switch |-> procs[id].switch]
      BY DEF Records
    <3>2. procs'[id] = [procs[id] EXCEPT !.switch = new]
      BY <2>1, <2>2, <2>3
    <3>3. /\ IsSwitch(new) /\ new.program = procs[id].switch.program
          /\ \A conf, n : Written(procs[id].switch, conf, n) => Written(new, conf, n)
      BY <2>1, <2>2, LinesAdded
    <3> HIDE DEF new
    <3>4. procs'[id].switch = new
      BY <3>1, <3>2
    <3> QED
      BY <3>3, <3>4 DEF Keeps
  <2>4. CASE id \notin ServersAt(job.thrift_port)
    BY <2>1, <2>2, <2>4, KeptSwitch
  <2> QED
    BY <2>3, <2>4
<1>6. CASE \/ \E e \in Exercises : StartRunner(e)
           \/ RefuseSwitch \/ SwitchNotUp \/ ProgramFails \/ Interrupt
           \/ CreateSwitch \/ NetworkCreated \/ SwitchUp \/ NetworkStarted \/ ProgramHosts
           \/ LeaveSwitch \/ ConnectToSwitch \/ SwitchProgrammed \/ do_net_cli
           \/ LeaveCli \/ NetworkStopped \/ UNCHANGED vars
           \/ \E p \in {50051, 9090} : ForeignListens(p)
  <2>1. CASE RefuseSwitch \/ SwitchNotUp \/ ProgramFails \/ Interrupt
    <3>1. procs' = procs
      BY <2>1, Early DEF EndEarly, worldVars
    <3> QED
      BY <1>1, <3>1
  <2>2. CASE \/ \E e \in Exercises : StartRunner(e)
             \/ CreateSwitch \/ NetworkCreated \/ SwitchUp \/ NetworkStarted \/ ProgramHosts
             \/ LeaveSwitch \/ ConnectToSwitch \/ SwitchProgrammed \/ do_net_cli
             \/ LeaveCli \/ NetworkStopped \/ UNCHANGED vars
             \/ \E p \in {50051, 9090} : ForeignListens(p)
    <3>1. procs' = procs
      BY <2>2 DEF StartRunner, CreateSwitch, NetworkCreated, SwitchUp, NetworkStarted,
         ProgramHosts, LeaveSwitch, ConnectToSwitch, SwitchProgrammed, do_net_cli, LeaveCli,
         NetworkStopped, ForeignListens, vars, worldVars
    <3> QED
      BY <1>1, <3>1
  <2> QED
    BY <1>6, <2>1, <2>2
<1>7. ASSUME NEW i \in Ids, ProcessCrashes(i) PROVE \A id \in Alive' : Keeps(id)
  BY <1>2, <1>7 DEF ProcessCrashes
<1> QED
  BY <1>3, <1>4, <1>5, <1>6, <1>7 DEF Next, RunnerStep

\* Every step leaves every process a switch and every CLI line one of a file.
LEMMA StepSwitchTable ==
    ASSUME Loops, Records, SwitchTable, Next \/ UNCHANGED vars
    PROVE  SwitchTable'
<1>1. \A id \in Alive' : IsSwitch(procs'[id].switch)
  <2>1. CASE StartSwitch
    BY <2>1, Started DEF Keeps
  <2>2. CASE SetPipeline \/ InsertRule
    BY <2>2, Given DEF Keeps
  <2> QED
    BY <2>1, <2>2, OthersKeep DEF Keeps
<1>2. pc' # "off" => exercise' \in Exercises
  <2>1. CASE \E e \in Exercises : StartRunner(e)
    BY <2>1 DEF StartRunner
  <2>2. CASE RefuseSwitch \/ SwitchNotUp \/ ProgramFails \/ Interrupt
    BY <2>2, Early DEF EndEarly
  <2>3. CASE CreateSwitch \/ StartSwitch \/ NetworkStopped
    BY <2>3 DEF CreateSwitch, StartSwitch, NetworkStopped, SwitchTable
  <2>4. CASE Calm
    <3>1. exercise' = exercise
      BY <2>4, CalmSteps
    <3>2. pc' # "off" => pc # "off"
      BY <2>4 DEF Calm, NetworkCreated, SwitchUp, NetworkStarted, ProgramHosts, LeaveSwitch,
         ConnectToSwitch, SetPipeline, InsertRule, SwitchProgrammed, do_net_cli, LeaveCli,
         StopSwitch, CliJobRuns, vars, runnerVars
    <3> QED
      BY <3>1, <3>2 DEF SwitchTable
  <2>5. CASE \/ \E id \in Ids : ProcessListens(id) \/ ProcessCrashes(id)
             \/ \E p \in {50051, 9090} : ForeignListens(p)
    BY <2>5, World DEF runnerVars, SwitchTable
  <2> QED
    BY <2>1, <2>2, <2>3, <2>4, <2>5, StepKinds
<1>3. \A job \in cliJobs' : job.entries \subseteq CliEntries
  <2>1. CASE LeaveSwitch \/ ConnectToSwitch
    <3>1. pc # "off" /\ todo # <<>> /\ cliJobs' = cliJobs \cup CliJobs(Head(todo))
      BY <2>1 DEF LeaveSwitch, ConnectToSwitch
    <3>2. exercise \in Exercises /\ Head(todo) \in Switches
      BY <3>1, TailOfDistinct DEF SwitchTable, Loops
    <3>3. exercise.cli_input[Head(todo)] \subseteq CliEntries
      BY <3>2 DEF CliEntries
    <3>4. \A job \in CliJobs(Head(todo)) : job.entries \subseteq CliEntries
      BY <3>3 DEF CliJobs
    <3> QED
      BY <3>1, <3>4 DEF SwitchTable
  <2>2. CASE ~LeaveSwitch /\ ~ConnectToSwitch
    <3>1. CASE RefuseSwitch \/ SwitchNotUp \/ ProgramFails \/ Interrupt
      <4>1. cliJobs' = cliJobs
        BY <3>1, Early DEF EndEarly, worldVars
      <4> QED
        BY <4>1 DEF SwitchTable
    <3>2. CASE ~(RefuseSwitch \/ SwitchNotUp \/ ProgramFails \/ Interrupt)
      <4>1. cliJobs' \subseteq cliJobs
        BY <2>2, <3>2 DEF Next, RunnerStep, StartRunner, CreateSwitch, NetworkCreated,
           StartSwitch, SwitchUp, NetworkStarted, ProgramHosts, SetPipeline, InsertRule,
           SwitchProgrammed, do_net_cli, LeaveCli, StopSwitch, NetworkStopped, ProcessListens,
           ProcessCrashes, CliJobRuns, ForeignListens, vars, worldVars
      <4> QED
        BY <4>1 DEF SwitchTable
    <3> QED
      BY <3>1, <3>2
  <2> QED
    BY <2>1, <2>2
<1> QED
  BY <1>1, <1>2, <1>3 DEF SwitchTable

\* Who is undisturbed has been so all along.
LEMMA StayedUndisturbed ==
    ASSUME Loops, Records, ProcessTable, Next \/ UNCHANGED vars, Undisturbed'
    PROVE  Undisturbed
<1>1. disturbances \in Nat /\ disturbances' = 0 /\ ~late'
  BY DEF ProcessTable, Undisturbed
<1>2. CASE \E e \in Exercises : StartRunner(e)
  BY <1>1, <1>2 DEF StartRunner, Undisturbed, worldVars, historyVars
<1>3. CASE RefuseSwitch \/ SwitchNotUp \/ ProgramFails \/ Interrupt
  BY <1>1, <1>3, Early DEF EndEarly, Undisturbed, worldVars
<1>4. CASE CreateSwitch \/ StartSwitch \/ NetworkStopped
  BY <1>1, <1>4 DEF CreateSwitch, StartSwitch, NetworkStopped, Undisturbed, worldVars,
     historyVars
<1>5. CASE Calm
  BY <1>1, <1>5, CalmSteps DEF Undisturbed
<1>6. CASE \/ \E id \in Ids : ProcessListens(id) \/ ProcessCrashes(id)
           \/ \E p \in {50051, 9090} : ForeignListens(p)
  BY <1>1, <1>6 DEF ProcessListens, ProcessCrashes, ForeignListens, historyVars, Undisturbed
<1> QED
  BY <1>2, <1>3, <1>4, <1>5, <1>6, StepKinds

\* An order of the switches holds them all.
LEMMA OrderIsFull ==
    ASSUME NEW order \in SetToSeqs(Switches)
    PROVE  ToSet(order) = Switches
<1> DEFINE n == Cardinality(Switches)
<1>1. SwitchNames \in Surjection(1 .. Len(SwitchNames), Switches)
  BY NamesAssumption DEF Surjection, Switches, ToSet
<1>2. IsFiniteSet(1 .. Len(SwitchNames))
  BY AllNames, FS_Interval
<1>3. IsFiniteSet(Switches) /\ n \in Nat
  BY <1>1, <1>2, FS_Surjection, FS_CardinalityType
<1>4. IsFiniteSet(1 .. n) /\ Cardinality(1 .. n) = n
  BY <1>3, FS_Interval
<1>5. /\ order \in [1 .. n -> Switches]
      /\ \A i, j \in 1 .. n : i # j => order[i] # order[j]
  BY DEF SetToSeqs
<1>6. order \in Injection(1 .. n, Switches)
  BY <1>5 DEF Injection, IsInjective
<1>7. order \in Surjection(1 .. n, Switches)
  BY <1>3, <1>4, <1>6, FS_Injection
<1>8. DOMAIN order = 1 .. n
  BY <1>5
<1> HIDE DEF n
<1> QED
  BY <1>5, <1>7, <1>8 DEF Surjection, ToSet

\* What is said of a switch after a step that leaves it what it has.
LEMMA AllGoOn ==
    ASSUME UNCHANGED <<run, exercise>>, \A id \in Alive' : Keeps(id)
    PROVE  \A s : /\ ConfOf(s)' = ConfOf(s) /\ Configured(s)' = Configured(s)
                  /\ AsStarted(s) => AsStarted(s)'
                  /\ \A n : Holds(s, n) => Holds(s, n)'
                  /\ Done(s) => Done(s)'
BY GoOn

\* The steps before program_switches, the first of which starts the run.
LEMMA LoadStartRunner ==
    ASSUME Loops, ProcessTable, NEW e \in Exercises, StartRunner(e)
    PROVE  Programs'
<1>1. /\ run \in Nat /\ run' = run + 1 /\ procs' = procs
      /\ pc' \in {"creating", "off"}
  BY BoundsAssumption DEF StartRunner, Loops, worldVars
<1>2. \A s : <<run', s>> \notin Alive'
  BY <1>1, IdTypes DEF Alive, ProcessTable
<1>3. \A s : AsStarted(s)'
  BY <1>2 DEF AsStarted
<1> QED
  BY <1>1, <1>3 DEF Programs, Programming

\* Until program_switches begins every switch has its first program.
LEMMA LoadStart ==
    ASSUME Loops, Records, SwitchTable, Programs, Undisturbed, exercise.exe = "grpc",
           CreateSwitch \/ NetworkCreated \/ StartSwitch \/ SwitchUp \/ NetworkStarted
           \/ ProgramHosts
    PROVE  Programs'
<1>1. /\ UNCHANGED <<run, exercise>> /\ pc # "off"
      /\ pc \in {"creating", "starting", "polling", "hosts"}
      /\ \/ pc' \in {"creating", "starting", "polling", "hosts"}
         \/ pc' = "programming" /\ todo' \in SetToSeqs(Switches)
  BY DEF CreateSwitch, NetworkCreated, StartSwitch, SwitchUp, NetworkStarted, ProgramHosts
<1>2. \A s \in Switches : AsStarted(s)
  BY <1>1 DEF Programs
<1>3. \A s \in Switches : AsStarted(s)'
  <2>1. CASE StartSwitch
    <3> DEFINE i == <<run, Head(todo)>>
    <3>1. /\ \A id \in Alive' : id = i \/ Keeps(id)
          /\ procs'[i].switch.program = ProgramOf(Head(todo))
      BY <2>1, Started
    <3>2. \A s : <<run, s>> = i => s = Head(todo)
      OBVIOUS
    <3>3. \A s : ProgramOf(s)' = ProgramOf(s)
      BY <1>1 DEF ProgramOf
    <3> HIDE DEF i
    <3> SUFFICES ASSUME NEW s \in Switches PROVE AsStarted(s)'
      OBVIOUS
    <3>4. CASE <<run, s>> = i
      BY <1>1, <3>1, <3>2, <3>3, <3>4 DEF AsStarted
    <3>5. CASE <<run, s>> # i
      BY <1>1, <1>2, <3>1, <3>5, GoOn
    <3> QED
      BY <3>4, <3>5
  <2>2. CASE ~StartSwitch
    <3>1. Next /\ ~SetPipeline /\ ~InsertRule
      BY <1>1, <2>2 DEF Next, RunnerStep, SetPipeline, InsertRule
    <3>2. \A id \in Alive' : Keeps(id)
      BY <2>2, <3>1, OthersKeep
    <3> QED
      BY <1>1, <1>2, <3>2, AllGoOn
  <2> QED
    BY <2>1, <2>2
<1>4. pc' = "programming" => \A s \in Switches : s \in ToSet(todo')
  BY <1>1, OrderIsFull
<1> QED
  BY <1>1, <1>3, <1>4 DEF Programs, Programming

\* Steps that leave the runner where it is.
LEMMA LoadWorld ==
    ASSUME Programs, UNCHANGED runnerVars, Undisturbed, exercise.exe = "grpc",
           \A id \in Alive' : Keeps(id)
    PROVE  Programs'
<1>1. UNCHANGED <<pc, todo, run, exercise, connection>>
  BY DEF runnerVars
<1>2. \A s : /\ ConfOf(s)' = ConfOf(s) /\ Configured(s)' = Configured(s)
             /\ AsStarted(s) => AsStarted(s)'
             /\ \A n : Holds(s, n) => Holds(s, n)'
             /\ Done(s) => Done(s)'
  BY <1>1, AllGoOn
<1> SUFFICES ASSUME pc # "off"
             PROVE  Programs'
  BY <1>1 DEF Programs
<1>3. /\ pc \in {"creating", "starting", "polling", "hosts"} =>
             \A s \in Switches : AsStarted(s)
      /\ pc \in Programming => \A s \in Switches :
             IF s \in ToSet(todo)
             THEN (pc = "rules" /\ s = Head(todo)) \/ AsStarted(s)
             ELSE Done(s)
      /\ pc \in {"pipeline", "rules"} => InProgress(Head(todo))
      /\ pc = "cli" => todo = <<>>
  BY DEF Programs
<1>4. InProgress(Head(todo)) => InProgress(Head(todo))'
  BY <1>1, <1>2 DEF InProgress
<1>5. pc \in {"creating", "starting", "polling", "hosts"} =>
        \A s \in Switches : AsStarted(s)'
  BY <1>2, <1>3
<1>6. pc \in Programming => \A s \in Switches :
        IF s \in ToSet(todo)
        THEN (pc = "rules" /\ s = Head(todo)) \/ AsStarted(s)'
        ELSE Done(s)'
  BY <1>2, <1>3
<1> QED
  BY <1>1, <1>3, <1>4, <1>5, <1>6 DEF Programs, Programming

\* The rules of a switch's configuration are a list.
LEMMA ListedRules ==
    ASSUME SwitchTable, pc # "off", NEW s \in Switches, Configured(s)
    PROVE  /\ IsConfiguration(ConfOf(s))
           /\ \E S : Rules(ConfOf(s)) \in Seq(S)
<1>1. exercise \in Exercises
  BY DEF SwitchTable
<1>2. IsConfiguration(ConfOf(s))
  BY <1>1, ConfigurationAssumption DEF Configured, ConfOf
<1> QED
  BY <1>2, RulesAre

\* program_switches comes to a switch, or is done with one.
LEMMA LoadTurn ==
    ASSUME Loops, SwitchTable, Programs, Undisturbed, exercise.exe = "grpc",
           \A id \in Alive' : Keeps(id),
           LeaveSwitch \/ ConnectToSwitch \/ SwitchProgrammed \/ do_net_cli
    PROVE  Programs'
<1> DEFINE h == Head(todo)
<1>1. UNCHANGED <<run, exercise>> /\ pc # "off" /\ pc \in Programming
  BY DEF LeaveSwitch, ConnectToSwitch, SwitchProgrammed, do_net_cli, Programming
<1>2. \A s : /\ ConfOf(s)' = ConfOf(s) /\ Configured(s)' = Configured(s)
             /\ AsStarted(s) => AsStarted(s)'
             /\ \A n : Holds(s, n) => Holds(s, n)'
             /\ Done(s) => Done(s)'
  BY <1>1, AllGoOn
<1>3. /\ \A s \in Switches :
             IF s \in ToSet(todo)
             THEN (pc = "rules" /\ s = h) \/ AsStarted(s)
             ELSE Done(s)
      /\ pc \in {"pipeline", "rules"} => InProgress(h)
  BY <1>1 DEF Programs
<1>4. CASE LeaveSwitch \/ SwitchProgrammed
  <2>1. /\ todo # <<>> /\ todo' = Tail(todo) /\ pc' = "programming"
    BY <1>4 DEF LeaveSwitch, SwitchProgrammed, Loops
  <2>2. ToSet(todo') = ToSet(todo) \ {h} /\ h \in Switches /\ h \in ToSet(todo)
    BY <2>1, TailOfDistinct DEF Loops
  <2>3. Done(h)
    <3>1. CASE LeaveSwitch
      <4>1. ~Configured(h) /\ pc = "programming"
        BY <3>1 DEF LeaveSwitch, Configured, ConfOf
      <4> QED
        BY <1>3, <2>2, <4>1 DEF Done
    <3>2. CASE SwitchProgrammed
      <4>1. pc = "rules" /\ connection.left = <<>>
        BY <3>2 DEF SwitchProgrammed
      <4>2. Configured(h)
        BY <1>3, <4>1 DEF InProgress
      <4>3. PICK n \in 0 .. Len(Rules(ConfOf(h))) :
              connection.left = Rest(Rules(ConfOf(h)), n) /\ Holds(h, n)
        BY <1>3, <4>1 DEF InProgress
      <4>4. n = Len(Rules(ConfOf(h)))
        BY <1>1, <2>2, <4>1, <4>2, <4>3, ListedRules, RestIs
      <4> QED
        BY <4>2, <4>3, <4>4 DEF Done
    <3> QED
      BY <1>4, <3>1, <3>2
  <2> QED
    BY <1>1, <1>2, <1>3, <2>1, <2>2, <2>3 DEF Programs, Programming
<1>5. CASE ConnectToSwitch
  <2>1. /\ pc = "programming" /\ pc' = "pipeline" /\ todo' = todo /\ Configured(h)
        /\ connection'.left = Rules(ConfOf(h))
    BY <1>5 DEF ConnectToSwitch, Configured, ConfOf
  <2>2. InProgress(h)'
    BY <1>2, <2>1 DEF InProgress
  <2> QED
    BY <1>1, <1>2, <1>3, <2>1, <2>2 DEF Programs, Programming
<1>6. CASE do_net_cli
  <2>1. pc' = "cli" /\ todo' = todo /\ todo = <<>> /\ pc = "programming"
    BY <1>6 DEF do_net_cli
  <2> QED
    BY <1>1, <1>2, <1>3, <2>1 DEF Programs, Programming
<1> QED
  BY <1>4, <1>5, <1>6

\* A pipeline is set, or a rule inserted: in the switch whose turn it is.
LEMMA LoadProgram ==
    ASSUME Loops, Records, Undisputed, SwitchTable, Programs, Undisturbed,
           exercise.exe = "grpc", SetPipeline \/ InsertRule
    PROVE  Programs'
<1> DEFINE h == Head(todo)
           i == connection.server
<1>1. /\ UNCHANGED <<run, exercise, todo>> /\ pc \in {"pipeline", "rules"} /\ pc' = "rules"
      /\ SetPipeline => pc = "pipeline"
      /\ InsertRule => pc = "rules"
  BY DEF SetPipeline, InsertRule
<1>2. i = <<run, h>>
  BY <1>1 DEF Undisputed, Connected
<1>3. todo # <<>> /\ h \in Switches /\ h \in ToSet(todo)
  BY <1>1, TailOfDistinct DEF Loops
<1>4. /\ i \in Alive /\ \A id \in Alive' : id = i \/ Keeps(id)
      /\ IsSwitch(procs'[i].switch)
      /\ procs'[i].switch = IF pc = "pipeline"
                            THEN SetForwardingPipelineConfig(procs[i].switch, Conf.program)
                            ELSE Inserted(procs[i].switch, Rule)
  BY Given
<1>5. \A s : s = h \/ (<<run, s>> \in Alive' => Keeps(<<run, s>>))
  BY <1>2, <1>4
<1>6. \A s : /\ s # h /\ AsStarted(s) => AsStarted(s)'
             /\ s # h /\ Done(s) => Done(s)'
  BY <1>1, <1>5, GoOn
<1>7. ConfOf(h)' = ConfOf(h) /\ Configured(h)' = Configured(h) /\ Conf = ConfOf(h)
  BY <1>1 DEF ConfOf, Configured, Conf
<1>8. /\ \A s \in Switches :
             IF s \in ToSet(todo)
             THEN (pc = "rules" /\ s = h) \/ AsStarted(s)
             ELSE Done(s)
      /\ InProgress(h)
  BY <1>1 DEF Programs, Programming
<1>9. Configured(h)
  BY <1>8 DEF InProgress
<1>10. /\ IsConfiguration(ConfOf(h))
       /\ \E S : Rules(ConfOf(h)) \in Seq(S)
       /\ Len(Rules(ConfOf(h))) \in Nat
  BY <1>1, <1>3, <1>9, ListedRules
<1> HIDE DEF h, i
<1>11. \E n \in 0 .. Len(Rules(ConfOf(h))) :
          /\ connection'.left = Rest(Rules(ConfOf(h)), n)
          /\ Written(procs'[i].switch, ConfOf(h), n)
  <2>1. CASE SetPipeline
    <3>1. connection'.left = Rules(ConfOf(h)) /\ pc = "pipeline"
      BY <1>1, <1>8, <2>1 DEF SetPipeline, InProgress
    <3>2. Rest(Rules(ConfOf(h)), 0) = Rules(ConfOf(h)) /\ 0 \in 0 .. Len(Rules(ConfOf(h)))
      BY <1>10, RestIs
    <3>3. Written(procs'[i].switch, ConfOf(h), 0)
      BY <1>4, <1>7, <3>1, NoneWritten
    <3> QED
      BY <3>1, <3>2, <3>3
  <2>2. CASE InsertRule
    <3>1. PICK n \in 0 .. Len(Rules(ConfOf(h))) :
            connection.left = Rest(Rules(ConfOf(h)), n) /\ Holds(h, n)
      BY <1>1, <1>8, <2>2 DEF InProgress
    <3>2. /\ connection.left # <<>> /\ pc = "rules"
          /\ CanInsert(procs[i].switch, Rule)
          /\ connection' = [connection EXCEPT !.left = Tail(@)]
      BY <1>1, <2>2 DEF InsertRule, i
    <3>3. connection = [open |-> TRUE, server |-> connection.server,
                        left |-> connection.left]
      BY <1>1 DEF Loops
    <3>4. connection'.left = Tail(connection.left)
      BY <3>2, <3>3
    <3>5. /\ n + 1 \in 0 .. Len(Rules(ConfOf(h)))
          /\ Rule = Rules(ConfOf(h))[n + 1]
          /\ connection'.left = Rest(Rules(ConfOf(h)), n + 1)
      BY <1>10, <3>1, <3>2, <3>4, RestIs DEF Rule
    <3>6. n \in Nat /\ IsSwitch(procs[i].switch) /\ Written(procs[i].switch, ConfOf(h), n)
      BY <1>2, <1>4, <1>10, <3>1 DEF Holds, SwitchTable
    <3>7. Rule.kind = "table" =>
            /\ CanBuildTableEntry(ConfOf(h).info, Rule)
            /\ ~RefusesEntry(procs[i].switch, buildTableEntry(ConfOf(h).info, Rule))
      BY <1>7, <3>2 DEF CanInsert
    <3>8. Inserted(procs[i].switch, Rule) =
            IF Rule.kind = "table"
            THEN WriteTableEntry(procs[i].switch, buildTableEntry(ConfOf(h).info, Rule))
            ELSE WritePREEntry(procs[i].switch, GroupOf(Rule))
      BY <1>7 DEF Inserted
    <3>9. Written(Inserted(procs[i].switch, Rule), ConfOf(h), n + 1)
      BY <3>5, <3>6, <3>7, <3>8, OneMoreRule
    <3> QED
      BY <1>4, <3>2, <3>5, <3>9
  <2> QED
    BY <2>1, <2>2
<1>12. InProgress(h)'
  BY <1>1, <1>2, <1>7, <1>9, <1>11 DEF InProgress, Holds, h
<1>13. \A s \in Switches :
          IF s \in ToSet(todo) THEN s = h \/ AsStarted(s)' ELSE Done(s)'
  BY <1>3, <1>6, <1>8
<1> QED
  BY <1>1, <1>12, <1>13 DEF Programs, Programming, h

\* Every step keeps what is said of the switches.
LEMMA StepPrograms ==
    ASSUME RunInv, LoadInv, Next \/ UNCHANGED vars
    PROVE  Programs'
<1>1. Loops /\ Records /\ ProcessTable /\ Undisputed /\ SwitchTable /\ Programs
  BY DEF RunInv, LoadInv
<1> SUFFICES ASSUME pc' # "off", Undisturbed', exercise'.exe = "grpc"
             PROVE  Programs'
  BY DEF Programs
<1>2. Undisturbed
  BY <1>1, StayedUndisturbed
<1>3. CASE \E e \in Exercises : StartRunner(e)
  BY <1>1, <1>3, LoadStartRunner
<1>4. CASE RefuseSwitch \/ SwitchNotUp \/ ProgramFails \/ Interrupt \/ NetworkStopped
  BY <1>4, Early DEF EndEarly, NetworkStopped
<1>5. CASE CreateSwitch \/ NetworkCreated \/ StartSwitch \/ SwitchUp \/ NetworkStarted
           \/ ProgramHosts
  <2>1. exercise' = exercise
    BY <1>5 DEF CreateSwitch, NetworkCreated, StartSwitch, SwitchUp, NetworkStarted,
       ProgramHosts
  <2> QED
    BY <1>1, <1>2, <1>5, <2>1, LoadStart
<1>6. CASE SetPipeline \/ InsertRule
  <2>1. exercise' = exercise
    BY <1>6 DEF SetPipeline, InsertRule
  <2> QED
    BY <1>1, <1>2, <1>6, <2>1, LoadProgram
<1>7. CASE LeaveSwitch \/ ConnectToSwitch \/ SwitchProgrammed \/ do_net_cli
  <2>1. exercise' = exercise /\ ~StartSwitch /\ ~SetPipeline /\ ~InsertRule
    <3>1. exercise' = exercise /\ procs' = procs /\ (todo' # todo \/ pc' # "polling")
          /\ (pc # "starting" /\ pc' # "rules")
      BY <1>7 DEF LeaveSwitch, ConnectToSwitch, SwitchProgrammed, do_net_cli, worldVars
    <3> QED
      BY <3>1 DEF StartSwitch, SetPipeline, InsertRule
  <2>2. \A id \in Alive' : Keeps(id)
    BY <1>1, <2>1, OthersKeep
  <2> QED
    BY <1>1, <1>2, <1>7, <2>1, <2>2, LoadTurn
<1>8. CASE LeaveCli \/ StopSwitch
  <2>1. pc' = "stopping"
    BY <1>8 DEF LeaveCli, StopSwitch
  <2> QED
    BY <2>1 DEF Programs, Programming
<1>9. CASE \/ \E id \in Ids : ProcessListens(id) \/ ProcessCrashes(id)
           \/ \E job \in cliJobs : CliJobRuns(job)
           \/ \E p \in {50051, 9090} : ForeignListens(p)
           \/ UNCHANGED vars
  <2>1. UNCHANGED runnerVars
    BY <1>9, World
  <2>2. CASE ~StartSwitch /\ ~SetPipeline /\ ~InsertRule
    <3>1. \A id \in Alive' : Keeps(id)
      BY <1>1, <2>2, OthersKeep
    <3> QED
      BY <1>1, <1>2, <2>1, <3>1, LoadWorld DEF runnerVars
  <2>3. CASE StartSwitch \/ SetPipeline \/ InsertRule
    BY <1>5, <1>6, <2>3
  <2> QED
    BY <2>2, <2>3
<1> QED
  BY <1>3, <1>4, <1>5, <1>6, <1>7, <1>8, <1>9 DEF Next, RunnerStep

LEMMA InitLoad == Init => LoadInv
<1> SUFFICES ASSUME Init PROVE LoadInv
  OBVIOUS
<1>1. pc = "off" /\ cliJobs = {} /\ Alive = {}
  BY DEF Init, Alive, NoProcess
<1> QED
  BY <1>1 DEF LoadInv, SwitchTable, Programs

LEMMA LoadInvariant == Spec => [](RunInv /\ LoadInv)
<1>1. RunInv /\ LoadInv /\ [Next]_vars => LoadInv'
  <2> SUFFICES ASSUME RunInv, LoadInv, [Next]_vars PROVE LoadInv'
    OBVIOUS
  <2>1. Next \/ UNCHANGED vars
    OBVIOUS
  <2>2. SwitchTable'
    BY <2>1, StepSwitchTable DEF RunInv, LoadInv
  <2> QED
    BY <2>1, <2>2, StepPrograms DEF LoadInv
<1> QED
  BY <1>1, InitRun, InitLoad, StepRun, PTL DEF Spec

\* When the user gets the prompt, every switch of a grpc run whose configuration
\* passes check_switch_conf holds its program and all of its rules with the values of
\* the file, and nothing else but lines of a CLI file; the others run the program they
\* were started with (run_exercise.py, program_switches; simple_controller.py,
\* program_switch), for every configuration and every number of switches and runs.
THEOREM ConfigurationLoadedCorrect == Spec => []ConfigurationLoaded
<1>1. RunInv /\ LoadInv => ConfigurationLoaded
  <2> SUFFICES ASSUME RunInv, LoadInv, pc = "cli", Undisturbed, exercise.exe = "grpc",
                      NEW s \in Switches
               PROVE  IF ConfOf(s) # NoConf /\ (ConfOf(s) # NoConf => check_switch_conf(ConfOf(s)))
                      THEN Loaded(procs[<<run, s>>].switch, ConfOf(s))
                      ELSE procs[<<run, s>>].switch.program = ProgramOf(s)
    BY DEF ConfigurationLoaded, ConfOf
  <2>1. Programs /\ SwitchTable
    BY DEF LoadInv
  <2>2. Done(s)
    BY <2>1, NoEntry DEF Programs, Programming
  <2>3. <<run, s>> \in Alive
    <3>1. Serving /\ DOMAIN objects = Switches /\ started = Switches
      BY DEF RunInv, Undisputed, Loops, Later
    <3>2. \A r \in Switches : objects[r].port = objects[s].port => r = s
      BY <3>1 DEF RunInv, PortTable
    <3>3. <<run, s>> \in ServersAt(objects[s].port)
      BY <3>1, <3>2 DEF Serving, Busy
    <3> QED
      BY <3>3 DEF ServersAt
  <2>4. CASE Configured(s)
    <3>1. Written(procs[<<run, s>>].switch, ConfOf(s), Len(Rules(ConfOf(s))))
      BY <2>2, <2>3, <2>4 DEF Done, Holds
    <3>2. Loaded(procs[<<run, s>>].switch, ConfOf(s))
      BY <2>1, <2>4, <3>1, ListedRules, AllWritten
    <3> QED
      BY <2>4, <3>2 DEF Configured
  <2>5. CASE ~Configured(s)
    BY <2>2, <2>3, <2>5 DEF Done, AsStarted, Configured
  <2> QED
    BY <2>4, <2>5
<1> QED
  BY <1>1, LoadInvariant, PTL

=============================================================================
