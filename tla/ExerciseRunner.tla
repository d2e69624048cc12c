---------------------------- MODULE ExerciseRunner ----------------------------
(* The program that sets up the emulated network (mininet/utils/run_exercise.py *)
(* with p4runtime_switch.py, p4_mininet.py, netstat.py and                      *)
(* p4runtime_lib/simple_controller.py): it creates the switches, starts their  *)
(* processes, loads every switch's runtime configuration and hands over to the *)
(* user.  It may be run again on the same machine after it ended.               *)
EXTENDS SwitchConnection, P4InfoHelper

CONSTANTS
    SwitchNames,    \* the switches in the order Mininet creates and starts them
    Exercises,      \* what a run may be given: command line and topology.json
    Default,        \* a switch entry without "program"; exercise without -j
    Missing,        \* the path of a program that does not exist
    NoConf,         \* a switch without "runtime_json"
    Nobody,         \* no server, no exercise, no port
    MaxRuns,        \* bound on the runs
    MaxDisturbances \* bound on ports others take plus processes that crash

Switches == ToSet(SwitchNames)
Runs == 1 .. MaxRuns
Ids == Runs \X Switches

\* The keys of topology.json's dictionary of switches, of which there are no more
\* than ports from 50051 on.
ASSUME NamesAssumption ==
    /\ SwitchNames \in Seq(Switches)
    /\ \A i, j \in DOMAIN SwitchNames : SwitchNames[i] = SwitchNames[j] => i = j
    /\ Len(SwitchNames) <= 65536 - 50051

ASSUME BoundsAssumption == MaxRuns \in Nat /\ MaxDisturbances \in Nat

VARIABLES
    pc,        \* where the runner is; "off": none runs
    run,       \* the number of the last run
    exercise,  \* what it was given
    todo,      \* the switches this phase has still to do, in order
    objects,   \* the switch objects of this run: a function from names
    started,   \* the switches check_switch_started has accepted
    counters,  \* next_grpc_port, next_thrift_port, P4Switch.device_id
    procs,     \* the process of every switch of every run, or NoProcess
    cliJobs,   \* the simple_switch_CLI processes that have not ended
    connection,\* the P4Runtime connection of program_switch
    foreign,   \* the ports other programs listen on
    disturbances,
    clean,     \* history: every run before this one ended by net.stop
    late       \* history: a run ended while a process of it was still starting

runnerVars == <<pc, run, exercise, todo, objects, started, counters, connection>>
worldVars == <<procs, cliJobs, foreign, disturbances>>
historyVars == <<clean, late>>
vars == <<runnerVars, worldVars, historyVars>>

NoProcess == [phase |-> "none"]
NoConnection == [open |-> FALSE]

Init ==
    /\ pc = "off"
    /\ run = 0
    /\ exercise = Nobody
    /\ todo = <<>>
    /\ objects = <<>>
    /\ started = {}
    /\ counters = [grpc |-> 50051, thrift |-> 9090, device |-> 0]
    /\ procs = [id \in Ids |-> NoProcess]
    /\ cliJobs = {}
    /\ connection = NoConnection
    /\ foreign = {}
    /\ disturbances = 0
    /\ clean = TRUE
    /\ late = FALSE

Alive == {id \in Ids : procs[id].phase # "none"}

Ports(process) == {process.port, process.thrift_port}

\* The processes that listen on a port, at most one.
ServersAt(p) == {id \in Alive : procs[id].phase = "listening" /\ p \in Ports(procs[id])}

check_listening_on_port(p) == p \in foreign \/ ServersAt(p) # {}

\* exit(1), an exception or Ctrl-C: net.stop is not reached, the processes stay.
EndEarly ==
    /\ pc' = "off"
    /\ clean' = FALSE
    /\ late' = (late \/ \E id \in Alive : id[1] = run /\ procs[id].phase = "starting")
    /\ connection' = NoConnection
    /\ UNCHANGED <<run, exercise, todo, objects, started, counters, worldVars>>

----------------------------------------------------------------------------
(* create_network: the topology and the switch objects.                    *)

\* parse_links puts the host first and asserts that the other end is a switch;
\* parse_switch_node wants "s1-p2".  A link is a set of two ends.
parse_links(links) ==
    \A link \in links :
        /\ Cardinality({end \in link : end.kind = "h"}) <= 1
        /\ \A end \in link : end.kind = "s" => end.port # Nobody

StartRunner(e) ==
    /\ pc = "off"
    /\ run < MaxRuns
    /\ run' = run + 1
    /\ exercise' = e
    /\ pc' = IF parse_links(e.links) THEN "creating" ELSE "off"
    /\ todo' = SwitchNames
    /\ objects' = <<>>
    /\ started' = {}
    /\ counters' = [grpc |-> 50051, thrift |-> 9090, device |-> 0]
    /\ connection' = NoConnection
    /\ UNCHANGED <<worldVars, historyVars>>

ProgramOf(s) ==
    IF exercise.program[s] # Default THEN exercise.program[s] ELSE exercise.default

\* configureP4Switch makes a class of its own for every switch with a program;
\* without grpc each of these classes counts thrift ports from 9090.
OwnCounter(s) == exercise.exe = "thrift" /\ exercise.program[s] # Default

thrift_port(s) == IF OwnCounter(s) THEN 9090 ELSE counters.thrift

\* The port the switch is known by: the one whose server is waited for.
port(s) == IF exercise.exe = "grpc" THEN counters.grpc ELSE thrift_port(s)

\* Mutant of CanCreate: the port is not looked at.
CanCreate_AnyPort(s) ==
    /\ ProgramOf(s) # Missing
    /\ exercise.exe = "thrift" => ProgramOf(s) # Default

CanCreate(s) ==
    /\ ProgramOf(s) # Missing
    /\ exercise.exe = "thrift" => ProgramOf(s) # Default
    /\ ~check_listening_on_port(port(s))

CreateSwitch ==
    /\ pc = "creating"
    /\ todo # <<>>
    /\ LET s == Head(todo) IN
       /\ CanCreate(s)
       /\ objects' = [r \in DOMAIN objects \cup {s} |->
            IF r = s THEN [port |-> port(s), thrift_port |-> thrift_port(s),
                           device_id |-> counters.device]
            ELSE objects[r]]
       /\ counters' = [grpc   |-> counters.grpc + 1,
                       thrift |-> IF OwnCounter(s) THEN counters.thrift
                                  ELSE counters.thrift + 1,
                       device |-> counters.device + 1]
    /\ todo' = Tail(todo)
    /\ UNCHANGED <<pc, run, exercise, started, connection, worldVars, historyVars>>

RefuseSwitch ==
    /\ pc = "creating"
    /\ todo # <<>>
    /\ ~CanCreate(Head(todo))
    /\ EndEarly

NetworkCreated ==
    /\ pc = "creating"
    /\ todo = <<>>
    /\ pc' = "starting"
    /\ todo' = SwitchNames
    /\ UNCHANGED <<run, exercise, objects, started, counters, connection, worldVars,
                   historyVars>>

----------------------------------------------------------------------------
(* net.start: one switch after the other.                                  *)

\* The command line is given to a shell in the background.
StartSwitch ==
    /\ pc = "starting"
    /\ todo # <<>>
    /\ LET s == Head(todo) IN
       procs' = [procs EXCEPT ![<<run, s>>] =
           [phase  |-> "starting",
            port   |-> objects[s].port,
            thrift_port |-> objects[s].thrift_port,
            switch |-> FreshSwitch(objects[s].device_id, ProgramOf(s))]]
    /\ counters' = [counters EXCEPT !.device = @ + 1]
    /\ pc' = "polling"
    /\ UNCHANGED <<run, exercise, todo, objects, started, connection, cliJobs, foreign,
                   disturbances, historyVars>>

\* check_switch_started: the process is there and somebody listens on its port.
SwitchUp ==
    /\ pc = "polling"
    /\ <<run, Head(todo)>> \in Alive
    /\ check_listening_on_port(objects[Head(todo)].port)
    /\ started' = started \cup {Head(todo)}
    /\ todo' = Tail(todo)
    /\ pc' = "starting"
    /\ UNCHANGED <<run, exercise, objects, counters, connection, worldVars, historyVars>>

\* Mutant of SwitchNotUp: it waits without end, as p4_mininet.py:112 does.
SwitchNotUp_Waits ==
    /\ pc = "polling"
    /\ <<run, Head(todo)>> \notin Alive
    /\ EndEarly

\* The process has ended, or, with grpc, twenty rounds are over.
SwitchNotUp ==
    /\ pc = "polling"
    /\ \/ <<run, Head(todo)>> \notin Alive
       \/ exercise.exe = "grpc" /\ ~check_listening_on_port(objects[Head(todo)].port)
    /\ EndEarly

NetworkStarted ==
    /\ pc = "starting"
    /\ todo = <<>>
    /\ pc' = "hosts"
    /\ UNCHANGED <<run, exercise, todo, objects, started, counters, connection,
                   worldVars, historyVars>>

\* h.cmd waits until the command ends.
ProgramHosts ==
    /\ pc = "hosts"
    /\ exercise.commandsEnd
    /\ pc' = "programming"
    /\ \E order \in SetToSeqs(Switches) : todo' = order
    /\ UNCHANGED <<run, exercise, objects, started, counters, connection, worldVars,
                   historyVars>>

----------------------------------------------------------------------------
(* program_switches: in the order of a dictionary, so in any.              *)

\* check_switch_conf, simple_controller.py:66-88: what is missing is printed and
\* the switch is left as it is.
check_switch_conf(conf) ==
    /\ conf.target = "bmv2"
    /\ conf.p4info = "file"
    /\ conf.bmv2_json = "file"

\* A configuration with files is one for a program that was compiled: the rules are
\* in lists of their own kinds.
IsConfiguration(conf) ==
    /\ IsP4Info(conf.info)
    /\ conf.table_entries \in Seq(ToSet(conf.table_entries))
    /\ \A rule \in ToSet(conf.table_entries) :
        rule.kind = "table" /\ rule.default_action \in BOOLEAN
    /\ conf.group_entries \in Seq(ToSet(conf.group_entries))
    /\ \A rule \in ToSet(conf.group_entries) : rule.kind \in {"multicast", "clone"}

ASSUME ConfigurationAssumption ==
    \A e \in Exercises, s \in Switches :
        LET conf == e.runtime_json[s] IN
        conf # NoConf => (check_switch_conf(conf) => IsConfiguration(conf))

\* The commands are given to a process nobody waits for.
CliJobs(s) ==
    IF exercise.cli_input[s] = {} THEN {}
    ELSE {[thrift_port |-> objects[s].thrift_port, entries |-> exercise.cli_input[s]]}

\* Nothing to do over P4Runtime, or the configuration is refused by the check.
LeaveSwitch ==
    /\ pc = "programming"
    /\ todo # <<>>
    /\ LET conf == exercise.runtime_json[Head(todo)] IN
       /\ conf # NoConf => exercise.exe = "grpc" /\ ~check_switch_conf(conf)
    /\ cliJobs' = cliJobs \cup CliJobs(Head(todo))
    /\ todo' = Tail(todo)
    /\ UNCHANGED <<pc, run, exercise, objects, started, counters, connection, procs,
                   foreign, disturbances, historyVars>>

\* What the file asks for after the pipeline, in the order of program_switch.
Rules(conf) == conf.table_entries \o conf.group_entries

\* Every call on a connection needs the server it was made to, and its device.
Answers(server, s) ==
    /\ server \in Alive
    /\ Arbitrates(procs[server].switch, objects[s].device_id)

ServerOf(s) ==
    IF ServersAt(objects[s].port) = {} THEN Nobody
    ELSE CHOOSE id \in ServersAt(objects[s].port) : TRUE

\* Without grpc the switch object has no grpc_port: the call fails whatever the
\* configuration is, which stands here as a server that is nobody.
ConnectToSwitch ==
    /\ pc = "programming"
    /\ todo # <<>>
    /\ LET s == Head(todo)
           conf == exercise.runtime_json[s] IN
       /\ conf # NoConf
       /\ exercise.exe = "grpc" => check_switch_conf(conf)
       /\ cliJobs' = cliJobs \cup CliJobs(s)
       /\ connection' = [open |-> TRUE,
                         server |-> IF exercise.exe = "grpc" THEN ServerOf(s) ELSE Nobody,
                         left |-> Rules(conf)]
    /\ pc' = "pipeline"
    /\ UNCHANGED <<run, exercise, todo, objects, started, counters, procs, foreign,
                   disturbances, historyVars>>

Conf == exercise.runtime_json[Head(todo)]

SetPipeline ==
    /\ pc = "pipeline"
    /\ Answers(connection.server, Head(todo))
    /\ procs' = [procs EXCEPT ![connection.server].switch =
                     SetForwardingPipelineConfig(@, Conf.program)]
    /\ pc' = "rules"
    /\ UNCHANGED <<run, exercise, todo, objects, started, counters, connection, cliJobs,
                   foreign, disturbances, historyVars>>

Rule == Head(connection.left)

GroupOf(rule) == IF rule.kind = "multicast" THEN buildMulticastGroupEntry(rule)
                 ELSE buildCloneSessionEntry(rule)

\* A rule whose keys are there, that can be built and that the switch takes.
CanInsert(switch, rule) ==
    /\ rule.complete
    /\ IF rule.kind = "table"
       THEN /\ CanBuildTableEntry(Conf.info, rule)
            /\ ~RefusesEntry(switch, buildTableEntry(Conf.info, rule))
       ELSE ~RefusesGroup(switch, GroupOf(rule))

Inserted(switch, rule) ==
    IF rule.kind = "table"
    THEN WriteTableEntry(switch, buildTableEntry(Conf.info, rule))
    ELSE WritePREEntry(switch, GroupOf(rule))

InsertRule ==
    /\ pc = "rules"
    /\ connection.left # <<>>
    /\ Answers(connection.server, Head(todo))
    /\ CanInsert(procs[connection.server].switch, Rule)
    /\ procs' = [procs EXCEPT ![connection.server].switch = Inserted(@, Rule)]
    /\ connection' = [connection EXCEPT !.left = Tail(@)]
    /\ UNCHANGED <<pc, run, exercise, todo, objects, started, counters, cliJobs, foreign,
                   disturbances, historyVars>>

\* The exception passes the finally of program_switch and ends the run; what was
\* inserted before stays.
ProgramFails ==
    /\ \/ pc = "pipeline" /\ ~Answers(connection.server, Head(todo))
       \/ /\ pc = "rules"
          /\ connection.left # <<>>
          /\ IF Answers(connection.server, Head(todo))
             THEN ~CanInsert(procs[connection.server].switch, Rule)
             ELSE TRUE
    /\ EndEarly

\* Mutant of SwitchProgrammed: the connection is not shut down.
SwitchProgrammed_KeepsStream ==
    /\ pc = "rules"
    /\ connection.left = <<>>
    /\ todo' = Tail(todo)
    /\ pc' = "programming"
    /\ UNCHANGED <<run, exercise, objects, started, counters, connection, worldVars,
                   historyVars>>

\* sw.shutdown() of the finally.
SwitchProgrammed ==
    /\ pc = "rules"
    /\ connection.left = <<>>
    /\ connection' = NoConnection
    /\ todo' = Tail(todo)
    /\ pc' = "programming"
    /\ UNCHANGED <<run, exercise, objects, started, counters, worldVars, historyVars>>

----------------------------------------------------------------------------
(* The user's session and net.stop.                                        *)

do_net_cli ==
    /\ pc = "programming"
    /\ todo = <<>>
    /\ pc' = "cli"
    /\ UNCHANGED <<run, exercise, todo, objects, started, counters, connection,
                   worldVars, historyVars>>

LeaveCli ==
    /\ pc = "cli"
    /\ pc' = "stopping"
    /\ todo' = SwitchNames
    /\ UNCHANGED <<run, exercise, objects, started, counters, connection, worldVars,
                   historyVars>>

\* Mutant of StopSwitch: the process is not waited for and lives on.
StopSwitch_Leaves ==
    /\ pc = "stopping"
    /\ todo # <<>>
    /\ todo' = Tail(todo)
    /\ UNCHANGED <<pc, run, exercise, objects, started, counters, connection, worldVars,
                   historyVars>>

\* kill %..., wait.
StopSwitch ==
    /\ pc = "stopping"
    /\ todo # <<>>
    /\ procs' = [procs EXCEPT ![<<run, Head(todo)>>] = NoProcess]
    /\ todo' = Tail(todo)
    /\ UNCHANGED <<pc, run, exercise, objects, started, counters, connection, cliJobs,
                   foreign, disturbances, historyVars>>

NetworkStopped ==
    /\ pc = "stopping"
    /\ todo = <<>>
    /\ pc' = "off"
    /\ UNCHANGED <<run, exercise, todo, objects, started, counters, connection,
                   worldVars, historyVars>>

\* The user interrupts the runner anywhere else.
Interrupt ==
    /\ pc \notin {"off", "cli"}
    /\ EndEarly

RunnerStep ==
    \/ CreateSwitch \/ RefuseSwitch \/ NetworkCreated
    \/ StartSwitch \/ SwitchUp \/ SwitchNotUp \/ NetworkStarted
    \/ ProgramHosts
    \/ LeaveSwitch \/ ConnectToSwitch \/ SetPipeline \/ InsertRule \/ ProgramFails
    \/ SwitchProgrammed
    \/ do_net_cli \/ StopSwitch \/ NetworkStopped

----------------------------------------------------------------------------
(* Processes.                                                              *)

\* A switch's process binds its ports, or ends because one of them is taken.
ProcessListens(id) ==
    /\ id \in Alive
    /\ procs[id].phase = "starting"
    /\ procs' = IF \E p \in Ports(procs[id]) : check_listening_on_port(p)
                THEN [procs EXCEPT ![id] = NoProcess]
                ELSE [procs EXCEPT ![id].phase = "listening"]
    /\ UNCHANGED <<runnerVars, cliJobs, foreign, disturbances, historyVars>>

\* It crashes: a bad program, no memory.
ProcessCrashes(id) ==
    /\ id \in Alive
    /\ disturbances < MaxDisturbances
    /\ disturbances' = disturbances + 1
    /\ procs' = [procs EXCEPT ![id] = NoProcess]
    /\ UNCHANGED <<runnerVars, cliJobs, foreign, historyVars>>

\* simple_switch_CLI finds the server of its port, or nobody and ends.
CliJobRuns(job) ==
    /\ cliJobs' = cliJobs \ {job}
    /\ procs' = [id \in Ids |->
         IF id \in ServersAt(job.thrift_port)
         THEN [procs[id] EXCEPT !.switch.entries = @ \cup job.entries]
         ELSE procs[id]]
    /\ UNCHANGED <<runnerVars, foreign, disturbances, historyVars>>

\* Another program starts to listen on a port of the first switches.
ForeignListens(p) ==
    /\ disturbances < MaxDisturbances
    /\ disturbances' = disturbances + 1
    /\ ~check_listening_on_port(p)
    /\ foreign' = foreign \cup {p}
    /\ UNCHANGED <<runnerVars, procs, cliJobs, historyVars>>

Next ==
    \/ \E e \in Exercises : StartRunner(e)
    \/ RunnerStep
    \/ LeaveCli
    \/ Interrupt
    \/ \E id \in Ids : ProcessListens(id) \/ ProcessCrashes(id)
    \/ \E job \in cliJobs : CliJobRuns(job)
    \/ \E p \in {50051, 9090} : ForeignListens(p)

Spec == Init /\ [][Next]_vars

\* The runner is one thread that runs; how long a switch takes to start, when a
\* command file is worked on and when the user leaves is left open.
FairSpec == Spec /\ WF_vars(RunnerStep)

----------------------------------------------------------------------------
(* Properties.                                                             *)

\* Every variable has its type; there is a connection exactly while program_switch
\* is in its try block, only for a switch that has been started, and a process of
\* this run only for a switch that has been created.
TypeOK ==
    /\ pc \in {"off", "creating", "starting", "polling", "hosts", "programming",
              "pipeline", "rules", "cli", "stopping"}
    /\ run \in 0 .. MaxRuns
    /\ exercise \in Exercises \cup {Nobody}
    /\ ToSet(todo) \subseteq Switches
    /\ started \subseteq DOMAIN objects
    /\ DOMAIN objects \subseteq Switches
    /\ \A id \in Alive :
        /\ procs[id].phase \in {"starting", "listening"}
        /\ id[1] <= run
        /\ id[1] = run => id[2] \in DOMAIN objects
    /\ \A p \in foreign : ServersAt(p) = {}
    /\ connection.open <=> pc \in {"pipeline", "rules"}
    /\ connection.open => Head(todo) \in started

Running == pc \notin {"off", "creating", "stopping"}

Undisturbed == disturbances = 0 /\ ~late

\* p4runtime_switch.py:69-71 and 92-98: a switch that has been taken for started
\* runs itself, and what is programmed is the switch that was meant, whatever
\* earlier runs left on the machine - unless another program took a port or a
\* process crashed, an earlier run ended while a process was still starting (it
\* may bind the port after it was found free), or two switches were given one
\* port (run_exercise.py:51, against the promise of lines 36-38).
StartedRuns ==
    Running /\ Undisturbed =>
        /\ \A s \in started :
            \/ ServersAt(objects[s].port) = {<<run, s>>}
            \/ \E r \in Switches \ {s} : objects[r].port = objects[s].port
        /\ connection.open /\ exercise.exe = "grpc" =>
            connection.server = <<run, Head(todo)>>

\* Bytes in the switch against a value of the file.
Says(bytes, x) ==
    LET y == Unwrapped(x) IN
    IF y.type = "int" THEN decodeNum(bytes) = y.n ELSE bytes = y.parts

\* The operands of a match field against those of the file.
SaysField(field, match, x) ==
    LET value == get_match_field_value(field, match) IN
    CASE field.match_type = "EXACT" -> Says(value, x)
      [] field.match_type = "LPM" -> Says(value[1], x.items[1]) /\ value[2] = x.items[2].n
      [] OTHER -> \A i \in 1 .. 2 : Says(value[i], x.items[i])

\* An entry of the switch, read with the reverse look-ups of the library, is the
\* rule of the file: what is written is what the file names, each once.
ReadsAs(info, entry, rule) ==
    /\ \E t \in ToSet(info.tables) :
        /\ t.id = entry.table /\ t.name = get_name(info.tables, entry.table)
        /\ rule.table \in {t.name, t.alias}
        /\ \A m \in entry.match : \E f \in ToSet(t.match_fields) :
            /\ f.id = m.field_id /\ f.name \in DOMAIN rule.match
            /\ SaysField(f, m, rule.match[f.name])
        /\ \A name \in DOMAIN rule.match :
            \E m \in entry.match, f \in ToSet(t.match_fields) :
                f.name = name /\ f.id = m.field_id
        /\ \A m, n \in entry.match : m.field_id = n.field_id => m = n
    /\ \E a \in ToSet(info.actions) :
        /\ a.id = entry.action /\ a.name = get_name(info.actions, entry.action)
        /\ rule.action_name \in {a.name, a.alias}
        /\ \A p \in entry.params : \E q \in ToSet(a.params) :
            /\ q.id = p.param_id /\ q.name \in DOMAIN rule.action_params
            /\ Says(p.value, rule.action_params[q.name])
        /\ \A name \in DOMAIN rule.action_params :
            \E p \in entry.params, q \in ToSet(a.params) :
                q.name = name /\ q.id = p.param_id
        /\ \A p, q \in entry.params : p.param_id = q.param_id => p = q
    /\ entry.default = rule.default_action
    /\ entry.priority = rule.priority

\* A group of the switch is the one of the file.
ReadsAsGroup(group, rule) ==
    /\ group.kind = rule.kind
    /\ group.id = rule.id
    /\ group.replicas = ToSet(rule.replicas)
    /\ rule.kind = "clone" => group.length = rule.packet_length_bytes

\* A later default entry of the same table replaces an earlier one.
Superseded(conf, i) ==
    LET rules == conf.table_entries
        table(k) == get_id(conf.info.tables, rules[k].table)
    IN \E j \in DOMAIN rules :
        /\ j > i /\ rules[i].default_action /\ rules[j].default_action
        /\ table(j) = table(i)

CliEntries == UNION {UNION {e.cli_input[s] : s \in Switches} : e \in Exercises}

Loaded(switch, conf) ==
    /\ switch.program = conf.program
    /\ \A i \in DOMAIN conf.table_entries : Superseded(conf, i) \/
        \E e \in switch.entries : ReadsAs(conf.info, e, conf.table_entries[i])
    /\ \A e \in switch.entries \ CliEntries :
        \E rule \in ToSet(conf.table_entries) : ReadsAs(conf.info, e, rule)
    /\ \A rule \in ToSet(conf.group_entries) :
        \E g \in switch.groups : ReadsAsGroup(g, rule)
    /\ \A g \in switch.groups :
        \E rule \in ToSet(conf.group_entries) : ReadsAsGroup(g, rule)

\* run_exercise.py:336-337 "Your P4 program is installed into the BMV2 software
\* switch and your initial runtime configuration is loaded": when the user gets the
\* prompt, every switch whose configuration passes check_switch_conf holds its
\* program and all of its rules, with the values of the file, and no others but
\* those of a CLI file.  (Where the check fails nothing is loaded and the prompt
\* comes all the same.)
ConfigurationLoaded ==
    pc = "cli" /\ Undisturbed /\ exercise.exe = "grpc" => \A s \in Switches :
        LET conf == exercise.runtime_json[s] IN
        IF conf # NoConf /\ (conf # NoConf => check_switch_conf(conf))
        THEN Loaded(procs[<<run, s>>].switch, conf)
        ELSE procs[<<run, s>>].switch.program = ProgramOf(s)

\* A run that is left by the user's prompt leaves the machine as it found it: the
\* next one, with the same port numbers, finds them free.
CleanRunsRepeat ==
    pc = "creating" /\ todo # <<>> /\ clean /\ foreign = {} =>
        ~check_listening_on_port(port(Head(todo)))

\* A run comes to the prompt or ends, unless a host's command does not end or,
\* without grpc, a switch neither ends nor listens (p4_mininet.py:112).
RunEnds ==
    pc # "off" ~> \/ pc \in {"off", "cli"}
                  \/ pc = "hosts" /\ ~exercise.commandsEnd
                  \/ pc = "polling" /\ exercise.exe = "thrift"

=============================================================================
