------------------------------- MODULE AppRunner -------------------------------
(* The other way to run a network (mininet/utils/p4apprunner.py): it compiles   *)
(* the program of a packaged application and runs a script for its target, for  *)
(* a network of several switches mininet/multi_switch_mininet.py with           *)
(* AppTopo and AppController.  An application is a record of what the manifest  *)
(* says and of how the commands it names behave.                                *)
EXTENDS AppTopo

CONSTANTS
    Apps,     \* the applications a run may be given
    None      \* an entry the manifest does not have

ASSUME NoneAssumption == None \notin {0, 1}

\* The targets in their order are those of the manifest, and a target's links are
\* pairs of nodes.
ASSUME AppAssumption ==
    \A a \in Apps :
        /\ ToSet(a.order) \subseteq DOMAIN a.targets
        /\ \A t \in DOMAIN a.targets : a.targets[t].links \in Seq(Nodes \X Nodes)

VARIABLES
    pc,       \* where runner and script are; "off": the runner has ended
    app,      \* the application
    output,   \* <program>.json: "absent", "shipped" in the package or "fresh"
    rv,       \* what run_command returned for the compiler
    network,  \* the emulated network: "none" or "up"
    next,     \* position in conf['hosts'], for the three loops of the script
    procs,    \* the processes of the hosts: state and return code
    signals,  \* the signals sent to the children of a host's process
    host_procs, return_codes,
    code,     \* the runner's exit status
    hidden,   \* history: a signal ended a command, which WEXITSTATUS reports as 0
    died      \* history: the script ended by an exception or a signal

runnerVars == <<app, output, rv>>
scriptVars == <<next, host_procs, return_codes>>
hostVars == <<procs, signals>>
historyVars == <<hidden, died>>
vars == <<pc, runnerVars, network, scriptVars, hostVars, code, historyVars>>

-----------------------------------------------------------------------------
(* The manifest.                                                            *)

\* read_manifest's choice of a target.
chosen_target(a) ==
    IF a.arg # None THEN a.arg
    ELSE IF a.default # None THEN a.default ELSE a.order[1]

Readable(a) ==
    /\ a.program
    /\ a.language # None
    /\ a.order # <<>>
    /\ chosen_target(a) \in ToSet(a.order)

conf == app.targets[chosen_target(app)]
backend == IF conf.use = None THEN chosen_target(app) ELSE conf.use
Hosts == DOMAIN conf.hosts

Init ==
    /\ pc = "manifest"
    /\ app \in Apps
    /\ output = IF app.shipped THEN "shipped" ELSE "absent"
    /\ rv = 0
    /\ network = "none"
    /\ next = 1
    /\ procs = <<>>
    /\ signals = <<>>
    /\ host_procs = <<>>
    /\ return_codes = <<>>
    /\ code = None
    /\ hidden = FALSE
    /\ died = FALSE

\* sys.exit of the runner.
Exit(status) ==
    /\ pc' = "off"
    /\ code' = status

Backends == {"mininet", "multiswitch", "stf", "custom", "compile-bmv2"}

\* A manifest that says too little ends the runner, and so does an unknown backend.
read_manifest ==
    /\ pc = "manifest"
    /\ IF Readable(app) /\ backend \in Backends
       THEN /\ pc' = "before"
            /\ procs' = [i \in Hosts |-> [state |-> "none", code |-> 0]]
            /\ signals' = [i \in Hosts |-> {}]
            /\ code' = code
       ELSE Exit(1) /\ UNCHANGED hostVars
    /\ UNCHANGED <<runnerVars, network, scriptVars, historyVars>>

-----------------------------------------------------------------------------
(* run_compile_bmv2.                                                        *)

Unmoved == UNCHANGED <<network, scriptVars, hostVars, historyVars>>

\* What a finished command does to the runner: os.WEXITSTATUS sees an exit status,
\* a signal it takes for 0.
Outcomes == {"ok", "fails", "signal"}
WEXITSTATUS(outcome) == IF outcome = "fails" THEN 1 ELSE 0

\* The commands before the compilation; their results are not looked at.
RunBefore ==
    /\ pc = "before"
    /\ IF conf.before = "bad" \/ app.language \notin {"p4-14", "p4-16"} \/ conf.flags = "bad"
       THEN Exit(1)
       ELSE pc' = "compile" /\ code' = code
    /\ UNCHANGED runnerVars
    /\ Unmoved

\* The compiler writes its output only when it succeeds.
Compile ==
    /\ pc = "compile"
    /\ pc' = "after"
    /\ \E outcome \in Outcomes :
         /\ rv' = WEXITSTATUS(outcome)
         /\ output' = IF outcome = "ok" THEN "fresh" ELSE output
         /\ hidden' = (hidden \/ outcome = "signal")
    /\ UNCHANGED <<app, network, scriptVars, hostVars, code, died>>

\* The commands after it run also when it failed.
RunAfter_Unchecked ==
    /\ pc = "after"
    /\ IF conf.after = "bad" THEN Exit(1) ELSE pc' = backend /\ code' = code
    /\ UNCHANGED runnerVars
    /\ Unmoved

RunAfter ==
    /\ pc = "after"
    /\ IF conf.after = "bad" \/ rv # 0 THEN Exit(1) ELSE pc' = backend /\ code' = code
    /\ UNCHANGED runnerVars
    /\ Unmoved

-----------------------------------------------------------------------------
(* The backends.                                                            *)

compile_only ==
    /\ pc = "compile-bmv2"
    /\ Exit(0)
    /\ UNCHANGED runnerVars
    /\ Unmoved

\* run_stf and run_custom: a command of the manifest, when it is given.
run_external ==
    /\ pc \in {"stf", "custom"}
    /\ IF ~(IF pc = "stf" THEN conf.test ELSE conf.program)
       THEN Exit(1) /\ UNCHANGED hidden
       ELSE \E outcome \in Outcomes :
              Exit(WEXITSTATUS(outcome)) /\ hidden' = (hidden \/ outcome = "signal")
    /\ UNCHANGED <<runnerVars, network, scriptVars, hostVars, died>>

\* The script ends by an exception; nothing of what it started is taken down.
ScriptDies ==
    /\ Exit(1)
    /\ died' = TRUE
    /\ UNCHANGED <<runnerVars, network, scriptVars, hostVars, hidden>>

\* Mininet creates the switches, whose constructor asks for the compiled program.
CreateNetwork ==
    /\ pc \in {"mininet", "multiswitch"}
    /\ IF output = "absent" \/ (pc = "multiswitch" /\ ~Numberable(conf.links))
       THEN ScriptDies
       ELSE /\ pc' = IF pc = "mininet" THEN "config" ELSE "controller"
            /\ network' = "up"
            /\ UNCHANGED <<runnerVars, scriptVars, hostVars, code, historyVars>>

\* A switch process that ends while it starts ends the script: exit(1).
SwitchFails ==
    /\ pc \in {"config", "controller"}
    /\ ScriptDies

\* The single switch's configuration: the option's default is not None, so the
\* script opens a file in every case.
configure ==
    /\ pc = "config"
    /\ IF conf.switch_config
       THEN /\ pc' = "single_cli"
            /\ UNCHANGED <<runnerVars, code>>
            /\ Unmoved
       ELSE ScriptDies

\* AppController.start reads the entry files and configures hosts and switches.
start_controller ==
    /\ pc = "controller"
    /\ IF conf.auto /\ conf.entries = "unreadable"
       THEN ScriptDies
       ELSE /\ pc' = IF conf.cli THEN "cli" ELSE "start"
            /\ UNCHANGED <<runnerVars, code>>
            /\ Unmoved

LeaveCli ==
    /\ pc \in {"cli", "single_cli"}
    /\ pc' = IF pc = "cli" THEN "start" ELSE "stop"
    /\ UNCHANGED <<runnerVars, code>>
    /\ Unmoved

-----------------------------------------------------------------------------
(* The processes of the hosts.                                              *)

Here == UNCHANGED <<runnerVars, network, code, historyVars>>

\* Mutant of StartHost: a process that is waited for is signalled at the end as well.
StartHost_Both ==
    LET host == conf.hosts[next] IN
    /\ pc = "start"
    /\ next \in Hosts
    /\ host.cmd /\ host.node \in HostsOf(conf.links)
    /\ procs' = [procs EXCEPT ![next].state = "running"]
    /\ host_procs' = Append(host_procs, next)
    /\ IF host.wait THEN pc' = "waiting" /\ next' = next
                    ELSE pc' = pc /\ next' = next + 1
    /\ UNCHANGED <<signals, return_codes>>
    /\ Here

StartHost ==
    LET host == conf.hosts[next] IN
    /\ pc = "start"
    /\ next \in Hosts
    /\ host.cmd /\ host.node \in HostsOf(conf.links)
    /\ procs' = [procs EXCEPT ![next].state = "running"]
    /\ IF host.wait
       THEN pc' = "waiting" /\ UNCHANGED <<next, host_procs>>
       ELSE pc' = pc /\ next' = next + 1 /\ host_procs' = Append(host_procs, next)
    /\ UNCHANGED <<signals, return_codes>>
    /\ Here

\* net.get of a host that no link names raises a KeyError.
UnknownHost ==
    /\ pc = "start"
    /\ next \in Hosts
    /\ conf.hosts[next].cmd /\ conf.hosts[next].node \notin HostsOf(conf.links)
    /\ ScriptDies

SkipHost ==
    /\ pc = "start"
    /\ next \in Hosts
    /\ ~conf.hosts[next].cmd
    /\ next' = next + 1
    /\ UNCHANGED <<pc, host_procs, return_codes, hostVars>>
    /\ Here

HostsStarted ==
    /\ pc = "start"
    /\ next \notin Hosts
    /\ pc' = "signal"
    /\ next' = 1
    /\ UNCHANGED <<host_procs, return_codes, hostVars>>
    /\ Here

\* _wait_for_exit of the process of host h.
Collects(h) ==
    /\ procs[h].state = "ended"
    /\ return_codes' = Append(return_codes, procs[h].code)
    /\ next' = next + 1
    /\ UNCHANGED <<host_procs, hostVars>>
    /\ Here

WaitForHost == pc = "waiting" /\ Collects(next) /\ pc' = "start"

\* pkill -INT: nobody has asked for the process's return code so far, so it is sent
\* whether or not the process has ended.
InterruptHost ==
    /\ pc = "signal"
    /\ next \in DOMAIN host_procs
    /\ signals' = [signals EXCEPT ![host_procs[next]] = @ \cup {"INT"}]
    /\ pc' = "check"
    /\ UNCHANGED <<procs, scriptVars>>
    /\ Here

\* Mutant of CheckHost: the result of pkill -0 is taken the wrong way round.
CheckHost_Inverted ==
    /\ pc = "check"
    /\ pc' = IF procs[host_procs[next]].state = "running" THEN "collect" ELSE "term"
    /\ UNCHANGED <<scriptVars, hostVars>>
    /\ Here

\* pkill -0
CheckHost ==
    /\ pc = "check"
    /\ pc' = IF procs[host_procs[next]].state = "running" THEN "term" ELSE "collect"
    /\ UNCHANGED <<scriptVars, hostVars>>
    /\ Here

TerminateHost ==
    /\ pc = "term"
    /\ signals' = [signals EXCEPT ![host_procs[next]] = @ \cup {"TERM"}]
    /\ pc' = "collect"
    /\ UNCHANGED <<procs, scriptVars>>
    /\ Here

\* Mutant of CollectHost: the script goes on without waiting.
CollectHost_NoWait ==
    /\ pc = "collect"
    /\ return_codes' = Append(return_codes, procs[host_procs[next]].code)
    /\ next' = next + 1
    /\ pc' = "signal"
    /\ UNCHANGED <<host_procs, hostVars>>
    /\ Here

CollectHost == pc = "collect" /\ Collects(host_procs[next]) /\ pc' = "signal"

\* The commands after the run, whose results are not looked at.
RunAfterCommands ==
    /\ pc = "signal"
    /\ next \notin DOMAIN host_procs
    /\ pc' = "stop"
    /\ UNCHANGED <<scriptVars, hostVars>>
    /\ Here

\* net.stop and the exit status of the script.
StopNetwork ==
    /\ pc = "stop"
    /\ network' = "none"
    /\ Exit(IF \E i \in DOMAIN return_codes : return_codes[i] # 0 THEN 1 ELSE 0)
    /\ UNCHANGED <<runnerVars, scriptVars, hostVars, historyVars>>

-----------------------------------------------------------------------------
(* The environment.                                                         *)

InScript == pc \notin {"manifest", "before", "compile", "after", "stf", "custom",
                       "compile-bmv2", "off"}

\* A signal ends the script: the runner takes it for success.
KillScript ==
    /\ InScript
    /\ Exit(WEXITSTATUS("signal"))
    /\ hidden' = TRUE
    /\ died' = TRUE
    /\ UNCHANGED <<runnerVars, network, scriptVars, hostVars>>

\* The user's interrupt raises an exception in the script; the runner, which waits
\* for it, ignores it.
InterruptScript == InScript /\ ScriptDies

\* A host's process ends by itself or because its children heed a signal.
HostEnds(h) ==
    /\ procs[h].state = "running"
    /\ conf.hosts[h].ends \/ signals[h] \cap conf.hosts[h].heeds # {}
    /\ \E c \in {0, 1} : procs' = [procs EXCEPT ![h] = [state |-> "ended", code |-> c]]
    /\ UNCHANGED <<pc, signals, scriptVars>>
    /\ Here

RunnerStep ==
    \/ read_manifest \/ RunBefore \/ Compile \/ RunAfter
    \/ compile_only \/ run_external
    \/ CreateNetwork \/ configure \/ start_controller \/ LeaveCli
    \/ StartHost \/ UnknownHost \/ SkipHost \/ HostsStarted \/ WaitForHost
    \/ InterruptHost \/ CheckHost \/ TerminateHost \/ CollectHost
    \/ RunAfterCommands \/ StopNetwork

Next ==
    \/ RunnerStep
    \/ SwitchFails \/ KillScript \/ InterruptScript
    \/ \E h \in DOMAIN procs : HostEnds(h)

Spec == Init /\ [][Next]_vars

\* The positions a host may have in an application.
HostIds == 1 .. 3

\* Commands end, users leave the command line, a process that can end ends.
FairSpec ==
    /\ Spec
    /\ WF_vars(RunnerStep)
    /\ \A h \in HostIds : WF_vars(h \in DOMAIN procs /\ HostEnds(h))

-----------------------------------------------------------------------------
(* Properties.                                                              *)

\* The values of the variables: every process that was started is either waited for
\* when it was started or on the list of those to be signalled, never both, and no
\* return code is collected twice (multi_switch_mininet.py, lines 190-222).
TypeOK ==
    /\ app \in Apps
    /\ output \in {"absent", "shipped", "fresh"}
    /\ network \in {"none", "up"}
    /\ code \in {None, 0, 1} /\ (code = None <=> pc # "off")
    /\ \A h \in DOMAIN procs : signals[h] \subseteq {"INT", "TERM"}
    /\ \A i \in DOMAIN host_procs :
         /\ procs[host_procs[i]].state # "none"
         /\ ~conf.hosts[host_procs[i]].wait
         /\ \A j \in DOMAIN host_procs : host_procs[i] = host_procs[j] => i = j
    /\ Len(return_codes) <=
         Cardinality({h \in DOMAIN procs : procs[h].state = "ended"})

\* Status 0 says that the program was compiled now, that every host's process has
\* ended with 0 and that the network is gone, unless a signal ended one of the
\* commands on the way (p4apprunner.py, lines 46-48 and 120-130,
\* multi_switch_mininet.py, lines 211-239).
SuccessMeansAll ==
    code = 0 /\ ~hidden =>
        /\ output = "fresh"
        /\ network = "none"
        /\ \A h \in DOMAIN procs : procs[h].state # "running" /\ procs[h].code = 0

\* A script that comes to its end, with whatever status, leaves neither the network
\* nor a process of a host behind (multi_switch_mininet.py, lines 211-231).
NothingLeft ==
    pc = "off" /\ ~died =>
        /\ network = "none"
        /\ \A h \in DOMAIN procs : procs[h].state # "running"

\* The paths that AppController asks for, from switches and hosts to hosts with no
\* other host on the way, are walks along links, no shorter ones exist, and where
\* none is found there is none (shortest_path.py, lines 19-30).
ShortestPaths ==
    pc = "controller" =>
        LET nodes == NodesOf(conf.links)
            hosts == HostsOf(conf.links)
        IN \A a \in nodes, b \in hosts :
             LET path == get_path(nodes, conf.links, a, b, hosts)
                 Ways(k) == Walks(nodes, conf.links, a, b, k, hosts)
             IN IF path = <<>> THEN \A k \in 0 .. Cardinality(nodes) : Ways(k) = {}
                ELSE /\ Steps(path) \in Ways(Len(path) - 1)
                     /\ \A k \in 0 .. Len(path) - 2 : Ways(k) = {}

\* The port numbers that AppTopo writes down are those that Mininet gives, as long
\* as every link joins two nodes that no other link joins (apptopo.py, lines 37-64).
PortsMatch ==
    pc = "controller" /\ Simple(conf.links) =>
        LET calls == addLinks(conf.links) IN
        \A i \in DOMAIN calls : \A j \in {1, 2} :
            LET sw == calls[i][j]
                peer == calls[i][3 - j]
            IN sw.kind = "s" =>
                 /\ port_index(conf.links, sw, peer) = MininetPort(conf.links, i, sw)
                 /\ peer.kind = "h" =>
                      host_link(conf.links, peer, sw).sw_port = MininetPort(conf.links, i, sw)

\* The runner ends, unless a process it waits for does not end by itself or one it
\* signals heeds neither signal (multi_switch_mininet.py, lines 178-222).  The
\* switches are taken to come up or to end: the poll that waits for them has no
\* limit of its own (mininet/p4_mininet.py, lines 99-110).
Ending ==
    backend = "multiswitch" =>
        \A h \in Hosts : LET host == conf.hosts[h] IN
            host.cmd => host.ends \/ (~host.wait /\ host.heeds # {})

AppEnds == Readable(app) /\ Ending => <>(pc = "off")

=============================================================================
