--------------------------- MODULE AppRunner_proofs ---------------------------
(* Theorems about AppRunner, for every set of applications: what is left when   *)
(* the runner has ended, what its exit status says, which paths the controller  *)
(* is given and which port numbers are written down.                            *)
EXTENDS AppRunner, FiniteSetTheorems, WellFoundedInduction, TLAPS

-----------------------------------------------------------------------------
(* The inductive invariant.                                                 *)

\* Before the script of a network has begun.
Early == {"manifest", "before", "compile", "after"} \cup Backends
\* Before the first process of a host.
Preparing == {"config", "controller", "cli", "single_cli"}
Signalling == {"signal", "check", "term", "collect"}

Places == Early \cup Preparing \cup {"start", "waiting"} \cup Signalling \cup {"stop", "off"}

Process == [state : {"none", "running", "ended"}, code : {0, 1}]

\* The types the other parts need.
Shape ==
    /\ pc \in Places
    /\ pc \in {"before", "compile", "after"} => backend \in Backends
    /\ pc # "off" => code = None
    /\ rv \in {0, 1}
    /\ procs \in [DOMAIN procs -> Process]
    /\ pc \notin {"manifest", "off"} => DOMAIN procs = Hosts
    /\ next \in Nat \ {0}
    /\ pc = "waiting" => next \in Hosts
    /\ host_procs \in Seq(DOMAIN procs)
    /\ pc \in {"check", "term", "collect"} => next \in DOMAIN host_procs
    /\ return_codes \in Seq({0, 1})

\* Nothing has been started yet.
Fresh ==
    /\ pc \in Early => network = "none"
    /\ pc \in Early \cup Preparing =>
         /\ \A h \in DOMAIN procs : procs[h].state = "none" /\ procs[h].code = 0
         /\ host_procs = <<>>

\* The script still waits for the process of h, now or later.
Pending(h) ==
    \/ pc = "waiting" /\ h = next
    \/ /\ pc \in {"start", "waiting"} \cup Signalling
       /\ \E i \in DOMAIN host_procs :
            host_procs[i] = h /\ (pc \in Signalling => i >= next)

BadCode == \E i \in DOMAIN return_codes : return_codes[i] # 0

\* No process is forgotten, and no result of one.
NoneForgotten ==
    pc # "off" => \A h \in DOMAIN procs :
        /\ procs[h].state = "running" => Pending(h)
        /\ procs[h].code # 0 => Pending(h) \/ BadCode

\* What the network is built from has been compiled now.
Compiled ==
    ~hidden =>
        /\ pc = "after" /\ rv = 0 => output = "fresh"
        /\ pc \in Backends \cup Preparing \cup {"start", "waiting", "stop"} \cup Signalling =>
             output = "fresh"

EndInv == Shape /\ Fresh /\ NoneForgotten /\ Compiled /\ NothingLeft /\ SuccessMeansAll


-----------------------------------------------------------------------------
(* It holds at the beginning and every step keeps it.                       *)

LEMMA EmptyFunction == DOMAIN <<>> = {} /\ \A S, T : <<>> \in [{} -> T] /\ <<>> \in Seq(S)
<1>1. \A S : <<>> \in Seq(S)
  OBVIOUS
<1>2. DOMAIN <<>> = {}
  OBVIOUS
<1>3. \A T : <<>> \in [{} -> T]
  <2> TAKE T
  <2>1. <<>> = [x \in 1 .. 0 |-> 0]
    OBVIOUS
  <2> QED
    BY <2>1, <1>2
<1> QED
  BY <1>1, <1>2, <1>3

LEMMA InitEnd == Init => EndInv
<1> SUFFICES ASSUME Init PROVE EndInv
  OBVIOUS
<1>1. DOMAIN procs = {} /\ procs \in [{} -> Process]
  BY EmptyFunction DEF Init
<1>2. Shape
  BY <1>1, EmptyFunction DEF Init, Shape, Places, Early
<1>3. Fresh /\ NoneForgotten
  BY <1>1 DEF Init, Fresh, NoneForgotten
<1>4. Compiled /\ NothingLeft /\ SuccessMeansAll
  BY NoneAssumption
     DEF Init, Compiled, NothingLeft, SuccessMeansAll, Backends, Preparing, Signalling
<1> QED
  BY <1>2, <1>3, <1>4 DEF EndInv

\* No step exchanges the application, nor what the manifest makes of it.
LEMMA AppKept ==
    ASSUME [Next]_vars
    PROVE  app' = app /\ Hosts' = Hosts /\ backend' = backend
<1>1. app' = app
  BY DEF Next, RunnerStep, vars, runnerVars, read_manifest, RunBefore, Compile, RunAfter,
         compile_only, run_external, CreateNetwork, configure, start_controller, LeaveCli,
         StartHost, UnknownHost, SkipHost, HostsStarted, WaitForHost, InterruptHost,
         CheckHost, TerminateHost, CollectHost, RunAfterCommands, StopNetwork, SwitchFails,
         KillScript, InterruptScript, HostEnds, ScriptDies, Unmoved, Here, Collects
<1> QED
  BY <1>1 DEF Hosts, backend, conf, chosen_target

\* A result that is added is kept, and a bad one is noticed.
LEMMA AppendCode ==
    ASSUME NEW codes \in Seq({0, 1}), NEW c \in {0, 1}
    PROVE  /\ Append(codes, c) \in Seq({0, 1})
           /\ \A i \in DOMAIN codes : i \in DOMAIN Append(codes, c)
                                      /\ Append(codes, c)[i] = codes[i]
           /\ c # 0 => \E i \in DOMAIN Append(codes, c) : Append(codes, c)[i] # 0
<1>1. Append(codes, c)[Len(codes) + 1] = c /\ Len(codes) + 1 \in DOMAIN Append(codes, c)
  OBVIOUS
<1> QED
  BY <1>1

LEMMA StepEnd == EndInv /\ [Next]_vars => EndInv'
<1> SUFFICES ASSUME EndInv, [Next]_vars PROVE EndInv'
  OBVIOUS
<1>1. app' = app /\ Hosts' = Hosts /\ backend' = backend
  BY AppKept
\* An exception in the script.
<1>dies. ASSUME ScriptDies, pc # "off" PROVE EndInv'
  BY <1>dies, <1>1, NoneAssumption
     DEF ScriptDies, runnerVars, scriptVars, hostVars, Exit, EndInv, Shape, Fresh,
         NoneForgotten, Pending, BadCode, Compiled, NothingLeft, SuccessMeansAll, Places,
         Early, Preparing, Signalling, Backends
<1>2. CASE RunBefore
  BY <1>2, <1>1, NoneAssumption
     DEF RunBefore, Unmoved, runnerVars, scriptVars, hostVars, historyVars, Exit, EndInv, Shape, Fresh, NoneForgotten,
         Pending, BadCode, Compiled, NothingLeft, SuccessMeansAll, Places, Early, Preparing,
         Signalling, Backends
<1>3. CASE Compile
  <2>1. PICK outcome \in Outcomes :
           /\ rv' = WEXITSTATUS(outcome)
           /\ output' = IF outcome = "ok" THEN "fresh" ELSE output
           /\ hidden' = (hidden \/ outcome = "signal")
    BY <1>3 DEF Compile
  <2>2. rv' \in {0, 1} /\ (rv' = 0 /\ ~hidden' => output' = "fresh")
    <3>1. CASE outcome = "ok"
      BY <3>1, <2>1 DEF WEXITSTATUS
    <3>2. CASE outcome = "fails"
      BY <3>2, <2>1 DEF WEXITSTATUS
    <3>3. CASE outcome = "signal"
      BY <3>3, <2>1 DEF WEXITSTATUS
    <3> QED
      BY <3>1, <3>2, <3>3 DEF Outcomes
  <2> QED
    BY <2>2, <1>3, <1>1
       DEF Compile, scriptVars, hostVars, EndInv, Shape, Fresh, NoneForgotten, Pending,
           BadCode, Compiled, NothingLeft, SuccessMeansAll, Places, Early, Preparing,
           Signalling, Backends
<1>4. CASE RunAfter
  BY <1>4, <1>1, NoneAssumption
     DEF RunAfter, Unmoved, runnerVars, scriptVars, hostVars, historyVars, Exit, EndInv, Shape, Fresh, NoneForgotten,
         Pending, BadCode, Compiled, NothingLeft, SuccessMeansAll, Places, Early, Preparing,
         Signalling, Backends
<1>5. CASE compile_only
  BY <1>5, <1>1, NoneAssumption
     DEF compile_only, Unmoved, runnerVars, scriptVars, hostVars, historyVars, Exit, EndInv, Shape, Fresh, NoneForgotten,
         Pending, BadCode, Compiled, NothingLeft, SuccessMeansAll, Places, Early, Preparing,
         Signalling, Backends
<1>6. CASE run_external
  BY <1>6, <1>1, NoneAssumption
     DEF run_external, runnerVars, scriptVars, hostVars, Exit, WEXITSTATUS, Outcomes, EndInv, Shape, Fresh, NoneForgotten,
         Pending, BadCode, Compiled, NothingLeft, SuccessMeansAll, Places, Early, Preparing,
         Signalling, Backends
<1>7. CASE CreateNetwork
  BY <1>7, <1>1, NoneAssumption
     DEF CreateNetwork, ScriptDies, runnerVars, scriptVars, hostVars, historyVars, Exit, EndInv, Shape, Fresh, NoneForgotten,
         Pending, BadCode, Compiled, NothingLeft, SuccessMeansAll, Places, Early, Preparing,
         Signalling, Backends
<1>8. CASE configure
  <2>1. CASE conf.switch_config
    BY <2>1, <1>8, <1>1
       DEF configure, Unmoved, runnerVars, scriptVars, hostVars, historyVars, EndInv, Shape,
           Fresh, NoneForgotten, Pending, BadCode, Compiled, NothingLeft, SuccessMeansAll,
           Places, Early, Preparing, Signalling, Backends
  <2>2. CASE ~(conf.switch_config)
    BY <2>2, <1>8, <1>dies DEF configure
  <2> QED
    BY <2>1, <2>2
<1>9. CASE start_controller
  <2>1. CASE ~(conf.auto /\ conf.entries = "unreadable")
    BY <2>1, <1>9, <1>1
       DEF start_controller, Unmoved, runnerVars, scriptVars, hostVars, historyVars, EndInv, Shape,
           Fresh, NoneForgotten, Pending, BadCode, Compiled, NothingLeft, SuccessMeansAll,
           Places, Early, Preparing, Signalling, Backends
  <2>2. CASE ~(~(conf.auto /\ conf.entries = "unreadable"))
    BY <2>2, <1>9, <1>dies DEF start_controller
  <2> QED
    BY <2>1, <2>2
<1>10. CASE LeaveCli
  BY <1>10, <1>1, NoneAssumption
     DEF LeaveCli, Unmoved, runnerVars, scriptVars, hostVars, historyVars, EndInv, Shape, Fresh, NoneForgotten,
         Pending, BadCode, Compiled, NothingLeft, SuccessMeansAll, Places, Early, Preparing,
         Signalling, Backends
<1>11. CASE SwitchFails
  BY <1>11, <1>dies DEF SwitchFails
<1>12. CASE UnknownHost
  BY <1>12, <1>dies DEF UnknownHost
<1>13. CASE InterruptScript
  BY <1>13, <1>dies DEF InterruptScript, InScript
<1>14. CASE KillScript
  BY <1>14, <1>1, NoneAssumption
     DEF KillScript, InScript, runnerVars, scriptVars, hostVars, Exit, WEXITSTATUS, EndInv, Shape, Fresh, NoneForgotten,
         Pending, BadCode, Compiled, NothingLeft, SuccessMeansAll, Places, Early, Preparing,
         Signalling, Backends
<1>15. CASE SkipHost
  BY <1>15, <1>1, NoneAssumption
     DEF SkipHost, Here, runnerVars, hostVars, historyVars, EndInv, Shape, Fresh, NoneForgotten,
         Pending, BadCode, Compiled, NothingLeft, SuccessMeansAll, Places, Early, Preparing,
         Signalling, Backends
<1>16. CASE HostsStarted
  BY <1>16, <1>1, NoneAssumption
     DEF HostsStarted, Here, runnerVars, hostVars, historyVars, EndInv, Shape, Fresh, NoneForgotten,
         Pending, BadCode, Compiled, NothingLeft, SuccessMeansAll, Places, Early, Preparing,
         Signalling, Backends
<1>17. CASE InterruptHost
  BY <1>17, <1>1, NoneAssumption
     DEF InterruptHost, Here, runnerVars, scriptVars, historyVars, EndInv, Shape, Fresh, NoneForgotten,
         Pending, BadCode, Compiled, NothingLeft, SuccessMeansAll, Places, Early, Preparing,
         Signalling, Backends
<1>18. CASE CheckHost
  BY <1>18, <1>1, NoneAssumption
     DEF CheckHost, Here, runnerVars, scriptVars, hostVars, historyVars, EndInv, Shape, Fresh, NoneForgotten,
         Pending, BadCode, Compiled, NothingLeft, SuccessMeansAll, Places, Early, Preparing,
         Signalling, Backends
<1>19. CASE TerminateHost
  BY <1>19, <1>1, NoneAssumption
     DEF TerminateHost, Here, runnerVars, scriptVars, historyVars, EndInv, Shape, Fresh, NoneForgotten,
         Pending, BadCode, Compiled, NothingLeft, SuccessMeansAll, Places, Early, Preparing,
         Signalling, Backends
<1>20. CASE RunAfterCommands
  BY <1>20, <1>1, NoneAssumption
     DEF RunAfterCommands, Here, runnerVars, scriptVars, hostVars, historyVars, EndInv, Shape, Fresh, NoneForgotten,
         Pending, BadCode, Compiled, NothingLeft, SuccessMeansAll, Places, Early, Preparing,
         Signalling, Backends
<1>21. CASE StopNetwork
  BY <1>21, <1>1, NoneAssumption
     DEF StopNetwork, Exit, runnerVars, scriptVars, hostVars, historyVars, EndInv, Shape, Fresh, NoneForgotten,
         Pending, BadCode, Compiled, NothingLeft, SuccessMeansAll, Places, Early, Preparing,
         Signalling, Backends
<1>22. CASE WaitForHost
  <2> DEFINE h == next
  <2>1. /\ h \in DOMAIN procs /\ procs[h].state = "ended" /\ procs[h].code \in {0, 1}
        /\ return_codes \in Seq({0, 1}) /\ next \in Nat \ {0}
        /\ return_codes' = Append(return_codes, procs[h].code)
    BY <1>22 DEF WaitForHost, Collects, EndInv, Shape, Process
  <2>2. return_codes' \in Seq({0, 1}) /\ (BadCode \/ procs[h].code # 0 => BadCode')
    BY <2>1, AppendCode DEF BadCode
  <2>3. \A g \in DOMAIN procs : Pending(g) => Pending(g)' \/ g = h
    BY <1>22, <2>1
       DEF WaitForHost, Collects, Here, EndInv, Shape, Pending, Signalling
  <2>4. Shape'
    BY <2>1, <2>2, <1>22, <1>1
       DEF WaitForHost, Collects, Here, runnerVars, hostVars, EndInv, Shape, Places, Early,
           Signalling, Backends
  <2>5. NoneForgotten'
    BY <2>1, <2>2, <2>3, <1>22
       DEF WaitForHost, Collects, Here, hostVars, EndInv, NoneForgotten
  <2>6. Fresh' /\ Compiled' /\ NothingLeft' /\ SuccessMeansAll'
    BY <1>22, NoneAssumption
       DEF WaitForHost, Collects, Here, runnerVars, hostVars, historyVars, EndInv, Shape, Fresh,
           Compiled, NothingLeft, SuccessMeansAll, Early, Preparing, Signalling, Backends
  <2> QED
    BY <2>4, <2>5, <2>6 DEF EndInv
<1>23. CASE CollectHost
  <2> DEFINE h == host_procs[next]
  <2>1. /\ h \in DOMAIN procs /\ procs[h].state = "ended" /\ procs[h].code \in {0, 1}
        /\ return_codes \in Seq({0, 1}) /\ next \in Nat \ {0}
        /\ return_codes' = Append(return_codes, procs[h].code)
    BY <1>23 DEF CollectHost, Collects, EndInv, Shape, Process
  <2>2. return_codes' \in Seq({0, 1}) /\ (BadCode \/ procs[h].code # 0 => BadCode')
    BY <2>1, AppendCode DEF BadCode
  <2>3. \A g \in DOMAIN procs : Pending(g) => Pending(g)' \/ g = h
    BY <1>23, <2>1
       DEF CollectHost, Collects, Here, EndInv, Shape, Pending, Signalling
  <2>4. Shape'
    BY <2>1, <2>2, <1>23, <1>1
       DEF CollectHost, Collects, Here, runnerVars, hostVars, EndInv, Shape, Places, Early,
           Signalling, Backends
  <2>5. NoneForgotten'
    BY <2>1, <2>2, <2>3, <1>23
       DEF CollectHost, Collects, Here, hostVars, EndInv, NoneForgotten
  <2>6. Fresh' /\ Compiled' /\ NothingLeft' /\ SuccessMeansAll'
    BY <1>23, NoneAssumption
       DEF CollectHost, Collects, Here, runnerVars, hostVars, historyVars, EndInv, Shape, Fresh,
           Compiled, NothingLeft, SuccessMeansAll, Early, Preparing, Signalling, Backends
  <2> QED
    BY <2>4, <2>5, <2>6 DEF EndInv
<1>24. CASE StartHost
  <2>1. /\ next \in DOMAIN procs /\ next \in Nat \ {0} /\ host_procs \in Seq(DOMAIN procs)
        /\ pc = "start"
    BY <1>24 DEF StartHost, EndInv, Shape
  <2>2. procs' \in [DOMAIN procs -> Process] /\ DOMAIN procs' = DOMAIN procs
    BY <1>24, <2>1 DEF StartHost, EndInv, Shape, Process
  <2>3. \A g \in DOMAIN procs :
          procs'[g].code = procs[g].code /\ (g # next => procs'[g].state = procs[g].state)
    BY <1>24, <2>1 DEF StartHost, EndInv, Shape, Process
  <2>4. CASE conf.hosts[next].wait
    <3>1. pc' = "waiting" /\ next' = next /\ host_procs' = host_procs
      BY <2>4, <1>24 DEF StartHost
    <3>2. Pending(next)' /\ \A g \in DOMAIN procs : Pending(g) => Pending(g)'
      BY <3>1, <2>1 DEF Pending, Signalling
    <3>3. Shape'
      BY <3>1, <2>1, <2>2, <1>24, <1>1
         DEF StartHost, Here, runnerVars, EndInv, Shape, Places
    <3>4. NoneForgotten'
      BY <3>1, <3>2, <2>1, <2>2, <2>3, <1>24
         DEF StartHost, EndInv, NoneForgotten, BadCode
    <3>5. Fresh' /\ Compiled' /\ NothingLeft' /\ SuccessMeansAll'
      BY <3>1, <2>1, <1>24, NoneAssumption
         DEF StartHost, Here, runnerVars, historyVars, EndInv, Shape, Fresh, Compiled,
             NothingLeft, SuccessMeansAll, Early, Preparing, Signalling, Backends
    <3> QED
      BY <3>3, <3>4, <3>5 DEF EndInv
  <2>5. CASE ~conf.hosts[next].wait
    <3>1. pc' = "start" /\ next' = next + 1 /\ host_procs' = Append(host_procs, next)
      BY <2>5, <1>24, <2>1 DEF StartHost
    <3>2. /\ host_procs' \in Seq(DOMAIN procs)
          /\ \A i \in DOMAIN host_procs : i \in DOMAIN host_procs' /\ host_procs'[i] = host_procs[i]
          /\ \E i \in DOMAIN host_procs' : host_procs'[i] = next
      <4>1. host_procs'[Len(host_procs) + 1] = next
            /\ Len(host_procs) + 1 \in DOMAIN host_procs'
        BY <3>1, <2>1
      <4> QED
        BY <4>1, <3>1, <2>1
    <3>3. \A g \in DOMAIN procs : Pending(g) \/ g = next => Pending(g)'
      BY <3>1, <3>2, <2>1 DEF Pending, Signalling
    <3>4. Shape'
      BY <3>1, <3>2, <2>1, <2>2, <1>24, <1>1
         DEF StartHost, Here, runnerVars, EndInv, Shape, Places
    <3>5. NoneForgotten'
      BY <3>1, <3>3, <2>1, <2>2, <2>3, <1>24
         DEF StartHost, EndInv, NoneForgotten, BadCode
    <3>6. Fresh' /\ Compiled' /\ NothingLeft' /\ SuccessMeansAll'
      BY <3>1, <2>1, <1>24, NoneAssumption
         DEF StartHost, Here, runnerVars, historyVars, EndInv, Shape, Fresh, Compiled,
             NothingLeft, SuccessMeansAll, Early, Preparing, Signalling, Backends
    <3> QED
      BY <3>4, <3>5, <3>6 DEF EndInv
  <2> QED
    BY <2>4, <2>5
<1>25. CASE read_manifest
  <2>1. CASE Readable(app) /\ backend \in Backends
    <3>1. /\ pc' = "before" /\ code' = code /\ pc = "manifest"
          /\ procs' = [i \in Hosts |-> [state |-> "none", code |-> 0]]
      BY <2>1, <1>25 DEF read_manifest
    <3>2. host_procs = <<>> /\ host_procs' = <<>> /\ backend' \in Backends
      BY <3>1, <2>1, <1>25, <1>1 DEF read_manifest, scriptVars, EndInv, Fresh, Early
    <3>3. Shape'
      BY <3>1, <3>2, <1>25, <1>1, EmptyFunction
         DEF read_manifest, runnerVars, scriptVars, EndInv, Shape, Process, Places, Early
    <3>4. Fresh' /\ NoneForgotten'
      BY <3>1, <3>2, <1>25
         DEF read_manifest, EndInv, Fresh, NoneForgotten, Early
    <3>5. Compiled' /\ NothingLeft' /\ SuccessMeansAll'
      BY <3>1, <1>25, NoneAssumption
         DEF read_manifest, historyVars, EndInv, Shape, Compiled, NothingLeft,
             SuccessMeansAll, Preparing, Signalling, Backends
    <3> QED
      BY <3>3, <3>4, <3>5 DEF EndInv
  <2>2. CASE ~(Readable(app) /\ backend \in Backends)
    BY <2>2, <1>25, <1>1, NoneAssumption
       DEF read_manifest, Exit, runnerVars, scriptVars, hostVars, historyVars, EndInv, Shape,
           Fresh, NoneForgotten, Compiled, NothingLeft, SuccessMeansAll, Places, Early,
           Preparing, Signalling, Backends
  <2> QED
    BY <2>1, <2>2
<1>26. ASSUME NEW h \in DOMAIN procs, HostEnds(h) PROVE EndInv'
  BY <1>26, <1>1, NoneAssumption
     DEF HostEnds, Here, runnerVars, scriptVars, historyVars, EndInv, Shape, Fresh, NoneForgotten, Process,
         Pending, BadCode, Compiled, NothingLeft, SuccessMeansAll, Places, Early, Preparing,
         Signalling, Backends
<1>27. CASE UNCHANGED vars
  BY <1>27, <1>1 DEF vars, runnerVars, scriptVars, hostVars, historyVars, EndInv, Shape, Fresh, NoneForgotten,
         Pending, BadCode, Compiled, NothingLeft, SuccessMeansAll
<1> QED
  BY <1>2, <1>3, <1>4, <1>5, <1>6, <1>7, <1>8, <1>9, <1>10, <1>11, <1>12, <1>13, <1>14, <1>15, <1>16, <1>17, <1>18, <1>19, <1>20, <1>21, <1>22, <1>23, <1>24, <1>25, <1>26, <1>27 DEF Next, RunnerStep

LEMMA EndAlways == Spec => []EndInv
<1>1. Init => EndInv
  BY InitEnd
<1>2. EndInv /\ [Next]_vars => EndInv'
  BY StepEnd
<1> QED
  BY <1>1, <1>2, PTL DEF Spec

-----------------------------------------------------------------------------
(* The lists of the script.                                                 *)

\* What is said of the variables besides Shape.
Kinds ==
    /\ app \in Apps
    /\ output \in {"absent", "shipped", "fresh"}
    /\ network \in {"none", "up"}
    /\ code \in {None, 0, 1} /\ (code = None <=> pc # "off")
    /\ signals \in [DOMAIN procs -> SUBSET {"INT", "TERM"}]

Started == {h \in DOMAIN procs : procs[h].state # "none"}
Ended == {h \in DOMAIN procs : procs[h].state = "ended"}

\* The list has, once each, the processes that were started and not waited for;
\* they come before the host the first loop is at, and none comes after it.
Listed ==
    /\ IsFiniteSet(Started)
    /\ \A i \in DOMAIN host_procs :
         /\ host_procs[i] \in Started /\ ~conf.hosts[host_procs[i]].wait
         /\ \A j \in DOMAIN host_procs : host_procs[i] = host_procs[j] => i = j
         /\ pc \in {"start", "waiting"} => host_procs[i] \in Nat /\ host_procs[i] < next
    /\ pc = "waiting" => conf.hosts[next].wait
    /\ pc \in {"start", "waiting"} => \A h \in DOMAIN procs :
         h \in Nat /\ (h > next \/ (h = next /\ pc = "start")) => procs[h].state = "none"

\* The processes whose return codes have been collected: before the list is gone
\* through those that were waited for, then also those before its position.
Collected ==
    {h \in Ended : /\ conf.hosts[h].wait
                   /\ pc \in {"start", "waiting"} => h \in Nat /\ h < next}
    \cup {h \in Ended : pc \in Signalling /\ \E i \in DOMAIN host_procs :
                          i < next /\ host_procs[i] = h}

\* At most one return code for each.
Counted ==
    /\ pc \in Early \cup Preparing => return_codes = <<>>
    /\ pc \in {"start", "waiting"} \cup Signalling =>
         Len(return_codes) <= Cardinality(Collected)
    /\ Len(return_codes) <= Cardinality(Ended)

ListInv == Kinds /\ Listed /\ Counted

LEMMA EndedFinite ==
    ASSUME IsFiniteSet(Started)
    PROVE  /\ IsFiniteSet(Ended) /\ Cardinality(Ended) \in Nat
           /\ \A S \in SUBSET Ended : 
                /\ IsFiniteSet(S) /\ Cardinality(S) \in Nat
                /\ Cardinality(S) <= Cardinality(Ended)
<1>1. Ended \subseteq Started
  BY DEF Ended, Started
<1>2. IsFiniteSet(Ended)
  BY <1>1, FS_Subset
<1> QED
  BY <1>2, FS_Subset, FS_CardinalityType

LEMMA InitLists == Init => ListInv
<1> SUFFICES ASSUME Init PROVE ListInv
  OBVIOUS
<1>1. DOMAIN procs = {} /\ signals \in [{} -> SUBSET {"INT", "TERM"}] /\ Started = {}
  BY EmptyFunction DEF Init, Started
<1>2. Kinds
  BY <1>1, NoneAssumption DEF Init, Kinds
<1>3. Listed
  BY <1>1, FS_EmptySet, EmptyFunction DEF Init, Listed
<1>4. Len(return_codes) = 0
  BY DEF Init
<1>5. Counted
  BY <1>1, <1>3, <1>4, EndedFinite DEF Init, Counted, Listed, Signalling
<1> QED
  BY <1>2, <1>3, <1>5 DEF ListInv

LEMMA KindsStep == EndInv /\ Kinds /\ [Next]_vars => Kinds'
<1> SUFFICES ASSUME EndInv, Kinds, [Next]_vars PROVE Kinds'
  OBVIOUS
<1>1. app' = app
  BY AppKept
<1> USE <1>1, NoneAssumption DEF Kinds
<1>dies. ASSUME ScriptDies PROVE Kinds'
  BY <1>dies DEF ScriptDies, Exit, runnerVars, hostVars
<1>2. CASE SwitchFails \/ InterruptScript \/ UnknownHost
  BY <1>2, <1>dies DEF SwitchFails, InterruptScript, UnknownHost
<1>3. CASE RunBefore \/ RunAfter \/ compile_only
  BY <1>3, NoneAssumption
     DEF RunBefore, RunAfter, compile_only, Exit, runnerVars, Unmoved, hostVars, EndInv, Shape,
         Backends
<1>4. CASE Compile
  BY <1>4 DEF Compile, hostVars
<1>5. CASE run_external
  BY <1>5 DEF run_external, Exit, WEXITSTATUS, runnerVars, hostVars
<1>6. CASE CreateNetwork
  BY <1>6, <1>dies DEF CreateNetwork, runnerVars, hostVars
<1>7. CASE configure \/ start_controller \/ LeaveCli
  BY <1>7, <1>dies
     DEF configure, start_controller, LeaveCli, Unmoved, runnerVars, hostVars
<1>8. CASE KillScript
  BY <1>8 DEF KillScript, InScript, Exit, WEXITSTATUS, runnerVars, hostVars
<1>9. CASE StartHost
  <2>1. DOMAIN procs' = DOMAIN procs
    BY <1>9 DEF StartHost
  <2> QED
    BY <2>1, <1>9 DEF StartHost, Here, runnerVars
<1>10. CASE SkipHost \/ HostsStarted
  BY <1>10 DEF SkipHost, HostsStarted, Here, runnerVars, hostVars
<1>11. CASE WaitForHost \/ CollectHost
  BY <1>11 DEF WaitForHost, CollectHost, Collects, Here, runnerVars, hostVars
<1>12. CASE InterruptHost \/ TerminateHost
  <2>1. host_procs[next] \in DOMAIN procs
    BY <1>12 DEF InterruptHost, TerminateHost, EndInv, Shape
  <2> QED
    BY <2>1, <1>12 DEF InterruptHost, TerminateHost, Here, runnerVars
<1>13. CASE CheckHost \/ RunAfterCommands
  BY <1>13 DEF CheckHost, RunAfterCommands, Here, runnerVars, hostVars
<1>14. CASE StopNetwork
  BY <1>14 DEF StopNetwork, Exit, runnerVars, hostVars
<1>15. CASE read_manifest
  <2>1. CASE Readable(app) /\ backend \in Backends
    <3>1. DOMAIN procs' = Hosts /\ signals' = [h \in Hosts |-> {}]
      BY <2>1, <1>15 DEF read_manifest
    <3>2. signals' \in [DOMAIN procs' -> SUBSET {"INT", "TERM"}]
      BY <3>1
    <3> QED
      BY <2>1, <3>2, <1>15 DEF read_manifest, runnerVars
  <2>2. CASE ~(Readable(app) /\ backend \in Backends)
    BY <2>2, <1>15 DEF read_manifest, Exit, runnerVars, hostVars
  <2> QED
    BY <2>1, <2>2
<1>16. ASSUME NEW h \in DOMAIN procs, HostEnds(h) PROVE Kinds'
  BY <1>16 DEF HostEnds, Here, runnerVars
<1>17. CASE UNCHANGED vars
  BY <1>17 DEF vars, runnerVars, hostVars
<1> QED
  BY <1>2, <1>3, <1>4, <1>5, <1>6, <1>7, <1>8, <1>9, <1>10, <1>11, <1>12, <1>13, <1>14,
     <1>15, <1>16, <1>17 DEF Next, RunnerStep

\* The steps that leave lists and processes alone.
Aside ==
    /\ UNCHANGED <<scriptVars, procs>>
    /\ \/ pc' = pc
       \/ pc' \notin {"waiting"} \cup Signalling /\ pc \in Early \cup Preparing
       \/ pc' \in {"stop", "off"}
       \/ pc' \in Signalling /\ pc \in Signalling

LEMMA AsideSteps ==
    ASSUME EndInv, [Next]_vars
    PROVE  \/ Aside
           \/ StartHost \/ SkipHost \/ HostsStarted \/ WaitForHost \/ CollectHost
           \/ read_manifest
           \/ \E h \in DOMAIN procs : HostEnds(h)
<1> USE DEF Aside, Early, Preparing, Signalling, Backends, scriptVars, hostVars, Unmoved, Here,
            Exit
<1>1. ASSUME ScriptDies PROVE Aside
  BY <1>1 DEF ScriptDies
<1>2. CASE SwitchFails \/ InterruptScript \/ UnknownHost
  BY <1>1, <1>2 DEF SwitchFails, InterruptScript, UnknownHost
<1>3. CASE RunBefore \/ Compile \/ RunAfter
  BY <1>3 DEF RunBefore, Compile, RunAfter, EndInv, Shape
<1>4. CASE compile_only \/ run_external \/ KillScript \/ StopNetwork
  BY <1>4 DEF compile_only, run_external, KillScript, StopNetwork
<1>5. CASE CreateNetwork \/ configure \/ start_controller \/ LeaveCli
  BY <1>1, <1>5 DEF CreateNetwork, configure, start_controller, LeaveCli
<1>6. CASE InterruptHost \/ CheckHost \/ TerminateHost \/ RunAfterCommands
  BY <1>6 DEF InterruptHost, CheckHost, TerminateHost, RunAfterCommands
<1>7. CASE UNCHANGED vars
  BY <1>7 DEF vars
<1> QED
  BY <1>2, <1>3, <1>4, <1>5, <1>6, <1>7 DEF Next, RunnerStep

LEMMA ListAside ==
    ASSUME EndInv, ListInv, Aside, conf' = conf
    PROVE  Listed' /\ Counted'
<1> USE DEF ListInv, scriptVars
<1>1. Started' = Started /\ Ended' = Ended
  BY DEF Aside, Started, Ended
<1>2. Listed'
  BY <1>1 DEF Aside, Listed, Signalling, EndInv, Fresh, Early, Preparing, Backends
<1>3. Collected' \in SUBSET Ended
  BY <1>1 DEF Collected, Ended
<1>4. CASE pc \in Early \cup Preparing
  <2>1. return_codes' = <<>> /\ Len(return_codes') = 0
    BY <1>4 DEF Aside, Counted
  <2> QED
    BY <2>1, <1>1, <1>2, <1>3, EndedFinite DEF Counted, Listed
<1>5. CASE pc \notin Early \cup Preparing
  <2>1. return_codes' = return_codes /\ pc' \notin Early \cup Preparing
    BY <1>5 DEF Aside, Early, Preparing, Signalling, Backends
  <2>2. ASSUME pc' \in {"start", "waiting"} \cup Signalling
        PROVE  Collected' = Collected /\ pc \in {"start", "waiting"} \cup Signalling
    BY <1>1, <1>5, <2>2 DEF Aside, Collected, Ended, Signalling
  <2> QED
    BY <2>1, <2>2, <1>1, <1>2 DEF Counted
<1> QED
  BY <1>4, <1>5

\* One more code for one more process.
LEMMA OneMoreCode ==
    ASSUME EndInv, ListInv, NEW h \in Ended, h \notin Collected,
           Len(return_codes) <= Cardinality(Collected),
           return_codes' = Append(return_codes, procs[h].code),
           Ended' = Ended, Collected \cup {h} \subseteq Collected', Collected' \subseteq Ended
    PROVE  /\ Len(return_codes') <= Cardinality(Collected')
           /\ Len(return_codes') <= Cardinality(Ended')
<1>1. IsFiniteSet(Started)
  BY DEF ListInv, Listed
<1>2. Collected \in SUBSET Ended
  BY DEF Collected
<1>3. IsFiniteSet(Collected') /\ Cardinality(Collected') \in Nat
      /\ Cardinality(Collected') <= Cardinality(Ended) /\ Cardinality(Ended) \in Nat
  BY <1>1, EndedFinite
<1>4. Cardinality(Collected \cup {h}) = Cardinality(Collected) + 1
      /\ Cardinality(Collected \cup {h}) \in Nat
  BY <1>1, <1>2, EndedFinite, FS_AddElement
<1>5. Cardinality(Collected \cup {h}) <= Cardinality(Collected')
  BY <1>3, FS_Subset
<1>6. Len(return_codes') = Len(return_codes) + 1 /\ Len(return_codes) \in Nat
  BY DEF EndInv, Shape
<1> QED
  BY <1>3, <1>4, <1>5, <1>6, <1>1, <1>2, EndedFinite

LEMMA ListStep == EndInv /\ ListInv /\ [Next]_vars => ListInv'
<1> SUFFICES ASSUME EndInv, ListInv, [Next]_vars PROVE ListInv'
  OBVIOUS
<1>1. Kinds' /\ app' = app /\ conf' = conf
  BY KindsStep, AppKept DEF ListInv, conf, chosen_target
<1> SUFFICES Listed' /\ Counted'
  BY <1>1 DEF ListInv
<1>2. CASE Aside
  BY <1>1, <1>2, ListAside
<1>3. CASE SkipHost \/ HostsStarted
  <2>1. /\ pc = "start" /\ pc' \in {"start", "signal"}
        /\ UNCHANGED <<procs, host_procs, return_codes>>
        /\ next \in Nat /\ (pc' = "start" => next' = next + 1)
        /\ (pc' = "signal" => next' = 1)
    BY <1>3 DEF SkipHost, HostsStarted, hostVars, EndInv, Shape
  <2>2. Started' = Started /\ Ended' = Ended
    BY <2>1 DEF Started, Ended
  <2>3. Listed'
    BY <2>1, <2>2, <1>1 DEF ListInv, Listed
  <2>4. Collected \subseteq Collected' /\ Collected' \in SUBSET Ended
    BY <2>1, <2>2, <1>1 DEF Collected, Signalling, Ended
  <2>5. Cardinality(Collected) <= Cardinality(Collected')
        /\ Cardinality(Collected) \in Nat /\ Cardinality(Collected') \in Nat
    BY <2>4, EndedFinite, FS_Subset DEF ListInv, Listed
  <2>6. Len(return_codes) \in Nat /\ Len(return_codes) <= Cardinality(Collected)
    BY <2>1 DEF EndInv, Shape, ListInv, Counted
  <2>7. pc' \notin Early \cup Preparing
    BY <2>1 DEF Early, Preparing, Backends
  <2> QED
    BY <2>1, <2>2, <2>3, <2>5, <2>6, <2>7 DEF ListInv, Counted
<1>4. CASE StartHost
  <2>1. /\ pc = "start" /\ pc' \in {"start", "waiting"} /\ next \in DOMAIN procs /\ next \in Nat
        /\ procs' = [procs EXCEPT ![next].state = "running"]
        /\ procs \in [DOMAIN procs -> Process] /\ host_procs \in Seq(DOMAIN procs)
        /\ UNCHANGED return_codes
    BY <1>4 DEF StartHost, EndInv, Shape
  <2>2. Started' = Started \cup {next}
    BY <2>1 DEF Started, Process
  <2>3. procs[next].state = "none" /\ Ended' = Ended
    BY <2>1 DEF ListInv, Listed, Ended, Process
  <2>4. \A h \in DOMAIN procs : h \in Nat /\ h > next => procs'[h].state = "none"
    BY <2>1 DEF ListInv, Listed, Process
  <2>5. IsFiniteSet(Started')
    BY <2>2, FS_AddElement DEF ListInv, Listed
  <2>6. pc' \notin Early \cup Preparing /\ pc' \notin Signalling
    BY <2>1 DEF Early, Preparing, Signalling, Backends
  <2>7. CASE conf.hosts[next].wait
    <3>1. pc' = "waiting" /\ next' = next /\ host_procs' = host_procs
      BY <2>7, <1>4 DEF StartHost
    <3>2. Listed'
      BY <3>1, <2>1, <2>2, <2>4, <2>5, <2>7, <1>1 DEF ListInv, Listed
    <3>3. Collected' = Collected
      BY <3>1, <2>1, <2>3, <1>1 DEF Collected, Signalling
    <3> QED
      BY <3>2, <3>3, <2>1, <2>3, <2>6 DEF ListInv, Counted
  <2>8. CASE ~conf.hosts[next].wait
    <3>1. pc' = "start" /\ next' = next + 1 /\ host_procs' = Append(host_procs, next)
      BY <2>8, <2>1, <1>4 DEF StartHost
    <3>2. \A i \in DOMAIN host_procs' :
            \/ i \in DOMAIN host_procs /\ host_procs'[i] = host_procs[i]
            \/ i = Len(host_procs) + 1 /\ host_procs'[i] = next
      BY <3>1, <2>1
    <3>3. \A i \in DOMAIN host_procs : host_procs[i] # next
      BY <2>1 DEF ListInv, Listed
    <3>4. ASSUME NEW i \in DOMAIN host_procs'
          PROVE  /\ host_procs'[i] \in Started' /\ ~conf.hosts[host_procs'[i]].wait
                 /\ \A j \in DOMAIN host_procs' : host_procs'[i] = host_procs'[j] => i = j
                 /\ host_procs'[i] \in Nat /\ host_procs'[i] < next'
      BY <3>1, <3>2, <3>3, <2>1, <2>2, <2>8 DEF ListInv, Listed
    <3>5. Listed'
      BY <3>1, <3>4, <2>1, <2>4, <2>5, <1>1 DEF ListInv, Listed
    <3>6. Collected' = Collected
      <4>1. next \notin Ended
        BY <2>3 DEF Ended
      <4> QED
        BY <4>1, <3>1, <2>1, <2>3, <1>1 DEF Collected, Signalling
    <3> QED
      BY <3>5, <3>6, <2>1, <2>3, <2>6 DEF ListInv, Counted
  <2> QED
    BY <2>7, <2>8
<1>5. CASE WaitForHost
  <2>1. /\ pc = "waiting" /\ pc' = "start" /\ next \in DOMAIN procs /\ next \in Nat
        /\ procs[next].state = "ended" /\ next' = next + 1
        /\ return_codes' = Append(return_codes, procs[next].code)
        /\ UNCHANGED <<procs, host_procs>>
    BY <1>5 DEF WaitForHost, Collects, hostVars, EndInv, Shape
  <2>2. Started' = Started /\ Ended' = Ended /\ next \in Ended /\ conf.hosts[next].wait
    BY <2>1 DEF Started, Ended, ListInv, Listed
  <2>3. Listed'
    BY <2>1, <2>2, <1>1 DEF ListInv, Listed
  <2>4. next \notin Collected /\ Collected \cup {next} \subseteq Collected'
        /\ Collected' \subseteq Ended
    BY <2>1, <2>2, <1>1 DEF Collected, Signalling
  <2>5. Len(return_codes) <= Cardinality(Collected)
    BY <2>1 DEF ListInv, Counted
  <2>6. pc' \notin Early \cup Preparing
    BY <2>1 DEF Early, Preparing, Backends
  <2> QED
    BY <2>1, <2>2, <2>3, <2>4, <2>5, <2>6, OneMoreCode DEF Counted
<1>6. CASE CollectHost
  <2> DEFINE h == host_procs[next]
  <2>1. /\ pc = "collect" /\ pc' = "signal" /\ next \in DOMAIN host_procs /\ next \in Nat
        /\ procs[h].state = "ended" /\ next' = next + 1 /\ h \in DOMAIN procs
        /\ return_codes' = Append(return_codes, procs[h].code)
        /\ host_procs \in Seq(DOMAIN procs)
        /\ UNCHANGED <<procs, host_procs>>
    BY <1>6 DEF CollectHost, Collects, hostVars, EndInv, Shape
  <2>2. Started' = Started /\ Ended' = Ended /\ h \in Ended /\ ~conf.hosts[h].wait
    BY <2>1 DEF Started, Ended, ListInv, Listed
  <2>3. Listed'
    BY <2>1, <2>2, <1>1 DEF ListInv, Listed
  <2>4. h \notin Collected
    BY <2>1, <2>2 DEF Collected, ListInv, Listed
  <2>5. \A i \in DOMAIN host_procs : i \in Nat /\ (i < next => i < next')
    BY <2>1
  <2>6. h \in Collected'
    BY <2>1, <2>2 DEF Collected, Signalling
  <2>7. Collected \subseteq Collected' /\ Collected' \subseteq Ended
    BY <2>1, <2>2, <2>5, <1>1 DEF Collected, Signalling
  <2>8. Len(return_codes) <= Cardinality(Collected)
    BY <2>1 DEF ListInv, Counted, Signalling
  <2>9. pc' \notin Early \cup Preparing
    BY <2>1 DEF Early, Preparing, Backends
  <2> QED
    BY <2>1, <2>2, <2>3, <2>4, <2>6, <2>7, <2>8, <2>9, OneMoreCode DEF Counted
<1>7. CASE read_manifest
  <2>1. CASE Readable(app) /\ backend \in Backends
    <3>1. /\ pc' = "before" /\ host_procs' = <<>> /\ return_codes' = <<>>
          /\ procs' = [i \in Hosts |-> [state |-> "none", code |-> 0]]
      BY <2>1, <1>7
         DEF read_manifest, scriptVars, EndInv, Fresh, ListInv, Counted, Early
    <3>2. Started' = {} /\ Ended' = {}
      BY <3>1 DEF Started, Ended
    <3>3. Listed'
      BY <3>1, <3>2, FS_EmptySet, EmptyFunction DEF Listed
    <3>4. Len(return_codes') <= Cardinality(Ended')
      BY <3>1, <3>2, FS_EmptySet
    <3> QED
      BY <3>1, <3>3, <3>4 DEF Counted, Signalling
  <2>2. CASE ~(Readable(app) /\ backend \in Backends)
    <3>1. Aside
      BY <2>2, <1>7 DEF read_manifest, Exit, hostVars, Aside
    <3> QED
      BY <3>1, <1>2
  <2> QED
    BY <2>1, <2>2
<1>8. ASSUME NEW h \in DOMAIN procs, HostEnds(h) PROVE Listed' /\ Counted'
  <2>1. /\ procs[h].state = "running" /\ procs \in [DOMAIN procs -> Process]
        /\ \E c \in {0, 1} : procs' = [procs EXCEPT ![h] = [state |-> "ended", code |-> c]]
        /\ UNCHANGED <<pc, scriptVars>>
    BY <1>8 DEF HostEnds, EndInv, Shape
  <2>2. Started' = Started /\ Ended' = Ended \cup {h} /\ h \notin Ended
    BY <2>1 DEF Started, Ended
  <2>3. \A g \in DOMAIN procs : procs[g].state = "none" => procs'[g].state = "none"
    BY <2>1
  <2>4. DOMAIN procs' = DOMAIN procs
    BY <2>1
  <2>5. Listed'
    BY <2>1, <2>2, <2>3, <2>4, <1>1 DEF scriptVars, ListInv, Listed
  <2>6. Collected \subseteq Collected' /\ Collected' \subseteq Ended'
    BY <2>1, <2>2, <1>1 DEF scriptVars, Collected
  <2>7. IsFiniteSet(Ended') /\ Cardinality(Ended') = Cardinality(Ended) + 1
        /\ Cardinality(Ended) \in Nat
    BY <2>2, EndedFinite, FS_AddElement DEF ListInv, Listed
  <2>8. Cardinality(Collected) <= Cardinality(Collected')
        /\ Cardinality(Collected) \in Nat /\ Cardinality(Collected') \in Nat
    <3>1. IsFiniteSet(Collected')
      BY <2>6, <2>7, FS_Subset
    <3> QED
      BY <3>1, <2>6, FS_Subset, FS_CardinalityType
  <2>9. Len(return_codes) \in Nat
    BY DEF EndInv, Shape
  <2> QED
    BY <2>1, <2>5, <2>7, <2>8, <2>9 DEF scriptVars, ListInv, Counted
<1> QED
  BY <1>2, <1>3, <1>4, <1>5, <1>6, <1>7, <1>8, AsideSteps

LEMMA ListsAlways == Spec => [](EndInv /\ ListInv)
<1>1. Init => EndInv /\ ListInv
  BY InitEnd, InitLists
<1>2. EndInv /\ ListInv /\ [Next]_vars => EndInv' /\ ListInv'
  BY StepEnd, ListStep
<1> QED
  BY <1>1, <1>2, PTL DEF Spec

-----------------------------------------------------------------------------
(* Every nonempty set of naturals has a least element: the number for which a   *)
(* claim about all of them would fail first.                                    *)

\* The initial segments 0..n of the numbers of S are finite sets, and strict
\* inclusion of finite sets is well founded: the least segment belongs to the
\* least number.
LEMMA NatMinimum ==
    ASSUME NEW S \in SUBSET Nat, S # {}
    PROVE  \E m \in S : \A n \in S : m <= n
<1> DEFINE segments == {0 .. n : n \in S}
<1>1. segments \subseteq FiniteSubsetsOf(Nat) /\ segments # {}
  <2>1. \A n \in S : 0 .. n \in SUBSET Nat /\ IsFiniteSet(0 .. n)
    BY FS_Interval
  <2> QED
    BY <2>1 DEF FiniteSubsetsOf
<1>2. \E t \in segments : \A u \in segments : <<u, t>> \notin StrictSubsetOrdering(Nat)
  <2> HIDE DEF segments
  <2>1. IsWellFoundedOn(StrictSubsetOrdering(Nat), FiniteSubsetsOf(Nat))
    BY FS_StrictSubsetOrderingWellFounded
  <2> QED
    BY <1>1, <2>1, WFMin
<1>3. PICK m \in S : \A n \in S : <<0 .. n, 0 .. m>> \notin StrictSubsetOrdering(Nat)
  BY <1>2
<1>4. ASSUME NEW n \in S PROVE m <= n
  <2>1. SUFFICES ASSUME n < m PROVE FALSE
    OBVIOUS
  <2>2. 0 .. n \subseteq 0 .. m /\ 0 .. n # 0 .. m
    <3>1. m \in 0 .. m /\ m \notin 0 .. n
      BY <2>1
    <3> QED
      BY <2>1, <3>1
  <2>3. <<0 .. n, 0 .. m>> \in (SUBSET Nat) \X (SUBSET Nat)
    OBVIOUS
  <2> QED
    BY <1>3, <2>2, <2>3 DEF StrictSubsetOrdering
<1> QED
  BY <1>4

-----------------------------------------------------------------------------
(* What addEdge makes of the links: the neighbours of a node are the nodes a    *)
(* link joins it to.                                                            *)

\* addEdge adds a neighbour that is not listed yet.
LEMMA AppendNewIs ==
    ASSUME NEW S, NEW seq \in Seq(S), NEW e \in S
    PROVE  AppendNew(seq, e) \in Seq(S) /\ ToSet(AppendNew(seq, e)) = ToSet(seq) \cup {e}
<1>1. CASE e \in ToSet(seq)
  BY <1>1 DEF AppendNew
<1>2. CASE e \notin ToSet(seq)
  <2>1. AppendNew(seq, e) = Append(seq, e) /\ Len(seq) \in Nat
    BY <1>2 DEF AppendNew
  <2>2. DOMAIN Append(seq, e) = DOMAIN seq \cup {Len(seq) + 1}
    OBVIOUS
  <2>3. Append(seq, e)[Len(seq) + 1] = e /\ \A i \in DOMAIN seq : Append(seq, e)[i] = seq[i]
    OBVIOUS
  <2> QED
    BY <2>1, <2>2, <2>3 DEF ToSet
<1> QED
  BY <1>1, <1>2

\* After n links.
Joined(edges, n, a, b) ==
    \E i \in 1 .. n : edges[i] = <<a, b>> \/ edges[i] = <<b, a>>

Neighbours(nodes, edges, n, nb) ==
    /\ nb \in [nodes -> Seq(nodes)]
    /\ \A a, b \in nodes : b \in ToSet(nb[a]) <=> Joined(edges, n, a, b)

\* One link more.
LEMMA OneMoreEdge ==
    ASSUME NEW nodes, NEW edges \in Seq(nodes \X nodes), NEW n \in 1 .. Len(edges), NEW nb,
           Neighbours(nodes, edges, n - 1, nb)
    PROVE  Neighbours(nodes, edges, n, addEdge(nb, edges[n]))
<1> DEFINE x == edges[n][1]
           y == edges[n][2]
           one == [nb EXCEPT ![x] = AppendNew(@, y)]
           two == [one EXCEPT ![y] = AppendNew(@, x)]
<1>1. edges[n] = <<x, y>> /\ x \in nodes /\ y \in nodes
  BY DEF Neighbours
<1>2. addEdge(nb, edges[n]) = two
  BY DEF addEdge
<1> HIDE DEF x, y
<1>3. /\ one \in [nodes -> Seq(nodes)]
      /\ \A a \in nodes : ToSet(one[a]) = ToSet(nb[a]) \cup {b \in {y} : a = x}
  <2>1. nb \in [nodes -> Seq(nodes)] /\ nb[x] \in Seq(nodes)
    BY <1>1 DEF Neighbours
  <2>2. /\ AppendNew(nb[x], y) \in Seq(nodes)
        /\ ToSet(AppendNew(nb[x], y)) = ToSet(nb[x]) \cup {y}
    BY <1>1, <2>1, AppendNewIs
  <2> QED
    BY <1>1, <2>1, <2>2
<1> HIDE DEF one
<1>4. /\ two \in [nodes -> Seq(nodes)]
      /\ \A a \in nodes : ToSet(two[a]) = ToSet(one[a]) \cup {b \in {x} : a = y}
  <2>1. /\ AppendNew(one[y], x) \in Seq(nodes)
        /\ ToSet(AppendNew(one[y], x)) = ToSet(one[y]) \cup {x}
    BY <1>1, <1>3, AppendNewIs
  <2> QED
    BY <1>1, <1>3, <2>1
<1> HIDE DEF two
<1>5. \A i : i \in 1 .. n <=> i \in 1 .. n - 1 \/ i = n
  OBVIOUS
<1>6. \A a, b : Joined(edges, n, a, b) <=>
        Joined(edges, n - 1, a, b) \/ <<x, y>> = <<a, b>> \/ <<x, y>> = <<b, a>>
  BY <1>1, <1>5 DEF Joined
<1>7. \A a, b \in nodes : b \in ToSet(two[a]) <=>
        b \in ToSet(nb[a]) \/ (a = x /\ b = y) \/ (a = y /\ b = x)
  BY <1>3, <1>4
<1>8. \A a, b \in nodes : b \in ToSet(two[a]) <=> Joined(edges, n, a, b)
  BY <1>6, <1>7 DEF Neighbours
<1> QED
  BY <1>2, <1>4, <1>8 DEF Neighbours

\* A loop that takes N steps from base is a function of the steps taken.
Loops(S, base, N, step, f) ==
    /\ f \in [0 .. N -> S] /\ f[0] = base
    /\ \A n \in 1 .. N : f[n] = step[<<f[n - 1], n>>]

\* A loop written as a recursive function has the values its step gives.
LEMMA LoopExists ==
    ASSUME NEW S, NEW base \in S, NEW N \in Nat, NEW step \in [S \X (1 .. N) -> S]
    PROVE  \E f : Loops(S, base, N, step, f)
<1> DEFINE Loop(f, n) == /\ f \in [0 .. n -> S] /\ f[0] = base
                         /\ \A i \in 1 .. n : f[i] = step[<<f[i - 1], i>>]
           failing == {n \in 0 .. N : ~ \E f : Loop(f, n)}
<1>1. \E f : Loop(f, 0)
  <2>1. Loop([i \in 0 .. 0 |-> base], 0)
    OBVIOUS
  <2> QED
    BY <2>1
<1>2. ASSUME NEW n \in 1 .. N, NEW f, Loop(f, n - 1)
      PROVE  \E g : Loop(g, n)
  <2> DEFINE g == [i \in 0 .. n |-> IF i = n THEN step[<<f[n - 1], n>>] ELSE f[i]]
  <2>1. f[n - 1] \in S /\ step[<<f[n - 1], n>>] \in S
    BY <1>2
  <2>2. g \in [0 .. n -> S] /\ g[0] = base
    BY <1>2, <2>1
  <2>3. ASSUME NEW i \in 1 .. n PROVE g[i] = step[<<g[i - 1], i>>]
    <3>1. i - 1 \in 0 .. n - 1 /\ g[i - 1] = f[i - 1]
      OBVIOUS
    <3>2. CASE i = n
      <4>1. g[n] = step[<<f[n - 1], n>>]
        OBVIOUS
      <4> QED
        BY <3>1, <3>2, <4>1
    <3>3. CASE i # n
      <4>1. i \in 1 .. n - 1 /\ g[i] = f[i]
        BY <3>3
      <4> QED
        BY <1>2, <3>1, <4>1
    <3> QED
      BY <3>2, <3>3
  <2> HIDE DEF g
  <2>4. Loop(g, n)
    BY <2>2, <2>3
  <2> QED
    BY <2>4
<1> HIDE DEF Loop
<1>3. failing = {}
  <2> SUFFICES ASSUME failing # {} PROVE FALSE
    OBVIOUS
  <2>1. PICK n \in failing : \A m \in failing : n <= m
    <3>1. failing \in SUBSET Nat
      OBVIOUS
    <3> QED
      BY <3>1, NatMinimum
  <2>2. n \in 1 .. N /\ n - 1 \in 0 .. N /\ n - 1 \notin failing
    BY <1>1, <2>1
  <2>3. PICK f : Loop(f, n - 1)
    BY <2>2
  <2> QED
    BY <1>2, <2>1, <2>2, <2>3
<1>4. PICK f : Loop(f, N)
  BY <1>3
<1> QED
  BY <1>4 DEF Loop, Loops

\* addEdge keeps the neighbours' type.
LEMMA AddEdgeType ==
    ASSUME NEW nodes, NEW nb \in [nodes -> Seq(nodes)], NEW edge \in nodes \X nodes
    PROVE  addEdge(nb, edge) \in [nodes -> Seq(nodes)]
<1> DEFINE x == edge[1]
           y == edge[2]
           one == [nb EXCEPT ![x] = AppendNew(@, y)]
<1>1. x \in nodes /\ y \in nodes
  OBVIOUS
<1>2. addEdge(nb, edge) = [one EXCEPT ![y] = AppendNew(@, x)]
  BY DEF addEdge
<1> HIDE DEF x, y
<1>3. AppendNew(nb[x], y) \in Seq(nodes)
  BY <1>1, AppendNewIs
<1>4. one \in [nodes -> Seq(nodes)]
  BY <1>1, <1>3
<1> HIDE DEF one
<1>5. AppendNew(one[y], x) \in Seq(nodes)
  BY <1>1, <1>4, AppendNewIs
<1> QED
  BY <1>1, <1>2, <1>4, <1>5

\* The links added one after the other.
LEMMA AddedSteps ==
    ASSUME NEW nodes, NEW edges \in Seq(nodes \X nodes)
    PROVE  \E added :
             /\ added[0] = [node \in nodes |-> <<>>]
             /\ \A n \in 1 .. Len(edges) : added[n] = addEdge(added[n - 1], edges[n])
             /\ neighbors_of(nodes, edges) = added[Len(edges)]
<1> DEFINE S == [nodes -> Seq(nodes)]
           base == [node \in nodes |-> <<>>]
           N == Len(edges)
           step == [p \in S \X (1 .. N) |-> addEdge(p[1], edges[p[2]])]
           Added(f) == f = [n \in 0 .. N |-> IF n = 0 THEN base ELSE addEdge(f[n - 1], edges[n])]
<1>1. base \in S /\ N \in Nat
  OBVIOUS
<1>2. \A n \in 1 .. N : edges[n] \in nodes \X nodes
  OBVIOUS
<1>3. step \in [S \X (1 .. N) -> S]
  <2>1. ASSUME NEW p \in S \X (1 .. N) PROVE addEdge(p[1], edges[p[2]]) \in S
    <3>1. p[1] \in S /\ p[2] \in 1 .. N
      OBVIOUS
    <3> QED
      BY <1>2, <3>1, AddEdgeType
  <2> QED
    BY <2>1
<1>4. \A x \in S, n \in 1 .. N : step[<<x, n>>] = addEdge(x, edges[n])
  OBVIOUS
<1> HIDE DEF S, base, N, step
<1>5. PICK f : Loops(S, base, N, step, f)
  BY <1>1, <1>3, LoopExists
<1>6. \A n \in 1 .. N : f[n] = addEdge(f[n - 1], edges[n])
  <2> SUFFICES ASSUME NEW n \in 1 .. N PROVE f[n] = addEdge(f[n - 1], edges[n])
    OBVIOUS
  <2>1. n - 1 \in 0 .. N
    BY <1>1
  <2> QED
    BY <1>4, <1>5, <2>1 DEF Loops
<1>7. Added(f)
  <2>1. \A n \in 0 .. N : f[n] = IF n = 0 THEN base ELSE addEdge(f[n - 1], edges[n])
    BY <1>5, <1>6 DEF Loops
  <2> QED
    BY <1>5, <2>1 DEF Loops
<1> DEFINE added == CHOOSE g : Added(g)
<1>8. Added(added)
  BY <1>7
<1>9. neighbors_of(nodes, edges) = added[N]
  BY DEF neighbors_of, base, N
<1> HIDE DEF added
<1>10. \A n \in 0 .. N : added[n] = IF n = 0 THEN base ELSE addEdge(added[n - 1], edges[n])
  BY <1>8
<1>11. added[0] = base /\ \A n \in 1 .. N : added[n] = addEdge(added[n - 1], edges[n])
  BY <1>1, <1>10
<1> QED
  BY <1>9, <1>11 DEF base, N

\* The neighbours of a node are those a link joins it to, in either direction.
LEMMA NeighboursOf ==
    ASSUME NEW nodes, NEW edges \in Seq(nodes \X nodes)
    PROVE  /\ neighbors_of(nodes, edges) \in [nodes -> Seq(nodes)]
           /\ \A a, b \in nodes :
                b \in ToSet(neighbors_of(nodes, edges)[a]) <=> Adjacent(edges, a, b)
<1>1. PICK added :
        /\ added[0] = [node \in nodes |-> <<>>]
        /\ \A n \in 1 .. Len(edges) : added[n] = addEdge(added[n - 1], edges[n])
        /\ neighbors_of(nodes, edges) = added[Len(edges)]
  BY AddedSteps
<1> DEFINE N(n) == Neighbours(nodes, edges, n, added[n])
           failing == {n \in 0 .. Len(edges) : ~N(n)}
<1>2. Len(edges) \in Nat /\ DOMAIN edges = 1 .. Len(edges)
  OBVIOUS
<1>3. N(0)
  <2> DEFINE none == [node \in nodes |-> <<>>]
  <2>1. none \in [nodes -> Seq(nodes)] /\ \A a \in nodes : ToSet(none[a]) = {}
    BY DEF ToSet
  <2> HIDE DEF none
  <2>2. \A a, b : ~Joined(edges, 0, a, b)
    BY DEF Joined
  <2>3. Neighbours(nodes, edges, 0, none)
    BY <2>1, <2>2 DEF Neighbours
  <2> QED
    BY <1>1, <2>3 DEF none
<1>4. failing = {}
  <2> SUFFICES ASSUME failing # {} PROVE FALSE
    OBVIOUS
  <2>1. PICK n \in failing : \A m \in failing : n <= m
    <3>1. failing \in SUBSET Nat
      OBVIOUS
    <3> QED
      BY <3>1, NatMinimum
  <2>2. n \in 1 .. Len(edges) /\ n - 1 \in 0 .. Len(edges) /\ n - 1 \notin failing
    BY <1>2, <1>3, <2>1
  <2>3. N(n - 1)
    BY <2>2
  <2> QED
    BY <1>1, <2>1, <2>2, <2>3, OneMoreEdge
<1>5. N(Len(edges))
  BY <1>2, <1>4
<1>6. \A a, b : Joined(edges, Len(edges), a, b) <=> Adjacent(edges, a, b)
  BY <1>2 DEF Joined, Adjacent
<1> QED
  BY <1>1, <1>5, <1>6 DEF Neighbours

-----------------------------------------------------------------------------
(* The recursion of _recPath.                                               *)

\* The choice among the paths found is one of the shortest.
LEMMA ShortestIs ==
    ASSUME NEW paths, DOMAIN paths \in SUBSET Nat, DOMAIN paths # {},
           \A i \in DOMAIN paths : Len(paths[i]) \in Nat
    PROVE  \E i \in DOMAIN paths :
             /\ FirstShortest(paths) = paths[i]
             /\ \A j \in DOMAIN paths : Len(paths[i]) <= Len(paths[j])
<1> DEFINE lengths == {Len(paths[i]) : i \in DOMAIN paths}
           First(i) == \A j \in DOMAIN paths :
                         IF j < i THEN Len(paths[j]) > Len(paths[i])
                                  ELSE Len(paths[j]) >= Len(paths[i])
<1>1. PICK l \in lengths : \A k \in lengths : l <= k
  <2>1. lengths \in SUBSET Nat /\ lengths # {}
    OBVIOUS
  <2> QED
    BY <2>1, NatMinimum
<1> DEFINE shortest == {i \in DOMAIN paths : Len(paths[i]) = l}
<1>2. PICK i \in shortest : \A j \in shortest : i <= j
  <2>1. shortest \in SUBSET Nat /\ shortest # {}
    OBVIOUS
  <2> QED
    BY <2>1, NatMinimum
<1>3. i \in DOMAIN paths /\ First(i)
  BY <1>1, <1>2
<1> DEFINE c == CHOOSE k \in DOMAIN paths : First(k)
<1>4. c \in DOMAIN paths /\ First(c)
  BY <1>3
<1>5. FirstShortest(paths) = paths[c]
  BY DEF FirstShortest
<1> HIDE DEF c
<1>6. \A j \in DOMAIN paths : Len(paths[c]) <= Len(paths[j])
  BY <1>4
<1> QED
  BY <1>4, <1>5, <1>6

Agree(nodes, f, g, visited) == \A m \in nodes \ visited : f[<<m, visited>>] = g[<<m, visited>>]

\* A call sees of the other results only those for the nodes not visited.
LEMMA VisitAgree ==
    ASSUME NEW nodes, NEW nb \in [nodes -> Seq(nodes)], NEW b, NEW excluded, NEW f, NEW g,
           NEW a \in nodes, NEW visited,
           Agree(nodes, f, g, visited \cup {a})
    PROVE  Visit(nb, b, excluded, f, a, visited) = Visit(nb, b, excluded, g, a, visited)
<1> DEFINE V == visited \cup {a}
           usable == {i \in DOMAIN nb[a] : /\ nb[a][i] \notin V
                                           /\ nb[a][i] \in excluded => nb[a][i] = b}
           F(p) == {i \in usable : p[<<nb[a][i], V>>] # <<>>}
           R(p) == [i \in F(p) |-> p[<<nb[a][i], V>>]]
<1>1. nb[a] \in Seq(nodes) /\ \A i \in DOMAIN nb[a] : nb[a][i] \in nodes
  OBVIOUS
<1>2. \A i \in usable : f[<<nb[a][i], V>>] = g[<<nb[a][i], V>>]
  BY <1>1 DEF Agree
<1>3. F(f) = F(g)
  BY <1>2
<1>4. R(f) = R(g)
  BY <1>2, <1>3
<1>5. \A p : Visit(nb, b, excluded, p, a, visited) =
               IF a = b THEN <<a>>
               ELSE IF F(p) = {} THEN <<>> ELSE <<a>> \o FirstShortest(R(p))
  BY DEF Visit
<1> QED
  BY <1>3, <1>4, <1>5

\* One node fewer is left with every call.
LEMMA OneFewer ==
    ASSUME NEW nodes, IsFiniteSet(nodes), NEW visited \in SUBSET nodes, NEW a \in nodes,
           a \notin visited
    PROVE  /\ Cardinality(nodes \ visited) \in Nat
           /\ Cardinality(nodes \ (visited \cup {a})) \in Nat
           /\ Cardinality(nodes \ (visited \cup {a})) = Cardinality(nodes \ visited) - 1
<1>1. nodes \ (visited \cup {a}) = (nodes \ visited) \ {a}
  OBVIOUS
<1>2. IsFiniteSet(nodes \ visited) /\ IsFiniteSet(nodes \ (visited \cup {a}))
  BY FS_Subset
<1> QED
  BY <1>1, <1>2, FS_RemoveElement, FS_CardinalityType

Calls(nodes, nb, b, excluded, f, n) ==
    \A visited \in SUBSET nodes : Cardinality(nodes \ visited) <= n =>
        \A a \in nodes \ visited : f[<<a, visited>>] = Visit(nb, b, excluded, f, a, visited)

\* What the recursive definition of recPath asks of path.
IsPath(nodes, nb, b, excluded, path) ==
    path = [call \in nodes \X SUBSET nodes |-> Visit(nb, b, excluded, path, call[1], call[2])]

\* The recursion ends, since every call leaves one node fewer: its equations have a
\* solution.
LEMMA PathExists ==
    ASSUME NEW nodes, IsFiniteSet(nodes), NEW nb \in [nodes -> Seq(nodes)], NEW b, NEW excluded
    PROVE  \E path : IsPath(nodes, nb, b, excluded, path)
<1> DEFINE Next1(f) == [call \in nodes \X SUBSET nodes |->
                          Visit(nb, b, excluded, f, call[1], call[2])]
           C(f, n) == Calls(nodes, nb, b, excluded, f, n)
           failing == {n \in Nat : ~ \E f : C(f, n)}
<1>1. \A f, g, visited : \A a \in nodes : Agree(nodes, f, g, visited \cup {a}) =>
           Visit(nb, b, excluded, f, a, visited) = Visit(nb, b, excluded, g, a, visited)
  BY VisitAgree
<1>2. \A f : \A a \in nodes, visited \in SUBSET nodes :
        Next1(f)[<<a, visited>>] = Visit(nb, b, excluded, f, a, visited)
  OBVIOUS
<1> HIDE DEF Next1
<1>3. \A f : C(f, 0)
  <2> SUFFICES ASSUME NEW f, NEW visited \in SUBSET nodes, Cardinality(nodes \ visited) <= 0,
                      NEW a \in nodes \ visited
               PROVE  FALSE
    BY DEF Calls
  <2>1. Cardinality(nodes \ visited) \in Nat /\ Cardinality(nodes \ visited) - 1 \in Nat
    BY OneFewer
  <2> QED
    BY <2>1
<1>4. ASSUME NEW f, NEW n \in Nat, C(f, n) PROVE C(Next1(f), n + 1)
  <2> SUFFICES ASSUME NEW visited \in SUBSET nodes, Cardinality(nodes \ visited) <= n + 1,
                      NEW a \in nodes \ visited
               PROVE  Next1(f)[<<a, visited>>] = Visit(nb, b, excluded, Next1(f), a, visited)
    BY DEF Calls
  <2> DEFINE V == visited \cup {a}
  <2>1. V \in SUBSET nodes /\ Cardinality(nodes \ V) <= n
    BY OneFewer
  <2>2. Agree(nodes, f, Next1(f), visited \cup {a})
    BY <1>2, <1>4, <2>1 DEF Calls, Agree
  <2>3. Visit(nb, b, excluded, f, a, visited) = Visit(nb, b, excluded, Next1(f), a, visited)
    BY <1>1, <2>2
  <2> QED
    BY <1>2, <2>3
<1>5. failing = {}
  <2> HIDE DEF C
  <2> SUFFICES ASSUME failing # {} PROVE FALSE
    OBVIOUS
  <2>1. PICK n \in failing : \A m \in failing : n <= m
    <3>1. failing \in SUBSET Nat
      OBVIOUS
    <3> QED
      BY <3>1, NatMinimum
  <2>2. n # 0 /\ n - 1 \in Nat /\ n - 1 \notin failing
    BY <1>3, <2>1
  <2>3. PICK f : C(f, n - 1)
    BY <2>2
  <2>4. C(Next1(f), n - 1 + 1)
    BY <1>4, <2>2, <2>3
  <2> QED
    BY <2>1, <2>4
<1>6. PICK f : C(f, Cardinality(nodes))
  <2> HIDE DEF C
  <2> QED
    BY <1>5, FS_CardinalityType
<1>7. \A visited \in SUBSET nodes : \A a \in nodes \ visited :
        f[<<a, visited>>] = Next1(f)[<<a, visited>>]
  <2> TAKE visited \in SUBSET nodes
  <2> TAKE a \in nodes \ visited
  <2>1. Cardinality(nodes \ visited) <= Cardinality(nodes)
    BY FS_Subset
  <2> QED
    BY <1>2, <1>6, <2>1 DEF Calls
<1>8. \A a \in nodes, visited \in SUBSET nodes :
        Next1(f)[<<a, visited>>] = Visit(nb, b, excluded, Next1(f), a, visited)
  <2> SUFFICES ASSUME NEW visited \in SUBSET nodes, NEW a \in nodes
               PROVE  Next1(f)[<<a, visited>>]
                        = Visit(nb, b, excluded, Next1(f), a, visited)
    OBVIOUS
  <2> HIDE DEF C, failing
  <2>1. visited \cup {a} \in SUBSET nodes
    OBVIOUS
  <2>2. Agree(nodes, f, Next1(f), visited \cup {a})
    BY <1>7, <2>1 DEF Agree
  <2> QED
    BY <1>2, <1>1, <2>2
<1>9. IsPath(nodes, nb, b, excluded, Next1(f))
  BY <1>8 DEF Next1, IsPath
<1> QED
  BY <1>9

\* What a call returns is what Visit makes of the results of the calls it makes.
LEMMA PathIs ==
    ASSUME NEW nodes, IsFiniteSet(nodes), NEW edges \in Seq(nodes \X nodes), NEW b, NEW excluded
    PROVE  IsPath(nodes, neighbors_of(nodes, edges), b, excluded,
                  recPath(nodes, edges, b, excluded))
<1> DEFINE nb == neighbors_of(nodes, edges)
<1>1. nb \in [nodes -> Seq(nodes)]
  BY NeighboursOf
<1>2. recPath(nodes, edges, b, excluded) = CHOOSE path : IsPath(nodes, nb, b, excluded, path)
  BY DEF recPath, IsPath
<1> HIDE DEF nb
<1>3. \E path : IsPath(nodes, nb, b, excluded, path)
  BY <1>1, PathExists
<1> QED
  BY <1>2, <1>3 DEF nb

-----------------------------------------------------------------------------
(* What a call returns.                                                     *)

\* The walks that come to no visited node and to none twice.
SimpleWalks(nodes, edges, a, b, k, excluded, visited) ==
    {w \in Walks(nodes, edges, a, b, k, excluded) :
        /\ \A i \in 0 .. k : w[i] \notin visited
        /\ \A i, j \in 0 .. k : w[i] = w[j] => i = j}

SimpleWay(nodes, edges, a, b, k, excluded, visited) ==
    SimpleWalks(nodes, edges, a, b, k, excluded, visited) # {}

\* A path is a walk, and not longer than any walk that avoids the visited nodes.
Found(nodes, edges, b, excluded, visited, a, p) ==
    /\ p \in Seq(nodes)
    /\ p # <<>> => Steps(p) \in Walks(nodes, edges, a, b, Len(p) - 1, excluded)
    /\ \A k \in Nat : SimpleWay(nodes, edges, a, b, k, excluded, visited) =>
                        p # <<>> /\ Len(p) <= k + 1

\* From the end itself.
LEMMA AtEnd ==
    ASSUME NEW nodes, NEW edges, NEW b \in nodes, NEW excluded, NEW visited
    PROVE  Found(nodes, edges, b, excluded, visited, b, <<b>>)
<1>1. <<b>> \in Seq(nodes) /\ Len(<<b>>) = 1 /\ <<b>> # <<>>
  OBVIOUS
<1>2. Steps(<<b>>) = [i \in 0 .. 0 |-> b]
  <2>1. \A i \in 0 .. 0 : <<b>>[i + 1] = b
    OBVIOUS
  <2> QED
    BY <1>1, <2>1 DEF Steps
<1>3. Steps(<<b>>) \in Walks(nodes, edges, b, b, 0, excluded)
  BY <1>2 DEF Walks
<1> QED
  BY <1>1, <1>3 DEF Found

\* One step more in front of a path.
LEMMA OneMoreStep ==
    ASSUME NEW nodes, NEW edges, NEW a \in nodes, NEW m \in nodes, NEW b, NEW excluded,
           Adjacent(edges, a, m), NEW q \in Seq(nodes), q # <<>>,
           Steps(q) \in Walks(nodes, edges, m, b, Len(q) - 1, excluded),
           Len(q) > 1 => m \notin excluded
    PROVE  /\ <<a>> \o q \in Seq(nodes) /\ <<a>> \o q # <<>>
           /\ Len(<<a>> \o q) = Len(q) + 1
           /\ Steps(<<a>> \o q) \in Walks(nodes, edges, a, b, Len(q), excluded)
<1> DEFINE p == <<a>> \o q
           w == Steps(p)
           v == Steps(q)
           l == Len(q)
<1>1. /\ l \in Nat \ {0} /\ p \in Seq(nodes) /\ Len(p) = l + 1 /\ p # <<>>
      /\ p[1] = a /\ \A i \in 1 .. l : p[i + 1] = q[i]
  OBVIOUS
<1>2. v = [i \in 0 .. l - 1 |-> q[i + 1]] /\ w = [i \in 0 .. l |-> p[i + 1]]
  BY <1>1 DEF Steps
<1> HIDE DEF p, w, v, l
<1>3. w[0] = a /\ \A i \in 1 .. l : w[i] = v[i - 1]
  BY <1>1, <1>2
<1>4. /\ v[0] = m /\ v[l - 1] = b /\ v \in [0 .. l - 1 -> nodes]
      /\ \A i \in 1 .. l - 1 : Adjacent(edges, v[i - 1], v[i])
      /\ \A i \in 1 .. l - 1 - 1 : v[i] \notin excluded
  BY DEF Walks, v, l
<1>5. w \in [0 .. l -> nodes]
  BY <1>1, <1>2
<1>6. w[l] = b
  BY <1>1, <1>3, <1>4
<1>7. ASSUME NEW i \in 1 .. l PROVE Adjacent(edges, w[i - 1], w[i])
  <2>1. CASE i = 1
    BY <2>1, <1>3, <1>4
  <2>2. CASE i # 1
    <3>1. i - 1 \in 1 .. l - 1 /\ i - 1 \in 1 .. l
      BY <2>2, <1>1
    <3>2. w[i - 1] = v[i - 1 - 1] /\ w[i] = v[i - 1]
      BY <3>1, <1>3
    <3> QED
      BY <3>1, <3>2, <1>4
  <2> QED
    BY <2>1, <2>2
<1>8. ASSUME NEW i \in 1 .. l - 1 PROVE w[i] \notin excluded
  <2>1. i \in 1 .. l /\ w[i] = v[i - 1]
    BY <1>1, <1>3
  <2>2. CASE i = 1
    BY <2>1, <2>2, <1>1, <1>4 DEF l
  <2>3. CASE i # 1
    <3>1. i - 1 \in 1 .. l - 1 - 1
      BY <2>3, <1>1
    <3> QED
      BY <3>1, <2>1, <1>4
  <2> QED
    BY <2>2, <2>3
<1>9. w \in Walks(nodes, edges, a, b, l, excluded)
  BY <1>3, <1>5, <1>6, <1>7, <1>8 DEF Walks
<1> QED
  BY <1>1, <1>9 DEF p, w, l

\* The rest of a walk after its first step.
StepsOn(nodes, edges, a, b, k, excluded, visited, m) ==
    /\ m \in nodes \ (visited \cup {a})
    /\ Adjacent(edges, a, m) /\ (m \in excluded => m = b)
    /\ SimpleWay(nodes, edges, m, b, k - 1, excluded, visited \cup {a})

\* A walk of at least one step without its first step.
LEMMA OneStepLess ==
    ASSUME NEW nodes, NEW edges, NEW a, NEW b, NEW excluded, NEW visited, NEW k \in Nat \ {0},
           SimpleWay(nodes, edges, a, b, k, excluded, visited)
    PROVE  \E m : StepsOn(nodes, edges, a, b, k, excluded, visited, m)
<1> PICK w : w \in SimpleWalks(nodes, edges, a, b, k, excluded, visited)
  BY DEF SimpleWay
<1> DEFINE v == [i \in 0 .. k - 1 |-> w[i + 1]]
<1>1. /\ w \in [0 .. k -> nodes] /\ w[0] = a /\ w[k] = b
      /\ \A i \in 1 .. k : Adjacent(edges, w[i - 1], w[i])
      /\ \A i \in 1 .. k - 1 : w[i] \notin excluded
      /\ \A i \in 0 .. k : w[i] \notin visited
      /\ \A i, j \in 0 .. k : w[i] = w[j] => i = j
  BY DEF SimpleWalks, Walks
<1>2. \A i \in 0 .. k - 1 : i + 1 \in 1 .. k /\ i + 1 \in 0 .. k /\ v[i] = w[i + 1]
  OBVIOUS
<1>3. \A i \in 1 .. k : w[i] \notin visited \cup {a}
  <2> SUFFICES ASSUME NEW i \in 1 .. k PROVE w[i] \notin visited \cup {a}
    OBVIOUS
  <2>1. i \in 0 .. k /\ 0 \in 0 .. k /\ i # 0
    OBVIOUS
  <2> QED
    BY <1>1, <2>1
<1>4. 1 \in 1 .. k /\ w[1] \in nodes \ (visited \cup {a}) /\ Adjacent(edges, a, w[1])
  <2>1. 1 \in 1 .. k /\ 1 - 1 = 0 /\ 1 \in 0 .. k
    OBVIOUS
  <2> QED
    BY <1>1, <1>3, <2>1
<1>5. w[1] \in excluded => w[1] = b
  <2>1. k = 1 \/ 1 \in 1 .. k - 1
    OBVIOUS
  <2> QED
    BY <1>1, <2>1
<1>6. v \in [0 .. k - 1 -> nodes] /\ v[0] = w[1] /\ v[k - 1] = b
  <2>1. v \in [0 .. k - 1 -> nodes]
    BY <1>1, <1>2
  <2>2. 0 \in 0 .. k - 1 /\ k - 1 \in 0 .. k - 1 /\ k - 1 + 1 = k /\ 0 + 1 = 1
    OBVIOUS
  <2>3. v[0] = w[0 + 1] /\ v[k - 1] = w[k - 1 + 1]
    BY <1>2, <2>2
  <2> QED
    BY <1>1, <2>1, <2>2, <2>3
<1>7. ASSUME NEW i \in 1 .. k - 1 PROVE Adjacent(edges, v[i - 1], v[i])
  <2>1. i - 1 \in 0 .. k - 1 /\ i \in 0 .. k - 1 /\ i + 1 \in 1 .. k /\ i - 1 + 1 = i + 1 - 1
    OBVIOUS
  <2>2. v[i - 1] = w[i + 1 - 1] /\ v[i] = w[i + 1]
    BY <1>2, <2>1
  <2> QED
    BY <1>1, <2>1, <2>2
<1>8. ASSUME NEW i \in 1 .. k - 1 - 1 PROVE v[i] \notin excluded
  <2>1. i \in 0 .. k - 1 /\ i + 1 \in 1 .. k - 1
    OBVIOUS
  <2> QED
    BY <1>1, <1>2, <2>1
<1>9. v \in Walks(nodes, edges, w[1], b, k - 1, excluded)
  <2> HIDE DEF v
  <2> QED
    BY <1>6, <1>7, <1>8 DEF Walks
<1>10. \A i \in 0 .. k - 1 : v[i] \notin visited \cup {a}
  BY <1>2, <1>3
<1>11. ASSUME NEW i \in 0 .. k - 1, NEW j \in 0 .. k - 1, v[i] = v[j] PROVE i = j
  <2>1. i + 1 = j + 1
    BY <1>1, <1>2, <1>11
  <2> QED
    BY <2>1
<1>12. v \in SimpleWalks(nodes, edges, w[1], b, k - 1, excluded, visited \cup {a})
  <2> HIDE DEF v
  <2> QED
    BY <1>9, <1>10, <1>11 DEF SimpleWalks
<1> QED
  BY <1>4, <1>5, <1>12 DEF StepsOn, SimpleWay

\* The neighbours a call goes on to, and what it makes of their results r.
Usable(nb, a, b, excluded, visited) ==
    {m \in ToSet(nb[a]) \ visited : m \in excluded => m = b}

Results(nodes, path, visited, r) ==
    \A m \in nodes \ visited : r[m] = path[<<m, visited>>] /\ Len(r[m]) \in Nat

Extends(usable, r, a, p) ==
    \/ p = <<>> /\ \A m \in usable : r[m] = <<>>
    \/ \E m \in usable :
         /\ r[m] # <<>> /\ p = <<a>> \o r[m]
         /\ \A n \in usable : r[n] # <<>> => Len(r[m]) <= Len(r[n])

\* A call returns the node itself, the shortest continuation or nothing.
LEMMA VisitIs ==
    ASSUME NEW nodes, NEW nb, NEW a \in nodes, nb[a] \in Seq(nodes), NEW b, NEW excluded,
           NEW visited, NEW path, a # b, NEW r, Results(nodes, path, visited \cup {a}, r)
    PROVE  Extends(Usable(nb, a, b, excluded, visited \cup {a}), r, a,
                   Visit(nb, b, excluded, path, a, visited))
<1> DEFINE V == visited \cup {a}
           p == Visit(nb, b, excluded, path, a, visited)
           usable == Usable(nb, a, b, excluded, V)
           places == {i \in DOMAIN nb[a] : /\ nb[a][i] \notin V
                                           /\ nb[a][i] \in excluded => nb[a][i] = b}
           found == {i \in places : path[<<nb[a][i], V>>] # <<>>}
           paths == [i \in found |-> path[<<nb[a][i], V>>]]
<1>1. DOMAIN nb[a] \in SUBSET Nat /\ \A i \in DOMAIN nb[a] : nb[a][i] \in nodes
  OBVIOUS
<1>2. \A i \in places : nb[a][i] \in usable /\ path[<<nb[a][i], V>>] = r[nb[a][i]]
                        /\ Len(r[nb[a][i]]) \in Nat
  BY <1>1 DEF ToSet, Usable, Results
<1>3. \A m \in usable : \E i \in places : nb[a][i] = m
  BY DEF ToSet, Usable
<1>4. p = IF found = {} THEN <<>> ELSE <<a>> \o FirstShortest(paths)
  BY DEF Visit
<1> HIDE DEF p, usable
<1>5. CASE found = {}
  <2>1. \A m \in usable : r[m] = <<>>
    BY <1>2, <1>3, <1>5
  <2> QED
    BY <1>4, <1>5, <2>1 DEF Extends, p, usable
<1>6. CASE found # {}
  <2>1. DOMAIN paths = found /\ found \in SUBSET Nat
    BY <1>1
  <2>2. \A i \in found : paths[i] = r[nb[a][i]] /\ Len(paths[i]) \in Nat
    BY <1>2
  <2>3. \A m \in usable : r[m] # <<>> => \E i \in found : nb[a][i] = m
    BY <1>2, <1>3
  <2>4. \A i \in found : nb[a][i] \in usable /\ r[nb[a][i]] # <<>>
    BY <1>2
  <2> HIDE DEF paths, found
  <2>5. PICK i \in found : /\ FirstShortest(paths) = paths[i]
                           /\ \A j \in found : Len(paths[i]) <= Len(paths[j])
    <3>1. \A j \in DOMAIN paths : Len(paths[j]) \in Nat
      BY <2>1, <2>2
    <3> QED
      BY <1>6, <2>1, <3>1, ShortestIs
  <2> DEFINE m == nb[a][i]
  <2>6. m \in usable /\ r[m] # <<>> /\ p = <<a>> \o r[m]
    BY <1>4, <1>6, <2>2, <2>4, <2>5
  <2>7. \A n \in usable : r[n] # <<>> => Len(r[m]) <= Len(r[n])
    <3> SUFFICES ASSUME NEW n \in usable, r[n] # <<>> PROVE Len(r[m]) <= Len(r[n])
      OBVIOUS
    <3>1. PICK j \in found : nb[a][j] = n
      BY <2>3
    <3>2. Len(paths[i]) <= Len(paths[j]) /\ paths[j] = r[n] /\ paths[i] = r[m]
      BY <2>2, <2>5, <3>1
    <3> QED
      BY <3>2
  <2> QED
    BY <2>6, <2>7 DEF Extends, p, usable
<1> QED
  BY <1>5, <1>6

\* If the calls a call makes find their simple walks of fewest steps, so does it.
LEMMA CallFound ==
    ASSUME NEW nodes, NEW edges, NEW nb, NEW a \in nodes, nb[a] \in Seq(nodes),
           \A m \in nodes : m \in ToSet(nb[a]) <=> Adjacent(edges, a, m),
           NEW b \in nodes, NEW excluded, NEW visited, NEW path,
           NEW r, \A m \in nodes \ (visited \cup {a}) :
                    /\ r[m] = path[<<m, visited \cup {a}>>]
                    /\ Found(nodes, edges, b, excluded, visited \cup {a}, m, r[m])
                    /\ m = b => Len(r[m]) = 1
    PROVE  Found(nodes, edges, b, excluded, visited, a,
                 Visit(nb, b, excluded, path, a, visited))
<1> DEFINE p == Visit(nb, b, excluded, path, a, visited)
           V == visited \cup {a}
           usable == Usable(nb, a, b, excluded, V)
<1>1. CASE a = b
  <2>1. p = <<b>>
    BY <1>1 DEF Visit
  <2> QED
    BY <1>1, <2>1, AtEnd
<1>2. CASE a # b
  <2>1. Results(nodes, path, V, r)
    BY DEF Results, Found
  <2>2. Extends(usable, r, a, p)
    BY <1>2, <2>1, VisitIs
  <2>3. usable \subseteq nodes \ V /\ \A m \in usable : Adjacent(edges, a, m) /\ (m \in excluded => m = b)
    BY DEF ToSet, Usable
  <2> HIDE DEF p, usable
  <2>4. ASSUME NEW k \in Nat, SimpleWay(nodes, edges, a, b, k, excluded, visited)
        PROVE  \E m \in usable : r[m] # <<>> /\ Len(r[m]) <= k
    <3>1. k \in Nat \ {0}
      BY <1>2, <2>4 DEF SimpleWay, SimpleWalks, Walks
    <3>2. PICK m : StepsOn(nodes, edges, a, b, k, excluded, visited, m)
      BY <2>4, <3>1, OneStepLess
    <3>3. m \in usable
      BY <3>2 DEF StepsOn, usable, Usable
    <3>4. Found(nodes, edges, b, excluded, V, m, r[m])
      BY <3>2 DEF StepsOn
    <3>5. k - 1 \in Nat /\ k - 1 + 1 = k
      BY <3>1
    <3>6. r[m] # <<>> /\ Len(r[m]) <= k
      BY <3>2, <3>4, <3>5 DEF StepsOn, Found
    <3> QED
      BY <3>3, <3>6
  <2>5. CASE p = <<>> /\ \A m \in usable : r[m] = <<>>
    <3>1. p \in Seq(nodes)
      BY <2>5
    <3> QED
      BY <2>4, <2>5, <3>1 DEF Found, p
  <2>6. CASE \E m \in usable :
               /\ r[m] # <<>> /\ p = <<a>> \o r[m]
               /\ \A n \in usable : r[n] # <<>> => Len(r[m]) <= Len(r[n])
    <3>1. PICK m :
               /\ m \in usable /\ r[m] # <<>> /\ p = <<a>> \o r[m]
               /\ \A n \in usable : r[n] # <<>> => Len(r[m]) <= Len(r[n])
      BY <2>6
    <3>2. /\ m \in nodes /\ Adjacent(edges, a, m)
          /\ m = b => Len(r[m]) = 1
          /\ m \in excluded => m = b
          /\ r[m] \in Seq(nodes)
          /\ Steps(r[m]) \in Walks(nodes, edges, m, b, Len(r[m]) - 1, excluded)
      BY <2>3, <3>1 DEF Found
    <3>3. Len(r[m]) > 1 => m \notin excluded
      <4> DEFINE l == Len(r[m])
      <4>1. m = b => l = 1
        BY <3>2
      <4> HIDE DEF l
      <4>2. l = 1 => ~(l > 1)
        OBVIOUS
      <4> QED
        BY <3>2, <4>1, <4>2 DEF l
    <3>4. /\ p \in Seq(nodes) /\ p # <<>> /\ Len(p) = Len(r[m]) + 1
          /\ Steps(p) \in Walks(nodes, edges, a, b, Len(r[m]), excluded)
      BY <3>1, <3>2, <3>3, OneMoreStep
    <3>5. Len(r[m]) \in Nat
      BY <3>2
    <3>6. ASSUME NEW k \in Nat, SimpleWay(nodes, edges, a, b, k, excluded, visited)
          PROVE  Len(p) <= k + 1
      <4>1. PICK n \in usable : r[n] # <<>> /\ Len(r[n]) <= k
        BY <2>4, <3>6
      <4>2. Len(r[m]) <= Len(r[n]) /\ Len(r[n]) \in Nat
        BY <2>1, <2>3, <3>1, <4>1 DEF Results
      <4> QED
        BY <3>4, <3>5, <4>1, <4>2
    <3>7. Len(p) - 1 = Len(r[m])
      BY <3>4, <3>5
    <3>8. Found(nodes, edges, b, excluded, visited, a, p)
      BY <3>4, <3>6, <3>7 DEF Found
    <3> QED
      BY <3>8 DEF p
  <2> QED
    BY <2>2, <2>5, <2>6 DEF Extends
<1> QED
  BY <1>1, <1>2

\* All calls do.
LEMMA AllFound ==
    ASSUME NEW nodes, IsFiniteSet(nodes), NEW edges, NEW nb,
           \A a \in nodes : nb[a] \in Seq(nodes),
           \A a, m \in nodes : m \in ToSet(nb[a]) <=> Adjacent(edges, a, m),
           NEW b \in nodes, NEW excluded, NEW path, IsPath(nodes, nb, b, excluded, path)
    PROVE  \A visited \in SUBSET nodes : \A a \in nodes \ visited :
             Found(nodes, edges, b, excluded, visited, a, path[<<a, visited>>])
<1> DEFINE F(visited) == \A a \in nodes \ visited :
                           Found(nodes, edges, b, excluded, visited, a, path[<<a, visited>>])
           failing == {n \in Nat : \E visited \in SUBSET nodes :
                         Cardinality(nodes \ visited) = n /\ ~F(visited)}
<1>1. \A visited \in SUBSET nodes, a \in nodes :
        path[<<a, visited>>] = Visit(nb, b, excluded, path, a, visited)
  BY DEF IsPath
<1>2. SUFFICES failing = {}
  <2>1. \A visited \in SUBSET nodes : Cardinality(nodes \ visited) \in Nat
    BY FS_Subset, FS_CardinalityType
  <2> QED
    BY <1>2, <2>1
<1> SUFFICES ASSUME failing # {} PROVE FALSE
  OBVIOUS
<1>3. PICK n \in failing : \A m \in failing : n <= m
  <2>1. failing \in SUBSET Nat
    OBVIOUS
  <2> HIDE DEF failing
  <2> QED
    BY <2>1, NatMinimum
<1>4. PICK visited \in SUBSET nodes : Cardinality(nodes \ visited) = n /\ ~F(visited)
  BY <1>3
<1>5. PICK a \in nodes \ visited :
        ~Found(nodes, edges, b, excluded, visited, a, path[<<a, visited>>])
  BY <1>4
<1> DEFINE V == visited \cup {a}
           r == [m \in nodes |-> path[<<m, V>>]]
<1>6. /\ V \in SUBSET nodes /\ Cardinality(nodes \ V) \in Nat
      /\ Cardinality(nodes \ V) = n - 1 /\ n \in Nat
  BY <1>4, <1>5, OneFewer
<1>7. F(V)
  <2> HIDE DEF F, V
  <2>1. Cardinality(nodes \ V) \notin failing
    <3>1. ~(n <= n - 1)
      BY <1>6
    <3> HIDE DEF failing
    <3> QED
      BY <1>3, <1>6, <3>1
  <2> QED
    BY <1>6, <2>1
<1>8. Len(r[b]) = 1
  <2>1. r[b] = <<b>>
    BY <1>1, <1>6 DEF Visit
  <2> HIDE DEF r
  <2>2. Len(<<b>>) = 1
    OBVIOUS
  <2> QED
    BY <2>1, <2>2
<1>9. \A m \in nodes \ V : /\ r[m] = path[<<m, V>>]
                           /\ Found(nodes, edges, b, excluded, V, m, r[m])
                           /\ m = b => Len(r[m]) = 1
  BY <1>7, <1>8
<1>10. Found(nodes, edges, b, excluded, visited, a, Visit(nb, b, excluded, path, a, visited))
  <2> HIDE DEF r
  <2>1. a \in nodes /\ nb[a] \in Seq(nodes)
        /\ \A m \in nodes : m \in ToSet(nb[a]) <=> Adjacent(edges, a, m)
    BY <1>5
  <2> QED
    BY <1>9, <2>1, CallFound
<1> QED
  BY <1>1, <1>5, <1>10

\* A walk that comes to a node twice has a shorter one beside it.
LEMMA LoopCut ==
    ASSUME NEW nodes, NEW edges, NEW a, NEW b, NEW excluded, NEW k \in Nat,
           NEW w \in Walks(nodes, edges, a, b, k, excluded),
           NEW i \in 0 .. k, NEW j \in 0 .. k, i < j, w[i] = w[j]
    PROVE  \E l \in Nat : l < k /\ Walks(nodes, edges, a, b, l, excluded) # {}
<1> DEFINE d == j - i
           l == k - d
           v == [n \in 0 .. l |-> IF n <= i THEN w[n] ELSE w[n + d]]
<1>1. /\ w \in [0 .. k -> nodes] /\ w[0] = a /\ w[k] = b
      /\ \A n \in 1 .. k : Adjacent(edges, w[n - 1], w[n])
      /\ \A n \in 1 .. k - 1 : w[n] \notin excluded
  BY DEF Walks
<1>2. d \in Nat \ {0} /\ l \in Nat /\ l < k /\ i <= l /\ l + d = k /\ i + d = j
  OBVIOUS
<1>3. \A n \in 0 .. l : /\ n <= i => v[n] = w[n] /\ n \in 0 .. k
                        /\ n >= i => v[n] = w[n + d] /\ n + d \in 0 .. k
  <2> SUFFICES ASSUME NEW n \in 0 .. l
               PROVE  /\ n <= i => v[n] = w[n] /\ n \in 0 .. k
                      /\ n >= i => v[n] = w[n + d] /\ n + d \in 0 .. k
    OBVIOUS
  <2>1. n \in 0 .. k /\ n + d \in 0 .. k
    BY <1>2
  <2>2. CASE n < i
    BY <2>1, <2>2
  <2>3. CASE n = i
    BY <2>1, <2>3, <1>2
  <2>4. CASE n > i
    BY <2>1, <2>4
  <2> QED
    BY <2>2, <2>3, <2>4
<1>4. v \in [0 .. l -> nodes]
  <2>1. \A n \in 0 .. l : v[n] \in nodes
    BY <1>1, <1>3
  <2> QED
    BY <2>1
<1> HIDE DEF v, l, d
<1>5. v[0] = a /\ v[l] = b
  <2>1. 0 \in 0 .. l /\ l \in 0 .. l /\ 0 <= i /\ l >= i
    BY <1>2
  <2>2. v[0] = w[0] /\ v[l] = w[l + d]
    BY <1>3, <2>1
  <2> QED
    BY <1>1, <1>2, <2>2
<1>6. ASSUME NEW n \in 1 .. l PROVE Adjacent(edges, v[n - 1], v[n])
  <2>1. n - 1 \in 0 .. l /\ n \in 0 .. l
    BY <1>2
  <2>2. CASE n <= i
    <3>1. v[n - 1] = w[n - 1] /\ v[n] = w[n] /\ n \in 1 .. k
      BY <1>2, <1>3, <2>1, <2>2
    <3> QED
      BY <1>1, <3>1
  <2>3. CASE n > i
    <3> DEFINE q == n + d
    <3>1. q \in 1 .. k /\ n - 1 + d = q - 1 /\ n - 1 >= i /\ n >= i
      BY <1>2, <2>3
    <3>2. v[n - 1] = w[n - 1 + d] /\ v[n] = w[q]
      BY <1>3, <2>1, <3>1
    <3> HIDE DEF q
    <3>3. v[n - 1] = w[q - 1]
      BY <3>1, <3>2
    <3> QED
      BY <1>1, <3>1, <3>2, <3>3
  <2> QED
    BY <2>2, <2>3
<1>7. ASSUME NEW n \in 1 .. l - 1 PROVE v[n] \notin excluded
  <2>1. n \in 0 .. l /\ n \in 1 .. k - 1 /\ n + d \in 1 .. k - 1
    BY <1>2
  <2> QED
    BY <1>1, <1>3, <2>1
<1>8. v \in Walks(nodes, edges, a, b, l, excluded)
  BY <1>4, <1>5, <1>6, <1>7 DEF Walks
<1> QED
  BY <1>2, <1>8

\* Among walks of fewest steps all are simple.
LEMMA SimpleExists ==
    ASSUME NEW nodes, NEW edges, NEW a, NEW b, NEW excluded, NEW k \in Nat,
           Walks(nodes, edges, a, b, k, excluded) # {}
    PROVE  \E l \in Nat : l <= k /\ SimpleWay(nodes, edges, a, b, l, excluded, {})
<1> DEFINE lengths == {n \in Nat : Walks(nodes, edges, a, b, n, excluded) # {}}
<1>1. PICK l \in lengths : \A n \in lengths : l <= n
  <2>1. lengths \in SUBSET Nat /\ lengths # {}
    OBVIOUS
  <2> QED
    BY <2>1, NatMinimum
<1>2. PICK w : w \in Walks(nodes, edges, a, b, l, excluded)
  BY <1>1
<1>3. ASSUME NEW i \in 0 .. l, NEW j \in 0 .. l, w[i] = w[j], i < j PROVE FALSE
  <2>1. \E n \in Nat : n < l /\ Walks(nodes, edges, a, b, n, excluded) # {}
    BY <1>1, <1>2, <1>3, LoopCut
  <2> QED
    BY <1>1, <2>1
<1>4. \A i, j \in 0 .. l : w[i] = w[j] => i = j
  BY <1>1, <1>3
<1>5. w \in SimpleWalks(nodes, edges, a, b, l, excluded, {})
  BY <1>2, <1>4 DEF SimpleWalks
<1> QED
  BY <1>1, <1>5 DEF SimpleWay

\* get finds a walk of fewest steps, or there is none at all.
LEMMA GetPath ==
    ASSUME NEW nodes, IsFiniteSet(nodes), NEW edges \in Seq(nodes \X nodes),
           NEW a \in nodes, NEW b \in nodes, NEW excluded
    PROVE  LET p == get_path(nodes, edges, a, b, excluded)
           IN /\ p \in Seq(nodes)
              /\ p # <<>> => Steps(p) \in Walks(nodes, edges, a, b, Len(p) - 1, excluded)
              /\ \A k \in Nat : Walks(nodes, edges, a, b, k, excluded) # {} =>
                                  p # <<>> /\ Len(p) <= k + 1
<1> DEFINE nb == neighbors_of(nodes, edges)
           path == recPath(nodes, edges, b, excluded)
           p == get_path(nodes, edges, a, b, excluded)
<1>1. /\ \A m \in nodes : nb[m] \in Seq(nodes)
      /\ \A m, n \in nodes : n \in ToSet(nb[m]) <=> Adjacent(edges, m, n)
  BY NeighboursOf
<1>2. IsPath(nodes, nb, b, excluded, path)
  BY PathIs
<1>3. p = path[<<a, {}>>]
  BY DEF get_path
<1> HIDE DEF nb, path, p
<1>4. Found(nodes, edges, b, excluded, {}, a, p)
  BY <1>1, <1>2, <1>3, AllFound
<1>5. ASSUME NEW k \in Nat, Walks(nodes, edges, a, b, k, excluded) # {}
      PROVE  p # <<>> /\ Len(p) <= k + 1
  <2>1. PICK l \in Nat : l <= k /\ SimpleWay(nodes, edges, a, b, l, excluded, {})
    BY <1>5, SimpleExists
  <2>2. p # <<>> /\ Len(p) <= l + 1 /\ Len(p) \in Nat
    BY <1>4, <2>1 DEF Found
  <2> QED
    BY <2>1, <2>2
<1> QED
  BY <1>4, <1>5 DEF Found, p

-----------------------------------------------------------------------------
(* Picking the elements at chosen positions.                                *)

\* The ranks of the chosen positions are 1, 2, ... without gap or repetition.
LEMMA RankIs ==
    ASSUME NEW N \in Nat, NEW chosen \in SUBSET (1 .. N)
    PROVE  /\ Cardinality(chosen) \in Nat
           /\ \A i \in chosen : Rank(chosen, i) \in 1 .. Cardinality(chosen)
           /\ \A i, j \in chosen : Rank(chosen, i) = Rank(chosen, j) => i = j
           /\ \A k \in 1 .. Cardinality(chosen) : \E i \in chosen : Rank(chosen, i) = k
<1> DEFINE upTo(i) == {j \in chosen : j <= i}
           C(i) == Cardinality(upTo(i))
<1>0. \A i \in chosen : i \in Nat /\ 1 <= i /\ i <= N
  OBVIOUS
<1>1. /\ IsFiniteSet(chosen) /\ Cardinality(chosen) \in Nat
      /\ \A i : IsFiniteSet(upTo(i)) /\ C(i) \in Nat /\ C(i) <= Cardinality(chosen)
  <2>1. IsFiniteSet(chosen)
    <3>1. IsFiniteSet(1 .. N)
      BY FS_Interval
    <3> QED
      BY <3>1, FS_Subset
  <2>2. \A i : upTo(i) \in SUBSET chosen
    OBVIOUS
  <2> HIDE DEF upTo
  <2> QED
    BY <2>1, <2>2, FS_Subset, FS_CardinalityType
<1>2. \A i : Rank(chosen, i) = C(i)
  BY DEF Rank
<1>3. ASSUME NEW i \in chosen PROVE C(i) \in 1 .. Cardinality(chosen)
  <2>1. upTo(i) # {}
    <3>1. i \in upTo(i)
      OBVIOUS
    <3> QED
      BY <3>1
  <2>2. C(i) # 0
    BY <1>1, <2>1, FS_EmptySet
  <2>3. C(i) \in Nat /\ C(i) <= Cardinality(chosen)
    BY <1>1
  <2> HIDE DEF C
  <2> QED
    BY <1>1, <2>2, <2>3
<1>4. ASSUME NEW i \in chosen, NEW j \in chosen, C(i) = C(j), i < j PROVE FALSE
  <2>1. upTo(i) \subseteq upTo(j)
    <3>1. i \in Nat /\ j \in Nat
      BY <1>0
    <3>2. \A k \in chosen : k <= i => k <= j
      BY <1>0, <1>4, <3>1
    <3> QED
      BY <3>2
  <2>2. j \in upTo(j) /\ j \notin upTo(i)
    BY <1>4
  <2> HIDE DEF upTo
  <2>3. upTo(i) = upTo(j)
    BY <1>1, <1>4, <2>1, FS_Subset
  <2> QED
    BY <2>2, <2>3
<1>5. ASSUME NEW k \in 1 .. Cardinality(chosen) PROVE \E i \in chosen : C(i) = k
  <2> DEFINE enough == {n \in Nat : C(n) >= k}
  <2>1. PICK n \in enough : \A m \in enough : n <= m
    <3>1. upTo(N) = chosen
      BY <1>0
    <3>2. N \in enough
      BY <1>1, <3>1
    <3>3. enough \in SUBSET Nat
      OBVIOUS
    <3> HIDE DEF enough
    <3> QED
      BY <3>2, <3>3, NatMinimum
  <2>2. n # 0
    <3>1. upTo(0) = {}
      <4>1. \A j \in chosen : ~(j <= 0)
        BY <1>0
      <4> QED
        BY <4>1
    <3>2. C(0) = 0
      BY <3>1, FS_EmptySet
    <3> HIDE DEF C
    <3> QED
      BY <2>1, <3>2
  <2>3. n - 1 \in Nat /\ n \in Nat /\ ~(C(n - 1) >= k) /\ C(n) >= k
    <3>1. n - 1 \in Nat /\ n \in Nat /\ ~(n <= n - 1)
      BY <2>1, <2>2
    <3> HIDE DEF C
    <3> QED
      BY <2>1, <3>1
  <2>4. upTo(n) = upTo(n - 1) \cup (chosen \cap {n})
    <3>1. n \in Nat /\ n - 1 \in Nat
      BY <2>3
    <3>2. \A j \in chosen : j <= n <=> j <= n - 1 \/ j = n
      BY <1>0, <3>1
    <3> QED
      BY <3>2
  <2>5. n \notin upTo(n - 1)
    BY <2>3
  <2> HIDE DEF upTo
  <2>6. CASE n \in chosen
    <3>1. upTo(n) = upTo(n - 1) \cup {n}
      BY <2>4, <2>6
    <3>2. C(n) = C(n - 1) + 1
      BY <1>1, <2>5, <3>1, FS_AddElement
    <3>3. C(n) \in Nat /\ C(n - 1) \in Nat
      BY <1>1
    <3> HIDE DEF C
    <3>4. C(n) = k
      BY <2>3, <3>2, <3>3
    <3> QED
      BY <2>6, <3>4
  <2>7. CASE n \notin chosen
    <3>1. C(n) = C(n - 1)
      BY <2>4, <2>7
    <3> HIDE DEF C
    <3> QED
      BY <2>3, <3>1
  <2> QED
    BY <2>6, <2>7
<1> HIDE DEF C
<1>6. \A i, j \in chosen : C(i) = C(j) => i = j
  BY <1>4
<1> QED
  BY <1>1, <1>2, <1>3, <1>5, <1>6

\* The elements at the chosen positions are in S, and p holds them in their order.
Holds(S, seq, chosen) == \A i \in chosen : seq[i] \in S

Keeps(S, seq, chosen, p) ==
    /\ p \in Seq(S)
    /\ \A i \in chosen : Rank(chosen, i) \in DOMAIN p /\ p[Rank(chosen, i)] = seq[i]
    /\ \A k \in DOMAIN p : \E i \in chosen : k = Rank(chosen, i) /\ p[k] = seq[i]

\* Picked holds the elements at the chosen positions, each at its rank.
LEMMA PickedIs ==
    ASSUME NEW N \in Nat, NEW chosen \in SUBSET (1 .. N), NEW S, NEW seq,
           Holds(S, seq, chosen)
    PROVE  Keeps(S, seq, chosen, Picked(seq, chosen))
<1> DEFINE at(k) == CHOOSE i \in chosen : Rank(chosen, i) = k
           l == Cardinality(chosen)
           p == [k \in 1 .. l |-> seq[at(k)]]
<1>1. Picked(seq, chosen) = p
  BY DEF Picked
<1>2. l \in Nat
  BY RankIs
<1>3. \A k \in 1 .. l : at(k) \in chosen /\ Rank(chosen, at(k)) = k
  BY RankIs
<1>4. \A i \in chosen : Rank(chosen, i) \in 1 .. l /\ at(Rank(chosen, i)) = i
  BY <1>3, RankIs
<1> HIDE DEF at, l
<1>5. \A k \in 1 .. l : p[k] = seq[at(k)] /\ p[k] \in S
  BY <1>3 DEF Holds
<1>6. DOMAIN p = 1 .. l
  OBVIOUS
<1>7. p \in Seq(S)
  BY <1>2, <1>5
<1> HIDE DEF p
<1> QED
  BY <1>1, <1>3, <1>4, <1>5, <1>6, <1>7 DEF Keeps

-----------------------------------------------------------------------------
(* Sequences one after the other.                                           *)

\* No element occurs twice, in one of them or in two.
AllDistinct(seqs) ==
    \A m, n \in DOMAIN seqs : \A i \in DOMAIN seqs[m], j \in DOMAIN seqs[n] :
        seqs[m][i] = seqs[n][j] => m = n /\ i = j

\* The first n of them.
Chained(S, seqs, n, f) ==
    /\ f \in Seq(S)
    /\ \A k \in DOMAIN f : \E m \in 1 .. n : \E i \in DOMAIN seqs[m] : f[k] = seqs[m][i]
    /\ \A k, l \in DOMAIN f : f[k] = f[l] => k = l

\* One sequence more.
LEMMA OneMoreChained ==
    ASSUME NEW S, NEW seqs \in Seq(Seq(S)), AllDistinct(seqs), NEW n \in 2 .. Len(seqs),
           NEW f, Chained(S, seqs, n - 1, f)
    PROVE  Chained(S, seqs, n, f \o seqs[n])
<1> DEFINE s == seqs[n]
           g == f \o s
<1>1. /\ n \in DOMAIN seqs /\ s \in Seq(S) /\ f \in Seq(S) /\ 1 .. n \subseteq DOMAIN seqs
      /\ \A m \in 1 .. n - 1 : m \in 1 .. n /\ m # n
  BY DEF Chained
<1> HIDE DEF s
<1>2. g \in Seq(S) /\ \A k \in DOMAIN g :
        \/ k \in DOMAIN f /\ g[k] = f[k]
        \/ k - Len(f) \in DOMAIN s /\ g[k] = s[k - Len(f)] /\ k \in Int
  BY <1>1
<1> HIDE DEF g
<1>3. \A k \in DOMAIN f : \E m \in 1 .. n - 1 : \E i \in DOMAIN seqs[m] : f[k] = seqs[m][i]
  BY DEF Chained
<1>4. \A k \in DOMAIN f, i \in DOMAIN s : f[k] # s[i]
  <2> SUFFICES ASSUME NEW k \in DOMAIN f, NEW i \in DOMAIN s, f[k] = s[i] PROVE FALSE
    OBVIOUS
  <2>1. PICK m \in 1 .. n - 1 : \E j \in DOMAIN seqs[m] : f[k] = seqs[m][j]
    BY <1>3
  <2>2. m \in DOMAIN seqs /\ m # n
    BY <1>1
  <2> QED
    BY <1>1, <2>1, <2>2 DEF AllDistinct, s
<1>5. \A i, j \in DOMAIN s : s[i] = s[j] => i = j
  BY <1>1 DEF AllDistinct, s
<1>6. \A k \in DOMAIN g : \E m \in 1 .. n : \E i \in DOMAIN seqs[m] : g[k] = seqs[m][i]
  <2> SUFFICES ASSUME NEW k \in DOMAIN g
               PROVE  \E m \in 1 .. n : \E i \in DOMAIN seqs[m] : g[k] = seqs[m][i]
    OBVIOUS
  <2>1. CASE k \in DOMAIN f /\ g[k] = f[k]
    <3>1. PICK m \in 1 .. n - 1 : \E j \in DOMAIN seqs[m] : f[k] = seqs[m][j]
      BY <1>3, <2>1
    <3> QED
      BY <1>1, <2>1, <3>1
  <2>2. CASE k - Len(f) \in DOMAIN s /\ g[k] = s[k - Len(f)]
    <3>1. n \in 1 .. n
      OBVIOUS
    <3> QED
      BY <2>2, <3>1 DEF s
  <2> QED
    BY <1>2, <2>1, <2>2
<1>7. ASSUME NEW k \in DOMAIN g, NEW l \in DOMAIN g, g[k] = g[l] PROVE k = l
  <2>1. \A i, j \in DOMAIN f : f[i] = f[j] => i = j
    BY DEF Chained
  <2>2. CASE k \in DOMAIN f /\ g[k] = f[k]
    <3>1. ~(l - Len(f) \in DOMAIN s /\ g[l] = s[l - Len(f)])
      BY <1>4, <1>7, <2>2
    <3> QED
      BY <1>2, <1>7, <2>1, <2>2, <3>1
  <2>3. CASE k - Len(f) \in DOMAIN s /\ g[k] = s[k - Len(f)] /\ k \in Int
    <3>1. ~(l \in DOMAIN f /\ g[l] = f[l])
      BY <1>4, <1>7, <2>3
    <3>2. l - Len(f) \in DOMAIN s /\ g[l] = s[l - Len(f)] /\ l \in Int
      BY <1>2, <3>1
    <3>3. k - Len(f) = l - Len(f)
      BY <1>5, <1>7, <2>3, <3>2
    <3>4. Len(f) \in Nat
      BY <1>1
    <3> QED
      BY <2>3, <3>2, <3>3, <3>4
  <2> QED
    BY <1>2, <2>2, <2>3
<1> QED
  BY <1>2, <1>6, <1>7 DEF Chained, g, s

\* FlattenSeq appends the sequences one after the other.
LEMMA FlattenSteps ==
    ASSUME NEW S, NEW seqs \in Seq(Seq(S)), Len(seqs) # 0
    PROVE  \E f : /\ f[1] = seqs[1]
                  /\ \A n \in 2 .. Len(seqs) : f[n] = f[n - 1] \o seqs[n]
                  /\ FlattenSeq(seqs) = f[Len(seqs)]
<1> DEFINE T == Seq(S)
           N == Len(seqs)
           step == [p \in T \X (1 .. N) |-> p[1] \o seqs[p[2]]]
           Is(f) == f = [i \in 1 .. N |-> IF i = 1 THEN seqs[i] ELSE f[i - 1] \o seqs[i]]
<1>1. N \in Nat \ {0} /\ <<>> \in T /\ \A n \in 1 .. N : seqs[n] \in Seq(S)
  OBVIOUS
<1>2. step \in [T \X (1 .. N) -> T]
  <2>1. ASSUME NEW p \in T \X (1 .. N) PROVE p[1] \o seqs[p[2]] \in T
    <3>1. p[1] \in Seq(S) /\ p[2] \in 1 .. N
      OBVIOUS
    <3>2. seqs[p[2]] \in Seq(S)
      BY <1>1, <3>1
    <3> QED
      BY <3>1, <3>2
  <2> QED
    BY <2>1
<1>3. \A x \in T, n \in 1 .. N : step[<<x, n>>] = x \o seqs[n]
  OBVIOUS
<1> HIDE DEF step, N
<1>4. PICK g : Loops(T, <<>>, N, step, g)
  BY <1>1, <1>2, LoopExists
<1>5. \A n \in 1 .. N : g[n] = g[n - 1] \o seqs[n]
  <2> SUFFICES ASSUME NEW n \in 1 .. N PROVE g[n] = g[n - 1] \o seqs[n]
    OBVIOUS
  <2>1. n - 1 \in 0 .. N
    BY <1>1
  <2>2. g[n - 1] \in T
    BY <1>4, <2>1 DEF Loops
  <2> QED
    BY <1>3, <1>4, <2>2 DEF Loops
<1>6. g[1] = seqs[1]
  <2>1. 1 \in 1 .. N
    BY <1>1
  <2>2. seqs[1] \in Seq(S)
    BY <1>1, <2>1
  <2>3. g[0] = <<>>
    BY <1>4 DEF Loops
  <2>4. \A n : n = 1 => n - 1 = 0
    OBVIOUS
  <2>5. \A n \in 1 .. N : n = 1 => g[n] = g[0] \o seqs[n]
    <3> SUFFICES ASSUME NEW n \in 1 .. N, n = 1 PROVE g[n] = g[0] \o seqs[n]
      OBVIOUS
    <3>1. g[n - 1] = g[0]
      BY <2>4
    <3> QED
      BY <1>5, <3>1
  <2>6. g[1] = g[0] \o seqs[1]
    BY <2>1, <2>5
  <2>7. <<>> \o seqs[1] = seqs[1]
    BY <2>2
  <2> QED
    BY <2>3, <2>6, <2>7
<1> DEFINE h == [i \in 1 .. N |-> g[i]]
<1>7. Is(h)
  <2>1. ASSUME NEW i \in 1 .. N
        PROVE  h[i] = IF i = 1 THEN seqs[i] ELSE h[i - 1] \o seqs[i]
    <3>1. CASE i = 1
      BY <1>6, <3>1
    <3>2. CASE i # 1
      <4>1. i - 1 \in 1 .. N
        BY <3>2, <1>1
      <4>2. h[i - 1] = g[i - 1] /\ h[i] = g[i]
        BY <4>1
      <4> QED
        BY <1>5, <3>2, <4>2
    <3> QED
      BY <3>1, <3>2
  <2>2. h = [i \in 1 .. N |-> h[i]]
    OBVIOUS
  <2> HIDE DEF h
  <2> QED
    BY <2>1, <2>2
<1> DEFINE f == CHOOSE x : Is(x)
<1>8. Is(f)
  BY <1>7
<1>9. FlattenSeq(seqs) = f[N]
  BY DEF FlattenSeq, N
<1> HIDE DEF f
<1>10. \A i \in 1 .. N : f[i] = IF i = 1 THEN seqs[i] ELSE f[i - 1] \o seqs[i]
  BY <1>8
<1>11. f[1] = seqs[1] /\ \A n \in 2 .. N : f[n] = f[n - 1] \o seqs[n]
  <2>1. 1 \in 1 .. N /\ \A n \in 2 .. N : n \in 1 .. N /\ n # 1
    BY <1>1
  <2> QED
    BY <1>10, <2>1
<1> QED
  BY <1>9, <1>11 DEF N

\* Sequences that share no element make one without repetition.
LEMMA FlattenDistinct ==
    ASSUME NEW S, NEW seqs \in Seq(Seq(S)), AllDistinct(seqs)
    PROVE  Chained(S, seqs, Len(seqs), FlattenSeq(seqs))
<1>1. CASE Len(seqs) = 0
  <2>1. FlattenSeq(seqs) = <<>>
    BY <1>1 DEF FlattenSeq
  <2>2. <<>> \in Seq(S) /\ DOMAIN <<>> = {}
    OBVIOUS
  <2> QED
    BY <2>1, <2>2 DEF Chained
<1>2. CASE Len(seqs) # 0
  <2>1. PICK f : /\ f[1] = seqs[1]
                 /\ \A n \in 2 .. Len(seqs) : f[n] = f[n - 1] \o seqs[n]
                 /\ FlattenSeq(seqs) = f[Len(seqs)]
    BY <1>2, FlattenSteps
  <2>2. Len(seqs) \in Nat \ {0} /\ DOMAIN seqs = 1 .. Len(seqs)
    BY <1>2
  <2> DEFINE failing == {n \in 1 .. Len(seqs) : ~Chained(S, seqs, n, f[n])}
  <2>3. Chained(S, seqs, 1, seqs[1])
    <3>1. 1 \in 1 .. Len(seqs) /\ 1 \in 1 .. 1
      BY <2>2
    <3>2. seqs[1] \in Seq(S)
      BY <3>1
    <3> QED
      BY <2>2, <3>1, <3>2 DEF Chained, AllDistinct
  <2>4. failing = {}
    <3> SUFFICES ASSUME failing # {} PROVE FALSE
      OBVIOUS
    <3>1. PICK n \in failing : \A m \in failing : n <= m
      <4>1. failing \in SUBSET Nat
        OBVIOUS
      <4> QED
        BY <4>1, NatMinimum
    <3>2. n # 1
      BY <2>1, <2>3, <3>1
    <3>3. n \in 2 .. Len(seqs) /\ n - 1 \in 1 .. Len(seqs) /\ n - 1 \notin failing
      BY <3>1, <3>2
    <3>4. Chained(S, seqs, n - 1, f[n - 1]) /\ f[n] = f[n - 1] \o seqs[n]
      BY <2>1, <3>3
    <3>5. Chained(S, seqs, n, f[n - 1] \o seqs[n])
      BY <3>3, <3>4, OneMoreChained
    <3> QED
      BY <3>1, <3>4, <3>5
  <2>5. Len(seqs) \in 1 .. Len(seqs)
    BY <2>2
  <2> QED
    BY <2>1, <2>4, <2>5
<1> QED
  BY <1>1, <1>2

-----------------------------------------------------------------------------
(* The calls of addLink.                                                    *)

\* SetToSeq lists elements of a finite set, none of them twice.
LEMMA Enumerated ==
    ASSUME NEW S, IsFiniteSet(S)
    PROVE  /\ SetToSeq(S) \in Seq(S)
           /\ \A i, j \in DOMAIN SetToSeq(S) : SetToSeq(S)[i] = SetToSeq(S)[j] => i = j
<1> DEFINE N == Cardinality(S)
<1>1. N \in Nat
  BY FS_CardinalityType
<1>2. ExistsBijection(1 .. N, S)
  <2>1. PICK n \in Nat : ExistsBijection(1 .. n, S)
    BY FS_NatBijection
  <2> QED
    BY <2>1, FS_CountingElements
<1> DEFINE f == CHOOSE f \in [1 .. N -> S] : IsInjective(f)
<1>3. \E g \in [1 .. N -> S] : IsInjective(g)
  BY <1>2 DEF ExistsBijection, Bijection, Injection, IsInjective
<1>4. f \in [1 .. N -> S] /\ IsInjective(f)
  BY <1>3
<1>5. SetToSeq(S) = f
  BY DEF SetToSeq
<1> HIDE DEF f, N
<1> QED
  BY <1>1, <1>4, <1>5 DEF IsInjective

\* The nodes of a list of links are finitely many.
LEMMA NodesFinite ==
    ASSUME NEW links \in Seq(Nodes \X Nodes)
    PROVE  /\ IsFiniteSet(NodesOf(links)) /\ IsFiniteSet(HostsOf(links))
           /\ HostsOf(links) \subseteq NodesOf(links)
           /\ links \in Seq(NodesOf(links) \X NodesOf(links))
           /\ NodesOf(links) \subseteq Nodes
<1> DEFINE ends == [i \in DOMAIN links |-> {links[i][1], links[i][2]}]
           T == {ends[i] : i \in DOMAIN links}
<1>1. Len(links) \in Nat /\ DOMAIN links = 1 .. Len(links)
  OBVIOUS
<1>2. IsFiniteSet(DOMAIN links)
  BY <1>1, FS_Interval
<1>3. ends \in Surjection(DOMAIN links, T)
  BY DEF Surjection
<1>4. IsFiniteSet(T)
  BY <1>2, <1>3, FS_Surjection
<1>5. \A t \in T : IsFiniteSet(t)
  <2> SUFFICES ASSUME NEW i \in DOMAIN links PROVE IsFiniteSet(ends[i])
    OBVIOUS
  <2>1. ends[i] = {links[i][1], links[i][2]}
    OBVIOUS
  <2>2. {links[i][1], links[i][2]} = {links[i][1]} \cup {links[i][2]}
    OBVIOUS
  <2>3. IsFiniteSet({links[i][1]})
    BY FS_Singleton
  <2> QED
    BY <2>1, <2>2, <2>3, FS_AddElement
<1>6. NodesOf(links) = UNION T
  BY DEF NodesOf
<1>7. IsFiniteSet(NodesOf(links))
  <2> HIDE DEF T
  <2> QED
    BY <1>4, <1>5, <1>6, FS_UNION
<1>8. HostsOf(links) \subseteq NodesOf(links)
  BY DEF HostsOf
<1>9. \A i \in DOMAIN links : /\ links[i] = <<links[i][1], links[i][2]>>
                              /\ links[i][1] \in Nodes /\ links[i][2] \in Nodes
                              /\ links[i][1] \in NodesOf(links) /\ links[i][2] \in NodesOf(links)
  <2> SUFFICES ASSUME NEW i \in DOMAIN links
               PROVE  /\ links[i] = <<links[i][1], links[i][2]>>
                      /\ links[i][1] \in Nodes /\ links[i][2] \in Nodes
                      /\ links[i][1] \in NodesOf(links) /\ links[i][2] \in NodesOf(links)
    OBVIOUS
  <2>1. links[i] \in Nodes \X Nodes
    OBVIOUS
  <2>2. {links[i][1], links[i][2]} \in {{links[j][1], links[j][2]} : j \in DOMAIN links}
    OBVIOUS
  <2> QED
    BY <2>1, <2>2 DEF NodesOf
<1>10. \A i \in DOMAIN links : links[i] \in NodesOf(links) \X NodesOf(links)
  BY <1>9
<1>11. links \in Seq(NodesOf(links) \X NodesOf(links))
  BY <1>1, <1>10
<1>12. NodesOf(links) \subseteq Nodes
  BY <1>9 DEF NodesOf
<1> QED
  BY <1>7, <1>8, <1>11, <1>12, FS_Subset

\* The ends of a link, seen from one of them.
LEMMA EndsOf ==
    ASSUME NEW link, NEW node, Touches(link, node)
    PROVE  {link[1], link[2]} = {node, Peer(link, node)}
BY DEF Touches, Peer

\* A switch's call among others is known by what is at its other end.
SameEnds(c, d) == {c[1], c[2]} = {d[1], d[2]}

\* The calls for one host, and those for the links between switches.
CallsOf(links, host, calls) ==
    /\ calls \in Seq(NodesOf(links) \X NodesOf(links))
    /\ \A k \in DOMAIN calls : calls[k][1] = host
    /\ \A k, l \in DOMAIN calls : calls[k] = calls[l] => k = l

\* A call is made for a host, which it names first, or joins two switches.
IsHostCall(c) == c[1].kind = "h"
IsSwitchCall(c) == c[1].kind = "s" /\ c[2].kind = "s"

Between(links, calls) ==
    /\ calls \in Seq(NodesOf(links) \X NodesOf(links))
    /\ \A k \in DOMAIN calls : IsSwitchCall(calls[k])
    /\ \A k, l \in DOMAIN calls : SameEnds(calls[k], calls[l]) => k = l

\* The calls for one host name it first, and no two are the same.
LEMMA HostCallsAre ==
    ASSUME NEW links \in Seq(Nodes \X Nodes), Simple(links), NEW host, host \in NodesOf(links)
    PROVE  CallsOf(links, host, HostCalls(links, host))
<1> DEFINE S == NodesOf(links) \X NodesOf(links)
           seq == [i \in DOMAIN links |-> <<host, Peer(links[i], host)>>]
           own == {i \in DOMAIN links : Touches(links[i], host)}
           calls == HostCalls(links, host)
<1>1. /\ Len(links) \in Nat /\ own \in SUBSET (1 .. Len(links))
      /\ \A i \in own : i \in DOMAIN links /\ Touches(links[i], host)
  OBVIOUS
<1>2. links \in Seq(S)
  BY NodesFinite
<1>3. \A i \in own : /\ seq[i] = <<host, Peer(links[i], host)>>
                     /\ Peer(links[i], host) \in NodesOf(links)
  <2> SUFFICES ASSUME NEW i \in own
               PROVE  /\ seq[i] = <<host, Peer(links[i], host)>>
                      /\ Peer(links[i], host) \in NodesOf(links)
    OBVIOUS
  <2>1. links[i] \in S
    BY <1>1, <1>2
  <2>2. links[i][1] \in NodesOf(links) /\ links[i][2] \in NodesOf(links)
    BY <2>1
  <2> QED
    BY <1>1, <2>2 DEF Peer
<1>4. Holds(S, seq, own)
  BY <1>3 DEF Holds
<1>5. calls = Picked(seq, own)
  BY DEF HostCalls
<1> HIDE DEF seq, own, calls, S
<1>6. /\ calls \in Seq(S)
      /\ \A k \in DOMAIN calls : \E i \in own : k = Rank(own, i) /\ calls[k] = seq[i]
  <2>1. Keeps(S, seq, own, calls)
    BY <1>1, <1>4, <1>5, PickedIs
  <2> QED
    BY <2>1 DEF Keeps
<1>7. \A k \in DOMAIN calls : calls[k][1] = host
  <2> SUFFICES ASSUME NEW k \in DOMAIN calls PROVE calls[k][1] = host
    OBVIOUS
  <2>1. PICK i \in own : calls[k] = seq[i]
    BY <1>6
  <2>2. calls[k] = <<host, Peer(links[i], host)>>
    BY <1>3, <2>1
  <2> QED
    BY <2>2
<1>8. ASSUME NEW k \in DOMAIN calls, NEW l \in DOMAIN calls, calls[k] = calls[l] PROVE k = l
  <2>1. PICK i \in own : k = Rank(own, i) /\ calls[k] = seq[i]
    BY <1>6
  <2>2. PICK j \in own : l = Rank(own, j) /\ calls[l] = seq[j]
    BY <1>6
  <2>3. <<host, Peer(links[i], host)>> = <<host, Peer(links[j], host)>>
    BY <1>3, <1>8, <2>1, <2>2
  <2>4. Peer(links[i], host) = Peer(links[j], host)
    BY <2>3
  <2>5. {links[i][1], links[i][2]} = {links[j][1], links[j][2]}
    BY <1>1, <2>4, EndsOf
  <2>6. i = j
    BY <1>1, <2>5 DEF Simple
  <2> QED
    BY <2>1, <2>2, <2>6
<1> QED
  BY <1>6, <1>7, <1>8 DEF calls, S, CallsOf

\* No two calls between switches join the same two.
LEMMA SwitchCallsAre ==
    ASSUME NEW links \in Seq(Nodes \X Nodes), Simple(links)
    PROVE  Between(links, SwitchCalls(links))
<1> DEFINE S == NodesOf(links) \X NodesOf(links)
           own == {i \in DOMAIN links : links[i][1].kind = "s" /\ links[i][2].kind = "s"}
           calls == SwitchCalls(links)
<1>1. /\ Len(links) \in Nat /\ own \in SUBSET (1 .. Len(links))
      /\ \A i \in own : i \in DOMAIN links /\ links[i][1].kind = "s" /\ links[i][2].kind = "s"
  OBVIOUS
<1>2. links \in Seq(S)
  BY NodesFinite
<1>3. Holds(S, links, own)
  BY <1>1, <1>2 DEF Holds
<1>4. calls = Picked(links, own)
  BY DEF SwitchCalls
<1> HIDE DEF own, calls, S
<1>5. /\ calls \in Seq(S)
      /\ \A k \in DOMAIN calls : \E i \in own : k = Rank(own, i) /\ calls[k] = links[i]
  <2>1. Keeps(S, links, own, calls)
    BY <1>1, <1>3, <1>4, PickedIs
  <2> QED
    BY <2>1 DEF Keeps
<1>6. ASSUME NEW k \in DOMAIN calls, NEW l \in DOMAIN calls, SameEnds(calls[k], calls[l])
      PROVE  k = l
  <2>1. PICK i \in own : k = Rank(own, i) /\ calls[k] = links[i]
    BY <1>5
  <2>2. PICK j \in own : l = Rank(own, j) /\ calls[l] = links[j]
    BY <1>5
  <2>3. i = j
    BY <1>1, <1>6, <2>1, <2>2 DEF SameEnds, Simple
  <2> QED
    BY <2>1, <2>2, <2>3
<1>7. \A k \in DOMAIN calls : IsSwitchCall(calls[k])
  <2> SUFFICES ASSUME NEW k \in DOMAIN calls PROVE IsSwitchCall(calls[k])
    OBVIOUS
  <2>1. PICK i \in own : calls[k] = links[i]
    BY <1>5
  <2> QED
    BY <1>1, <2>1 DEF IsSwitchCall
<1> QED
  BY <1>5, <1>6, <1>7 DEF calls, S, Between

\* The calls of addLink are for hosts or between switches; no two for hosts are the
\* same, and no two between switches join the same two.
LEMMA CallsAre ==
    ASSUME NEW links \in Seq(Nodes \X Nodes), Simple(links)
    PROVE  /\ addLinks(links) \in Seq(NodesOf(links) \X NodesOf(links))
           /\ \A i \in DOMAIN addLinks(links) :
                IsHostCall(addLinks(links)[i]) \/ IsSwitchCall(addLinks(links)[i])
           /\ \A i, j \in DOMAIN addLinks(links) :
                \/ IsHostCall(addLinks(links)[i]) /\ addLinks(links)[i] = addLinks(links)[j]
                \/ IsSwitchCall(addLinks(links)[i])
                   /\ SameEnds(addLinks(links)[i], addLinks(links)[j])
                => i = j
<1> DEFINE S == NodesOf(links) \X NodesOf(links)
           names == host_names(links)
           seqs == [i \in DOMAIN names |-> HostCalls(links, names[i])]
           f == FlattenSeq(seqs)
           s == SwitchCalls(links)
           calls == addLinks(links)
<1>1. /\ names \in Seq(HostsOf(links))
      /\ \A i, j \in DOMAIN names : names[i] = names[j] => i = j
  BY NodesFinite, Enumerated DEF host_names
<1>2. \A i \in DOMAIN names : names[i] \in NodesOf(links) /\ names[i].kind = "h"
  BY <1>1 DEF HostsOf
<1>3. calls = f \o s
  BY DEF addLinks
<1> HIDE DEF names, f, s, calls
<1>4. \A i \in DOMAIN names :
        /\ seqs[i] \in Seq(S)
        /\ \A k \in DOMAIN seqs[i] : seqs[i][k][1] = names[i]
        /\ \A k, l \in DOMAIN seqs[i] : seqs[i][k] = seqs[i][l] => k = l
  BY <1>2, HostCallsAre DEF CallsOf
<1>5. seqs \in Seq(Seq(S)) /\ DOMAIN seqs = DOMAIN names
  <2>1. Len(names) \in Nat /\ DOMAIN names = 1 .. Len(names)
    BY <1>1
  <2> HIDE DEF S
  <2> QED
    BY <1>4, <2>1
<1> HIDE DEF seqs, S
<1>6. AllDistinct(seqs)
  <2> SUFFICES ASSUME NEW m \in DOMAIN seqs, NEW n \in DOMAIN seqs,
                      NEW i \in DOMAIN seqs[m], NEW j \in DOMAIN seqs[n],
                      seqs[m][i] = seqs[n][j]
               PROVE  m = n /\ i = j
    BY DEF AllDistinct
  <2>1. names[m] = names[n]
    <3>1. m \in DOMAIN names /\ n \in DOMAIN names
      BY <1>5
    <3>2. seqs[m][i][1] = names[m] /\ seqs[n][j][1] = names[n]
      BY <1>4, <3>1
    <3> QED
      BY <3>2
  <2>2. m = n
    BY <1>1, <1>5, <2>1
  <2> QED
    BY <1>4, <1>5, <2>2
<1>7. Chained(S, seqs, Len(seqs), f)
  BY <1>5, <1>6, FlattenDistinct DEF f
<1>8. /\ f \in Seq(S)
      /\ \A k \in DOMAIN f : IsHostCall(f[k])
      /\ \A k, l \in DOMAIN f : f[k] = f[l] => k = l
  <2>1. 1 .. Len(seqs) = DOMAIN names
    BY <1>5
  <2> QED
    BY <1>2, <1>4, <1>7, <2>1 DEF Chained, IsHostCall
<1>9. /\ s \in Seq(S)
      /\ \A k \in DOMAIN s : IsSwitchCall(s[k])
      /\ \A k, l \in DOMAIN s : SameEnds(s[k], s[l]) => k = l
  BY SwitchCallsAre DEF s, S, Between
<1>10. calls \in Seq(S) /\ \A k \in DOMAIN calls :
        \/ k \in DOMAIN f /\ calls[k] = f[k]
        \/ k - Len(f) \in DOMAIN s /\ calls[k] = s[k - Len(f)] /\ k \in Int
  BY <1>3, <1>8, <1>9
<1>11. \A c : ~(IsHostCall(c) /\ IsSwitchCall(c))
  BY DEF IsHostCall, IsSwitchCall
<1>12. \A c, d : IsSwitchCall(c) /\ SameEnds(c, d) => IsSwitchCall(d)
  <2> SUFFICES ASSUME NEW c, NEW d, IsSwitchCall(c), SameEnds(c, d) PROVE IsSwitchCall(d)
    OBVIOUS
  <2>1. d[1] \in {c[1], c[2]} /\ d[2] \in {c[1], c[2]}
    BY DEF SameEnds
  <2> QED
    BY <2>1 DEF IsSwitchCall
<1>13. ASSUME NEW i \in DOMAIN calls, NEW j \in DOMAIN calls,
              \/ IsHostCall(calls[i]) /\ calls[i] = calls[j]
              \/ IsSwitchCall(calls[i]) /\ SameEnds(calls[i], calls[j])
       PROVE  i = j
  <2>1. CASE IsHostCall(calls[i]) /\ calls[i] = calls[j]
    BY <1>8, <1>9, <1>10, <1>11, <2>1
  <2>2. CASE IsSwitchCall(calls[i]) /\ SameEnds(calls[i], calls[j])
    <3>1. IsSwitchCall(calls[j])
      BY <1>12, <2>2
    <3>2. /\ i - Len(f) \in DOMAIN s /\ calls[i] = s[i - Len(f)] /\ i \in Int
          /\ j - Len(f) \in DOMAIN s /\ calls[j] = s[j - Len(f)] /\ j \in Int
      BY <1>8, <1>10, <1>11, <2>2, <3>1
    <3>3. i - Len(f) = j - Len(f) /\ Len(f) \in Nat
      BY <1>8, <1>9, <2>2, <3>2
    <3> QED
      BY <3>2, <3>3
  <2> QED
    BY <1>13, <2>1, <2>2
<1>14. \A i \in DOMAIN calls : IsHostCall(calls[i]) \/ IsSwitchCall(calls[i])
  BY <1>8, <1>9, <1>10
<1> QED
  BY <1>10, <1>13, <1>14 DEF calls, S

\* The position of a call in a switch's list is the number Mininet gives it.
LEMMA PortIs ==
    ASSUME NEW links \in Seq(Nodes \X Nodes), Simple(links), NEW sw, sw.kind = "s",
           NEW i \in DOMAIN addLinks(links), Touches(addLinks(links)[i], sw)
    PROVE  port_index(links, sw, Peer(addLinks(links)[i], sw)) = MininetPort(links, i, sw)
<1> DEFINE calls == addLinks(links)
           at == CallsAt(links, sw)
           seq == [j \in DOMAIN calls |-> Peer(calls[j], sw)]
           told == sw_ports(links, sw)
           peer == Peer(calls[i], sw)
           S == NodesOf(links)
<1>1. /\ calls \in Seq(S \X S)
      /\ \A j \in DOMAIN calls : IsHostCall(calls[j]) \/ IsSwitchCall(calls[j])
      /\ \A j, k \in DOMAIN calls :
            \/ IsHostCall(calls[j]) /\ calls[j] = calls[k]
            \/ IsSwitchCall(calls[j]) /\ SameEnds(calls[j], calls[k])
            => j = k
  BY CallsAre
<1>2. told = Picked(seq, at)
  BY DEF sw_ports
<1>3. at = {j \in DOMAIN calls : Touches(calls[j], sw)}
  BY DEF CallsAt
<1> HIDE DEF calls, at, told
<1>4. \A j \in at : /\ j \in DOMAIN calls /\ Touches(calls[j], sw)
                    /\ calls[j] = <<calls[j][1], calls[j][2]>>
                    /\ calls[j] \in S \X S
  <2> SUFFICES ASSUME NEW j \in at
               PROVE  /\ j \in DOMAIN calls /\ Touches(calls[j], sw)
                      /\ calls[j] = <<calls[j][1], calls[j][2]>>
                      /\ calls[j] \in S \X S
    OBVIOUS
  <2>1. calls[j] \in S \X S
    BY <1>1, <1>3
  <2> QED
    BY <1>3, <2>1
<1>5. \A j \in at : seq[j] = Peer(calls[j], sw)
  BY <1>4
<1>6. /\ \A j \in at : Rank(at, j) \in DOMAIN told /\ told[Rank(at, j)] = seq[j]
      /\ \A k \in DOMAIN told : \E j \in at : k = Rank(at, j) /\ told[k] = seq[j]
  <2>1. Len(calls) \in Nat /\ at \in SUBSET (1 .. Len(calls))
    BY <1>1, <1>3
  <2> DEFINE T == {seq[j] : j \in at}
  <2>2. Holds(T, seq, at)
    BY DEF Holds
  <2> HIDE DEF seq, T
  <2>3. Keeps(T, seq, at, told)
    BY <1>2, <2>1, <2>2, PickedIs
  <2> QED
    BY <2>3 DEF Keeps
<1>7. ASSUME NEW j \in at, NEW k \in at, Peer(calls[j], sw) = Peer(calls[k], sw) PROVE j = k
  <2>1. SameEnds(calls[j], calls[k])
    <3> DEFINE c == calls[j]
               d == calls[k]
    <3>1. Touches(c, sw) /\ Touches(d, sw) /\ Peer(c, sw) = Peer(d, sw)
      BY <1>4, <1>7
    <3> HIDE DEF c, d
    <3>2. {c[1], c[2]} = {sw, Peer(c, sw)}
      BY <3>1, EndsOf
    <3>3. {d[1], d[2]} = {sw, Peer(d, sw)}
      BY <3>1, EndsOf
    <3>4. SameEnds(c, d)
      BY <3>1, <3>2, <3>3 DEF SameEnds
    <3> QED
      BY <3>4 DEF c, d
  <2>2. CASE IsSwitchCall(calls[j])
    BY <1>1, <1>4, <2>1, <2>2
  <2>3. CASE IsHostCall(calls[j])
    <3>1. calls[j][1] # sw /\ calls[j][2] = sw
      BY <1>4, <2>3 DEF IsHostCall, Touches
    <3>2. ~IsSwitchCall(calls[k])
      BY <2>1, <2>3 DEF IsHostCall, IsSwitchCall, SameEnds
    <3>3. calls[k][1] # sw /\ calls[k][2] = sw
      BY <1>1, <1>4, <3>2 DEF IsHostCall, Touches
    <3>4. calls[j][1] = calls[k][1]
      BY <2>1, <3>1, <3>3 DEF SameEnds
    <3>5. calls[j] = calls[k]
      BY <1>4, <3>1, <3>3, <3>4
    <3> QED
      BY <1>1, <1>4, <2>3, <3>5
  <2> QED
    BY <1>1, <1>4, <2>2, <2>3
<1>8. i \in at
  BY <1>3 DEF calls
<1> DEFINE places == {k \in DOMAIN told : told[k] = peer}
<1>9. places = {Rank(at, i)}
  <2>1. Rank(at, i) \in places
    BY <1>5, <1>6, <1>8
  <2>2. \A k \in places : k = Rank(at, i)
    <3> SUFFICES ASSUME NEW k \in places PROVE k = Rank(at, i)
      OBVIOUS
    <3>1. PICK j \in at : k = Rank(at, j) /\ told[k] = seq[j]
      BY <1>6
    <3>2. Peer(calls[j], sw) = Peer(calls[i], sw)
      BY <1>5, <3>1
    <3> QED
      BY <1>7, <1>8, <3>1, <3>2
  <2> QED
    BY <2>1, <2>2
<1>10. Rank(at, i) \in Nat
  <2>1. Len(calls) \in Nat /\ at \in SUBSET (1 .. Len(calls))
    BY <1>1, <1>3
  <2>2. Rank(at, i) \in 1 .. Cardinality(at) /\ Cardinality(at) \in Nat
    BY <1>8, <2>1, RankIs
  <2> QED
    BY <2>2
<1>11. Min({Rank(at, i)}) = Rank(at, i)
  <2> DEFINE r == Rank(at, i)
  <2>1. r \in Nat
    BY <1>10
  <2> HIDE DEF r
  <2> QED
    BY <2>1 DEF Min, r
<1>12. port_index(links, sw, peer) = Min(places)
  BY DEF port_index, told, peer
<1> HIDE DEF places
<1>13. MininetPort(links, i, sw) = Rank(at, i)
  BY DEF MininetPort, at
<1> QED
  BY <1>9, <1>11, <1>12, <1>13 DEF peer, calls

-----------------------------------------------------------------------------
(* The network the controller is started for.                               *)

\* Past its manifest a run has a target.
Chosen ==
    /\ app \in Apps
    /\ pc \notin {"manifest", "off"} => Readable(app)

LEMMA ChosenAlways == Spec => []Chosen
<1>1. Init => Chosen
  BY DEF Init, Chosen
<1>2. Chosen /\ [Next]_vars => Chosen'
  <2> SUFFICES ASSUME Chosen, [Next]_vars PROVE Chosen'
    OBVIOUS
  <2>1. app' = app
    BY AppKept
  <2>2. CASE read_manifest
    BY <2>1, <2>2 DEF Chosen, read_manifest, Exit
  <2>3. pc' \in {"manifest", "off"} \/ pc \notin {"manifest", "off"} \/ read_manifest
    BY DEF Next, RunnerStep, vars, RunBefore, Compile, RunAfter,
           compile_only, run_external, CreateNetwork, configure, start_controller, LeaveCli,
           StartHost, UnknownHost, SkipHost, HostsStarted, WaitForHost, InterruptHost,
           CheckHost, TerminateHost, CollectHost, RunAfterCommands, StopNetwork, SwitchFails,
           KillScript, InterruptScript, InScript, HostEnds, ScriptDies, Exit
  <2> QED
    BY <2>1, <2>2, <2>3 DEF Chosen
<1> QED
  BY <1>1, <1>2, PTL DEF Spec

\* The links of the network that is numbered are pairs of nodes.
LEMMA LinksAre == Chosen /\ pc = "controller" => conf.links \in Seq(Nodes \X Nodes)
<1> SUFFICES ASSUME Chosen, pc = "controller" PROVE conf.links \in Seq(Nodes \X Nodes)
  OBVIOUS
<1>1. app \in Apps /\ chosen_target(app) \in ToSet(app.order)
  BY DEF Chosen, Readable
<1>2. chosen_target(app) \in DOMAIN app.targets
  BY <1>1, AppAssumption
<1> QED
  BY <1>1, <1>2, AppAssumption DEF conf

-----------------------------------------------------------------------------
(* The theorems.                                                            *)

\* A script that comes to its end has taken down the network and collected every
\* process it started, however many hosts there are and whatever they do with the
\* signals they are sent (multi_switch_mininet.py, lines 190-231).
THEOREM NothingLeftCorrect == Spec => []NothingLeft
<1>1. EndInv => NothingLeft
  BY DEF EndInv
<1> QED
  BY <1>1, EndAlways, PTL

\* Exit status 0 says that everything was done and nothing failed, unless a signal
\* ended a command (p4apprunner.py, lines 46-48).
THEOREM SuccessMeansAllCorrect == Spec => []SuccessMeansAll
<1>1. EndInv => SuccessMeansAll
  BY DEF EndInv
<1> QED
  BY <1>1, EndAlways, PTL

\* Every process that was started is waited for at once or is on the list of those
\* to be signalled, once and never both, and no return code is collected twice,
\* in whatever order processes end (multi_switch_mininet.py, lines 190-222).
THEOREM TypeCorrect == Spec => []TypeOK
<1>1. EndInv /\ ListInv => TypeOK
  <2> SUFFICES ASSUME EndInv, ListInv PROVE TypeOK
    OBVIOUS
  <2>1. \A h \in DOMAIN procs : signals[h] \subseteq {"INT", "TERM"}
    BY DEF ListInv, Kinds
  <2>2. Len(return_codes) <= Cardinality({h \in DOMAIN procs : procs[h].state = "ended"})
    BY DEF ListInv, Counted, Ended
  <2> QED
    BY <2>1, <2>2 DEF ListInv, Kinds, Listed, Started, TypeOK
<1> QED
  BY <1>1, ListsAlways, PTL

\* The path the controller is given between two nodes is a walk along links of as few
\* steps as there are, with no other host on the way, and there is none when it is
\* given none, for every network (shortest_path.py, lines 19-30).
THEOREM ShortestPathsCorrect == Spec => []ShortestPaths
<1>1. Chosen => ShortestPaths
  <2> DEFINE links == conf.links
             nodes == NodesOf(links)
             hosts == HostsOf(links)
             path(a, b) == get_path(nodes, links, a, b, hosts)
             Ways(a, b, k) == Walks(nodes, links, a, b, k, hosts)
  <2> SUFFICES ASSUME Chosen, pc = "controller", NEW a \in nodes, NEW b \in hosts
               PROVE  IF path(a, b) = <<>>
                      THEN \A k \in 0 .. Cardinality(nodes) : Ways(a, b, k) = {}
                      ELSE /\ Steps(path(a, b)) \in Ways(a, b, Len(path(a, b)) - 1)
                           /\ \A k \in 0 .. Len(path(a, b)) - 2 : Ways(a, b, k) = {}
    BY DEF ShortestPaths
  <2>1. links \in Seq(Nodes \X Nodes)
    BY LinksAre
  <2>2. IsFiniteSet(nodes) /\ hosts \subseteq nodes /\ links \in Seq(nodes \X nodes)
    BY <2>1, NodesFinite
  <2>3. b \in nodes /\ Cardinality(nodes) \in Nat
    BY <2>2, FS_CardinalityType
  <2> DEFINE p == path(a, b)
             W(k) == Ways(a, b, k)
  <2>4. /\ p \in Seq(nodes)
        /\ p # <<>> => Steps(p) \in W(Len(p) - 1)
        /\ \A k \in Nat : W(k) # {} => p # <<>> /\ Len(p) <= k + 1
    BY <2>2, <2>3, GetPath
  <2> HIDE DEF links, nodes, p, W
  <2>5. CASE p = <<>>
    <3>1. \A k \in 0 .. Cardinality(nodes) : W(k) = {}
      BY <2>3, <2>4, <2>5
    <3> QED
      BY <2>5, <3>1 DEF p, W
  <2>6. CASE p # <<>>
    <3>1. \A k \in 0 .. Len(p) - 2 : W(k) = {}
      <4>1. Len(p) \in Nat
        BY <2>4
      <4>2. \A k \in 0 .. Len(p) - 2 : k \in Nat /\ ~(Len(p) <= k + 1)
        BY <4>1
      <4> QED
        BY <2>4, <4>2
    <3>2. Steps(p) \in W(Len(p) - 1)
      BY <2>4, <2>6
    <3> QED
      BY <2>6, <3>1, <3>2 DEF p, W
  <2> QED
    BY <2>5, <2>6 DEF p
<1> QED
  BY <1>1, ChosenAlways, PTL

\* In every network in which no two links join the same nodes, the port number that
\* is written down for a link is the one Mininet gives it, at both ends and for the
\* entry about a host (apptopo.py, lines 37-64).
THEOREM PortsMatchCorrect == Spec => []PortsMatch
<1>1. Chosen => PortsMatch
  <2> DEFINE links == conf.links
             calls == addLinks(links)
             Right(i, sw, peer) ==
                /\ port_index(links, sw, peer) = MininetPort(links, i, sw)
                /\ peer.kind = "h" => host_link(links, peer, sw).sw_port = MininetPort(links, i, sw)
  <2> SUFFICES ASSUME Chosen, pc = "controller", Simple(links),
                      NEW i \in DOMAIN calls, NEW j \in {1, 2}, calls[i][j].kind = "s"
               PROVE  Right(i, calls[i][j], calls[i][3 - j])
    BY DEF PortsMatch
  <2>1. links \in Seq(Nodes \X Nodes)
    BY LinksAre
  <2>2. Touches(calls[i], calls[i][1]) /\ Touches(calls[i], calls[i][2])
    BY DEF Touches
  <2>3. Peer(calls[i], calls[i][1]) = calls[i][2] /\ Peer(calls[i], calls[i][2]) = calls[i][1]
    BY DEF Peer
  <2> DEFINE sw == calls[i][j]
             peer == calls[i][3 - j]
  <2>4. Touches(calls[i], sw) /\ Peer(calls[i], sw) = peer
    <3>1. CASE j = 1
      <4>1. 3 - j = 2
        BY <3>1
      <4> QED
        BY <2>2, <2>3, <3>1, <4>1
    <3>2. CASE j = 2
      <4>1. 3 - j = 1
        BY <3>2
      <4> QED
        BY <2>2, <2>3, <3>2, <4>1
    <3> QED
      BY <3>1, <3>2
  <2> HIDE DEF sw, peer, links
  <2>5. sw.kind = "s"
    BY DEF sw
  <2>6. port_index(links, sw, peer) = MininetPort(links, i, sw)
    BY <2>1, <2>4, <2>5, PortIs
  <2>7. host_link(links, peer, sw).sw_port = port_index(links, sw, peer)
    BY DEF host_link
  <2> QED
    BY <2>6, <2>7 DEF sw, peer
<1> QED
  BY <1>1, ChosenAlways, PTL

===============================================================================
