----------------------- MODULE ServiceLifecycleProofs -----------------------
(***************************************************************************)
(* Why one process at a time uses the radio, for any number of processes.  *)
(*                                                                         *)
(* There are two reasons.  Processes that all have web_enabled are kept    *)
(* apart by the port, which each holds as long as it uses the radio.       *)
(* Processes that the script starts are kept apart by the pid file, since  *)
(* it always names the one that lives.                                     *)
(***************************************************************************)
EXTENDS ServiceLifecycle, TLAPS

USE LifecycleAssumption

\* Without daemons started by hand, every process is the script's.
ByScriptOnly == ~ByHand => \A p \in Pids : Alive(p) => byScript[p]

IInv == TypeOK /\ ScriptCanStop /\ ByScriptOnly /\ AloneOnRadio

\* What a step of one process leaves alone.
LEMMA StepOfOne ==
  ASSUME TypeOK, NEW p \in Pids, NEW l \in Places,
         at' = [at EXCEPT ![p] = l], UNCHANGED <<web, running, byScript>>
  PROVE  /\ at' \in [Pids -> Places]
         /\ at'[p] = l /\ \A q \in Pids \ {p} : at'[q] = at[q]
  BY DEF TypeOK

LEMMA InitIInv == Init => IInv
<1> SUFFICES ASSUME Init PROVE IInv
  OBVIOUS
<1>1. \A p \in Pids : ~Alive(p) /\ ~UsesRadio(p)
  BY DEF Init, Alive, UsesRadio
<1>2. TypeOK
  BY DEF Init, TypeOK, Places
<1> QED
  BY <1>1, <1>2 DEF IInv, ScriptCanStop, ByScriptOnly, AloneOnRadio

\* A step of main(), a death or a signal brings nobody to life, and lets one
\* process only onto the radio, through the port.
LEMMA ProcessStep ==
  ASSUME IInv, TypeOK', UNCHANGED <<web, byScript, pidfile>>,
         \A p \in Pids : Alive(p)' => Alive(p),
         NEW p \in Pids, \A q \in Pids \ {p} : UsesRadio(q)' => UsesRadio(q),
         UsesRadio(p)' => UsesRadio(p) \/ (web[p] => PortIsFree)
  PROVE  ScriptCanStop' /\ ByScriptOnly' /\ AloneOnRadio'
<1>1. ScriptCanStop' /\ ByScriptOnly'
  BY DEF IInv, ScriptCanStop, ByScriptOnly
<1>2. CASE ~ByHand
  <2>1. \A q \in Pids : UsesRadio(q)' => Alive(q)'
    BY DEF UsesRadio, Alive
  <2>2. \A q \in Pids : Alive(q)' => q = pidfile'
    BY <1>1, <1>2, Zenon DEF ScriptCanStop, ByScriptOnly
  <2>3. AloneOnRadio'
    BY <2>1, <2>2, Zenon DEF AloneOnRadio
  <2> QED
    BY <1>1, <2>3
<1>3. CASE FALSE \notin WebSettings
  <2>1. \A w \in WebSettings : w
    BY <1>3, Zenon DEF LifecycleAssumption
  <2>2. \A q \in Pids : web[q] \in WebSettings
    BY DEF IInv, TypeOK
  <2>3. \A q \in Pids : web[q]
    BY <2>1, <2>2, Zenon
  <2>4. UsesRadio(p)' => UsesRadio(p) \/ \A q \in Pids : ~UsesRadio(q)
    BY <2>3, Zenon DEF PortIsFree
  <2>5. \A q, r \in Pids : UsesRadio(q) /\ UsesRadio(r) => q = r
    BY <1>3, Zenon DEF IInv, AloneOnRadio
  <2>6. \A q, r \in Pids : UsesRadio(q)' /\ UsesRadio(r)' => q = r
    BY <2>4, <2>5, Zenon
  <2> QED
    BY <1>1, <2>6, Zenon DEF AloneOnRadio
<1>4. CASE ByHand /\ FALSE \in WebSettings
  BY <1>1, <1>4, Zenon DEF AloneOnRadio
<1> QED
  BY <1>2, <1>3, <1>4, Zenon

LEMMA MainIInv ==
  ASSUME IInv, NEW p \in Pids, Main(p) \/ Dies(p)
  PROVE  IInv'
<1>1. PICK l \in Places : Go(p, at[p], l) /\ (l \in {"open", "loop", "turn"} =>
        UsesRadio(p) \/ (web[p] => PortIsFree))
  <2>1. CASE InstallHandlers(p)
    BY <2>1 DEF InstallHandlers, Go, Places
  <2>2. CASE StartWeb(p)
    BY <2>2 DEF StartWeb, Go, Places
  <2>3. CASE OpenRadio(p) \/ Turn(p)
    BY <2>3 DEF OpenRadio, Turn, Go, Places, UsesRadio
  <2>4. CASE Loop(p)
    BY <2>4 DEF Loop, Go, Places, UsesRadio
  <2>5. CASE Dies(p)
    BY <2>5 DEF Dies, Go, Places
  <2> QED
    BY <2>1, <2>2, <2>3, <2>4, <2>5 DEF Main
<1>2. held' \in BOOLEAN
  BY DEF Main, Dies, InstallHandlers, StartWeb, OpenRadio, Loop, Turn, IInv, TypeOK
<1>3. /\ at' \in [Pids -> Places]
      /\ at'[p] = l /\ \A q \in Pids \ {p} : at'[q] = at[q]
  BY <1>1, StepOfOne DEF Go, IInv
<1>4. TypeOK'
  BY <1>1, <1>2, <1>3 DEF Go, IInv, TypeOK
<1>5. Alive(p)
  BY DEF Main, Dies, InstallHandlers, StartWeb, OpenRadio, Loop, Turn, Go, Alive
<1>6. \A q \in Pids : Alive(q)' => Alive(q)
  BY <1>3, <1>5 DEF Alive
<1>7. \A q \in Pids \ {p} : UsesRadio(q)' => UsesRadio(q)
  BY <1>3 DEF UsesRadio
<1>8. UsesRadio(p)' => UsesRadio(p) \/ (web[p] => PortIsFree)
  BY <1>1, <1>3 DEF UsesRadio
<1> QED
  BY <1>1, <1>4, <1>6, <1>7, <1>8, ProcessStep DEF Go, IInv

\* A signal only ends a process or lowers its flag.
LEMMA TerminateIInv ==
  ASSUME IInv, NEW p \in Pids, Terminate(p), UNCHANGED <<web, byScript, held, pidfile>>,
         script' \in {"idle", "start", "stop", "restart", "sleep", "start again"}
  PROVE  IInv'
<1>1. /\ at' \in [Pids -> Places] /\ running' \in [Pids -> BOOLEAN]
      /\ \A q \in Pids : at'[q] = at[q] \/ at'[q] = "dead"
  <2>1. CASE at[p] = "exec"
    BY <2>1 DEF Terminate, IInv, TypeOK, Places
  <2>2. CASE at[p] # "exec"
    BY <2>2 DEF Terminate, IInv, TypeOK
  <2> QED
    BY <2>1, <2>2
<1>2. TypeOK'
  BY <1>1 DEF IInv, TypeOK
<1>3. \A q \in Pids : (Alive(q)' => Alive(q)) /\ (UsesRadio(q)' => UsesRadio(q))
  BY <1>1 DEF Alive, UsesRadio
<1> QED
  BY <1>2, <1>3, ProcessStep DEF IInv

\* A new process is not on the radio yet.
LEMMA SpawnParts ==
  ASSUME IInv, NEW p \in Pids, NEW b \in BOOLEAN, Spawn(p, b), held' = held,
         pidfile' \in Pids \union {None},
         script' \in {"idle", "start", "stop", "restart", "sleep", "start again"}
  PROVE  /\ TypeOK' /\ AloneOnRadio'
         /\ byScript'[p] = b /\ \A q \in Pids \ {p} : byScript'[q] = byScript[q] /\ at'[q] = at[q]
<1>1. PICK w \in WebSettings : web' = [web EXCEPT ![p] = w]
  BY DEF Spawn
<1>2. TypeOK'
  BY <1>1 DEF Spawn, IInv, TypeOK, Places
<1>3. byScript'[p] = b /\ \A q \in Pids \ {p} : byScript'[q] = byScript[q] /\ at'[q] = at[q]
  BY DEF Spawn, IInv, TypeOK
<1>4. at'[p] = "exec"
  BY DEF Spawn, IInv, TypeOK
<1>5. \A q \in Pids : UsesRadio(q)' => UsesRadio(q)
  BY <1>3, <1>4 DEF UsesRadio
<1> QED
  BY <1>2, <1>3, <1>5 DEF IInv, AloneOnRadio

LEMMA StartIInv == IInv /\ Start => IInv'
<1> SUFFICES ASSUME IInv, Start PROVE IInv'
  OBVIOUS
<1>1. CASE pidfile \in Pids /\ Alive(pidfile)
  BY <1>1 DEF Start, IInv, TypeOK, processes, ScriptCanStop, ByScriptOnly, AloneOnRadio, Alive, UsesRadio
<1>2. CASE ~(pidfile \in Pids /\ Alive(pidfile))
  <2>1. PICK p \in Pids : Spawn(p, TRUE) /\ pidfile' = p
    BY <1>2 DEF Start
  <2>2. /\ TypeOK' /\ AloneOnRadio' /\ byScript'[p] = TRUE
        /\ \A q \in Pids \ {p} : byScript'[q] = byScript[q] /\ at'[q] = at[q]
    BY <2>1, SpawnParts DEF Start
  <2>3. \A q \in Pids : ~(Alive(q) /\ byScript[q])
    BY <1>2 DEF IInv, ScriptCanStop
  <2>4. \A q \in Pids \ {p} : ~(Alive(q)' /\ byScript'[q])
    BY <2>2, <2>3 DEF Alive
  <2>5. ScriptCanStop'
    BY <2>1, <2>4 DEF ScriptCanStop
  <2>6. ByScriptOnly'
    BY <2>2 DEF IInv, ByScriptOnly, Alive
  <2> QED
    BY <2>2, <2>5, <2>6 DEF IInv
<1> QED
  BY <1>1, <1>2

LEMMA StartByHandIInv == IInv /\ StartByHand => IInv'
<1> SUFFICES ASSUME IInv, StartByHand PROVE IInv'
  OBVIOUS
<1>1. PICK p \in Pids : Spawn(p, FALSE)
  BY DEF StartByHand
<1>2. UNCHANGED <<held, pidfile, script>> /\ ByHand
  BY DEF StartByHand
<1>3. /\ TypeOK' /\ AloneOnRadio' /\ byScript'[p] = FALSE
      /\ \A q \in Pids \ {p} : byScript'[q] = byScript[q] /\ at'[q] = at[q]
  BY <1>1, <1>2, SpawnParts DEF IInv, TypeOK
<1>4. ScriptCanStop'
  BY <1>2, <1>3 DEF IInv, ScriptCanStop, Alive
<1> QED
  BY <1>2, <1>3, <1>4 DEF IInv, ByScriptOnly

LEMMA NextIInv == IInv /\ [Next]_vars => IInv'
<1> SUFFICES ASSUME IInv, [Next]_vars PROVE IInv'
  OBVIOUS
<1>1. ASSUME NEW p \in Pids, Main(p) \/ Dies(p) PROVE IInv'
  BY <1>1, MainIInv
<1>2. CASE ChildEnds \/ Command \/ Sleep \/ UNCHANGED vars
  <2>1. UNCHANGED <<processes, pidfile>> /\ TypeOK'
    BY <1>2 DEF ChildEnds, Command, Sleep, vars, processes, IInv, TypeOK
  <2> QED
    BY <2>1 DEF processes, IInv, ScriptCanStop, ByScriptOnly, AloneOnRadio, Alive, UsesRadio
<1>3. CASE Stop
  <2>1. UNCHANGED <<web, byScript, held, pidfile>> /\ script' \in {"idle", "sleep"}
    BY <1>3 DEF Stop, processes
  <2>2. CASE pidfile \in Pids /\ Alive(pidfile)
    BY <1>3, <2>1, <2>2, TerminateIInv DEF Stop
  <2>3. CASE ~(pidfile \in Pids /\ Alive(pidfile))
    BY <1>3, <2>1, <2>3 DEF Stop, processes, IInv, TypeOK, ScriptCanStop, ByScriptOnly, AloneOnRadio,
       Alive, UsesRadio
  <2> QED
    BY <2>2, <2>3
<1>4. CASE StopByHand
  BY <1>4, TerminateIInv DEF StopByHand, IInv, TypeOK
<1> QED
  BY <1>1, <1>2, <1>3, <1>4, StartIInv, StartByHandIInv DEF Next, Script

\* The inductive invariant holds throughout.
THEOREM Invariance == Spec => []IInv
  BY InitIInv, NextIInv, PTL DEF Spec

\* Every process, the pid file and the memory of the script keep their types.
THEOREM TypeCorrect == Spec => []TypeOK
<1>1. IInv => TypeOK
  BY DEF IInv
<1> QED
  BY <1>1, Invariance, PTL

\* One process at a time uses the radio, if all have web_enabled or all are
\* started by the script, for any number of processes.
THEOREM AloneCorrect == Spec => []AloneOnRadio
<1>1. IInv => AloneOnRadio
  BY DEF IInv
<1> QED
  BY <1>1, Invariance, PTL

\* The pid file names the process the script started, as long as it lives.
THEOREM StopReaches == Spec => []ScriptCanStop
<1>1. IInv => ScriptCanStop
  BY DEF IInv
<1> QED
  BY <1>1, Invariance, PTL

-----------------------------------------------------------------------------
(* Nobody waits for anybody: at each place of a process, and at each of the *)
(* script, the guard of an action holds.                                   *)

MainReady(p) == at[p] \in {"exec", "bind", "open", "loop", "turn"}

ScriptReady ==
  \/ script \in {"stop", "restart"}
  \/ script = "sleep"
  \/ /\ script \in {"start", "start again"}
     /\ (pidfile \in Pids /\ Alive(pidfile)) \/ \E p \in Pids : at[p] = "dead"

\* What ENABLED says: an action whose guard holds can be taken, since the rest
\* of it only gives the variables their next values.
GuardsEnable ==
  /\ \A p \in Pids : MainReady(p) => ENABLED <<Main(p)>>_vars
  /\ ScriptReady => ENABLED <<Script>>_vars

\* CanStep, of which ENABLED is all that stays with TLC: a living process goes on
\* whatever the others and the script do, and the script whatever they do.
THEOREM CanStepCorrect == Spec /\ []GuardsEnable => []CanStep
<1>1. IInv => /\ \A p \in Pids : Alive(p) => MainReady(p)
              /\ script # "idle" /\ (\E p \in Pids : ~Alive(p)) => ScriptReady
  BY DEF IInv, TypeOK, Places, Alive, MainReady, ScriptReady
<1>2. IInv /\ GuardsEnable => CanStep
  BY <1>1, Zenon DEF GuardsEnable, CanStep
<1> QED
  BY <1>2, Invariance, PTL

-----------------------------------------------------------------------------
(* Liveness.  A process has at most four steps to its end or to its loop,  *)
(* and CanStep, which the runs check, says that it can take them.          *)

Lives == FairSpec /\ []CanStep

LEMMA GuardsLive == FairSpec /\ []GuardsEnable => Lives
  BY CanStepCorrect, PTL DEF Lives, FairSpec

Runs(p) == Alive(p) => ENABLED <<Main(p)>>_vars
In(p, l) == at[p] = l

\* What a step of anybody does to a living process.
LEMMA StepOf ==
  ASSUME IInv, [Next]_vars, NEW p \in Pids, Alive(p)
  PROVE  /\ running'[p] => running[p]
         /\ ~Main(p) => at'[p] = at[p] \/ at'[p] = "dead"
         /\ Main(p) => UNCHANGED running
         /\ Main(p) /\ at[p] = "exec" => at'[p] = "bind"
         /\ Main(p) /\ at[p] = "bind" => at'[p] = (IF web[p] => PortIsFree THEN "open" ELSE "dead")
         /\ Main(p) /\ at[p] = "open" => at'[p] = "loop"
         /\ Main(p) /\ at[p] = "loop" => at'[p] = (IF running[p] THEN "turn" ELSE "dead")
         /\ Main(p) /\ at[p] = "turn" => at'[p] = "loop"
<1>t. /\ at \in [Pids -> Places] /\ running \in [Pids -> BOOLEAN]
  BY DEF IInv, TypeOK
<1>1. CASE Main(p)
  BY <1>t, <1>1 DEF Main, InstallHandlers, StartWeb, OpenRadio, Loop, Turn, Go
<1>2. ASSUME ~Main(p)
      PROVE  (running'[p] => running[p]) /\ (at'[p] = at[p] \/ at'[p] = "dead")
  <2>1. ASSUME NEW q \in Pids, Main(q) PROVE at'[p] = at[p] /\ running' = running
    BY <1>t, <1>2, <2>1 DEF Main, InstallHandlers, StartWeb, OpenRadio, Loop, Turn, Go
  <2>2. ASSUME NEW q \in Pids, Dies(q)
        PROVE  (at'[p] = at[p] \/ at'[p] = "dead") /\ running' = running
    BY <1>t, <2>2 DEF Dies, Go
  <2>3. ASSUME NEW q \in Pids, Terminate(q)
        PROVE  (running'[p] => running[p]) /\ (at'[p] = at[p] \/ at'[p] = "dead")
    BY <1>t, <2>3 DEF Terminate
  <2>4. ASSUME NEW q \in Pids, NEW b \in BOOLEAN, Spawn(q, b)
        PROVE  running'[p] = running[p] /\ at'[p] = at[p]
    BY <1>t, <2>4 DEF Spawn, Alive
  <2>5. CASE UNCHANGED processes
    BY <2>5 DEF processes
  <2>6. CASE Stop \/ StopByHand
    BY <2>3, <2>5, <2>6 DEF Stop, StopByHand
  <2>7. CASE Start \/ StartByHand
    BY <2>4, <2>5, <2>7 DEF Start, StartByHand
  <2> QED
    BY <2>1, <2>2, <2>5, <2>6, <2>7 DEF Next, Script, ChildEnds, Command, Sleep, vars, processes
<1> QED
  BY <1>1, <1>2

LEMMA Fair ==
  ASSUME NEW p \in Pids
  PROVE  /\ FairSpec => Executes(p)
         /\ CanStep => Runs(p)
<1>1. FairSpec => AllExecute
  BY PTL DEF FairSpec
<1>2. CanStep => Runs(p)
  BY DEF CanStep, Runs
<1> QED
  BY <1>1, <1>2 DEF AllExecute

LEMMA Stops ==
  ASSUME NEW p \in Pids
  PROVE  Lives => Obeys(p)
<1> DEFINE Told == ~running[p]
<1>1. IInv /\ Alive(p) /\ Told /\ [Next]_vars => Told' \/ ~Alive(p)'
  BY StepOf
<1>2. IInv /\ In(p, "exec") /\ [Next]_vars => In(p, "exec")' \/ In(p, "bind")' \/ ~Alive(p)'
  BY StepOf DEF In, Alive
<1>3. IInv /\ In(p, "bind") /\ [Next]_vars => In(p, "bind")' \/ In(p, "open")' \/ ~Alive(p)'
  BY StepOf DEF In, Alive
<1>4. IInv /\ In(p, "open") /\ [Next]_vars => In(p, "open")' \/ In(p, "loop")' \/ ~Alive(p)'
  BY StepOf DEF In, Alive
<1>5. IInv /\ In(p, "turn") /\ [Next]_vars => In(p, "turn")' \/ In(p, "loop")' \/ ~Alive(p)'
  BY StepOf DEF In, Alive
<1>6. IInv /\ In(p, "loop") /\ Told /\ [Next]_vars => In(p, "loop")' \/ ~Alive(p)'
  BY StepOf DEF In, Alive
<1>7. IInv /\ <<Main(p)>>_vars =>
        /\ In(p, "exec") => In(p, "bind")'
        /\ In(p, "bind") => In(p, "open")' \/ ~Alive(p)'
        /\ In(p, "open") => In(p, "loop")'
        /\ In(p, "turn") => In(p, "loop")'
        /\ In(p, "loop") /\ Told => ~Alive(p)'
  BY StepOf DEF In, Alive, Next
<1>8. In(p, "exec") \/ In(p, "bind") \/ In(p, "open") \/ In(p, "loop") \/ In(p, "turn") => Alive(p)
  BY DEF In, Alive
<1>9. IInv /\ Alive(p) =>
        In(p, "exec") \/ In(p, "bind") \/ In(p, "open") \/ In(p, "loop") \/ In(p, "turn")
  BY DEF IInv, TypeOK, Places, Alive, In
<1>10. (FairSpec => Executes(p)) /\ (CanStep => Runs(p))
  BY Fair
<1> QED
  BY <1>1, <1>2, <1>3, <1>4, <1>5, <1>6, <1>7, <1>8, <1>9, <1>10, Invariance, PTL
     DEF Lives, Runs, Obeys, FairSpec, Executes, Spec

\* A process that was told to stop ends, whatever the script, the other
\* processes and whoever types commands do.
THEOREM StopCorrect == FairSpec /\ []GuardsEnable => StopObeyed
  BY Stops, GuardsLive DEF StopObeyed

\* The restart that QuickRestartServes is about.
Vacant == script = "start again" /\ PortIsFree /\ \A p \in Pids : ~Alive(p)

\* The process that it starts, on its way to the loop.
Rising(p) ==
  /\ pidfile = p /\ at[p] \in {"exec", "bind", "open"} /\ running[p]
  /\ ~held /\ (\A q \in Pids \ {p} : ~Alive(q))
  /\ script \in {"idle", "start"}
OneRises == \E p \in Pids : Rising(p)

Answered == Serving \/ script \in {"stop", "restart"}
IsAnswered == <>Answered
Arrives(p) == [](Rising(p) => IsAnswered)

\* The script finds nobody and starts a process.
LEMMA VacantStep ==
  ASSUME ~ByHand, ~Faults, IInv, Vacant, [Next]_vars
  PROVE  /\ Vacant' \/ OneRises'
         /\ Script => OneRises'
<1>t. /\ at \in [Pids -> Places] /\ running \in [Pids -> BOOLEAN] /\ pidfile \in Pids \union {None}
  BY DEF IInv, TypeOK
<1>1. CASE Script
  <2>1. Start /\ ~(pidfile \in Pids /\ Alive(pidfile))
    BY <1>1 DEF Script, Stop, Sleep, Vacant
  <2>2. PICK p \in Pids : Spawn(p, TRUE) /\ pidfile' = p
    BY <2>1 DEF Start
  <2>3. at' = [at EXCEPT ![p] = "exec"] /\ running' = [running EXCEPT ![p] = TRUE]
    BY <2>2 DEF Spawn
  <2>4. at'[p] = "exec" /\ running'[p] /\ \A q \in Pids \ {p} : at'[q] = at[q]
    BY <1>t, <2>3
  <2>5. ~held' /\ script' = "idle"
    BY <2>1 DEF Start, Vacant, PortIsFree
  <2>6. Rising(p)'
    BY <2>2, <2>4, <2>5 DEF Rising, Vacant, Alive
  <2> QED
    BY <2>6 DEF OneRises
<1>2. CASE ~Script
  <2>1. \A p \in Pids : ~Main(p) /\ ~Dies(p)
    BY DEF Vacant, Alive, Main, InstallHandlers, StartWeb, OpenRadio, Loop, Turn, Dies, Go
  <2>2. UNCHANGED vars
    BY <1>2, <2>1 DEF Next, ChildEnds, Command, StartByHand, StopByHand, Vacant, PortIsFree
  <2>3. UNCHANGED <<at, web, held, script>>
    BY <2>2 DEF vars, processes
  <2>4. PortIsFree' /\ \A p \in Pids : ~Alive(p)'
    BY <2>3 DEF Vacant, PortIsFree, Alive, UsesRadio
  <2> QED
    BY <1>2, <2>3, <2>4 DEF Vacant
<1> QED
  BY <1>1, <1>2

\* Nothing but a command comes between the process and its loop.
LEMMA RisingStep ==
  ASSUME ~ByHand, ~Faults, IInv, NEW p \in Pids, Rising(p), [Next]_vars
  PROVE  Answered' \/ (Rising(p)' /\ (at'[p] = at[p] \/ Main(p)))
<1>t. /\ at \in [Pids -> Places] /\ running \in [Pids -> BOOLEAN]
  BY DEF IInv, TypeOK
<1>a. Alive(p)
  BY DEF Rising, Alive
<1>1. CASE Main(p)
  <2>1. at[p] = "bind" => PortIsFree
    BY DEF Rising, PortIsFree, UsesRadio, Alive
  <2>2. /\ at' = [at EXCEPT ![p] = IF at[p] = "exec" THEN "bind" ELSE IF at[p] = "bind" THEN "open" ELSE "loop"]
        /\ UNCHANGED <<running, pidfile, script, held>>
    BY <1>1, <2>1 DEF Rising, Main, InstallHandlers, StartWeb, OpenRadio, Loop, Turn, Go
  <2>3. at'[p] \in {"bind", "open", "loop"} /\ \A q \in Pids \ {p} : at'[q] = at[q]
    BY <1>t, <2>2
  <2>4. CASE at'[p] = "loop"
    BY <2>2, <2>4 DEF Rising, Answered, Serving
  <2>5. CASE at'[p] # "loop"
    BY <1>1, <2>2, <2>3, <2>5 DEF Rising, Alive
  <2> QED
    BY <2>4, <2>5
<1>2. CASE ~Main(p)
  <2>1. \A q \in Pids : ~Main(q) /\ ~Dies(q)
    BY <1>2 DEF Rising, Alive, Main, InstallHandlers, StartWeb, OpenRadio, Loop, Turn, Dies, Go
  <2>2. CASE Command
    BY <2>2 DEF Command, Rising, Answered, processes, Alive
  <2>3. CASE Start
    BY <1>a, <2>3 DEF Start, Rising, processes, Alive
  <2>4. ~ChildEnds /\ ~Stop /\ ~Sleep /\ ~StartByHand
    BY DEF ChildEnds, Stop, Sleep, StartByHand, Rising
  <2>5. ~StopByHand
    BY <1>a DEF StopByHand, IInv, ByScriptOnly
  <2>6. CASE UNCHANGED vars
    BY <2>6 DEF vars, processes, Rising, Alive
  <2> QED
    BY <2>1, <2>2, <2>3, <2>4, <2>5, <2>6 DEF Next, Script
<1> QED
  BY <1>1, <1>2

LEMMA Rises ==
  ASSUME ~ByHand, ~Faults, NEW p \in Pids
  PROVE  Lives => Arrives(p)
<1>1. IInv /\ Rising(p) /\ [Next]_vars => Rising(p)' \/ Answered'
  BY RisingStep
<1>2. IInv /\ Rising(p) /\ In(p, "exec") /\ [Next]_vars => In(p, "exec")' \/ In(p, "bind")' \/ Answered'
  BY RisingStep, StepOf DEF In, Rising, Alive
<1>3. IInv /\ Rising(p) /\ In(p, "bind") /\ [Next]_vars => In(p, "bind")' \/ In(p, "open")' \/ Answered'
  BY RisingStep, StepOf DEF In, Rising, Alive
<1>4. IInv /\ Rising(p) /\ In(p, "open") /\ [Next]_vars => In(p, "open")' \/ Answered'
  BY RisingStep, StepOf DEF In, Rising, Alive
<1>5. IInv /\ Rising(p) /\ <<Main(p)>>_vars =>
        /\ In(p, "exec") => In(p, "bind")'
        /\ In(p, "bind") => In(p, "open")' \/ Answered'
        /\ In(p, "open") => Answered'
  BY RisingStep, StepOf DEF In, Rising, Alive, Next
<1>6. Rising(p) => Alive(p) /\ (In(p, "exec") \/ In(p, "bind") \/ In(p, "open"))
  BY DEF In, Rising, Alive
<1>7. (FairSpec => Executes(p)) /\ (CanStep => Runs(p))
  BY Fair
<1> QED
  BY <1>1, <1>2, <1>3, <1>4, <1>5, <1>6, <1>7, Invariance, PTL
     DEF Lives, Runs, Arrives, IsAnswered, FairSpec, Executes, Spec

\* Whichever process the script started, it serves, or another command came.
LEMMA OneArrives ==
  ASSUME ~ByHand, ~Faults
  PROVE  Lives => [](OneRises => <>Answered)
<1>1. Lives => \A p \in Pids : Arrives(p)
  BY Rises
<1>2. (\A p \in Pids : Arrives(p)) => [](\A p \in Pids : (Rising(p) => IsAnswered))
  BY DEF Arrives
<1>3. (\A p \in Pids : (Rising(p) => IsAnswered)) => (OneRises => IsAnswered)
  BY DEF OneRises
<1> QED
  BY <1>1, <1>2, <1>3, PTL DEF IsAnswered

\* A restart that finds the old process gone and the port free ends with a
\* daemon that serves, unless the script is called again first.
THEOREM QuickRestartCorrect ==
  ASSUME ~ByHand, ~Faults
  PROVE  FairSpec /\ []GuardsEnable => QuickRestartServes
<1>1. IInv /\ Vacant /\ [Next]_vars => Vacant' \/ OneRises'
  BY VacantStep
<1>2. IInv /\ Vacant /\ <<Script>>_vars => OneRises'
  BY VacantStep DEF Next
<1>3. CanStep /\ Vacant => ENABLED <<Script>>_vars
  BY DEF CanStep, Vacant
<1>4. /\ Vacant <=> (script = "start again" /\ PortIsFree /\ \A p \in Pids : ~Alive(p))
      /\ Answered <=> (Serving \/ script \in {"stop", "restart"})
  BY DEF Vacant, Answered
<1> QED
  BY <1>1, <1>2, <1>3, <1>4, OneArrives, GuardsLive, Invariance, PTL
     DEF QuickRestartServes, Lives, FairSpec, Spec
=============================================================================
