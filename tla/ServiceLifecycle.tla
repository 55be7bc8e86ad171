-------------------------- MODULE ServiceLifecycle --------------------------
(***************************************************************************)
(* Processes of the daemon coming and going: the init script               *)
(* src/openwrt/files/etc/init.d/meshcore, daemons started by hand, and     *)
(* what of main() decides who uses the one radio.                          *)
(*                                                                         *)
(* Nothing in the code locks the radio.  What keeps two processes off it   *)
(* is the listening socket that main() binds before it touches GPIO or     *)
(* SPI, if web_enabled, and the pid file, for those the script starts.     *)
(* All processes with a web server are taken to use one web_bind and       *)
(* web_port: with two ports the sockets exclude nobody.                    *)
(*                                                                         *)
(* start-stop-daemon is modelled by what the script asks of it: -K signals *)
(* the process the pid file names, -S does nothing while that process      *)
(* lives.  The script runs start-stop-daemon and sleep; time is not        *)
(* modelled, since a turn of the daemon's loop may take longer than the    *)
(* script's sleep (5 s for a transmission, 15 s for each silent client).   *)
(***************************************************************************)
EXTENDS Naturals

CONSTANTS
  Pids,         \* process ids
  WebSettings,  \* the values of web_enabled that a process may find
  ByHand,       \* daemons are started outside of the script, too
  Faults        \* processes fail to open the radio, or crash

None == "none"
ASSUME LifecycleAssumption ==
  /\ None \notin Pids /\ Pids # {}
  /\ WebSettings # {} /\ WebSettings \subseteq BOOLEAN
  /\ ByHand \in BOOLEAN /\ Faults \in BOOLEAN

VARIABLES
  at,        \* where each process is in main()
  web,       \* config.web_enabled as it read it
  running,   \* g_running
  byScript,  \* history: the script started it
  held,      \* a sysupgrade child holds the listening socket it inherited
  pidfile,   \* /var/run/meshcore-he4025.pid
  script     \* the place of the init script

processes == <<at, web, running, byScript>>
vars == <<processes, held, pidfile, script>>

Places == {"dead", "exec", "bind", "open", "loop", "turn"}
Alive(p) == at[p] # "dead"

\* From setup_gpio_if_needed to the end of main(): the socket is open just as
\* long, since web is destroyed after spi and the pins.
UsesRadio(p) == at[p] \in {"open", "loop", "turn"}

PortIsFree == ~held /\ \A p \in Pids : ~(web[p] /\ UsesRadio(p))

Init ==
  /\ at = [p \in Pids |-> "dead"]
  /\ web \in [Pids -> WebSettings]
  /\ running = [p \in Pids |-> FALSE] /\ byScript = [p \in Pids |-> FALSE]
  /\ held = FALSE /\ pidfile = None /\ script = "idle"

-----------------------------------------------------------------------------
(* main().                                                                 *)

\* Mutant: web_enabled is not taken from the file.
SpawnAnyWeb(p, scripted) ==
  /\ at[p] = "dead"
  /\ at' = [at EXCEPT ![p] = "exec"]
  /\ \E w \in BOOLEAN : web' = [web EXCEPT ![p] = w]
  /\ running' = [running EXCEPT ![p] = TRUE]
  /\ byScript' = [byScript EXCEPT ![p] = scripted]

Spawn(p, scripted) ==
  /\ at[p] = "dead"
  /\ at' = [at EXCEPT ![p] = "exec"]
  /\ \E w \in WebSettings : web' = [web EXCEPT ![p] = w]
  /\ running' = [running EXCEPT ![p] = TRUE]
  /\ byScript' = [byScript EXCEPT ![p] = scripted]

Go(p, from, to) ==
  /\ at[p] = from
  /\ at' = [at EXCEPT ![p] = to]
  /\ UNCHANGED <<web, running, byScript, pidfile, script>>

\* Up to signal(SIGTERM, handle_signal).
InstallHandlers(p) == Go(p, "exec", "bind") /\ UNCHANGED held

\* Mutant: the web server is started after the radio.
StartWebLate(p) == Go(p, "bind", "open") /\ UNCHANGED held

\* Mutant: bind() waits until the port is free.
StartWebWaits(p) ==
  /\ web[p] => PortIsFree
  /\ Go(p, "bind", "open") /\ UNCHANGED held

\* web.start()
StartWeb(p) ==
  /\ Go(p, "bind", IF web[p] => PortIsFree THEN "open" ELSE "dead")
  /\ UNCHANGED held

\* GPIO, SPI, the radio and --tx-hex, up to the loop.
OpenRadio(p) == Go(p, "open", "loop") /\ UNCHANGED held

\* Mutant: the loop never looks at g_running.
LoopForever(p) == Go(p, "loop", "turn") /\ UNCHANGED held

\* while (g_running)
Loop(p) == Go(p, "loop", IF running[p] THEN "turn" ELSE "dead") /\ UNCHANGED held

\* web.tick() and the radio; sysupgrade is forked in tick().
Turn(p) ==
  /\ Go(p, "turn", "loop")
  /\ UNCHANGED held \/ (web[p] /\ held' = TRUE)

\* A call of the start-up or of the loop fails, or the process is killed.
Dies(p) ==
  /\ Faults /\ Alive(p)
  /\ Go(p, at[p], "dead")
  /\ UNCHANGED held \/ (at[p] = "turn" /\ web[p] /\ held' = TRUE)

ChildEnds == held /\ held' = FALSE /\ UNCHANGED <<processes, pidfile, script>>

\* SIGTERM: handle_signal once it is installed, death before.
Terminate(p) ==
  IF at[p] = "exec"
    THEN at' = [at EXCEPT ![p] = "dead"] /\ UNCHANGED running
    ELSE running' = [running EXCEPT ![p] = FALSE] /\ UNCHANGED at

-----------------------------------------------------------------------------
(* The init script.                                                        *)

Command == script = "idle" /\ script' \in {"start", "stop", "restart"}
             /\ UNCHANGED <<processes, held, pidfile>>

Stop ==
  /\ script \in {"stop", "restart"}
  /\ script' = IF script = "stop" THEN "idle" ELSE "sleep"
  /\ IF pidfile \in Pids /\ Alive(pidfile)
       THEN Terminate(pidfile) /\ UNCHANGED <<web, byScript>>
       ELSE UNCHANGED processes
  /\ UNCHANGED <<held, pidfile>>

Sleep == script = "sleep" /\ script' = "start again" /\ UNCHANGED <<processes, held, pidfile>>

\* Mutant: start does not look for a process that still runs.
StartAlways ==
  /\ script \in {"start", "start again"} /\ script' = "idle"
  /\ \E p \in Pids : Spawn(p, TRUE) /\ pidfile' = p
  /\ UNCHANGED held

\* Mutant: a pid file is enough to hold start back, whatever it names.
StartUnlessPidfile ==
  /\ script \in {"start", "start again"} /\ script' = "idle"
  /\ IF pidfile # None
       THEN UNCHANGED <<processes, pidfile>>
       ELSE \E p \in Pids : Spawn(p, TRUE) /\ pidfile' = p
  /\ UNCHANGED held

Start ==
  /\ script \in {"start", "start again"} /\ script' = "idle"
  /\ IF pidfile \in Pids /\ Alive(pidfile)
       THEN UNCHANGED <<processes, pidfile>>
       ELSE \E p \in Pids : Spawn(p, TRUE) /\ pidfile' = p
  /\ UNCHANGED held

\* Someone starts a process in a shell; it does not get the pid that a stale
\* file names.
StartByHand ==
  /\ ByHand
  /\ \E p \in Pids \ {pidfile} : Spawn(p, FALSE)
  /\ UNCHANGED <<held, pidfile, script>>

\* Ctrl-C and the like, for a process that was started by hand.
StopByHand ==
  /\ \E p \in Pids : Alive(p) /\ ~byScript[p] /\ Terminate(p)
  /\ UNCHANGED <<web, byScript, held, pidfile, script>>

-----------------------------------------------------------------------------
Main(p) == InstallHandlers(p) \/ StartWeb(p) \/ OpenRadio(p) \/ Loop(p) \/ Turn(p)

Script == Stop \/ Sleep \/ Start

Next ==
  \/ \E p \in Pids : Main(p)
  \/ \E p \in Pids : Dies(p)
  \/ ChildEnds \/ Command \/ Script \/ StartByHand \/ StopByHand

Spec == Init /\ [][Next]_vars

\* Every process and the script keep executing, and sysupgrade ends.  Nothing
\* is assumed of whoever types commands.
Executes(p) == WF_vars(Main(p))
AllExecute == \A p \in Pids : Executes(p)

FairSpec == Spec /\ AllExecute /\ WF_vars(Script) /\ WF_vars(ChildEnds)

-----------------------------------------------------------------------------
(* Properties.                                                             *)

\* Every variable keeps its type.
TypeOK ==
  /\ at \in [Pids -> Places]
  /\ web \in [Pids -> WebSettings]
  /\ running \in [Pids -> BOOLEAN] /\ byScript \in [Pids -> BOOLEAN]
  /\ held \in BOOLEAN
  /\ pidfile \in Pids \union {None}
  /\ script \in {"idle", "start", "stop", "restart", "sleep", "start again"}

\* Two processes never use the radio at a time, as long as all of them have
\* web_enabled or all are started by the script.
AloneOnRadio ==
  (ByHand => FALSE \notin WebSettings) =>
    \A p, q \in Pids : UsesRadio(p) /\ UsesRadio(q) => p = q

\* A process that the script started is the one the pid file names, so that
\* the script can stop it, however many starts, failures and daemons started
\* by hand came between.
ScriptCanStop == \A p \in Pids : Alive(p) /\ byScript[p] => pidfile = p

\* Nobody waits for anybody: a process goes on or ends whoever has the port, and
\* the script goes on whatever its pid file names, as long as a pid is free.
CanStep ==
  /\ \A p \in Pids : Alive(p) => ENABLED <<Main(p)>>_vars
  /\ script # "idle" /\ (\E p \in Pids : ~Alive(p)) => ENABLED <<Script>>_vars

\* A process that was told to stop ends, wherever the signal found it.
Obeys(p) == (Alive(p) /\ ~running[p]) ~> ~Alive(p)
StopObeyed == \A p \in Pids : Obeys(p)

Serving == \E p \in Pids : at[p] = "loop" /\ running[p]

\* A restart that finds the old process gone and the port free when its sleep
\* ends leaves a daemon that serves, unless the script is called again first.
QuickRestartServes ==
  (script = "start again" /\ PortIsFree /\ \A p \in Pids : ~Alive(p))
    ~> (Serving \/ script \in {"stop", "restart"})

\* What the documents say a restart is for: it leaves a daemon that serves,
\* unless the script is called again first.  Asked only where no child holds
\* the port and the second of sleep was long enough for every step of the old
\* process but a turn of its loop, which may wait for the radio or a client.
RestartServes ==
  (script = "start again" /\ ~held /\ \A p \in Pids : at[p] \in {"dead", "turn"})
    ~> (Serving \/ script \in {"stop", "restart"})
=============================================================================
