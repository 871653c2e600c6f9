--------------------------------- MODULE Daemon --------------------------------
(* liri-daemon (src/src/daemon): a process that runs daemon modules, either one *)
(* module for a systemd unit (--module=...) or, without that option, all of     *)
(* them.  A unit counts as started when its bus name appears, so that a daemon  *)
(* claims the name of its module before it starts the module.                   *)
(*                                                                              *)
(* The processes meet on the session bus: a name has one owner, and the bus     *)
(* daemon frees it some time after its owner is gone.  systemd stops a unit     *)
(* whose name does not appear in time, and starts one that failed again         *)
(* (Type=dbus and Restart=on-failure in data/systemd).                          *)
EXTENDS Naturals

CONSTANTS
  Daemons,     \* liri-daemon processes, one at a time for each element
  Units,       \* those that systemd starts from a unit
  Modules,     \* daemon modules that are installed
  AutoLoad,    \* the ones that are not on demand only
  Asked,       \* the --module option of each daemon, or Nothing
  Nothing,
  MaxSignals   \* bound: signals from a user, and crashes

ASSUME DaemonAssumption ==
  /\ Units \subseteq Daemons /\ AutoLoad \subseteq Modules
  /\ Nothing \notin Modules /\ Asked \in [Daemons -> Modules \cup {Nothing}]
  /\ \A d \in Units : Asked[d] \in AutoLoad
  /\ MaxSignals \in Nat
  /\ {"nobody", "ghost"} \cap Daemons = {}

VARIABLES
  stage,     \* "off", "new": before the first event, "starting" a module, "loop"
  running,   \* m_running
  quit,      \* QCoreApplication::exit() has been called
  loaded,    \* m_loadedModules
  owner,     \* the bus name of each module: a daemon, nobody, a dead process
  failed,    \* units that did not end as they should: systemd restarts them
  signals    \* signals and crashes so far

process == <<stage, running, quit, loaded>>
vars == <<process, owner, failed, signals>>

Init ==
  /\ stage = [d \in Daemons |-> "off"]
  /\ running = [d \in Daemons |-> TRUE]
  /\ quit = [d \in Daemons |-> FALSE]
  /\ loaded = [d \in Daemons |-> {}]
  /\ owner = [m \in Modules |-> "nobody"]
  /\ failed = {} /\ signals = 0

--------------------------------------------------------------------------------
(* main() *)

(* setSystemdEnabled(): m_systemdEnabled is TRUE from the start and cannot be  *)
(* disabled any more.  initialize() offers io.liri.Daemon only when it is not  *)
(* enabled: nobody can call LoadModule() or UnloadModule().                    *)
InitiallyEnabled == TRUE
systemdSupport(d) == Asked[d] # Nothing
SystemdEnabled(d) == InitiallyEnabled \/ systemdSupport(d)

Launch(d) ==
  /\ stage[d] = "off"
  /\ stage' = [stage EXCEPT ![d] = "new"]
  /\ running' = [running EXCEPT ![d] = TRUE]
  /\ quit' = [quit EXCEPT ![d] = FALSE]
  /\ failed' = failed \ {d}
  /\ UNCHANGED <<loaded, owner, signals>>

(* Mutant: the name need not be free. *)
Anyone(d) == systemdSupport(d) /\ Asked[d] \in AutoLoad
CanClaim(d) ==
  systemdSupport(d) /\ Asked[d] \in AutoLoad /\ owner[Asked[d]] = "nobody"

(* loadModule(): the name first, then the module. *)
ClaimName(d) ==
  /\ stage[d] = "new" /\ CanClaim(d)
  /\ owner' = [owner EXCEPT ![Asked[d]] = d]
  /\ stage' = [stage EXCEPT ![d] = "starting"]
  /\ UNCHANGED <<running, quit, loaded, failed, signals>>

StartModule(d) ==
  /\ stage[d] = "starting"
  /\ loaded' = [loaded EXCEPT ![d] = @ \cup {Asked[d]}]
  /\ stage' = [stage EXCEPT ![d] = "loop"]
  /\ UNCHANGED <<running, quit, owner, failed, signals>>

(* Not found, on demand or the name is taken: the daemon runs without a module. *)
CannotLoad(d) ==
  /\ stage[d] = "new" /\ systemdSupport(d) /\ ~CanClaim(d)
  /\ stage' = [stage EXCEPT ![d] = "loop"]
  /\ UNCHANGED <<running, quit, loaded, owner, failed, signals>>

(* start() *)
StartAll(d) ==
  /\ stage[d] = "new" /\ ~systemdSupport(d)
  /\ loaded' = [loaded EXCEPT ![d] = IF SystemdEnabled(d) THEN @ ELSE AutoLoad]
  /\ stage' = [stage EXCEPT ![d] = "loop"]
  /\ UNCHANGED <<running, quit, owner, failed, signals>>

--------------------------------------------------------------------------------
(* shutdown() *)

(* Mutant: the loop is not told to end. *)
StaysInLoop(d) == UNCHANGED quit
QuitLoop(d) == quit' = [quit EXCEPT ![d] = TRUE]

(* unloadModule() for each loaded module: not while shutting down, that is      *)
(* never; the modules are cut off when the process ends.                        *)
LeftLoaded(modules, isRunning) == IF isRunning THEN {} ELSE modules

Shutdown(d) ==
  /\ stage[d] \in {"new", "loop"}
  /\ running' = [running EXCEPT ![d] = FALSE]
  /\ loaded' = [loaded EXCEPT ![d] = LeftLoaded(@, running'[d])]
  /\ QuitLoop(d)
  /\ UNCHANGED <<stage, owner>>

Signal(d) ==
  /\ signals < MaxSignals /\ signals' = signals + 1
  /\ Shutdown(d)
  /\ UNCHANGED failed

(* The process is gone, and its names are about to be. *)
Gone(d) ==
  /\ stage' = [stage EXCEPT ![d] = "off"]
  /\ loaded' = [loaded EXCEPT ![d] = {}]
  /\ owner' = [m \in Modules |-> IF owner[m] = d THEN "ghost" ELSE owner[m]]
  /\ UNCHANGED <<running, quit>>

(* app.exec() returns. *)
Leave(d) ==
  /\ stage[d] \in {"new", "loop"} /\ quit[d]
  /\ Gone(d)
  /\ UNCHANGED <<failed, signals>>

--------------------------------------------------------------------------------
(* The bus daemon and systemd *)

Crash(d) ==
  /\ stage[d] # "off" /\ signals < MaxSignals
  /\ signals' = signals + 1
  /\ Gone(d)
  /\ failed' = failed \cup ({d} \cap Units)

NameIsFreed(m) ==
  /\ owner[m] = "ghost"
  /\ owner' = [owner EXCEPT ![m] = "nobody"]
  /\ UNCHANGED <<process, failed, signals>>

(* The name did not appear in time: systemd stops the unit. *)
StartTimeout(d) ==
  /\ d \in Units /\ stage[d] = "loop" /\ owner[Asked[d]] # d /\ ~quit[d]
  /\ Shutdown(d)
  /\ failed' = failed \cup {d}
  /\ UNCHANGED signals

Works(d) ==
  ClaimName(d) \/ StartModule(d) \/ CannotLoad(d) \/ StartAll(d) \/ Leave(d)
Restart(d) == d \in failed /\ Launch(d)

Next ==
  \/ \E d \in Daemons :
       \/ Launch(d) \/ ClaimName(d) \/ StartModule(d) \/ CannotLoad(d)
       \/ StartAll(d) \/ Signal(d) \/ Leave(d) \/ Crash(d) \/ StartTimeout(d)
  \/ \E m \in Modules : NameIsFreed(m)

(* A process runs, the bus daemon frees the names of the dead, and systemd      *)
(* watches its units; nobody has to start or stop anything.                     *)
Spec ==
  /\ Init /\ [][Next]_vars
  /\ \A d \in Daemons : WF_vars(Works(d))
  /\ \A d \in Units : WF_vars(StartTimeout(d)) /\ WF_vars(Restart(d))
  /\ \A m \in Modules : WF_vars(NameIsFreed(m))
--------------------------------------------------------------------------------
(* Properties *)

TypeOK ==
  /\ stage \in [Daemons -> {"off", "new", "starting", "loop"}]
  /\ running \in [Daemons -> BOOLEAN] /\ quit \in [Daemons -> BOOLEAN]
  /\ loaded \in [Daemons -> SUBSET AutoLoad]
  /\ owner \in [Modules -> Daemons \cup {"nobody", "ghost"}]
  /\ failed \subseteq Units /\ signals \in 0 .. MaxSignals

(* Two daemons never run the same module, though units are restarted while the *)
(* bus still has the name of the process before: a module that runs, or is     *)
(* about to, has its name, and its daemon was asked for it.                    *)
OneLoader ==
  \A d \in Daemons :
    /\ \A m \in loaded[d] : owner[m] = d /\ m = Asked[d]
    /\ stage[d] = "starting" => owner[Asked[d]] = d

(* A unit that systemd starts gets its module up, in this process or a later    *)
(* one or by a daemon that is there already, unless a user stops it.            *)
ModuleComesUp ==
  \A u \in Units :
    (stage[u] = "new") ~>
      \/ \E d \in Daemons : Asked[u] \in loaded[d]
      \/ stage[u] = "off" /\ u \notin failed

(* A daemon that was told to stop is gone in the end, and each name it has is   *)
(* free for another process then: though it stops no module, and though the bus *)
(* and systemd act on the name in between.                                      *)
SignalEnds ==
  \A d \in Daemons :
    /\ ~running[d] ~> stage[d] = "off"
    /\ \A m \in Modules : ~running[d] /\ owner[m] = d ~> owner[m] = "nobody"
================================================================================
