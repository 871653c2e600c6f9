-------------------------------- MODULE Session --------------------------------
(* The session manager: Session (src/src/manager/session.cpp) driven by main() *)
(* (src/src/manager/main.cpp).  It registers on the bus, loads the session     *)
(* modules, starts them phase by phase, and stops them when SIGINT, SIGTERM,   *)
(* Logout() or a module's shutdownRequested() asks for it.                     *)
(*                                                                             *)
(* Everything runs on one thread, but not one call at a time: a module of      *)
(* Supervisors (the shell) waits for its child inside start() in an event loop *)
(* of its own, and that loop serves shutdown requests while Session::start()   *)
(* is still on the stack.  A call to stop() blocks: nothing is served in it.   *)
EXTENDS Integers, FiniteSets, Sequences, SequencesExt

CONSTANTS
  Modules,      \* the installed session modules
  Phase,        \* startupPhase() of each module
  Supervisors,  \* modules whose start() waits for a child in a nested loop
  UnitModules,  \* modules main() disables in systemd mode: units replace them
  MaxRequests   \* bound: how many times a shutdown is requested

StartupPhase == 0 .. 4   \* EarlyInitialization .. Applications

ASSUME SessionAssumption ==
  /\ IsFiniteSet(Modules)
  /\ Phase \in [Modules -> StartupPhase]
  /\ Supervisors \subseteq Modules
  /\ UnitModules \subseteq Modules
  /\ MaxRequests \in Nat

VARIABLES
  env,        \* what main() finds: bus address, mode, systemd, parent process
  disabled,   \* m_disabledModules
  target,     \* liri-session.target has been started
  order,      \* m_modules, flattened: the order start() visits
  pc,         \* where the main thread is
  next,       \* the index in order of the module start() looks at
  loaded,     \* m_loadedModules
  up,         \* modules started and not stopped since
  stopList,   \* the modules the running shutdown() has still to stop
  resume,     \* where the running shutdown() returns to
  requests,   \* shutdown requests that wait for an event loop
  issued,     \* shutdown requests made so far
  quitNow,    \* QCoreApplication::exit() has been called
  exitCode,   \* the code app.exec() will return
  nested,     \* history: shutdown() ran in a supervisor's nested loop
  failed,     \* history: initialize() or start() returned false
  late        \* history: shutdown() ran once more after that failure

config == <<env, disabled>>
history == <<nested, failed, late>>
vars == <<config, target, order, pc, next, loaded, up, stopList, resume,
          requests, issued, quitNow, exitCode, history>>

(* Mutant: the phase is ignored. *)
AnyOrder ==
  {s \in [1 .. Cardinality(Modules) -> Modules] :
     /\ ToSet(s) = Modules
     /\ \A i, j \in DOMAIN s : i < j => s[i] # s[j]}

(* A module's position is decided by its phase alone: within a phase the order *)
(* is that of a QHash.                                                         *)
Orders ==
  {s \in [1 .. Cardinality(Modules) -> Modules] :
     /\ ToSet(s) = Modules
     /\ \A i, j \in DOMAIN s : i < j => s[i] # s[j] /\ Phase[s[i]] <= Phase[s[j]]}

Environments ==
  [bus : BOOLEAN, systemd : BOOLEAN, systemdUp : BOOLEAN, underRun : BOOLEAN]

Enabled == Modules \ disabled

Init ==
  /\ env \in Environments
  /\ disabled \in SUBSET Modules
  /\ env.systemd => UnitModules \subseteq disabled
  /\ target = FALSE
  /\ order = <<>> /\ pc = "boot" /\ next = 1
  /\ loaded = <<>> /\ up = {} /\ stopList = <<>> /\ resume = "loop"
  /\ requests = 0 /\ issued = 0
  /\ quitNow = FALSE /\ exitCode = 0
  /\ nested = FALSE /\ failed = FALSE /\ late = FALSE

--------------------------------------------------------------------------------
(* main() and initialize() *)

(* requireDBusSession() returned true: nothing else is called.  Without systemd *)
(* the program quits and runs itself again under dbus-run-session; with a       *)
(* systemd that answers it neither quits nor goes on.                           *)
Quits == ~env.systemd
RequireDBusSession ==
  /\ pc = "boot" /\ ~env.bus
  /\ IF env.systemd THEN env.systemdUp ELSE ~env.underRun
  /\ pc' = "loop" /\ quitNow' = Quits
  /\ UNCHANGED <<config, target, order, next, loaded, up, stopList, resume,
                 requests, issued, exitCode, history>>

(* Mutant: the loop is not told to end. *)
RecordCode(code) == quitNow' = quitNow /\ exitCode' = code

(* QCoreApplication::exit(); the code given last is the one exec() returns. *)
ExitWith(code) == quitNow' = TRUE /\ exitCode' = code

GoesOn ==
  env.bus \/ (IF env.systemd THEN ~env.systemdUp ELSE env.underRun)

(* A bus name is taken: exit(1). *)
InitializeFails ==
  /\ pc = "boot" /\ GoesOn
  /\ pc' = "loop" /\ ExitWith(1) /\ failed' = TRUE
  /\ UNCHANGED <<config, target, order, next, loaded, up, stopList, resume,
                 requests, issued, nested, late>>

(* LoadUnit and StartUnit: either call may fail, and only a warning tells. *)
TargetStarts == {FALSE, env.systemd /\ env.systemdUp}

(* loadPlugins(), and start() up to its first module. *)
Initialize ==
  /\ pc = "boot" /\ GoesOn
  /\ order' \in Orders
  /\ target' \in TargetStarts
  /\ pc' = "starting"
  /\ UNCHANGED <<config, next, loaded, up, stopList, resume, requests, issued,
                 quitNow, exitCode, history>>

--------------------------------------------------------------------------------
(* shutdown() *)

(* Mutant: no reversal. *)
StartOrder == loaded

(* std::reverse works on m_loadedModules itself, which is never cleared: a     *)
(* second shutdown() visits the modules in the order they were started.        *)
ToStop == Reverse(loaded)

(* Mutant: the module to stop first is left out. *)
ShutdownButOne(return) ==
  /\ loaded' = ToStop /\ stopList' = SubSeq(ToStop, 2, Len(loaded))
  /\ resume' = return /\ pc' = "stopping"

BeginShutdown(return) ==
  /\ loaded' = ToStop /\ stopList' = ToStop
  /\ resume' = return /\ pc' = "stopping"

(* What module->stop() returns is only logged. *)
StopModule ==
  /\ pc = "stopping" /\ stopList # <<>>
  /\ up' = up \ {Head(stopList)}
  /\ stopList' = Tail(stopList)
  /\ UNCHANGED <<config, target, order, pc, next, loaded, resume, requests,
                 issued, quitNow, exitCode, history>>

(* Mutants: start() goes on after a failure; exit(1) comes before shutdown()   *)
(* and is overwritten by quit().                                               *)
GoesOnStarting(return) == IF return = "fail" THEN "starting" ELSE return
QuitLast(return) == 0

(* quit(), that is exit(0), and then exit(1) in main() when start() failed.    *)
ReturnTo(return) == IF return = "fail" THEN "loop" ELSE return
CodeAfter(return) == IF return = "fail" THEN 1 ELSE 0
EndShutdown ==
  /\ pc = "stopping" /\ stopList = <<>>
  /\ pc' = ReturnTo(resume)
  /\ ExitWith(CodeAfter(resume))
  /\ UNCHANGED <<config, target, order, next, loaded, up, stopList, resume,
                 requests, issued, history>>

(* Any event loop serves it: app.exec() or a supervisor's.  Events that were    *)
(* posted before quit() are still delivered after it.                           *)
ServeShutdown ==
  /\ pc \in {"loop", "nested"}
  /\ BeginShutdown(pc)
  /\ nested' = (nested \/ pc = "nested")
  /\ late' = (late \/ failed)
  /\ UNCHANGED <<config, target, order, next, up, quitNow, exitCode, failed>>

(* SIGINT, SIGTERM or Logout(). *)
ServeRequest ==
  /\ requests > 0
  /\ requests' = requests - 1
  /\ ServeShutdown
  /\ UNCHANGED issued

(* A module emits shutdownRequested(), connected before its start() is called.  *)
Connected == {order[i] : i \in {j \in DOMAIN order : j <= next}} \ disabled
ModuleShutdown(m) ==
  /\ m \in Connected /\ issued < MaxRequests
  /\ issued' = issued + 1
  /\ ServeShutdown
  /\ UNCHANGED requests

--------------------------------------------------------------------------------
(* start() *)

Current == order[next]

SkipDisabled ==
  /\ pc = "starting" /\ next <= Len(order) /\ Current \in disabled
  /\ next' = next + 1
  /\ UNCHANGED <<config, target, order, pc, loaded, up, stopList, resume,
                 requests, issued, quitNow, exitCode, history>>

(* start() of the current module is about to return. *)
AtReturn ==
  /\ next <= Len(order) /\ Current \notin disabled
  /\ \/ pc = "nested"
     \/ pc = "starting" /\ (Current \in Supervisors => quitNow)

StartSucceeds ==
  /\ AtReturn
  /\ loaded' = Append(loaded, Current)
  /\ up' = up \cup {Current}
  /\ next' = next + 1 /\ pc' = "starting"
  /\ UNCHANGED <<config, target, order, stopList, resume, requests, issued,
                 quitNow, exitCode, history>>

(* A supervisor may give up before it waits, and may leave a child behind that *)
(* was being restarted.                                                        *)
StartFails ==
  /\ \/ AtReturn
     \/ pc = "starting" /\ next <= Len(order) /\ Current \in Supervisors \ disabled
  /\ up' \in {up, up \cup ({Current} \cap Supervisors)}
  /\ failed' = TRUE
  /\ BeginShutdown("fail")
  /\ UNCHANGED <<config, target, order, next, requests, issued, quitNow,
                 exitCode, nested, late>>

(* QEventLoop::exec() returns at once when quitNow is set. *)
EnterNestedLoop ==
  /\ pc = "starting" /\ next <= Len(order)
  /\ Current \in Supervisors \ disabled /\ ~quitNow
  /\ pc' = "nested"
  /\ UNCHANGED <<config, target, order, next, loaded, up, stopList, resume,
                 requests, issued, quitNow, exitCode, history>>

AllStarted ==
  /\ pc = "starting" /\ next > Len(order)
  /\ pc' = "loop"
  /\ UNCHANGED <<config, target, order, next, loaded, up, stopList, resume,
                 requests, issued, quitNow, exitCode, history>>

--------------------------------------------------------------------------------
(* The world outside *)

(* A signal or a call of Logout() arrives. *)
Request ==
  /\ pc # "exited" /\ issued < MaxRequests
  /\ requests' = requests + 1 /\ issued' = issued + 1
  /\ UNCHANGED <<config, target, order, pc, next, loaded, up, stopList, resume,
                 quitNow, exitCode, history>>

(* app.exec() returns and ~Session deletes the loaded modules; a supervisor's  *)
(* QProcess kills its child when it is deleted.                                *)
Killed == ToSet(loaded) \cap Supervisors
Exit ==
  /\ pc = "loop" /\ quitNow
  /\ pc' = "exited"
  /\ up' = up \ Killed
  /\ UNCHANGED <<config, target, order, next, loaded, stopList, resume,
                 requests, issued, quitNow, exitCode, history>>

Boot == RequireDBusSession \/ InitializeFails \/ Initialize
Start ==
  \/ SkipDisabled \/ StartSucceeds \/ StartFails \/ EnterNestedLoop \/ AllStarted
Shutdown ==
  \/ ServeRequest \/ StopModule \/ EndShutdown
  \/ \E m \in Modules : ModuleShutdown(m)

Next == Boot \/ Start \/ Shutdown \/ Request \/ Exit

(* One thread does all the work and never blocks for ever: a stop() kills what  *)
(* does not end in 30 s, and a nested loop ends with its 30 s timer.            *)
MainThread == Boot \/ Start \/ ServeRequest \/ StopModule \/ EndShutdown \/ Exit
Spec == Init /\ [][Next]_vars /\ WF_vars(MainThread)
--------------------------------------------------------------------------------
(* Properties *)

TypeOK ==
  /\ env \in Environments
  /\ disabled \subseteq Modules
  /\ target \in BOOLEAN
  /\ order \in Seq(Modules)
  /\ pc \in {"boot", "starting", "nested", "stopping", "loop", "exited"}
  /\ next \in 1 .. Len(order) + 1
  /\ loaded \in Seq(Modules)
  /\ up \subseteq Modules
  /\ stopList \in Seq(Modules)
  /\ resume \in {"loop", "nested", "fail"}
  /\ requests \in Nat
  /\ issued \in 0 .. MaxRequests
  /\ quitNow \in BOOLEAN
  /\ exitCode \in {0, 1}
  /\ nested \in BOOLEAN /\ failed \in BOOLEAN /\ late \in BOOLEAN

(* A module is loaded only when every enabled module of an earlier phase is:   *)
(* one that fails to start holds back all later phases.                        *)
PhaseBarrier ==
  \A m \in ToSet(loaded), n \in Enabled :
    Phase[n] < Phase[m] => n \in ToSet(loaded)

(* While start() goes on, what it started is still running, unless a shutdown  *)
(* was served in a supervisor's nested loop.                                   *)
DependenciesUp ==
  pc \in {"starting", "nested"} /\ ~nested => ToSet(loaded) \subseteq up

(* The only things the session may leave behind when it exits are the child of *)
(* a supervisor that failed to start and, after a shutdown in a nested loop,   *)
(* the modules that were started nonetheless.                                  *)
LeftBehind ==
  pc = "exited" /\ ~nested =>
    \A m \in up : failed /\ m \in Supervisors \ ToSet(loaded)

(* main() reports a failed start with exit code 1, and only that; a shutdown   *)
(* served after the failure turns the code into 0.                             *)
FailureReported ==
  pc = "exited" => exitCode = (IF failed /\ ~late THEN 1 ELSE 0)

(* Everything that relies on a module is stopped before it: when shutdown()    *)
(* stops a running module no loaded module that was started after it runs.     *)
Before(m, n) == \E i, j \in DOMAIN order : i < j /\ order[i] = m /\ order[j] = n
StopOrder ==
  [][pc = "stopping" =>
       \A m \in up \ up', n \in up' \cap ToSet(loaded) : Before(n, m)]_vars

(* The inductive invariant behind them: what start() has visited is loaded or   *)
(* disabled; what runs is loaded, unless a supervisor left it behind; a running *)
(* shutdown() still has on its list what is up; what is up is listed in the     *)
(* order it was started, however often the list was reversed; and where the     *)
(* thread stands determines which of the exits has been taken.                  *)
Visited == {order[i] : i \in 1 .. next - 1}
LoadInv ==
  /\ pc = "boot" => order = <<>> /\ next = 1 /\ up = {} /\ ~quitNow
  /\ order = <<>> \/ order \in Orders
  /\ ToSet(loaded) = Visited \ disabled
  /\ pc \in {"starting", "nested"} /\ quitNow => nested

UpInv ==
  /\ \A m \in up : m \in ToSet(loaded) \/ (failed /\ m \in Supervisors)
  /\ pc = "stopping" => up \cap ToSet(loaded) \subseteq ToSet(stopList)
  /\ pc = "stopping" /\ resume = "nested" => nested
  /\ pc = "loop" /\ quitNow /\ ~nested => up \cap ToSet(loaded) = {}

OrderInv ==
  /\ pc # "stopping" =>
       \A i, j \in DOMAIN loaded :
         i < j /\ loaded[i] \in up /\ loaded[j] \in up =>
           Before(loaded[i], loaded[j])
  /\ pc = "stopping" =>
       \A i, j \in DOMAIN stopList :
         i < j /\ stopList[i] \in up /\ stopList[j] \in up =>
           Before(stopList[j], stopList[i])

ExitInv ==
  /\ late => failed
  /\ ~failed => exitCode = 0
  /\ pc \in {"boot", "starting", "nested"} => ~failed
  /\ pc = "stopping" =>
       /\ resume = "nested" => ~failed
       /\ resume = "fail" => failed /\ ~late
       /\ resume = "loop" /\ failed => late
  /\ pc \in {"loop", "exited"} /\ failed => exitCode = (IF late THEN 0 ELSE 1)

IInv ==
  /\ TypeOK /\ LoadInv /\ UpInv /\ OrderInv /\ ExitInv
  /\ DependenciesUp /\ LeftBehind

(* Every shutdown request, and every failed start, ends the process: a request *)
(* may arrive while a module starts, while a shutdown runs, or after quit().   *)
ShutdownEnds == (requests > 0 \/ failed) ~> pc = "exited"

(* session.cpp:280, shutdown(): "Stop modules"; nothing the session started    *)
(* and can stop still runs when the process is gone.                           *)
NothingLeftRunning == pc = "exited" => up \cap ToSet(loaded) = {}

(* The promise of SessionLifecycle, for the sessions in which no module waits   *)
(* in a nested loop (the others count as never opened); a module is alive while *)
(* the session has a handle on it.  A program that finds no bus and stays in    *)
(* its loop has not opened either.                                              *)
Plain == Supervisors \subseteq disabled
Closing == pc = "stopping" \/ (pc = "loop" /\ quitNow)
Stage ==
  IF ~Plain \/ pc = "boot" THEN "closed"
  ELSE IF pc = "exited" THEN "gone"
  ELSE IF Closing THEN "closing"
  ELSE IF pc = "starting" THEN "opening"
  ELSE IF GoesOn THEN "open" ELSE "closed"
Alive == IF Plain THEN up \cap ToSet(loaded) ELSE {}
Lifecycle == INSTANCE SessionLifecycle WITH alive <- Alive, stage <- Stage
LifecycleSpec == Lifecycle!Spec
================================================================================
