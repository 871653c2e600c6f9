# Verification of liri-session

TLA+ models of the Liri session manager and its daemon, checked with TLC, and
proofs checked with TLAPS. Paths below are those of the repository
(`src/manager/session.cpp` and so on). `PROJECT.json` lists the components, the
runs with their properties, the lines each definition models, the hazards, the
disagreements found between the code and what it says of itself, and the
theorems.

## The system

`liri-session` is the first program of a graphical session. It works either
with the systemd of the user, which then runs most things from units, or alone.
It consists of objects that live on **one thread** with one Qt event loop;
concurrency comes from callbacks, from event loops that run inside other calls,
and from the processes around it: the bus daemons, logind, systemd, the shell,
the applications.

| Part | State | Operations | Talks to |
| --- | --- | --- | --- |
| Session, `main()` (`manager/session.cpp`, `main.cpp`) | modules by phase, loaded modules, disabled modules | `requireDBusSession`, `initialize`, `start`, `shutdown` | modules (calls and signals), systemd |
| Shell module (`plugins/session/shell`) | its QProcess, nested loop, watchdog, two bus watches | `start`, `stop`, slots for the process and for `io.liri.Shell` | Session, shell process, bus daemon |
| Process launcher, autostart module | QProcess per launch, list of desktop files | three `Launch...` methods, `start`, `stop` | clients, systemd-run |
| Environment (in Session, `systemdmanager.cpp`) | the process environment | `setEnvironment`, `unsetEnvironment`, upload | bus daemon, systemd, locale module |
| Choice of the backend (`backends/sessionbackend.cpp`) | `s_backend` | `instance` | system bus |
| Logind (`backends/logind/logind.cpp`) | connection, session path, three properties, descriptors | registration, queries, idle hint, lock, unlock, `inhibit`, `uninhibit` | system bus |
| LogindBackend, ScreenSaver | descriptor per owner, per cookie | `Inhibit`, `UnInhibit`, lock, unlock, sleep, power off | Logind, clients |
| SessionManager on the bus, QmlSessionManager in the shell (`dbus/sessionmanager.cpp`, `imports/session`) | the idle flag | `SetIdle`, `Lock`, `Unlock`, signals `Locked`, `Unlocked` | each other, LogindBackend |
| Plugin registries (`manager/pluginregistry.cpp`, `daemon/pluginregistry.cpp`) | plugin per Id | `discover` | Session, Daemon |
| Daemon (`daemon/`) | modules, loaded modules, running flag | `loadModule`, `start`, `shutdown`, signals | bus daemon, systemd |
| Services module, signal watcher, other bus objects, control program | little or none | see `PROJECT.json` | |

What makes these parts correct, and what is hard about it:

* **Session**: modules come up phase by phase and go down in reverse; a request
  to end always ends the process; a failure is reported; nothing is left
  running. Hard because the shell module runs an event loop inside its
  `start()`, in which `shutdown()` can be called, and because
  `shutdown()` can be called again.
* **Shell module**: the session waits for the shell and ends with it; the shell
  does not come back after `stop()`. QProcess and the bus each have a view of
  the child of their own and tell of it late.
* **Inhibitors**: a lock lives exactly as long as its client wants. Three
  objects keep books of it, and the descriptors come from late answers.
* **Logind session**: the copy of logind's state is right in the end, whatever
  crosses on the bus.
* **Idle flag and lock**: shell, session manager, logind and screen saver agree
  in the end. A request passes two buses and comes back through both; a
  request, an answer or the connection may be lost on the way, and logind or the
  shell replaced; other programs make requests of their own.
* **Registries**: of several plugins with one Id, and of plugins that cannot be
  loaded, each module's name leads to it and back.
* **Daemon**: a module runs once and comes up in the end, though names are freed
  late and units are restarted.
* **Environment**: what was lost is repaired by the next upload, what is private
  to a login session stays private.
* **Applications**: each program in a scope has its handle, as deleting the
  handle kills the program.

### What Qt does

The models rest on these facts about Qt 6:

* `QCoreApplication::exit()` ends all loops of the thread. A nested loop entered
  after it returns at once. The code given last is what `exec()` returns.
  Events that were posted before, and those posted until the loop has returned,
  are still delivered, but the loop no longer polls file descriptors, so that a
  QProcess notices nothing any more.
* `QEventLoop::exec()` forgets an earlier `quit()` of the same loop.
* A blocking D-Bus call does not run an event loop. A call to a name of the own
  process is made directly.
* `QProcess::start()` does nothing unless the state is NotRunning. The state is
  NotRunning when `errorOccurred` and `finished` are emitted. Deleting a
  QProcess kills its program. `waitForFinished()` waits for 30 s.
* Signals and answers from one sender on the bus arrive in order.

## Modules

| Module | Models | How its state and actions correspond |
| --- | --- | --- |
| `Session` | `session.cpp`, `main.cpp` | `pc` says what is on the stack: before the first event (`boot`), in `start()`, in a nested loop, in `shutdown()`, in the main loop. One action per iteration of the loops of `start()` and `shutdown()`, one per early return. `env` is what `main()` finds. A signal or `Logout()` is first a request and then served by a loop. The mapping to `SessionLifecycle` stands at its end: what is up and listed is alive, and a run in which an enabled module waits in a nested loop maps to one in which nothing happens. |
| `SessionLifecycle` | abstract specification | What startup phases promise, with nothing of how. |
| `Shell` | `plugins/session/shell/plugin.cpp` | Variables for QProcess' state, for the child itself, for the owner of the name and for signals on their way. Slots run when the loop of the session that runs (`loop`) delivers them. |
| `SessionShell` | both together | Each step is one of `Session`, one of `Shell`, or the two joined where one calls the other. |
| `Inhibitors` | `logindbackend.cpp`, `screensaver.cpp`, `inhibit()` and `uninhibit()` of Logind | The books `held`, `mFds`, `inhibit`, `inhibitFd`; calls without an answer in `pending`. Descriptors are numbers, reused like those of `dup()`. Owners may be empty, or called like those of LogindBackend. |
| `LogindSession` | `instance()`, the rest of Logind that is used | One queue of messages for the main thread, as the bus keeps their order, and one of calls for logind (`calls`), which are lost when it goes away. `Active` stands for the three properties, which are handled alike. `hint` is the idle hint as logind has it. |
| `SessionClient` | `qmlsessionmanager.cpp`, `dbus/sessionmanager.cpp`, slots for lock, unlock and sleep | `EXTENDS LogindSession` and gives each of its steps the variables of the others: queues between the shell and the manager (`toManager`, `toShell`), the flag, the screen saver. `Others(step, ...)` is a step of `LogindSession` that concerns none of them. |
| `LockRequests` | abstract specification | A queue that may lose requests but neither doubles nor reorders them. It counts the calls of the shell and what others do: only such a step adds a request, and one at most, so that what passes requests on makes none. |
| `PluginRegistry` | both `pluginregistry.cpp`, which modules `initialize()` and `loadPlugins()` get | Operators: a registry is a function from Ids to files; `Found(files)[k]` is the one after `k` files. |
| `Daemon` | `daemon.cpp`, `daemon/main.cpp` | One record of state per process; the bus daemon and systemd as far as the units in `data/systemd` use them. |
| `DaemonPlugins` | `initialize()` of Daemon with its registry | `Daemon` whose modules are those that `PluginRegistry` makes of what is installed (`Static`, `Directory`). |
| `Environment` | `setEnvironment()`, `unsetEnvironment()`, `uploadEnvironment()` | Three environments as functions. Every upload may fail. |
| `Applications` | process launcher and autostart module | Launches are numbered; `scopes`, `running` and `objects` are sets of numbers. |
| `Session_proof`, `SessionShell_proof`, `Inhibitors_proof`, `LogindSession_proof`, `SessionClient_proof`, `Daemon_proof`, `Environment_proof`, `Applications_proof` | proofs about these modules | `SessionShell_proof` builds on `Session_proof`, `SessionClient_proof` on `LogindSession_proof`; `Daemon_proof` is also about `DaemonPlugins` and `PluginRegistry`. |

Names of actions are those of the functions where there is one. `MC...` modules
give the constants their values. Definitions that say "Mutant" in their comment
are plausible mistakes in the definition after them; each property is known to
notice one (`mutants` in `PROJECT.json`).

## Runs

Runs that pass:

| Run | Instance | Shows |
| --- | --- | --- |
| `MCSession` | 4 modules in phases 2, 3, 3, 4, any set disabled, 3 requests | phase barrier, stop order, exit code, what is left behind, every request ends the process; the inductive invariant that is proved; where no module waits in a nested loop `Session` implements `SessionLifecycle`, with its liveness |
| `MCSessionShell` | 3 modules, 2 attempts, 1 restart, 2 requests | the shell in full, no lost wakeup in its nested loop; together they implement `Session`, fairness included |
| `MCInhibitors` | 5 requests that share owner or reason, of which one has an empty owner and one an owner of LogindBackend; 2 cookies, 1 disconnection, 1 unlock | the books agree with the descriptors, nobody loses a lock to somebody else |
| `MCLogindSession` | 2 sessions, 5 changes | connection and copy follow logind |
| `MCSessionClient` | 1 session, 2 calls of the shell, 2 changes around it | hint, flag, screen saver and shell agree in the end; the last of several requests wins; the whole way implements `LockRequests`, with its liveness |
| `MCDaemon` | a unit, a daemon for the same module, one for a module on demand, one without option; 2 signals or crashes; plugins as found in a directory with an older, a broken and a foreign one | no module twice, the module of the unit comes up, a daemon told to stop goes and its name becomes free; the registry is right for every sequence of up to 4 of 9 kinds of files |
| `MCEnvironment` | 3 variables of three kinds, 2 values, 4 changes, any environment of the bus daemon at the start | uploads repair, private variables stay, removed ones do not return |
| `MCApplications` | 4 entries of different kinds, 2 launches by clients | handles, scopes and the end of the session |

The bounds are large enough for what can go wrong: three requests cover one
before the loop, one in the nested loop and one after `quit()`; two modules in
one phase show the free order within it; two attempts and one restart include
"not the last" and "the last"; two cookies can collide in owner, in reason, or
in both; five changes let logind stop and start twice with a switch between; two
calls of the shell can overtake, undo or repeat each other, and with two changes
logind can restart, or the shell, on the way of either. A registry of four
files has room for a plugin, one that replaces it, one that is broken and one
that is ignored. The type invariant of `LogindSession` is a part of that of
`SessionClient`, that of `Session` a part of `IInv`; that of `Daemon` only says
what the variables are.

`SessionClient` notes in `races` what its properties except, each the name of
something the code does not handle:

| Race | What happens |
| --- | --- |
| `ignored` | `setIdle()` takes back a call that is not answered, and is ignored as the flag is still the old one |
| `misread` | the lambda of `setIdle()` captured its parameter by reference and reads something else |
| `failed` | the last answer to `SetIdle` was an error, which QtDBus makes of one that takes too long: the flag stays, though the manager has handled the call or still will; the next answer ends this |
| `missed` | a connection, or a shell, begins while the hint is set: the hint is unset and the shell's flag stays, or the reverse |
| `unaware` | a shell that was started again does not hear that the session is locked |
| `disturbed` | a request was dropped without a connection or lost with logind, or somebody else locked or unlocked |

Without any of these exceptions TLC finds the property violated.

More exceptions stand in properties of the other modules. `BackendBook`
speaks of the time until a descriptor is closed that is filed under an empty
owner (`unnamed`). `NoLeak` excepts a release before the answer (`early`) or
without a connection (`unheard`), and two live cookies with one request
(`shared`). `Collected` is about scopes: the object of a `systemd-run` that does
not start, and that of `LaunchCommand` without systemd, is never deleted.

The counters `MaxRequests`, `MaxCookies`, `MaxUnlocks`, `MaxRestarts`,
`MaxChanges`, `MaxSignals`, `MaxCalls` and `MaxLaunches` bound what the world
does, never what the code does. Deadlock is not checked because every one of
these systems may come to rest: the process exits, or the world stops asking.

Runs that end in a violation, each of a statement of the repository (the quotes
are in `findings` of `PROJECT.json`):

| Run | What happens |
| --- | --- |
| `MCSessionLeft` | a shutdown during the start of the shell leaves later modules running |
| `MCSessionShellAlone` | a session that has lost its shell goes on |
| `MCInhibitorsLock` | locking with a lock held never ends, or crashes |
| `MCInhibitorsStart` | nothing is inhibited until the first unlock |

Other disagreements are plain in a definition and need no run:

| Where the code is | What it says | What it does | Definition |
| --- | --- | --- | --- |
| `session.cpp:102` | README.md:72 "Brings up the D-Bus session if $DBUS_SESSION_BUS_ADDRESS is not set" | with systemd, `main()` then neither starts a session nor quits | `RequireDBusSession` |
| `session.cpp:276` | `liri-session-shutdown.service.in:2` "Trigger shutdown of a Liri session" | `liri-session.target`, which `start()` starts, is never stopped | `target` of `Session` |
| `shell/plugin.cpp:95` | README.md:79 "waits for io.liri.Shell to be available" | `start()` succeeds as soon as the wait is over and the process runs | `WaitReturns` |
| `logindbackend.cpp:158` | line 156 "Bring down the session before the system is shut down" | nothing is connected to the signal | `Slots` |
| `logindbackend.cpp:143` | `handleUninhibited()` is to forget the descriptor that was closed | an owner with an empty name, which `Inhibit()` accepts, is never removed, and its entry hides those of later owners with the same number | `handleUninhibited` of `Inhibitors` |
| `logind.cpp:110` | line 105 "Activate the session in case we are on another vt" | the interface is that of the manager, the call fails | `Activates` |
| `daemon.cpp:124` | `daemon/main.cpp:92` "Start a specific module with systemd, or all modules" | the systemd flag is always set: without `--module` none is started | `SystemdEnabled` |
| `daemon.cpp:208` | `daemon.cpp:154` "Stop modules" | `m_running` is cleared before, so that `unloadModule()` returns at once and no module is stopped | `LeftLoaded` |
| `logindbackend.cpp:127` | line 125 "Unset idle hint at startup so that the login manager will report the flag correctly" | after a restart of logind the shell's flag stays set, and its `setIdle(true)` is ignored | `Registered` of `SessionClient` |
| `autostart/plugin.cpp:111` | line 83 "Terminate autostart entry from" | the launcher has no method of that name; only programs in scopes end, with the session manager | `LauncherMethods` |
| `locale/plugin.cpp:66` | README.md:78 "Sets locale environment variables based on settings" | the launcher has no method `SetEnvironment` | `LauncherMethods` |
| `autostart/plugin.cpp:65` | line 63 "Ignore those entries hidden under systemd" | exactly these are launched, as `compare()` returns 0 for equal strings | `Hidden` |

### Fairness

* `Session`: weak fairness of the main thread as a whole. It blocks only for a
  bounded time: `waitForFinished()` and the timer of the nested loop have limits
  of 30 s, D-Bus calls of 25 s. Requests and module failures are never forced.
* `SessionShell`: in addition the timer expires, and the bus daemon notices a
  client that is gone. The shell may crash, hang or never register.
* `Inhibitors`, `LogindSession`: calls are answered, with success or an error,
  as QtDBus itself answers a call that runs out of time; messages are delivered.
* `SessionClient`: in addition the main thread handles the calls of the session
  bus, and the shell its messages. Each of the two buses has a fairness of its
  own, as Qt takes from both connections in turn. Nobody has to call, and
  nothing has to start again. As long as the main thread hangs
  (`MCInhibitorsLock`) nothing is said: the module lets it hang at any lock,
  though module `Inhibitors` says that it takes a lock held.
* `Daemon`: processes run, names of the dead are freed, systemd watches its
  units. `Environment`: `start()` uploads once. `Applications`: slots run while
  a loop does.

## Proofs

What the runs check on small instances is proved for every value of the
constants: all the safety properties of the passing runs, and the safety half of
the three refinements. Each proof rests only on the named assumptions of
the modules it is about (`SessionAssumption` and so on). They say what the code
fixes, that a module has one phase, that the shell is tried at least once, that
a plugin is linked or found under one Id; and one thing it does not check, that
no client gives both the owner and the reason of one of LogindBackend's own
requests, of which it would then be a second one (the owner alone may be used).

Nearly every property needs a stronger, inductive invariant. In each module
there is one, a conjunction of named parts, with one lemma for each action or
kind of action that says which parts it could disturb.

| Theorem | States | Inductive with |
| --- | --- | --- |
| `Session_proof`: `InvariantHolds`, `TypeCorrect` | `IInv`, `TypeOK` | `IInv` |
| `PhasesInOrder`, `DependenciesStayUp`, `OnlyOrphansLeft`, `ExitCodeTells`, `StoppedInReverse` | `PhaseBarrier`, `DependenciesUp`, `LeftBehind`, `FailureReported`, `StopOrder` | `IInv` |
| `SessionKeepsLifecycle` | every step of `Session` is one of `SessionLifecycle` or none | `IInv`, `PlainInv` |
| `SessionShell_proof`: `ShellImplementsSession`, `SessionInvariantHolds`, `PromisesKeptWithShell` | every step of both is one of `Session` or none; so `IInv` holds, and all the promises above | `IInv` |
| `ShellTyped`, `WakeupComes`, `OrphansFailed`, `LossIsNoticed`, `StopIsFinal` | `ShellTypeOK`, `NoLostWakeup`, `OrphanOnlyAfterFailure`, `ShellLossNoticed`, `NoRestartAfterStop` | `IInv`, `ShellInv` |
| `Inhibitors_proof`: `InhibitorsTyped`, `BooksStayRight`, `LocksAreKept` | `TypeOK`, `BooksRight`, `KeptUntilReleased` | `BookInv` |
| `NothingLeaks` | `NoLeak` | `InhibitorsInv` |
| `LogindSession_proof`: `LogindTyped`, `ForgottenWhenGone` | `TypeOK`, `ResetWhenGone` | `LogindInv` |
| `SessionClient_proof`: `ClientTyped`, `ForgottenForClients` | `ClientTypeOK`, `ResetWhenGone` | `ClientInv` |
| `RequestsInOrder` | every step of `SessionClient` is one of `LockRequests` or none | `ClientInv` |
| `ScreenSettled`, `LockSettled` | what holds once nothing is on its way: the shell shows what the screen saver goes by, which is what the last call asked for | `ScreenInv`, `WishInv` |
| `Daemon_proof`: `NoModuleTwice`, `RegistryAgrees`, `RegistryStaysRight` | `OneLoader`, `AlwaysAgrees`, `RegistryRight` | `DaemonInv` |
| `Environment_proof`: `EnvironmentTypeCorrect`, `UploadsRepair`, `PrivateStaysPrivate`, `RemovedStaysRemoved` | `TypeOK`, `UploadRepairs`, `LoginKeysStay`, `NothingReturns` | the types, `NoUnits` |
| `Applications_proof`: `ScopesHaveObjects`, `ApplicationsTyped` | `ObjectPerScope`, `TypeOK` | `AppInv`, `SizeInv` |

**Session.** None of the properties is inductive alone:

* `PhaseBarrier` follows from `LoadInv`: what is loaded is exactly what `start()`
  has visited and not skipped, and the order of the visit is sorted by phase.
* `StopOrder` needs `OrderInv`: what is *up* stands in `m_loadedModules` in the
  order of the startup outside `shutdown()`, and in the opposite order in what a
  running `shutdown()` still has to stop. It speaks only of modules that are up:
  a second reversal does disorder the list, but only for modules that were
  stopped before.
* `LeftBehind` needs `UpInv`: a running shutdown has all that is up still on its
  list, so that nothing is up when the loop ends.
* `FailureReported` needs `ExitInv`: where the thread stands and whether a
  request was served after a failure determine the code.
* That `TakeDown` of the life cycle takes down the latest phase first needs
  `OrderInv` again, and that `Open` comes before all else `PlainInv`: the startup
  goes on only with an order of the modules that `loadPlugins()` can produce.

The attempt to prove the life cycle found a mistake in its mapping: "open" was
when the order is not empty, so that a session without any module never opened.
No instance TLC had checked has none. The mapping asks now whether `main()` has
called `start()` (`GoesOn`).

**Session with the shell.** `StepIsSessions` goes through the joint steps: with
the shell module in the place of the abstract supervisor, each is one of
`Session`, so that all that is proved there carries over. The shell's own
properties need, in `ShellInv`,

* `CallInv`, how the stack of the plugin and the thread of the session hang
  together: it waits exactly while the session is in the nested loop, also when
  a shutdown runs on top of it;
* `ListInv`, that the session lists the shell if and only if its `start()`
  returned TRUE, and that one that failed and left a process is still *up*;
* `ProcessInv`, that a QProcess is not running exactly when there is no child,
  and that the watchdog gives up only once;
* `SignalInv`, for each of the two bus watches: as long as it is on and what it
  waits for has happened, the signal is still on its way. Without it neither
  `NoLostWakeup` nor `ShellLossNoticed` survives a delivery.

**Inhibitors.** `ClosedBook`: `uninhibit()` takes the owner of the descriptor out
of the backend's book. It needs `BackendBook` before, by which a descriptor has
one owner, and that this is not the empty one; what the screen saver has in its
book is right without either. `NumbersInv` says what is finite, so that `dup()` has a number to
give. `NoLeak` needs to know what has *not* gone wrong yet: as long as nobody
released early, nobody was unheard and no two clients shared a request, every
call without an answer stands for exactly one cookie without a descriptor, and
each request for one cookie (`WaitingInv`, `NoneTwice` in `LeakInv`).

**Logind session.** `ResetWhenGone` is about one moment, the invariant about the
queue. An answer that says "active" may only stand in `inbox` at a place at which
the program, having read what is before it, has a connection (`AnswerInv`). That
is kept because a call is only made on a connection to the logind that runs
(`CallInv`), and because the last thing that `inbox` says of a logind that runs
is that it does (`OwnerInv`). `SessionClient` adds messages of three other kinds
to the same queues; `LogindKeeps` shows that none of its steps breaks this.

**The way of a lock.** `OnTheirWay` puts four queues one behind the other, each
reduced to its requests. `Locking`, which reduces one, is a recursive function
of queues of any length; that two queues joined give the two results joined
(`LockingBoth`) is shown by a least counterexample (`Least`). From it follows
what taking the first message of a queue or adding one to its end does to the
whole (`ShellHears` to `LogindGets`), and so what each step does to the four
queues (`OnlyLogindQueues` to `SetLockQueues`). Each step then is of one of
eight kinds (`SameQueues` to `IsStuck`): a request moves from one queue to the
next and so keeps its place, one is added at the end or in between, one or all
of a queue are lost, the first is shown. Which of these a step may be depends on
who makes it (`Uncounted`, `ShellActs`, `OthersDo`): one is added at the end by
a call of the shell and in between by an act of others, and by nothing else. Joining queues is written `++` in these
proofs, a name for `\o` that the provers leave alone, as they lose their way in
their own rules for `\o`.

`ScreenAgrees` and `LastLockWins` say that something holds from some time on;
*that* it does needs fairness, but *what* does is proved. `ScreenInv`: the last
request on its way to the shell is what the screen saver goes by. `WishInv`: the
last one on its way to the screen saver is what the shell asked for last. Each
stands for every state, so that `ScreenSettled` and `LockSettled` follow for
those in which nothing is on its way. TLC has checked both invariants on the
instance of `MCSessionClient` as well.

**Daemon.** `OneLoader` is inductive together with the types and `StartsKnown`:
what is about to start is a module, so that its name is one of those the bus
daemon frees. The registry is a recursive function of any number of files. That
it is right after each file is shown by a least counterexample: lemma `Least`
derives from the well-foundedness of `<` that a set of numbers has a least
element; `RightWithOneMore` is the step. `RegistryAgrees` is about any list of
files and any place at which it is cut, `RegistryStaysRight` about what a daemon
has loaded from it.

**Environment.** Lemma `Uploaded` says what an upload does to either environment.
`LoginKeysStay` is about steps, not states, as a bus daemon that `dbus-run-session`
starts has the variables of the login from the beginning. `LoginKeys` includes
the `BASH_FUNC...` variables, which `uploadEnvironment()` (`session.cpp:314`)
leaves out as well.
`NothingReturns` needs `NoUnits`, that nothing is sent to systemd outside systemd
mode, as removing a variable does not reach systemd there.

**Applications.** `ObjectPerScope` needs `NumbersInv`, that the next number is
not in use, and `StartsBeforeEnd`, that the session does not end while `start()`
launches. `TypeOK` bounds the number of launches, which needs `CountInv`: what
Autostart has launched and has still to launch is never more than there is.

Only model-checked are

* the liveness properties (`ShutdownEnds`, `LossEndsSession`, `StartReturns`,
  `ConnectionFollows`, `CopyFollows`, `HintFollows`, `FlagFollows`,
  `ScreenAgrees`, `LastLockWins`, `ModuleComesUp`, `SignalEnds`, `Collected`)
  and the fairness in `LifecycleSpec`, in `LockRequestsSpec` and in `Spec` as a
  property of `SessionShell`: liveness under fairness and ENABLED are out of the prover's
  reach;
* the four violations.


## Not modelled

* Control of the session and of devices in Logind (`takeControl()`,
  `takeDevice()`, `switchTo()` and the like): nothing calls it.
* `setEnvironment()` and `QmlLauncher` of the QML imports only send a call and
  log the answer; `Environment` and `Applications` take such calls from any
  client. Their other QML types hold no state of the session.
* What other processes do while the main thread hangs.
* The process ids of the services module. It asks for `io.liri.Daemon`, a name
  no daemon ever owns, so that its list is empty unless another program owns it.
* `DaemonInterface`, which is never created, and `disableModule()` of Daemon.
* A session bus that is not reachable at all: the constructor of SystemdManager
  uses the interface of the connection without a check. The models assume a
  bus is found, through the address or the runtime directory.
* Files: desktop entries, plugin metadata, settings, units, translations. The
  lookup of a desktop file that fails changes nothing.
* Output of programs, logging, wording.

## Plan

Done in this order: `Session` with its life cycle, its proofs, `Shell` and
`SessionShell`, `Inhibitors`, `Daemon`, `Environment`, `Applications`,
`LogindSession`, `SessionClient` with `LockRequests`, `PluginRegistry`; then the
proofs of `Inhibitors`, `SessionShell`, `LogindSession`, `SessionClient`, the
registry, the life cycle and the way of a lock. Next: the same for the idle flag
as `ScreenInv` and `WishInv` are for the lock, that is, invariants that say when
the shell's flag, what it asked for and the hint of logind may differ.
