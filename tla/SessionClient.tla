------------------------------ MODULE SessionClient ----------------------------
(* The way of the idle flag and of the lock through four processes: the shell   *)
(* (src/src/imports/session/qmlsessionmanager.cpp) calls the session manager    *)
(* (dbus/sessionmanager.cpp), which calls logind, whose signals come back       *)
(* through LogindBackend (backends/logindbackend.cpp) to the screen saver       *)
(* (dbus/screensaver.cpp) and the shell.  Everything is asynchronous; logind    *)
(* and the shell may be replaced on the way.                                    *)
EXTENDS LogindSession

CONSTANT MaxCalls   \* bound: calls the shell makes

ASSUME SessionClientAssumption == MaxCalls \in Nat

VARIABLES
  thread,       \* the main thread: "free", or "stuck" for good
  mIdle,        \* QmlSessionManager::m_idle
  wanted,       \* the last argument of its setIdle()
  lockWanted,   \* its last call was lock(), not unlock()
  sent,         \* calls so far
  toManager,    \* calls of the shell the manager has not handled
  toShell,      \* answers to SetIdle and signals for the shell
  shown,        \* the shell was told last that the session is locked
  active,       \* ScreenSaver::m_active
  said,         \* history: the value of SetIdle() since the last connection
  races         \* history: what came in between, see the properties

shell == <<mIdle, wanted, lockWanted, sent, shown>>
besidesCalls == <<outside, backend, setup, watching, inbox, copy, unfound, thread>>
besidesInbox == <<outside, backend, setup, watching, calls, copy, unfound>>
world == <<up, front, own, hint>>
clientVars == <<vars, thread, shell, toManager, toShell, active, said, races>>

(* A call of the shell: "Lock", "Unlock", or SetIdle as a hint; live while the  *)
(* shell that made it lives.                                                    *)
Message(call) == [call |-> call, live |-> TRUE]

ClientInit ==
  /\ Init /\ thread = "free"
  /\ mIdle = FALSE /\ wanted = FALSE /\ lockWanted = FALSE /\ sent = 0
  /\ toManager = <<>> /\ toShell = <<>>
  /\ shown = FALSE /\ active = FALSE /\ said = FALSE /\ races = {}

Race(name, happened) == races' = races \cup (IF happened THEN {name} ELSE {})

--------------------------------------------------------------------------------
(* The shell *)

Sends(call) ==
  /\ sent < MaxCalls /\ sent' = sent + 1
  /\ toManager' = Append(toManager, Message(call))

(* Values of SetIdle calls that are not answered, oldest first. *)
Unanswered ==
  SelectSeq(toShell \o [i \in DOMAIN toManager |-> toManager[i].call],
            LAMBDA m : m \in {"idle", "busy"})

(* The flag is that of the last answer: while a call with the other value is    *)
(* unanswered, a request for the value of the flag is ignored.                  *)
setIdle(value) ==
  /\ wanted' = value
  /\ IF mIdle = value
       THEN /\ sent < MaxCalls /\ sent' = sent + 1 /\ UNCHANGED toManager
            /\ Race("ignored", Unanswered # <<>> /\ Last(Unanswered) # Hint(value))
       ELSE Sends(Hint(value)) /\ UNCHANGED races
  /\ UNCHANGED <<vars, thread, mIdle, lockWanted, shown, toShell, active, said>>

(* lock() and unlock() *)
setLock(value) ==
  /\ Sends(IF value THEN "Lock" ELSE "Unlock") /\ lockWanted' = value
  /\ UNCHANGED <<vars, thread, mIdle, wanted, shown, toShell, active, said, races>>

Hears(message) == toShell # <<>> /\ Head(toShell) = message /\ toShell' = Tail(toShell)

(* Mutant: every answer toggles the flag. *)
Toggled(read) == ~mIdle
AsRead(read) == read

(* The answer to SetIdle: the lambda has captured the parameter by reference,   *)
(* and reads whatever is in its place now.  With an error it leaves the flag    *)
(* alone: QtDBus makes one when the answer takes too long, though the manager   *)
(* has handled the call or still will.                                          *)
SetIdleAnswered ==
  /\ \E value \in BOOLEAN :
       /\ Hears(Hint(value))
       /\ \/ \E read \in BOOLEAN :
                /\ mIdle' = AsRead(read)
                /\ races' = (races \ {"failed"})
                              \cup (IF read # value THEN {"misread"} ELSE {})
          \/ UNCHANGED mIdle /\ Race("failed", TRUE)
  /\ UNCHANGED <<vars, thread, wanted, lockWanted, sent, shown, toManager, active, said>>

sessionLocked ==
  /\ Hears("Locked") /\ shown' = TRUE
  /\ UNCHANGED <<vars, thread, mIdle, wanted, lockWanted, sent, toManager, active, said, races>>

sessionUnlocked ==
  /\ Hears("Unlocked") /\ shown' = FALSE
  /\ UNCHANGED <<vars, thread, mIdle, wanted, lockWanted, sent, toManager, active, said, races>>

Shell == SetIdleAnswered \/ sessionLocked \/ sessionUnlocked

(* The shell dies and is started again (module Shell); the calls it has made    *)
(* are still handled.                                                           *)
ShellRestarts ==
  /\ Change
  /\ mIdle' = FALSE /\ wanted' = FALSE /\ shown' = FALSE /\ toShell' = <<>>
  /\ toManager' = [i \in DOMAIN toManager |-> [toManager[i] EXCEPT !.live = FALSE]]
  /\ races' = races \cup (IF active THEN {"unaware"} ELSE {})
       \cup IF said \/ \E i \in DOMAIN toManager : toManager[i].call = "idle"
              THEN {"missed"} ELSE {}
  /\ UNCHANGED <<world, backend, setup, watching, inbox, calls, copy,
                 unfound, thread, lockWanted, sent, active, said>>

--------------------------------------------------------------------------------
(* The session manager: calls of the shell *)

(* setIdleHint(), lockSession() and unlockSession(); the fake backend, whose    *)
(* methods are empty, never has a connection.                                   *)
Reachable == isConnected /\ sessionPath # None
Request(method) ==
  Calls(IF Reachable THEN <<Call(method, sessionPath)>> ELSE <<>>)

(* A request for logind is dropped when there is no connection. *)
Dropped == ~Reachable \/ ~up

(* SetIdle() is answered with success whatever becomes of it. *)
SetIdle ==
  /\ toManager # <<>>
  /\ \E value \in BOOLEAN :
       /\ Head(toManager).call = Hint(value)
       /\ Request(Hint(value))
       /\ said' = value
       /\ toShell' = IF Head(toManager).live THEN Append(toShell, Hint(value)) ELSE toShell
  /\ toManager' = Tail(toManager)
  /\ UNCHANGED <<besidesCalls, shell, active, races>>

(* Mutant: nothing is asked for when the screen saver is already in that state. *)
UnlessSo(call) ==
  IF active = (call = "Lock") THEN UNCHANGED calls ELSE Request(call)
AskLogind(call) == Request(call)

(* Mutant: logind's signal is not waited for. *)
SignalAtOnce(call) == toShell' = Append(toShell, call \o "ed")
AwaitSignal(call) == UNCHANGED toShell

(* Lock() and Unlock() *)
LockOrUnlock ==
  /\ toManager # <<>> /\ Head(toManager).call \in {"Lock", "Unlock"}
  /\ AskLogind(Head(toManager).call)
  /\ AwaitSignal(Head(toManager).call)
  /\ toManager' = Tail(toManager)
  /\ Race("disturbed", Dropped)
  /\ UNCHANGED <<besidesCalls, shell, active, said>>

Manager == SetIdle \/ LockOrUnlock

(* Lock() and SetActive(true) of the screen saver, called by other clients. *)
ScreenSaverLock ==
  /\ Change /\ Request("Lock")
  /\ Race("disturbed", TRUE)
  /\ UNCHANGED <<world, backend, setup, watching, inbox, copy, unfound, thread,
                 shell, toManager, toShell, active, said>>

--------------------------------------------------------------------------------
(* The session manager: signals of Logind *)

(* A signal that is passed on; Logind itself keeps nothing of it. *)
Relays(signal) ==
  /\ Receive(signal)
  /\ UNCHANGED besidesInbox

(* Mutants: SessionManager does not pass on sessionUnlocked; it is connected to *)
(* the backend twice.                                                           *)
OnlyLocked(signal) ==
  toShell' = IF signal = "Locked" THEN Append(toShell, signal) ELSE toShell
PassOnTwice(signal) == toShell' = toShell \o <<signal, signal>>
PassOn(signal) == toShell' = Append(toShell, signal)

(* ScreenSaver::handleLock() or handleUnlock(), and SessionManager's signal; a  *)
(* shell that did not know of a lock hears of it now.                           *)
Backend(signal) ==
  /\ active' = (signal = "Locked")
  /\ PassOn(signal)
  /\ races' = races \ {"unaware"}
  /\ UNCHANGED <<thread, shell, toManager, said>>

handleSessionLocked == Relays("Lock") /\ Backend("Locked")
handleSessionUnlocked == Relays("Unlock") /\ Backend("Unlocked")
prepareForSleep == Relays("sleep") /\ Backend("Locked")

(* A connection starts without the hint, whatever was said before. *)
Registered ==
  /\ _q_serviceRegistered
  /\ said' = FALSE /\ Race("missed", said)
  /\ UNCHANGED <<thread, shell, toManager, toShell, active>>

(* LogindBackend::handleSessionLocked() does not return when it has a lock to   *)
(* release.  Module Inhibitors says when it has; here it may at any time.       *)
Hangs ==
  /\ Relays("Lock") /\ thread' = "stuck"
  /\ UNCHANGED <<shell, toManager, toShell, active, said, races>>

(* What concerns nobody but Logind. *)
OnlyLogind ==
  /\ \/ instance \/ NoSession \/ AlreadyConnected
     \/ _q_serviceUnregistered \/ _q_sessionPropertiesChanged
     \/ \E value \in BOOLEAN : ActiveIs(value)
  /\ UNCHANGED <<thread, shell, toManager, toShell, active, said, races>>

SystemBus ==
  \/ OnlyLogind \/ Registered
  \/ handleSessionLocked \/ Hangs \/ handleSessionUnlocked \/ prepareForSleep

--------------------------------------------------------------------------------
(* Everybody else *)

(* Another program locks or unlocks a session. *)
OthersLock(signal, s) ==
  /\ up /\ Change /\ Emits(signal, s)
  /\ UNCHANGED <<world, backend, setup, watching, calls, copy, unfound>>

(* PrepareForSleep(true), which is connected as long as the connection lasts. *)
Sleeps ==
  /\ up /\ Change
  /\ Deliver(IF isConnected THEN <<"sleep">> ELSE <<>>)
  /\ UNCHANGED <<world, backend, setup, watching, calls, copy, unfound>>

Others(step, disturb) ==
  /\ step /\ Race("disturbed", disturb)
  /\ UNCHANGED <<thread, shell, toManager, toShell, active, said>>

World ==
  \/ Others(LogindStops, \E c \in ToSet(calls) : c.method \in {"Lock", "Unlock"})
  \/ Others(LogindStarts, FALSE)
  \/ \E s \in Sessions \cup {None} : Others(SwitchTo(s), FALSE)
  \/ \E s \in Sessions, signal \in {"Lock", "Unlock"} : Others(OthersLock(signal, s), TRUE)
  \/ Others(Sleeps, TRUE)

(* The objects they call, and the shell, come after the constructor of Session. *)
Clients ==
  /\ backend # "none"
  /\ \/ ScreenSaverLock \/ ShellRestarts
     \/ \E value \in BOOLEAN : setIdle(value) \/ setLock(value)

Bus == Others(BusHandles, FALSE)
LogindAnswers == Others(LogindHandles, FALSE)

Free == thread = "free"

(* Nothing is modelled of what goes on around a main thread that is stuck. *)
ClientNext ==
  /\ Free
  /\ \/ World \/ Bus \/ LogindAnswers
     \/ SystemBus \/ Manager \/ Shell \/ Clients

(* Messages are handled: by the bus, by logind while it runs, by the main       *)
(* thread those of either bus, and by the shell.  Nobody has to ask for         *)
(* anything, and nothing makes logind or the shell start, stop or switch.       *)
ClientSpec ==
  /\ ClientInit /\ [][ClientNext]_clientVars
  /\ WF_clientVars(Free /\ Bus) /\ WF_clientVars(Free /\ LogindAnswers)
  /\ WF_clientVars(Free /\ SystemBus) /\ WF_clientVars(Free /\ Manager)
  /\ WF_clientVars(Free /\ Shell)
--------------------------------------------------------------------------------
(* Properties *)

ClientTypeOK ==
  /\ TypeOK /\ thread \in {"free", "stuck"}
  /\ {mIdle, wanted, lockWanted, shown, active, said} \subseteq BOOLEAN
  /\ sent \in 0 .. MaxCalls
  /\ \A m \in ToSet(toManager) :
       m.call \in {"idle", "busy", "Lock", "Unlock"} /\ m.live \in BOOLEAN
  /\ ToSet(toShell) \subseteq {"idle", "busy", "Locked", "Unlocked"}
  /\ races \subseteq
       {"ignored", "misread", "failed", "missed", "unaware", "disturbed"}

Without(names) == races \cap names = {}

(* logindbackend.cpp:125: logind shows what the shell said last, and nothing    *)
(* that was said before the connection: though calls are dropped when logind    *)
(* goes away, and a logind that comes back may still have the hint of before.   *)
HintFollows == <>[](Free /\ isConnected => hint[sessionPath] = said)

(* The flag the shell goes by becomes what it asked for last, and what logind   *)
(* has, with any number of calls on their way; except for these races: a        *)
(* request is ignored that undoes an unanswered one, an answer reads the wrong  *)
(* value, the last answer was an error, a connection or a shell begins while    *)
(* the hint is set.                                                             *)
FlagFollows ==
  <>[](Free =>
       /\ Without({"misread", "failed", "ignored"}) => mIdle = wanted
       /\ Without({"misread", "failed", "missed"}) /\ isConnected =>
            hint[sessionPath] = mIdle)

(* The screen saver and the shell agree in the end on whether the session is    *)
(* locked, whoever locked it; except a shell that was started since.            *)
ScreenAgrees == <>[](Free /\ Without({"unaware"}) => shown = active)

(* Of several calls of lock() and unlock() the last wins, though the answer to  *)
(* each goes through two buses: unless one was dropped or others interfered.    *)
LastLockWins == <>[](Free /\ Without({"disturbed"}) => active = lockWanted)

(* The requests among messages, TRUE to lock, in the same order. *)
AsksToLock(message) == message \in {"Lock", "Locked", "sleep"}
AsksToUnlock(message) == message \in {"Unlock", "Unlocked"}
Added(requests, message) ==
  IF AsksToLock(message) THEN Append(requests, TRUE)
  ELSE IF AsksToUnlock(message) THEN Append(requests, FALSE)
  ELSE requests
Locking(messages) ==
  LET upTo[n \in 0 .. Len(messages)] ==
        IF n = 0 THEN <<>> ELSE Added(upTo[n - 1], messages[n])
  IN  upTo[Len(messages)]

(* The requests on their way, from the shell back to it, oldest first. *)
OnTheirWay ==
  IF ~Free THEN <<>>
  ELSE Locking(toShell) \o Locking(inbox)
         \o Locking([i \in DOMAIN calls |-> calls[i].method])
         \o Locking([i \in DOMAIN toManager |-> toManager[i].call])

Abstract ==
  INSTANCE LockRequests WITH queue <- OnTheirWay, screen <- shown,
                             asked <- sent, others <- changes

(* The whole way implements a queue that may lose requests but neither doubles  *)
(* nor reorders them: no step adds a request but one in which the shell calls   *)
(* or somebody else acts, and that adds one at most.                            *)
LockRequestsSpec == Abstract!Spec
================================================================================
