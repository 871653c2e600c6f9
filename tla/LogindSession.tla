------------------------------ MODULE LogindSession ----------------------------
(* The connection to logind (src/src/manager/backends/logind/logind.cpp): when  *)
(* logind is on the system bus, find the login session, subscribe to its        *)
(* signals, and keep a copy of its properties; forget them when logind is gone. *)
(* The idle hint and the requests to lock and to unlock go the other way.       *)
(*                                                                              *)
(* The main thread learns everything from messages.  The bus keeps the order of *)
(* what one sender sends and of the changes of name owners, so one queue holds  *)
(* what is on its way; a blocking call does not empty it.  Active stands for    *)
(* the three properties Active, VTNr and Seat.  Those who make the requests and *)
(* hear the signals Lock and Unlock are in module SessionClient.                *)
EXTENDS Naturals, Sequences, SequencesExt

CONSTANTS
  Sessions,     \* object paths of the user's login sessions
  None,
  MaxChanges    \* bound: what the world does: logind, the VT, other programs

ASSUME LogindSessionAssumption == None \notin Sessions /\ MaxChanges \in Nat

VARIABLES
  up,             \* logind owns its name
  front,          \* the session in the foreground, or None
  own,            \* what XDG_SESSION_ID or the process id says, or None
  hint,           \* logind: the idle hint of each session
  changes,        \* changes so far
  backend,        \* s_backend: "none" yet, "logind" or "fake"
  setup,          \* requests of the constructor the bus has not handled
  watching,       \* the bus tells about the owner of logind's name
  inbox,          \* messages for the main thread
  calls,          \* calls logind has not answered, oldest first
  isConnected, sessionPath, sessionActive,
  subscribed,     \* paths whose signals are connected
  unfound         \* history: a lookup found no session

outside == <<up, front, own, hint, changes>>
copy == <<isConnected, sessionPath, sessionActive, subscribed>>
vars == <<outside, backend, setup, watching, inbox, calls, copy, unfound>>

(* What a call asks of the session at path: the Get calls, Lock, Unlock, or     *)
(* SetIdleHint with true ("idle") or false ("busy").                            *)
Methods == {"Get", "Lock", "Unlock", "idle", "busy"}
Hint(value) == IF value THEN "idle" ELSE "busy"
Call(method, path) == [method |-> method, path |-> path]

(* Mutant: the check comes before the watch. *)
CheckThenWatch == <<"ListNames", "AddMatch">>
(* Logind(): watch the name, then check whether it is there. *)
Constructor == <<"AddMatch", "ListNames">>

Init ==
  /\ up \in BOOLEAN /\ front \in Sessions \cup {None} /\ own \in Sessions \cup {None}
  /\ hint = [s \in Sessions |-> FALSE] /\ changes = 0
  /\ backend = "none"
  /\ setup = <<>> /\ watching = FALSE
  /\ inbox = <<>> /\ calls = <<>>
  /\ isConnected = FALSE /\ sessionPath = None /\ sessionActive = FALSE
  /\ subscribed = {} /\ unfound = FALSE

--------------------------------------------------------------------------------
(* The bus daemon and logind *)

Deliver(messages) == inbox' = inbox \o messages

BusHandles ==
  /\ setup # <<>> /\ setup' = Tail(setup)
  /\ \/ Head(setup) = "AddMatch" /\ watching' = TRUE /\ inbox' = inbox
     \/ /\ Head(setup) = "ListNames" /\ watching' = watching
        /\ Deliver(IF up THEN <<"registered">> ELSE <<>>)
  /\ UNCHANGED <<outside, backend, calls, copy, unfound>>

Change == changes < MaxChanges /\ changes' = changes + 1

(* Calls that logind has not answered end with an error, which is ignored. *)
LogindStops ==
  /\ up /\ up' = FALSE /\ Change
  /\ Deliver(IF watching THEN <<"unregistered">> ELSE <<>>)
  /\ calls' = <<>>
  /\ UNCHANGED <<front, own, hint, backend, setup, watching, copy, unfound>>

(* Whether a new logind still knows the hints is left open. *)
LogindStarts ==
  /\ ~up /\ up' = TRUE /\ Change
  /\ hint' \in {hint, [s \in Sessions |-> FALSE]}
  /\ Deliver(IF watching THEN <<"registered">> ELSE <<>>)
  /\ UNCHANGED <<front, own, backend, setup, watching, calls, copy, unfound>>

(* PropertiesChanged of the two sessions that lose and get the foreground. *)
SwitchTo(s) ==
  /\ up /\ s # front /\ front' = s /\ Change
  /\ Deliver(IF {s, front} \cap subscribed = {} THEN <<>> ELSE <<"changed">>)
  /\ UNCHANGED <<up, own, hint, backend, setup, watching, calls, copy, unfound>>

(* A signal of the session at path reaches the program if it is connected; it   *)
(* stays connected when another session is found later.                         *)
Emits(signal, path) == Deliver(IF path \in subscribed THEN <<signal>> ELSE <<>>)

LogindHandles ==
  /\ up /\ calls # <<>> /\ calls' = Tail(calls)
  /\ LET method == Head(calls).method
         path == Head(calls).path
     IN  \/ /\ method = "Get"
            /\ Deliver(<<IF path = front THEN "active" ELSE "inactive">>)
            /\ UNCHANGED hint
         \/ method \in {"Lock", "Unlock"} /\ Emits(method, path) /\ UNCHANGED hint
         \/ /\ method \in {"idle", "busy"} /\ UNCHANGED inbox
            /\ hint' = [hint EXCEPT ![path] = (method = "idle")]
  /\ UNCHANGED <<up, front, own, changes, backend, setup, watching, copy, unfound>>

--------------------------------------------------------------------------------
(* The main thread *)

(* SessionBackend::instance(): the choice, by a blocking call, is made once. *)
instance ==
  /\ backend = "none"
  /\ \/ up /\ backend' = "logind" /\ setup' = Constructor
     \/ ~up /\ backend' = "fake" /\ UNCHANGED setup
  /\ UNCHANGED <<outside, watching, inbox, calls, copy, unfound>>

(* Asynchronous calls fail when logind is not there. *)
Calls(requests) == calls' = IF up THEN calls \o requests ELSE calls

Receive(message) == inbox # <<>> /\ Head(inbox) = message /\ inbox' = Tail(inbox)

(* Every call fails when logind is gone again.  getUserSession(): the session of *)
(* the user that is active; *)
OfUser == IF up THEN front ELSE None
(* GetSession for XDG_SESSION_ID and GetSessionByPID. *)
OfProcess == IF up THEN own ELSE None

(* sessionPath keeps what it has from before when all of them fail. *)
Found ==
  IF OfUser # None THEN OfUser ELSE IF OfProcess # None THEN OfProcess ELSE sessionPath

(* Mutant: the signal of the session's properties is not connected. *)
Unconnected(path) == subscribed
Connected(path) == subscribed \cup {path}

(* Mutant: the properties are not asked for. *)
NoQuery(path) == <<>>
GetProperties(path) == <<Call("Get", path)>>

(* Mutant: the hint is left as it is. *)
KeepHint(path) == <<>>
(* handleConnectedChanged(true) of LogindBackend: setIdle(false). *)
handleConnectedChanged(path) == <<Call(Hint(FALSE), path)>>

(* Activate is called on the interface of the manager, which the session object *)
(* does not have: nothing is activated.                                         *)
Interfaces == {"org.freedesktop.login1.Session"}
Activates == "org.freedesktop.login1.Manager" \in Interfaces

_q_serviceRegistered ==
  /\ Receive("registered") /\ ~isConnected /\ Found # None
  /\ isConnected' = TRUE /\ sessionPath' = Found
  /\ subscribed' = Connected(Found)
  /\ front' = IF up /\ Activates THEN Found ELSE front
  /\ Calls(GetProperties(Found) \o handleConnectedChanged(Found))
  /\ UNCHANGED <<up, own, hint, changes, backend, setup, watching, sessionActive,
                 unfound>>

NoSession ==
  /\ Receive("registered") /\ ~isConnected /\ Found = None
  /\ unfound' = TRUE
  /\ UNCHANGED <<outside, backend, setup, watching, calls, copy>>

AlreadyConnected ==
  /\ Receive("registered") /\ isConnected
  /\ UNCHANGED <<outside, backend, setup, watching, calls, copy, unfound>>

(* Mutant: the properties are kept. *)
KeepActive == sessionActive
ResetActive == FALSE

_q_serviceUnregistered ==
  /\ Receive("unregistered")
  /\ isConnected' = FALSE /\ sessionActive' = ResetActive
  /\ UNCHANGED <<outside, backend, setup, watching, calls, sessionPath, subscribed,
                 unfound>>

_q_sessionPropertiesChanged ==
  /\ Receive("changed")
  /\ IF isConnected THEN Calls(GetProperties(sessionPath)) ELSE UNCHANGED calls
  /\ UNCHANGED <<outside, backend, setup, watching, copy, unfound>>

(* getSessionActive(): the reply. *)
ActiveIs(value) ==
  /\ Receive(IF value THEN "active" ELSE "inactive")
  /\ sessionActive' = value
  /\ UNCHANGED <<outside, backend, setup, watching, calls, isConnected, sessionPath,
                 subscribed, unfound>>

MainThread ==
  \/ instance \/ _q_serviceRegistered \/ NoSession \/ AlreadyConnected
  \/ _q_serviceUnregistered \/ _q_sessionPropertiesChanged
  \/ \E value \in BOOLEAN : ActiveIs(value)

Next ==
  \/ BusHandles \/ LogindStops \/ LogindStarts \/ LogindHandles
  \/ \E s \in Sessions \cup {None} : SwitchTo(s)
  \/ MainThread

(* Messages are handled, by the bus, by logind while it runs and by the main    *)
(* thread; nothing makes logind start, stop or switch.                          *)
Spec ==
  Init /\ [][Next]_vars /\ WF_vars(BusHandles) /\ WF_vars(LogindHandles)
       /\ WF_vars(MainThread)
--------------------------------------------------------------------------------
(* Properties *)

TypeOK ==
  /\ up \in BOOLEAN /\ front \in Sessions \cup {None} /\ own \in Sessions \cup {None}
  /\ hint \in [Sessions -> BOOLEAN] /\ changes \in 0 .. MaxChanges
  /\ backend \in {"none", "logind", "fake"}
  /\ ToSet(setup) \subseteq {"AddMatch", "ListNames"} /\ watching \in BOOLEAN
  /\ ToSet(inbox) \subseteq {"registered", "unregistered", "changed", "active",
                             "inactive", "Lock", "Unlock", "sleep"}
  /\ \A c \in ToSet(calls) : c.method \in Methods /\ c.path \in subscribed
  /\ subscribed \subseteq Sessions
  /\ isConnected \in BOOLEAN /\ sessionActive \in BOOLEAN
  /\ sessionPath \in IF isConnected THEN subscribed ELSE subscribed \cup {None}
  /\ backend # "logind" => setup = <<>> /\ ~watching /\ ~isConnected

(* An answer that was on its way when logind went away does not bring its       *)
(* session's state back: without a connection the session is not active.        *)
ResetWhenGone == ~isConnected => ~sessionActive

(* When logind neither starts nor stops any more, the connection is there if    *)
(* and only if logind is, even if it came or went while the constructor was     *)
(* checking for it; except that a session that is not found is not looked for   *)
(* again, and that nobody looks for logind if it was not there at the start.    *)
ConnectionFollows ==
  <>[](backend = "logind" => IF isConnected THEN up ELSE ~up \/ unfound)

(* When nothing changes any more the copy is right, though signals and answers  *)
(* cross: the session counts as active if and only if it is in the foreground.  *)
CopyFollows == <>[](isConnected => (sessionActive <=> sessionPath = front))
================================================================================
