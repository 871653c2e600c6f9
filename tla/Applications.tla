----------------------------- MODULE Applications ------------------------------
(* The programs a session runs: ProcessLauncher (manager/dbus/processlauncher)  *)
(* launches them for clients on the bus, AutostartPlugin (plugins/session/      *)
(* autostart) launches the autostart entries through it.                        *)
(*                                                                              *)
(* In systemd mode a program becomes a scope: systemd-run registers it and then *)
(* runs it in its own process, so that the launcher's QProcess object is the    *)
(* handle of the program itself.  Without systemd a program is let go of.       *)
(* Autostart calls the launcher over the bus, but a call to a name of the own   *)
(* process is made at once: it is part of start().                              *)
EXTENDS Naturals, Sequences, FiniteSets

CONSTANTS
  Entries,             \* desktop files in the autostart directories
  Suitable,            \* the visible ones that are meant for Liri
  HiddenUnderSystemd,  \* X-GNOME-HiddenUnderSystemd=true: a unit replaces them
  Activatable,         \* programs the bus can start
  Command,             \* a command line a client may launch
  MaxLaunches          \* bound: clients stop when so many were launched

ASSUME ApplicationsAssumption ==
  /\ Suitable \subseteq Entries /\ HiddenUnderSystemd \subseteq Entries
  /\ Activatable \subseteq Entries
  /\ Command \notin Entries /\ IsFiniteSet(Entries) /\ MaxLaunches \in Nat

VARIABLES
  systemd,    \* m_systemdEnabled
  autostart,  \* the module: "idle", "starting", "started", "stopped"
  todo,       \* entries start() has still to look at
  desktopFiles,  \* m_desktopFiles
  launched,   \* what was launched, in this order
  scopes,     \* which of them systemd-run was started for
  running,    \* which of them run
  objects,    \* which of them have a QProcess object of the launcher
  over        \* the session manager is gone

launcher == <<launched, scopes, running, objects>>
vars == <<systemd, autostart, todo, desktopFiles, launcher, over>>

Init ==
  /\ systemd \in BOOLEAN
  /\ autostart = "idle" /\ todo = {} /\ desktopFiles = {}
  /\ launched = <<>> /\ scopes = {} /\ running = {} /\ objects = {}
  /\ over = FALSE

--------------------------------------------------------------------------------
(* ProcessLauncher *)

(* systemd-run starts, or waitForStarted() returns FALSE: then finished() is   *)
(* never emitted and the object stays.                                         *)
RunScope(id) ==
  /\ objects' = objects \cup {id}
  /\ \/ scopes' = scopes \cup {id} /\ running' = running \cup {id}
     \/ UNCHANGED <<scopes, running>>

(* LaunchCommand() creates an object only to call startDetached() on it. *)
Detach(id, what) ==
  /\ running' \in {running, running \cup {id}}
  /\ objects' = IF what = Command THEN objects \cup {id} ELSE objects
  /\ UNCHANGED scopes

(* Mutant: a program the bus can start is run as a scope as well. *)
AlwaysScope(what) == systemd
NeedsScope(what) == systemd /\ what \notin Activatable

Launch(what) ==
  /\ launched' = Append(launched, what)
  /\ LET id == Len(launched) + 1
     IN IF NeedsScope(what) THEN RunScope(id) ELSE Detach(id, what)

ThreadIsFree == ~over /\ autostart # "starting"

(* LaunchApplication(), LaunchDesktopFile() or LaunchCommand() for a client. *)
LaunchFor(what) ==
  /\ ThreadIsFree /\ Len(launched) < MaxLaunches
  /\ Launch(what)
  /\ UNCHANGED <<systemd, autostart, todo, desktopFiles, over>>

(* Mutants: deleted as soon as it has started; the signal is not connected. *)
Started(id) == id \in scopes
NotConnected(id) == FALSE
Finished(id) == id \in scopes \ running

handleProcessFinished(id) ==
  /\ ThreadIsFree /\ id \in objects /\ Finished(id)
  /\ objects' = objects \ {id}
  /\ UNCHANGED <<systemd, autostart, todo, desktopFiles, launched, scopes,
                 running, over>>

ProgramEnds(id) ==
  /\ id \in running
  /\ running' = running \ {id}
  /\ UNCHANGED <<systemd, autostart, todo, desktopFiles, launched, scopes,
                 objects, over>>

--------------------------------------------------------------------------------
(* AutostartPlugin *)

(* Mutant: the entries are not filtered. *)
AnyEntry == Entries
Considered == Suitable

StartAutostart ==
  /\ ~over /\ autostart = "idle"
  /\ autostart' = "starting" /\ todo' = Considered
  /\ UNCHANGED <<systemd, desktopFiles, launcher, over>>

(* QString::compare() returns 0, that is FALSE, for equal strings. *)
Hidden(entry) == entry \notin HiddenUnderSystemd

IgnoreEntry(entry) ==
  /\ autostart = "starting" /\ entry \in todo
  /\ systemd /\ Hidden(entry)
  /\ todo' = todo \ {entry}
  /\ UNCHANGED <<systemd, autostart, desktopFiles, launcher, over>>

LaunchEntry(entry) ==
  /\ autostart = "starting" /\ entry \in todo
  /\ ~(systemd /\ Hidden(entry))
  /\ todo' = todo \ {entry}
  /\ desktopFiles' = desktopFiles \cup {entry}
  /\ Launch(entry)
  /\ UNCHANGED <<systemd, autostart, over>>

AutostartStarted ==
  /\ autostart = "starting" /\ todo = {}
  /\ autostart' = "started"
  /\ UNCHANGED <<systemd, todo, desktopFiles, launcher, over>>

(* stop() asks for TerminateDesktopFile, a method the launcher does not have. *)
LauncherMethods == {"LaunchApplication", "LaunchDesktopFile", "LaunchCommand"}
Terminated ==
  IF "TerminateDesktopFile" \in LauncherMethods
    THEN {id \in running : launched[id] \in desktopFiles} ELSE {}
StopAutostart ==
  /\ ~over /\ autostart = "started"
  /\ autostart' = "stopped" /\ desktopFiles' = {}
  /\ running' = running \ Terminated
  /\ UNCHANGED <<systemd, todo, launched, scopes, objects, over>>

(* Mutant: the objects are not the launcher's children. *)
NobodysChildren == UNCHANGED <<objects, running>>
(* The launcher's children are deleted with it; ~QProcess kills what still runs. *)
DeleteObjects == objects' = {} /\ running' = running \ (objects \cap scopes)

SessionEnds ==
  /\ ThreadIsFree
  /\ over' = TRUE
  /\ DeleteObjects
  /\ UNCHANGED <<systemd, autostart, todo, desktopFiles, launched, scopes>>

Ids == 1 .. MaxLaunches + Cardinality(Suitable)
Next ==
  \/ StartAutostart \/ AutostartStarted \/ StopAutostart \/ SessionEnds
  \/ \E e \in Entries : IgnoreEntry(e) \/ LaunchEntry(e)
  \/ \E what \in Entries \cup {Command} : LaunchFor(what)
  \/ \E id \in Ids : handleProcessFinished(id) \/ ProgramEnds(id)

(* start() goes on, and signals are delivered while an event loop runs. *)
Starts == AutostartStarted \/ \E e \in Entries : IgnoreEntry(e) \/ LaunchEntry(e)
Spec ==
  /\ Init /\ [][Next]_vars
  /\ WF_vars(Starts)
  /\ \A id \in Ids : WF_vars(handleProcessFinished(id))
--------------------------------------------------------------------------------
(* Properties *)

TypeOK ==
  /\ autostart \in {"idle", "starting", "started", "stopped"}
  /\ todo \subseteq Suitable /\ desktopFiles \subseteq Suitable
  /\ launched \in Seq(Entries \cup {Command})
  /\ DOMAIN launched \subseteq Ids
  /\ scopes \cup running \cup objects \subseteq DOMAIN launched
  /\ systemd \in BOOLEAN /\ over \in BOOLEAN

(* Deleting a QProcess kills its program: a scope that runs has its object, so  *)
(* that no scope outlives the session manager, whose objects are its children;  *)
(* and no program the bus starts is a scope.                                    *)
ObjectPerScope ==
  /\ running \cap scopes \subseteq (IF over THEN {} ELSE objects)
  /\ \A id \in objects : id \in scopes => launched[id] \notin Activatable

(* The object of every scope that has ended is deleted, unless the session ends *)
(* before: a session does not collect the handles of all it ever launched.      *)
Collected ==
  \A id \in Ids : (id \in scopes \ running) ~> (id \notin objects)
================================================================================
