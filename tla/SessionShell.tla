------------------------------ MODULE SessionShell -----------------------------
(* The session manager with the real shell plugin as its supervisor: every step *)
(* is a step of Session, a step of Shell, or one of each where one calls the    *)
(* other.  The other modules stay abstract.                                     *)
EXTENDS Session

CONSTANTS shell, Retries, WatchDog

ASSUME SessionShellAssumption ==
  /\ shell \in Modules /\ Supervisors = {shell}
  /\ Retries \in Nat \ {0} /\ WatchDog \in Nat

VARIABLES
  call, result, attempts, proc, child, owner, claimed, signals, regOn, unregOn,
  loopQuit, stopping, watchDog, stopped

Loop == CASE pc = "nested" -> "nested" [] pc = "loop" -> "main" [] OTHER -> "none"
Plugin == INSTANCE Shell WITH loop <- Loop
plugin == <<call, result, attempts, proc, child, owner, claimed, signals, regOn,
            unregOn, loopQuit, stopping, watchDog, stopped>>

ShellIsNext == pc = "starting" /\ next <= Len(order) /\ Current = shell

SSInit == Init /\ Plugin!Init

--------------------------------------------------------------------------------
(* Calls in both directions *)

StartShell ==
  /\ ShellIsNext /\ shell \notin disabled
  /\ Plugin!CallStart
  /\ UNCHANGED vars

(* A child that was left behind counts as up: the session has no handle on it. *)
ShellReturns ==
  /\ \/ result' = "TRUE" /\ StartSucceeds
     \/ result' = "FALSE" /\ StartFails
  /\ shell \in up' \ up <=> child # "none"

ShellGivesUp == ShellIsNext /\ Plugin!StartGivesUp /\ ShellReturns
ShellFailsToStart == Plugin!AttemptFails /\ UNCHANGED vars
ShellWaits == Plugin!AttemptSucceeds /\ EnterNestedLoop
ShellWaited == Plugin!WaitReturns /\ ShellReturns
ShellIsLost == Plugin!handleServiceUnregistered /\ ModuleShutdown(shell)

ShellStops == pc = "stopping" /\ stopList # <<>> /\ Head(stopList) = shell
CallStop == ShellStops /\ Plugin!CallStop /\ UNCHANGED vars
ShellStopped ==
  /\ ShellStops
  /\ Plugin!StopFinishes \/ Plugin!StopFailsToStart \/ Plugin!StopKills
  /\ StopModule

LeaveShell == IF shell \in ToSet(loaded) THEN Plugin!Destroy ELSE UNCHANGED plugin
ExitBoth == Exit /\ LeaveShell

--------------------------------------------------------------------------------
(* Steps of one of the two *)

Slot ==
  /\ \/ Plugin!handleServiceRegistered
     \/ Plugin!IgnoreUnregistered
     \/ Plugin!ProcessStarts
     \/ Plugin!processFinished
  /\ UNCHANGED vars

Timer == Plugin!TimerExpires /\ UNCHANGED vars

StartOther ==
  next <= Len(order) /\ Current # shell /\ (StartSucceeds \/ StartFails)
StopOther == ~ShellStops /\ StopModule
SessionAlone ==
  /\ Boot \/ SkipDisabled \/ StartOther \/ AllStarted \/ ServeRequest
       \/ StopOther \/ EndShutdown
  /\ UNCHANGED plugin

(* One of the requests is kept for the shell's own. *)
RequestArrives ==
  /\ unregOn => issued + 1 < MaxRequests
  /\ Request /\ UNCHANGED plugin

World ==
  /\ Plugin!ChildRegisters \/ Plugin!ChildDies \/ Plugin!NameIsReleased
  /\ UNCHANGED vars

BusNotices == owner = "ghost" /\ Plugin!NameIsReleased /\ UNCHANGED vars

ThreadStep ==
  \/ StartShell \/ ShellGivesUp \/ ShellFailsToStart \/ ShellWaits \/ ShellWaited
  \/ ShellIsLost \/ CallStop \/ ShellStopped \/ ExitBoth \/ Slot \/ SessionAlone

SSNext == ThreadStep \/ Timer \/ RequestArrives \/ World

ssVars == <<vars, plugin>>
(* The main thread runs, the bus daemon notices that a client is gone, and the  *)
(* clock goes on.                                                               *)
SSSpec ==
  /\ SSInit /\ [][SSNext]_ssVars
  /\ WF_ssVars(ThreadStep) /\ WF_ssVars(BusNotices) /\ WF_ssVars(Timer)
--------------------------------------------------------------------------------
(* Properties *)

ShellTypeOK ==
  /\ call \in {"none", "trying", "waiting", "stopping"}
  /\ result \in {"none", "TRUE", "FALSE"}
  /\ attempts \in 0 .. Retries
  /\ proc \in {"NotRunning", "Starting", "Running"}
  /\ child \in {"none", "alive", "crashed", "exited"}
  /\ owner \in {"nobody", "child", "ghost"}
  /\ signals \in Seq({"registered", "unregistered"})
  /\ watchDog \in -1 .. WatchDog
  /\ {claimed, regOn, unregOn, loopQuit, stopping, stopped} \subseteq BOOLEAN

(* stop() is the end of the shell: neither the signal that ends it, nor a crash *)
(* that was on its way, nor the kill() after m_stopping is reset brings the     *)
(* watchdog to start it again.                                                  *)
NoRestartAfterStop == [][stopped /\ child' = "alive" => child = "alive"]_ssVars

(* The shell outlives the session manager only when start() returned false      *)
(* while it was being started again.                                            *)
OrphanOnlyAfterFailure ==
  pc = "exited" /\ child = "alive" => result = "FALSE" /\ shell \in up

(* A session that has seen its shell register does not lose it unnoticed: as    *)
(* long as it neither ends nor is about to, QProcess has the shell running or   *)
(* starting, or the bus still has to say that the name is gone.                 *)
ShellLossNoticed ==
  result = "TRUE" /\ ~regOn /\ ~quitNow /\ pc = "loop" /\ proc = "NotRunning" =>
    owner # "nobody" \/ "unregistered" \in ToSet(signals)

(* The first time the shell's name disappears the session ends, even if the     *)
(* watchdog has a new shell running by then.                                    *)
LossEndsSession ==
  ("unregistered" \in ToSet(signals) /\ unregOn) ~> pc = "exited"

(* start() returns, whatever the shell does or does not. *)
StartReturns == call \in {"trying", "waiting"} ~> call = "none"

(* A shell that registers, even while start() still waits for its process to    *)
(* start, is not overlooked: start() does not wait for the timer unless the     *)
(* signal that ends the wait is on its way.                                     *)
NoLostWakeup ==
  call = "waiting" /\ owner = "child" /\ ~loopQuit =>
    regOn /\ "registered" \in ToSet(signals)

(* plugin.cpp:146: "Can't continue without the display server".                 *)
NoSessionWithoutShell ==
  (result = "TRUE" /\ proc = "NotRunning") ~> (quitNow \/ proc # "NotRunning")
=================================================================================
