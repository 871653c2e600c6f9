--------------------------------- MODULE Shell ---------------------------------
(* ShellPlugin (src/src/plugins/session/shell/plugin.cpp): the session module   *)
(* that runs liri-shell, waits for io.liri.Shell on the session bus, restarts a *)
(* shell that crashes and asks for a shutdown when the bus name disappears.     *)
(*                                                                              *)
(* The plugin sees its child through QProcess and through the bus, and the two  *)
(* do not agree at every moment: a child that died may still be Running for     *)
(* QProcess and still own the name, and a signal of the bus waits in a queue    *)
(* until an event loop of the main thread delivers it.  Session calls start()   *)
(* and stop(); SessionShell binds these steps to the session's.                 *)
EXTENDS Integers, Sequences

CONSTANTS
  Retries,   \* attempts start() makes
  WatchDog   \* restarts after a crash

VARIABLES
  loop,       \* the session's event loop that runs: "none", "nested" or "main"
  quitNow,    \* QCoreApplication::exit() has been called
  call,       \* the plugin's call on the stack: "none", "trying" to start,
              \* "waiting" in m_loop, "stopping"
  result,     \* what start() returned, "none" before
  attempts,   \* attempts start() has left
  proc,       \* m_serverProcess->state()
  child,      \* the process itself
  owner,      \* io.liri.Shell: nobody, the child, a child that died unnoticed
  claimed,    \* the child has asked for the name
  signals,    \* NameOwnerChanged signals that wait for an event loop
  regOn,      \* serviceRegistered is connected
  unregOn,    \* serviceUnregistered is connected
  loopQuit,   \* m_loop->quit() was called
  stopping,   \* m_stopping
  watchDog,   \* m_watchDogCounter
  stopped     \* history: stop() has been called

bus == <<owner, claimed, signals>>
watches == <<regOn, unregOn>>
process == <<proc, child>>
shellVars == <<call, result, attempts, process, bus, watches, loopQuit, stopping,
               watchDog, stopped>>

Init ==
  /\ call = "none" /\ result = "none" /\ attempts = Retries
  /\ proc = "NotRunning" /\ child = "none"
  /\ owner = "nobody" /\ claimed = FALSE /\ signals = <<>>
  /\ regOn = TRUE /\ unregOn = TRUE
  /\ loopQuit = FALSE /\ stopping = FALSE
  /\ watchDog = WatchDog /\ stopped = FALSE

Dead == child \in {"crashed", "exited"}

--------------------------------------------------------------------------------
(* start() *)

CallStart ==
  /\ call = "none" /\ result = "none"
  /\ call' = "trying"
  /\ UNCHANGED <<result, attempts, process, bus, watches, loopQuit, stopping,
                 watchDog, stopped>>

Return(value) == call' = "none" /\ result' = value

(* The executable is missing, or no attempt is left. *)
StartGivesUp ==
  /\ call = "trying"
  /\ \/ attempts = Retries /\ proc = "NotRunning"
     \/ attempts = 0
  /\ Return("FALSE")
  /\ UNCHANGED <<attempts, process, bus, watches, loopQuit, stopping, watchDog,
                 stopped>>

FailsToExec ==
  /\ proc = "NotRunning" \/ (child = "alive" /\ ~claimed)
  /\ proc' = "NotRunning" /\ child' = "none"

Launch == child' = "alive" /\ claimed' = FALSE
LaunchUnlessLaunched ==
  IF proc = "NotRunning" THEN Launch ELSE UNCHANGED <<child, claimed>>

(* Mutant: the attempt is not counted. *)
Unspent == UNCHANGED attempts
Spend == attempts' = attempts - 1

(* QProcess::start() does nothing unless the state is NotRunning; then          *)
(* waitForStarted() fails, or runs out of time and leaves the state at Starting.*)
AttemptFails ==
  /\ call = "trying" /\ attempts > 0
  /\ Spend
  /\ \/ FailsToExec /\ UNCHANGED claimed
     \/ proc' = "Starting" /\ LaunchUnlessLaunched
  /\ UNCHANGED <<call, result, owner, signals, watches, loopQuit, stopping,
                 watchDog, stopped>>

(* The child runs: arm the 30 s timer and enter m_loop, whose exec() forgets    *)
(* every earlier quit().                                                        *)
AttemptSucceeds ==
  /\ call = "trying" /\ attempts > 0
  /\ Spend
  /\ proc' = "Running"
  /\ LaunchUnlessLaunched
  /\ call' = "waiting" /\ loopQuit' = FALSE
  /\ UNCHANGED <<result, owner, signals, watches, stopping, watchDog, stopped>>

WaitReturns ==
  /\ call = "waiting" /\ loop = "nested" /\ (loopQuit \/ quitNow)
  /\ Return(IF proc = "Running" THEN "TRUE" ELSE "FALSE")
  /\ UNCHANGED <<attempts, process, bus, watches, loopQuit, stopping, watchDog,
                 stopped>>

--------------------------------------------------------------------------------
(* Slots, called by whichever event loop runs *)

(* Mutant: the timer is not armed. *)
NoTimer == FALSE

TimerExpires ==
  /\ call = "waiting" /\ loop = "nested" /\ ~loopQuit
  /\ loopQuit' = TRUE
  /\ UNCHANGED <<call, result, attempts, process, bus, watches, stopping,
                 watchDog, stopped>>

Delivers(signal) ==
  /\ loop # "none" /\ signals # <<>> /\ Head(signals) = signal
  /\ signals' = Tail(signals)

(* Mutant: one disconnect for both signals. *)
ForgetsBoth == regOn' = FALSE /\ unregOn' = FALSE
ForgetsRegistered == regOn' = FALSE /\ UNCHANGED unregOn

(* Mutant: the loop is not told to quit. *)
SleepsOn == UNCHANGED loopQuit
Wakes == loopQuit' = TRUE

handleServiceRegistered ==
  /\ Delivers("registered")
  /\ IF regOn THEN ForgetsRegistered /\ Wakes
              ELSE UNCHANGED <<watches, loopQuit>>
  /\ UNCHANGED <<call, result, attempts, process, owner, claimed, stopping,
                 watchDog, stopped>>

(* Emits shutdownRequested() the first time, nothing after that. *)
handleServiceUnregistered ==
  /\ Delivers("unregistered") /\ unregOn
  /\ unregOn' = FALSE
  /\ UNCHANGED <<call, result, attempts, process, owner, claimed, regOn,
                 loopQuit, stopping, watchDog, stopped>>

IgnoreUnregistered ==
  /\ Delivers("unregistered") /\ ~unregOn
  /\ UNCHANGED <<call, result, attempts, process, owner, claimed, watches,
                 loopQuit, stopping, watchDog, stopped>>

(* What QProcess itself notices is noticed by polling, and a loop that was told *)
(* to quit polls no more.                                                       *)
Polls == loop # "none" /\ (quitNow => call = "waiting")

(* A shell the watchdog restarted, or one that was slow, has started or not. *)
ProcessStarts ==
  /\ Polls /\ proc = "Starting"
  /\ \/ proc' = "Running" /\ UNCHANGED <<child, loopQuit>>
     \/ FailsToExec /\ loopQuit' = TRUE
  /\ UNCHANGED <<call, result, attempts, bus, watches, stopping, watchDog, stopped>>

(* Mutants: m_stopping is not looked at; the restarts are not counted. *)
RestartAlways == watchDog > 0
RestartUncounted == ~stopping
Restarts == ~stopping /\ watchDog > 0

(* processCrashed(Crashed) and processFinished(): the state is NotRunning when  *)
(* the slots run.  m_watchDogCounter is only touched when not stopping.         *)
ChildIsGone ==
  /\ Dead
  /\ loopQuit' = (loopQuit \/ child = "crashed")
  /\ watchDog' = IF child = "crashed" /\ ~stopping THEN watchDog - 1 ELSE watchDog
  /\ IF child = "crashed" /\ Restarts
       THEN proc' = "Starting" /\ Launch
       ELSE proc' = "NotRunning" /\ child' = "none" /\ UNCHANGED claimed
  /\ UNCHANGED <<result, attempts, owner, signals, watches>>

processFinished ==
  /\ Polls /\ proc = "Running" /\ ChildIsGone
  /\ UNCHANGED <<call, stopping, stopped>>

--------------------------------------------------------------------------------
(* stop() *)

CallStop ==
  /\ call = "none"
  /\ call' = "stopping" /\ stopping' = TRUE /\ stopped' = TRUE
  /\ UNCHANGED <<result, attempts, process, bus, watches, loopQuit, watchDog>>

(* waitForFinished() waits for the child to start, if need be, and to end; *)
StopFinishes ==
  /\ call = "stopping" /\ proc # "NotRunning" /\ ChildIsGone
  /\ call' = "none" /\ stopping' = FALSE
  /\ UNCHANGED stopped

(* or returns false, after 30 s or because nothing runs; then kill(). *)
StopFailsToStart ==
  /\ call = "stopping" /\ proc = "Starting"
  /\ FailsToExec /\ loopQuit' = TRUE
  /\ call' = "none" /\ stopping' = FALSE
  /\ UNCHANGED <<result, attempts, bus, watches, watchDog, stopped>>

StopKills ==
  /\ call = "stopping" /\ ~(proc # "NotRunning" /\ Dead)
  /\ child' = IF child = "alive" THEN "crashed" ELSE child
  /\ owner' = IF child = "alive" /\ owner = "child" THEN "ghost" ELSE owner
  /\ call' = "none" /\ stopping' = FALSE
  /\ UNCHANGED <<result, attempts, proc, claimed, signals, watches, loopQuit,
                 watchDog, stopped>>

--------------------------------------------------------------------------------
(* The shell process and the bus daemon *)

ChildRegisters ==
  /\ child = "alive" /\ ~claimed /\ owner = "nobody"
  /\ owner' = "child" /\ claimed' = TRUE
  /\ signals' = Append(signals, "registered")
  /\ UNCHANGED <<call, result, attempts, process, watches, loopQuit, stopping,
                 watchDog, stopped>>

ChildDies ==
  /\ child = "alive"
  /\ child' \in {"crashed", "exited"}
  /\ owner' = IF owner = "child" THEN "ghost" ELSE owner
  /\ UNCHANGED <<call, result, attempts, proc, claimed, signals, watches,
                 loopQuit, stopping, watchDog, stopped>>

(* The daemon notices that the owner is gone, or the shell gives the name up. *)
NameIsReleased ==
  /\ owner # "nobody"
  /\ owner' = "nobody"
  /\ signals' = Append(signals, "unregistered")
  /\ UNCHANGED <<call, result, attempts, process, claimed, watches, loopQuit,
                 stopping, watchDog, stopped>>

(* Mutant: the process is let go of. *)
Detach ==
  UNCHANGED <<call, result, attempts, process, bus, watches, loopQuit, stopping,
              watchDog, stopped>>

(* ~QProcess, when the session deletes the plugin. *)
Destroy ==
  /\ proc' = "NotRunning" /\ child' = "none"
  /\ UNCHANGED <<call, result, attempts, bus, watches, loopQuit, stopping,
                 watchDog, stopped>>
================================================================================
