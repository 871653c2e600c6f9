--------------------------- MODULE SessionShell_proof --------------------------
(* Module SessionShell: the session manager with the real shell implements the  *)
(* session manager with an abstract one, step by step; so its invariants hold   *)
(* here too, and from them follow those of the shell, for every set of modules  *)
(* and every number of retries and restarts.                                    *)
EXTENDS SessionShell, Session_proof

--------------------------------------------------------------------------------
(* Implementation of Session *)

(* What happens when start() of the shell returns is a start that succeeds or   *)
(* fails, and its request is one of a module's.                                 *)
LEMMA StepIsSessions == ASSUME [SSNext]_ssVars PROVE [Next]_vars
  <1>1. shell \in Modules BY SessionShellAssumption
  <1>2. SessionAlone => Next
    BY DEF SessionAlone, StartOther, StopOther, Next, Boot, Start, Shutdown
  <1>3. ShellReturns => Next BY DEF ShellReturns, Next, Start
  <1>4. ShellIsLost => Next BY <1>1 DEF ShellIsLost, Next, Shutdown
  <1>5. ShellStopped \/ ExitBoth \/ ShellWaits \/ RequestArrives => Next
    BY DEF ShellStopped, ExitBoth, ShellWaits, RequestArrives, Next, Start, Shutdown
  <1>6. StartShell \/ ShellFailsToStart \/ CallStop \/ Slot \/ Timer \/ World => UNCHANGED vars
    BY DEF StartShell, ShellFailsToStart, CallStop, Slot, Timer, World
  <1>7. UNCHANGED ssVars => UNCHANGED vars BY DEF ssVars
  <1> QED
    BY <1>2, <1>3, <1>4, <1>5, <1>6, <1>7
    DEF SSNext, ThreadStep, ShellGivesUp, ShellWaited

(* The session manager with the real shell is a session manager: whatever the   *)
(* shell does, Session does too.  (That it goes on whenever Session does is     *)
(* left to TLC.)                                                                *)
THEOREM ShellImplementsSession == SSSpec => Init /\ [][Next]_vars
  <1>1. SSInit => Init BY DEF SSInit
  <1> QED BY <1>1, StepIsSessions, PTL DEF SSSpec

(* Its inductive invariant holds for the composition. *)
THEOREM SessionInvariantHolds == SSSpec => []IInv
  <1>1. IInv /\ [SSNext]_ssVars => IInv' BY StepIsSessions, Inductive
  <1>2. SSInit => IInv BY InitHolds DEF SSInit
  <1> QED BY <1>1, <1>2, PTL DEF SSSpec

(* What it promises with an abstract supervisor it promises with the shell: its *)
(* phases, its dependencies, what it leaves behind, its exit code and the order *)
(* in which it stops (session.cpp:198, 276).                                    *)
THEOREM PromisesKeptWithShell ==
  SSSpec => /\ [](PhaseBarrier /\ DependenciesUp /\ LeftBehind /\ FailureReported)
            /\ StopOrder
  <1>1. IInv => PhaseBarrier /\ DependenciesUp /\ LeftBehind /\ FailureReported
    BY BarrierFollows DEF IInv, TypeOK, ExitInv, FailureReported
  <1>2. IInv /\ [SSNext]_ssVars =>
          [pc = "stopping" => \A m \in up \ up', n \in up' \cap ToSet(loaded) : Before(n, m)]_vars
    BY StepIsSessions, StopStep
  <1> QED BY <1>1, <1>2, SessionInvariantHolds, PTL DEF SSSpec, StopOrder

--------------------------------------------------------------------------------
(* Invariants *)

(* Where the calls of the two meet: what the stack of the plugin says about the *)
(* thread of the session.                                                       *)
CallInv ==
  /\ call = "none" /\ result = "none" => Plugin!Init
  /\ call \in {"trying", "waiting"} =>
       result = "none" /\ next <= Len(order) /\ Current = shell /\ shell \notin disabled
  /\ call = "trying" => pc = "starting"
  /\ call = "waiting" <=> pc = "nested" \/ (pc = "stopping" /\ resume = "nested")
  /\ call = "stopping" => ShellStops
  /\ stopping <=> call = "stopping"

(* What the session lists is what start() returned TRUE for. *)
ListInv ==
  /\ shell \in ToSet(loaded) <=> result = "TRUE"
  /\ pc = "stopping" => ToSet(stopList) \subseteq ToSet(loaded)
  /\ stopped => result = "TRUE" /\ (quitNow \/ pc = "stopping")
  /\ result = "FALSE" /\ child # "none" => shell \in up

(* QProcess and the child: one is there as long as the other; a crash that is   *)
(* not followed by a restart was the last.                                      *)
ProcessInv ==
  /\ child = "none" <=> proc = "NotRunning"
  /\ watchDog = -1 => proc = "NotRunning" /\ (result # "none" \/ call = "waiting")

(* The bus: the signals say what happened to the name since they were served. *)
SignalInv ==
  /\ call = "trying" => regOn
  /\ call = "waiting" /\ ~loopQuit => regOn
  /\ owner = "child" /\ regOn => "registered" \in ToSet(signals)
  /\ ~unregOn => quitNow \/ pc = "stopping"
  /\ unregOn /\ owner = "nobody" /\ (~regOn \/ "registered" \in ToSet(signals)) =>
       "unregistered" \in ToSet(signals)

(* The shell that outlives the session is one start() gave up on. *)
OrphanInv == pc = "exited" /\ child = "alive" => result = "FALSE"

ShellInv ==
  ShellTypeOK /\ CallInv /\ ListInv /\ ProcessInv /\ SignalInv /\ OrphanInv

--------------------------------------------------------------------------------
(* Steps of the session alone *)

(* While nothing of the shell changes, what matters of a step of the session is *)
(* where it leads the thread and what becomes of its two lists.                 *)
LEMMA AloneKeeps ==
  ASSUME ShellInv, UNCHANGED plugin,
         shell \in ToSet(loaded') <=> shell \in ToSet(loaded),
         call \in {"trying", "waiting"} => UNCHANGED <<next, order, disabled>>,
         call = "trying" => pc' = "starting",
         call = "waiting" <=> pc' = "nested" \/ (pc' = "stopping" /\ resume' = "nested"),
         call = "stopping" => ShellStops',
         pc' = "stopping" => ToSet(stopList') \subseteq ToSet(loaded'),
         quitNow \/ pc = "stopping" => quitNow' \/ pc' = "stopping",
         result = "FALSE" /\ shell \in up => shell \in up',
         pc' # "exited"
  PROVE  ShellInv'
  <1>1. ShellTypeOK' BY DEF ShellInv, ShellTypeOK, plugin
  <1>2. CallInv'
    BY DEF ShellInv, CallInv, plugin, Plugin!Init, Current
  <1>3. ListInv' BY DEF ShellInv, ListInv, plugin
  <1>4. ProcessInv' BY DEF ShellInv, ProcessInv, plugin
  <1>5. SignalInv' BY DEF ShellInv, SignalInv, plugin
  <1>6. OrphanInv' BY DEF OrphanInv
  <1> QED BY <1>1, <1>2, <1>3, <1>4, <1>5, <1>6 DEF ShellInv

(* A module that is appended to the list is on it, and no other. *)
LEMMA OtherLoaded ==
  ASSUME IInv, next <= Len(order), Current # shell, loaded' = Append(loaded, Current)
  PROVE  shell \in ToSet(loaded') <=> shell \in ToSet(loaded)
  BY CurrentIsNew, AppendSet DEF IInv, TypeOK

(* main() runs before any module is there. *)
LEMMA BootKeepsShell ==
  ASSUME IInv, ShellInv, Boot, UNCHANGED plugin
  PROVE  ShellInv'
  <1>1. pc = "boot" /\ ~quitNow /\ order = <<>> /\ next = 1
    BY DEF Boot, RequireDBusSession, InitializeFails, Initialize, IInv, LoadInv
  <1>2. call = "none"
    BY <1>1 DEF ShellInv, CallInv, ShellTypeOK, ShellStops
  <1>3. pc' \in {"loop", "starting"} /\ UNCHANGED <<loaded, stopList, resume, up>>
    BY DEF Boot, RequireDBusSession, InitializeFails, Initialize
  <1> QED BY <1>1, <1>2, <1>3, AloneKeeps

LEMMA StartKeepsShell ==
  ASSUME IInv, ShellInv, SkipDisabled \/ StartOther \/ AllStarted, UNCHANGED plugin
  PROVE  ShellInv'
  <1>1. CASE SkipDisabled
    <2>1. call = "none"
      BY <1>1 DEF SkipDisabled, ShellInv, CallInv, ShellTypeOK, ShellStops
    <2> QED BY <1>1, <2>1, AloneKeeps DEF SkipDisabled
  <1>2. CASE StartOther
    <2>1. pc = "starting" /\ call = "none" /\ next <= Len(order) /\ Current # shell
      BY <1>2 DEF StartOther, StartSucceeds, StartFails, AtReturn, ShellInv, CallInv,
                  ShellTypeOK, ShellStops
    <2>2. CASE StartSucceeds
      <3>1. shell \in ToSet(loaded') <=> shell \in ToSet(loaded)
        BY <2>1, <2>2, OtherLoaded DEF StartSucceeds
      <3> QED BY <2>1, <2>2, <3>1, AloneKeeps DEF StartSucceeds
    <2>3. CASE StartFails
      <3>1. /\ ToSet(loaded') = ToSet(loaded) /\ stopList' = loaded'
            /\ resume' = "fail" /\ pc' = "stopping"
        BY <2>3, BeginsShutdown DEF StartFails, IInv
      <3> QED BY <2>1, <2>3, <3>1, AloneKeeps DEF StartFails
    <2> QED BY <1>2, <2>2, <2>3 DEF StartOther
  <1>3. CASE AllStarted
    <2>1. next > Len(order) /\ pc = "starting" BY <1>3 DEF AllStarted
    <2>2. ~ (next <= Len(order)) BY <2>1 DEF IInv, TypeOK
    <2>3. call = "none"
      BY <2>1, <2>2 DEF ShellInv, CallInv, ShellTypeOK, ShellStops
    <2> QED BY <1>3, <2>1, <2>3, AloneKeeps DEF AllStarted
  <1> QED BY <1>1, <1>2, <1>3

LEMMA ShutdownKeepsShell ==
  ASSUME IInv, ShellInv, ServeRequest \/ StopOther \/ EndShutdown, UNCHANGED plugin
  PROVE  ShellInv'
  <1>1. CASE ServeRequest
    <2>1. /\ pc \in {"loop", "nested"}
          /\ ToSet(loaded') = ToSet(loaded) /\ stopList' = loaded'
          /\ resume' = pc /\ pc' = "stopping"
      BY <1>1, BeginsShutdown DEF ServeRequest, ServeShutdown, IInv
    <2>2. UNCHANGED <<next, order, disabled, up, quitNow>>
      BY <1>1 DEF ServeRequest, ServeShutdown, config
    <2>3. call \notin {"trying", "stopping"} /\ (call = "waiting" <=> pc = "nested")
      BY <2>1 DEF ShellInv, CallInv, ShellStops
    <2> QED BY <2>1, <2>2, <2>3, AloneKeeps
  <1>2. CASE StopOther
    <2>1. /\ pc = "stopping" /\ stopList # <<>> /\ Head(stopList) # shell
          /\ up' = up \ {Head(stopList)} /\ stopList' = Tail(stopList)
          /\ UNCHANGED <<next, order, disabled, loaded, resume, pc, quitNow>>
      BY <1>2 DEF StopOther, StopModule, ShellStops, config
    <2>2. call \notin {"trying", "stopping"}
      BY <2>1 DEF ShellInv, CallInv, ShellStops
    <2>3. ToSet(stopList') \subseteq ToSet(loaded)
      BY <2>1, TailSet DEF IInv, TypeOK, ShellInv, ListInv
    <2>4. call = "waiting" <=> resume = "nested" BY <2>1 DEF ShellInv, CallInv
    <2> QED BY <2>1, <2>2, <2>3, <2>4, AloneKeeps
  <1>3. CASE EndShutdown
    <2>1. /\ pc = "stopping" /\ stopList = <<>> /\ quitNow' = TRUE
          /\ pc' = (IF resume = "fail" THEN "loop" ELSE resume)
          /\ UNCHANGED <<next, order, disabled, loaded, up>>
      BY <1>3 DEF EndShutdown, ReturnTo, ExitWith, config
    <2>2. call \notin {"trying", "stopping"} /\ (call = "waiting" <=> resume = "nested")
      BY <2>1 DEF ShellInv, CallInv, ShellStops
    <2>3. pc' \in {"loop", "nested"} /\ (pc' = "nested" <=> resume = "nested")
      BY <2>1 DEF IInv, TypeOK
    <2> QED BY <2>1, <2>2, <2>3, AloneKeeps
  <1> QED BY <1>1, <1>2, <1>3

LEMMA RequestKeepsShell == ASSUME IInv, ShellInv, RequestArrives PROVE ShellInv'
  <1>1. /\ pc # "exited" /\ UNCHANGED plugin
        /\ UNCHANGED <<next, order, disabled, pc, loaded, up, stopList, resume, quitNow>>
    BY DEF RequestArrives, Request, config
  <1> QED BY <1>1, AloneKeeps DEF ShellInv, CallInv, ListInv, ShellStops

--------------------------------------------------------------------------------
(* Steps of the shell *)

(* What a step of the shell alone leaves as it is. *)
LEMMA SessionLeft ==
  ASSUME UNCHANGED vars
  PROVE  UNCHANGED <<next, order, disabled, pc, loaded, up, stopList, resume, quitNow>>
  BY DEF vars, config

(* Only the loops of app.exec() and of start() deliver. *)
LEMMA LoopOfThread ==
  /\ Loop # "none" <=> pc \in {"nested", "loop"}
  /\ Loop = "nested" <=> pc = "nested"
  BY DEF Loop

(* Before its start() the shell is as the constructor left it. *)
LEMMA StartShellKeeps ==
  ASSUME ShellInv, StartShell
  PROVE  ShellInv'
  <1>1. call = "none" /\ result = "none" /\ call' = "trying"
    BY DEF StartShell, Plugin!CallStart
  <1>2. Plugin!Init BY <1>1 DEF ShellInv, CallInv
  <1>3. /\ UNCHANGED <<result, attempts, proc, child, owner, claimed, signals, regOn,
                      unregOn, loopQuit, stopping, watchDog, stopped>>
        /\ UNCHANGED <<next, order, disabled, pc, loaded, up, stopList, resume, quitNow>>
    BY SessionLeft
    DEF StartShell, Plugin!CallStart, Plugin!process, Plugin!bus, Plugin!watches
  <1>4. pc = "starting" /\ next <= Len(order) /\ Current = shell /\ shell \notin disabled
    BY DEF StartShell, ShellIsNext
  <1>5. ShellTypeOK' BY <1>1, <1>3 DEF ShellInv, ShellTypeOK
  <1>6. CallInv'
    BY <1>1, <1>2, <1>3, <1>4 DEF ShellInv, CallInv, Current, ShellStops, Plugin!Init
  <1>7. ListInv' BY <1>3 DEF ShellInv, ListInv
  <1>8. ProcessInv'
    BY <1>2, <1>3, SessionShellAssumption DEF ShellInv, ProcessInv, Plugin!Init
  <1>9. SignalInv' BY <1>1, <1>2, <1>3 DEF ShellInv, SignalInv, Plugin!Init
  <1>10. OrphanInv' BY <1>3 DEF ShellInv, OrphanInv
  <1> QED BY <1>5, <1>6, <1>7, <1>8, <1>9, <1>10 DEF ShellInv

(* An attempt to start the child, the last of which enters the nested loop. *)
LEMMA AttemptKeeps ==
  ASSUME ShellInv, ShellFailsToStart \/ ShellWaits
  PROVE  ShellInv'
  <1>1. /\ call = "trying" /\ attempts > 0 /\ attempts' = attempts - 1
        /\ UNCHANGED <<result, owner, signals, regOn, unregOn, stopping, watchDog, stopped>>
        /\ UNCHANGED <<next, order, disabled, loaded, up, stopList, resume, quitNow>>
    BY SessionLeft
    DEF ShellFailsToStart, ShellWaits, Plugin!AttemptFails, Plugin!AttemptSucceeds,
        Plugin!Spend, Plugin!watches, EnterNestedLoop, config
  <1>2. /\ pc = "starting" /\ result = "none" /\ next <= Len(order)
        /\ Current = shell /\ shell \notin disabled
        /\ stopping = FALSE /\ ~stopped /\ regOn
    BY <1>1 DEF ShellInv, CallInv, ListInv, SignalInv, ShellTypeOK
  <1>3. \/ call' = "trying" /\ pc' = pc /\ loopQuit' = loopQuit
        \/ call' = "waiting" /\ pc' = "nested" /\ loopQuit' = FALSE /\ proc' = "Running"
    BY SessionLeft
    DEF ShellFailsToStart, ShellWaits, Plugin!AttemptFails, Plugin!AttemptSucceeds,
        EnterNestedLoop
  <1>4. /\ proc' \in {"NotRunning", "Starting", "Running"}
        /\ child' \in {"none", "alive", "crashed", "exited"} /\ claimed' \in BOOLEAN
        /\ child' = "none" <=> proc' = "NotRunning"
    BY DEF ShellFailsToStart, ShellWaits, Plugin!AttemptFails, Plugin!AttemptSucceeds,
           Plugin!FailsToExec, Plugin!LaunchUnlessLaunched, Plugin!Launch, ShellInv,
           ShellTypeOK, ProcessInv
  <1>5. ShellTypeOK'
    <2>1. attempts' \in 0 .. Retries
      BY <1>1, SessionShellAssumption DEF ShellInv, ShellTypeOK
    <2>2. loopQuit' \in BOOLEAN BY <1>3 DEF ShellInv, ShellTypeOK
    <2>3. call' \in {"none", "trying", "waiting", "stopping"} BY <1>3
    <2> QED BY <1>1, <1>4, <2>1, <2>2, <2>3 DEF ShellInv, ShellTypeOK
  <1>6. CallInv' BY <1>1, <1>2, <1>3 DEF ShellInv, CallInv, Current
  <1>7. ListInv' BY <1>1, <1>2, <1>3 DEF ShellInv, ListInv
  <1>8. ProcessInv'
    BY <1>1, <1>2, <1>4 DEF ShellInv, ProcessInv
  <1>9. SignalInv' BY <1>1, <1>2, <1>3 DEF ShellInv, SignalInv
  <1>10. OrphanInv' BY <1>2, <1>3 DEF OrphanInv
  <1> QED BY <1>5, <1>6, <1>7, <1>8, <1>9, <1>10 DEF ShellInv

(* What start() returns decides whether the session has the shell on its list;  *)
(* a child that is left behind counts as up.                                    *)
LEMMA ReturnKeeps ==
  ASSUME IInv, ShellInv, ShellGivesUp \/ ShellWaited
  PROVE  ShellInv'
  <1>1. /\ call \in {"trying", "waiting"} /\ call' = "none"
        /\ UNCHANGED <<attempts, proc, child, owner, claimed, signals, regOn, unregOn,
                       loopQuit, stopping, watchDog, stopped>>
        /\ ShellReturns
    BY DEF ShellGivesUp, ShellWaited, Plugin!StartGivesUp, Plugin!WaitReturns,
           Plugin!Return, Plugin!process, Plugin!bus, Plugin!watches
  <1>2. /\ result = "none" /\ next <= Len(order) /\ Current = shell
        /\ stopping = FALSE /\ ~stopped /\ shell \notin ToSet(loaded)
        /\ pc \in {"starting", "nested"}
    <2>1. result = "none" /\ next <= Len(order) /\ Current = shell
      BY <1>1 DEF ShellInv, CallInv
    <2>2. pc \in {"starting", "nested"}
      BY <1>1, LoopOfThread
      DEF ShellGivesUp, ShellWaited, ShellIsNext, Plugin!WaitReturns
    <2> QED BY <1>1, <2>1, <2>2 DEF ShellInv, CallInv, ListInv, ShellTypeOK
  <1>3. shell \notin up BY <1>2 DEF IInv, UpInv, ExitInv
  <1>4. watchDog = -1 => proc = "NotRunning" BY DEF ShellInv, ProcessInv
  <1>5. CASE result' = "TRUE" /\ StartSucceeds
    <2>1. /\ ToSet(loaded') = ToSet(loaded) \cup {shell} /\ pc' = "starting"
      BY <1>2, <1>5, CurrentIsNew, AppendSet DEF StartSucceeds, IInv, TypeOK
    <2>2. UNCHANGED <<quitNow, stopList, resume>> BY <1>5 DEF StartSucceeds
    <2>3. ShellTypeOK' BY <1>1, <1>5 DEF ShellInv, ShellTypeOK
    <2>4. CallInv' BY <1>1, <1>2, <1>5, <2>1 DEF CallInv
    <2>5. ListInv' BY <1>1, <1>2, <1>5, <2>1 DEF ListInv
    <2>6. ProcessInv' BY <1>1, <1>4, <1>5 DEF ShellInv, ProcessInv
    <2>7. SignalInv' BY <1>1, <1>2, <2>1, <2>2 DEF ShellInv, SignalInv
    <2>8. OrphanInv' BY <2>1 DEF OrphanInv
    <2> QED BY <2>3, <2>4, <2>5, <2>6, <2>7, <2>8 DEF ShellInv
  <1>6. CASE result' = "FALSE" /\ StartFails
    <2>1. /\ ToSet(loaded') = ToSet(loaded) /\ stopList' = loaded'
          /\ pc' = "stopping" /\ resume' = "fail" /\ quitNow' = quitNow
      BY <1>6, BeginsShutdown DEF StartFails, IInv
    <2>2. child' # "none" => shell \in up' BY <1>1 DEF ShellReturns
    <2>3. ShellTypeOK' BY <1>1, <1>6 DEF ShellInv, ShellTypeOK
    <2>4. CallInv' BY <1>1, <1>2, <1>6, <2>1 DEF CallInv
    <2>5. ListInv' BY <1>1, <1>2, <1>6, <2>1, <2>2 DEF ListInv
    <2>6. ProcessInv' BY <1>1, <1>4, <1>6 DEF ShellInv, ProcessInv
    <2>7. SignalInv' BY <1>1, <1>2, <2>1 DEF ShellInv, SignalInv
    <2>8. OrphanInv' BY <2>1 DEF OrphanInv
    <2> QED BY <2>3, <2>4, <2>5, <2>6, <2>7, <2>8 DEF ShellInv
  <1> QED BY <1>1, <1>5, <1>6 DEF ShellReturns

(* A signal that is sent is the last of the queue, one that is served was the   *)
(* first.                                                                       *)
LEMMA SignalSent ==
  ASSUME ShellInv, NEW s \in {"registered", "unregistered"}, signals' = Append(signals, s)
  PROVE  /\ signals' \in Seq({"registered", "unregistered"})
         /\ ToSet(signals') = ToSet(signals) \cup {s}
  BY AppendSet DEF ShellInv, ShellTypeOK

LEMMA SignalServed ==
  ASSUME ShellInv, NEW s, Plugin!Delivers(s)
  PROVE  /\ signals' \in Seq({"registered", "unregistered"})
         /\ ToSet(signals) = {s} \cup ToSet(signals')
         /\ pc \in {"nested", "loop"}
  BY TailSet, LoopOfThread DEF Plugin!Delivers, ShellInv, ShellTypeOK

(* handleServiceRegistered() ends the wait and is the only one to forget the    *)
(* signal it waits for.                                                         *)
LEMMA RegisteredKeeps ==
  ASSUME ShellInv, Plugin!handleServiceRegistered, UNCHANGED vars
  PROVE  ShellInv'
  <1>1. /\ UNCHANGED <<call, result, attempts, proc, child, owner, claimed, unregOn, stopping,
                       watchDog, stopped>>
        /\ UNCHANGED <<next, order, disabled, pc, loaded, up, stopList, resume, quitNow>>
    BY SessionLeft
    DEF Plugin!handleServiceRegistered, Plugin!process, Plugin!watches,
        Plugin!ForgetsRegistered
  <1>2. IF regOn THEN regOn' = FALSE /\ loopQuit' = TRUE
                 ELSE UNCHANGED <<regOn, loopQuit>>
    BY DEF Plugin!handleServiceRegistered, Plugin!ForgetsRegistered, Plugin!Wakes,
           Plugin!watches
  <1>3. /\ signals' \in Seq({"registered", "unregistered"})
        /\ ToSet(signals) = {"registered"} \cup ToSet(signals')
        /\ pc \in {"nested", "loop"}
    BY SignalServed DEF Plugin!handleServiceRegistered
  <1>4. call # "trying" /\ ~ (call = "none" /\ result = "none")
    <2>1. Plugin!Init => signals = <<>> BY DEF Plugin!Init
    <2>2. signals # <<>> BY DEF Plugin!handleServiceRegistered, Plugin!Delivers
    <2> QED BY <1>3, <2>1, <2>2 DEF ShellInv, CallInv
  <1>5. ShellTypeOK'
    <2>1. regOn' \in BOOLEAN /\ loopQuit' \in BOOLEAN
      BY <1>2 DEF ShellInv, ShellTypeOK
    <2> QED BY <1>1, <1>3, <2>1 DEF ShellInv, ShellTypeOK
  <1>6. CallInv' BY <1>1, <1>4 DEF ShellInv, CallInv, Current, ShellStops
  <1>7. ListInv' BY <1>1 DEF ShellInv, ListInv
  <1>8. ProcessInv' BY <1>1 DEF ShellInv, ProcessInv
  <1>9. SignalInv' BY <1>1, <1>2, <1>3, <1>4 DEF ShellInv, SignalInv
  <1>10. OrphanInv' BY <1>1 DEF ShellInv, OrphanInv
  <1> QED BY <1>5, <1>6, <1>7, <1>8, <1>9, <1>10 DEF ShellInv

(* Once the name is lost and nobody asks, signals about it are passed over. *)
LEMMA IgnoreKeeps ==
  ASSUME ShellInv, Plugin!IgnoreUnregistered, UNCHANGED vars
  PROVE  ShellInv'
  <1>1. /\ UNCHANGED <<call, result, attempts, proc, child, owner, claimed, regOn, unregOn,
                       loopQuit, stopping, watchDog, stopped>>
        /\ UNCHANGED <<next, order, disabled, pc, loaded, up, stopList, resume, quitNow>>
        /\ ~unregOn
    BY SessionLeft
    DEF Plugin!IgnoreUnregistered, Plugin!process, Plugin!watches
  <1>2. /\ signals' \in Seq({"registered", "unregistered"})
        /\ ToSet(signals) = {"unregistered"} \cup ToSet(signals')
    BY SignalServed DEF Plugin!IgnoreUnregistered
  <1>3. ~ (call = "none" /\ result = "none")
    <2>1. Plugin!Init => signals = <<>> BY DEF Plugin!Init
    <2>2. signals # <<>> BY DEF Plugin!IgnoreUnregistered, Plugin!Delivers
    <2> QED BY <2>1, <2>2 DEF ShellInv, CallInv
  <1>4. ShellTypeOK' BY <1>1, <1>2 DEF ShellInv, ShellTypeOK
  <1>5. CallInv' BY <1>1, <1>3 DEF ShellInv, CallInv, Current, ShellStops
  <1>6. ListInv' BY <1>1 DEF ShellInv, ListInv
  <1>7. ProcessInv' BY <1>1 DEF ShellInv, ProcessInv
  <1>8. SignalInv' BY <1>1, <1>2 DEF ShellInv, SignalInv
  <1>9. OrphanInv' BY <1>1 DEF ShellInv, OrphanInv
  <1> QED BY <1>4, <1>5, <1>6, <1>7, <1>8, <1>9 DEF ShellInv

(* handleServiceUnregistered() asks for the shutdown that ends the session. *)
LEMMA LossKeeps == ASSUME IInv, ShellInv, ShellIsLost PROVE ShellInv'
  <1>1. /\ UNCHANGED <<call, result, attempts, proc, child, owner, claimed, regOn,
                       loopQuit, stopping, watchDog, stopped>>
        /\ unregOn' = FALSE
    BY DEF ShellIsLost, Plugin!handleServiceUnregistered, Plugin!process
  <1>2. /\ signals' \in Seq({"registered", "unregistered"})
        /\ ToSet(signals) = {"unregistered"} \cup ToSet(signals')
    BY SignalServed DEF ShellIsLost, Plugin!handleServiceUnregistered
  <1>3. /\ pc \in {"loop", "nested"} /\ pc' = "stopping" /\ resume' = pc
        /\ ToSet(loaded') = ToSet(loaded) /\ stopList' = loaded'
        /\ UNCHANGED <<next, order, disabled, up, quitNow>>
    BY BeginsShutdown DEF ShellIsLost, ModuleShutdown, ServeShutdown, IInv, config
  <1>4. ~ (call = "none" /\ result = "none")
    <2>1. Plugin!Init => signals = <<>> BY DEF Plugin!Init
    <2>2. signals # <<>> BY DEF ShellIsLost, Plugin!handleServiceUnregistered, Plugin!Delivers
    <2> QED BY <2>1, <2>2 DEF ShellInv, CallInv
  <1>5. call \notin {"trying", "stopping"}
    BY <1>3 DEF ShellInv, CallInv, ShellStops
  <1>6. ShellTypeOK' BY <1>1, <1>2 DEF ShellInv, ShellTypeOK
  <1>7. CallInv' BY <1>1, <1>3, <1>4, <1>5 DEF ShellInv, CallInv, Current
  <1>8. ListInv' BY <1>1, <1>3 DEF ShellInv, ListInv
  <1>9. ProcessInv' BY <1>1 DEF ShellInv, ProcessInv
  <1>10. SignalInv' BY <1>1, <1>2, <1>3 DEF ShellInv, SignalInv
  <1>11. OrphanInv' BY <1>3 DEF OrphanInv
  <1> QED BY <1>6, <1>7, <1>8, <1>9, <1>10, <1>11 DEF ShellInv

(* The process starts, or has failed to. *)
LEMMA ProcessStartsKeeps ==
  ASSUME ShellInv, Plugin!ProcessStarts, UNCHANGED vars
  PROVE  ShellInv'
  <1>1. /\ UNCHANGED <<call, result, attempts, owner, claimed, signals, regOn, unregOn,
                       stopping, watchDog, stopped>>
        /\ UNCHANGED <<next, order, disabled, pc, loaded, up, stopList, resume, quitNow>>
    BY SessionLeft DEF Plugin!ProcessStarts, Plugin!bus, Plugin!watches
  <1>2. /\ proc = "Starting" /\ pc \in {"nested", "loop"}
        /\ \/ proc' = "Running" /\ child' = child /\ loopQuit' = loopQuit
           \/ proc' = "NotRunning" /\ child' = "none" /\ loopQuit' = TRUE
    BY LoopOfThread DEF Plugin!ProcessStarts, Plugin!Polls, Plugin!FailsToExec
  <1>3. ~ (call = "none" /\ result = "none")
    <2>1. Plugin!Init => proc = "NotRunning" BY DEF Plugin!Init
    <2> QED BY <1>2, <2>1 DEF ShellInv, CallInv
  <1>4. ShellTypeOK'
    <2>1. loopQuit' \in BOOLEAN BY <1>2 DEF ShellInv, ShellTypeOK
    <2>2. proc' \in {"NotRunning", "Starting", "Running"}
          /\ child' \in {"none", "alive", "crashed", "exited"}
      BY <1>2 DEF ShellInv, ShellTypeOK
    <2> QED BY <1>1, <2>1, <2>2 DEF ShellInv, ShellTypeOK
  <1>5. CallInv' BY <1>1, <1>3 DEF ShellInv, CallInv, Current, ShellStops
  <1>6. ListInv' BY <1>1, <1>2 DEF ShellInv, ListInv
  <1>7. ProcessInv' BY <1>1, <1>2 DEF ShellInv, ProcessInv
  <1>8. SignalInv' BY <1>1, <1>2 DEF ShellInv, SignalInv
  <1>9. OrphanInv' BY <1>1, <1>2 DEF OrphanInv
  <1> QED BY <1>4, <1>5, <1>6, <1>7, <1>8, <1>9 DEF ShellInv

(* What QProcess does when it notices that its child is gone. *)
LEMMA GoneChild ==
  ASSUME ShellInv, Plugin!ChildIsGone, proc # "NotRunning"
  PROVE  /\ UNCHANGED <<result, attempts, owner, signals, regOn, unregOn>>
         /\ child # "none" /\ loopQuit' \in BOOLEAN /\ (loopQuit => loopQuit')
         /\ watchDog' \in -1 .. WatchDog /\ claimed' \in BOOLEAN
         /\ \/ proc' = "Starting" /\ child' = "alive" /\ watchDog' # -1 /\ ~stopping
            \/ proc' = "NotRunning" /\ child' = "none"
  <1>1. /\ UNCHANGED <<result, attempts, owner, signals, regOn, unregOn>>
        /\ child # "none"
    BY DEF Plugin!ChildIsGone, Plugin!Dead, Plugin!watches
  <1>2. watchDog \in 0 .. WatchDog /\ loopQuit \in BOOLEAN
    BY SessionShellAssumption DEF ShellInv, ShellTypeOK, ProcessInv
  <1>3. watchDog' \in -1 .. WatchDog /\ (watchDog > 0 => watchDog' # -1)
    BY <1>2, SessionShellAssumption DEF Plugin!ChildIsGone
  <1>4. loopQuit' \in BOOLEAN /\ (loopQuit => loopQuit') BY <1>2 DEF Plugin!ChildIsGone
  <1>5. CASE child = "crashed" /\ Plugin!Restarts
    <2>1. proc' = "Starting" /\ child' = "alive" /\ claimed' = FALSE
      BY <1>5 DEF Plugin!ChildIsGone, Plugin!Launch
    <2> QED BY <1>1, <1>3, <1>4, <1>5, <2>1 DEF Plugin!Restarts
  <1>6. CASE ~ (child = "crashed" /\ Plugin!Restarts)
    <2>1. proc' = "NotRunning" /\ child' = "none" /\ claimed' = claimed
      BY <1>6 DEF Plugin!ChildIsGone
    <2> QED BY <1>1, <1>3, <1>4, <2>1 DEF ShellInv, ShellTypeOK
  <1> QED BY <1>5, <1>6

LEMMA FinishedKeeps ==
  ASSUME ShellInv, Plugin!processFinished, UNCHANGED vars
  PROVE  ShellInv'
  <1>1. /\ UNCHANGED <<call, stopping, stopped>>
        /\ UNCHANGED <<next, order, disabled, pc, loaded, up, stopList, resume, quitNow>>
        /\ proc = "Running" /\ pc \in {"nested", "loop"}
    BY SessionLeft, LoopOfThread DEF Plugin!processFinished, Plugin!Polls
  <1>2. /\ UNCHANGED <<result, attempts, owner, signals, regOn, unregOn>>
        /\ child # "none" /\ loopQuit' \in BOOLEAN /\ (loopQuit => loopQuit')
        /\ watchDog' \in -1 .. WatchDog /\ claimed' \in BOOLEAN
        /\ \/ proc' = "Starting" /\ child' = "alive" /\ watchDog' # -1 /\ ~stopping
           \/ proc' = "NotRunning" /\ child' = "none"
    BY <1>1, GoneChild DEF Plugin!processFinished
  <1>3. ~ (call = "none" /\ result = "none") /\ call # "trying"
    <2>1. Plugin!Init => proc = "NotRunning" BY DEF Plugin!Init
    <2> QED BY <1>1, <2>1 DEF ShellInv, CallInv
  <1>4. ShellTypeOK' BY <1>1, <1>2 DEF ShellInv, ShellTypeOK
  <1>5. CallInv' BY <1>1, <1>2, <1>3 DEF ShellInv, CallInv, Current, ShellStops
  <1>6. ListInv' BY <1>1, <1>2 DEF ShellInv, ListInv
  <1>7. ProcessInv'
    <2>1. result # "none" \/ call = "waiting"
      BY <1>1, <1>3 DEF ShellInv, CallInv, ShellTypeOK, ShellStops
    <2> QED BY <1>1, <1>2, <2>1 DEF ShellInv, ProcessInv
  <1>8. SignalInv' BY <1>1, <1>2, <1>3 DEF ShellInv, SignalInv
  <1>9. OrphanInv' BY <1>1 DEF OrphanInv
  <1> QED BY <1>4, <1>5, <1>6, <1>7, <1>8, <1>9 DEF ShellInv

(* The 30 s are over. *)
LEMMA TimerKeeps == ASSUME ShellInv, Timer PROVE ShellInv'
  <1>1. /\ UNCHANGED <<call, result, attempts, proc, child, owner, claimed, signals, regOn,
                       unregOn, stopping, watchDog, stopped>>
        /\ UNCHANGED <<next, order, disabled, pc, loaded, up, stopList, resume, quitNow>>
        /\ loopQuit' = TRUE /\ call = "waiting"
    BY SessionLeft
    DEF Timer, Plugin!TimerExpires, Plugin!process, Plugin!bus, Plugin!watches
  <1>2. ShellTypeOK' BY <1>1 DEF ShellInv, ShellTypeOK
  <1>3. CallInv' BY <1>1 DEF ShellInv, CallInv, Current
  <1>4. ListInv' BY <1>1 DEF ShellInv, ListInv
  <1>5. ProcessInv' BY <1>1 DEF ShellInv, ProcessInv
  <1>6. SignalInv' BY <1>1 DEF ShellInv, SignalInv
  <1>7. OrphanInv' BY <1>1 DEF ShellInv, OrphanInv
  <1> QED BY <1>2, <1>3, <1>4, <1>5, <1>6, <1>7 DEF ShellInv

(* The shell asks for its name, dies, or loses the name: each change of the     *)
(* owner is told.                                                               *)
LEMMA WorldKeepsShell == ASSUME ShellInv, World PROVE ShellInv'
  <1>1. /\ UNCHANGED <<call, result, attempts, proc, regOn, unregOn, loopQuit, stopping,
                       watchDog, stopped>>
        /\ UNCHANGED <<next, order, disabled, pc, loaded, up, stopList, resume, quitNow>>
    BY SessionLeft
    DEF World, Plugin!ChildRegisters, Plugin!ChildDies, Plugin!NameIsReleased,
        Plugin!process, Plugin!watches
  <1>2. \/ /\ child = "alive" /\ child' = child /\ claimed' = TRUE
           /\ owner' = "child" /\ signals' = Append(signals, "registered")
        \/ /\ child = "alive" /\ child' \in {"crashed", "exited"}
           /\ claimed' = claimed /\ signals' = signals
           /\ owner' = (IF owner = "child" THEN "ghost" ELSE owner)
        \/ /\ owner # "nobody" /\ child' = child /\ claimed' = claimed
           /\ owner' = "nobody" /\ signals' = Append(signals, "unregistered")
    BY DEF World, Plugin!ChildRegisters, Plugin!ChildDies, Plugin!NameIsReleased,
           Plugin!process
  <1>3. ~ (call = "none" /\ result = "none")
    <2>1. Plugin!Init => child = "none" /\ owner = "nobody" BY DEF Plugin!Init
    <2> QED BY <1>2, <2>1 DEF ShellInv, CallInv
  <1>4. /\ signals' \in Seq({"registered", "unregistered"})
        /\ \/ /\ signals' = signals
              /\ owner' # "child" /\ (owner' = "nobody" => owner = "nobody")
           \/ owner' = "child" /\ ToSet(signals') = ToSet(signals) \cup {"registered"}
           \/ owner' = "nobody" /\ ToSet(signals') = ToSet(signals) \cup {"unregistered"}
    BY <1>2, SignalSent DEF ShellInv, ShellTypeOK
  <1>5. ShellTypeOK'
    <2>1. claimed' \in BOOLEAN BY <1>2 DEF ShellInv, ShellTypeOK
    <2>2. child' \in {"none", "alive", "crashed", "exited"}
          /\ owner' \in {"nobody", "child", "ghost"}
      BY <1>2 DEF ShellInv, ShellTypeOK
    <2> QED BY <1>1, <1>4, <2>1, <2>2 DEF ShellInv, ShellTypeOK
  <1>6. CallInv' BY <1>1, <1>3 DEF ShellInv, CallInv, Current, ShellStops
  <1>7. ListInv' BY <1>1, <1>2 DEF ShellInv, ListInv
  <1>8. ProcessInv' BY <1>1, <1>2 DEF ShellInv, ProcessInv
  <1>9. SignalInv'
    <2>1. CASE /\ signals' = signals
               /\ owner' # "child" /\ (owner' = "nobody" => owner = "nobody")
      BY <1>1, <2>1 DEF ShellInv, SignalInv
    <2>2. CASE owner' = "child" /\ ToSet(signals') = ToSet(signals) \cup {"registered"}
      BY <1>1, <2>2 DEF ShellInv, SignalInv
    <2>3. CASE owner' = "nobody" /\ ToSet(signals') = ToSet(signals) \cup {"unregistered"}
      BY <1>1, <2>3 DEF ShellInv, SignalInv
    <2> QED BY <1>4, <2>1, <2>2, <2>3
  <1>10. OrphanInv' BY <1>1, <1>2 DEF ShellInv, OrphanInv
  <1> QED BY <1>5, <1>6, <1>7, <1>8, <1>9, <1>10 DEF ShellInv

(* stop() is called, *)
LEMMA CallStopKeeps == ASSUME ShellInv, CallStop PROVE ShellInv'
  <1>1. /\ call = "none" /\ call' = "stopping" /\ stopping' = TRUE /\ stopped' = TRUE
        /\ UNCHANGED <<result, attempts, proc, child, owner, claimed, signals, regOn, unregOn,
                       loopQuit, watchDog>>
        /\ UNCHANGED <<next, order, disabled, pc, loaded, up, stopList, resume, quitNow>>
        /\ pc = "stopping" /\ stopList # <<>> /\ Head(stopList) = shell
    BY SessionLeft
    DEF CallStop, ShellStops, Plugin!CallStop, Plugin!process, Plugin!bus, Plugin!watches
  <1>2. result = "TRUE"
    <2>1. shell \in ToSet(stopList) BY <1>1 DEF ToSet
    <2> QED BY <1>1, <2>1 DEF ShellInv, ListInv
  <1>3. ShellTypeOK' BY <1>1 DEF ShellInv, ShellTypeOK
  <1>4. CallInv' BY <1>1 DEF ShellInv, CallInv, ShellStops
  <1>5. ListInv' BY <1>1, <1>2 DEF ShellInv, ListInv
  <1>6. ProcessInv' BY <1>1, <1>2 DEF ShellInv, ProcessInv
  <1>7. SignalInv' BY <1>1 DEF ShellInv, SignalInv
  <1>8. OrphanInv' BY <1>1 DEF OrphanInv
  <1> QED BY <1>3, <1>4, <1>5, <1>6, <1>7, <1>8 DEF ShellInv

(* and returns; a child that was killed is noticed later. *)
LEMMA ShellStoppedKeeps == ASSUME IInv, ShellInv, ShellStopped PROVE ShellInv'
  <1>1. /\ call = "stopping" /\ call' = "none" /\ stopping' = FALSE /\ stopped' = stopped
        /\ UNCHANGED <<result, attempts, signals, regOn, unregOn>>
    BY DEF ShellStopped, Plugin!StopFinishes, Plugin!StopFailsToStart, Plugin!StopKills,
           Plugin!ChildIsGone, Plugin!bus, Plugin!watches
  <1>2. /\ pc = "stopping" /\ stopList # <<>> /\ Head(stopList) = shell
        /\ stopList' = Tail(stopList) /\ up' = up \ {shell}
        /\ UNCHANGED <<next, order, disabled, pc, loaded, resume, quitNow>>
    BY DEF ShellStopped, ShellStops, StopModule, config
  <1>3. stopping = TRUE /\ resume # "nested"
    BY <1>1, <1>2 DEF ShellInv, CallInv, ShellTypeOK
  <1>4. ToSet(stopList') \subseteq ToSet(loaded) /\ result = "TRUE"
    BY <1>2, TailSet DEF IInv, TypeOK, ShellInv, ListInv
  <1>5. /\ child' \in {"none", "alive", "crashed", "exited"}
        /\ proc' \in {"NotRunning", "Starting", "Running"}
        /\ child' = "none" <=> proc' = "NotRunning"
        /\ loopQuit' \in BOOLEAN /\ claimed' \in BOOLEAN /\ watchDog' \in -1 .. WatchDog
        /\ watchDog' = -1 => proc' = "NotRunning"
        /\ owner' \in {"nobody", "child", "ghost"}
        /\ owner' = "child" => owner = "child"
        /\ owner' = "nobody" => owner = "nobody"
    <2>1. CASE Plugin!StopFinishes
      BY <2>1, <1>3, GoneChild DEF Plugin!StopFinishes, ShellInv, ShellTypeOK
    <2>2. CASE Plugin!StopFailsToStart
      BY <2>2
      DEF Plugin!StopFailsToStart, Plugin!FailsToExec, Plugin!bus, ShellInv, ShellTypeOK
    <2>3. CASE Plugin!StopKills
      BY <2>3 DEF Plugin!StopKills, ShellInv, ShellTypeOK, ProcessInv
    <2> QED BY <2>1, <2>2, <2>3 DEF ShellStopped
  <1>6. ShellTypeOK' BY <1>1, <1>5 DEF ShellInv, ShellTypeOK
  <1>7. CallInv' BY <1>1, <1>2, <1>3, <1>4 DEF CallInv
  <1>8. ListInv' BY <1>1, <1>2, <1>4 DEF ShellInv, ListInv
  <1>9. ProcessInv' BY <1>1, <1>4, <1>5 DEF ProcessInv
  <1>10. SignalInv' BY <1>1, <1>2, <1>5 DEF ShellInv, SignalInv
  <1>11. OrphanInv' BY <1>2 DEF OrphanInv
  <1> QED BY <1>6, <1>7, <1>8, <1>9, <1>10, <1>11 DEF ShellInv

(* At the exit a shell that is on the list dies with its QProcess. *)
LEMMA ExitKeepsShell == ASSUME ShellInv, ExitBoth PROVE ShellInv'
  <1>1. /\ pc = "loop" /\ pc' = "exited" /\ up' = up \ (ToSet(loaded) \cap Supervisors)
        /\ UNCHANGED <<next, order, disabled, loaded, stopList, resume, quitNow>>
    BY DEF ExitBoth, Exit, Killed, config
  <1>2. call = "none" BY <1>1 DEF ShellInv, CallInv, ShellTypeOK, ShellStops
  <1>3. /\ UNCHANGED <<call, result, attempts, owner, claimed, signals, regOn, unregOn,
                       loopQuit, stopping, watchDog, stopped>>
        /\ \/ proc' = "NotRunning" /\ child' = "none" /\ shell \in ToSet(loaded)
           \/ proc' = proc /\ child' = child /\ shell \notin ToSet(loaded)
    BY DEF ExitBoth, LeaveShell, plugin, Plugin!Destroy, Plugin!bus, Plugin!watches
  <1>4. result = "TRUE" <=> shell \in ToSet(loaded) BY DEF ShellInv, ListInv
  <1>5. result = "none" => child = "none"
    BY <1>2 DEF ShellInv, CallInv, Plugin!Init
  <1>6. ShellTypeOK' BY <1>3 DEF ShellInv, ShellTypeOK
  <1>7. CallInv'
    <2>1. result = "none" => Plugin!Init' BY <1>2, <1>3, <1>4 DEF ShellInv, CallInv, Plugin!Init
    <2> QED BY <1>1, <1>2, <1>3, <2>1 DEF ShellInv, CallInv
  <1>8. ListInv' BY <1>1, <1>3, <1>4 DEF ShellInv, ListInv
  <1>9. ProcessInv' BY <1>3 DEF ShellInv, ProcessInv
  <1>10. SignalInv' BY <1>1, <1>2, <1>3 DEF ShellInv, SignalInv
  <1>11. OrphanInv'
    BY <1>3, <1>4, <1>5 DEF OrphanInv, ShellInv, ShellTypeOK
  <1> QED BY <1>6, <1>7, <1>8, <1>9, <1>10, <1>11 DEF ShellInv

--------------------------------------------------------------------------------
(* Theorems *)

LEMMA ShellInvKept == ASSUME IInv, ShellInv, [SSNext]_ssVars PROVE ShellInv'
  <1>1. CASE UNCHANGED ssVars
    <2>1. UNCHANGED plugin /\ UNCHANGED vars BY <1>1 DEF ssVars
    <2>2. UNCHANGED <<next, order, disabled, pc, loaded, up, stopList, resume, quitNow>>
      BY <2>1, SessionLeft
    <2>3. OrphanInv' /\ ListInv' BY <2>1, <2>2 DEF plugin, ShellInv, OrphanInv, ListInv
    <2>4. ShellTypeOK' /\ ProcessInv' /\ SignalInv'
      BY <2>1, <2>2 DEF plugin, ShellInv, ShellTypeOK, ProcessInv, SignalInv
    <2>5. CallInv'
      BY <2>1, <2>2 DEF plugin, ShellInv, CallInv, Current, ShellStops, Plugin!Init
    <2> QED BY <2>3, <2>4, <2>5 DEF ShellInv
  <1>2. CASE StartShell BY <1>2, StartShellKeeps
  <1>3. CASE ShellFailsToStart \/ ShellWaits BY <1>3, AttemptKeeps
  <1>4. CASE ShellGivesUp \/ ShellWaited BY <1>4, ReturnKeeps
  <1>5. CASE ShellIsLost BY <1>5, LossKeeps
  <1>6. CASE CallStop BY <1>6, CallStopKeeps
  <1>7. CASE ShellStopped BY <1>7, ShellStoppedKeeps
  <1>8. CASE ExitBoth BY <1>8, ExitKeepsShell
  <1>9. CASE Slot
    BY <1>9, RegisteredKeeps, IgnoreKeeps, ProcessStartsKeeps, FinishedKeeps DEF Slot
  <1>10. CASE SessionAlone
    BY <1>10, BootKeepsShell, StartKeepsShell, ShutdownKeepsShell DEF SessionAlone
  <1>11. CASE Timer BY <1>11, TimerKeeps
  <1>12. CASE RequestArrives BY <1>12, RequestKeepsShell
  <1>13. CASE World BY <1>13, WorldKeepsShell
  <1> QED
    BY <1>1, <1>2, <1>3, <1>4, <1>5, <1>6, <1>7, <1>8, <1>9, <1>10, <1>11, <1>12, <1>13
    DEF SSNext, ThreadStep

LEMMA ShellInvAtStart == SSInit => ShellInv
  <1> SUFFICES ASSUME SSInit PROVE ShellInv OBVIOUS
  <1>1. Init /\ Plugin!Init BY DEF SSInit
  <1>2. /\ pc = "boot" /\ ToSet(loaded) = {} /\ ~quitNow
    BY <1>1 DEF Init, ToSet
  <1>3. <<>> \in Seq({"registered", "unregistered"}) /\ ToSet(<<>>) = {}
    BY DEF ToSet
  <1>4. ShellTypeOK
    <2>1. attempts \in 0 .. Retries /\ watchDog \in -1 .. WatchDog
      BY <1>1, SessionShellAssumption DEF Plugin!Init
    <2>2. {claimed, regOn, unregOn, loopQuit, stopping, stopped} \subseteq BOOLEAN
      BY <1>1 DEF Plugin!Init
    <2> QED BY <1>1, <1>3, <2>1, <2>2 DEF Plugin!Init, ShellTypeOK
  <1>5. CallInv BY <1>1, <1>2 DEF Plugin!Init, CallInv
  <1>6. ListInv BY <1>1, <1>2 DEF Plugin!Init, ListInv
  <1>7. ProcessInv BY <1>1, SessionShellAssumption DEF Plugin!Init, ProcessInv
  <1>8. SignalInv BY <1>1, <1>2, <1>3 DEF Plugin!Init, SignalInv
  <1>9. OrphanInv BY <1>2 DEF OrphanInv
  <1> QED BY <1>4, <1>5, <1>6, <1>7, <1>8, <1>9 DEF ShellInv

LEMMA ShellInvariantHolds == SSSpec => []ShellInv
  <1>1. IInv /\ ShellInv /\ [SSNext]_ssVars => ShellInv' BY ShellInvKept
  <1> QED BY <1>1, ShellInvAtStart, SessionInvariantHolds, PTL DEF SSSpec

(* The shell's variables have their types: the attempts start() has left are    *)
(* never negative and m_watchDogCounter stops at -1 (plugin.cpp:68, 178).       *)
THEOREM ShellTyped == SSSpec => []ShellTypeOK
  <1>1. ShellInv => ShellTypeOK BY DEF ShellInv
  <1> QED BY <1>1, ShellInvariantHolds, PTL

(* start() does not wait for a signal that has been served (plugin.cpp:68, 126). *)
THEOREM WakeupComes == SSSpec => []NoLostWakeup
  <1>1. ShellInv => NoLostWakeup BY DEF ShellInv, SignalInv, NoLostWakeup
  <1> QED BY <1>1, ShellInvariantHolds, PTL

(* A shell that outlives the session manager is one whose start() failed        *)
(* (plugin.cpp:68).                                                             *)
THEOREM OrphansFailed == SSSpec => []OrphanOnlyAfterFailure
  <1>1. ShellInv => OrphanOnlyAfterFailure
    BY DEF ShellInv, OrphanInv, ListInv, OrphanOnlyAfterFailure
  <1> QED BY <1>1, ShellInvariantHolds, PTL

(* A shell that is gone from the bus is still to be told of, or the session is  *)
(* about to end (plugin.cpp:139).                                               *)
THEOREM LossIsNoticed == SSSpec => []ShellLossNoticed
  <1>1. ShellInv => ShellLossNoticed BY DEF ShellInv, SignalInv, ShellLossNoticed
  <1> QED BY <1>1, ShellInvariantHolds, PTL

(* After stop() no event loop of the session polls the process again, and       *)
(* stop() itself does not restart it.                                           *)
LEMMA NotStartedAgain ==
  ASSUME ShellInv, [SSNext]_ssVars, stopped, child' = "alive"
  PROVE  child = "alive"
  <1>1. result = "TRUE" /\ (quitNow \/ pc = "stopping") BY DEF ShellInv, ListInv
  <1>2. call \notin {"trying", "waiting"} BY <1>1 DEF ShellInv, CallInv
  <1>3. ~ Plugin!processFinished
    BY <1>1, <1>2, LoopOfThread DEF Plugin!processFinished, Plugin!Polls
  <1>4. ~ (ShellFailsToStart \/ ShellWaits \/ ShellGivesUp \/ ShellWaited \/ StartShell)
    BY <1>1, <1>2
    DEF ShellFailsToStart, ShellWaits, ShellGivesUp, ShellWaited, StartShell,
        Plugin!AttemptFails, Plugin!AttemptSucceeds, Plugin!StartGivesUp,
        Plugin!WaitReturns, Plugin!CallStart
  <1>5. CASE ShellStopped
    <2>1. ~ Plugin!StopFinishes
      <3> SUFFICES ASSUME Plugin!StopFinishes PROVE FALSE OBVIOUS
      <3>1. proc # "NotRunning" /\ Plugin!ChildIsGone /\ call = "stopping"
        BY DEF Plugin!StopFinishes
      <3>2. stopping = TRUE BY <3>1 DEF ShellInv, CallInv, ShellTypeOK
      <3> QED BY <3>1, <3>2, GoneChild
    <2> QED
      BY <1>5, <2>1
      DEF ShellStopped, Plugin!StopFailsToStart, Plugin!FailsToExec, Plugin!StopKills
  <1>6. CASE ShellIsLost \/ Timer \/ CallStop
    BY <1>6
    DEF ShellIsLost, Timer, CallStop, Plugin!handleServiceUnregistered,
        Plugin!TimerExpires, Plugin!CallStop, Plugin!process
  <1>7. CASE ExitBoth
    BY <1>7 DEF ExitBoth, LeaveShell, Plugin!Destroy, plugin
  <1>8. CASE Slot
    BY <1>3, <1>8
    DEF Slot, Plugin!handleServiceRegistered, Plugin!IgnoreUnregistered,
        Plugin!ProcessStarts, Plugin!FailsToExec, Plugin!process
  <1>9. CASE World
    BY <1>9
    DEF World, Plugin!ChildRegisters, Plugin!ChildDies, Plugin!NameIsReleased,
        Plugin!process
  <1>10. CASE SessionAlone \/ RequestArrives \/ UNCHANGED ssVars
    BY <1>10 DEF SessionAlone, RequestArrives, ssVars, plugin
  <1> QED BY <1>4, <1>5, <1>6, <1>7, <1>8, <1>9, <1>10 DEF SSNext, ThreadStep

(* Once stop() has been called the watchdog starts no shell (plugin.cpp:111, 178). *)
THEOREM StopIsFinal == SSSpec => NoRestartAfterStop
  <1>1. ShellInv /\ [SSNext]_ssVars => [stopped /\ child' = "alive" => child = "alive"]_ssVars
    BY NotStartedAgain
  <1> QED BY <1>1, ShellInvariantHolds, PTL DEF SSSpec, NoRestartAfterStop
================================================================================
