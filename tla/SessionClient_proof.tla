---------------------------- MODULE SessionClient_proof ------------------------
(* Module SessionClient: what LogindSession_proof shows of the connection to    *)
(* logind still holds with the shell, the session manager and the screen saver  *)
(* using it, whatever they ask for and whoever else locks the session.  The way *)
(* of their requests to lock and to unlock is a queue, as LockRequests has it.  *)
EXTENDS SessionClient, LogindSession_proof, SequenceTheorems, WellFoundedInduction

--------------------------------------------------------------------------------
(* Invariants *)

Requests == [call : {"idle", "busy", "Lock", "Unlock"}, live : BOOLEAN]
Replies == {"idle", "busy", "Locked", "Unlocked"}
RaceNames == {"ignored", "misread", "failed", "missed", "unaware", "disturbed"}

(* What the shell, the screen saver and the queues between them hold. *)
ShellInv ==
  /\ thread \in {"free", "stuck"}
  /\ mIdle \in BOOLEAN /\ wanted \in BOOLEAN /\ lockWanted \in BOOLEAN
  /\ shown \in BOOLEAN /\ active \in BOOLEAN /\ said \in BOOLEAN
  /\ sent \in 0 .. MaxCalls
  /\ toManager \in Seq(Requests) /\ toShell \in Seq(Replies)
  /\ races \subseteq RaceNames

ClientInv == LogindInv /\ ShellInv

LEMMA ClientTypesFollow == ClientInv => ClientTypeOK
  <1> SUFFICES ASSUME ClientInv PROVE ClientTypeOK
    OBVIOUS
  <1>1. ToSet(toManager) \subseteq Requests /\ ToSet(toShell) \subseteq Replies
    BY Elements DEF ClientInv, ShellInv
  <1>2. TypeOK BY TypesFollow DEF ClientInv, LogindInv
  <1>3. {mIdle, wanted, lockWanted, shown, active, said} \subseteq BOOLEAN
    BY DEF ClientInv, ShellInv
  <1> QED BY <1>1, <1>2, <1>3
          DEF ClientInv, ShellInv, Requests, Replies, RaceNames, ClientTypeOK

--------------------------------------------------------------------------------
(* Logind, when it is used *)

(* Somebody asks for something, and it is passed on if there is a connection. *)
LEMMA RequestKeeps ==
  ASSUME LogindInv, StateInv', UNCHANGED <<up, setup, watching, inbox, copy>>,
         NEW method \in Methods, calls' = calls \/ Request(method)
  PROVE  LogindInv'
  <1> DEFINE requests == IF calls' = calls \/ ~Reachable THEN <<>>
                         ELSE <<Call(method, sessionPath)>>
  <1>1. requests \in Seq(Asked)
    <2>1. CASE Reachable
      <3>1. sessionPath \in subscribed BY <2>1 DEF Reachable, LogindInv, StateInv
      <3>2. Call(method, sessionPath) \in Asked BY <3>1 DEF Call, Asked
      <3> QED BY <3>2, Single
    <2>2. CASE ~Reachable BY <2>2
    <2> QED BY <2>1, <2>2
  <1>2. Calls(requests)
    <2>1. calls \in Seq(Asked) BY DEF LogindInv, QueueInv
    <2>2. calls \o <<>> = calls BY <2>1
    <2> QED BY <2>2 DEF Calls, Request
  <1>3. UNCHANGED <<isConnected, sessionPath, subscribed>> BY DEF copy
  <1>4. Asked' = Asked BY <1>3 DEF Asked
  <1>5. /\ calls' \in Seq(Asked)
        /\ calls' # <<>> => calls # <<>> \/ (up /\ requests # <<>>)
    BY <1>1, <1>2, <1>3, <1>4, CallsAdded
  <1>6. QueueInv' BY <1>4, <1>5 DEF LogindInv, QueueInv
  <1>7. WatchInv' /\ AnswerInv' /\ CallInv' /\ OwnerInv'
    <2>1. calls # <<>> => up BY DEF LogindInv, CallInv
    <2>2. requests # <<>> => isConnected /\ sessionPath # None BY DEF Reachable
    <2> HIDE DEF requests
    <2> QED BY <1>3, <1>5, <2>1, <2>2, QuietKeeps
  <1> QED BY <1>6, <1>7 DEF LogindInv, copy, ResetWhenGone

(* A signal is passed on. *)
LEMMA RelaysKeep ==
  ASSUME LogindInv, NEW signal \in {"Lock", "Unlock", "sleep"}, Relays(signal)
  PROVE  LogindInv'
  <1>1. <<>> \in Seq(Asked) /\ Calls(<<>>)
    <2>1. calls \in Seq(Asked) BY DEF LogindInv, QueueInv
    <2>2. calls \o <<>> = calls BY <2>1
    <2> QED BY <2>2 DEF Calls, Relays, besidesInbox
  <1> QED BY <1>1, NewsKeeps DEF Relays, besidesInbox

(* The world changes: StateInv is about that only in its bound. *)
LEMMA ChangeKeeps ==
  ASSUME LogindInv, Change,
         UNCHANGED <<world, backend, setup, watching, copy>>
  PROVE  StateInv'
  <1>1. changes' \in 0 .. MaxChanges
    BY LogindSessionAssumption DEF Change, LogindInv, StateInv
  <1> QED BY <1>1 DEF world, copy, LogindInv, StateInv

LEMMA OthersLockKeeps ==
  ASSUME LogindInv, NEW signal \in {"Lock", "Unlock"}, NEW s \in Sessions,
         OthersLock(signal, s)
  PROVE  LogindInv'
  <1>1. StateInv' BY ChangeKeeps DEF OthersLock
  <1>2. PICK messages \in {<<>>, <<signal>>} : Deliver(messages) BY DEF OthersLock, Emits
  <1>3. signal \in Messages /\ calls \in Seq(Asked) BY DEF Messages, LogindInv, QueueInv
  <1> QED BY <1>1, <1>2, <1>3, SignalKeeps DEF OthersLock, world

LEMMA SleepsKeeps == LogindInv /\ Sleeps => LogindInv'
  <1> SUFFICES ASSUME LogindInv, Sleeps PROVE LogindInv'
    OBVIOUS
  <1>1. StateInv' BY ChangeKeeps DEF Sleeps
  <1>2. PICK messages \in {<<>>, <<"sleep">>} : Deliver(messages) BY DEF Sleeps
  <1>3. "sleep" \in Messages /\ calls \in Seq(Asked) BY DEF Messages, LogindInv, QueueInv
  <1> QED BY <1>1, <1>2, <1>3, SignalKeeps DEF Sleeps, world

(* Whatever the processes around it do. *)
LEMMA LogindKeeps == ClientInv /\ [ClientNext]_clientVars => LogindInv'
  <1> SUFFICES ASSUME ClientInv, [ClientNext]_clientVars PROVE LogindInv'
    OBVIOUS
  <1> USE DEF ClientInv
  <1>1. CASE World
    <2>1. \A disturb : Others(LogindStops, disturb) => LogindInv'
      BY LogindStopsKeeps DEF Others
    <2>2. Others(LogindStarts, FALSE) => LogindInv' BY LogindStartsKeeps DEF Others
    <2>3. ASSUME NEW s \in Sessions \cup {None}, Others(SwitchTo(s), FALSE)
          PROVE  LogindInv'
      BY <2>3, SwitchToKeeps DEF Others
    <2>4. ASSUME NEW s \in Sessions, NEW signal \in {"Lock", "Unlock"},
                 Others(OthersLock(signal, s), TRUE)
          PROVE  LogindInv'
      BY <2>4, OthersLockKeeps DEF Others
    <2>5. Others(Sleeps, TRUE) => LogindInv' BY SleepsKeeps DEF Others
    <2> QED BY <1>1, <2>1, <2>2, <2>3, <2>4, <2>5 DEF World
  <1>2. CASE Bus BY <1>2, BusHandlesKeeps DEF Bus, Others
  <1>3. CASE LogindAnswers BY <1>3, LogindHandlesKeeps DEF LogindAnswers, Others
  <1>4. CASE SystemBus
    <2>1. CASE OnlyLogind
      BY <2>1, instanceKeeps, NoSessionKeeps, AlreadyConnectedKeeps, ServiceUnregisteredKeeps,
         PropertiesChangedKeeps, ActiveIsKeeps DEF OnlyLogind
    <2>2. CASE Registered BY <2>2, ServiceRegisteredKeeps DEF Registered
    <2>3. CASE handleSessionLocked \/ Hangs \/ handleSessionUnlocked \/ prepareForSleep
      BY <2>3, RelaysKeep
         DEF handleSessionLocked, Hangs, handleSessionUnlocked, prepareForSleep
    <2> QED BY <1>4, <2>1, <2>2, <2>3 DEF SystemBus
  <1>5. CASE SetIdle
    <2>1. PICK value \in BOOLEAN : Request(Hint(value)) BY <1>5 DEF SetIdle
    <2>2. Hint(value) \in Methods BY DEF Hint, Methods
    <2>3. StateInv' BY <1>5 DEF SetIdle, besidesCalls, outside, copy, LogindInv, StateInv
    <2>4. UNCHANGED <<up, setup, watching, inbox, copy>>
      BY <1>5 DEF SetIdle, besidesCalls, outside
    <2> QED BY <2>1, <2>2, <2>3, <2>4, RequestKeeps
  <1>6. CASE LockOrUnlock
    <2>1. PICK call \in {"Lock", "Unlock"} : Request(call)
      BY <1>6 DEF LockOrUnlock, AskLogind
    <2>2. call \in Methods BY DEF Methods
    <2>3. StateInv' BY <1>6 DEF LockOrUnlock, besidesCalls, outside, copy, LogindInv, StateInv
    <2>4. UNCHANGED <<up, setup, watching, inbox, copy>>
      BY <1>6 DEF LockOrUnlock, besidesCalls, outside
    <2> QED BY <2>1, <2>2, <2>3, <2>4, RequestKeeps
  <1>7. CASE ScreenSaverLock
    <2>1. Request("Lock") /\ "Lock" \in Methods BY <1>7 DEF ScreenSaverLock, Methods
    <2>2. StateInv' BY <1>7, ChangeKeeps DEF ScreenSaverLock
    <2>3. UNCHANGED <<up, setup, watching, inbox, copy>> BY <1>7 DEF ScreenSaverLock, world
    <2> QED BY <2>1, <2>2, <2>3, RequestKeeps
  <1>8. CASE ShellRestarts
    <2>1. calls' = calls /\ "Lock" \in Methods BY <1>8 DEF ShellRestarts, Methods
    <2>2. StateInv' BY <1>8, ChangeKeeps DEF ShellRestarts
    <2>3. UNCHANGED <<up, setup, watching, inbox, copy>> BY <1>8 DEF ShellRestarts, world
    <2> QED BY <2>1, <2>2, <2>3, RequestKeeps
  <1>9. UNCHANGED vars => LogindInv' BY StutterKeeps
  <1>10. CASE Shell \/ \E value \in BOOLEAN : setIdle(value) \/ setLock(value)
    <2>1. UNCHANGED vars
      BY <1>10 DEF Shell, SetIdleAnswered, sessionLocked, sessionUnlocked, setIdle, setLock
    <2> QED BY <1>9, <2>1
  <1>11. CASE UNCHANGED clientVars
    <2>1. UNCHANGED vars BY <1>11 DEF clientVars
    <2> QED BY <1>9, <2>1
  <1> QED BY <1>1, <1>2, <1>3, <1>4, <1>5, <1>6, <1>7, <1>8, <1>10, <1>11
          DEF ClientNext, Manager, Clients

--------------------------------------------------------------------------------
(* The shell, the session manager and the screen saver *)

LEMMA RaceTyped ==
  ASSUME races \subseteq RaceNames, NEW name \in RaceNames, NEW happened, Race(name, happened)
  PROVE  races' \subseteq RaceNames
  BY DEF Race

LEMMA Taken ==
  ASSUME NEW S, NEW s \in Seq(S), s # <<>>
  PROVE  Head(s) \in S /\ Tail(s) \in Seq(S)
  OBVIOUS

LEMMA SendsTyped ==
  ASSUME ShellInv, NEW call \in {"idle", "busy", "Lock", "Unlock"}, Sends(call)
  PROVE  sent' \in 0 .. MaxCalls /\ toManager' \in Seq(Requests)
  <1>1. Message(call) \in Requests BY DEF Message, Requests
  <1> QED BY <1>1, SessionClientAssumption DEF Sends, ShellInv

LEMMA ShellStepTyped ==
  ASSUME ShellInv, Shell
  PROVE  ShellInv'
  <1>1. CASE SetIdleAnswered
    <2>1. PICK value \in BOOLEAN : Hears(Hint(value)) BY <1>1 DEF SetIdleAnswered
    <2>2. toShell' \in Seq(Replies) BY <2>1, Taken DEF Hears, ShellInv
    <2>3. mIdle' \in BOOLEAN BY <1>1 DEF SetIdleAnswered, AsRead, ShellInv
    <2>4. races' \subseteq races \cup {"misread", "failed"}
      BY <1>1 DEF SetIdleAnswered, Race
    <2>5. races' \subseteq RaceNames BY <2>4 DEF ShellInv, RaceNames
    <2> QED BY <1>1, <2>2, <2>3, <2>5 DEF SetIdleAnswered, ShellInv
  <1>2. CASE sessionLocked
    <2>1. toShell' \in Seq(Replies) BY <1>2, Taken DEF sessionLocked, Hears, ShellInv
    <2> QED BY <1>2, <2>1 DEF sessionLocked, ShellInv
  <1>3. CASE sessionUnlocked
    <2>1. toShell' \in Seq(Replies) BY <1>3, Taken DEF sessionUnlocked, Hears, ShellInv
    <2> QED BY <1>3, <2>1 DEF sessionUnlocked, ShellInv
  <1> QED BY <1>1, <1>2, <1>3 DEF Shell

LEMMA ClientsTyped ==
  ASSUME ShellInv, Clients
  PROVE  ShellInv'
  <1>1. CASE ScreenSaverLock
    <2>1. races' \subseteq RaceNames
      BY <1>1, RaceTyped DEF ScreenSaverLock, ShellInv, RaceNames
    <2> QED BY <1>1, <2>1 DEF ScreenSaverLock, shell, ShellInv
  <1>2. CASE ShellRestarts
    <2>1. toManager' \in Seq(Requests)
      <3>1. /\ toManager \in Seq(Requests)
            /\ toManager' = [i \in DOMAIN toManager |-> [toManager[i] EXCEPT !.live = FALSE]]
        BY <1>2 DEF ShellRestarts, ShellInv
      <3>2. DOMAIN toManager = 1 .. Len(toManager) /\ Len(toManager) \in Nat BY <3>1
      <3>3. \A i \in 1 .. Len(toManager) : [toManager[i] EXCEPT !.live = FALSE] \in Requests
        <4>1. \A r \in Requests : [r EXCEPT !.live = FALSE] \in Requests BY DEF Requests
        <4>2. \A i \in 1 .. Len(toManager) : toManager[i] \in Requests BY <3>1, <3>2
        <4> QED BY <4>1, <4>2
      <3>4. toManager' \in [1 .. Len(toManager) -> Requests] BY <3>1, <3>2, <3>3
      <3> QED BY <3>2, <3>4
    <2>2. races' \subseteq RaceNames BY <1>2 DEF ShellRestarts, ShellInv, RaceNames
    <2>3. toShell' \in Seq(Replies) BY <1>2 DEF ShellRestarts
    <2>4. mIdle' \in BOOLEAN /\ wanted' \in BOOLEAN /\ shown' \in BOOLEAN
      BY <1>2 DEF ShellRestarts
    <2> QED BY <1>2, <2>1, <2>2, <2>3, <2>4 DEF ShellRestarts, ShellInv
  <1>3. ASSUME NEW value \in BOOLEAN, setIdle(value)
        PROVE  ShellInv'
    <2>1. sent' \in 0 .. MaxCalls /\ toManager' \in Seq(Requests)
      <3>1. CASE mIdle = value
        BY <1>3, <3>1, SessionClientAssumption DEF setIdle, ShellInv
      <3>2. CASE mIdle # value
        <4>1. Sends(Hint(value)) /\ Hint(value) \in {"idle", "busy", "Lock", "Unlock"}
          BY <1>3, <3>2 DEF setIdle, Hint
        <4> QED BY <4>1, SendsTyped
      <3> QED BY <3>1, <3>2
    <2>2. races' \subseteq RaceNames
      <3>1. CASE mIdle = value
        <4>1. PICK happened : Race("ignored", happened) BY <1>3, <3>1 DEF setIdle
        <4> QED BY <4>1, RaceTyped DEF ShellInv, RaceNames
      <3>2. CASE mIdle # value BY <1>3, <3>2 DEF setIdle, ShellInv
      <3> QED BY <3>1, <3>2
    <2>3. wanted' \in BOOLEAN BY <1>3 DEF setIdle
    <2> QED BY <1>3, <2>1, <2>2, <2>3 DEF setIdle, ShellInv
  <1>4. ASSUME NEW value \in BOOLEAN, setLock(value)
        PROVE  ShellInv'
    <2>1. sent' \in 0 .. MaxCalls /\ toManager' \in Seq(Requests)
      <3>1. PICK call \in {"Lock", "Unlock"} : Sends(call) BY <1>4 DEF setLock
      <3> QED BY <3>1, SendsTyped
    <2>2. lockWanted' \in BOOLEAN BY <1>4 DEF setLock
    <2> QED BY <1>4, <2>1, <2>2 DEF setLock, ShellInv
  <1> QED BY <1>1, <1>2, <1>3, <1>4 DEF Clients

LEMMA ManagerTyped ==
  ASSUME ShellInv, Manager
  PROVE  ShellInv'
  <1>1. CASE SetIdle
    <2>1. toManager' \in Seq(Requests) BY <1>1, Taken DEF SetIdle, ShellInv
    <2>2. PICK value \in BOOLEAN :
            /\ said' = value
            /\ toShell' = toShell \/ toShell' = Append(toShell, Hint(value))
      BY <1>1 DEF SetIdle
    <2>3. Hint(value) \in Replies BY DEF Hint, Replies
    <2>4. toShell' \in Seq(Replies) BY <2>2, <2>3 DEF ShellInv
    <2>5. said' \in BOOLEAN BY <2>2
    <2> QED BY <1>1, <2>1, <2>4, <2>5 DEF SetIdle, besidesCalls, shell, ShellInv
  <1>2. CASE LockOrUnlock
    <2>1. toManager' \in Seq(Requests) BY <1>2, Taken DEF LockOrUnlock, ShellInv
    <2>2. races' \subseteq RaceNames
      BY <1>2, RaceTyped DEF LockOrUnlock, ShellInv, RaceNames
    <2> QED BY <1>2, <2>1, <2>2
            DEF LockOrUnlock, AwaitSignal, besidesCalls, shell, ShellInv
  <1> QED BY <1>1, <1>2 DEF Manager

LEMMA BackendTyped ==
  ASSUME ShellInv, NEW signal \in {"Locked", "Unlocked"}, Backend(signal)
  PROVE  ShellInv'
  <1>1. toShell' \in Seq(Replies) BY DEF Backend, PassOn, ShellInv, Replies
  <1>2. active' \in BOOLEAN BY DEF Backend
  <1> QED BY <1>1, <1>2 DEF Backend, shell, ShellInv

LEMMA OthersTyped ==
  ASSUME ShellInv, NEW step, NEW disturb, Others(step, disturb)
  PROVE  ShellInv'
  <1>1. races' \subseteq RaceNames BY RaceTyped DEF Others, ShellInv, RaceNames
  <1> QED BY <1>1 DEF Others, shell, ShellInv

LEMMA ShellKeeps == ClientInv /\ [ClientNext]_clientVars => ShellInv'
  <1> SUFFICES ASSUME ShellInv, [ClientNext]_clientVars PROVE ShellInv'
    BY DEF ClientInv
  <1>1. CASE World BY <1>1, OthersTyped DEF World
  <1>2. CASE Bus \/ LogindAnswers BY <1>2, OthersTyped DEF Bus, LogindAnswers
  <1>3. CASE SystemBus
    <2>1. CASE OnlyLogind BY <2>1 DEF OnlyLogind, shell, ShellInv
    <2>2. CASE Registered
      <3>1. races' \subseteq RaceNames
        BY <2>2, RaceTyped DEF Registered, ShellInv, RaceNames
      <3>2. said' \in BOOLEAN BY <2>2 DEF Registered
      <3> QED BY <2>2, <3>1, <3>2 DEF Registered, shell, ShellInv
    <2>3. CASE handleSessionLocked \/ handleSessionUnlocked \/ prepareForSleep
      BY <2>3, BackendTyped DEF handleSessionLocked, handleSessionUnlocked, prepareForSleep
    <2>4. CASE Hangs BY <2>4 DEF Hangs, shell, ShellInv
    <2> QED BY <1>3, <2>1, <2>2, <2>3, <2>4 DEF SystemBus
  <1>4. CASE Manager BY <1>4, ManagerTyped
  <1>5. CASE Shell BY <1>5, ShellStepTyped
  <1>6. CASE Clients BY <1>6, ClientsTyped
  <1>7. CASE UNCHANGED clientVars BY <1>7 DEF clientVars, shell, ShellInv
  <1> QED BY <1>1, <1>2, <1>3, <1>4, <1>5, <1>6, <1>7 DEF ClientNext

--------------------------------------------------------------------------------
(* The specification *)

LEMMA ClientInitHolds == ClientInit => ClientInv
  <1> SUFFICES ASSUME ClientInit PROVE ClientInv
    OBVIOUS
  <1>1. LogindInv BY InitHolds DEF ClientInit
  <1>2. sent \in 0 .. MaxCalls BY SessionClientAssumption DEF ClientInit
  <1>3. toManager \in Seq(Requests) /\ toShell \in Seq(Replies) BY DEF ClientInit
  <1>4. ShellInv BY <1>2, <1>3 DEF ClientInit, ShellInv
  <1> QED BY <1>1, <1>4 DEF ClientInv

THEOREM ClientInvariantHolds == ClientSpec => []ClientInv
  <1>1. ClientInv /\ [ClientNext]_clientVars => ClientInv'
    BY LogindKeeps, ShellKeeps DEF ClientInv
  <1> QED BY <1>1, ClientInitHolds, PTL DEF ClientSpec

(* Every message between the shell, the session manager and logind is one that  *)
(* its receiver knows, and no call of lockSession(), unlockSession() or         *)
(* setIdleHint() that is on its way names a session that is not subscribed.     *)
THEOREM ClientTyped == ClientSpec => []ClientTypeOK
  BY ClientInvariantHolds, ClientTypesFollow, PTL

(* Without a connection the session is not active, also while the shell and     *)
(* other programs make requests and signals come in that concern nobody but     *)
(* the screen saver.                                                            *)
THEOREM ForgottenForClients == ClientSpec => []ResetWhenGone
  <1>1. ClientInv => ResetWhenGone BY DEF ClientInv, LogindInv
  <1> QED BY <1>1, ClientInvariantHolds, PTL

--------------------------------------------------------------------------------
(* The requests among the messages of a queue *)

(* A set of numbers that is not empty has a least element, so that what is      *)
(* false of some number is false of a least one.                                *)
LEMMA Least ==
  ASSUME NEW T, T \subseteq Nat, T # {}
  PROVE  \E n \in T : \A m \in T : n <= m
  <1> DEFINE Less == {ss \in Nat \X Nat : ss[1] < ss[2]}
  <1>1. IsWellFoundedOn(Less, Nat) BY NatLessThanWellFounded DEF OpToRel
  <1>2. \E n \in T : \A m \in T : <<m, n>> \notin Less
    <2> HIDE DEF Less
    <2> QED BY <1>1, WFMin
  <1>3. PICK n \in T : \A m \in T : <<m, n>> \notin Less BY <1>2
  <1>4. ASSUME NEW m \in T PROVE n <= m
    <2>1. m \in Nat /\ n \in Nat /\ (<<m, n>> \in Less <=> m < n) OBVIOUS
    <2> QED BY <1>3, <2>1
  <1> QED BY <1>4

(* The requests among each of the first k messages. *)
Collects(f, messages, k) ==
  f = [n \in 0 .. k |-> IF n = 0 THEN <<>> ELSE Added(f[n - 1], messages[n])]

LEMMA OneMoreMessage ==
  ASSUME NEW s, NEW k \in Nat \ {0}, NEW f, Collects(f, s, k - 1)
  PROVE  \E g : Collects(g, s, k)
  <1> DEFINE g == [n \in 0 .. k |-> IF n = k THEN Added(f[k - 1], s[k]) ELSE f[n]]
  <1>1. \A n \in 0 .. k - 1 : n \in 0 .. k /\ n # k /\ g[n] = f[n] OBVIOUS
  <1>2. ASSUME NEW n \in 0 .. k
        PROVE  g[n] = IF n = 0 THEN <<>> ELSE Added(g[n - 1], s[n])
    <2>1. CASE n = k
      <3>1. g[k] = Added(f[k - 1], s[k]) /\ k - 1 \in 0 .. k - 1 OBVIOUS
      <3>2. g[k - 1] = f[k - 1] BY <1>1, <3>1
      <3> QED BY <2>1, <3>1, <3>2
    <2>2. CASE n # k
      <3>1. n \in 0 .. k - 1 BY <2>2
      <3>2. f[n] = IF n = 0 THEN <<>> ELSE Added(f[n - 1], s[n]) BY <3>1 DEF Collects
      <3>3. n # 0 => n - 1 \in 0 .. k - 1 BY <3>1
      <3> QED BY <1>1, <3>1, <3>2, <3>3
    <2> QED BY <2>1, <2>2
  <1>3. g = [n \in 0 .. k |-> g[n]] OBVIOUS
  <1>4. Collects(g, s, k)
    <2> HIDE DEF g
    <2> QED BY <1>2, <1>3 DEF Collects
  <1> QED BY <1>4

LEMMA Collected ==
  ASSUME NEW s, NEW k \in Nat
  PROVE  \E f : Collects(f, s, k)
  <1> DEFINE T == {n \in Nat : ~ \E f : Collects(f, s, n)}
  <1> SUFFICES ASSUME T # {} PROVE FALSE
    OBVIOUS
  <1>1. PICK n \in T : \A m \in T : n <= m BY Least
  <1>2. CASE n = 0
    <2> DEFINE f == [i \in 0 .. 0 |-> <<>>]
    <2>1. f = [i \in 0 .. 0 |-> IF i = 0 THEN <<>> ELSE Added(f[i - 1], s[i])] OBVIOUS
    <2> QED BY <1>1, <1>2, <2>1 DEF Collects
  <1>3. CASE n # 0
    <2>1. n \in Nat \ {0} /\ n - 1 \in Nat /\ ~ (n <= n - 1) BY <1>3
    <2>2. n - 1 \notin T BY <1>1, <2>1
    <2>3. PICK f : Collects(f, s, n - 1) BY <2>1, <2>2
    <2> QED BY <2>1, <2>3, OneMoreMessage
  <1> QED BY <1>2, <1>3

LEMMA LockingCollects ==
  ASSUME NEW s, Len(s) \in Nat
  PROVE  \E f : Collects(f, s, Len(s)) /\ Locking(s) = f[Len(s)]
  <1>1. \E f : Collects(f, s, Len(s)) BY Collected
  <1> QED BY <1>1 DEF Locking, Collects

(* What is collected depends only on the messages so far. *)
LEMMA Determined ==
  ASSUME NEW s, NEW t, NEW k \in Nat, NEW l \in Nat, k <= l,
         NEW f, Collects(f, s, k), NEW g, Collects(g, t, l),
         \A i \in 1 .. k : s[i] = t[i]
  PROVE  f[k] = g[k]
  <1> DEFINE T == {n \in 0 .. k : f[n] # g[n]}
  <1> SUFFICES ASSUME T # {} PROVE FALSE
    OBVIOUS
  <1>1. T \subseteq Nat OBVIOUS
  <1>2. PICK n \in T : \A m \in T : n <= m
    <2> HIDE DEF T
    <2> QED BY <1>1, Least
  <1>3. /\ f[n] = IF n = 0 THEN <<>> ELSE Added(f[n - 1], s[n])
        /\ g[n] = IF n = 0 THEN <<>> ELSE Added(g[n - 1], t[n])
    <2>1. n \in 0 .. k /\ n \in 0 .. l OBVIOUS
    <2> QED BY <2>1 DEF Collects
  <1>4. n # 0 BY <1>2, <1>3
  <1>5. n - 1 \in 0 .. k /\ ~ (n <= n - 1) /\ n \in 1 .. k BY <1>4
  <1>6. f[n - 1] = g[n - 1] BY <1>2, <1>5
  <1> QED BY <1>2, <1>3, <1>4, <1>5, <1>6

LEMMA LockingNothing == Locking(<<>>) = <<>>
  <1>1. Len(<<>>) = 0 OBVIOUS
  <1>2. PICK f : Collects(f, <<>>, 0) /\ Locking(<<>>) = f[0] BY <1>1, LockingCollects
  <1> QED BY <1>2 DEF Collects

LEMMA LockingOneMore ==
  ASSUME NEW M, NEW s \in Seq(M), NEW m \in M
  PROVE  Locking(Append(s, m)) = Added(Locking(s), m)
  <1> DEFINE t == Append(s, m)
             n == Len(s)
  <1>1. n \in Nat /\ Len(t) = n + 1 /\ t[n + 1] = m /\ \A i \in 1 .. n : s[i] = t[i]
    OBVIOUS
  <1> HIDE DEF t
  <1>2. PICK f : Collects(f, s, n) /\ Locking(s) = f[n] BY <1>1, LockingCollects
  <1>3. PICK g : Collects(g, t, n + 1) /\ Locking(t) = g[n + 1] BY <1>1, LockingCollects
  <1>4. f[n] = g[n] BY <1>1, <1>2, <1>3, Determined
  <1>5. g[n + 1] = Added(g[n], t[n + 1]) BY <1>1, <1>3 DEF Collects
  <1> QED BY <1>1, <1>2, <1>3, <1>4, <1>5 DEF t

LEMMA Grouped ==
  ASSUME NEW S, NEW p \in Seq(S), NEW q \in Seq(S), NEW r \in Seq(S)
  PROVE  (p \o q) \o r = p \o (q \o r)
  OBVIOUS

(* What one message asks for. *)
One(message) == Added(<<>>, message)

LEMMA OneIs ==
  ASSUME NEW m
  PROVE  /\ One(m) = IF AsksToLock(m) THEN <<TRUE>> ELSE IF AsksToUnlock(m) THEN <<FALSE>> ELSE <<>>
         /\ One(m) \in Seq(BOOLEAN)
  <1> DEFINE empty == <<>>
  <1>1. empty \in Seq(BOOLEAN) /\ TRUE \in BOOLEAN /\ FALSE \in BOOLEAN
    <2>1. <<>> \in Seq(BOOLEAN) OBVIOUS
    <2> QED BY <2>1, Zenon
  <1>2. Append(empty, TRUE) = <<TRUE>> /\ Append(empty, FALSE) = <<FALSE>> OBVIOUS
  <1>3. <<TRUE>> \in Seq(BOOLEAN) /\ <<FALSE>> \in Seq(BOOLEAN) BY <1>1, Single, Zenon
  <1> HIDE DEF empty
  <1>4. One(m) = IF AsksToLock(m) THEN Append(empty, TRUE)
                 ELSE IF AsksToUnlock(m) THEN Append(empty, FALSE) ELSE empty
    BY DEF One, Added, empty
  <1>5. empty = <<>> BY DEF empty
  <1> QED BY <1>1, <1>2, <1>3, <1>4, <1>5, Zenon

LEMMA AddedIs ==
  ASSUME NEW q \in Seq(BOOLEAN), NEW m
  PROVE  Added(q, m) = q \o One(m) /\ Added(q, m) \in Seq(BOOLEAN)
  <1>1. TRUE \in BOOLEAN /\ FALSE \in BOOLEAN BY Zenon
  <1>2. /\ Append(q, TRUE) = q \o <<TRUE>> /\ Append(q, FALSE) = q \o <<FALSE>>
        /\ q = q \o <<>>
    BY <1>1, AppendIsConcat, ConcatEmptySeq, Zenon
  <1>3. Added(q, m) = q \o One(m)
    <2>1. CASE AsksToLock(m)
      <3>1. Added(q, m) = Append(q, TRUE) BY <2>1 DEF Added
      <3>2. One(m) = <<TRUE>> BY <2>1, OneIs
      <3> QED BY <1>2, <3>1, <3>2, Zenon
    <2>2. CASE ~AsksToLock(m) /\ AsksToUnlock(m)
      <3>1. Added(q, m) = Append(q, FALSE) BY <2>2 DEF Added
      <3>2. One(m) = <<FALSE>> BY <2>2, OneIs
      <3> QED BY <1>2, <3>1, <3>2, Zenon
    <2>3. CASE ~AsksToLock(m) /\ ~AsksToUnlock(m)
      <3>1. Added(q, m) = q BY <2>3 DEF Added
      <3>2. One(m) = <<>> BY <2>3, OneIs
      <3> QED BY <1>2, <3>1, <3>2, Zenon
    <2> QED BY <2>1, <2>2, <2>3, Zenon
  <1>4. One(m) \in Seq(BOOLEAN) BY OneIs
  <1>5. q \o One(m) \in Seq(BOOLEAN) BY <1>4, Joined, Zenon
  <1> QED BY <1>3, <1>5, Zenon

LEMMA LockingTyped ==
  ASSUME NEW M, NEW s \in Seq(M)
  PROVE  Locking(s) \in Seq(BOOLEAN)
  <1> DEFINE k == Len(s)
  <1>1. k \in Nat OBVIOUS
  <1>2. PICK f : Collects(f, s, k) /\ Locking(s) = f[k] BY <1>1, LockingCollects
  <1> DEFINE T == {n \in 0 .. k : f[n] \notin Seq(BOOLEAN)}
  <1> HIDE DEF k
  <1>3. CASE T = {} BY <1>1, <1>2, <1>3
  <1>4. CASE T # {}
    <2>1. T \subseteq Nat BY <1>1
    <2>2. PICK n \in T : \A m \in T : n <= m
      <3> HIDE DEF T
      <3> QED BY <1>4, <2>1, Least
    <2>3. f[n] = IF n = 0 THEN <<>> ELSE Added(f[n - 1], s[n]) BY <1>2 DEF Collects
    <2>4. n # 0
      <3>1. <<>> \in Seq(BOOLEAN) OBVIOUS
      <3> QED BY <2>3, <3>1
    <2>5. n - 1 \in 0 .. k /\ ~ (n <= n - 1) BY <1>1, <2>4
    <2>6. f[n - 1] \in Seq(BOOLEAN) BY <2>2, <2>5
    <2>7. f[n] \in Seq(BOOLEAN) BY <2>3, <2>4, <2>6, AddedIs
    <2> QED BY <2>7
  <1> QED BY <1>3, <1>4

LEMMA LockingBothMore ==
  ASSUME NEW M, NEW s \in Seq(M), NEW t \in Seq(M), NEW m \in M,
         Locking(s \o t) = Locking(s) \o Locking(t)
  PROVE  Locking(s \o Append(t, m)) = Locking(s) \o Locking(Append(t, m))
  <1> DEFINE p == Locking(s)
             q == Locking(t)
             r == One(m)
  <1>1. s \o Append(t, m) = Append(s \o t, m) /\ s \o t \in Seq(M) OBVIOUS
  <1>2. p \in Seq(BOOLEAN) /\ q \in Seq(BOOLEAN) /\ r \in Seq(BOOLEAN)
    BY LockingTyped, OneIs
  <1>3. Locking(s \o t) = p \o q /\ p \o q \in Seq(BOOLEAN) BY <1>1, LockingTyped
  <1>4. Locking(s \o Append(t, m)) = Added(p \o q, m) BY <1>1, <1>3, LockingOneMore
  <1>5. Added(p \o q, m) = (p \o q) \o r BY <1>3, AddedIs
  <1>6. Locking(Append(t, m)) = Added(q, m) BY LockingOneMore
  <1>7. Added(q, m) = q \o r BY <1>2, AddedIs
  <1> HIDE DEF p, q, r
  <1>8. (p \o q) \o r = p \o (q \o r) BY <1>2, Grouped
  <1>9. Locking(s \o Append(t, m)) = p \o Locking(Append(t, m))
    BY <1>4, <1>5, <1>6, <1>7, <1>8
  <1> QED BY <1>9 DEF p

(* The requests of two queues, one behind the other. *)
LEMMA LockingBoth ==
  ASSUME NEW M, NEW s \in Seq(M), NEW t \in Seq(M)
  PROVE  Locking(s \o t) = Locking(s) \o Locking(t)
  <1> DEFINE T == {n \in Nat : \E u \in Seq(M) : Len(u) = n /\ Locking(s \o u) # Locking(s) \o Locking(u)}
  <1>1. CASE T = {}
    <2>1. Len(t) \in Nat /\ Len(t) \notin T BY <1>1
    <2> QED BY <2>1
  <1>2. CASE T # {}
    <2>1. PICK n \in T : \A m \in T : n <= m
      <3>1. T \subseteq Nat OBVIOUS
      <3> HIDE DEF T
      <3> QED BY <1>2, <3>1, Least
    <2>2. PICK u \in Seq(M) : Len(u) = n /\ Locking(s \o u) # Locking(s) \o Locking(u)
      BY <2>1
    <2>3. Locking(s) \in Seq(BOOLEAN) BY LockingTyped
    <2>4. CASE u = <<>>
      <3>1. s \o u = s /\ Locking(s) \o <<>> = Locking(s) BY <2>3, <2>4
      <3> QED BY <2>2, <2>4, <3>1, LockingNothing
    <2>5. CASE u # <<>>
      <3>1. PICK v \in Seq(M), m \in M : u = Append(v, m) BY <2>5, SequenceEmptyOrAppend
      <3>2. Len(v) = n - 1 /\ n - 1 \in Nat /\ ~ (n <= n - 1) BY <2>2, <3>1
      <3>3. n - 1 \notin T BY <2>1, <3>2
      <3>4. Locking(s \o v) = Locking(s) \o Locking(v) BY <3>2, <3>3
      <3> QED BY <2>2, <3>1, <3>4, LockingBothMore
    <2> QED BY <2>4, <2>5
  <1> QED BY <1>1, <1>2

LEMMA LockingSingle ==
  ASSUME NEW m
  PROVE  Locking(<<m>>) = One(m)
  <1>1. <<>> \in Seq({m}) /\ Append(<<>>, m) = <<m>> OBVIOUS
  <1> QED BY <1>1, LockingOneMore, LockingNothing DEF One

(* A message behind the others, and the first of them. *)
LEMMA LockingLast ==
  ASSUME NEW M, NEW s \in Seq(M), NEW m \in M
  PROVE  Locking(Append(s, m)) = Locking(s) \o One(m)
  BY LockingOneMore, LockingTyped, AddedIs

LEMMA LockingFirst ==
  ASSUME NEW M, NEW s \in Seq(M), s # <<>>
  PROVE  Locking(s) = One(Head(s)) \o Locking(Tail(s))
  <1>1. s = <<Head(s)>> \o Tail(s) /\ Head(s) \in M /\ Tail(s) \in Seq(M) /\ <<Head(s)>> \in Seq(M)
    OBVIOUS
  <1>2. Locking(<<Head(s)>> \o Tail(s)) = Locking(<<Head(s)>>) \o Locking(Tail(s))
    BY <1>1, LockingBoth
  <1> QED BY <1>1, <1>2, LockingSingle

--------------------------------------------------------------------------------
(* Steps of LockRequests *)

(* The two parts of a sequence. *)
LEMMA TwoParts ==
  ASSUME NEW S, NEW p \in Seq(S), NEW r \in Seq(S)
  PROVE  /\ p \o r \in Seq(S) /\ Len(p) \in Nat /\ Len(r) \in Nat
         /\ Len(p \o r) = Len(p) + Len(r)
         /\ SubSeq(p \o r, 1, Len(p)) = p
         /\ SubSeq(p \o r, Len(p) + 1, Len(p \o r)) = r
  <1> DEFINE w == p \o r
             k == Len(p)
             l == Len(r)
  <1>1. /\ w \in Seq(S) /\ k \in Nat /\ l \in Nat /\ Len(w) = k + l
        /\ \A i \in 1 .. k : w[i] = p[i]
        /\ \A i \in 1 .. l : w[k + i] = r[i]
    OBVIOUS
  <1>2. \A i \in 1 .. k + l : w[i] \in S BY <1>1
  <1>3. /\ SubSeq(w, 1, k) \in Seq(S) /\ Len(SubSeq(w, 1, k)) = k
        /\ \A i \in 1 .. k : SubSeq(w, 1, k)[i] = w[i]
    <2> HIDE DEF w, k, l
    <2>1. \A i \in 1 .. k : w[i] \in S BY <1>1, <1>2
    <2> QED BY <1>1, <2>1
  <1>4. /\ SubSeq(w, k + 1, k + l) \in Seq(S) /\ Len(SubSeq(w, k + 1, k + l)) = l
        /\ \A i \in 1 .. l : SubSeq(w, k + 1, k + l)[i] = w[k + i]
    <2> HIDE DEF w, k, l
    <2>1. \A i \in k + 1 .. k + l : w[i] \in S BY <1>1, <1>2
    <2> QED BY <1>1, <2>1
  <1>5. SubSeq(w, 1, k) = p
    <2>1. \A i \in 1 .. Len(p) : SubSeq(w, 1, k)[i] = p[i] BY <1>1, <1>3
    <2>2. Len(SubSeq(w, 1, k)) = Len(p) BY <1>3
    <2> HIDE DEF w, k, l
    <2> QED BY <1>3, <2>1, <2>2, SeqEqual
  <1>6. SubSeq(w, k + 1, Len(w)) = r
    <2>1. \A i \in 1 .. Len(r) : SubSeq(w, k + 1, k + l)[i] = r[i] BY <1>1, <1>4
    <2>2. Len(SubSeq(w, k + 1, k + l)) = Len(r) BY <1>4
    <2>3. SubSeq(w, k + 1, k + l) \in Seq(S) /\ Len(w) = k + l BY <1>1, <1>4
    <2> HIDE DEF w, k, l
    <2> QED BY <2>1, <2>2, <2>3, SeqEqual
  <1> QED BY <1>1, <1>5, <1>6

WayStep == [Abstract!Next]_(Abstract!vars)

(* Who makes the step: the program and the buses, the shell with a call of its  *)
(* own, or somebody else.                                                       *)
Uncounted == UNCHANGED <<sent, changes>>
ShellActs == sent' = sent + 1 /\ UNCHANGED changes
OthersDo == changes' = changes + 1 /\ UNCHANGED sent

LEMMA StandsStill ==
  ASSUME UNCHANGED <<OnTheirWay, shown>>, Uncounted \/ ShellActs \/ OthersDo
  PROVE  WayStep
  <1>1. CASE Uncounted BY <1>1 DEF Uncounted, WayStep, Abstract!vars, Abstract!counted
  <1>2. CASE ShellActs BY <1>2 DEF ShellActs, WayStep, Abstract!Next, Abstract!Ask
  <1>3. CASE OthersDo
    BY <1>3 DEF OthersDo, WayStep, Abstract!Next, Abstract!Disturb, Abstract!OthersAct
  <1> QED BY <1>1, <1>2, <1>3

LEMMA IsAsked ==
  ASSUME NEW x \in BOOLEAN, OnTheirWay \in Seq(BOOLEAN), OnTheirWay' = OnTheirWay \o <<x>>,
         UNCHANGED shown, ShellActs
  PROVE  WayStep
  <1>1. OnTheirWay' = Append(OnTheirWay, x) BY AppendIsConcat
  <1> QED BY <1>1 DEF ShellActs, WayStep, Abstract!Next, Abstract!Ask

LEMMA IsInterjected ==
  ASSUME NEW p \in Seq(BOOLEAN), NEW r \in Seq(BOOLEAN), NEW x \in BOOLEAN,
         OnTheirWay = p \o r, OnTheirWay' = p \o (<<x>> \o r), UNCHANGED shown,
         OthersDo
  PROVE  WayStep
  <1> DEFINE w == p \o r
             i == Len(p) + 1
  <1>1. /\ w \in Seq(BOOLEAN) /\ Len(p) \in Nat /\ i \in 1 .. Len(w) + 1
        /\ SubSeq(w, 1, i - 1) = p /\ SubSeq(w, i, Len(w)) = r
    <2>1. /\ w \in Seq(BOOLEAN) /\ Len(p) \in Nat /\ Len(r) \in Nat
          /\ Len(w) = Len(p) + Len(r)
          /\ SubSeq(w, 1, Len(p)) = p /\ SubSeq(w, Len(p) + 1, Len(w)) = r
      BY TwoParts
    <2> HIDE DEF w
    <2>2. i - 1 = Len(p) BY <2>1
    <2> QED BY <2>1, <2>2
  <1>2. Abstract!InsertAt(w, i, x) = (p \o <<x>>) \o r BY <1>1 DEF Abstract!InsertAt
  <1>3. (p \o <<x>>) \o r = p \o (<<x>> \o r)
    <2>1. <<x>> \in Seq(BOOLEAN) BY Single, Zenon
    <2> QED BY <2>1, Grouped
  <1>4. OnTheirWay' = Abstract!InsertAt(OnTheirWay, i, x) /\ i \in 1 .. Len(OnTheirWay) + 1
    BY <1>1, <1>2, <1>3
  <1> HIDE DEF i
  <1>5. \E lock \in BOOLEAN, k \in 1 .. Len(OnTheirWay) + 1 :
          OnTheirWay' = Abstract!InsertAt(OnTheirWay, k, lock)
    BY <1>4, Zenon
  <1>6. Abstract!OthersAct BY DEF OthersDo, Abstract!OthersAct
  <1>7. Abstract!Interject BY <1>5, <1>6, Zenon DEF Abstract!Interject
  <1> QED BY <1>7 DEF WayStep, Abstract!Next

LEMMA IsLost ==
  ASSUME NEW p \in Seq(BOOLEAN), NEW q \in Seq(BOOLEAN), NEW r \in Seq(BOOLEAN),
         OnTheirWay = p \o (q \o r), OnTheirWay' = p \o r, UNCHANGED shown,
         Uncounted \/ OthersDo
  PROVE  WayStep
  <1>1. CASE q = <<>>
    <2>1. q \o r = r BY <1>1, ConcatEmptySeq
    <2> QED BY <2>1, StandsStill
  <1>2. CASE q # <<>>
    <2> DEFINE w == p \o (q \o r)
               i == Len(p) + 1
               j == Len(p) + Len(q)
    <2>1. Len(q) \in Nat \ {0} BY <1>2
    <2>2. /\ q \o r \in Seq(BOOLEAN) /\ Len(q \o r) = Len(q) + Len(r) /\ Len(r) \in Nat
      BY TwoParts
    <2>3. /\ Len(p) \in Nat /\ Len(w) = Len(p) + Len(q \o r) /\ SubSeq(w, 1, Len(p)) = p
          /\ w \in Seq(BOOLEAN)
      BY <2>2, TwoParts
    <2>4. w = (p \o q) \o r /\ p \o q \in Seq(BOOLEAN) BY Grouped, Joined
    <2>5. SubSeq(w, Len(p \o q) + 1, Len(w)) = r BY <2>4, TwoParts
    <2>6. Len(p \o q) = Len(p) + Len(q) BY TwoParts
    <2>7. DOMAIN w = 1 .. Len(w) BY <2>3
    <2>8. OnTheirWay = w OBVIOUS
    <2> HIDE DEF w
    <2>9. i \in DOMAIN w /\ j \in DOMAIN w /\ i <= j /\ i - 1 = Len(p)
      BY <2>1, <2>2, <2>3, <2>7
    <2>10. OnTheirWay' = SubSeq(w, 1, i - 1) \o SubSeq(w, j + 1, Len(w))
      BY <2>3, <2>5, <2>6, <2>9
    <2> HIDE DEF i, j
    <2>11. Abstract!LoseSome BY <2>8, <2>9, <2>10 DEF Abstract!LoseSome
    <2>12. CASE Uncounted
      BY <2>11, <2>12 DEF Uncounted, WayStep, Abstract!Next, Abstract!Lose, Abstract!counted
    <2>13. CASE OthersDo
      BY <2>11, <2>13 DEF OthersDo, WayStep, Abstract!Next, Abstract!Disturb, Abstract!OthersAct
    <2> QED BY <2>12, <2>13
  <1> QED BY <1>1, <1>2

LEMMA IsShown ==
  ASSUME NEW r \in Seq(BOOLEAN), NEW x \in BOOLEAN,
         OnTheirWay = <<x>> \o r, OnTheirWay' = r, shown' = x, Uncounted
  PROVE  WayStep
  <1>1. OnTheirWay # <<>> /\ Head(OnTheirWay) = x /\ Tail(OnTheirWay) = r
    <2>1. <<x>> \o r # <<>> /\ Head(<<x>> \o r) = x /\ Tail(<<x>> \o r) = r OBVIOUS
    <2> QED BY <2>1, Zenon
  <1> QED BY <1>1 DEF Uncounted, WayStep, Abstract!Next, Abstract!Show, Abstract!counted

LEMMA IsForgotten ==
  ASSUME NEW p \in Seq(BOOLEAN), NEW r \in Seq(BOOLEAN),
         OnTheirWay = p \o r, OnTheirWay' = r, shown' = FALSE, OthersDo
  PROVE  WayStep
  <1> DEFINE w == p \o r
  <1>1. /\ SubSeq(w, Len(p) + 1, Len(w)) = r /\ Len(w) = Len(p) + Len(r)
        /\ Len(p) \in Nat /\ Len(r) \in Nat
    BY TwoParts
  <1>2. OnTheirWay = w OBVIOUS
  <1> HIDE DEF w
  <1>3. Len(p) \in 0 .. Len(w) BY <1>1
  <1>4. \E i \in 0 .. Len(OnTheirWay) : OnTheirWay' = SubSeq(OnTheirWay, i + 1, Len(OnTheirWay))
    BY <1>1, <1>2, <1>3
  <1> QED BY <1>4 DEF OthersDo, WayStep, Abstract!Next, Abstract!Forget, Abstract!OthersAct

--------------------------------------------------------------------------------
(* The four queues on the way *)

MethodsOf(requests) == [i \in DOMAIN requests |-> requests[i].method]
CallsOf(messages) == [i \in DOMAIN messages |-> messages[i].call]

ForShell == Locking(toShell)
FromLogind == Locking(inbox)
ForLogind == Locking(MethodsOf(calls))
FromShell == Locking(CallsOf(toManager))

(* One queue behind another: \o under a name that the provers leave alone.      *)
p ++ q == p \o q
Way == ForShell ++ (FromLogind ++ (ForLogind ++ FromShell))

Paths(P) == [method : Methods, path : P]

LEMMA FieldsTyped ==
  ASSUME NEW P, NEW c \in Seq(Paths(P)), NEW m \in Seq(Requests)
  PROVE  /\ MethodsOf(c) \in Seq(Methods)
         /\ CallsOf(m) \in Seq({"idle", "busy", "Lock", "Unlock"})
  <1>1. DOMAIN c = 1 .. Len(c) /\ Len(c) \in Nat /\ \A i \in 1 .. Len(c) : c[i] \in Paths(P)
    OBVIOUS
  <1>2. \A i \in 1 .. Len(c) : c[i].method \in Methods BY <1>1 DEF Paths
  <1>3. DOMAIN m = 1 .. Len(m) /\ Len(m) \in Nat /\ \A i \in 1 .. Len(m) : m[i] \in Requests
    OBVIOUS
  <1>4. \A i \in 1 .. Len(m) : m[i].call \in {"idle", "busy", "Lock", "Unlock"}
    BY <1>3 DEF Requests
  <1>5. MethodsOf(c) \in Seq(Methods) BY <1>1, <1>2 DEF MethodsOf
  <1>6. CallsOf(m) \in Seq({"idle", "busy", "Lock", "Unlock"}) BY <1>3, <1>4 DEF CallsOf
  <1> QED BY <1>5, <1>6

LEMMA AllGrouped ==
  ASSUME NEW a \in Seq(BOOLEAN), NEW b \in Seq(BOOLEAN), NEW c \in Seq(BOOLEAN),
         NEW d \in Seq(BOOLEAN)
  PROVE  /\ ((a \o b) \o c) \o d = a \o (b \o (c \o d))
         /\ a \o (b \o (c \o d)) \in Seq(BOOLEAN)
  <1>1. /\ a \o b \in Seq(BOOLEAN) /\ c \o d \in Seq(BOOLEAN)
    BY Joined
  <1>2. ((a \o b) \o c) \o d = (a \o b) \o (c \o d) BY <1>1, Grouped
  <1>3. (a \o b) \o (c \o d) = a \o (b \o (c \o d)) BY <1>1, Grouped
  <1>4. b \o (c \o d) \in Seq(BOOLEAN) BY <1>1, Joined
  <1>5. a \o (b \o (c \o d)) \in Seq(BOOLEAN) BY <1>4, Joined
  <1> QED BY <1>2, <1>3, <1>5

Queues == Seq(BOOLEAN)

PartsTyped ==
  /\ ForShell \in Queues /\ FromLogind \in Queues
  /\ ForLogind \in Queues /\ FromShell \in Queues
  /\ Way \in Queues
  /\ OnTheirWay = IF Free THEN Way ELSE <<>>

LEMMA PartsNow ==
  ASSUME ClientInv
  PROVE  PartsTyped
  <1>1. /\ toShell \in Seq(Replies) /\ inbox \in Seq(Messages)
        /\ calls \in Seq(Paths(subscribed)) /\ toManager \in Seq(Requests)
    BY DEF ClientInv, ShellInv, LogindInv, QueueInv, Asked, Paths
  <1>2. /\ ForShell \in Seq(BOOLEAN) /\ FromLogind \in Seq(BOOLEAN)
        /\ ForLogind \in Seq(BOOLEAN) /\ FromShell \in Seq(BOOLEAN)
    BY <1>1, FieldsTyped, LockingTyped DEF ForShell, FromLogind, ForLogind, FromShell
  <1>3. /\ ((ForShell \o FromLogind) \o ForLogind) \o FromShell = Way
        /\ Way \in Seq(BOOLEAN)
    BY <1>2, AllGrouped DEF Way, ++
  <1>4. OnTheirWay = IF Free THEN Way ELSE <<>>
    BY <1>3 DEF OnTheirWay, ForShell, FromLogind, ForLogind, FromShell, MethodsOf, CallsOf
  <1> QED BY <1>2, <1>3, <1>4 DEF PartsTyped, Queues

LEMMA PartsNext ==
  ASSUME ClientInv'
  PROVE  PartsTyped'
  <1>1. /\ toShell' \in Seq(Replies) /\ inbox' \in Seq(Messages)
        /\ calls' \in Seq(Paths(subscribed')) /\ toManager' \in Seq(Requests)
    BY DEF ClientInv, ShellInv, LogindInv, QueueInv, Asked, Paths
  <1>2. /\ ForShell' \in Seq(BOOLEAN) /\ FromLogind' \in Seq(BOOLEAN)
        /\ ForLogind' \in Seq(BOOLEAN) /\ FromShell' \in Seq(BOOLEAN)
    BY <1>1, FieldsTyped, LockingTyped DEF ForShell, FromLogind, ForLogind, FromShell
  <1>3. /\ ((ForShell' \o FromLogind') \o ForLogind') \o FromShell' = Way'
        /\ Way' \in Seq(BOOLEAN)
    BY <1>2, AllGrouped DEF Way, ++
  <1>4. OnTheirWay' = IF Free' THEN Way' ELSE <<>>
    BY <1>3 DEF OnTheirWay, ForShell, FromLogind, ForLogind, FromShell, MethodsOf, CallsOf
  <1> QED BY <1>2, <1>3, <1>4 DEF PartsTyped, Queues

(* What single messages ask for. *)
LEMMA Ones ==
  /\ \A m \in {"Lock", "Locked", "sleep"} : One(m) = <<TRUE>>
  /\ \A m \in {"Unlock", "Unlocked"} : One(m) = <<FALSE>>
  /\ \A m \in {"registered", "unregistered", "changed", "active", "inactive", "Get",
               "idle", "busy"} : One(m) = <<>>
  <1>1. \A m \in {"Lock", "Locked", "sleep"} : One(m) = <<TRUE>>
    BY OneIs DEF AsksToLock
  <1>2. \A m \in {"Unlock", "Unlocked"} : One(m) = <<FALSE>>
    BY OneIs DEF AsksToLock, AsksToUnlock
  <1>3. \A m \in {"registered", "unregistered", "changed", "active", "inactive", "Get",
                  "idle", "busy"} : One(m) = <<>>
    BY OneIs DEF AsksToLock, AsksToUnlock
  <1> QED BY <1>1, <1>2, <1>3

(* A message is taken from the inbox, or put into it. *)
LEMMA InboxTaken ==
  ASSUME inbox \in Seq(Messages), NEW m, Receive(m)
  PROVE  FromLogind = One(m) \o FromLogind'
  BY LockingFirst DEF Receive, FromLogind

LEMMA InboxGrows ==
  ASSUME inbox \in Seq(Messages), NEW m \in Messages, NEW messages \in {<<>>, <<m>>},
         Deliver(messages)
  PROVE  FromLogind' = FromLogind \/ (messages # <<>> /\ FromLogind' = FromLogind \o One(m))
  <1>1. inbox' = IF messages = <<>> THEN inbox ELSE Append(inbox, m) BY OneOrNone
  <1> QED BY <1>1, LockingLast DEF FromLogind

LEMMA NothingAsked ==
  ASSUME inbox \in Seq(Messages), FromLogind \in Seq(BOOLEAN),
         NEW m \in {"registered", "unregistered", "changed", "active", "inactive"},
         NEW messages \in {<<>>, <<m>>}, Deliver(messages)
  PROVE  FromLogind' = FromLogind
  <1>1. One(m) = <<>> /\ m \in Messages BY Ones DEF Messages
  <1>2. FromLogind \o <<>> = FromLogind BY ConcatEmptySeq
  <1> QED BY <1>1, <1>2, InboxGrows

(* A call is added to those for logind. *)
LEMMA MethodsJoined ==
  ASSUME NEW P, NEW c \in Seq(Paths(P)), NEW r \in Seq(Paths(P))
  PROVE  /\ Locking(MethodsOf(c \o r)) = Locking(MethodsOf(c)) \o Locking(MethodsOf(r))
         /\ c # <<>> => Locking(MethodsOf(c)) = One(Head(c).method) \o Locking(MethodsOf(Tail(c)))
  <1>1. MethodsOf(c) \in Seq(Methods) /\ MethodsOf(r) \in Seq(Methods)
    <2>1. <<>> \in Seq(Requests) OBVIOUS
    <2> QED BY <2>1, FieldsTyped
  <1>2. MethodsOf(c \o r) = MethodsOf(c) \o MethodsOf(r)
    <2> DEFINE u == MethodsOf(c \o r)
               v == MethodsOf(c) \o MethodsOf(r)
               k == Len(c)
               l == Len(r)
    <2>1. c \o r \in Seq(Paths(P)) BY Joined
    <2>2. u \in Seq(Methods) /\ v \in Seq(Methods)
      <3>1. <<>> \in Seq(Requests) OBVIOUS
      <3>2. u \in Seq(Methods) BY <2>1, <3>1, FieldsTyped
      <3> QED BY <1>1, <3>2, Joined
    <2>3. /\ k \in Nat /\ l \in Nat /\ DOMAIN c = 1 .. k /\ DOMAIN r = 1 .. l
          /\ DOMAIN (c \o r) = 1 .. k + l /\ Len(c \o r) = k + l
      OBVIOUS
    <2>4. /\ Len(u) = k + l /\ \A i \in 1 .. k + l : u[i] = (c \o r)[i].method
      BY <2>2, <2>3 DEF MethodsOf
    <2>5. /\ Len(MethodsOf(c)) = k /\ \A i \in 1 .. k : MethodsOf(c)[i] = c[i].method
          /\ Len(MethodsOf(r)) = l /\ \A i \in 1 .. l : MethodsOf(r)[i] = r[i].method
      BY <1>1, <2>3 DEF MethodsOf
    <2>6. /\ Len(v) = k + l
          /\ \A i \in 1 .. k + l : v[i] = IF i <= k THEN MethodsOf(c)[i] ELSE MethodsOf(r)[i - k]
      <3>1. /\ Len(v) = Len(MethodsOf(c)) + Len(MethodsOf(r))
            /\ \A i \in 1 .. Len(MethodsOf(c)) + Len(MethodsOf(r)) :
                 v[i] = IF i <= Len(MethodsOf(c)) THEN MethodsOf(c)[i]
                        ELSE MethodsOf(r)[i - Len(MethodsOf(c))]
        BY <1>1, ConcatProperties
      <3>2. Len(MethodsOf(c)) = k /\ Len(MethodsOf(r)) = l BY <2>5
      <3> HIDE DEF v, k, l
      <3> QED BY <3>1, <3>2
    <2>7. \A i \in 1 .. k + l : (c \o r)[i] = IF i <= k THEN c[i] ELSE r[i - k]
      BY ConcatProperties
    <2>8. \A i \in 1 .. k + l : u[i] = v[i]
      <3> TAKE i \in 1 .. k + l
      <3>1. CASE i <= k
        <4>1. i \in 1 .. k BY <2>3, <3>1
        <4> QED BY <2>4, <2>5, <2>6, <2>7, <3>1, <4>1
      <3>2. CASE ~(i <= k)
        <4>1. i - k \in 1 .. l BY <2>3, <3>2
        <4> QED BY <2>4, <2>5, <2>6, <2>7, <3>2, <4>1
      <3> QED BY <3>1, <3>2
    <2> HIDE DEF u, v
    <2>9. u = v BY <2>2, <2>4, <2>6, <2>8, SeqEqual
    <2> QED BY <2>9 DEF u, v
  <1>3. ASSUME c # <<>> PROVE MethodsOf(c) # <<>> /\ Head(MethodsOf(c)) = Head(c).method
                              /\ Tail(MethodsOf(c)) = MethodsOf(Tail(c))
    BY <1>3 DEF MethodsOf
  <1> QED BY <1>1, <1>2, <1>3, LockingBoth, LockingFirst

LEMMA CallsFirst ==
  ASSUME NEW m \in Seq(Requests), m # <<>>
  PROVE  Locking(CallsOf(m)) = One(Head(m).call) \o Locking(CallsOf(Tail(m)))
  <1>1. CallsOf(m) \in Seq({"idle", "busy", "Lock", "Unlock"})
    <2>1. <<>> \in Seq(Paths({})) OBVIOUS
    <2> QED BY <2>1, FieldsTyped
  <1>2. CallsOf(m) # <<>> /\ Head(CallsOf(m)) = Head(m).call /\ Tail(CallsOf(m)) = CallsOf(Tail(m))
    BY DEF CallsOf
  <1> QED BY <1>1, <1>2, LockingFirst

LEMMA CallsLast ==
  ASSUME NEW m \in Seq(Requests), NEW r \in Requests
  PROVE  Locking(CallsOf(Append(m, r))) = Locking(CallsOf(m)) \o One(r.call)
  <1>1. CallsOf(m) \in Seq({"idle", "busy", "Lock", "Unlock"})
    <2>1. <<>> \in Seq(Paths({})) OBVIOUS
    <2> QED BY <2>1, FieldsTyped
  <1>2. CallsOf(Append(m, r)) = Append(CallsOf(m), r.call) BY DEF CallsOf
  <1>3. r.call \in {"idle", "busy", "Lock", "Unlock"} BY DEF Requests
  <1> QED BY <1>1, <1>2, <1>3, LockingLast

--------------------------------------------------------------------------------
(* What a step does to the four queues *)

LEMMA Queueing ==
  /\ \A p, q \in Queues : p ++ q \in Queues
  /\ \A p, q, r \in Queues : (p ++ q) ++ r = p ++ (q ++ r)
  /\ <<>> \in Queues
  /\ \A p \in Queues : p ++ <<>> = p /\ <<>> ++ p = p
  /\ \A x \in BOOLEAN : <<x>> \in Queues
  <1>1. \A p, q \in Queues : p \o q \in Queues BY Joined DEF Queues
  <1>2. \A p, q, r \in Queues : (p \o q) \o r = p \o (q \o r) BY Grouped DEF Queues
  <1>3. <<>> \in Queues BY EmptySeq DEF Queues
  <1>4. \A p \in Queues : p \o <<>> = p /\ <<>> \o p = p BY ConcatEmptySeq DEF Queues
  <1>5. \A x \in BOOLEAN : <<x>> \in Queues BY Single, Zenon DEF Queues
  <1> QED BY <1>1, <1>2, <1>3, <1>4, <1>5 DEF ++

(* Where four queues, one behind the other, may be cut. *)
LEMMA FourQueues ==
  ASSUME NEW a \in Queues, NEW b \in Queues, NEW c \in Queues, NEW d \in Queues
  PROVE  /\ a ++ (b ++ (c ++ d)) = (a ++ b) ++ (c ++ d)
         /\ a ++ (b ++ (c ++ d)) = ((a ++ b) ++ c) ++ d
         /\ b ++ (c ++ d) \in Queues /\ c ++ d \in Queues
         /\ a ++ b \in Queues /\ (a ++ b) ++ c \in Queues
  <1>1. a ++ b \in Queues /\ c ++ d \in Queues BY Queueing
  <1>2. (a ++ b) ++ c \in Queues /\ b ++ (c ++ d) \in Queues BY <1>1, Queueing
  <1>3. a ++ (b ++ (c ++ d)) = (a ++ b) ++ (c ++ d) BY <1>1, Queueing
  <1>4. (a ++ b) ++ (c ++ d) = ((a ++ b) ++ c) ++ d BY <1>1, Queueing
  <1> QED BY <1>1, <1>2, <1>3, <1>4

(* A request that moves from one queue to the next keeps its place among four. *)
LEMMA KeepsPlace ==
  ASSUME NEW a \in Queues, NEW b \in Queues, NEW x \in Queues, NEW r \in Queues
  PROVE  /\ (a ++ x) ++ (b ++ r) = a ++ ((x ++ b) ++ r)
         /\ (a ++ x) ++ b = a ++ (x ++ b)
  <1>1. b ++ r \in Queues BY Queueing
  <1>2. (a ++ x) ++ (b ++ r) = a ++ (x ++ (b ++ r)) BY <1>1, Queueing
  <1>3. x ++ (b ++ r) = (x ++ b) ++ r BY Queueing
  <1>4. (a ++ x) ++ b = a ++ (x ++ b) BY Queueing
  <1> QED BY <1>2, <1>3, <1>4

LEMMA SameQueues ==
  ASSUME PartsTyped, PartsTyped', Free, Free', ForShell' = ForShell, FromLogind' = FromLogind,
         ForLogind' = ForLogind, FromShell' = FromShell, shown' = shown,
         Uncounted \/ ShellActs \/ OthersDo
  PROVE  WayStep
  <1>1. Way' = Way BY DEF Way
  <1> QED BY <1>1, StandsStill DEF PartsTyped

(* A request that is taken from one queue is put into the next. *)
LEMMA PassedOn ==
  ASSUME PartsTyped, PartsTyped', Free, Free', NEW x \in Queues, shown' = shown, Uncounted,
         \/ /\ FromLogind = x ++ FromLogind' /\ ForShell' = ForShell ++ x
            /\ ForLogind' = ForLogind /\ FromShell' = FromShell
         \/ /\ ForLogind = x ++ ForLogind' /\ FromLogind' = FromLogind ++ x
            /\ ForShell' = ForShell /\ FromShell' = FromShell
         \/ /\ FromShell = x ++ FromShell' /\ ForLogind' = ForLogind ++ x
            /\ ForShell' = ForShell /\ FromLogind' = FromLogind
  PROVE  WayStep
  <1> USE DEF PartsTyped
  <1>1. CASE /\ FromLogind = x ++ FromLogind' /\ ForShell' = ForShell ++ x
             /\ ForLogind' = ForLogind /\ FromShell' = FromShell
    <2>1. Way = ForShell ++ ((x ++ FromLogind') ++ (ForLogind ++ FromShell)) BY <1>1 DEF Way
    <2>2. Way' = (ForShell ++ x) ++ (FromLogind' ++ (ForLogind ++ FromShell)) BY <1>1 DEF Way
    <2>3. PICK r \in Queues : r = ForLogind ++ FromShell BY Queueing
    <2>4. (ForShell ++ x) ++ (FromLogind' ++ r) = ForShell ++ ((x ++ FromLogind') ++ r)
      BY KeepsPlace
    <2>5. Way' = Way BY <2>1, <2>2, <2>3, <2>4
    <2> QED BY <2>5, StandsStill
  <1>2. CASE /\ ForLogind = x ++ ForLogind' /\ FromLogind' = FromLogind ++ x
             /\ ForShell' = ForShell /\ FromShell' = FromShell
    <2>1. Way = ForShell ++ (FromLogind ++ ((x ++ ForLogind') ++ FromShell)) BY <1>2 DEF Way
    <2>2. Way' = ForShell ++ ((FromLogind ++ x) ++ (ForLogind' ++ FromShell)) BY <1>2 DEF Way
    <2>3. (FromLogind ++ x) ++ (ForLogind' ++ FromShell) =
            FromLogind ++ ((x ++ ForLogind') ++ FromShell)
      BY KeepsPlace
    <2>4. Way' = Way BY <2>1, <2>2, <2>3
    <2> QED BY <2>4, StandsStill
  <1>3. CASE /\ FromShell = x ++ FromShell' /\ ForLogind' = ForLogind ++ x
             /\ ForShell' = ForShell /\ FromLogind' = FromLogind
    <2>1. Way = ForShell ++ (FromLogind ++ (ForLogind ++ (x ++ FromShell'))) BY <1>3 DEF Way
    <2>2. Way' = ForShell ++ (FromLogind ++ ((ForLogind ++ x) ++ FromShell')) BY <1>3 DEF Way
    <2>3. (ForLogind ++ x) ++ FromShell' = ForLogind ++ (x ++ FromShell') BY KeepsPlace
    <2>4. Way' = Way BY <2>1, <2>2, <2>3
    <2> QED BY <2>4, StandsStill
  <1> QED BY <1>1, <1>2, <1>3

(* A request gets in behind those in a queue of the system bus. *)
LEMMA GetsIn ==
  ASSUME PartsTyped, PartsTyped', Free, Free', NEW x \in BOOLEAN, shown' = shown,
         OthersDo, ForShell' = ForShell, FromShell' = FromShell,
         \/ FromLogind' = FromLogind ++ <<x>> /\ ForLogind' = ForLogind
         \/ FromLogind' = FromLogind /\ ForLogind' = ForLogind ++ <<x>>
  PROVE  WayStep
  <1> USE DEF PartsTyped
  <1>1. <<x>> \in Queues BY Queueing, Zenon
  <1>2. CASE FromLogind' = FromLogind ++ <<x>> /\ ForLogind' = ForLogind
    <2>1. PICK p \in Queues, r \in Queues :
            p = ForShell ++ FromLogind /\ r = ForLogind ++ FromShell
      <3>1. ForShell ++ FromLogind \in Queues /\ ForLogind ++ FromShell \in Queues
        BY Queueing
      <3> QED BY <3>1
    <2>2. Way = p ++ r
      <3>1. ForShell ++ (FromLogind ++ r) = (ForShell ++ FromLogind) ++ r BY Queueing
      <3> QED BY <2>1, <3>1 DEF Way
    <2>3. Way' = ForShell ++ ((FromLogind ++ <<x>>) ++ r) BY <1>2, <2>1 DEF Way
    <2>4. (FromLogind ++ <<x>>) ++ r = FromLogind ++ (<<x>> ++ r) BY <1>1, Queueing
    <2>5. <<x>> ++ r \in Queues BY <1>1, Queueing
    <2>6. ForShell ++ (FromLogind ++ (<<x>> ++ r)) = p ++ (<<x>> ++ r)
      BY <2>1, <2>5, Queueing
    <2>7. OnTheirWay = p ++ r /\ OnTheirWay' = p ++ (<<x>> ++ r)
      BY <2>2, <2>3, <2>4, <2>6
    <2> QED BY <2>7, IsInterjected DEF Queues, ++
  <1>3. CASE FromLogind' = FromLogind /\ ForLogind' = ForLogind ++ <<x>>
    <2>1. PICK p \in Queues : p = (ForShell ++ FromLogind) ++ ForLogind BY FourQueues
    <2>2. Way = p ++ FromShell BY <2>1, FourQueues DEF Way
    <2>3. Way' = ForShell ++ (FromLogind ++ ((ForLogind ++ <<x>>) ++ FromShell))
      BY <1>3 DEF Way
    <2>4. (ForLogind ++ <<x>>) ++ FromShell = ForLogind ++ (<<x>> ++ FromShell)
      BY <1>1, Queueing
    <2>5. <<x>> ++ FromShell \in Queues BY <1>1, Queueing
    <2>6. ForShell ++ (FromLogind ++ (ForLogind ++ (<<x>> ++ FromShell))) =
            p ++ (<<x>> ++ FromShell)
      BY <2>1, <2>5, FourQueues
    <2>7. OnTheirWay = p ++ FromShell /\ OnTheirWay' = p ++ (<<x>> ++ FromShell)
      BY <2>2, <2>3, <2>4, <2>6
    <2> QED BY <2>7, IsInterjected DEF Queues, ++
  <1> QED BY <1>2, <1>3

(* A request of the shell stands behind all others. *)
LEMMA IsSent ==
  ASSUME PartsTyped, PartsTyped', Free, Free', NEW x \in BOOLEAN, shown' = shown,
         ForShell' = ForShell, FromLogind' = FromLogind, ForLogind' = ForLogind,
         FromShell' = FromShell ++ <<x>>, ShellActs
  PROVE  WayStep
  <1> USE DEF PartsTyped
  <1>1. <<x>> \in Queues BY Queueing, Zenon
  <1>2. FromShell ++ <<x>> \in Queues BY <1>1, Queueing
  <1>3. PICK p \in Queues : p = (ForShell ++ FromLogind) ++ ForLogind BY FourQueues
  <1>4. Way = p ++ FromShell BY <1>3, FourQueues DEF Way
  <1>5. Way' = ForShell ++ (FromLogind ++ (ForLogind ++ (FromShell ++ <<x>>))) BY DEF Way
  <1>6. Way' = p ++ (FromShell ++ <<x>>) BY <1>2, <1>3, <1>5, FourQueues
  <1>7. p ++ (FromShell ++ <<x>>) = (p ++ FromShell) ++ <<x>> BY <1>1, Queueing
  <1>8. OnTheirWay' = OnTheirWay ++ <<x>> BY <1>4, <1>6, <1>7
  <1> QED BY <1>8, IsAsked DEF Queues, ++

(* A call of the shell is dropped, or all that logind has not answered. *)
LEMMA IsDropped ==
  ASSUME PartsTyped, PartsTyped', Free, Free', NEW x \in Queues, shown' = shown,
         ForShell' = ForShell, FromLogind' = FromLogind, Uncounted \/ OthersDo,
         \/ FromShell = x ++ FromShell' /\ ForLogind' = ForLogind
         \/ ForLogind = x ++ ForLogind' /\ FromShell' = FromShell
  PROVE  WayStep
  <1> USE DEF PartsTyped
  <1>1. CASE FromShell = x ++ FromShell' /\ ForLogind' = ForLogind
    <2>1. PICK p \in Queues : p = (ForShell ++ FromLogind) ++ ForLogind BY FourQueues
    <2>2. Way = p ++ (x ++ FromShell') BY <1>1, <2>1, FourQueues DEF Way
    <2>3. Way' = ForShell ++ (FromLogind ++ (ForLogind ++ FromShell')) BY <1>1 DEF Way
    <2>4. Way' = p ++ FromShell' BY <2>1, <2>3, FourQueues
    <2>5. OnTheirWay = p ++ (x ++ FromShell') /\ OnTheirWay' = p ++ FromShell'
      BY <2>2, <2>4
    <2> QED BY <2>5, IsLost DEF Queues, ++
  <1>2. CASE ForLogind = x ++ ForLogind' /\ FromShell' = FromShell
    <2>1. PICK p \in Queues, r \in Queues :
            p = ForShell ++ FromLogind /\ r = ForLogind' ++ FromShell
      <3>1. ForShell ++ FromLogind \in Queues /\ ForLogind' ++ FromShell \in Queues
        BY Queueing
      <3> QED BY <3>1
    <2>2. Way = p ++ ((x ++ ForLogind') ++ FromShell)
      <3>1. PICK t \in Queues : t = ForLogind ++ FromShell BY Queueing
      <3>2. ForShell ++ (FromLogind ++ t) = (ForShell ++ FromLogind) ++ t BY Queueing
      <3> QED BY <1>2, <2>1, <3>1, <3>2 DEF Way
    <2>3. (x ++ ForLogind') ++ FromShell = x ++ r BY <2>1, Queueing
    <2>4. Way' = ForShell ++ (FromLogind ++ r) BY <1>2, <2>1 DEF Way
    <2>5. Way' = p ++ r BY <2>1, <2>4, Queueing
    <2>6. OnTheirWay = p ++ (x ++ r) /\ OnTheirWay' = p ++ r BY <2>2, <2>3, <2>5
    <2> QED BY <2>6, IsLost DEF Queues, ++
  <1> QED BY <1>1, <1>2

(* The shell is told, or a new one is not. *)
LEMMA IsTold ==
  ASSUME PartsTyped, PartsTyped', Free, Free', NEW x \in BOOLEAN, shown' = x,
         ForShell = <<x>> ++ ForShell', FromLogind' = FromLogind, ForLogind' = ForLogind,
         FromShell' = FromShell, Uncounted
  PROVE  WayStep
  <1> USE DEF PartsTyped
  <1>1. <<x>> \in Queues BY Queueing, Zenon
  <1>2. PICK r \in Queues : r = FromLogind ++ (ForLogind ++ FromShell) BY FourQueues
  <1>3. Way = (<<x>> ++ ForShell') ++ r /\ Way' = ForShell' ++ r BY <1>2 DEF Way
  <1>4. Way = <<x>> ++ Way' BY <1>1, <1>3, Queueing
  <1>5. OnTheirWay = <<x>> ++ Way' /\ OnTheirWay' = Way' BY <1>4
  <1> QED BY <1>5, IsShown DEF Queues, ++

LEMMA IsNotTold ==
  ASSUME PartsTyped, PartsTyped', Free, Free', shown' = FALSE,
         ForShell' = <<>>, FromLogind' = FromLogind, ForLogind' = ForLogind,
         FromShell' = FromShell, OthersDo
  PROVE  WayStep
  <1> USE DEF PartsTyped
  <1>1. PICK r \in Queues : r = FromLogind ++ (ForLogind ++ FromShell) BY FourQueues
  <1>2. Way = ForShell ++ r /\ Way' = <<>> ++ r BY <1>1 DEF Way
  <1>3. OnTheirWay = ForShell ++ r /\ OnTheirWay' = r BY <1>2, Queueing
  <1> QED BY <1>3, IsForgotten DEF Queues, ++

(* The main thread hangs: nothing of all that will be shown. *)
LEMMA IsStuck ==
  ASSUME PartsTyped, PartsTyped', Free, ~Free', shown' = shown, Uncounted
  PROVE  WayStep
  <1> USE DEF PartsTyped
  <1>1. PICK none \in Queues : none = <<>> BY Queueing
  <1>2. Way = none ++ (Way ++ none) /\ none = none ++ none BY <1>1, Queueing
  <1>3. OnTheirWay = none ++ (Way ++ none) /\ OnTheirWay' = none ++ none
    BY <1>1, <1>2
  <1> QED BY <1>3, IsLost DEF Queues, ++

--------------------------------------------------------------------------------
(* What is taken from a queue or put into it *)

LEMMA OneQueued == ASSUME NEW m PROVE One(m) \in Queues /\ One(m) ++ <<>> = One(m)
  <1>1. One(m) \in Queues BY OneIs DEF Queues
  <1> QED BY <1>1, Queueing

LEMMA QueuesStay ==
  /\ toShell' = toShell => ForShell' = ForShell
  /\ inbox' = inbox => FromLogind' = FromLogind
  /\ calls' = calls => ForLogind' = ForLogind
  /\ toManager' = toManager => FromShell' = FromShell
  BY DEF ForShell, FromLogind, ForLogind, FromShell, MethodsOf, CallsOf

LEMMA ShellHears ==
  ASSUME ClientInv, NEW m, Hears(m)
  PROVE  ForShell = One(m) ++ ForShell'
  <1>1. /\ toShell \in Seq(Replies) /\ toShell # <<>>
        /\ Head(toShell) = m /\ toShell' = Tail(toShell)
    BY DEF ClientInv, ShellInv, Hears
  <1>2. Locking(toShell) = One(m) \o Locking(Tail(toShell)) BY <1>1, LockingFirst
  <1> QED BY <1>1, <1>2 DEF ForShell, ++

LEMMA ShellGets ==
  ASSUME ClientInv, NEW m \in Replies, toShell' = Append(toShell, m)
  PROVE  ForShell' = ForShell ++ One(m)
  <1>1. toShell \in Seq(Replies) BY DEF ClientInv, ShellInv
  <1>2. Locking(Append(toShell, m)) = Locking(toShell) \o One(m) BY <1>1, LockingLast
  <1> QED BY <1>2 DEF ForShell, ++

LEMMA InboxTakes ==
  ASSUME ClientInv, NEW m, Receive(m)
  PROVE  FromLogind = One(m) ++ FromLogind'
  <1>1. inbox \in Seq(Messages) BY DEF ClientInv, LogindInv, QueueInv
  <1> QED BY <1>1, InboxTaken DEF ++

LEMMA InboxGets ==
  ASSUME ClientInv, NEW m \in Messages, NEW messages \in {<<>>, <<m>>}, Deliver(messages)
  PROVE  FromLogind' = FromLogind \/ (messages # <<>> /\ FromLogind' = FromLogind ++ One(m))
  <1>1. inbox \in Seq(Messages) BY DEF ClientInv, LogindInv, QueueInv
  <1> QED BY <1>1, InboxGrows DEF ++

LEMMA ManagerTakes ==
  ASSUME ClientInv, toManager # <<>>, toManager' = Tail(toManager)
  PROVE  FromShell = One(Head(toManager).call) ++ FromShell'
  <1>1. toManager \in Seq(Requests) BY DEF ClientInv, ShellInv
  <1>2. Locking(CallsOf(toManager)) =
          One(Head(toManager).call) \o Locking(CallsOf(Tail(toManager)))
    BY <1>1, CallsFirst
  <1>3. FromShell' = Locking(CallsOf(Tail(toManager))) BY DEF FromShell, CallsOf
  <1> QED BY <1>2, <1>3 DEF FromShell, ++

LEMMA ManagerGets ==
  ASSUME ClientInv, NEW call \in {"idle", "busy", "Lock", "Unlock"}, Sends(call)
  PROVE  FromShell' = FromShell ++ One(call)
  <1>1. toManager \in Seq(Requests) BY DEF ClientInv, ShellInv
  <1>2. Message(call) \in Requests /\ Message(call).call = call BY DEF Message, Requests
  <1>3. Locking(CallsOf(Append(toManager, Message(call)))) =
          Locking(CallsOf(toManager)) \o One(call)
    BY <1>1, <1>2, CallsLast
  <1>4. FromShell' = Locking(CallsOf(Append(toManager, Message(call))))
    BY DEF Sends, FromShell, CallsOf
  <1> QED BY <1>3, <1>4 DEF FromShell, ++

LEMMA CallsTyped ==
  ASSUME ClientInv
  PROVE  calls \in Seq(Paths(Sessions)) /\ calls \in Seq(Paths(subscribed))
  <1>1. calls \in Seq(Paths(subscribed)) BY DEF ClientInv, LogindInv, QueueInv, Asked, Paths
  <1>2. Paths(subscribed) \subseteq Paths(Sessions)
    BY DEF Paths, ClientInv, LogindInv, StateInv
  <1> QED BY <1>1, <1>2, LargerSeq

LEMMA LogindTakes ==
  ASSUME ClientInv, calls # <<>>, calls' = Tail(calls)
  PROVE  ForLogind = One(Head(calls).method) ++ ForLogind'
  <1>1. <<>> \in Seq(Paths(Sessions)) OBVIOUS
  <1>2. Locking(MethodsOf(calls)) = One(Head(calls).method) \o Locking(MethodsOf(Tail(calls)))
    BY <1>1, CallsTyped, MethodsJoined
  <1>3. ForLogind' = Locking(MethodsOf(Tail(calls))) BY DEF ForLogind, MethodsOf
  <1> QED BY <1>2, <1>3 DEF ForLogind, ++

LEMMA LogindGets ==
  ASSUME ClientInv, NEW requests \in Seq(Paths(Sessions)), Calls(requests)
  PROVE  ForLogind' = IF up THEN ForLogind ++ Locking(MethodsOf(requests)) ELSE ForLogind
  <1>1. CASE up
    <2>1. Locking(MethodsOf(calls \o requests)) =
            Locking(MethodsOf(calls)) \o Locking(MethodsOf(requests))
      BY CallsTyped, MethodsJoined
    <2>2. ForLogind' = Locking(MethodsOf(calls \o requests))
      BY <1>1 DEF Calls, ForLogind, MethodsOf
    <2> QED BY <1>1, <2>1, <2>2 DEF ForLogind, ++
  <1>2. CASE ~up BY <1>2, QueuesStay DEF Calls
  <1> QED BY <1>1, <1>2

LEMMA OneCall ==
  ASSUME NEW method \in Methods, NEW path \in Sessions
  PROVE  /\ <<Call(method, path)>> \in Seq(Paths(Sessions))
         /\ Locking(MethodsOf(<<Call(method, path)>>)) = One(method)
  <1>1. Call(method, path) \in Paths(Sessions) BY DEF Call, Paths
  <1>2. MethodsOf(<<Call(method, path)>>) = <<method>> BY DEF MethodsOf, Call
  <1> QED BY <1>1, <1>2, Single, LockingSingle

(* What is asked of logind when a session is found or changes is no lock. *)
LEMMA OnlyNews ==
  ASSUME ClientInv, NEW path \in Sessions,
         Calls(GetProperties(path)) \/ Calls(GetProperties(path) \o handleConnectedChanged(path))
  PROVE  ForLogind' = ForLogind
  <1>1. /\ GetProperties(path) \in Seq(Paths(Sessions))
        /\ handleConnectedChanged(path) \in Seq(Paths(Sessions))
        /\ Locking(MethodsOf(GetProperties(path))) = <<>>
        /\ Locking(MethodsOf(handleConnectedChanged(path))) = <<>>
    <2>1. "Get" \in Methods /\ Hint(FALSE) \in Methods /\ Hint(FALSE) = "busy"
      BY DEF Methods, Hint
    <2>2. One("Get") = <<>> /\ One("busy") = <<>> BY Ones
    <2> QED BY <2>1, <2>2, OneCall DEF GetProperties, handleConnectedChanged
  <1>2. PICK requests \in Seq(Paths(Sessions)) :
          Calls(requests) /\ Locking(MethodsOf(requests)) = <<>>
    <2>1. CASE Calls(GetProperties(path)) BY <1>1, <2>1
    <2>2. CASE Calls(GetProperties(path) \o handleConnectedChanged(path))
      <3>1. GetProperties(path) \o handleConnectedChanged(path) \in Seq(Paths(Sessions))
        BY <1>1, Joined
      <3>2. Locking(MethodsOf(GetProperties(path) \o handleConnectedChanged(path))) =
              <<>> \o <<>>
        BY <1>1, MethodsJoined
      <3>3. <<>> \o <<>> = <<>> OBVIOUS
      <3> QED BY <2>2, <3>1, <3>2, <3>3
    <2> QED BY <2>1, <2>2
  <1>3. ForLogind ++ <<>> = ForLogind BY PartsNow, Queueing DEF PartsTyped
  <1> QED BY <1>2, <1>3, LogindGets

(* A request of the session manager or of the screen saver is passed on, *)
LEMMA Forwarded ==
  ASSUME ClientInv, NEW method \in Methods, Request(method), ~Dropped
  PROVE  ForLogind' = ForLogind ++ One(method)
  <1>1. sessionPath \in Sessions
    BY DEF Dropped, Reachable, ClientInv, LogindInv, StateInv
  <1>2. /\ <<Call(method, sessionPath)>> \in Seq(Paths(Sessions))
        /\ Locking(MethodsOf(<<Call(method, sessionPath)>>)) = One(method)
    BY <1>1, OneCall
  <1>3. Calls(<<Call(method, sessionPath)>>) /\ up BY DEF Request, Dropped
  <1> QED BY <1>2, <1>3, LogindGets

(* or dropped.                                                            *)
LEMMA Requested ==
  ASSUME ClientInv, NEW method \in Methods, Request(method)
  PROVE  ForLogind' = ForLogind ++ One(method) \/ ForLogind' = ForLogind
  <1>1. CASE ~Dropped BY <1>1, Forwarded
  <1>2. CASE Dropped
    <2>1. calls' = calls
      <3>1. calls \o <<>> = calls BY CallsTyped, ConcatEmptySeq
      <3> QED BY <1>2, <3>1 DEF Dropped, Request, Calls
    <2> QED BY <2>1, QueuesStay
  <1> QED BY <1>1, <1>2

--------------------------------------------------------------------------------
(* What the steps do to the queues *)

(* Only logind and the bus do something. *)
Aside == UNCHANGED <<thread, shell, toManager, toShell>>

LEMMA AsideStays ==
  ASSUME Free, Aside
  PROVE  Free' /\ shown' = shown /\ ForShell' = ForShell /\ FromShell' = FromShell
  BY QueuesStay DEF Aside, shell, Free

(* News of logind is no request. *)
LEMMA NoNews ==
  ASSUME ClientInv,
         NEW m \in {"registered", "unregistered", "changed", "active", "inactive"},
         \/ Receive(m)
         \/ \E messages \in {<<>>, <<m>>} : Deliver(messages)
  PROVE  FromLogind' = FromLogind
  <1>1. One(m) = <<>> /\ m \in Messages BY Ones DEF Messages
  <1>2. inbox \in Seq(Messages) BY DEF ClientInv, LogindInv, QueueInv
  <1>3. FromLogind \in Seq(BOOLEAN) BY PartsNow DEF PartsTyped, Queues
  <1>4. CASE Receive(m)
    <2>1. inbox' \in Seq(Messages) BY <1>2, <1>4, Shifted
    <2>2. FromLogind' \in Queues BY <2>1, LockingTyped DEF FromLogind, Queues
    <2>3. FromLogind = <<>> ++ FromLogind' BY <1>1, <1>4, InboxTakes
    <2> QED BY <2>2, <2>3, Queueing
  <1>5. CASE \E messages \in {<<>>, <<m>>} : Deliver(messages)
    BY <1>2, <1>3, <1>5, NothingAsked
  <1> QED BY <1>4, <1>5

(* What leaves the requests on their way alone. *)
LEMMA OnlyLogindQueues ==
  ASSUME ClientInv, OnlyLogind
  PROVE  Aside /\ ForLogind' = ForLogind /\ FromLogind' = FromLogind
  <1>1. Aside BY DEF OnlyLogind, Aside
  <1>2. CASE instance BY <1>1, <1>2, QueuesStay DEF instance
  <1>3. CASE NoSession \/ AlreadyConnected \/ _q_serviceUnregistered
             \/ \E value \in BOOLEAN : ActiveIs(value)
    <2>1. PICK m \in {"registered", "unregistered", "changed", "active", "inactive"} : Receive(m)
      BY <1>3 DEF NoSession, AlreadyConnected, _q_serviceUnregistered, ActiveIs
    <2>2. calls' = calls
      BY <1>3 DEF NoSession, AlreadyConnected, _q_serviceUnregistered, ActiveIs
    <2> QED BY <1>1, <2>1, <2>2, NoNews, QueuesStay
  <1>4. CASE _q_sessionPropertiesChanged
    <2>1. Receive("changed") BY <1>4 DEF _q_sessionPropertiesChanged
    <2>2. FromLogind' = FromLogind BY <2>1, NoNews
    <2>3. ForLogind' = ForLogind
      <3>1. CASE isConnected
        <4>1. sessionPath \in Sessions BY <3>1 DEF ClientInv, LogindInv, StateInv
        <4>2. Calls(GetProperties(sessionPath))
          BY <1>4, <3>1 DEF _q_sessionPropertiesChanged
        <4> QED BY <4>1, <4>2, OnlyNews
      <3>2. CASE ~isConnected
        BY <1>4, <3>2, QueuesStay DEF _q_sessionPropertiesChanged
      <3> QED BY <3>1, <3>2
    <2> QED BY <1>1, <2>2, <2>3
  <1> QED BY <1>2, <1>3, <1>4 DEF OnlyLogind

LEMMA RegisteredQueues ==
  ASSUME ClientInv, Registered
  PROVE  Aside /\ ForLogind' = ForLogind /\ FromLogind' = FromLogind
  <1>1. Aside BY DEF Registered, Aside
  <1>2. Found \in Sessions
    BY DEF Registered, _q_serviceRegistered, Found, OfUser, OfProcess, ClientInv, LogindInv,
           StateInv
  <1>3. Receive("registered") /\ Calls(GetProperties(Found) \o handleConnectedChanged(Found))
    BY DEF Registered, _q_serviceRegistered
  <1>4. FromLogind' = FromLogind BY <1>3, NoNews
  <1>5. ForLogind' = ForLogind BY <1>2, <1>3, OnlyNews
  <1> QED BY <1>1, <1>4, <1>5

LEMMA BusQueues ==
  ASSUME ClientInv, Bus
  PROVE  Aside /\ ForLogind' = ForLogind /\ FromLogind' = FromLogind
  <1>1. Aside /\ calls' = calls BY DEF Bus, Others, BusHandles, Aside
  <1>2. FromLogind' = FromLogind
    <2>1. CASE inbox' = inbox BY <2>1, QueuesStay
    <2>2. CASE inbox' # inbox
      <3>1. \E messages \in {<<>>, <<"registered">>} : Deliver(messages)
        BY <2>2 DEF Bus, Others, BusHandles
      <3> QED BY <3>1, NoNews
    <2> QED BY <2>1, <2>2
  <1> QED BY <1>1, <1>2, QueuesStay

(* Logind answers: what was a request among the calls is one in the inbox. *)
LEMMA AnsweredQueues ==
  ASSUME ClientInv, LogindAnswers
  PROVE  Aside /\ \E x \in Queues : /\ ForLogind = x ++ ForLogind'
                                  /\ FromLogind' = FromLogind ++ x
  <1> DEFINE method == Head(calls).method
             path == Head(calls).path
  <1>1. Aside /\ calls # <<>> /\ calls' = Tail(calls)
    BY DEF LogindAnswers, Others, LogindHandles, Aside
  <1>2. method \in Methods /\ path \in subscribed
    <2>1. Head(calls) \in Paths(subscribed) BY <1>1, CallsTyped, Taken
    <2> QED BY <2>1 DEF Paths
  <1>3. /\ ForLogind = One(method) ++ ForLogind' /\ One(method) \in Queues
        /\ FromLogind \in Queues
    BY <1>1, LogindTakes, OneQueued, PartsNow DEF PartsTyped
  <1>4. CASE method = "Get" \/ method \in {"idle", "busy"}
    <2>1. One(method) = <<>> BY <1>4, Ones
    <2>2. FromLogind' = FromLogind
      <3>1. CASE method = "Get"
        <4>1. \/ \E messages \in {<<>>, <<"active">>} : Deliver(messages)
              \/ \E messages \in {<<>>, <<"inactive">>} : Deliver(messages)
          BY <3>1 DEF LogindAnswers, Others, LogindHandles
        <4> QED BY <4>1, NoNews
      <3>2. CASE method \in {"idle", "busy"}
        <4>1. inbox' = inbox BY <3>2 DEF LogindAnswers, Others, LogindHandles
        <4> QED BY <4>1, QueuesStay
      <3> QED BY <1>4, <3>1, <3>2
    <2>3. FromLogind' = FromLogind ++ One(method) BY <1>3, <2>1, <2>2, Queueing
    <2> HIDE DEF method
    <2> QED BY <1>1, <1>3, <2>3
  <1>5. CASE method \in {"Lock", "Unlock"}
    <2>1. Deliver(<<method>>) /\ method \in Messages
      BY <1>2, <1>5 DEF LogindAnswers, Others, LogindHandles, Emits, Messages
    <2>2. inbox' = Append(inbox, method)
      BY <2>1 DEF Deliver, ClientInv, LogindInv, QueueInv
    <2>3. FromLogind' = FromLogind ++ One(method)
      <3>1. inbox \in Seq(Messages) BY DEF ClientInv, LogindInv, QueueInv
      <3> HIDE DEF method
      <3> QED BY <2>1, <2>2, <3>1, LockingLast DEF FromLogind, ++
    <2> HIDE DEF method
    <2> QED BY <1>1, <1>3, <2>3
  <1> QED BY <1>2, <1>4, <1>5 DEF Methods

(* A call of SetIdle() is handled. *)
LEMMA SetIdleQueues ==
  ASSUME ClientInv, ClientInv', SetIdle
  PROVE  /\ ForShell' = ForShell /\ FromLogind' = FromLogind
         /\ ForLogind' = ForLogind /\ FromShell' = FromShell
  <1>1. FromShell = One(Head(toManager).call) ++ FromShell' BY ManagerTakes DEF SetIdle
  <1>2. PICK value \in BOOLEAN :
          /\ Head(toManager).call = Hint(value) /\ Request(Hint(value))
          /\ toShell' = toShell \/ toShell' = Append(toShell, Hint(value))
    BY DEF SetIdle
  <1>3. Hint(value) \in {"idle", "busy"} BY DEF Hint
  <1>4. Hint(value) \in Methods /\ Hint(value) \in Replies BY <1>3 DEF Methods, Replies
  <1>5. One(Hint(value)) = <<>> BY <1>3, Ones
  <1>6. ForLogind' = ForLogind
    BY <1>2, <1>4, <1>5, Requested, PartsNow, Queueing DEF PartsTyped
  <1>7. ForShell' = ForShell
    <2>1. CASE toShell' = toShell BY <2>1, QueuesStay
    <2>2. CASE toShell' = Append(toShell, Hint(value))
      <3>1. ForShell' = ForShell ++ <<>> BY <1>4, <1>5, <2>2, ShellGets
      <3> QED BY <3>1, PartsNow, Queueing DEF PartsTyped
    <2> QED BY <1>2, <2>1, <2>2
  <1>8. FromShell' = FromShell
    <2>1. FromShell = <<>> ++ FromShell' BY <1>1, <1>2, <1>5
    <2> QED BY <2>1, PartsNext, Queueing DEF PartsTyped
  <1>9. FromLogind' = FromLogind BY QueuesStay DEF SetIdle, besidesCalls
  <1> QED BY <1>6, <1>7, <1>8, <1>9

LEMMA AnswerQueues ==
  ASSUME ClientInv, ClientInv', SetIdleAnswered
  PROVE  ForShell' = ForShell
  <1>1. PICK value \in BOOLEAN : Hears(Hint(value)) BY DEF SetIdleAnswered
  <1>2. One(Hint(value)) = <<>> BY Ones DEF Hint
  <1>3. ForShell = <<>> ++ ForShell' BY <1>1, <1>2, ShellHears
  <1> QED BY <1>3, PartsNext, Queueing DEF PartsTyped

LEMMA ToldQueues ==
  ASSUME ClientInv, sessionLocked \/ sessionUnlocked
  PROVE  \E x \in BOOLEAN : ForShell = <<x>> ++ ForShell' /\ shown' = x
  <1>1. CASE sessionLocked
    <2>1. ForShell = <<TRUE>> ++ ForShell' /\ shown' = TRUE
      BY <1>1, ShellHears, Ones DEF sessionLocked
    <2> QED BY <2>1, Zenon
  <1>2. CASE sessionUnlocked
    <2>1. ForShell = <<FALSE>> ++ ForShell' /\ shown' = FALSE
      BY <1>2, ShellHears, Ones DEF sessionUnlocked
    <2> QED BY <2>1, Zenon
  <1> QED BY <1>1, <1>2

(* A signal of logind that is handled becomes one for the shell. *)
LEMMA SignalQueues ==
  ASSUME ClientInv, NEW signal \in {"Lock", "Unlock", "sleep"},
         Relays(signal), Backend(IF signal = "Unlock" THEN "Unlocked" ELSE "Locked")
  PROVE  /\ \E x \in BOOLEAN : /\ FromLogind = <<x>> ++ FromLogind'
                             /\ ForShell' = ForShell ++ <<x>> /\ active' = x
         /\ ForLogind' = ForLogind /\ FromShell' = FromShell
         /\ UNCHANGED <<thread, shown, lockWanted>>
  <1> DEFINE answer == IF signal = "Unlock" THEN "Unlocked" ELSE "Locked"
  <1>1. /\ Receive(signal) /\ toShell' = Append(toShell, answer) /\ answer \in Replies
        /\ active' = (answer = "Locked")
    BY DEF Relays, Backend, PassOn, Replies
  <1>2. One(answer) = <<answer = "Locked">> /\ One(signal) = <<answer = "Locked">>
    <2>1. CASE signal = "Unlock"
      <3>1. (answer = "Locked") = FALSE BY <2>1
      <3> QED BY <2>1, <3>1, Ones
    <2>2. CASE signal # "Unlock"
      <3>1. (answer = "Locked") = TRUE BY <2>2
      <3> QED BY <2>2, <3>1, Ones
    <2> QED BY <2>1, <2>2
  <1>3. FromLogind = One(signal) ++ FromLogind' /\ ForShell' = ForShell ++ One(answer)
    <2> HIDE DEF answer
    <2> QED BY <1>1, InboxTakes, ShellGets
  <1>4. ForLogind' = ForLogind /\ FromShell' = FromShell /\ UNCHANGED <<thread, shown, lockWanted>>
    BY QueuesStay DEF Relays, Backend, besidesInbox, shell
  <1>5. (answer = "Locked") \in BOOLEAN OBVIOUS
  <1> HIDE DEF answer
  <1> QED BY <1>1, <1>2, <1>3, <1>4, <1>5

LEMMA RestartQueues ==
  ASSUME ClientInv, ShellRestarts
  PROVE  /\ FromLogind' = FromLogind /\ ForLogind' = ForLogind
         /\ FromShell' = FromShell /\ ForShell' = <<>>
  <1>1. FromLogind' = FromLogind /\ ForLogind' = ForLogind BY QueuesStay DEF ShellRestarts
  <1>2. ForShell' = <<>> BY LockingNothing DEF ShellRestarts, ForShell
  <1>3. FromShell' = FromShell
    <2>1. /\ toManager \in Seq(Requests)
          /\ toManager' = [i \in DOMAIN toManager |-> [toManager[i] EXCEPT !.live = FALSE]]
      BY DEF ShellRestarts, ClientInv, ShellInv
    <2>2. \A i \in DOMAIN toManager : toManager'[i].call = toManager[i].call
      <3>1. \A i \in DOMAIN toManager : toManager[i] \in Requests BY <2>1
      <3>2. \A r \in Requests : [r EXCEPT !.live = FALSE].call = r.call BY DEF Requests
      <3> QED BY <2>1, <3>1, <3>2
    <2>3. DOMAIN toManager' = DOMAIN toManager BY <2>1
    <2>4. CallsOf(toManager)' = CallsOf(toManager) BY <2>2, <2>3 DEF CallsOf
    <2> QED BY <2>4 DEF FromShell
  <1> QED BY <1>1, <1>2, <1>3

LEMMA SetIdleCallQueues ==
  ASSUME ClientInv, NEW value \in BOOLEAN, setIdle(value)
  PROVE  /\ FromLogind' = FromLogind /\ ForLogind' = ForLogind
         /\ ForShell' = ForShell /\ FromShell' = FromShell
  <1>1. FromLogind' = FromLogind /\ ForLogind' = ForLogind /\ ForShell' = ForShell
    BY QueuesStay DEF setIdle, vars
  <1>2. CASE toManager' = toManager BY <1>1, <1>2, QueuesStay
  <1>3. CASE Sends(Hint(value))
    <2>1. Hint(value) \in {"idle", "busy"} BY DEF Hint
    <2>2. FromShell' = FromShell ++ <<>> BY <1>3, <2>1, ManagerGets, Ones
    <2> QED BY <1>1, <2>2, PartsNow, Queueing DEF PartsTyped
  <1> QED BY <1>2, <1>3 DEF setIdle

LEMMA SetLockQueues ==
  ASSUME ClientInv, NEW value \in BOOLEAN, setLock(value)
  PROVE  /\ FromLogind' = FromLogind /\ ForLogind' = ForLogind
         /\ ForShell' = ForShell /\ FromShell' = FromShell ++ <<value>>
  <1>1. FromLogind' = FromLogind /\ ForLogind' = ForLogind /\ ForShell' = ForShell
    BY QueuesStay DEF setLock, vars
  <1>2. CASE value = TRUE
    <2>1. Sends("Lock") BY <1>2 DEF setLock
    <2> QED BY <1>1, <1>2, <2>1, ManagerGets, Ones
  <1>3. CASE value = FALSE
    <2>1. Sends("Unlock") BY <1>3 DEF setLock
    <2> QED BY <1>1, <1>3, <2>1, ManagerGets, Ones
  <1> QED BY <1>2, <1>3

--------------------------------------------------------------------------------
(* Each step as one of the abstract queue *)

LEMMA OnlyLogindWay ==
  ASSUME ClientInv, ClientInv', Free, Aside,
         ForLogind' = ForLogind, FromLogind' = FromLogind, Uncounted \/ OthersDo
  PROVE  WayStep
  BY AsideStays, PartsNow, PartsNext, SameQueues

LEMMA SignalStep ==
  ASSUME ClientInv, ClientInv', Free, NEW signal \in {"Lock", "Unlock", "sleep"},
         Relays(signal), Backend(IF signal = "Unlock" THEN "Unlocked" ELSE "Locked")
  PROVE  WayStep
  <1>1. PICK x \in BOOLEAN : FromLogind = <<x>> ++ FromLogind' /\ ForShell' = ForShell ++ <<x>>
    BY SignalQueues
  <1>2. /\ ForLogind' = ForLogind /\ FromShell' = FromShell
        /\ UNCHANGED <<thread, shown, lockWanted>>
    BY SignalQueues
  <1>3. <<x>> \in Queues BY Queueing, Zenon
  <1>4. Uncounted BY DEF Relays, besidesInbox, outside, Backend, shell, Uncounted
  <1> QED BY <1>1, <1>2, <1>3, <1>4, PartsNow, PartsNext, PassedOn DEF Free

LEMMA SystemBusStep ==
  ASSUME ClientInv, ClientInv', Free, SystemBus
  PROVE  WayStep
  <1>1. CASE OnlyLogind \/ Registered
    <2>1. UNCHANGED changes
      BY <1>1 DEF OnlyLogind, Registered, instance, NoSession, AlreadyConnected, ActiveIs,
                  _q_serviceRegistered, _q_serviceUnregistered, _q_sessionPropertiesChanged,
                  outside
    <2>2. UNCHANGED sent BY <1>1 DEF OnlyLogind, Registered, shell
    <2> QED BY <1>1, <2>1, <2>2, OnlyLogindQueues, RegisteredQueues, OnlyLogindWay DEF Uncounted
  <1>2. CASE handleSessionLocked BY <1>2, SignalStep DEF handleSessionLocked
  <1>3. CASE handleSessionUnlocked BY <1>3, SignalStep DEF handleSessionUnlocked
  <1>4. CASE prepareForSleep BY <1>4, SignalStep DEF prepareForSleep
  <1>5. CASE Hangs
    <2>1. ~Free' /\ shown' = shown /\ Uncounted
      BY <1>5 DEF Hangs, Relays, besidesInbox, outside, Free, shell, Uncounted
    <2> QED BY <2>1, PartsNow, PartsNext, IsStuck
  <1> QED BY <1>1, <1>2, <1>3, <1>4, <1>5 DEF SystemBus

LEMMA LogindAnswersStep ==
  ASSUME ClientInv, ClientInv', Free, LogindAnswers
  PROVE  WayStep
  <1>1. PICK x \in Queues : ForLogind = x ++ ForLogind' /\ FromLogind' = FromLogind ++ x
    BY AnsweredQueues
  <1>2. Free' /\ shown' = shown /\ ForShell' = ForShell /\ FromShell' = FromShell
    BY AnsweredQueues, AsideStays
  <1>3. Uncounted BY DEF LogindAnswers, Others, LogindHandles, shell, Uncounted
  <1> QED BY <1>1, <1>2, <1>3, PartsNow, PartsNext, PassedOn

(* A signal that nobody asked for. *)
LEMMA UnaskedStep ==
  ASSUME ClientInv, ClientInv', Free, Aside, OthersDo, calls' = calls,
         NEW m \in {"Lock", "Unlock", "sleep"},
         \E messages \in {<<>>, <<m>>} : Deliver(messages)
  PROVE  WayStep
  <1>1. Free' /\ shown' = shown /\ ForShell' = ForShell /\ FromShell' = FromShell
    BY AsideStays
  <1>2. PICK x \in BOOLEAN : One(m) = <<x>>
    <2>1. One(m) = <<TRUE>> \/ One(m) = <<FALSE>> BY Ones
    <2> QED BY <2>1, Zenon
  <1>3. FromLogind' = FromLogind \/ FromLogind' = FromLogind ++ <<x>>
    <2>1. m \in Messages BY DEF Messages
    <2> QED BY <1>2, <2>1, InboxGets
  <1>4. CASE FromLogind' = FromLogind BY <1>4, QueuesStay, OnlyLogindWay
  <1>5. CASE FromLogind' = FromLogind ++ <<x>>
    BY <1>1, <1>5, QueuesStay, PartsNow, PartsNext, GetsIn
  <1> QED BY <1>3, <1>4, <1>5

LEMMA WorldStep ==
  ASSUME ClientInv, ClientInv', Free, World
  PROVE  WayStep
  <1>1. Aside /\ OthersDo
    <2>1. Aside BY DEF World, Others, Aside
    <2>2. Change
      BY DEF World, Others, LogindStops, LogindStarts, SwitchTo, OthersLock, Sleeps
    <2> QED BY <2>1, <2>2 DEF Aside, shell, Change, OthersDo
  <1>2. Free' /\ shown' = shown /\ ForShell' = ForShell /\ FromShell' = FromShell
    BY <1>1, AsideStays
  <1>3. CASE LogindStops
    <2>1. FromLogind' = FromLogind
      <3>1. \E messages \in {<<>>, <<"unregistered">>} : Deliver(messages)
        BY <1>3 DEF LogindStops
      <3> QED BY <3>1, NoNews
    <2>2. ForLogind' = <<>>
      <3>1. MethodsOf(<<>>) = <<>> BY DEF MethodsOf
      <3>2. ForLogind' = Locking(MethodsOf(<<>>))
        BY <1>3 DEF LogindStops, ForLogind, MethodsOf
      <3> QED BY <3>1, <3>2, LockingNothing
    <2>3. ForLogind \in Queues /\ ForLogind = ForLogind ++ ForLogind'
      BY <2>2, PartsNow, Queueing DEF PartsTyped
    <2> QED BY <1>1, <1>2, <2>1, <2>3, PartsNow, PartsNext, IsDropped
  <1>4. CASE LogindStarts
    <2>1. \E messages \in {<<>>, <<"registered">>} : Deliver(messages)
      BY <1>4 DEF LogindStarts
    <2>2. FromLogind' = FromLogind BY <2>1, NoNews
    <2>3. ForLogind' = ForLogind BY <1>4, QueuesStay DEF LogindStarts
    <2> QED BY <1>1, <2>2, <2>3, OnlyLogindWay
  <1>5. ASSUME NEW s, SwitchTo(s) PROVE WayStep
    <2>1. \E messages \in {<<>>, <<"changed">>} : Deliver(messages)
      BY <1>5 DEF SwitchTo
    <2>2. FromLogind' = FromLogind BY <2>1, NoNews
    <2>3. ForLogind' = ForLogind BY <1>5, QueuesStay DEF SwitchTo
    <2> QED BY <1>1, <2>2, <2>3, OnlyLogindWay
  <1>6. ASSUME NEW s, NEW signal \in {"Lock", "Unlock"}, OthersLock(signal, s) PROVE WayStep
    <2>1. \E messages \in {<<>>, <<signal>>} : Deliver(messages)
      BY <1>6 DEF OthersLock, Emits
    <2>2. calls' = calls BY <1>6 DEF OthersLock
    <2> QED BY <1>1, <2>1, <2>2, UnaskedStep
  <1>7. CASE Sleeps
    <2>1. \E messages \in {<<>>, <<"sleep">>} : Deliver(messages) BY <1>7 DEF Sleeps
    <2>2. calls' = calls BY <1>7 DEF Sleeps
    <2> QED BY <1>1, <2>1, <2>2, UnaskedStep
  <1> QED BY <1>3, <1>4, <1>5, <1>6, <1>7 DEF World, Others

(* A call of the shell is handled: it becomes a call for logind, or nothing. *)
LEMMA ManagerStep ==
  ASSUME ClientInv, ClientInv', Free, Manager
  PROVE  WayStep
  <1> DEFINE call == Head(toManager).call
  <1>1. toManager # <<>> /\ toManager' = Tail(toManager)
    BY DEF Manager, SetIdle, LockOrUnlock
  <1>2. FromShell = One(call) ++ FromShell' BY <1>1, ManagerTakes
  <1>3. Free' /\ shown' = shown /\ FromLogind' = FromLogind /\ Uncounted
    BY QueuesStay
       DEF Manager, SetIdle, LockOrUnlock, besidesCalls, outside, shell, Free, Uncounted
  <1>4. CASE SetIdle BY <1>3, <1>4, SetIdleQueues, PartsNow, PartsNext, SameQueues
  <1>5. CASE LockOrUnlock
    <2>1. call \in Methods /\ Request(call) /\ toShell' = toShell
      BY <1>5 DEF LockOrUnlock, AskLogind, AwaitSignal, Methods
    <2> HIDE DEF call
    <2>2. ForShell' = ForShell BY <2>1, QueuesStay
    <2>3. CASE ForLogind' = ForLogind ++ One(call)
      BY <1>2, <1>3, <2>2, <2>3, OneQueued, PartsNow, PartsNext, PassedOn
    <2>4. CASE ForLogind' = ForLogind
      BY <1>2, <1>3, <2>2, <2>4, OneQueued, PartsNow, PartsNext, IsDropped
    <2> QED BY <2>1, <2>3, <2>4, Requested
  <1> QED BY <1>4, <1>5 DEF Manager

(* The shell is told that the session is locked or is not, or has an answer. *)
LEMMA ShellStep ==
  ASSUME ClientInv, ClientInv', Free, Shell
  PROVE  WayStep
  <1>1. /\ Free' /\ FromLogind' = FromLogind /\ ForLogind' = ForLogind
        /\ FromShell' = FromShell /\ Uncounted
    BY QueuesStay
       DEF Shell, SetIdleAnswered, sessionLocked, sessionUnlocked, Free, vars, outside, Uncounted
  <1>2. CASE SetIdleAnswered
    <2>1. shown' = shown BY <1>2 DEF SetIdleAnswered
    <2> QED BY <1>1, <1>2, <2>1, AnswerQueues, PartsNow, PartsNext, SameQueues
  <1>3. CASE sessionLocked \/ sessionUnlocked
    BY <1>1, <1>3, ToldQueues, PartsNow, PartsNext, IsTold
  <1> QED BY <1>2, <1>3 DEF Shell

(* The shell calls, or starts again; another client of the screen saver calls. *)
LEMMA ClientsStep ==
  ASSUME ClientInv, ClientInv', Free, Clients
  PROVE  WayStep
  <1>1. Free' BY DEF Clients, ScreenSaverLock, ShellRestarts, setIdle, setLock, Free
  <1>2. CASE ScreenSaverLock
    <2>1. "Lock" \in Methods /\ Request("Lock") /\ One("Lock") = <<TRUE>>
      BY <1>2, Ones DEF ScreenSaverLock, Methods
    <2>2. Aside /\ inbox' = inbox /\ OthersDo
      BY <1>2 DEF ScreenSaverLock, Aside, Change, shell, OthersDo
    <2>3. TRUE \in BOOLEAN BY Zenon
    <2>4. CASE ForLogind' = ForLogind ++ <<TRUE>>
      BY <1>1, <2>2, <2>3, <2>4, AsideStays, QueuesStay, PartsNow, PartsNext, GetsIn
    <2>5. CASE ForLogind' = ForLogind BY <2>2, <2>5, QueuesStay, OnlyLogindWay
    <2> QED BY <2>1, <2>4, <2>5, Requested
  <1>3. CASE ShellRestarts
    <2>1. shown' = FALSE /\ OthersDo BY <1>3 DEF ShellRestarts, Change, OthersDo
    <2> QED BY <1>1, <1>3, <2>1, RestartQueues, PartsNow, PartsNext, IsNotTold
  <1>4. ASSUME NEW value \in BOOLEAN, setIdle(value)
        PROVE  WayStep
    <2>1. shown' = shown /\ ShellActs BY <1>4 DEF setIdle, Sends, vars, outside, ShellActs
    <2> QED BY <1>1, <1>4, <2>1, SetIdleCallQueues, PartsNow, PartsNext, SameQueues
  <1>5. ASSUME NEW value \in BOOLEAN, setLock(value)
        PROVE  WayStep
    <2>1. shown' = shown /\ ShellActs BY <1>5 DEF setLock, Sends, vars, outside, ShellActs
    <2> QED BY <1>1, <1>5, <2>1, SetLockQueues, PartsNow, PartsNext, IsSent
  <1> QED BY <1>2, <1>3, <1>4, <1>5 DEF Clients

LEMMA EveryStep == ClientInv /\ ClientInv' /\ [ClientNext]_clientVars => WayStep
  <1> SUFFICES ASSUME ClientInv, ClientInv', [ClientNext]_clientVars PROVE WayStep
    OBVIOUS
  <1>1. CASE UNCHANGED clientVars
    <2>1. Aside /\ inbox' = inbox /\ calls' = calls /\ Uncounted
      BY <1>1 DEF clientVars, vars, outside, shell, Aside, Uncounted
    <2>2. CASE Free BY <2>1, <2>2, QueuesStay, OnlyLogindWay
    <2>3. CASE ~Free
      <3>1. ~Free' /\ shown' = shown BY <2>1, <2>3 DEF Aside, shell, Free
      <3>2. OnTheirWay = <<>> /\ OnTheirWay' = <<>>
        BY <2>3, <3>1, PartsNow, PartsNext DEF PartsTyped
      <3> QED BY <2>1, <3>1, <3>2, StandsStill
    <2> QED BY <2>2, <2>3
  <1>2. CASE Free /\ Bus
    <2>1. Uncounted BY <1>2 DEF Bus, Others, BusHandles, outside, shell, Uncounted
    <2> QED BY <1>2, <2>1, BusQueues, OnlyLogindWay
  <1>3. CASE ClientNext
    BY <1>2, <1>3, WorldStep, LogindAnswersStep, SystemBusStep, ManagerStep, ShellStep,
       ClientsStep DEF ClientNext
  <1> QED BY <1>1, <1>3

LEMMA NoQueueAtFirst ==
  ClientInit =>
    Free /\ ForShell = <<>> /\ FromLogind = <<>> /\ ForLogind = <<>> /\ FromShell = <<>>
  <1>1. MethodsOf(<<>>) = <<>> /\ CallsOf(<<>>) = <<>> BY DEF MethodsOf, CallsOf
  <1> QED BY <1>1, LockingNothing
          DEF ClientInit, Init, Free, ForShell, FromLogind, ForLogind, FromShell

LEMMA NothingAtFirst == ClientInit => Abstract!Init
  <1> SUFFICES ASSUME ClientInit PROVE Abstract!Init
    OBVIOUS
  <1>1. Way = <<>> BY NoQueueAtFirst, Queueing DEF Way
  <1>2. OnTheirWay = <<>>
    <2>1. ClientInv BY ClientInitHolds
    <2> QED BY <1>1, <2>1, NoQueueAtFirst, PartsNow DEF PartsTyped
  <1> QED BY <1>2 DEF ClientInit, Init, Abstract!Init

(* Requests to lock and to unlock go from the shell through the session manager *)
(* and logind back to it in the order in which they were made, and each is      *)
(* shown once or not at all, however many are on their way at a time, whoever   *)
(* else makes some, and though logind, the connection to it or the shell may be *)
(* lost on the way: what passes a request on makes no second one of it, for one *)
(* is only added when the shell calls or somebody else acts, and no more than   *)
(* one then.  This is the safety half of LockRequestsSpec.                      *)
THEOREM RequestsInOrder == ClientSpec => Abstract!Init /\ [][Abstract!Next]_(Abstract!vars)
  <1>1. ClientInv /\ [ClientNext]_clientVars => ClientInv'
    BY LogindKeeps, ShellKeeps DEF ClientInv
  <1>2. ClientInv /\ ClientInv' /\ [ClientNext]_clientVars => [Abstract!Next]_(Abstract!vars)
    BY EveryStep DEF WayStep
  <1> QED BY <1>1, <1>2, ClientInitHolds, NothingAtFirst, PTL DEF ClientSpec

--------------------------------------------------------------------------------
(* What is left when nothing is on its way *)

Latest(queue, before) == IF queue = <<>> THEN before ELSE queue[Len(queue)]

(* The screen saver is where the shell will be; *)
ScreenInv == Free /\ Without({"unaware"}) => Latest(ForShell, shown) = active
(* it will be where the shell wants it.         *)
WishInv ==
  Free /\ Without({"disturbed"}) =>
    Latest(FromShell, Latest(ForLogind, Latest(FromLogind, active))) = lockWanted

LEMMA LatestOfBoth ==
  /\ \A p, q \in Queues : \A x : Latest(p ++ q, x) = Latest(q, Latest(p, x))
  /\ \A x, y : Latest(<<y>>, x) = y
  /\ \A x : Latest(<<>>, x) = x
  <1>1. ASSUME NEW p \in Queues, NEW q \in Queues, NEW x
        PROVE  Latest(p ++ q, x) = Latest(q, Latest(p, x))
    <2>1. CASE q = <<>>
      <3>1. p ++ q = p BY <2>1, Queueing
      <3> QED BY <2>1, <3>1 DEF Latest
    <2>2. CASE q # <<>>
      <3> DEFINE pq == p \o q
      <3>1. /\ Len(p) \in Nat /\ Len(q) \in Nat \ {0}
            /\ Len(pq) = Len(p) + Len(q) /\ pq # <<>>
        BY <2>2 DEF Queues
      <3>2. pq[Len(p) + Len(q)] = q[Len(q)] BY <2>2, <3>1 DEF Queues
      <3>3. Latest(pq, x) = q[Len(q)] BY <3>1, <3>2 DEF Latest
      <3>4. Latest(q, Latest(p, x)) = q[Len(q)] BY <2>2 DEF Latest
      <3> QED BY <3>3, <3>4 DEF ++
    <2> QED BY <2>1, <2>2
  <1>2. ASSUME NEW x, NEW y PROVE Latest(<<y>>, x) = y BY DEF Latest
  <1>3. ASSUME NEW x PROVE Latest(<<>>, x) = x BY DEF Latest
  <1> QED BY <1>1, <1>2, <1>3

(* A request that was passed on is as late as before. *)
LEMMA LatestMoves ==
  ASSUME NEW p \in Queues, NEW q \in Queues, NEW x \in Queues, NEW y
  PROVE  Latest(x ++ p, Latest(q, y)) = Latest(p, Latest(q ++ x, y))
  <1>1. Latest(x ++ p, Latest(q, y)) = Latest(p, Latest(x, Latest(q, y))) BY LatestOfBoth
  <1>2. Latest(q ++ x, y) = Latest(x, Latest(q, y)) BY LatestOfBoth
  <1> QED BY <1>1, <1>2

(* Where there is no call to lock or to unlock, there is no request. *)
LEMMA NoneAmong ==
  ASSUME NEW s \in Seq(Methods), \A i \in DOMAIN s : s[i] \notin {"Lock", "Unlock"}
  PROVE  Locking(s) = <<>>
  <1>1. Len(s) \in Nat /\ DOMAIN s = 1 .. Len(s) /\ \A i \in 1 .. Len(s) : s[i] \in Methods
    OBVIOUS
  <1>2. PICK f : Collects(f, s, Len(s)) /\ Locking(s) = f[Len(s)] BY <1>1, LockingCollects
  <1> DEFINE T == {n \in 0 .. Len(s) : f[n] # <<>>}
  <1> SUFFICES ASSUME Locking(s) # <<>> PROVE FALSE
    OBVIOUS
  <1>3. PICK n \in T : \A m \in T : n <= m
    <2>1. Len(s) \in T /\ T \subseteq Nat BY <1>1, <1>2
    <2> HIDE DEF T
    <2> QED BY <2>1, Least
  <1>4. f[n] = IF n = 0 THEN <<>> ELSE Added(f[n - 1], s[n]) BY <1>2 DEF Collects
  <1>5. n # 0 BY <1>3, <1>4
  <1>6. n - 1 \in 0 .. Len(s) /\ ~ (n <= n - 1) /\ n \in 1 .. Len(s) BY <1>1, <1>3, <1>5
  <1>7. f[n - 1] = <<>> BY <1>3, <1>6
  <1>8. s[n] \in {"Get", "idle", "busy"} BY <1>1, <1>6 DEF Methods
  <1>9. Added(<<>>, s[n]) = <<>> BY <1>8, Ones DEF One
  <1> QED BY <1>3, <1>4, <1>5, <1>7, <1>9

LEMMA RacesGrow ==
  ASSUME NEW name, NEW happened, Race(name, happened)
  PROVE  \A other : Without({other})' => Without({other})
  BY DEF Race, Without

(* The world and logind leave the screen saver and the shell alone. *)
LEMMA ScreenAside ==
  ASSUME ScreenInv, Aside, active' = active, Without({"unaware"})' => Without({"unaware"})
  PROVE  ScreenInv'
  BY QueuesStay DEF ScreenInv, Aside, shell, Free

LEMMA WishAside ==
  ASSUME WishInv, Aside, active' = active, FromLogind' = FromLogind, ForLogind' = ForLogind,
         Without({"disturbed"})' => Without({"disturbed"})
  PROVE  WishInv'
  BY QueuesStay DEF WishInv, Aside, shell, Free

LEMMA WishWorld ==
  ASSUME ClientInv, WishInv, World
  PROVE  WishInv'
  <1>1. Aside /\ active' = active BY DEF World, Others, Aside
  <1>2. Without({"disturbed"})' => Without({"disturbed"})
    <2>1. \E disturb : Race("disturbed", disturb) BY DEF World, Others
    <2> QED BY <2>1, RacesGrow
  <1>3. CASE \E disturb \in {TRUE} : Race("disturbed", disturb)
    <2>1. ~Without({"disturbed"})' BY <1>3 DEF Race, Without
    <2> QED BY <2>1 DEF WishInv
  <1>4. CASE Others(LogindStops, \E c \in ToSet(calls) : c.method \in {"Lock", "Unlock"})
    <2>1. CASE \E c \in ToSet(calls) : c.method \in {"Lock", "Unlock"}
      <3>1. ~Without({"disturbed"})' BY <1>4, <2>1 DEF Others, Race, Without
      <3> QED BY <3>1 DEF WishInv
    <2>2. CASE ~ \E c \in ToSet(calls) : c.method \in {"Lock", "Unlock"}
      <3>1. FromLogind' = FromLogind
        <4>1. \E messages \in {<<>>, <<"unregistered">>} : Deliver(messages)
          BY <1>4 DEF Others, LogindStops
        <4> QED BY <4>1, NoNews
      <3>2. ForLogind = <<>>
        <4>1. <<>> \in Seq(Requests) OBVIOUS
        <4>2. MethodsOf(calls) \in Seq(Methods) BY <4>1, CallsTyped, FieldsTyped
        <4>3. \A i \in DOMAIN MethodsOf(calls) : MethodsOf(calls)[i] \notin {"Lock", "Unlock"}
          BY <2>2 DEF MethodsOf, ToSet
        <4> QED BY <4>2, <4>3, NoneAmong DEF ForLogind
      <3>3. ForLogind' = <<>>
        <4>1. MethodsOf(<<>>) = <<>> BY DEF MethodsOf
        <4>2. ForLogind' = Locking(MethodsOf(<<>>))
          BY <1>4 DEF Others, LogindStops, ForLogind, MethodsOf
        <4> QED BY <4>1, <4>2, LockingNothing
      <3> QED BY <1>1, <1>2, <3>1, <3>2, <3>3, WishAside
    <2> QED BY <2>1, <2>2
  <1>5. CASE LogindStarts \/ \E s : SwitchTo(s)
    <2>1. PICK m \in {"registered", "changed"} :
            \E messages \in {<<>>, <<m>>} : Deliver(messages)
      BY <1>5 DEF LogindStarts, SwitchTo
    <2>2. calls' = calls BY <1>5 DEF LogindStarts, SwitchTo
    <2> QED BY <1>1, <1>2, <2>1, <2>2, NoNews, QueuesStay, WishAside
  <1> QED BY <1>3, <1>4, <1>5 DEF World, Others

LEMMA WishAnswered ==
  ASSUME ClientInv, ClientInv', WishInv, LogindAnswers
  PROVE  WishInv'
  <1>1. PICK x \in Queues : ForLogind = x ++ ForLogind' /\ FromLogind' = FromLogind ++ x
    BY AnsweredQueues
  <1>2. /\ FromShell' = FromShell
        /\ UNCHANGED <<thread, active, lockWanted>>
    BY QueuesStay DEF LogindAnswers, Others, shell
  <1>3. Without({"disturbed"})' => Without({"disturbed"})
    BY RacesGrow DEF LogindAnswers, Others
  <1>4. Latest(x ++ ForLogind', Latest(FromLogind, active)) =
          Latest(ForLogind', Latest(FromLogind ++ x, active))
    BY PartsNow, PartsNext, LatestMoves DEF PartsTyped
  <1> QED BY <1>1, <1>2, <1>3, <1>4 DEF WishInv, Free

(* A signal of logind that is handled. *)
LEMMA SignalKept ==
  ASSUME ClientInv, ClientInv', ScreenInv, WishInv, NEW signal \in {"Lock", "Unlock", "sleep"},
         Relays(signal), Backend(IF signal = "Unlock" THEN "Unlocked" ELSE "Locked")
  PROVE  ScreenInv' /\ WishInv'
  <1>1. PICK x \in BOOLEAN : /\ FromLogind = <<x>> ++ FromLogind'
                             /\ ForShell' = ForShell ++ <<x>> /\ active' = x
    BY SignalQueues
  <1>2. /\ ForLogind' = ForLogind /\ FromShell' = FromShell
        /\ UNCHANGED <<thread, shown, lockWanted>>
    BY SignalQueues
  <1>3. <<x>> \in Queues BY Queueing, Zenon
  <1>4. Latest(ForShell ++ <<x>>, shown) = x BY <1>3, PartsNow, LatestOfBoth DEF PartsTyped
  <1>5. Latest(<<x>> ++ FromLogind', active) = Latest(FromLogind', x)
    BY <1>3, PartsNext, LatestOfBoth DEF PartsTyped
  <1>6. Without({"disturbed"})' => Without({"disturbed"}) BY DEF Backend, Without
  <1>7. ScreenInv' BY <1>1, <1>2, <1>4 DEF ScreenInv
  <1>8. WishInv' BY <1>1, <1>2, <1>5, <1>6 DEF WishInv, Free
  <1> QED BY <1>7, <1>8

LEMMA SystemBusKept ==
  ASSUME ClientInv, ClientInv', ScreenInv, WishInv, SystemBus
  PROVE  ScreenInv' /\ WishInv'
  <1>1. CASE OnlyLogind \/ Registered
    <2>1. Aside /\ ForLogind' = ForLogind /\ FromLogind' = FromLogind
      BY <1>1, OnlyLogindQueues, RegisteredQueues
    <2>2. active' = active BY <1>1 DEF OnlyLogind, Registered
    <2>3. \A other : Without({other})' => Without({other})
      <3>1. races' = races \/ \E happened : Race("missed", happened)
        BY <1>1 DEF OnlyLogind, Registered
      <3>2. CASE races' = races BY <3>2 DEF Without
      <3> QED BY <3>1, <3>2, RacesGrow
    <2> QED BY <2>1, <2>2, <2>3, ScreenAside, WishAside
  <1>2. CASE handleSessionLocked BY <1>2, SignalKept DEF handleSessionLocked
  <1>3. CASE handleSessionUnlocked BY <1>3, SignalKept DEF handleSessionUnlocked
  <1>4. CASE prepareForSleep BY <1>4, SignalKept DEF prepareForSleep
  <1>5. CASE Hangs
    <2>1. ~Free' BY <1>5 DEF Hangs, Free
    <2> QED BY <2>1 DEF ScreenInv, WishInv
  <1> QED BY <1>1, <1>2, <1>3, <1>4, <1>5 DEF SystemBus

LEMMA ManagerKept ==
  ASSUME ClientInv, ClientInv', ScreenInv, WishInv, Manager
  PROVE  ScreenInv' /\ WishInv'
  <1>1. UNCHANGED <<thread, shown, lockWanted, active>> /\ FromLogind' = FromLogind
    BY QueuesStay DEF Manager, SetIdle, LockOrUnlock, besidesCalls, shell
  <1>2. CASE SetIdle
    <2>1. races' = races BY <1>2 DEF SetIdle
    <2> QED BY <1>1, <1>2, <2>1, SetIdleQueues DEF ScreenInv, WishInv, Without, Free
  <1>3. CASE LockOrUnlock
    <2> DEFINE call == Head(toManager).call
    <2>1. /\ call \in Methods /\ Request(call) /\ ForShell' = ForShell
          /\ Race("disturbed", Dropped)
      BY <1>3, QueuesStay DEF LockOrUnlock, AskLogind, AwaitSignal, Methods
    <2>2. FromShell = One(call) ++ FromShell' BY <1>3, ManagerTakes DEF LockOrUnlock
    <2> HIDE DEF call
    <2>3. \A other : Without({other})' => Without({other}) BY <2>1, RacesGrow
    <2>4. ScreenInv' BY <1>1, <2>1, <2>3 DEF ScreenInv, Free
    <2>5. CASE Dropped
      <3>1. ~Without({"disturbed"})' BY <2>1, <2>5 DEF Race, Without
      <3> QED BY <2>4, <3>1 DEF WishInv
    <2>6. CASE ~Dropped
      <3>1. ForLogind' = ForLogind ++ One(call) BY <2>1, <2>6, Forwarded
      <3>2. Latest(One(call) ++ FromShell', Latest(ForLogind, Latest(FromLogind, active))) =
              Latest(FromShell', Latest(ForLogind ++ One(call), Latest(FromLogind, active)))
        BY OneQueued, PartsNow, PartsNext, LatestMoves DEF PartsTyped
      <3>3. WishInv' BY <1>1, <2>2, <2>3, <3>1, <3>2 DEF WishInv, Free
      <3> QED BY <2>4, <3>3
    <2> QED BY <2>5, <2>6
  <1> QED BY <1>2, <1>3 DEF Manager

LEMMA ShellKept ==
  ASSUME ClientInv, ClientInv', ScreenInv, WishInv, Shell
  PROVE  ScreenInv' /\ WishInv'
  <1>1. /\ UNCHANGED <<thread, lockWanted, active>> /\ FromLogind' = FromLogind
        /\ ForLogind' = ForLogind /\ FromShell' = FromShell
    BY QueuesStay DEF Shell, SetIdleAnswered, sessionLocked, sessionUnlocked, vars
  <1>2. \A other \in {"unaware", "disturbed"} : Without({other})' => Without({other})
    <2>1. races \subseteq races' \cup {"failed"}
      BY DEF Shell, SetIdleAnswered, sessionLocked, sessionUnlocked, Race
    <2> QED BY <2>1 DEF Without
  <1>3. WishInv' BY <1>1, <1>2 DEF WishInv, Free
  <1>4. CASE SetIdleAnswered
    <2>1. shown' = shown BY <1>4 DEF SetIdleAnswered
    <2> QED BY <1>1, <1>2, <1>3, <1>4, <2>1, AnswerQueues DEF ScreenInv, Free
  <1>5. CASE sessionLocked \/ sessionUnlocked
    <2>1. PICK x \in BOOLEAN : ForShell = <<x>> ++ ForShell' /\ shown' = x
      BY <1>5, ToldQueues
    <2>2. <<x>> \in Queues BY Queueing, Zenon
    <2>3. Latest(<<x>> ++ ForShell', shown) = Latest(ForShell', x)
      BY <2>2, PartsNext, LatestOfBoth DEF PartsTyped
    <2>4. ScreenInv' BY <1>1, <1>2, <2>1, <2>3 DEF ScreenInv, Free
    <2> QED BY <1>3, <2>4
  <1> QED BY <1>4, <1>5 DEF Shell

LEMMA ClientsKept ==
  ASSUME ClientInv, ClientInv', ScreenInv, WishInv, Clients
  PROVE  ScreenInv' /\ WishInv'
  <1>1. UNCHANGED <<thread, active>>
    BY DEF Clients, ScreenSaverLock, ShellRestarts, setIdle, setLock
  <1>2. CASE ScreenSaverLock
    <2>1. Aside /\ Race("disturbed", TRUE) BY <1>2 DEF ScreenSaverLock, Aside
    <2>2. ~Without({"disturbed"})' BY <2>1 DEF Race, Without
    <2>3. ScreenInv' BY <1>1, <2>1, RacesGrow, ScreenAside
    <2> QED BY <2>2, <2>3 DEF WishInv
  <1>3. CASE ShellRestarts
    <2>1. /\ shown' = FALSE /\ lockWanted' = lockWanted
          /\ races \subseteq races' /\ (active => "unaware" \in races')
      BY <1>3 DEF ShellRestarts
    <2>2. active \in BOOLEAN BY DEF ClientInv, ShellInv
    <2>3. ScreenInv' BY <1>1, <1>3, <2>1, <2>2, RestartQueues, LatestOfBoth DEF ScreenInv, Without
    <2>4. WishInv' BY <1>1, <1>3, <2>1, RestartQueues DEF WishInv, Without, Free
    <2> QED BY <2>3, <2>4
  <1>4. ASSUME NEW value \in BOOLEAN, setIdle(value)
        PROVE  ScreenInv' /\ WishInv'
    <2>1. shown' = shown /\ lockWanted' = lockWanted BY <1>4 DEF setIdle
    <2>2. \A other : Without({other})' => Without({other})
      <3>1. races' = races \/ \E happened : Race("ignored", happened) BY <1>4 DEF setIdle
      <3>2. CASE races' = races BY <3>2 DEF Without
      <3> QED BY <3>1, <3>2, RacesGrow
    <2> QED BY <1>1, <1>4, <2>1, <2>2, SetIdleCallQueues DEF ScreenInv, WishInv, Free
  <1>5. ASSUME NEW value \in BOOLEAN, setLock(value)
        PROVE  ScreenInv' /\ WishInv'
    <2>1. shown' = shown /\ lockWanted' = value /\ races' = races BY <1>5 DEF setLock
    <2>2. ScreenInv' BY <1>1, <1>5, <2>1, SetLockQueues DEF ScreenInv, Without, Free
    <2>3. <<value>> \in Queues BY Queueing, Zenon
    <2>4. \A x : Latest(FromShell ++ <<value>>, x) = value
      BY <2>3, PartsNow, LatestOfBoth DEF PartsTyped
    <2>5. WishInv' BY <1>5, <2>1, <2>4, SetLockQueues DEF WishInv
    <2> QED BY <2>2, <2>5
  <1> QED BY <1>2, <1>3, <1>4, <1>5 DEF Clients

LEMMA SettlingKept ==
  ASSUME ClientInv, ClientInv', ScreenInv, WishInv, [ClientNext]_clientVars
  PROVE  ScreenInv' /\ WishInv'
  <1>1. CASE World \/ Bus \/ LogindAnswers
    <2>1. Aside /\ active' = active BY <1>1 DEF World, Bus, LogindAnswers, Others, Aside
    <2>2. \A other : Without({other})' => Without({other})
      <3>1. \E disturb : Race("disturbed", disturb)
        BY <1>1 DEF World, Bus, LogindAnswers, Others
      <3> QED BY <3>1, RacesGrow
    <2>3. ScreenInv' BY <2>1, <2>2, ScreenAside
    <2>4. CASE Bus BY <2>1, <2>2, <2>3, <2>4, BusQueues, WishAside
    <2> QED BY <1>1, <2>3, <2>4, WishWorld, WishAnswered
  <1>2. CASE UNCHANGED clientVars
    <2>1. Aside /\ UNCHANGED <<active, inbox, calls, races>>
      BY <1>2 DEF clientVars, vars, Aside
    <2>2. \A other : Without({other})' => Without({other}) BY <2>1 DEF Without
    <2> QED BY <2>1, <2>2, QueuesStay, ScreenAside, WishAside
  <1> QED BY <1>1, <1>2, SystemBusKept, ManagerKept, ShellKept, ClientsKept DEF ClientNext

LEMMA SettledAtFirst == ClientInit => ScreenInv /\ WishInv
  <1> SUFFICES ASSUME ClientInit PROVE ScreenInv /\ WishInv
    OBVIOUS
  <1>1. ForShell = <<>> /\ FromLogind = <<>> /\ ForLogind = <<>> /\ FromShell = <<>>
    BY NoQueueAtFirst
  <1> QED BY <1>1 DEF ClientInit, ScreenInv, WishInv, Latest

(* Where the screen saver and the shell will be is known at any time. *)
THEOREM SettlingHolds == ClientSpec => [](ScreenInv /\ WishInv)
  <1>1. ClientInv /\ ClientInv' /\ [ClientNext]_clientVars /\ (ScreenInv /\ WishInv)
          => (ScreenInv /\ WishInv)'
    BY SettlingKept
  <1> QED BY <1>1, ClientInvariantHolds, SettledAtFirst, PTL DEF ClientSpec

(* When nothing is on its way to the shell, what it shows is what the screen    *)
(* saver goes by, for any number of requests, whoever made them; except a shell *)
(* that was started while the session was locked.  ScreenAgrees says that it    *)
(* comes to that.                                                               *)
THEOREM ScreenSettled ==
  ClientSpec => [](Free /\ Without({"unaware"}) /\ ForShell = <<>> => shown = active)
  <1>1. ScreenInv => (Free /\ Without({"unaware"}) /\ ForShell = <<>> => shown = active)
    BY LatestOfBoth DEF ScreenInv
  <1> QED BY <1>1, SettlingHolds, PTL

(* When nothing is on its way any more, the screen saver is where the last call *)
(* of lock() or unlock() wanted it, however many there were and though each     *)
(* goes through two buses; unless one was dropped or others interfered.         *)
(* LastLockWins says that it comes to that.                                     *)
THEOREM LockSettled ==
  ClientSpec => [](Free /\ Without({"disturbed"}) /\ OnTheirWay = <<>> => active = lockWanted)
  <1>1. ASSUME ClientInv, WishInv, Free, Without({"disturbed"}), OnTheirWay = <<>>
        PROVE  active = lockWanted
    <2>1. Way = <<>> BY <1>1, PartsNow DEF PartsTyped
    <2>2. \A p, q \in Queues : p ++ q = <<>> => p = <<>> /\ q = <<>> BY DEF Queues, ++
    <2>3. FromLogind = <<>> /\ ForLogind = <<>> /\ FromShell = <<>>
      <3>1. /\ ForShell \in Queues /\ FromLogind \in Queues /\ ForLogind \in Queues
            /\ FromShell \in Queues
        BY <1>1, PartsNow DEF PartsTyped
      <3>2. ForLogind ++ FromShell \in Queues BY <3>1, Queueing
      <3>3. FromLogind ++ (ForLogind ++ FromShell) \in Queues BY <3>1, <3>2, Queueing
      <3>4. FromLogind ++ (ForLogind ++ FromShell) = <<>> BY <2>1, <2>2, <3>1, <3>3 DEF Way
      <3>5. FromLogind = <<>> /\ ForLogind ++ FromShell = <<>> BY <2>2, <3>1, <3>2, <3>4
      <3> QED BY <2>2, <3>1, <3>5
    <2> QED BY <1>1, <2>3, LatestOfBoth DEF WishInv
  <1> QED BY <1>1, ClientInvariantHolds, SettlingHolds, PTL
================================================================================
