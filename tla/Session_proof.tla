------------------------------ MODULE Session_proof -----------------------------
(* Proofs about the session manager, for every set of modules and phases. IInv  *)
(* of module Session is inductive; the properties follow from it.               *)
EXTENDS Session, TLAPS, FiniteSetTheorems

(* Appending an element to a sequence adds it to the elements: what start()     *)
(* does to m_loadedModules when a module is up.                                 *)
LEMMA AppendSet ==
  ASSUME NEW S, NEW s \in Seq(S), NEW e \in S
  PROVE  /\ Append(s, e) \in Seq(S)
         /\ ToSet(Append(s, e)) = ToSet(s) \cup {e}
<1> DEFINE t == Append(s, e)
<1>1. t \in Seq(S) /\ Len(t) = Len(s) + 1 /\ t[Len(s) + 1] = e
  OBVIOUS
<1>2. \A i \in 1 .. Len(s) : t[i] = s[i]
  OBVIOUS
<1>3. DOMAIN t = DOMAIN s \cup {Len(s) + 1} /\ DOMAIN s = 1 .. Len(s)
  BY <1>1
<1> HIDE DEF t
<1>4. ToSet(t) = ToSet(s) \cup {e}
  BY <1>1, <1>2, <1>3 DEF ToSet
<1> QED
  BY <1>1, <1>4 DEF t

(* Reversing a sequence keeps its length and its elements: std::reverse in      *)
(* shutdown().                                                                  *)
LEMMA ReverseSet ==
  ASSUME NEW S, NEW s \in Seq(S)
  PROVE  /\ Reverse(s) \in Seq(S)
         /\ ToSet(Reverse(s)) = ToSet(s)
         /\ Len(Reverse(s)) = Len(s)
<1> DEFINE t == Reverse(s)
<1>1. t \in [1 .. Len(s) -> S]
  BY DEF Reverse
<1>2. t \in Seq(S) /\ Len(t) = Len(s) /\ DOMAIN t = 1 .. Len(s) /\ DOMAIN s = 1 .. Len(s)
  BY <1>1
<1>3. ASSUME NEW i \in 1 .. Len(s)
      PROVE  /\ Len(s) - i + 1 \in 1 .. Len(s)
             /\ t[i] = s[Len(s) - i + 1]
             /\ t[Len(s) - i + 1] = s[i]
  BY <1>3 DEF Reverse
<1> HIDE DEF t
<1>4. ToSet(t) \subseteq ToSet(s)
  BY <1>2, <1>3 DEF ToSet
<1>5. ToSet(s) \subseteq ToSet(t)
  BY <1>2, <1>3 DEF ToSet
<1> QED
  BY <1>2, <1>4, <1>5 DEF t

(* A sequence that is not empty consists of its head and of its tail: how       *)
(* shutdown() goes through its list.                                            *)
LEMMA TailSet ==
  ASSUME NEW S, NEW s \in Seq(S), s # <<>>
  PROVE  /\ Tail(s) \in Seq(S) /\ Head(s) \in S
         /\ ToSet(s) = {Head(s)} \cup ToSet(Tail(s))
<1> DEFINE t == Tail(s)
<1>1. /\ t \in Seq(S) /\ Head(s) \in S /\ Head(s) = s[1]
      /\ Len(s) \in Nat \ {0} /\ Len(t) = Len(s) - 1
      /\ DOMAIN s = 1 .. Len(s) /\ DOMAIN t = 1 .. Len(t)
  OBVIOUS
<1>2. \A i \in 1 .. Len(t) : t[i] = s[i + 1]
  OBVIOUS
<1> HIDE DEF t
<1>3. ToSet(t) \subseteq ToSet(s) /\ Head(s) \in ToSet(s)
  BY <1>1, <1>2 DEF ToSet
<1>4. ASSUME NEW i \in 1 .. Len(s)
      PROVE  s[i] \in {Head(s)} \cup ToSet(t)
  <2>1. CASE i = 1
    BY <2>1, <1>1
  <2>2. CASE i # 1
    <3>1. i - 1 \in DOMAIN t /\ t[i - 1] = s[i]
      BY <2>2, <1>1, <1>2
    <3> QED
      BY <3>1 DEF ToSet
  <2> QED
    BY <2>1, <2>2
<1> QED
  BY <1>1, <1>3, <1>4 DEF t, ToSet

(* An order in which start() visits the modules is a sequence of all of them,   *)
(* each once.                                                                   *)
LEMMA OrdersType ==
  ASSUME SessionAssumption, NEW s \in Orders
  PROVE  /\ s \in Seq(Modules) /\ ToSet(s) = Modules
         /\ Len(s) = Cardinality(Modules)
<1>1. Cardinality(Modules) \in Nat
  BY FS_CardinalityType DEF SessionAssumption
<1> QED
  BY <1>1 DEF Orders

(* Before the first module start() has visited none.                            *)
LEMMA NothingVisited ==
  ASSUME next = 1
  PROVE  Visited = {}
BY DEF Visited

(* When start() goes on to the next module it has visited one more, the current *)
(* one.                                                                         *)
LEMMA VisitNext ==
  ASSUME order \in Seq(Modules), next \in 1 .. Len(order), UNCHANGED order,
         next' = next + 1
  PROVE  /\ Visited' = Visited \cup {Current} /\ Current \in Modules
         /\ next' \in 1 .. Len(order') + 1
<1>1. 1 .. next' - 1 = (1 .. next - 1) \cup {next}
  OBVIOUS
<1> QED
  BY <1>1 DEF Visited, Current

(* The invariant holds when the program starts.                                 *)
LEMMA InitHolds == Init => IInv
<1> SUFFICES ASSUME Init PROVE IInv
  OBVIOUS
<1> USE SessionAssumption DEF Init
<1>1. Visited = {} /\ ToSet(loaded) = {}
  BY NothingVisited DEF ToSet
<1>2. TypeOK
  <2>1. order \in Seq(Modules) /\ loaded \in Seq(Modules) /\ stopList \in Seq(Modules)
    OBVIOUS
  <2>2. next \in 1 .. Len(order) + 1
    OBVIOUS
  <2>3. requests \in Nat /\ issued \in 0 .. MaxRequests
    BY DEF SessionAssumption
  <2> QED
    BY <2>1, <2>2, <2>3 DEF TypeOK
<1>3. LoadInv /\ UpInv /\ ExitInv /\ DependenciesUp /\ LeftBehind
  BY <1>1 DEF LoadInv, UpInv, ExitInv, DependenciesUp, LeftBehind
<1>4. OrderInv
  BY DEF OrderInv
<1> QED
  BY <1>2, <1>3, <1>4 DEF IInv

(* A call of shutdown() reverses the list of loaded modules and has all of them *)
(* to stop.                                                                     *)
LEMMA BeginsShutdown ==
  ASSUME TypeOK, NEW return, BeginShutdown(return)
  PROVE  /\ loaded' \in Seq(Modules) /\ stopList' = loaded'
         /\ ToSet(loaded') = ToSet(loaded)
         /\ loaded' = Reverse(loaded)
         /\ resume' = return /\ pc' = "stopping"
BY ReverseSet DEF TypeOK, BeginShutdown, ToStop

(* When shutdown() begins, what is up stands in its list in the opposite of the *)
(* order it was started: modules that an earlier shutdown() reversed are no     *)
(* longer up.                                                                   *)
LEMMA ReversedOrder ==
  ASSUME TypeOK, OrderInv, pc # "stopping", NEW return, BeginShutdown(return),
         UNCHANGED order, up' \cap ToSet(loaded) \subseteq up
  PROVE  OrderInv'
<1>1. /\ pc' = "stopping" /\ stopList' = Reverse(loaded) /\ loaded \in Seq(Modules)
      /\ Len(stopList') = Len(loaded) /\ DOMAIN stopList' = 1 .. Len(loaded)
      /\ DOMAIN loaded = 1 .. Len(loaded)
  BY BeginsShutdown, ReverseSet DEF TypeOK
<1>2. ASSUME NEW i \in DOMAIN stopList', NEW j \in DOMAIN stopList', i < j,
             stopList'[i] \in up', stopList'[j] \in up'
      PROVE  Before(stopList[j], stopList[i])'
  <2> DEFINE k == Len(loaded) - j + 1
             l == Len(loaded) - i + 1
  <2>1. /\ k \in DOMAIN loaded /\ l \in DOMAIN loaded /\ k < l
        /\ stopList'[j] = loaded[k] /\ stopList'[i] = loaded[l]
    BY <1>1, <1>2 DEF Reverse
  <2>2. loaded[k] \in up /\ loaded[l] \in up
    BY <1>2, <2>1 DEF ToSet
  <2>3. Before(loaded[k], loaded[l])
    BY <2>1, <2>2 DEF OrderInv
  <2> QED
    BY <2>1, <2>3 DEF Before
<1> QED
  BY <1>1, <1>2 DEF OrderInv

(* The order of what is up survives a step that changes neither the lists nor   *)
(* whether a shutdown() runs and brings nothing up.                             *)
LEMMA OrderKept ==
  ASSUME OrderInv, UNCHANGED <<order, loaded, stopList>>, up' \subseteq up,
         (pc = "stopping") <=> (pc' = "stopping")
  PROVE  OrderInv'
BY DEF OrderInv, Before

(* Serving a shutdown request, in app.exec() or in the loop of a supervisor,    *)
(* keeps the invariant.                                                         *)
LEMMA ShutdownServed ==
  ASSUME IInv, ServeShutdown, requests' \in Nat, issued' \in 0 .. MaxRequests
  PROVE  IInv'
<1>1. /\ loaded' \in Seq(Modules) /\ stopList' = loaded'
      /\ ToSet(loaded') = ToSet(loaded) /\ resume' = pc /\ pc' = "stopping"
  BY BeginsShutdown DEF IInv, ServeShutdown
<1>2. TypeOK'
  BY <1>1 DEF IInv, TypeOK, ServeShutdown, config
<1>3. LoadInv'
  BY <1>1 DEF IInv, LoadInv, ServeShutdown, Visited, config
<1>4. UpInv'
  BY <1>1 DEF IInv, TypeOK, UpInv, ServeShutdown
<1>5. OrderInv'
  BY ReversedOrder DEF IInv, ServeShutdown
<1>6. ExitInv'
  BY <1>1 DEF IInv, TypeOK, ExitInv, ServeShutdown
<1>7. DependenciesUp' /\ LeftBehind'
  BY <1>1 DEF DependenciesUp, LeftBehind
<1> QED
  BY <1>2, <1>3, <1>4, <1>5, <1>6, <1>7 DEF IInv

(* What main() and initialize() do keeps the invariant.                         *)
LEMMA BootKeeps == IInv /\ Boot => IInv'
<1> USE SessionAssumption
<1>1. ASSUME IInv, RequireDBusSession PROVE IInv'
  <2>1. TypeOK'
    BY <1>1 DEF IInv, TypeOK, RequireDBusSession, Quits, config, history
  <2>2. LoadInv' /\ UpInv' /\ ExitInv' /\ DependenciesUp' /\ LeftBehind'
    BY <1>1 DEF IInv, TypeOK, LoadInv, UpInv, ExitInv, DependenciesUp, LeftBehind,
                RequireDBusSession, Visited, config, history
  <2>3. OrderInv'
    BY <1>1, OrderKept DEF IInv, RequireDBusSession
  <2> QED
    BY <2>1, <2>2, <2>3 DEF IInv
<1>2. ASSUME IInv, InitializeFails PROVE IInv'
  <2>1. TypeOK'
    BY <1>2 DEF IInv, TypeOK, InitializeFails, ExitWith, config
  <2>2. LoadInv' /\ UpInv' /\ ExitInv' /\ DependenciesUp' /\ LeftBehind'
    BY <1>2 DEF IInv, TypeOK, LoadInv, UpInv, ExitInv, DependenciesUp, LeftBehind,
                InitializeFails, ExitWith, Visited, config
  <2>3. OrderInv'
    BY <1>2, OrderKept DEF IInv, InitializeFails
  <2> QED
    BY <2>1, <2>2, <2>3 DEF IInv
<1>3. ASSUME IInv, Initialize PROVE IInv'
  <2>1. next = 1 /\ up = {} /\ Visited = {} /\ Visited' = {}
    BY <1>3 DEF IInv, LoadInv, Initialize, Visited
  <2>2. TypeOK'
    <3>1. order' \in Seq(Modules) /\ Len(order') \in Nat
      BY <1>3, OrdersType DEF Initialize
    <3>2. target' \in BOOLEAN
      BY <1>3 DEF IInv, TypeOK, Environments, Initialize, TargetStarts
    <3> QED
      BY <1>3, <2>1, <3>1, <3>2 DEF IInv, TypeOK, Initialize, config, history
  <2>3. LoadInv' /\ UpInv' /\ ExitInv' /\ DependenciesUp' /\ LeftBehind'
    BY <1>3, <2>1 DEF IInv, TypeOK, LoadInv, UpInv, ExitInv, DependenciesUp,
                      LeftBehind, Initialize, config, history
  <2>4. OrderInv'
    BY <1>3, <2>1 DEF OrderInv, Initialize
  <2> QED
    BY <2>2, <2>3, <2>4 DEF IInv
<1> QED
  BY <1>1, <1>2, <1>3 DEF Boot

(* The module start() looks at is not loaded yet, and comes after every loaded  *)
(* one in the order of the startup.                                             *)
LEMMA CurrentIsNew ==
  ASSUME IInv, next <= Len(order)
  PROVE  /\ next \in 1 .. Len(order) /\ Current \in Modules
         /\ Current \notin ToSet(loaded)
         /\ \A m \in ToSet(loaded) : Before(m, Current)
<1>1. /\ order \in Orders /\ order \in Seq(Modules) /\ next \in 1 .. Len(order)
      /\ DOMAIN order = 1 .. Len(order)
      /\ ToSet(loaded) \subseteq {order[i] : i \in 1 .. next - 1}
  BY DEF IInv, TypeOK, LoadInv, Visited
<1>2. \A i, j \in DOMAIN order : i < j => order[i] # order[j]
  BY <1>1 DEF Orders
<1>3. \A i \in 1 .. next - 1 : i \in DOMAIN order /\ i < next
  BY <1>1
<1> QED
  BY <1>1, <1>2, <1>3 DEF Before, Current

(* The steps of start() keep the invariant.                                     *)
LEMMA StartKeeps == IInv /\ Start => IInv'
<1>1. ASSUME IInv, SkipDisabled PROVE IInv'
  <2>1. /\ Visited' = Visited \cup {Current} /\ Current \in disabled
        /\ next' \in 1 .. Len(order') + 1
    BY <1>1, VisitNext, CurrentIsNew DEF SkipDisabled, IInv, TypeOK
  <2>2. TypeOK'
    BY <1>1, <2>1 DEF IInv, TypeOK, SkipDisabled, config, history
  <2>3. LoadInv'
    BY <1>1, <2>1 DEF IInv, LoadInv, SkipDisabled, config, history
  <2>4. UpInv' /\ ExitInv' /\ DependenciesUp' /\ LeftBehind'
    BY <1>1 DEF IInv, UpInv, ExitInv, DependenciesUp, LeftBehind, SkipDisabled,
                config, history
  <2>5. OrderInv'
    BY <1>1, OrderKept DEF IInv, SkipDisabled
  <2> QED
    BY <2>2, <2>3, <2>4, <2>5 DEF IInv
<1>2. ASSUME IInv, StartSucceeds PROVE IInv'
  <2> DEFINE m == Current
  <2>1. /\ Visited' = Visited \cup {m} /\ m \in Modules \ disabled
        /\ next' \in 1 .. Len(order') + 1 /\ pc \in {"starting", "nested"}
        /\ m \notin ToSet(loaded) /\ \A n \in ToSet(loaded) : Before(n, m)
    BY <1>2, VisitNext, CurrentIsNew DEF StartSucceeds, AtReturn, IInv, TypeOK
  <2>2. /\ loaded' = Append(loaded, m) /\ loaded' \in Seq(Modules)
        /\ loaded \in Seq(Modules) /\ ToSet(loaded') = ToSet(loaded) \cup {m}
    BY <1>2, <2>1, AppendSet DEF StartSucceeds, IInv, TypeOK
  <2>3. TypeOK'
    BY <1>2, <2>1, <2>2 DEF IInv, TypeOK, StartSucceeds, config, history
  <2>4. LoadInv'
    BY <1>2, <2>1, <2>2 DEF IInv, LoadInv, StartSucceeds, config, history
  <2>5. UpInv' /\ ExitInv' /\ DependenciesUp' /\ LeftBehind'
    BY <1>2, <2>1, <2>2 DEF IInv, UpInv, ExitInv, DependenciesUp, LeftBehind,
                            StartSucceeds, config, history
  <2>6. OrderInv'
    <3>1. ASSUME NEW i \in DOMAIN loaded', NEW j \in DOMAIN loaded', i < j,
                 loaded'[i] \in up', loaded'[j] \in up'
          PROVE  Before(loaded'[i], loaded'[j])
      <4>1. i \in DOMAIN loaded /\ loaded'[i] = loaded[i]
        BY <2>2, <3>1
      <4>2. loaded[i] \in up
        BY <1>2, <2>1, <3>1, <4>1 DEF StartSucceeds, ToSet
      <4>3. CASE j \in DOMAIN loaded
        <5>1. loaded'[j] = loaded[j] /\ loaded[j] \in up
          BY <1>2, <2>1, <2>2, <3>1, <4>3 DEF StartSucceeds, ToSet
        <5> QED
          BY <2>1, <3>1, <4>1, <4>2, <4>3, <5>1, <1>2 DEF IInv, OrderInv
      <4>4. CASE j \notin DOMAIN loaded
        <5>1. loaded'[j] = m
          BY <2>2, <3>1, <4>4
        <5> QED
          BY <2>1, <4>1, <5>1 DEF ToSet
      <4> QED
        BY <4>3, <4>4
    <3>2. pc' = "starting" /\ order' = order
      BY <1>2 DEF StartSucceeds
    <3> QED
      BY <3>1, <3>2 DEF OrderInv, Before
  <2> QED
    BY <2>3, <2>4, <2>5, <2>6 DEF IInv
<1>3. ASSUME IInv, StartFails PROVE IInv'
  <2>1. /\ Current \in Modules /\ Current \notin ToSet(loaded)
        /\ pc \in {"starting", "nested"}
    BY <1>3, CurrentIsNew DEF StartFails, AtReturn
  <2>2. /\ loaded' \in Seq(Modules) /\ stopList' = loaded'
        /\ ToSet(loaded') = ToSet(loaded) /\ resume' = "fail" /\ pc' = "stopping"
    BY <1>3, BeginsShutdown DEF IInv, StartFails
  <2>3. TypeOK'
    BY <1>3, <2>1, <2>2 DEF IInv, TypeOK, StartFails, config
  <2>4. LoadInv'
    BY <1>3, <2>1, <2>2 DEF IInv, LoadInv, StartFails, Visited, config
  <2>5. UpInv' /\ ExitInv' /\ DependenciesUp' /\ LeftBehind'
    BY <1>3, <2>1, <2>2 DEF IInv, TypeOK, UpInv, ExitInv, DependenciesUp, LeftBehind,
                            StartFails, config
  <2>6. OrderInv'
    <3>1. up' \cap ToSet(loaded) \subseteq up /\ BeginShutdown("fail") /\ order' = order
      BY <1>3, <2>1 DEF StartFails
    <3> QED
      BY <1>3, <2>1, <3>1, ReversedOrder DEF IInv
  <2> QED
    BY <2>3, <2>4, <2>5, <2>6 DEF IInv
<1>4. ASSUME IInv, EnterNestedLoop PROVE IInv'
  <2>1. TypeOK' /\ LoadInv' /\ UpInv' /\ ExitInv' /\ DependenciesUp' /\ LeftBehind'
    BY <1>4 DEF IInv, TypeOK, LoadInv, UpInv, ExitInv, DependenciesUp, LeftBehind,
                EnterNestedLoop, Visited, config, history
  <2>2. OrderInv'
    BY <1>4, OrderKept DEF IInv, EnterNestedLoop
  <2> QED
    BY <2>1, <2>2 DEF IInv
<1>5. ASSUME IInv, AllStarted PROVE IInv'
  <2>1. TypeOK' /\ LoadInv' /\ UpInv' /\ ExitInv' /\ DependenciesUp' /\ LeftBehind'
    BY <1>5 DEF IInv, TypeOK, LoadInv, UpInv, ExitInv, DependenciesUp, LeftBehind,
                AllStarted, Visited, config, history
  <2>2. OrderInv'
    BY <1>5, OrderKept DEF IInv, AllStarted
  <2> QED
    BY <2>1, <2>2 DEF IInv
<1> QED
  BY <1>1, <1>2, <1>3, <1>4, <1>5 DEF Start

(* Stopping a module and returning from shutdown() keep the invariant.          *)
LEMMA StopKeeps == IInv /\ (StopModule \/ EndShutdown) => IInv'
<1>1. ASSUME IInv, StopModule PROVE IInv'
  <2> DEFINE m == Head(stopList)
  <2>1. /\ stopList \in Seq(Modules) /\ stopList # <<>> /\ m \in Modules
        /\ stopList' = Tail(stopList) /\ stopList' \in Seq(Modules)
        /\ ToSet(stopList) = {m} \cup ToSet(stopList')
    BY <1>1, TailSet DEF StopModule, IInv, TypeOK
  <2>2. TypeOK'
    BY <1>1, <2>1 DEF IInv, TypeOK, StopModule, config, history
  <2>3. LoadInv'
    BY <1>1 DEF IInv, LoadInv, StopModule, Visited, config, history
  <2>4. UpInv' /\ ExitInv' /\ DependenciesUp' /\ LeftBehind'
    BY <1>1, <2>1 DEF IInv, UpInv, ExitInv, DependenciesUp, LeftBehind, StopModule,
                      config, history
  <2>5. OrderInv'
    <3>1. ASSUME NEW i \in DOMAIN stopList', NEW j \in DOMAIN stopList', i < j,
                 stopList'[i] \in up', stopList'[j] \in up'
          PROVE  Before(stopList'[j], stopList'[i])
      <4>1. /\ i + 1 \in DOMAIN stopList /\ j + 1 \in DOMAIN stopList /\ i + 1 < j + 1
            /\ stopList'[i] = stopList[i + 1] /\ stopList'[j] = stopList[j + 1]
        BY <2>1, <3>1
      <4>2. stopList[i + 1] \in up /\ stopList[j + 1] \in up /\ pc = "stopping"
        BY <1>1, <3>1, <4>1 DEF StopModule
      <4> QED
        BY <1>1, <4>1, <4>2 DEF IInv, OrderInv
    <3>2. pc' = "stopping" /\ order' = order
      BY <1>1 DEF StopModule
    <3> QED
      BY <3>1, <3>2 DEF OrderInv, Before
  <2> QED
    BY <2>2, <2>3, <2>4, <2>5 DEF IInv
<1>2. ASSUME IInv, EndShutdown PROVE IInv'
  <2>1. up \cap ToSet(loaded) = {} /\ pc' \in {"loop", "nested"}
    BY <1>2 DEF IInv, TypeOK, UpInv, EndShutdown, ReturnTo, ToSet
  <2>2. TypeOK'
    BY <1>2 DEF IInv, TypeOK, EndShutdown, ExitWith, ReturnTo, CodeAfter, config,
                history
  <2>3. LoadInv'
    BY <1>2 DEF IInv, TypeOK, LoadInv, UpInv, EndShutdown, ExitWith, ReturnTo,
                Visited, config, history
  <2>4. UpInv' /\ DependenciesUp' /\ LeftBehind'
    BY <1>2, <2>1 DEF IInv, TypeOK, UpInv, DependenciesUp, LeftBehind, EndShutdown,
                      ReturnTo, config, history
  <2>5. ExitInv'
    BY <1>2 DEF IInv, TypeOK, ExitInv, EndShutdown, ExitWith, ReturnTo, CodeAfter,
                config, history
  <2>6. OrderInv'
    BY <1>2, <2>1 DEF OrderInv, EndShutdown, ToSet
  <2> QED
    BY <2>2, <2>3, <2>4, <2>5, <2>6 DEF IInv
<1> QED
  BY <1>1, <1>2

(* A signal or a Logout() that arrives, and the end of the process, keep the    *)
(* invariant.                                                                   *)
LEMMA WorldKeeps == IInv /\ (Request \/ Exit) => IInv'
<1> USE SessionAssumption
<1>1. ASSUME IInv, Request PROVE IInv'
  <2>1. TypeOK'
    BY <1>1 DEF IInv, TypeOK, Request, config, history, SessionAssumption
  <2>2. LoadInv' /\ UpInv' /\ ExitInv' /\ DependenciesUp' /\ LeftBehind'
    BY <1>1 DEF IInv, LoadInv, UpInv, ExitInv, DependenciesUp, LeftBehind, Request,
                Visited, config, history
  <2>3. OrderInv'
    BY <1>1, OrderKept DEF IInv, Request
  <2> QED
    BY <2>1, <2>2, <2>3 DEF IInv
<1>2. ASSUME IInv, Exit PROVE IInv'
  <2>1. TypeOK' /\ LoadInv' /\ UpInv' /\ ExitInv' /\ DependenciesUp' /\ LeftBehind'
    BY <1>2 DEF IInv, TypeOK, LoadInv, UpInv, ExitInv, DependenciesUp, LeftBehind,
                Exit, Killed, Visited, config, history
  <2>2. OrderInv'
    BY <1>2, OrderKept DEF IInv, Exit
  <2> QED
    BY <2>1, <2>2 DEF IInv
<1> QED
  BY <1>1, <1>2

(* A step that changes nothing keeps the invariant.                             *)
LEMMA Stuttering == IInv /\ UNCHANGED vars => IInv'
BY DEF IInv, TypeOK, LoadInv, UpInv, OrderInv, ExitInv, DependenciesUp, LeftBehind,
       Visited, Before, vars, config, history

(* The invariant is inductive: every step of the program keeps it.              *)
LEMMA Inductive == IInv /\ [Next]_vars => IInv'
<1> USE SessionAssumption
<1> SUFFICES ASSUME IInv, [Next]_vars PROVE IInv'
  OBVIOUS
<1>1. requests \in Nat /\ issued \in 0 .. MaxRequests /\ MaxRequests \in Nat
  BY DEF IInv, TypeOK, SessionAssumption
<1>2. CASE Boot
  BY <1>2, BootKeeps
<1>3. CASE Start
  BY <1>3, StartKeeps
<1>4. CASE ServeRequest
  BY <1>1, <1>4, ShutdownServed DEF ServeRequest
<1>5. ASSUME NEW m \in Modules, ModuleShutdown(m) PROVE IInv'
  BY <1>1, <1>5, ShutdownServed DEF ModuleShutdown
<1>6. CASE StopModule \/ EndShutdown
  BY <1>6, StopKeeps
<1>7. CASE Request \/ Exit
  BY <1>7, WorldKeeps
<1>8. CASE UNCHANGED vars
  BY <1>8, Stuttering
<1> QED
  BY <1>2, <1>3, <1>4, <1>5, <1>6, <1>7, <1>8 DEF Next, Shutdown

(* The invariant implies the barrier between the phases: the order is sorted by *)
(* phase, and all enabled modules up to the current one are loaded.             *)
LEMMA BarrierFollows == IInv => PhaseBarrier
<1> SUFFICES ASSUME IInv, NEW m \in ToSet(loaded), NEW n \in Enabled,
                    Phase[n] < Phase[m]
             PROVE  n \in ToSet(loaded)
  BY DEF PhaseBarrier
<1>1. order \in Orders /\ order \in Seq(Modules) /\ ToSet(order) = Modules
  <2>1. order # <<>>
    BY DEF IInv, TypeOK, LoadInv, Visited
  <2> QED
    BY <2>1, OrdersType, SessionAssumption DEF IInv, LoadInv
<1>2. next \in 1 .. Len(order) + 1 /\ DOMAIN order = 1 .. Len(order)
  BY <1>1 DEF IInv, TypeOK
<1>3. PICK i \in 1 .. next - 1 : m = order[i]
  BY DEF IInv, LoadInv, Visited
<1>4. PICK j \in DOMAIN order : n = order[j]
  BY <1>1 DEF Enabled, ToSet
<1>5. \A k, l \in DOMAIN order : k < l => Phase[order[k]] <= Phase[order[l]]
  BY <1>1 DEF Orders
<1>6. i \in DOMAIN order /\ m \in Modules /\ n \in Modules
  BY <1>1, <1>2, <1>3, <1>4
<1>7. Phase[m] \in Int /\ Phase[n] \in Int
  BY <1>6, SessionAssumption DEF SessionAssumption, StartupPhase
<1>8. j \in 1 .. next - 1
  BY <1>2, <1>3, <1>4, <1>5, <1>6, <1>7
<1> QED
  BY <1>4, <1>8 DEF IInv, LoadInv, Visited, Enabled

(* In a state of the invariant a step stops a module only when no loaded module *)
(* that was started after it is up.                                             *)
LEMMA StopStep ==
  IInv /\ [Next]_vars =>
    (pc = "stopping" =>
       \A m \in up \ up', n \in up' \cap ToSet(loaded) : Before(n, m))
<1> SUFFICES ASSUME IInv, [Next]_vars, pc = "stopping",
                    NEW m \in up \ up', NEW n \in up' \cap ToSet(loaded)
             PROVE  Before(n, m)
  OBVIOUS
<1>1. StopModule
  BY DEF Next, vars, Boot, RequireDBusSession, InitializeFails, Initialize, Start,
         SkipDisabled, StartSucceeds, StartFails, AtReturn, EnterNestedLoop,
         AllStarted, Shutdown, ServeRequest, ModuleShutdown, ServeShutdown,
         EndShutdown, Request, Exit
<1>2. /\ stopList \in Seq(Modules) /\ stopList # <<>> /\ m = stopList[1]
      /\ DOMAIN stopList = 1 .. Len(stopList) /\ Len(stopList) \in Nat \ {0}
  BY <1>1 DEF StopModule, IInv, TypeOK
<1>3. n \in up /\ n # m /\ n \in ToSet(stopList)
  BY <1>1, <1>2 DEF StopModule, IInv, UpInv
<1>4. PICK j \in DOMAIN stopList : n = stopList[j]
  BY <1>3 DEF ToSet
<1>5. 1 \in DOMAIN stopList /\ 1 < j
  BY <1>2, <1>3, <1>4
<1> QED
  BY <1>2, <1>3, <1>4, <1>5 DEF IInv, OrderInv

(* The inductive invariant of the session manager holds in every state,         *)
(* whatever modules are installed, however their phases are spread, and         *)
(* whenever shutdown requests arrive.                                           *)
THEOREM InvariantHolds == Spec => []IInv
BY InitHolds, Inductive, PTL DEF Spec

(* Every variable keeps its type.                                               *)
THEOREM TypeCorrect == Spec => []TypeOK
<1>1. IInv => TypeOK
  BY DEF IInv
<1> QED
  BY <1>1, InvariantHolds, PTL

(* No module is loaded before all enabled modules of the earlier phases are.    *)
THEOREM PhasesInOrder == Spec => []PhaseBarrier
BY BarrierFollows, InvariantHolds, PTL

(* What start() has started is up while it goes on, unless a shutdown was       *)
(* served in the nested loop of a supervisor.                                   *)
THEOREM DependenciesStayUp == Spec => []DependenciesUp
<1>1. IInv => DependenciesUp
  BY DEF IInv
<1> QED
  BY <1>1, InvariantHolds, PTL

(* After the exit only the child of a supervisor that failed to start can be    *)
(* left running, unless a shutdown was served in a nested loop.                 *)
THEOREM OnlyOrphansLeft == Spec => []LeftBehind
<1>1. IInv => LeftBehind
  BY DEF IInv
<1> QED
  BY <1>1, InvariantHolds, PTL

(* The exit code is 1 if and only if initialize() or start() failed and no      *)
(* shutdown request was served after the failure.                               *)
THEOREM ExitCodeTells == Spec => []FailureReported
<1>1. IInv => FailureReported
  BY DEF IInv, TypeOK, ExitInv, FailureReported
<1> QED
  BY <1>1, InvariantHolds, PTL

(* shutdown() stops a running module only when no loaded module that was        *)
(* started after it is up.                                                      *)
THEOREM StoppedInReverse == Spec => StopOrder
<1>1. Spec => [][Next]_vars
  BY PTL DEF Spec
<1> QED
  BY <1>1, StopStep, InvariantHolds, PTL DEF StopOrder

--------------------------------------------------------------------------------
(* The promise of SessionLifecycle.  The thread is where a session without a    *)
(* supervisor can be: start() has an order, and no loop is nested in it.        *)
PlainInv ==
  /\ pc \in {"starting", "nested"} \/ (pc = "stopping" /\ resume = "nested") =>
       order \in Orders /\ GoesOn
  /\ Plain => pc # "nested" /\ ~nested /\ (pc = "stopping" => resume # "nested")

LEMMA PlainKept == IInv /\ PlainInv /\ [Next]_vars => PlainInv'
<1> SUFFICES ASSUME IInv, PlainInv, [Next]_vars PROVE PlainInv'
  OBVIOUS
<1> USE DEF PlainInv, Plain, GoesOn, config, history
<1>1. CASE Boot
  BY <1>1 DEF Boot, RequireDBusSession, InitializeFails, Initialize, IInv, LoadInv
<1>2. CASE Start
  <2>1. Orders' = Orders
    BY DEF Orders
  <2>2. CASE SkipDisabled \/ AllStarted
    BY <2>1, <2>2 DEF SkipDisabled, AllStarted
  <2>3. CASE StartSucceeds
    BY <2>1, <2>3 DEF StartSucceeds, AtReturn
  <2>4. CASE StartFails
    BY <2>4 DEF StartFails, BeginShutdown
  <2>5. CASE EnterNestedLoop
    BY <2>5 DEF EnterNestedLoop
  <2> QED
    BY <1>2, <2>2, <2>3, <2>4, <2>5 DEF Start
<1>3. CASE Shutdown
  <2>1. CASE ServeShutdown
    BY <2>1 DEF ServeShutdown, BeginShutdown
  <2>2. CASE StopModule \/ EndShutdown
    BY <2>2 DEF StopModule, EndShutdown, ReturnTo, IInv, TypeOK
  <2> QED
    BY <1>3, <2>1, <2>2 DEF Shutdown, ServeRequest, ModuleShutdown
<1>4. CASE Request \/ Exit \/ UNCHANGED vars
  BY <1>4 DEF Request, Exit, vars
<1> QED
  BY <1>1, <1>2, <1>3, <1>4 DEF Next

(* A step that changes neither what is alive nor the stage. *)
AbstractStep == [Lifecycle!Next]_(Lifecycle!vars)

LEMMA SameStage ==
  ASSUME UNCHANGED disabled, Alive' = Alive, Stage' = Stage
  PROVE  AbstractStep
BY DEF AbstractStep, Lifecycle!vars

LEMMA NewStage ==
  ASSUME UNCHANGED disabled, Alive' = Alive,
         \/ Stage = "closed" /\ Stage' = "opening"
         \/ Stage \in {"closed", "opening", "open"} /\ Stage' = "closing"
         \/ Stage = "opening" /\ Stage' = "open" /\ Alive = Modules \ disabled
         \/ Stage = "closing" /\ Stage' = "gone" /\ Alive = {}
  PROVE  AbstractStep
BY DEF AbstractStep, Lifecycle!Next, Lifecycle!Open, Lifecycle!Close, Lifecycle!Opened,
       Lifecycle!Leave

(* A module that may be left out of the sessions considered changes nothing.    *)
LEMMA OthersStutter ==
  ASSUME ~Plain, UNCHANGED disabled
  PROVE  AbstractStep
BY SameStage DEF Plain, Alive, Stage

LEMMA ConfigKept == [Next]_vars => UNCHANGED config
BY DEF Next, vars, Boot, RequireDBusSession, InitializeFails, Initialize, Start, SkipDisabled,
       StartSucceeds, StartFails, EnterNestedLoop, AllStarted, Shutdown, ServeRequest,
       ModuleShutdown, ServeShutdown, StopModule, EndShutdown, Request, Exit

(* The sessions that count, and what stays as it is for them. *)
PlainStep ==
  /\ IInv /\ PlainInv /\ Plain /\ UNCHANGED config

LEMMA BootStep == ASSUME PlainStep, Boot PROVE AbstractStep
<1> USE DEF PlainStep, config
<1>1. pc = "boot" /\ up = {} /\ up' = {} /\ ~quitNow
  BY DEF Boot, RequireDBusSession, InitializeFails, Initialize, IInv, LoadInv
<1>2. Alive = {} /\ Alive' = {} /\ Stage = "closed"
  BY <1>1 DEF Alive, Stage
<1>3. CASE RequireDBusSession
  <2>1. pc' = "loop" /\ ~GoesOn'
    BY <1>3 DEF RequireDBusSession, GoesOn
  <2>2. Stage' \in {"closed", "closing"}
    BY <2>1 DEF Stage
  <2> QED
    BY <1>2, <2>2, SameStage, NewStage
<1>4. CASE InitializeFails
  <2>1. Stage' = "closing"
    BY <1>4 DEF InitializeFails, ExitWith, Stage, Closing, Plain
  <2> QED
    BY <1>2, <2>1, NewStage
<1>5. CASE Initialize
  <2>1. Stage' = "opening"
    BY <1>1, <1>5 DEF Initialize, Stage, Closing, Plain
  <2> QED
    BY <1>2, <2>1, NewStage
<1> QED
  BY <1>3, <1>4, <1>5 DEF Boot

LEMMA BarrierAfter == IInv' => PhaseBarrier'
BY BarrierFollows, PTL

(* start() brings up a module when those of earlier phases are up. *)
LEMMA StartStep == ASSUME PlainStep, Start PROVE AbstractStep
<1> USE DEF PlainStep, config
<1>1. /\ pc = "starting" /\ order \in Orders /\ GoesOn /\ ~nested /\ ~quitNow
      /\ Plain' /\ disabled' = disabled /\ GoesOn' /\ Supervisors \ disabled = {}
  BY DEF Start, SkipDisabled, StartSucceeds, StartFails, AtReturn, EnterNestedLoop,
         AllStarted, PlainInv, Plain, GoesOn, IInv, LoadInv
<1>2. Stage = "opening" /\ Alive = ToSet(loaded)
  BY <1>1 DEF Stage, Closing, Alive, IInv, DependenciesUp
<1>3. CASE SkipDisabled
  <2>1. Stage' = "opening" /\ Alive' = Alive
    BY <1>1, <1>3 DEF SkipDisabled, Stage, Closing, Alive
  <2> QED
    BY <1>2, <2>1, SameStage
<1>4. CASE StartSucceeds
  <2>1. Current \in Modules /\ Current \notin ToSet(loaded) /\ Current \notin disabled
    BY <1>4, CurrentIsNew DEF StartSucceeds, AtReturn
  <2>2. ToSet(loaded') = ToSet(loaded) \cup {Current}
    BY <1>4, <2>1, AppendSet DEF StartSucceeds, IInv, TypeOK
  <2>3. Stage' = "opening" /\ Alive' = Alive \cup {Current}
    BY <1>1, <1>2, <1>4, <2>2 DEF StartSucceeds, Stage, Closing, Alive
  <2>4. ASSUME NEW n \in Modules \ disabled, Phase[n] < Phase[Current]
        PROVE  n \in Alive
    <3>1. PhaseBarrier'
      BY <1>4, Inductive, BarrierAfter DEF Next, Start
    <3>2. Current \in ToSet(loaded') /\ n \in Enabled'
      BY <1>1, <2>2, <2>4 DEF Enabled
    <3>3. n \in ToSet(loaded')
      BY <3>1, <3>2, <2>4 DEF PhaseBarrier
    <3>4. n # Current
      BY <2>1, <2>4, SessionAssumption DEF StartupPhase
    <3> QED
      BY <1>2, <2>2, <3>3, <3>4
  <2>5. Lifecycle!BringUp(Current)
    BY <1>1, <1>2, <2>1, <2>3, <2>4 DEF Lifecycle!BringUp
  <2> QED
    BY <2>1, <2>5 DEF AbstractStep, Lifecycle!Next
<1>5. CASE StartFails
  <2>1. up' = up /\ pc' = "stopping" /\ \E return : BeginShutdown(return)
    BY <1>1, <1>5 DEF StartFails, AtReturn, BeginShutdown
  <2>2. ToSet(loaded') = ToSet(loaded)
    BY <2>1, BeginsShutdown DEF IInv
  <2>3. Stage' = "closing" /\ Alive' = Alive
    BY <1>1, <2>1, <2>2 DEF Stage, Closing, Alive, Plain
  <2> QED
    BY <1>1, <1>2, <2>3, NewStage
<1>6. CASE EnterNestedLoop
  BY <1>1, <1>6 DEF EnterNestedLoop
<1>7. CASE AllStarted
  <2>1. Stage' = "open" /\ Alive' = Alive
    BY <1>1, <1>7 DEF AllStarted, Stage, Closing, Alive
  <2>2. Visited = Modules
    <3>1. ToSet(order) = Modules /\ next = Len(order) + 1 /\ DOMAIN order = 1 .. Len(order)
      BY <1>1, <1>7, OrdersType, SessionAssumption DEF AllStarted, IInv, TypeOK
    <3> QED
      BY <3>1 DEF Visited, ToSet, IInv, TypeOK
  <2>3. Alive = Modules \ disabled
    BY <1>2, <2>2 DEF IInv, LoadInv
  <2> QED
    BY <1>1, <1>2, <2>1, <2>3, NewStage
<1> QED
  BY <1>3, <1>4, <1>5, <1>6, <1>7 DEF Start

(* shutdown() takes the modules down latest phase first. *)
LEMMA StopPlainStep == ASSUME PlainStep, Shutdown PROVE AbstractStep
<1> USE DEF PlainStep, config
<1>1. Plain' /\ disabled' = disabled /\ GoesOn' = GoesOn
  BY DEF Plain, GoesOn
<1>2. CASE ServeShutdown
  <2>1. /\ pc = "loop" /\ pc' = "stopping" /\ up' = up
        /\ \E return : BeginShutdown(return)
    BY <1>2 DEF ServeShutdown, BeginShutdown, PlainInv
  <2>2. ToSet(loaded') = ToSet(loaded)
    BY <2>1, BeginsShutdown DEF IInv
  <2>3. Stage' = "closing" /\ Alive' = Alive /\ Stage \in {"closed", "open", "closing"}
    BY <1>1, <2>1, <2>2 DEF Stage, Closing, Alive
  <2> QED
    BY <1>1, <2>3, SameStage, NewStage
<1>3. CASE StopModule
  <2> DEFINE m == Head(stopList)
  <2>1. /\ m \in Modules /\ up' = up \ {m} /\ loaded' = loaded
        /\ pc = "stopping" /\ pc' = "stopping"
    BY <1>3 DEF StopModule, IInv, TypeOK
  <2>2. Stage = "closing" /\ Stage' = "closing" /\ Alive' = Alive \ {m}
    BY <1>1, <2>1 DEF Stage, Closing, Alive
  <2>3. CASE m \in Alive
    <3>1. m \in up \ up' /\ m \in up
      BY <2>1, <2>3 DEF Alive
    <3>2. ASSUME NEW n \in Alive
          PROVE  Phase[n] <= Phase[m]
      <4>1. CASE n = m
        BY <2>1, <4>1, SessionAssumption DEF StartupPhase
      <4>2. CASE n # m
        <5>1. n \in up' \cap ToSet(loaded)
          BY <2>1, <4>2 DEF Alive
        <5>2. Before(n, m)
          BY <1>3, <2>1, <3>1, <5>1, StopStep DEF Next, Shutdown
        <5>3. order \in Orders
          BY <5>2 DEF Before, IInv, LoadInv
        <5> QED
          BY <5>2, <5>3 DEF Before, Orders
      <4> QED
        BY <4>1, <4>2
    <3>3. Lifecycle!TakeDown(m)
      BY <1>1, <2>2, <2>3, <3>2 DEF Lifecycle!TakeDown
    <3> QED
      BY <2>1, <3>3 DEF AbstractStep, Lifecycle!Next
  <2>4. CASE m \notin Alive
    BY <1>1, <2>2, <2>4, SameStage
  <2> QED
    BY <2>3, <2>4
<1>4. CASE EndShutdown
  <2>1. /\ pc = "stopping" /\ pc' = "loop" /\ quitNow' /\ up' = up /\ loaded' = loaded
    BY <1>4 DEF EndShutdown, ReturnTo, ExitWith, PlainInv, IInv, TypeOK
  <2>2. Stage = "closing" /\ Stage' = "closing" /\ Alive' = Alive
    BY <1>1, <2>1 DEF Stage, Closing, Alive
  <2> QED
    BY <1>1, <2>2, SameStage
<1> QED
  BY <1>2, <1>3, <1>4 DEF Shutdown, ServeRequest, ModuleShutdown

(* Nothing is alive any more when the process ends. *)
LEMMA WorldStep == ASSUME PlainStep, Request \/ Exit PROVE AbstractStep
<1> USE DEF PlainStep, config
<1>1. Plain' /\ disabled' = disabled /\ GoesOn' = GoesOn
  BY DEF Plain, GoesOn
<1>2. CASE Request
  BY <1>1, <1>2, SameStage DEF Request, Stage, Closing, Alive
<1>3. CASE Exit
  <2>1. Alive = {}
    BY <1>3 DEF Exit, Alive, IInv, UpInv, PlainInv
  <2>2. Alive' = {}
    BY <1>3, <2>1 DEF Exit, Alive
  <2>3. Stage = "closing" /\ Stage' = "gone"
    BY <1>1, <1>3 DEF Exit, Stage, Closing
  <2> QED
    BY <1>1, <2>1, <2>2, <2>3, NewStage
<1> QED
  BY <1>2, <1>3

LEMMA LifecycleStep ==
  IInv /\ PlainInv /\ [Next]_vars => [Lifecycle!Next]_(Lifecycle!vars)
<1> SUFFICES ASSUME IInv, PlainInv, [Next]_vars PROVE AbstractStep
  BY DEF AbstractStep
<1>1. UNCHANGED config /\ UNCHANGED disabled
  BY ConfigKept DEF config
<1>2. CASE UNCHANGED vars
  BY <1>2, SameStage DEF vars, config, Stage, Plain, Closing, GoesOn, Alive
<1>3. CASE Plain /\ Next
  <2>1. PlainStep
    BY <1>1, <1>3 DEF PlainStep
  <2> QED
    BY <1>3, <2>1, BootStep, StartStep, StopPlainStep, WorldStep DEF Next
<1> QED
  BY <1>1, <1>2, <1>3, OthersStutter

(* What session.cpp does keeps the promise of the startup phases: a module is   *)
(* brought up when those of all earlier phases are there, none after the        *)
(* session has begun to close, they go down latest phase first, and the process *)
(* ends when none is left.                                                      *)
THEOREM SessionKeepsLifecycle ==
  Spec => Lifecycle!Init /\ [][Lifecycle!Next]_(Lifecycle!vars)
<1>1. Init => Lifecycle!Init /\ PlainInv
  BY DEF Init, Lifecycle!Init, Alive, Stage, PlainInv
<1> QED
  BY <1>1, InitHolds, Inductive, PlainKept, LifecycleStep, PTL DEF Spec
================================================================================
