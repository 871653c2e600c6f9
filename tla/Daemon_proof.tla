------------------------------ MODULE Daemon_proof -----------------------------
(* Module Daemon: two daemons never run the same module, whatever daemons and   *)
(* modules there are and however often they are killed and started again.       *)
EXTENDS DaemonPlugins, SequenceTheorems, WellFoundedInduction, TLAPS

(* Only a module that loadModule() has found is ever started. *)
StartsKnown == \A d \in Daemons : stage[d] = "starting" => Asked[d] \in AutoLoad

(* OneLoader is inductive together with the types and with what is started.     *)
DaemonInv == TypeOK /\ StartsKnown /\ OneLoader

Steps(d) ==
  \/ Launch(d) \/ ClaimName(d) \/ StartModule(d) \/ CannotLoad(d)
  \/ StartAll(d) \/ Signal(d) \/ Leave(d) \/ Crash(d) \/ StartTimeout(d)

LEMMA Constants ==
  /\ "nobody" \notin Daemons /\ "ghost" \notin Daemons
  /\ AutoLoad \subseteq Modules /\ Units \subseteq Daemons /\ MaxSignals \in Nat
  BY DaemonAssumption

LEMMA CountedSignal ==
  ASSUME signals \in 0 .. MaxSignals, signals < MaxSignals
  PROVE  signals + 1 \in 0 .. MaxSignals
  BY Constants

--------------------------------------------------------------------------------
(* Types *)

LEMMA TypeBoot ==
  ASSUME TypeOK, StartsKnown, NEW d \in Daemons,
         Launch(d) \/ ClaimName(d) \/ StartModule(d) \/ CannotLoad(d) \/ StartAll(d)
  PROVE  TypeOK' /\ StartsKnown'
  <1>1. CASE Launch(d) BY <1>1 DEF TypeOK, StartsKnown, Launch
  <1>2. CASE ClaimName(d)
    BY <1>2, Constants DEF TypeOK, StartsKnown, ClaimName, CanClaim
  <1>3. CASE StartModule(d) BY <1>3 DEF TypeOK, StartsKnown, StartModule
  <1>4. CASE CannotLoad(d) BY <1>4 DEF TypeOK, StartsKnown, CannotLoad
  <1>5. CASE StartAll(d) BY <1>5 DEF TypeOK, StartsKnown, StartAll
  <1> QED BY <1>1, <1>2, <1>3, <1>4, <1>5

(* shutdown() unloads nothing, as it clears m_running before. *)
LEMMA ShutdownKeeps ==
  ASSUME TypeOK, NEW d \in Daemons, Shutdown(d)
  PROVE  /\ loaded' = loaded /\ UNCHANGED <<stage, owner>>
         /\ running' \in [Daemons -> BOOLEAN] /\ quit' \in [Daemons -> BOOLEAN]
  <1>1. running'[d] = FALSE /\ loaded' = [loaded EXCEPT ![d] = LeftLoaded(@, running'[d])]
    BY DEF TypeOK, Shutdown
  <1>2. loaded' = [loaded EXCEPT ![d] = loaded[d]]
    BY <1>1 DEF LeftLoaded
  <1>3. loaded' = loaded BY <1>2 DEF TypeOK
  <1> QED BY <1>3 DEF TypeOK, Shutdown, QuitLoop

LEMMA TypeGone ==
  ASSUME TypeOK, StartsKnown, NEW d \in Daemons, Gone(d)
  PROVE  /\ stage' \in [Daemons -> {"off", "new", "starting", "loop"}]
         /\ loaded' \in [Daemons -> SUBSET AutoLoad]
         /\ owner' \in [Modules -> Daemons \cup {"nobody", "ghost"}]
         /\ UNCHANGED <<running, quit>> /\ StartsKnown'
  BY DEF TypeOK, Gone, StartsKnown

LEMMA TypeEnd ==
  ASSUME TypeOK, StartsKnown, NEW d \in Daemons,
         Signal(d) \/ Leave(d) \/ Crash(d) \/ StartTimeout(d)
  PROVE  TypeOK' /\ StartsKnown'
  <1>1. CASE Signal(d)
    BY <1>1, ShutdownKeeps, CountedSignal DEF TypeOK, StartsKnown, Signal
  <1>2. CASE Leave(d) BY <1>2, TypeGone DEF TypeOK, Leave
  <1>3. CASE Crash(d) BY <1>3, TypeGone, CountedSignal DEF TypeOK, Crash
  <1>4. CASE StartTimeout(d)
    BY <1>4, ShutdownKeeps DEF TypeOK, StartsKnown, StartTimeout
  <1> QED BY <1>1, <1>2, <1>3, <1>4

LEMMA TypeFreed ==
  ASSUME TypeOK, StartsKnown, NEW m \in Modules, NameIsFreed(m)
  PROVE  TypeOK' /\ StartsKnown'
  BY DEF TypeOK, StartsKnown, NameIsFreed, process

--------------------------------------------------------------------------------
(* One loader *)

LEMMA LoaderBoot ==
  ASSUME DaemonInv, NEW d \in Daemons,
         Launch(d) \/ ClaimName(d) \/ StartModule(d) \/ CannotLoad(d) \/ StartAll(d)
  PROVE  OneLoader'
  <1> USE DEF DaemonInv
  <1>1. CASE Launch(d) BY <1>1 DEF TypeOK, OneLoader, Launch
  <1>2. CASE ClaimName(d)
    <2>1. Asked[d] \in Modules /\ owner[Asked[d]] = "nobody"
      BY <1>2, Constants DEF ClaimName, CanClaim
    <2>2. \A m \in Modules : owner[m] \in Daemons => owner'[m] = owner[m]
      BY <1>2, <2>1, Constants DEF ClaimName, TypeOK
    <2>3. owner'[Asked[d]] = d BY <1>2, <2>1 DEF ClaimName, TypeOK
    <2>4. \A c \in Daemons : \A m \in loaded[c] : m \in Modules
      BY Constants DEF TypeOK
    <2>5. \A c \in Daemons : stage[c] = "starting" => Asked[c] \in Modules
      BY Constants DEF StartsKnown
    <2> QED BY <1>2, <2>2, <2>3, <2>4, <2>5 DEF ClaimName, OneLoader, TypeOK
  <1>3. CASE StartModule(d) BY <1>3 DEF TypeOK, OneLoader, StartModule
  <1>4. CASE CannotLoad(d) BY <1>4 DEF TypeOK, OneLoader, CannotLoad
  <1>5. CASE StartAll(d)
    BY <1>5 DEF TypeOK, OneLoader, StartAll, SystemdEnabled, InitiallyEnabled
  <1> QED BY <1>1, <1>2, <1>3, <1>4, <1>5

(* The process that is gone takes its modules with it; the others keep theirs.  *)
LEMMA LoaderGone ==
  ASSUME DaemonInv, NEW d \in Daemons, Gone(d)
  PROVE  OneLoader'
  <1> SUFFICES ASSUME NEW c \in Daemons
               PROVE  /\ \A m \in loaded'[c] : owner'[m] = c /\ m = Asked[c]
                      /\ stage'[c] = "starting" => owner'[Asked[c]] = c
    BY DEF OneLoader
  <1>1. CASE c = d BY <1>1 DEF Gone, DaemonInv, TypeOK
  <1>2. CASE c # d
    <2>1. loaded'[c] = loaded[c] /\ stage'[c] = stage[c]
      BY <1>2 DEF Gone, DaemonInv, TypeOK
    <2>2. \A m \in Modules : owner[m] = c => owner'[m] = c
      BY <1>2 DEF Gone, DaemonInv, TypeOK
    <2>3. loaded[c] \subseteq Modules /\ (stage[c] = "starting" => Asked[c] \in Modules)
      BY Constants DEF DaemonInv, TypeOK, StartsKnown
    <2> QED BY <2>1, <2>2, <2>3 DEF DaemonInv, OneLoader
  <1> QED BY <1>1, <1>2

LEMMA LoaderEnd ==
  ASSUME DaemonInv, NEW d \in Daemons,
         Signal(d) \/ Leave(d) \/ Crash(d) \/ StartTimeout(d)
  PROVE  OneLoader'
  <1>1. CASE Signal(d)
    BY <1>1, ShutdownKeeps DEF DaemonInv, OneLoader, Signal
  <1>2. CASE Leave(d) BY <1>2, LoaderGone DEF Leave
  <1>3. CASE Crash(d) BY <1>3, LoaderGone DEF Crash
  <1>4. CASE StartTimeout(d)
    BY <1>4, ShutdownKeeps DEF DaemonInv, OneLoader, StartTimeout
  <1> QED BY <1>1, <1>2, <1>3, <1>4

LEMMA LoaderFreed ==
  ASSUME DaemonInv, NEW m \in Modules, NameIsFreed(m)
  PROVE  OneLoader'
  <1>1. \A k \in Modules : owner[k] \in Daemons => owner'[k] = owner[k]
    BY Constants DEF NameIsFreed, DaemonInv, TypeOK
  <1>2. \A c \in Daemons : /\ loaded[c] \subseteq Modules
                           /\ stage[c] = "starting" => Asked[c] \in Modules
    BY Constants DEF DaemonInv, TypeOK, StartsKnown
  <1> QED BY <1>1, <1>2 DEF NameIsFreed, process, DaemonInv, OneLoader

--------------------------------------------------------------------------------
LEMMA DaemonInvInitially == Init => DaemonInv
  <1>1. Init => TypeOK BY Constants DEF Init, TypeOK
  <1>2. Init => StartsKnown /\ OneLoader BY DEF Init, StartsKnown, OneLoader
  <1> QED BY <1>1, <1>2 DEF DaemonInv

LEMMA DaemonInvKept == ASSUME DaemonInv, [Next]_vars PROVE DaemonInv'
  <1>1. CASE UNCHANGED vars
    BY <1>1 DEF vars, process, DaemonInv, TypeOK, StartsKnown, OneLoader
  <1>2. ASSUME NEW d \in Daemons, Steps(d) PROVE DaemonInv'
    BY <1>2, TypeBoot, TypeEnd, LoaderBoot, LoaderEnd DEF Steps, DaemonInv
  <1>3. ASSUME NEW m \in Modules, NameIsFreed(m) PROVE DaemonInv'
    BY <1>3, TypeFreed, LoaderFreed DEF DaemonInv
  <1> QED BY <1>1, <1>2, <1>3 DEF Next, Steps

(* A module that a daemon has started, or is about to, has that daemon as the   *)
(* owner of its bus name (daemon.cpp:191): no two daemons ever run the same     *)
(* one, though the bus may still have the name of a process that is gone.       *)
THEOREM NoModuleTwice == Spec => []OneLoader
  <1>1. DaemonInv => OneLoader BY DEF DaemonInv
  <1> QED BY <1>1, DaemonInvInitially, DaemonInvKept, PTL DEF Spec

--------------------------------------------------------------------------------
(* The registry *)

(* A set of numbers that is not empty has a least element.  What is false of    *)
(* some number is then false of a least one: this replaces induction.           *)
LEMMA Least ==
  ASSUME NEW T, T \subseteq Nat, T # {}
  PROVE  \E n \in T : \A m \in T : n <= m
  <1> DEFINE Less == {ss \in Nat \X Nat : ss[1] < ss[2]}
  <1>1. IsWellFoundedOn(Less, Nat) BY NatLessThanWellFounded DEF OpToRel
  <1>2. \E n \in T : \A m \in T : <<m, n>> \notin Less
    <2> HIDE DEF Less
    <2> QED BY <1>1, WFMin
  <1>3. PICK n \in T : \A m \in T : <<m, n>> \notin Less BY <1>2
  <1>4. ASSUME NEW m \in T PROVE n <= m
    <2>1. m \in Nat /\ n \in Nat /\ (<<m, n>> \in Less <=> m < n) OBVIOUS
    <2> QED BY <1>3, <2>1
  <1> QED BY <1>4

(* The registry after each of the first k files. *)
Follows(f, files, k) ==
  f = [n \in 0 .. k |-> IF n = 0 THEN <<>> ELSE addPlugin(f[n - 1], files[n])]

LEMMA OneMoreFile ==
  ASSUME NEW files, NEW k \in Nat \ {0}, NEW f, Follows(f, files, k - 1)
  PROVE  \E g : Follows(g, files, k)
  <1> DEFINE g == [n \in 0 .. k |-> IF n = k THEN addPlugin(f[k - 1], files[k]) ELSE f[n]]
  <1>1. \A n \in 0 .. k - 1 : n \in 0 .. k /\ n # k /\ g[n] = f[n] OBVIOUS
  <1>2. ASSUME NEW n \in 0 .. k
        PROVE  g[n] = IF n = 0 THEN <<>> ELSE addPlugin(g[n - 1], files[n])
    <2>1. CASE n = k
      <3>1. g[k] = addPlugin(f[k - 1], files[k]) /\ k - 1 \in 0 .. k - 1 OBVIOUS
      <3>2. g[k - 1] = f[k - 1] BY <1>1, <3>1
      <3> QED BY <2>1, <3>1, <3>2
    <2>2. CASE n # k
      <3>1. n \in 0 .. k - 1 BY <2>2
      <3>2. f[n] = IF n = 0 THEN <<>> ELSE addPlugin(f[n - 1], files[n])
        BY <3>1 DEF Follows
      <3>3. n # 0 => n - 1 \in 0 .. k - 1 BY <3>1
      <3> QED BY <1>1, <3>1, <3>2, <3>3
    <2> QED BY <2>1, <2>2
  <1>3. g = [n \in 0 .. k |-> g[n]] OBVIOUS
  <1>4. Follows(g, files, k)
    <2> HIDE DEF g
    <2> QED BY <1>2, <1>3 DEF Follows
  <1> QED BY <1>4

LEMMA FollowsExists ==
  ASSUME NEW files, NEW k \in Nat
  PROVE  \E f : Follows(f, files, k)
  <1> DEFINE T == {n \in Nat : ~ \E f : Follows(f, files, n)}
  <1> SUFFICES ASSUME T # {} PROVE FALSE
    OBVIOUS
  <1>1. PICK n \in T : \A m \in T : n <= m BY Least
  <1>2. CASE n = 0
    <2> DEFINE f == [i \in 0 .. 0 |-> <<>>]
    <2>1. f = [i \in 0 .. 0 |-> IF i = 0 THEN <<>> ELSE addPlugin(f[i - 1], files[i])]
      OBVIOUS
    <2> QED BY <1>1, <1>2, <2>1 DEF Follows
  <1>3. CASE n # 0
    <2>1. n \in Nat \ {0} /\ n - 1 \in Nat /\ ~ (n <= n - 1) BY <1>3
    <2>2. n - 1 \notin T BY <1>1, <2>1
    <2>3. PICK f : Follows(f, files, n - 1) BY <2>1, <2>2
    <2> QED BY <2>1, <2>3, OneMoreFile
  <1> QED BY <1>2, <1>3

(* discover() looks at one file after the other. *)
LEMMA FoundFollows ==
  ASSUME NEW files, Len(files) \in Nat
  PROVE  Follows(Found(files), files, Len(files))
  <1>1. \E f : Follows(f, files, Len(files)) BY FollowsExists
  <1> QED BY <1>1 DEF Found, Follows

(* The registry after the first n files: each Id stands for the file that came  *)
(* last among them.                                                             *)
Newer(files, n, i) ==
  \E j \in 1 .. n : j > i /\ Accepted(files[j]) /\ files[j].id = files[i].id
RightAfter(files, n, plugins) ==
  /\ \A i \in 1 .. n : Accepted(files[i]) => files[i].id \in DOMAIN plugins
  /\ \A id \in DOMAIN plugins : \E i \in 1 .. n :
       /\ Accepted(files[i]) /\ files[i].id = id /\ plugins[id] = files[i]
       /\ ~Newer(files, n, i)

LEMMA RightWithOneMore ==
  ASSUME NEW files, NEW n \in Nat \ {0}, NEW plugins, RightAfter(files, n - 1, plugins)
  PROVE  RightAfter(files, n, addPlugin(plugins, files[n]))
  <1> DEFINE file == files[n]
             after == addPlugin(plugins, file)
  <1>1. n \in 1 .. n /\ 1 .. n = (1 .. n - 1) \cup {n} /\ n \notin 1 .. n - 1 OBVIOUS
  <1>2. CASE ~Accepted(file)
    <2>1. after = plugins BY <1>2 DEF addPlugin
    <2>2. \A i \in 1 .. n - 1 : Newer(files, n, i) => Newer(files, n - 1, i)
      BY <1>1, <1>2 DEF Newer
    <2>3. RightAfter(files, n, plugins) BY <1>1, <1>2, <2>2 DEF RightAfter
    <2> QED BY <2>1, <2>3
  <1>3. CASE Accepted(file)
    <2>1. after = [id \in DOMAIN plugins \cup {file.id} |-> IF id = file.id THEN file ELSE plugins[id]]
      BY <1>3 DEF addPlugin, Replaces
    <2> HIDE DEF after, file
    <2>2. DOMAIN after = DOMAIN plugins \cup {file.id} /\ after[file.id] = file
      BY <2>1
    <2>3. \A id \in DOMAIN plugins : id # file.id => after[id] = plugins[id] BY <2>1
    <2>4. \A i \in 1 .. n : Accepted(files[i]) => files[i].id \in DOMAIN after
      BY <1>1, <2>2 DEF RightAfter, file
    <2>5. ASSUME NEW id \in DOMAIN after
          PROVE  \E i \in 1 .. n :
                   /\ Accepted(files[i]) /\ files[i].id = id /\ after[id] = files[i]
                   /\ ~Newer(files, n, i)
      <3>1. CASE id = file.id
        <4>1. ~Newer(files, n, n) BY DEF Newer
        <4> QED BY <1>1, <1>3, <2>2, <3>1, <4>1 DEF file
      <3>2. CASE id # file.id
        <4>1. id \in DOMAIN plugins /\ after[id] = plugins[id] BY <2>2, <2>3, <3>2
        <4>2. PICK i \in 1 .. n - 1 :
                /\ Accepted(files[i]) /\ files[i].id = id /\ plugins[id] = files[i]
                /\ ~Newer(files, n - 1, i)
          BY <4>1 DEF RightAfter
        <4>3. ~Newer(files, n, i) BY <1>1, <3>2, <4>2 DEF Newer, file
        <4> QED BY <1>1, <4>1, <4>2, <4>3
      <3> QED BY <3>1, <3>2
    <2>6. RightAfter(files, n, after) BY <2>4, <2>5 DEF RightAfter
    <2> QED BY <2>6 DEF after, file
  <1> QED BY <1>2, <1>3

LEMMA RightAtEnd ==
  ASSUME NEW files \in Seq(Files)
  PROVE  RightAfter(files, Len(files), Found(files)[Len(files)])
  <1> DEFINE found == Found(files)
             T == {n \in 0 .. Len(files) : ~RightAfter(files, n, found[n])}
  <1>1. Len(files) \in Nat /\ Follows(found, files, Len(files)) BY FoundFollows
  <1> HIDE DEF found
  <1>2. T = {}
    <2> SUFFICES ASSUME T # {} PROVE FALSE
      OBVIOUS
    <2>1. T \subseteq Nat BY <1>1
    <2>2. PICK n \in T : \A m \in T : n <= m
      <3> HIDE DEF T
      <3> QED BY <2>1, Least
    <2>3. n \in 0 .. Len(files) /\ n \in Nat BY <1>1
    <2>4. found[n] = IF n = 0 THEN <<>> ELSE addPlugin(found[n - 1], files[n])
      BY <1>1, <2>3 DEF Follows
    <2>5. CASE n = 0
      <3>1. found[n] = <<>> /\ DOMAIN <<>> = {} BY <2>4, <2>5
      <3>2. RightAfter(files, 0, <<>>) BY <3>1 DEF RightAfter
      <3> QED BY <2>2, <2>5, <3>1, <3>2
    <2>6. CASE n # 0
      <3>1. n - 1 \in 0 .. Len(files) /\ ~ (n <= n - 1) /\ n \in Nat \ {0}
        BY <1>1, <2>3, <2>6
      <3>2. n - 1 \notin T BY <2>2, <3>1
      <3>3. RightAfter(files, n - 1, found[n - 1]) BY <3>1, <3>2
      <3>4. RightAfter(files, n, found[n]) BY <2>4, <2>6, <3>1, <3>3, RightWithOneMore
      <3> QED BY <2>2, <3>4
    <2> QED BY <2>5, <2>6
  <1>3. Len(files) \in 0 .. Len(files) BY <1>1
  <1> QED BY <1>2, <1>3 DEF found

(* What discover() makes of a list of files. *)
LEMMA Discovered ==
  ASSUME NEW static \in Seq(Files), NEW directory \in Seq(Files)
  PROVE  Agrees(static, directory)
  <1> DEFINE files == static \o directory
             plugins == discover(static, directory)
  <1>1. files \in Seq(Files) OBVIOUS
  <1>2. RightAfter(files, Len(files), plugins) BY <1>1, RightAtEnd DEF discover
  <1>3. DOMAIN files = 1 .. Len(files) /\ Len(files) \in Nat /\ \A i \in DOMAIN files : files[i] \in Files
    BY <1>1
  <1> HIDE DEF files, plugins
  <1>4. ASSUME NEW id \in DOMAIN plugins
        PROVE  \E i \in Newest(files) : files[i].id = id /\ plugins[id] = files[i]
    BY <1>2, <1>3 DEF RightAfter, Newer, Newest
  <1>5. ASSUME NEW i \in Newest(files)
        PROVE  files[i].id \in DOMAIN plugins /\ plugins[files[i].id] = files[i]
    <2>1. i \in 1 .. Len(files) /\ Accepted(files[i]) BY <1>3 DEF Newest
    <2>2. files[i].id \in DOMAIN plugins BY <1>2, <2>1 DEF RightAfter
    <2>3. PICK j \in Newest(files) : files[j].id = files[i].id /\ plugins[files[i].id] = files[j]
      BY <1>4, <2>2
    <2>4. ~(i < j) /\ ~(j < i) /\ j \in 1 .. Len(files) BY <1>3, <2>1, <2>3 DEF Newest
    <2>5. i = j BY <1>3, <2>1, <2>4
    <2> QED BY <2>2, <2>3, <2>5
  <1>6. Range(plugins) = {files[i] : i \in Newest(files)}
    <2>1. Range(plugins) = {plugins[id] : id \in DOMAIN plugins} BY DEF Range
    <2> QED BY <1>4, <1>5, <2>1
  <1>7. \A id \in DOMAIN plugins : plugins[id].id = id /\ plugins[id] \in Files
    BY <1>3, <1>4 DEF Newest
  <1>8. ASSUME NEW id \in ModuleNames(plugins)
        PROVE  NamesOf(plugins, getInstance(plugins, id)) = {id}
    <2>1. id \in DOMAIN plugins /\ plugins[id].instance \in Instances
      BY DEF ModuleNames, IsModule
    <2>2. getInstance(plugins, id) = plugins[id].instance BY <2>1 DEF getInstance
    <2>3. ASSUME NEW name \in DOMAIN plugins, plugins[name].instance = plugins[id].instance
          PROVE  name = id
      BY <1>7, <2>1, <2>3, PluginRegistryAssumption
    <2> QED BY <2>1, <2>2, <2>3 DEF NamesOf
  <1> QED BY <1>6, <1>7, <1>8 DEF Agrees, files, plugins

(* The registry is right for every list of files, however long: each Id stands  *)
(* for the file that was found last, broken or not, and the names and the       *)
(* modules of a program are one to one (pluginregistry.cpp:83).                 *)
THEOREM RegistryAgrees == AlwaysAgrees
  <1> SUFFICES ASSUME NEW n \in 0 .. MaxFiles, NEW files \in [1 .. n -> Files],
                      NEW k \in 0 .. MaxFiles, k <= n
               PROVE  Agrees(SubSeq(files, 1, k), SubSeq(files, k + 1, n))
    BY DEF AlwaysAgrees
  <1>1. n \in Nat /\ k \in Nat BY PluginRegistryAssumption
  <1>2. files \in Seq(Files) /\ Len(files) = n BY <1>1
  <1>3. \A i \in 1 .. k : files[i] \in Files BY <1>1, <1>2
  <1>4. \A i \in k + 1 .. n : files[i] \in Files BY <1>1, <1>2
  <1>5. SubSeq(files, 1, k) \in Seq(Files) BY <1>1, <1>3, SubSeqProperties
  <1>6. SubSeq(files, k + 1, n) \in Seq(Files) BY <1>1, <1>4, SubSeqProperties
  <1> QED BY <1>5, <1>6, Discovered

(* What a daemon has started is a module, the one that was found last under     *)
(* its name, whatever is installed and however often daemons are started.       *)
THEOREM RegistryStaysRight == Spec => []RegistryRight
  <1>1. DaemonInv => RegistryRight
    <2> SUFFICES ASSUME DaemonInv, NEW d \in Daemons, NEW m \in loaded[d]
                 PROVE  \E i \in Newest(Plugins) :
                          /\ Plugins[i].id = m
                          /\ getInstance(Installed, m) = Plugins[i].instance
                          /\ getInstance(Installed, m) \in Instances
      BY RegistryAgrees DEF RegistryRight
    <2>1. m \in ModuleNames(Installed)
      BY DaemonPluginsAssumption DEF DaemonInv, TypeOK, AutoLoaded
    <2>2. m \in DOMAIN Installed /\ Installed[m].instance \in Instances
      BY <2>1 DEF ModuleNames, IsModule
    <2>3. Agrees(Static, Directory) BY DaemonPluginsAssumption, Discovered
    <2>4. Installed[m].id = m /\ Installed[m] \in Range(Installed)
      BY <2>2, <2>3 DEF Agrees, Installed, Range
    <2>5. PICK i \in Newest(Plugins) : Installed[m] = Plugins[i]
      BY <2>3, <2>4 DEF Agrees, Installed, Plugins
    <2> QED BY <2>2, <2>4, <2>5 DEF getInstance
  <1> QED BY <1>1, DaemonInvInitially, DaemonInvKept, PTL DEF Spec
================================================================================
