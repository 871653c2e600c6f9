--------------------------- MODULE Applications_proof --------------------------
(* Module Applications: every scope that runs has its object, whatever is       *)
(* installed and launched.                                                      *)
EXTENDS Applications, FiniteSetTheorems, TLAPS

Programs == Entries \cup {Command}

(* The numbers in use are those of what was launched: the next one is new. *)
NumbersInv ==
  /\ launched \in Seq(Programs)
  /\ scopes \cup running \cup objects \subseteq 1 .. Len(launched)
  /\ over \in BOOLEAN

(* The session does not end while start() launches. *)
StartsBeforeEnd == autostart = "starting" => ~over

(* ObjectPerScope is inductive together with these. *)
AppInv == NumbersInv /\ StartsBeforeEnd /\ ObjectPerScope

LEMMA NewNumber ==
  ASSUME NumbersInv, NEW what \in Programs, launched' = Append(launched, what)
  PROVE  /\ launched' \in Seq(Programs)
         /\ Len(launched) + 1 \in 1 .. Len(launched')
         /\ 1 .. Len(launched) \subseteq 1 .. Len(launched')
         /\ Len(launched) + 1 \notin 1 .. Len(launched)
         /\ launched'[Len(launched) + 1] = what
         /\ \A id \in 1 .. Len(launched) : launched'[id] = launched[id]
  BY DEF NumbersInv

(* Launch() puts a new number into scopes only with an object, and only if the  *)
(* bus cannot start the program.                                                *)
LEMMA LaunchKeeps ==
  ASSUME AppInv, NEW what \in Programs, Launch(what), ~over,
         over' = over, autostart' = autostart
  PROVE  AppInv'
  <1> DEFINE id == Len(launched) + 1
  <1>1. launched' = Append(launched, what) BY DEF Launch
  <1>2. id \notin scopes \cup running \cup objects
    BY <1>1, NewNumber DEF AppInv, NumbersInv
  <1>3. CASE NeedsScope(what) /\ RunScope(id)
    <2>1. NumbersInv'
      BY <1>1, <1>3, NewNumber DEF AppInv, NumbersInv, RunScope
    <2>2. (running \cap scopes)' \subseteq objects'
      BY <1>3 DEF AppInv, ObjectPerScope, RunScope
    <2>3. \A i \in objects' : i \in scopes' => launched'[i] \notin Activatable
      <3> SUFFICES ASSUME NEW i \in objects', i \in scopes'
                   PROVE  launched'[i] \notin Activatable
        OBVIOUS
      <3>1. CASE i = id
        BY <3>1, <1>1, <1>3, NewNumber DEF AppInv, NeedsScope
      <3>2. CASE i # id
        <4>1. i \in objects /\ i \in scopes BY <3>2, <1>3 DEF RunScope
        <4> QED BY <4>1, <1>1, NewNumber DEF AppInv, NumbersInv, ObjectPerScope
      <3> QED BY <3>1, <3>2
    <2> QED BY <2>1, <2>2, <2>3 DEF AppInv, StartsBeforeEnd, ObjectPerScope
  <1>4. CASE ~NeedsScope(what) /\ Detach(id, what)
    <2>1. NumbersInv'
      BY <1>1, <1>4, NewNumber DEF AppInv, NumbersInv, Detach
    <2>2. (running \cap scopes)' \subseteq objects'
      BY <1>2, <1>4 DEF AppInv, ObjectPerScope, Detach
    <2>3. \A i \in objects' : i \in scopes' => launched'[i] \notin Activatable
      <3> SUFFICES ASSUME NEW i \in objects', i \in scopes'
                   PROVE  launched'[i] \notin Activatable
        OBVIOUS
      <3>1. i \in objects /\ i \in scopes BY <1>2, <1>4 DEF Detach
      <3> QED BY <3>1, <1>1, NewNumber DEF AppInv, NumbersInv, ObjectPerScope
    <2> QED BY <2>1, <2>2, <2>3 DEF AppInv, StartsBeforeEnd, ObjectPerScope
  <1> QED BY <1>3, <1>4 DEF Launch

(* Programs that end, objects that are deleted after them, and stop(). *)
LEMMA EndKeeps ==
  ASSUME AppInv, NEW id \in Ids,
         handleProcessFinished(id) \/ ProgramEnds(id) \/ StopAutostart
  PROVE  AppInv'
  <1>1. CASE handleProcessFinished(id)
    BY <1>1 DEF handleProcessFinished, ThreadIsFree, Finished, AppInv, NumbersInv,
                StartsBeforeEnd, ObjectPerScope
  <1>2. CASE ProgramEnds(id)
    BY <1>2 DEF ProgramEnds, AppInv, NumbersInv, StartsBeforeEnd, ObjectPerScope
  <1>3. CASE StopAutostart
    BY <1>3 DEF StopAutostart, AppInv, NumbersInv, StartsBeforeEnd, ObjectPerScope
  <1> QED BY <1>1, <1>2, <1>3

(* ~ProcessLauncher kills what runs in scopes, as all of it has objects. *)
LEMMA SessionEndKeeps == ASSUME AppInv, SessionEnds PROVE AppInv'
  BY DEF SessionEnds, ThreadIsFree, DeleteObjects, AppInv, NumbersInv, StartsBeforeEnd,
         ObjectPerScope

LEMMA AppInvKept == ASSUME AppInv, [Next]_vars PROVE AppInv'
  <1>1. CASE UNCHANGED vars
    BY <1>1 DEF vars, launcher, AppInv, NumbersInv, StartsBeforeEnd, ObjectPerScope
  <1>2. CASE StartAutostart \/ AutostartStarted
    BY <1>2 DEF StartAutostart, AutostartStarted, launcher, AppInv, NumbersInv,
                StartsBeforeEnd, ObjectPerScope
  <1>3. CASE StopAutostart
    BY <1>3 DEF StopAutostart, AppInv, NumbersInv, StartsBeforeEnd, ObjectPerScope
  <1>4. CASE SessionEnds BY <1>4, SessionEndKeeps
  <1>5. ASSUME NEW e \in Entries, IgnoreEntry(e) PROVE AppInv'
    BY <1>5 DEF IgnoreEntry, launcher, AppInv, NumbersInv, StartsBeforeEnd,
                ObjectPerScope
  <1>6. ASSUME NEW e \in Entries, LaunchEntry(e) PROVE AppInv'
    <2>1. ~over BY <1>6 DEF LaunchEntry, AppInv, StartsBeforeEnd
    <2> QED BY <1>6, <2>1, LaunchKeeps DEF LaunchEntry, Programs
  <1>7. ASSUME NEW what \in Programs, LaunchFor(what) PROVE AppInv'
    BY <1>7, LaunchKeeps DEF LaunchFor, ThreadIsFree
  <1>8. ASSUME NEW id \in Ids, handleProcessFinished(id) \/ ProgramEnds(id)
        PROVE  AppInv'
    BY <1>8, EndKeeps
  <1> QED BY <1>1, <1>2, <1>3, <1>4, <1>5, <1>6, <1>7, <1>8 DEF Next, Programs

(* A scope that runs has its object while the session manager is there, and no  *)
(* scope outlives it; no program the bus starts is a scope                      *)
(* (processlauncher.cpp:107, 189).                                              *)
THEOREM ScopesHaveObjects == Spec => []ObjectPerScope
  <1>1. Init => AppInv
    <2>1. <<>> \in Seq(Programs) OBVIOUS
    <2> QED BY <2>1 DEF Init, AppInv, NumbersInv, StartsBeforeEnd, ObjectPerScope
  <1>2. AppInv => ObjectPerScope BY DEF AppInv
  <1> QED BY <1>1, <1>2, AppInvKept, PTL DEF Spec

--------------------------------------------------------------------------------
(* Types, and how much is launched at most *)

(* What Autostart has launched and has still to launch is not more than what    *)
(* there is to launch; start() is only called once.                             *)
CountInv ==
  /\ autostart = "idle" => Len(launched) <= MaxLaunches
  /\ Len(launched) + Cardinality(todo) <= MaxLaunches + Cardinality(Suitable)

AutostartInv ==
  /\ systemd \in BOOLEAN /\ autostart \in {"idle", "starting", "started", "stopped"}
  /\ todo \subseteq Suitable /\ desktopFiles \subseteq Suitable

SizeInv == AppInv /\ AutostartInv /\ CountInv

LEMMA Sizes ==
  /\ IsFiniteSet(Suitable) /\ Cardinality(Suitable) \in Nat /\ MaxLaunches \in Nat
  /\ \A T \in SUBSET Suitable : IsFiniteSet(T) /\ Cardinality(T) \in Nat
                                /\ Cardinality(T) <= Cardinality(Suitable)
  <1>1. IsFiniteSet(Suitable) /\ MaxLaunches \in Nat
    BY ApplicationsAssumption, FS_Subset
  <1> QED BY <1>1, FS_Subset, FS_CardinalityType

(* An entry less to look at. *)
LEMMA OneLess ==
  ASSUME todo \subseteq Suitable, NEW e \in todo
  PROVE  Cardinality(todo \ {e}) + 1 = Cardinality(todo) /\ Cardinality(todo) \in Nat
  <1>1. IsFiniteSet(todo) /\ Cardinality(todo) \in Nat BY Sizes
  <1>2. Cardinality(todo \ {e}) = Cardinality(todo) - 1 BY <1>1, FS_RemoveElement
  <1> QED BY <1>1, <1>2

LEMMA TypesFollow == SizeInv => TypeOK
  <1> SUFFICES ASSUME SizeInv PROVE TypeOK
    OBVIOUS
  <1>1. /\ Len(launched) \in Nat /\ DOMAIN launched = 1 .. Len(launched)
        /\ launched \in Seq(Programs)
    BY DEF SizeInv, AppInv, NumbersInv
  <1>2. Cardinality(todo) \in Nat BY Sizes DEF SizeInv, AutostartInv
  <1>3. Len(launched) <= MaxLaunches + Cardinality(Suitable)
    BY <1>1, <1>2, Sizes DEF SizeInv, CountInv
  <1>4. DOMAIN launched \subseteq Ids BY <1>1, <1>3, Sizes DEF Ids
  <1> QED BY <1>1, <1>4 DEF SizeInv, AppInv, NumbersInv, AutostartInv, Programs, TypeOK

LEMMA AutostartKept == ASSUME SizeInv, [Next]_vars PROVE AutostartInv'
  <1> USE DEF SizeInv, AutostartInv
  <1>1. CASE UNCHANGED vars BY <1>1 DEF vars
  <1>2. CASE StartAutostart \/ AutostartStarted \/ StopAutostart \/ SessionEnds
    BY <1>2 DEF StartAutostart, Considered, AutostartStarted, StopAutostart, SessionEnds
  <1>3. ASSUME NEW e \in Entries, IgnoreEntry(e) \/ LaunchEntry(e) PROVE AutostartInv'
    BY <1>3 DEF IgnoreEntry, LaunchEntry
  <1>4. ASSUME NEW what \in Programs, LaunchFor(what) PROVE AutostartInv'
    BY <1>4 DEF LaunchFor
  <1>5. ASSUME NEW id \in Ids, handleProcessFinished(id) \/ ProgramEnds(id)
        PROVE  AutostartInv'
    BY <1>5 DEF handleProcessFinished, ProgramEnds
  <1> QED BY <1>1, <1>2, <1>3, <1>4, <1>5 DEF Next, Programs

LEMMA CountKept == ASSUME SizeInv, [Next]_vars PROVE CountInv'
  <1> USE DEF SizeInv
  <1>1. Len(launched) \in Nat /\ Cardinality(todo) \in Nat
    BY Sizes DEF AppInv, NumbersInv, AutostartInv
  <1>2. CASE launched' = launched /\ todo' = todo /\ (autostart' = "idle" => autostart = "idle")
    BY <1>2 DEF CountInv
  <1>3. CASE StartAutostart
    BY <1>1, <1>3, Sizes DEF StartAutostart, Considered, launcher, CountInv
  <1>4. CASE AutostartStarted \/ StopAutostart \/ SessionEnds \/ UNCHANGED vars
    BY <1>2, <1>4 DEF AutostartStarted, StopAutostart, SessionEnds, vars, launcher
  <1>5. ASSUME NEW e \in Entries, IgnoreEntry(e) PROVE CountInv'
    <2>1. /\ e \in todo /\ todo' = todo \ {e} /\ launched' = launched
          /\ autostart = "starting" /\ autostart' = autostart
      BY <1>5 DEF IgnoreEntry, launcher
    <2>2. Cardinality(todo') + 1 = Cardinality(todo) /\ Cardinality(todo') \in Nat
      BY <2>1, OneLess, Sizes DEF AutostartInv
    <2> QED BY <1>1, <2>1, <2>2, Sizes DEF CountInv
  <1>6. ASSUME NEW e \in Entries, LaunchEntry(e) PROVE CountInv'
    <2>1. /\ e \in todo /\ todo' = todo \ {e} /\ launched' = Append(launched, e)
          /\ autostart = "starting" /\ autostart' = autostart
      BY <1>6 DEF LaunchEntry, Launch
    <2>2. Cardinality(todo') + 1 = Cardinality(todo) /\ Cardinality(todo') \in Nat
      BY <2>1, OneLess, Sizes DEF AutostartInv
    <2>3. Len(launched') = Len(launched) + 1 BY <2>1 DEF AppInv, NumbersInv
    <2> QED BY <1>1, <2>1, <2>2, <2>3, Sizes DEF CountInv
  <1>7. ASSUME NEW what \in Programs, LaunchFor(what) PROVE CountInv'
    <2>1. /\ Len(launched) < MaxLaunches /\ launched' = Append(launched, what)
          /\ todo' = todo /\ autostart' = autostart
      BY <1>7 DEF LaunchFor, Launch
    <2>2. Len(launched') = Len(launched) + 1 BY <2>1 DEF AppInv, NumbersInv
    <2>3. Cardinality(todo) <= Cardinality(Suitable) BY Sizes DEF AutostartInv
    <2> QED BY <1>1, <2>1, <2>2, <2>3, Sizes DEF CountInv
  <1>8. ASSUME NEW id \in Ids, handleProcessFinished(id) \/ ProgramEnds(id)
        PROVE  CountInv'
    BY <1>2, <1>8 DEF handleProcessFinished, ProgramEnds
  <1> QED BY <1>3, <1>4, <1>5, <1>6, <1>7, <1>8 DEF Next, Programs

(* Whatever the launcher keeps, a scope, a program or an object, belongs to     *)
(* something that was launched; Autostart, which start() runs once, launches at *)
(* most as many programs as there are suitable entries (autostartplugin.cpp:67).*)
THEOREM ApplicationsTyped == Spec => []TypeOK
  <1>1. Init => SizeInv
    <2>1. <<>> \in Seq(Programs) /\ Len(<<>>) = 0 OBVIOUS
    <2>2. Init => AppInv BY <2>1 DEF Init, AppInv, NumbersInv, StartsBeforeEnd, ObjectPerScope
    <2>3. Cardinality({}) = 0 BY FS_EmptySet
    <2>4. Init => CountInv BY <2>1, <2>3, Sizes DEF Init, CountInv
    <2> QED BY <2>2, <2>4 DEF Init, SizeInv, AutostartInv
  <1>2. SizeInv /\ [Next]_vars => SizeInv'
    BY AppInvKept, AutostartKept, CountKept DEF SizeInv
  <1> QED BY <1>1, <1>2, TypesFollow, PTL DEF Spec
================================================================================
