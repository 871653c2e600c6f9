--------------------------- MODULE Environment_proof ---------------------------
(* The invariants of module Environment hold for every set of variables and of  *)
(* values, and any number of changes.  Each is inductive together with the      *)
(* types; what they share is what an upload does, stated first.                 *)
EXTENDS Environment, TLAPS

(* An upload of e: each of the two environments either is what it was, or has   *)
(* got e's value of every variable that is sent and kept the others.            *)
LEMMA Uploaded ==
  ASSUME TypeOK, NEW e \in [Keys -> MaybeSet], uploadEnvironment(e)
  PROVE  /\ missed' \subseteq {"activation", "units"}
         /\ "units" \in missed' => systemd
         /\ activation' \in [Keys -> MaybeSet] /\ units' \in [Keys -> MaybeSet]
         /\ activation' = activation \/ activation' = Merged(e, activation)
         /\ units' = units \/ units' = Merged(e, units)
         /\ "activation" \notin missed' => activation' = Merged(e, activation)
         /\ systemd /\ "units" \notin missed' => units' = Merged(e, units)
  <1>1. /\ Merged(e, activation) \in [Keys -> MaybeSet]
        /\ Merged(e, units) \in [Keys -> MaybeSet]
    BY DEF TypeOK, Merged
  <1>2. PICK failing \in SUBSET Uploads :
          /\ missed' = failing
          /\ activation' =
               IF "activation" \in failing THEN activation ELSE Merged(e, activation)
          /\ units' = UnitsAfter(e, failing)
    BY DEF uploadEnvironment
  <1> QED BY <1>1, <1>2 DEF TypeOK, Uploads, UnitsAfter

(* Which value a variable has after an upload. *)
LEMMA MergedValue ==
  ASSUME NEW e \in [Keys -> MaybeSet], NEW into, NEW k \in Keys
  PROVE  /\ k \notin LoginKeys /\ e[k] # Unset => Merged(e, into)[k] = e[k]
         /\ k \in LoginKeys \/ e[k] = Unset => Merged(e, into)[k] = into[k]
  BY DEF Merged, SentKeys

--------------------------------------------------------------------------------
(* Types *)

LEMMA TypeStart == ASSUME TypeOK, Start PROVE TypeOK'
  <1>1. env \in [Keys -> MaybeSet] /\ uploadEnvironment(env)
    BY DEF TypeOK, Start
  <1> QED BY <1>1, Uploaded DEF TypeOK, Start

LEMMA TypeSet ==
  ASSUME TypeOK, NEW key \in Keys, NEW value \in Values, setEnvironment(key, value)
  PROVE  TypeOK' /\ env' \in [Keys -> MaybeSet] /\ uploadEnvironment(env')
  <1>1. env' \in [Keys -> MaybeSet] /\ uploadEnvironment(env')
    BY DEF TypeOK, setEnvironment, MaybeSet
  <1>2. asked' \in 0 .. MaxCalls
    BY EnvironmentAssumption DEF TypeOK, setEnvironment, Ask
  <1> QED BY <1>1, <1>2, Uploaded DEF TypeOK, setEnvironment

LEMMA TypeUnset ==
  ASSUME TypeOK, NEW key \in Keys, unsetEnvironment(key)
  PROVE  TypeOK'
  <1>1. asked' \in 0 .. MaxCalls
    BY EnvironmentAssumption DEF TypeOK, unsetEnvironment, Ask
  <1>2. env' \in [Keys -> MaybeSet]
    BY DEF TypeOK, unsetEnvironment, MaybeSet
  <1>3. units' \in [Keys -> MaybeSet] /\ kept' \subseteq Keys
    BY DEF TypeOK, unsetEnvironment, MaybeSet, WithoutUnitKey
  <1> QED BY <1>1, <1>2, <1>3 DEF TypeOK, unsetEnvironment

(* A setting changes nothing but language: the launcher has no such method. *)
LEMMA SettingIsLost ==
  ASSUME NEW value, handleSettingChanged(value)
  PROVE  env' = env /\ UNCHANGED <<systemd, started, activation, units, missed, kept>>
  BY DEF handleSettingChanged, LauncherMethods

LEMMA TypeSetting ==
  ASSUME TypeOK, NEW value \in Values, handleSettingChanged(value)
  PROVE  TypeOK'
  <1>1. asked' \in 0 .. MaxCalls
    BY EnvironmentAssumption DEF TypeOK, handleSettingChanged, Ask
  <1> QED BY <1>1, SettingIsLost DEF TypeOK, handleSettingChanged, MaybeSet

LEMMA TypeNext == ASSUME TypeOK, [Next]_vars PROVE TypeOK'
  <1>1. CASE UNCHANGED vars BY <1>1 DEF vars, TypeOK
  <1>2. CASE Next BY <1>2, TypeStart, TypeSet, TypeUnset, TypeSetting DEF Next
  <1> QED BY <1>1, <1>2

(* Environments map variables to values, and only a session that has a systemd  *)
(* can miss it in an upload.                                                    *)
THEOREM EnvironmentTypeCorrect == Spec => []TypeOK
  <1>1. Init => TypeOK
    <2>1. [k \in Keys |-> Unset] \in [Keys -> MaybeSet]
      BY DEF MaybeSet
    <2>2. 0 \in 0 .. MaxCalls /\ Unset \in MaybeSet
      BY EnvironmentAssumption DEF MaybeSet
    <2> QED BY <2>1, <2>2 DEF Init, TypeOK
  <1> QED BY <1>1, TypeNext, PTL DEF Spec

--------------------------------------------------------------------------------
(* Uploads repair *)

LEMMA RepairedByUpload ==
  ASSUME TypeOK, env' \in [Keys -> MaybeSet], uploadEnvironment(env'), systemd' = systemd
  PROVE  UploadRepairs'
  <1> SUFFICES ASSUME NEW k \in Keys \ LoginKeys, env'[k] # Unset
               PROVE  /\ "activation" \notin missed' => activation'[k] = env'[k]
                      /\ systemd /\ "units" \notin missed' => units'[k] = env'[k]
    BY DEF UploadRepairs
  <1>1. /\ Merged(env', activation)[k] = env'[k]
        /\ Merged(env', units)[k] = env'[k]
    BY MergedValue
  <1> QED BY <1>1, Uploaded

(* Whatever failed before, an upload that succeeds leaves its target with the   *)
(* session's value of every variable that may be shared (session.cpp:304, 334). *)
THEOREM UploadsRepair == Spec => []UploadRepairs
  <1>1. Init => UploadRepairs
    BY DEF Init, UploadRepairs
  <1>2. TypeOK /\ UploadRepairs /\ [Next]_vars => UploadRepairs'
    <2> SUFFICES ASSUME TypeOK, UploadRepairs, [Next]_vars PROVE UploadRepairs'
      OBVIOUS
    <2>1. CASE Start
      <3>1. env' \in [Keys -> MaybeSet] /\ uploadEnvironment(env') /\ systemd' = systemd
        BY <2>1 DEF Start, TypeOK, uploadEnvironment
      <3> QED BY <3>1, RepairedByUpload
    <2>2. ASSUME NEW key \in Keys, NEW value \in Values, setEnvironment(key, value)
          PROVE  UploadRepairs'
      <3>1. systemd' = systemd BY <2>2 DEF setEnvironment
      <3> QED BY <2>2, <3>1, TypeSet, RepairedByUpload
    <2>3. ASSUME NEW key \in Keys, unsetEnvironment(key)
          PROVE  UploadRepairs'
      <3> SUFFICES ASSUME started, NEW k \in Keys \ LoginKeys, env'[k] # Unset
                   PROVE  /\ "activation" \notin missed => activation[k] = env'[k]
                          /\ systemd /\ "units" \notin missed => units'[k] = env'[k]
        BY <2>3 DEF UploadRepairs, unsetEnvironment
      <3>1. k # key /\ env'[k] = env[k] /\ units'[k] = units[k]
        BY <2>3 DEF unsetEnvironment, WithoutUnitKey, TypeOK
      <3> QED BY <3>1 DEF UploadRepairs
    <2>4. ASSUME NEW value \in Values, handleSettingChanged(value)
          PROVE  UploadRepairs'
      BY <2>4, SettingIsLost DEF UploadRepairs
    <2>5. CASE UNCHANGED vars BY <2>5 DEF vars, UploadRepairs
    <2> QED BY <2>1, <2>2, <2>3, <2>4, <2>5 DEF Next
  <1> QED BY <1>1, <1>2, EnvironmentTypeCorrect, PTL DEF Spec

--------------------------------------------------------------------------------
(* Private variables *)

LEMMA PrivateInUpload ==
  ASSUME TypeOK, NEW e \in [Keys -> MaybeSet], uploadEnvironment(e), NEW k \in LoginKeys
  PROVE  activation'[k] = activation[k] /\ units'[k] = units[k]
  <1>1. k \in Keys BY EnvironmentAssumption
  <1>2. /\ Merged(e, activation)[k] = activation[k]
        /\ Merged(e, units)[k] = units[k]
    BY <1>1, MergedValue
  <1> QED BY <1>2, Uploaded

LEMMA PrivateByStep ==
  ASSUME TypeOK, Next, NEW k \in LoginKeys
  PROVE  activation'[k] = activation[k] /\ units'[k] \in {units[k], Unset}
  <1>1. CASE Start BY <1>1, PrivateInUpload DEF Start, TypeOK
  <1>2. ASSUME NEW key \in Keys, NEW value \in Values, setEnvironment(key, value)
        PROVE  activation'[k] = activation[k] /\ units'[k] = units[k]
    BY <1>2, TypeSet, PrivateInUpload
  <1>3. ASSUME NEW key \in Keys, unsetEnvironment(key)
        PROVE  activation'[k] = activation[k] /\ units'[k] \in {units[k], Unset}
    BY <1>3, EnvironmentAssumption DEF unsetEnvironment, WithoutUnitKey, TypeOK
  <1>4. ASSUME NEW value \in Values, handleSettingChanged(value)
        PROVE  activation' = activation /\ units' = units
    BY <1>4, SettingIsLost
  <1> QED BY <1>1, <1>2, <1>3, <1>4 DEF Next

(* What belongs to one login session is never given to services that outlive    *)
(* it, though every upload sends the whole environment (session.cpp:304).       *)
THEOREM PrivateStaysPrivate == Spec => LoginKeysStay
  <1>1. TypeOK /\ [Next]_vars =>
          [\A k \in LoginKeys :
             activation'[k] = activation[k] /\ units'[k] \in {units[k], Unset}]_vars
    BY PrivateByStep
  <1> QED BY <1>1, EnvironmentTypeCorrect, PTL DEF Spec, LoginKeysStay

--------------------------------------------------------------------------------
(* Removed variables *)

(* Without systemd mode nothing is sent to systemd. *)
NoUnits == ~systemd => units = [k \in Keys |-> Unset]

LEMMA UnitsOnlyWithSystemd == Spec => []NoUnits
  <1>1. Init => NoUnits
    BY DEF Init, NoUnits
  <1>2. NoUnits /\ [Next]_vars => NoUnits'
    BY DEF NoUnits, Next, vars, Start, setEnvironment, uploadEnvironment, UnitsAfter,
           Uploads, unsetEnvironment, handleSettingChanged
  <1> QED BY <1>1, <1>2, PTL DEF Spec

LEMMA NothingInUpload ==
  ASSUME TypeOK, NothingReturns, env' \in [Keys -> MaybeSet], uploadEnvironment(env'),
         \A k \in Keys : env'[k] = Unset => env[k] = Unset,
         kept' = kept
  PROVE  NothingReturns'
  <1> SUFFICES ASSUME NEW k \in Keys, units'[k] # Unset, env'[k] = Unset
               PROVE  k \in kept
    BY DEF NothingReturns
  <1>1. Merged(env', units)[k] = units[k] BY MergedValue
  <1>2. units'[k] = units[k] BY <1>1, Uploaded
  <1> QED BY <1>2 DEF NothingReturns

(* A variable a client has removed does not come back: systemd has none the     *)
(* session does not have, unless a call to remove it failed (session.cpp:269).  *)
THEOREM RemovedStaysRemoved == Spec => []NothingReturns
  <1>1. Init => NothingReturns
    BY DEF Init, NothingReturns
  <1>2. TypeOK /\ NoUnits /\ NothingReturns /\ [Next]_vars => NothingReturns'
    <2> SUFFICES ASSUME TypeOK, NoUnits, NothingReturns, [Next]_vars PROVE NothingReturns'
      OBVIOUS
    <2>1. CASE Start
      <3>1. /\ env' \in [Keys -> MaybeSet] /\ uploadEnvironment(env')
            /\ env' = env /\ kept' = kept
        BY <2>1 DEF Start, TypeOK, uploadEnvironment
      <3> QED BY <3>1, NothingInUpload
    <2>2. ASSUME NEW key \in Keys, NEW value \in Values, setEnvironment(key, value)
          PROVE  NothingReturns'
      <3>1. kept' = kept /\ \A k \in Keys : env'[k] = Unset => env[k] = Unset
        BY <2>2, EnvironmentAssumption DEF setEnvironment, TypeOK
      <3> QED BY <2>2, <3>1, TypeSet, NothingInUpload
    <2>3. ASSUME NEW key \in Keys, unsetEnvironment(key)
          PROVE  NothingReturns'
      <3> SUFFICES ASSUME NEW k \in Keys, units'[k] # Unset, env'[k] = Unset
                   PROVE  k \in kept'
        BY DEF NothingReturns
      <3>1. CASE k = key /\ systemd
        BY <2>3, <3>1 DEF unsetEnvironment, WithoutUnitKey, TypeOK
      <3>2. CASE k # key
        BY <2>3, <3>2 DEF unsetEnvironment, WithoutUnitKey, TypeOK, NothingReturns
      <3>3. CASE ~systemd
        BY <2>3, <3>3 DEF unsetEnvironment, NoUnits
      <3> QED BY <3>1, <3>2, <3>3
    <2>4. ASSUME NEW value \in Values, handleSettingChanged(value)
          PROVE  NothingReturns'
      BY <2>4, SettingIsLost DEF NothingReturns
    <2>5. CASE UNCHANGED vars BY <2>5 DEF vars, NothingReturns
    <2> QED BY <2>1, <2>2, <2>3, <2>4, <2>5 DEF Next
  <1> QED BY <1>1, <1>2, EnvironmentTypeCorrect, UnitsOnlyWithSystemd, PTL DEF Spec
================================================================================
