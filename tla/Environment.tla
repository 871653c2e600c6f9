------------------------------ MODULE Environment ------------------------------
(* Environment variables of a session.  Session (src/src/manager/session.cpp)   *)
(* keeps them in its own process environment and uploads all of it to two       *)
(* others after each change: the activation environment of the bus daemon and,  *)
(* in systemd mode, the environment of the user's systemd.  Either upload is a  *)
(* blocking call that may fail without the other, and nobody is told.           *)
EXTENDS Naturals

CONSTANTS
  Keys, Values,
  LoginKeys,    \* XDG_SEAT, XDG_SESSION_ID...: of one login session only; and
                \* BASH_FUNC..., which are not shared either
  LocaleKeys,   \* LANG, LANGUAGE, LC_...: kept by the locale module
  Unset,        \* the value of a variable that is not set
  MaxCalls      \* bound: changes that are asked for

ASSUME EnvironmentAssumption ==
  /\ LoginKeys \subseteq Keys /\ LocaleKeys \subseteq Keys \ LoginKeys
  /\ Unset \notin Values /\ MaxCalls \in Nat

VARIABLES
  systemd,      \* m_systemdEnabled
  started,      \* Session::start() has uploaded the environment
  env,          \* the session manager's process environment
  activation,   \* the environment of services the bus daemon starts
  units,        \* the environment of the user's systemd
  language,     \* the setting the locale module follows
  asked,        \* calls and changes of the setting so far
  missed,       \* history: which of the two the last upload did not reach
  kept          \* history: variables systemd failed to unset

vars == <<systemd, started, env, activation, units, language, asked, missed, kept>>

MaybeSet == Values \cup {Unset}

(* env is what the login and setupEnvironment() made of it.  A bus daemon has an *)
(* environment of its own, or, with dbus-run-session, that of the login.        *)
Init ==
  /\ systemd \in BOOLEAN /\ started = FALSE
  /\ env \in [Keys -> MaybeSet]
  /\ activation \in [Keys -> MaybeSet] /\ units = [k \in Keys |-> Unset]
  /\ language = Unset /\ asked = 0 /\ missed = {} /\ kept = {}

(* Mutants: nothing is removed; only what has changed is sent. *)
AllKeys(e) == {k \in Keys : e[k] # Unset}
ChangedKeys(e) == {k \in Keys \ LoginKeys : e[k] \notin {env[k], Unset}}
SentKeys(e) == {k \in Keys \ LoginKeys : e[k] # Unset}

(* Both ends add to what they have and never remove. *)
Merged(e, into) == [k \in Keys |-> IF k \in SentKeys(e) THEN e[k] ELSE into[k]]

(* Mutant: systemd is told in every mode. *)
BothUploads == {"activation", "units"}
Uploads == IF systemd THEN {"activation", "units"} ELSE {"activation"}

(* SystemdManager::setEnvironment() *)
UnitsAfter(e, failing) ==
  IF "units" \in Uploads \ failing THEN Merged(e, units) ELSE units

(* uploadEnvironment(): the second call is made even if the first one fails. *)
uploadEnvironment(e) ==
  \E failing \in SUBSET Uploads :
    /\ missed' = failing
    /\ activation' =
         IF "activation" \in failing THEN activation ELSE Merged(e, activation)
    /\ units' = UnitsAfter(e, failing)

Start ==
  /\ ~started /\ started' = TRUE
  /\ uploadEnvironment(env)
  /\ UNCHANGED <<systemd, env, language, asked, kept>>

Ask == started /\ asked < MaxCalls /\ asked' = asked + 1

setEnvironment(key, value) ==
  /\ Ask
  /\ env' = [env EXCEPT ![key] = value]
  /\ uploadEnvironment(env')
  /\ UNCHANGED <<systemd, started, language, kept>>

(* Mutant: systemd is not told. *)
StillThere(key) == units
WithoutUnitKey(key) == [units EXCEPT ![key] = Unset]

(* The bus has no call that removes a variable from its environment. *)
unsetEnvironment(key) ==
  /\ Ask
  /\ env' = [env EXCEPT ![key] = Unset]
  /\ \/ systemd /\ units' = WithoutUnitKey(key) /\ kept' = kept
     \/ systemd /\ units' = units /\ kept' = kept \cup {key}
     \/ ~systemd /\ UNCHANGED <<units, kept>>
  /\ UNCHANGED <<systemd, started, activation, language, missed>>

(* The locale module calls SetEnvironment of io.liri.Launcher for each of its  *)
(* variables.  The process launcher has no such method: it answers with an     *)
(* error nobody reads.                                                         *)
LauncherMethods == {"LaunchApplication", "LaunchDesktopFile", "LaunchCommand"}
handleSettingChanged(value) ==
  /\ Ask
  /\ language' = value
  /\ env' = IF "SetEnvironment" \in LauncherMethods
              THEN [k \in Keys |-> IF k \in LocaleKeys THEN value ELSE env[k]]
              ELSE env
  /\ UNCHANGED <<systemd, started, activation, units, missed, kept>>

Next ==
  \/ Start
  \/ \E key \in Keys, value \in Values : setEnvironment(key, value)
  \/ \E key \in Keys : unsetEnvironment(key)
  \/ \E value \in Values : handleSettingChanged(value)

Spec == Init /\ [][Next]_vars /\ WF_vars(Start)
--------------------------------------------------------------------------------
(* Properties *)

TypeOK ==
  /\ systemd \in BOOLEAN /\ started \in BOOLEAN
  /\ {env, activation, units} \subseteq [Keys -> MaybeSet]
  /\ language \in MaybeSet /\ asked \in 0 .. MaxCalls
  /\ missed \subseteq {"activation", "units"} /\ kept \subseteq Keys
  /\ "units" \in missed => systemd

(* Whatever failed before, an upload that succeeds leaves its target with the  *)
(* session's value of every variable the session has and may share.            *)
UploadRepairs ==
  started =>
    \A k \in Keys \ LoginKeys :
      env[k] # Unset =>
        /\ "activation" \notin missed => activation[k] = env[k]
        /\ systemd /\ "units" \notin missed => units[k] = env[k]

(* What belongs to one login session is never given to services that outlive    *)
(* it, though clients may set it and every upload sends the whole environment:  *)
(* the bus keeps of these variables what it was started with, and systemd gets  *)
(* none.                                                                        *)
LoginKeysStay ==
  [][\A k \in LoginKeys :
       activation'[k] = activation[k] /\ units'[k] \in {units[k], Unset}]_vars

(* A variable a client has removed does not come back: systemd has no variable *)
(* the session does not have, unless a call to remove it failed.               *)
NothingReturns ==
  \A k \in Keys : units[k] # Unset /\ env[k] = Unset => k \in kept
================================================================================
