--------------------------- MODULE SessionLifecycle ----------------------------
(* What the startup phases of a session promise, whatever the manager does to   *)
(* keep the promise: modules come up one at a time, none before the phases it   *)
(* builds on; once the session closes none comes up any more, they go down      *)
(* latest phase first, and the session is gone only when all of them are.       *)
EXTENDS Integers, FiniteSets

CONSTANTS Modules, Phase

VARIABLES
  disabled,  \* modules the user left out
  alive,     \* modules that run under the session's control
  stage      \* "closed", "opening", "open", "closing" or "gone"

vars == <<disabled, alive, stage>>

Init == disabled \subseteq Modules /\ alive = {} /\ stage = "closed"

Open == stage = "closed" /\ stage' = "opening" /\ UNCHANGED <<disabled, alive>>

BringUp(m) ==
  /\ stage = "opening" /\ m \notin alive \cup disabled
  /\ \A n \in Modules \ disabled : Phase[n] < Phase[m] => n \in alive
  /\ alive' = alive \cup {m}
  /\ UNCHANGED <<disabled, stage>>

Opened ==
  /\ stage = "opening" /\ alive = Modules \ disabled
  /\ stage' = "open"
  /\ UNCHANGED <<disabled, alive>>

Close ==
  /\ stage \in {"closed", "opening", "open"}
  /\ stage' = "closing"
  /\ UNCHANGED <<disabled, alive>>

TakeDown(m) ==
  /\ stage = "closing" /\ m \in alive
  /\ \A n \in alive : Phase[n] <= Phase[m]
  /\ alive' = alive \ {m}
  /\ UNCHANGED <<disabled, stage>>

Leave ==
  /\ stage = "closing" /\ alive = {}
  /\ stage' = "gone"
  /\ UNCHANGED <<disabled, alive>>

Next ==
  \/ Open \/ Opened \/ Close \/ Leave
  \/ \E m \in Modules : BringUp(m) \/ TakeDown(m)

(* What was begun is finished; nothing forces an open session to close. *)
Finish == Opened \/ Leave \/ \E m \in Modules : TakeDown(m)
Spec == Init /\ [][Next]_vars /\ WF_vars(Finish)
================================================================================
