----------------------------- MODULE MCSessionShell ----------------------------
(* The shell plugin under the session manager, with one module that starts      *)
(* before it and one that starts after it.                                      *)
EXTENDS SessionShell

CONSTANTS early, services

MCModules == {early, shell, services}
MCPhase ==
  [m \in MCModules |-> CASE m = early -> 1 [] m = shell -> 2 [] m = services -> 3]
MCSupervisors == {shell}
MCUnitModules == {shell, services}
================================================================================
