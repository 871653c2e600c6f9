------------------------------- MODULE MCSession -------------------------------
(* The session manager with the modules of the source tree that matter to each  *)
(* other (shell, services, autostart) and an external one in a shared phase.    *)
EXTENDS Session

CONSTANTS shell, services, panel, autostart

MCModules == {shell, services, panel, autostart}
MCPhase ==
  [m \in MCModules |->
     CASE m = shell -> 2 [] m \in {services, panel} -> 3 [] m = autostart -> 4]
MCSupervisors == {shell}
MCUnitModules == {shell, services}
================================================================================
