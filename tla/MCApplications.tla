----------------------------- MODULE MCApplications ----------------------------
(* An entry systemd mode hides, one it does not, one the bus starts, and one    *)
(* that is not meant for Liri.                                                  *)
EXTENDS Applications

CONSTANTS agent, tray, portal, other

MCEntries == {agent, tray, portal, other}
MCSuitable == {agent, tray, portal}
MCHidden == {agent, portal}
MCActivatable == {portal}
================================================================================
