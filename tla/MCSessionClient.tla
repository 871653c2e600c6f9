---------------------------- MODULE MCSessionClient ----------------------------
(* One login session of the user, which is in the foreground, known only as the *)
(* one of the process, or not known at all.                                     *)
EXTENDS SessionClient

CONSTANT s1
MCSessions == {s1}
================================================================================
