---------------------------- MODULE MCLogindSession ----------------------------
(* Two login sessions of the user: the one of the session manager or another.   *)
EXTENDS LogindSession

CONSTANTS s1, s2
MCSessions == {s1, s2}
================================================================================
