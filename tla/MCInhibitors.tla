------------------------------ MODULE MCInhibitors -----------------------------
(* One client that inhibits for two reasons, as a browser does, and others with *)
(* one of these reasons: one gives an empty name, one that of LogindBackend.    *)
EXTENDS Inhibitors

MCRequests ==
  {[who |-> "browser", why |-> "video"], [who |-> "browser", why |-> "call"],
   [who |-> "player", why |-> "video"], [who |-> "", why |-> "video"],
   [who |-> "Liri/Sleep", why |-> "video"]}
================================================================================
