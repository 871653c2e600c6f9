------------------------------ MODULE LockRequests -----------------------------
(* What the way of a lock or unlock request through the shell, the session      *)
(* manager, logind and back promises, with nothing of how: requests are shown   *)
(* in the order they were made, each once or not at all.                        *)
(*                                                                              *)
(* A request is only made when somebody does something, which is counted: what  *)
(* handles requests, and counts nothing, can show or lose them, but make none.  *)
EXTENDS Naturals, Sequences, SequencesExt

VARIABLES
  queue,      \* requests on their way, oldest first: TRUE to lock
  screen,     \* what the shell shows
  asked,      \* calls of the shell so far, whatever for
  others      \* what everybody else has done so far

counted == <<asked, others>>
vars == <<queue, screen, counted>>

Init == queue = <<>> /\ screen = FALSE /\ asked = 0 /\ others = 0

(* The shell makes one call: a request, which comes last, or something else. *)
Ask ==
  /\ asked' = asked + 1
  /\ queue' = queue \/ \E lock \in BOOLEAN : queue' = Append(queue, lock)
  /\ UNCHANGED <<screen, others>>

OthersAct == others' = others + 1 /\ UNCHANGED asked

(* Somebody else makes one request that gets in somewhere on the way. *)
Interject ==
  /\ OthersAct
  /\ \E lock \in BOOLEAN, i \in 1 .. Len(queue) + 1 : queue' = InsertAt(queue, i, lock)
  /\ UNCHANGED screen

(* What follows one another on one part of the way may be lost at once. *)
LoseSome ==
  /\ \E i, j \in DOMAIN queue :
       i <= j /\ queue' = SubSeq(queue, 1, i - 1) \o SubSeq(queue, j + 1, Len(queue))
  /\ UNCHANGED screen
Lose == LoseSome /\ UNCHANGED counted

(* Somebody else does what loses some requests, or has nothing to do with them. *)
Disturb == OthersAct /\ (LoseSome \/ UNCHANGED <<queue, screen>>)

Show ==
  /\ queue # <<>> /\ screen' = Head(queue) /\ queue' = Tail(queue)
  /\ UNCHANGED counted

(* A new shell shows no lock and hears nothing of what the old one was told:   *)
(* of the oldest requests.                                                      *)
Forget ==
  /\ OthersAct
  /\ \E i \in 0 .. Len(queue) : queue' = SubSeq(queue, i + 1, Len(queue))
  /\ screen' = FALSE

Next == Ask \/ Interject \/ Lose \/ Disturb \/ Show \/ Forget

(* No request stays on its way. *)
Spec == Init /\ [][Next]_vars /\ WF_vars(Show \/ Lose)
================================================================================
