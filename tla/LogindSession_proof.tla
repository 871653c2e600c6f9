---------------------------- MODULE LogindSession_proof ------------------------
(* Module LogindSession: without a connection to logind its session is never    *)
(* taken to be active, whatever answers cross with logind's going and coming.   *)
(* The lemmas are about kinds of steps, so that they also serve SessionClient.  *)
EXTENDS LogindSession, TLAPS

--------------------------------------------------------------------------------
(* Invariants *)

Messages ==
  {"registered", "unregistered", "changed", "active", "inactive", "Lock", "Unlock",
   "sleep"}
Asked == [method : Methods, path : subscribed]

(* What the three queues hold. *)
QueueInv ==
  /\ inbox \in Seq(Messages) /\ calls \in Seq(Asked)
  /\ setup \in {<<>>, <<"ListNames">>, <<"AddMatch", "ListNames">>}
  /\ setup = <<"ListNames">> => watching

(* A change of the owner is told only to who watches. *)
WatchInv ==
  isConnected \/ (\E i \in DOMAIN inbox : inbox[i] \in {"registered", "unregistered"}) =>
    watching

(* Whether the program has a connection when it comes to the i-th message. *)
ConnectedAt(i) ==
  \/ isConnected /\ \A j \in 1 .. i - 1 : inbox[j] # "unregistered"
  \/ \E j \in 1 .. i - 1 :
       inbox[j] = "registered" /\ \A k \in j + 1 .. i - 1 : inbox[k] # "unregistered"

(* An answer is read before the loss of the connection it was asked on; *)
AnswerInv == \A i \in DOMAIN inbox : inbox[i] = "active" => ConnectedAt(i) /\ sessionPath # None
(* so is one that is still to come, because a call is only made on a connection *)
(* to the logind that runs;                                                     *)
CallInv == calls # <<>> => up /\ ConnectedAt(Len(inbox) + 1) /\ sessionPath # None
(* the last thing a program is told of a logind that runs is that it does.      *)
OwnerInv ==
  up /\ (\E i \in DOMAIN inbox : inbox[i] = "unregistered") =>
    \E j \in DOMAIN inbox :
      inbox[j] = "registered" /\ \A k \in DOMAIN inbox : k > j => inbox[k] # "unregistered"

(* What TypeOK says besides. *)
StateInv ==
  /\ up \in BOOLEAN /\ front \in Sessions \cup {None} /\ own \in Sessions \cup {None}
  /\ hint \in [Sessions -> BOOLEAN] /\ changes \in 0 .. MaxChanges
  /\ backend \in {"none", "logind", "fake"} /\ watching \in BOOLEAN
  /\ subscribed \subseteq Sessions
  /\ isConnected \in BOOLEAN /\ sessionActive \in BOOLEAN
  /\ sessionPath \in subscribed \cup {None} /\ (isConnected => sessionPath # None)
  /\ backend # "logind" => setup = <<>> /\ ~watching /\ ~isConnected

LogindInv ==
  /\ StateInv /\ QueueInv /\ WatchInv /\ AnswerInv /\ CallInv /\ OwnerInv /\ ResetWhenGone

--------------------------------------------------------------------------------
(* Queues *)

LEMMA Elements == ASSUME NEW S, NEW s \in Seq(S) PROVE ToSet(s) \subseteq S
  BY DEF ToSet

LEMMA TypesFollow == StateInv /\ QueueInv => TypeOK
  <1> SUFFICES ASSUME StateInv, QueueInv PROVE TypeOK
    OBVIOUS
  <1>1. ToSet(setup) \subseteq {"AddMatch", "ListNames"} BY DEF QueueInv, ToSet
  <1>2. ToSet(inbox) \subseteq Messages BY Elements DEF QueueInv
  <1>3. ToSet(calls) \subseteq Asked BY Elements DEF QueueInv
  <1>4. sessionPath \in IF isConnected THEN subscribed ELSE subscribed \cup {None}
    BY DEF StateInv
  <1> QED BY <1>1, <1>2, <1>3, <1>4 DEF StateInv, Messages, Asked, TypeOK

LEMMA LargerSeq == ASSUME NEW S, NEW T, S \subseteq T, NEW s \in Seq(S) PROVE s \in Seq(T)
  OBVIOUS

LEMMA Single == ASSUME NEW S, NEW x \in S PROVE <<x>> \in Seq(S)
  OBVIOUS

LEMMA Joined ==
  ASSUME NEW S, NEW s \in Seq(S), NEW t \in Seq(S)
  PROVE  s \o t \in Seq(S)
  OBVIOUS

(* The first message is taken, and the others move up. *)
LEMMA Shifted ==
  ASSUME inbox \in Seq(Messages), NEW m, Receive(m)
  PROVE  /\ inbox' \in Seq(Messages) /\ inbox[1] = m /\ m \in Messages
         /\ Len(inbox) \in Nat \ {0} /\ Len(inbox') = Len(inbox) - 1
         /\ DOMAIN inbox = 1 .. Len(inbox) /\ DOMAIN inbox' = 1 .. Len(inbox')
         /\ \A i \in 1 .. Len(inbox') : inbox'[i] = inbox[i + 1]
  BY DEF Receive

(* A message is put behind the others. *)
LEMMA Appended ==
  ASSUME inbox \in Seq(Messages), NEW m \in Messages, inbox' = Append(inbox, m)
  PROVE  /\ inbox' \in Seq(Messages)
         /\ Len(inbox) \in Nat /\ Len(inbox') = Len(inbox) + 1
         /\ DOMAIN inbox = 1 .. Len(inbox) /\ DOMAIN inbox' = 1 .. Len(inbox')
         /\ inbox'[Len(inbox) + 1] = m
         /\ \A i \in 1 .. Len(inbox) : inbox'[i] = inbox[i]
  OBVIOUS

LEMMA OneOrNone ==
  ASSUME inbox \in Seq(Messages), NEW m \in Messages, NEW messages \in {<<>>, <<m>>},
         Deliver(messages)
  PROVE  inbox' = IF messages = <<>> THEN inbox ELSE Append(inbox, m)
  BY DEF Deliver

--------------------------------------------------------------------------------
(* Kinds of steps *)

(* A program that has a connection, to a logind that runs, has it after all     *)
(* that is on its way.                                                          *)
LEMMA ConnectedAtEnd ==
  ASSUME QueueInv, OwnerInv, up, isConnected
  PROVE  ConnectedAt(Len(inbox) + 1)
  <1>1. DOMAIN inbox = 1 .. Len(inbox) /\ Len(inbox) \in Nat BY DEF QueueInv
  <1>2. CASE \E i \in DOMAIN inbox : inbox[i] = "unregistered"
    BY <1>1, <1>2 DEF OwnerInv, ConnectedAt
  <1>3. CASE ~ \E i \in DOMAIN inbox : inbox[i] = "unregistered"
    BY <1>1, <1>3 DEF ConnectedAt
  <1> QED BY <1>2, <1>3

(* What a message does to the connection is what ConnectedAt() says of it. *)
LEMMA ConnectedMovesUp ==
  ASSUME QueueInv, NEW m, Receive(m),
         m = "registered" => isConnected',
         m \notin {"registered", "unregistered"} => (isConnected => isConnected'),
         NEW i \in 1 .. Len(inbox), ConnectedAt(i + 1)
  PROVE  ConnectedAt(i)'
  <1>1. /\ inbox[1] = m /\ Len(inbox') = Len(inbox) - 1 /\ Len(inbox) \in Nat
        /\ \A j \in 1 .. Len(inbox') : inbox'[j] = inbox[j + 1]
    BY Shifted DEF QueueInv
  <1>2. CASE isConnected /\ \A j \in 1 .. i : inbox[j] # "unregistered"
    <2>1. m # "unregistered" BY <1>1, <1>2
    <2>2. isConnected' BY <1>2, <2>1
    <2>3. \A j \in 1 .. i - 1 : inbox'[j] # "unregistered"
      <3> TAKE j \in 1 .. i - 1
      <3>1. j \in 1 .. Len(inbox') /\ j + 1 \in 1 .. i BY <1>1
      <3> QED BY <1>1, <1>2, <3>1
    <2> QED BY <2>2, <2>3 DEF ConnectedAt
  <1>3. ASSUME NEW j \in 1 .. i, inbox[j] = "registered",
               \A k \in j + 1 .. i : inbox[k] # "unregistered"
        PROVE  ConnectedAt(i)'
    <2>1. \A k \in j .. i - 1 : inbox'[k] # "unregistered"
      <3> TAKE k \in j .. i - 1
      <3>1. k \in 1 .. Len(inbox') /\ k + 1 \in j + 1 .. i BY <1>1
      <3> QED BY <1>1, <1>3, <3>1
    <2>2. CASE j = 1
      <3>1. isConnected' BY <1>1, <1>3, <2>2
      <3> QED BY <2>1, <2>2, <3>1 DEF ConnectedAt
    <2>3. CASE j # 1
      <3>1. /\ j - 1 \in 1 .. i - 1 /\ j - 1 \in 1 .. Len(inbox')
            /\ (j - 1) + 1 = j
        BY <1>1, <2>3
      <3>2. inbox'[j - 1] = "registered" BY <1>1, <1>3, <3>1
      <3> QED BY <2>1, <3>1, <3>2 DEF ConnectedAt
    <2> QED BY <2>2, <2>3
  <1>4. (i + 1) - 1 = i OBVIOUS
  <1> QED BY <1>2, <1>3, <1>4 DEF ConnectedAt

(* What the program has been told of logind, when it handles a message. *)
LEMMA HandledTold ==
  ASSUME LogindInv, NEW m, Receive(m), UNCHANGED <<up, watching>>,
         isConnected' => isConnected \/ m = "registered"
  PROVE  WatchInv' /\ OwnerInv'
  <1>1. /\ inbox' \in Seq(Messages) /\ inbox[1] = m
        /\ Len(inbox) \in Nat \ {0} /\ Len(inbox') = Len(inbox) - 1
        /\ DOMAIN inbox = 1 .. Len(inbox) /\ DOMAIN inbox' = 1 .. Len(inbox')
        /\ \A i \in 1 .. Len(inbox') : inbox'[i] = inbox[i + 1]
    BY Shifted DEF LogindInv, QueueInv
  <1>2. WatchInv'
    <2>1. \A i \in DOMAIN inbox' : i + 1 \in DOMAIN inbox /\ inbox'[i] = inbox[i + 1]
      BY <1>1
    <2>2. 1 \in DOMAIN inbox BY <1>1
    <2> QED BY <1>1, <2>1, <2>2 DEF LogindInv, WatchInv
  <1>3. OwnerInv'
    <2> SUFFICES ASSUME up, NEW i \in DOMAIN inbox', inbox'[i] = "unregistered"
                 PROVE  \E j \in DOMAIN inbox' :
                          /\ inbox'[j] = "registered"
                          /\ \A k \in DOMAIN inbox' : k > j => inbox'[k] # "unregistered"
      BY DEF OwnerInv
    <2>1. i + 1 \in DOMAIN inbox /\ inbox[i + 1] = "unregistered" BY <1>1
    <2>2. PICK j \in DOMAIN inbox :
            /\ inbox[j] = "registered"
            /\ \A k \in DOMAIN inbox : k > j => inbox[k] # "unregistered"
      BY <2>1 DEF LogindInv, OwnerInv
    <2>3. j - 1 \in DOMAIN inbox' /\ (j - 1) + 1 = j BY <1>1, <2>1, <2>2
    <2>4. inbox'[j - 1] = "registered" BY <1>1, <2>2, <2>3
    <2>5. \A k \in DOMAIN inbox' : k > j - 1 => inbox'[k] # "unregistered"
      BY <1>1, <2>2
    <2> QED BY <2>3, <2>4, <2>5
  <1> QED BY <1>2, <1>3

(* A message is handled; a call may be made if there is a connection then. *)
LEMMA HandledKeeps ==
  ASSUME LogindInv, NEW m, Receive(m), UNCHANGED <<up, watching>>,
         m = "registered" => isConnected',
         m \notin {"registered", "unregistered"} => isConnected' = isConnected,
         isConnected' => isConnected \/ m = "registered",
         calls' # <<>> => calls # <<>> \/ (up /\ isConnected'),
         sessionPath # None \/ isConnected' => sessionPath' # None
  PROVE  WatchInv' /\ AnswerInv' /\ CallInv' /\ OwnerInv'
  <1>1. /\ inbox' \in Seq(Messages) /\ inbox[1] = m
        /\ Len(inbox) \in Nat \ {0} /\ Len(inbox') = Len(inbox) - 1
        /\ DOMAIN inbox = 1 .. Len(inbox) /\ DOMAIN inbox' = 1 .. Len(inbox')
        /\ \A i \in 1 .. Len(inbox') : inbox'[i] = inbox[i + 1]
    BY Shifted DEF LogindInv, QueueInv
  <1>2. \A i \in 1 .. Len(inbox) : ConnectedAt(i + 1) => ConnectedAt(i)'
    BY ConnectedMovesUp DEF LogindInv
  <1>3. WatchInv' /\ OwnerInv' BY HandledTold
  <1>4. AnswerInv'
    <2> SUFFICES ASSUME NEW i \in DOMAIN inbox', inbox'[i] = "active"
                 PROVE  ConnectedAt(i)' /\ sessionPath' # None
      BY DEF AnswerInv
    <2>1. i \in 1 .. Len(inbox) /\ i + 1 \in DOMAIN inbox /\ inbox[i + 1] = "active"
      BY <1>1
    <2> QED BY <1>2, <2>1 DEF LogindInv, AnswerInv
  <1>5. CallInv'
    <2> SUFFICES ASSUME calls' # <<>>
                 PROVE  (up /\ ConnectedAt(Len(inbox) + 1) /\ sessionPath # None)'
      BY DEF CallInv
    <2>1. CASE calls # <<>>
      <3>1. up /\ ConnectedAt(Len(inbox) + 1) /\ sessionPath # None
        BY <2>1 DEF LogindInv, CallInv
      <3>2. PICK n \in 1 .. Len(inbox) : n = Len(inbox) /\ n = Len(inbox') + 1 BY <1>1
      <3>3. ConnectedAt(n)' BY <1>2, <3>1, <3>2
      <3>4. ConnectedAt(Len(inbox) + 1)' BY <3>2, <3>3
      <3> QED BY <3>1, <3>4
    <2>2. CASE up /\ isConnected'
      <3>1. ConnectedAt(Len(inbox) + 1)'
        <4>1. CASE \E i \in DOMAIN inbox' : inbox'[i] = "unregistered"
          <5>1. PICK j \in DOMAIN inbox' :
                  /\ inbox'[j] = "registered"
                  /\ \A k \in DOMAIN inbox' : k > j => inbox'[k] # "unregistered"
            BY <1>3, <2>2, <4>1 DEF OwnerInv
          <5>2. /\ j \in 1 .. (Len(inbox') + 1) - 1
                /\ \A k \in j + 1 .. (Len(inbox') + 1) - 1 : inbox'[k] # "unregistered"
            BY <1>1, <5>1
          <5> QED BY <5>1, <5>2 DEF ConnectedAt
        <4>2. CASE ~ \E i \in DOMAIN inbox' : inbox'[i] = "unregistered"
          BY <1>1, <2>2, <4>2 DEF ConnectedAt
        <4> QED BY <4>1, <4>2
      <3> QED BY <2>2, <3>1
    <2> QED BY <2>1, <2>2
  <1> QED BY <1>3, <1>4, <1>5

(* A message is put behind the others; a program is told of what it watches, of *)
(* each start and stop of logind, and has an answer only to what it has asked.  *)
LEMMA DeliveredKeeps ==
  ASSUME LogindInv, NEW m \in Messages, inbox' = Append(inbox, m),
         UNCHANGED <<isConnected, sessionPath>>, watching => watching',
         m \in {"registered", "unregistered"} => watching',
         m = "active" => calls # <<>>,
         calls' # <<>> => up' /\ calls # <<>> /\ m # "unregistered",
         up' => up \/ m = "registered", up' => m # "unregistered"
  PROVE  WatchInv' /\ AnswerInv' /\ CallInv' /\ OwnerInv'
  <1>1. /\ Len(inbox) \in Nat /\ Len(inbox') = Len(inbox) + 1
        /\ DOMAIN inbox = 1 .. Len(inbox) /\ DOMAIN inbox' = 1 .. Len(inbox')
        /\ inbox'[Len(inbox) + 1] = m
        /\ \A i \in 1 .. Len(inbox) : inbox'[i] = inbox[i]
    BY Appended DEF LogindInv, QueueInv
  <1>2. ASSUME NEW i \in 1 .. Len(inbox) + 1, ConnectedAt(i)
        PROVE  ConnectedAt(i)'
    <2>1. \A j \in 1 .. i - 1 : inbox'[j] = inbox[j] BY <1>1
    <2>2. CASE isConnected /\ \A j \in 1 .. i - 1 : inbox[j] # "unregistered"
      BY <2>1, <2>2 DEF ConnectedAt
    <2>3. ASSUME NEW j \in 1 .. i - 1, inbox[j] = "registered",
                 \A k \in j + 1 .. i - 1 : inbox[k] # "unregistered"
          PROVE  ConnectedAt(i)'
      <3>1. \A k \in j + 1 .. i - 1 : k \in 1 .. i - 1 BY <1>1
      <3>2. inbox'[j] = "registered" BY <2>1, <2>3
      <3>3. \A k \in j + 1 .. i - 1 : inbox'[k] # "unregistered" BY <2>1, <2>3, <3>1
      <3> QED BY <3>2, <3>3 DEF ConnectedAt
    <2> QED BY <1>2, <2>2, <2>3 DEF ConnectedAt
  <1>3. WatchInv'
    <2> SUFFICES ASSUME isConnected \/ \E i \in DOMAIN inbox' :
                          inbox'[i] \in {"registered", "unregistered"}
                 PROVE  watching'
      BY DEF WatchInv
    <2>1. CASE m \in {"registered", "unregistered"} BY <2>1
    <2>2. CASE m \notin {"registered", "unregistered"}
      <3>1. isConnected \/ \E i \in DOMAIN inbox : inbox[i] \in {"registered", "unregistered"}
        BY <1>1, <2>2
      <3> QED BY <3>1 DEF LogindInv, WatchInv
    <2> QED BY <2>1, <2>2
  <1>4. AnswerInv'
    <2> SUFFICES ASSUME NEW i \in DOMAIN inbox', inbox'[i] = "active"
                 PROVE  ConnectedAt(i)' /\ sessionPath # None
      BY DEF AnswerInv
    <2>1. CASE i \in DOMAIN inbox
      <3>1. ConnectedAt(i) /\ sessionPath # None
        BY <1>1, <2>1 DEF LogindInv, AnswerInv
      <3> QED BY <1>1, <1>2, <2>1, <3>1
    <2>2. CASE i = Len(inbox) + 1
      <3>1. ConnectedAt(Len(inbox) + 1) /\ sessionPath # None
        BY <1>1, <2>2 DEF LogindInv, CallInv
      <3>2. ConnectedAt(i) BY <2>2, <3>1
      <3>3. i \in 1 .. Len(inbox) + 1 BY <1>1
      <3> QED BY <1>2, <3>1, <3>2, <3>3
    <2> QED BY <1>1, <2>1, <2>2
  <1>5. CallInv'
    <2> SUFFICES ASSUME calls' # <<>>
                 PROVE  (up /\ ConnectedAt(Len(inbox) + 1) /\ sessionPath # None)'
      BY DEF CallInv
    <2>1. /\ up' /\ m # "unregistered" /\ sessionPath # None
          /\ ConnectedAt(Len(inbox) + 1)
      BY DEF LogindInv, CallInv
    <2>2. PICK n \in Nat : n = Len(inbox) BY <1>1
    <2>3. ConnectedAt(n + 1)'
      <3>1. ConnectedAt(n + 1) BY <2>1, <2>2
      <3>2. n + 1 \in 1 .. Len(inbox) + 1 BY <2>2
      <3> QED BY <1>2, <3>1, <3>2
    <2>4. ConnectedAt((n + 1) + 1)'
      <3>1. \A j \in 1 .. n : j \in 1 .. (n + 1) - 1 OBVIOUS
      <3>2. (n + 1) - 1 = n /\ ((n + 1) + 1) - 1 = n + 1 BY <2>2
      <3>3. inbox'[n + 1] # "unregistered" BY <1>1, <2>1, <2>2
      <3>4. CASE isConnected /\ \A j \in 1 .. n : inbox'[j] # "unregistered"
        <4>1. \A j \in 1 .. n + 1 : inbox'[j] # "unregistered" BY <2>2, <3>3, <3>4
        <4> QED BY <3>2, <3>4, <4>1 DEF ConnectedAt
      <3>5. ASSUME NEW j \in 1 .. n, inbox'[j] = "registered",
                   \A k \in j + 1 .. n : inbox'[k] # "unregistered"
            PROVE  ConnectedAt((n + 1) + 1)'
        <4>1. j \in 1 .. n + 1 BY <2>2
        <4>2. \A k \in j + 1 .. n + 1 : inbox'[k] # "unregistered" BY <2>2, <3>3, <3>5
        <4> QED BY <3>2, <3>5, <4>1, <4>2 DEF ConnectedAt
      <3> QED BY <2>3, <3>2, <3>4, <3>5 DEF ConnectedAt
    <2>5. (n + 1) + 1 = Len(inbox') + 1 BY <1>1, <2>2
    <2>6. ConnectedAt(Len(inbox) + 1)' BY <2>4, <2>5
    <2> QED BY <2>1, <2>6
  <1>6. OwnerInv'
    <2> SUFFICES ASSUME up', NEW i \in DOMAIN inbox', inbox'[i] = "unregistered"
                 PROVE  \E j \in DOMAIN inbox' :
                          /\ inbox'[j] = "registered"
                          /\ \A k \in DOMAIN inbox' : k > j => inbox'[k] # "unregistered"
      BY DEF OwnerInv
    <2>1. CASE m = "registered"
      <3>1. Len(inbox) + 1 \in DOMAIN inbox' BY <1>1
      <3>2. \A k \in DOMAIN inbox' : ~(k > Len(inbox) + 1) BY <1>1
      <3> QED BY <1>1, <2>1, <3>1, <3>2
    <2>2. CASE m # "registered"
      <3>1. i \in DOMAIN inbox /\ inbox[i] = "unregistered" /\ up BY <1>1, <2>2
      <3>2. PICK j \in DOMAIN inbox :
              /\ inbox[j] = "registered"
              /\ \A k \in DOMAIN inbox : k > j => inbox[k] # "unregistered"
        BY <3>1 DEF LogindInv, OwnerInv
      <3>3. j \in DOMAIN inbox' /\ inbox'[j] = "registered" BY <1>1, <3>2
      <3>4. \A k \in DOMAIN inbox' : k > j => inbox'[k] # "unregistered"
        BY <1>1, <3>2
      <3> QED BY <3>3, <3>4
    <2> QED BY <2>1, <2>2
  <1> QED BY <1>3, <1>4, <1>5, <1>6

(* No message comes or goes; a call may be made if there is a connection. *)
LEMMA QuietKeeps ==
  ASSUME LogindInv, UNCHANGED <<inbox, isConnected, sessionPath>>,
         watching => watching', up' => up \/ ~watching,
         calls' # <<>> => up' /\ (calls # <<>> \/ (up /\ isConnected /\ sessionPath # None))
  PROVE  WatchInv' /\ AnswerInv' /\ CallInv' /\ OwnerInv'
  <1>1. WatchInv' BY DEF LogindInv, WatchInv
  <1>2. AnswerInv' BY DEF LogindInv, AnswerInv, ConnectedAt
  <1>3. CallInv'
    <2>1. calls' # <<>> => ConnectedAt(Len(inbox) + 1) /\ sessionPath # None
      BY ConnectedAtEnd DEF LogindInv, CallInv
    <2>2. ConnectedAt(Len(inbox) + 1) => ConnectedAt(Len(inbox) + 1)'
      BY DEF ConnectedAt
    <2> QED BY <2>1, <2>2 DEF CallInv
  <1>4. OwnerInv'
    <2>1. ~watching => \A i \in DOMAIN inbox : inbox[i] # "unregistered"
      BY DEF LogindInv, WatchInv
    <2> QED BY <2>1 DEF LogindInv, OwnerInv
  <1> QED BY <1>1, <1>2, <1>3, <1>4

--------------------------------------------------------------------------------
(* The steps of the bus daemon and of logind *)

LEMMA BusHandlesKeeps == LogindInv /\ BusHandles => LogindInv'
  <1> SUFFICES ASSUME LogindInv, BusHandles PROVE LogindInv'
    OBVIOUS
  <1> USE DEF LogindInv
  <1>1. Asked' = Asked BY DEF BusHandles, copy, Asked
  <1>2. backend = "logind" BY DEF BusHandles, StateInv
  <1>3. ResetWhenGone' BY DEF BusHandles, copy, ResetWhenGone
  <1>4. UNCHANGED <<up, isConnected, sessionPath, calls>>
    BY DEF BusHandles, outside, copy
  <1>5. CASE Head(setup) = "AddMatch"
    <2>1. setup = <<"AddMatch", "ListNames">> BY <1>5 DEF BusHandles, QueueInv
    <2>2. setup' = <<"ListNames">> /\ watching' = TRUE /\ inbox' = inbox
      BY <2>1 DEF BusHandles
    <2>3. QueueInv' BY <1>1, <1>4, <2>2 DEF QueueInv
    <2>4. StateInv' BY <1>2, <2>2 DEF BusHandles, outside, copy, StateInv
    <2>5. WatchInv' /\ AnswerInv' /\ CallInv' /\ OwnerInv'
      BY <1>4, <2>2, QuietKeeps DEF CallInv
    <2> QED BY <1>3, <2>3, <2>4, <2>5
  <1>6. CASE Head(setup) = "ListNames"
    <2>1. setup = <<"ListNames">> /\ watching BY <1>6 DEF BusHandles, QueueInv
    <2>2. setup' = <<>> /\ watching' = watching BY <1>6, <2>1 DEF BusHandles
    <2>3. inbox' = IF up THEN Append(inbox, "registered") ELSE inbox
      BY <1>6, OneOrNone DEF BusHandles, QueueInv, Messages
    <2>4. "registered" \in Messages BY DEF Messages
    <2>5. inbox' \in Seq(Messages) BY <2>3, <2>4 DEF QueueInv
    <2>6. QueueInv' BY <1>1, <1>4, <2>2, <2>5 DEF QueueInv
    <2>7. StateInv' BY <1>2, <2>2 DEF BusHandles, outside, copy, StateInv
    <2>8. WatchInv' /\ AnswerInv' /\ CallInv' /\ OwnerInv'
      <3>1. calls # <<>> => up BY DEF CallInv
      <3>2. CASE up BY <1>4, <2>1, <2>2, <2>3, <2>4, <3>1, <3>2, DeliveredKeeps
      <3>3. CASE ~up BY <1>4, <2>2, <2>3, <3>1, <3>3, QuietKeeps
      <3> QED BY <3>2, <3>3
    <2> QED BY <1>3, <2>6, <2>7, <2>8
  <1> QED BY <1>5, <1>6 DEF BusHandles

LEMMA LogindStopsKeeps == LogindInv /\ LogindStops => LogindInv'
  <1> SUFFICES ASSUME LogindInv, LogindStops PROVE LogindInv'
    OBVIOUS
  <1> USE DEF LogindInv
  <1>1. inbox' = IF watching THEN Append(inbox, "unregistered") ELSE inbox
    BY OneOrNone DEF LogindStops, QueueInv, Messages
  <1>2. "unregistered" \in Messages BY DEF Messages
  <1>3. StateInv'
    <2>1. changes' \in 0 .. MaxChanges
      BY LogindSessionAssumption DEF LogindStops, Change, StateInv
    <2> QED BY <2>1 DEF LogindStops, copy, StateInv
  <1>4. QueueInv' BY <1>1, <1>2 DEF LogindStops, copy, QueueInv
  <1>5. WatchInv' /\ AnswerInv' /\ CallInv' /\ OwnerInv'
    <2>1. UNCHANGED <<isConnected, sessionPath, watching>> /\ up' = FALSE /\ calls' = <<>>
      BY DEF LogindStops, copy
    <2>2. CASE watching BY <1>1, <1>2, <2>1, <2>2, DeliveredKeeps
    <2>3. CASE ~watching BY <1>1, <2>1, <2>3, QuietKeeps
    <2> QED BY <2>2, <2>3
  <1> QED BY <1>3, <1>4, <1>5 DEF LogindStops, copy, ResetWhenGone

LEMMA LogindStartsKeeps == LogindInv /\ LogindStarts => LogindInv'
  <1> SUFFICES ASSUME LogindInv, LogindStarts PROVE LogindInv'
    OBVIOUS
  <1> USE DEF LogindInv
  <1>1. inbox' = IF watching THEN Append(inbox, "registered") ELSE inbox
    BY OneOrNone DEF LogindStarts, QueueInv, Messages
  <1>2. "registered" \in Messages BY DEF Messages
  <1>3. StateInv'
    <2>1. changes' \in 0 .. MaxChanges
      BY LogindSessionAssumption DEF LogindStarts, Change, StateInv
    <2> QED BY <2>1 DEF LogindStarts, copy, StateInv
  <1>4. QueueInv' BY <1>1, <1>2 DEF LogindStarts, copy, QueueInv, Asked
  <1>5. WatchInv' /\ AnswerInv' /\ CallInv' /\ OwnerInv'
    <2>1. UNCHANGED <<isConnected, sessionPath, watching, calls>> /\ ~up /\ calls = <<>>
      BY DEF LogindStarts, copy, CallInv
    <2>2. CASE watching BY <1>1, <1>2, <2>1, <2>2, DeliveredKeeps
    <2>3. CASE ~watching BY <1>1, <2>1, <2>3, QuietKeeps
    <2> QED BY <2>2, <2>3
  <1> QED BY <1>3, <1>4, <1>5 DEF LogindStarts, copy, ResetWhenGone

(* Logind, or somebody by way of it, sends a signal: of the session or not. *)
LEMMA SignalKeeps ==
  ASSUME LogindInv, StateInv', NEW m \in Messages, m \notin {"registered", "unregistered", "active"},
         NEW messages \in {<<>>, <<m>>}, Deliver(messages),
         UNCHANGED <<up, setup, watching, copy>>,
         calls' \in Seq(Asked), calls' # <<>> => calls # <<>>
  PROVE  LogindInv'
  <1> USE DEF LogindInv
  <1>1. inbox' = IF messages = <<>> THEN inbox ELSE Append(inbox, m)
    BY OneOrNone DEF QueueInv
  <1>2. QueueInv' BY <1>1 DEF QueueInv, Asked, copy
  <1>3. WatchInv' /\ AnswerInv' /\ CallInv' /\ OwnerInv'
    <2>1. UNCHANGED <<isConnected, sessionPath, watching, up>> BY DEF copy
    <2>2. calls' # <<>> => up' /\ calls # <<>> BY <2>1 DEF CallInv
    <2>3. CASE messages = <<>> BY <1>1, <2>1, <2>2, <2>3, QuietKeeps
    <2>4. CASE messages # <<>> BY <1>1, <2>1, <2>2, <2>4, DeliveredKeeps
    <2> QED BY <2>3, <2>4
  <1> QED BY <1>2, <1>3 DEF copy, ResetWhenGone

LEMMA SwitchToKeeps ==
  ASSUME LogindInv, NEW s \in Sessions \cup {None}, SwitchTo(s)
  PROVE  LogindInv'
  <1>1. StateInv'
    <2>1. changes' \in 0 .. MaxChanges
      BY LogindSessionAssumption DEF SwitchTo, Change, LogindInv, StateInv
    <2> QED BY <2>1 DEF SwitchTo, copy, LogindInv, StateInv
  <1>2. PICK messages \in {<<>>, <<"changed">>} : Deliver(messages) BY DEF SwitchTo
  <1>3. "changed" \in Messages /\ calls \in Seq(Asked) BY DEF Messages, LogindInv, QueueInv
  <1> QED BY <1>1, <1>2, <1>3, SignalKeeps DEF SwitchTo

LEMMA LogindHandlesKeeps == LogindInv /\ LogindHandles => LogindInv'
  <1> SUFFICES ASSUME LogindInv, LogindHandles PROVE LogindInv'
    OBVIOUS
  <1> DEFINE method == Head(calls).method
             path == Head(calls).path
  <1>1. /\ calls' \in Seq(Asked) /\ calls # <<>>
        /\ method \in Methods /\ path \in subscribed
    <2>1. calls \in Seq(Asked) /\ calls # <<>> /\ calls' = Tail(calls)
      BY DEF LogindHandles, LogindInv, QueueInv
    <2>2. calls' \in Seq(Asked) /\ Head(calls) \in Asked BY <2>1
    <2> QED BY <2>1, <2>2 DEF Asked
  <1>2. UNCHANGED <<up, setup, watching, copy>> BY DEF LogindHandles
  <1>3. StateInv'
    <2>1. hint' \in [Sessions -> BOOLEAN]
      <3>1. hint' = hint \/ hint' = [hint EXCEPT ![path] = (method = "idle")]
        BY DEF LogindHandles
      <3>2. hint \in [Sessions -> BOOLEAN] BY DEF LogindInv, StateInv
      <3>3. (method = "idle") \in BOOLEAN OBVIOUS
      <3> QED BY <3>1, <3>2, <3>3
    <2> QED BY <2>1 DEF LogindHandles, copy, LogindInv, StateInv
  <1>4. CASE method = "Get" /\ path = front
    <2>1. inbox' = Append(inbox, "active")
      BY <1>4 DEF LogindHandles, Deliver, LogindInv, QueueInv
    <2>2. "active" \in Messages BY DEF Messages
    <2>3. QueueInv' BY <1>1, <1>2, <2>1, <2>2 DEF LogindInv, QueueInv, Asked, copy
    <2>4. WatchInv' /\ AnswerInv' /\ CallInv' /\ OwnerInv'
      <3>1. UNCHANGED <<isConnected, sessionPath, watching, up>> /\ up
        BY <1>2 DEF copy, LogindHandles
      <3> QED BY <1>1, <2>1, <2>2, <3>1, DeliveredKeeps
    <2> QED BY <1>2, <1>3, <2>3, <2>4 DEF copy, LogindInv, ResetWhenGone
  <1>5. CASE method = "Get" /\ path # front
    <2>1. Deliver(<<"inactive">>) BY <1>5 DEF LogindHandles
    <2>2. "inactive" \in Messages BY DEF Messages
    <2> QED BY <1>1, <1>2, <1>3, <2>1, <2>2, SignalKeeps
  <1>6. CASE method \in {"Lock", "Unlock"}
    <2>1. PICK messages \in {<<>>, <<method>>} : Deliver(messages)
      BY <1>6 DEF LogindHandles, Emits
    <2>2. method \in Messages BY <1>6 DEF Messages
    <2> QED BY <1>1, <1>2, <1>3, <1>6, <2>1, <2>2, SignalKeeps
  <1>7. CASE method \in {"idle", "busy"}
    <2>1. inbox' = inbox BY <1>7 DEF LogindHandles
    <2>2. Deliver(<<>>) BY <2>1 DEF Deliver, LogindInv, QueueInv
    <2>3. "changed" \in Messages BY DEF Messages
    <2> QED BY <1>1, <1>2, <1>3, <2>2, <2>3, SignalKeeps
  <1> QED BY <1>1, <1>4, <1>5, <1>6, <1>7 DEF Methods

--------------------------------------------------------------------------------
(* The steps of the main thread *)

LEMMA instanceKeeps == LogindInv /\ instance => LogindInv'
  <1> SUFFICES ASSUME LogindInv, instance PROVE LogindInv'
    OBVIOUS
  <1> USE DEF LogindInv
  <1>1. UNCHANGED <<up, watching, inbox, calls, isConnected, sessionPath>>
    BY DEF instance, outside, copy
  <1>2. QueueInv'
    <2>1. setup' = <<>> \/ setup' = <<"AddMatch", "ListNames">>
      BY DEF instance, StateInv, Constructor
    <2>2. Asked' = Asked BY DEF instance, copy, Asked
    <2>3. setup' # <<"ListNames">>
      <3>1. Len(setup') # Len(<<"ListNames">>) BY <2>1
      <3> QED BY <3>1
    <2> QED BY <1>1, <2>1, <2>2, <2>3 DEF QueueInv
  <1>3. StateInv' BY DEF instance, outside, copy, StateInv
  <1>4. WatchInv' /\ AnswerInv' /\ CallInv' /\ OwnerInv'
    BY <1>1, QuietKeeps DEF CallInv
  <1> QED BY <1>2, <1>3, <1>4 DEF instance, copy, ResetWhenGone

(* Calls on a path that is subscribed. *)
LEMMA CallsAdded ==
  ASSUME LogindInv, subscribed \subseteq subscribed', NEW requests \in Seq(Asked'),
         Calls(requests)
  PROVE  calls' \in Seq(Asked') /\ (calls' # <<>> => calls # <<>> \/ (up /\ requests # <<>>))
  <1>1. calls \in Seq(Asked) BY DEF LogindInv, QueueInv
  <1>2. Asked \subseteq Asked' BY DEF Asked
  <1>3. calls \in Seq(Asked') BY <1>1, <1>2, LargerSeq
  <1> QED BY <1>3 DEF Calls

(* A message that may make the program call, but does not change what it knows. *)
LEMMA NewsKeeps ==
  ASSUME LogindInv, NEW m, Receive(m),
         m # "unregistered", m = "registered" => isConnected,
         NEW requests \in Seq(Asked), isConnected \/ requests = <<>>, Calls(requests),
         UNCHANGED <<outside, backend, setup, watching, copy>>
  PROVE  LogindInv'
  <1>1. UNCHANGED <<up, watching, setup, isConnected, sessionPath, subscribed>>
    BY DEF outside, copy
  <1>2. Asked' = Asked BY <1>1 DEF Asked
  <1>3. /\ calls' \in Seq(Asked)
        /\ calls' # <<>> => calls # <<>> \/ (up /\ requests # <<>>)
    BY <1>1, <1>2, CallsAdded
  <1>4. inbox' \in Seq(Messages) BY Shifted DEF LogindInv, QueueInv
  <1>5. QueueInv' BY <1>1, <1>2, <1>3, <1>4 DEF LogindInv, QueueInv
  <1>6. StateInv' BY DEF outside, copy, LogindInv, StateInv
  <1>7. isConnected => sessionPath # None BY DEF LogindInv, StateInv
  <1>8. WatchInv' /\ AnswerInv' /\ CallInv' /\ OwnerInv'
    BY <1>1, <1>3, <1>7, HandledKeeps
  <1> QED BY <1>5, <1>6, <1>8 DEF copy, LogindInv, ResetWhenGone

LEMMA AlreadyConnectedKeeps == LogindInv /\ AlreadyConnected => LogindInv'
  <1> SUFFICES ASSUME LogindInv, AlreadyConnected PROVE LogindInv'
    OBVIOUS
  <1>1. Calls(<<>>) /\ <<>> \in Seq(Asked)
    BY DEF AlreadyConnected, Calls, LogindInv, QueueInv
  <1> QED BY <1>1, NewsKeeps DEF AlreadyConnected

LEMMA PropertiesChangedKeeps == LogindInv /\ _q_sessionPropertiesChanged => LogindInv'
  <1> SUFFICES ASSUME LogindInv, _q_sessionPropertiesChanged PROVE LogindInv'
    OBVIOUS
  <1>1. CASE isConnected
    <2>1. sessionPath \in subscribed BY <1>1 DEF LogindInv, StateInv
    <2>2. GetProperties(sessionPath) \in Seq(Asked)
      BY <2>1 DEF GetProperties, Call, Methods, Asked
    <2> QED BY <1>1, <2>2, NewsKeeps DEF _q_sessionPropertiesChanged
  <1>2. CASE ~isConnected
    <2>1. Calls(<<>>) /\ <<>> \in Seq(Asked)
      BY <1>2 DEF _q_sessionPropertiesChanged, Calls, LogindInv, QueueInv
    <2> QED BY <2>1, NewsKeeps DEF _q_sessionPropertiesChanged
  <1> QED BY <1>1, <1>2

LEMMA ServiceRegisteredKeeps == LogindInv /\ _q_serviceRegistered => LogindInv'
  <1> SUFFICES ASSUME LogindInv, _q_serviceRegistered PROVE LogindInv'
    OBVIOUS
  <1> DEFINE path == Found
             requests == GetProperties(path) \o handleConnectedChanged(path)
  <1>1. path \in Sessions
    BY DEF _q_serviceRegistered, Found, OfUser, OfProcess, LogindInv, StateInv
  <1>2. /\ Receive("registered") /\ isConnected' = TRUE /\ sessionPath' = path
        /\ subscribed' = subscribed \cup {path} /\ UNCHANGED <<up, watching, setup>>
        /\ Calls(requests)
    BY DEF _q_serviceRegistered, Connected
  <1>3. requests \in Seq(Asked')
    <2>1. Call("Get", path) \in Asked' /\ Call(Hint(FALSE), path) \in Asked'
      BY <1>2 DEF Call, Hint, Methods, Asked
    <2>2. GetProperties(path) \in Seq(Asked') /\ handleConnectedChanged(path) \in Seq(Asked')
      BY <2>1, Single DEF GetProperties, handleConnectedChanged
    <2> QED BY <2>2, Joined
  <1>4. /\ calls' \in Seq(Asked')
        /\ calls' # <<>> => calls # <<>> \/ up
    BY <1>2, <1>3, CallsAdded
  <1>5. inbox' \in Seq(Messages) /\ inbox[1] = "registered" /\ 1 \in DOMAIN inbox
    BY <1>2, Shifted DEF LogindInv, QueueInv
  <1>6. QueueInv' BY <1>2, <1>4, <1>5 DEF LogindInv, QueueInv
  <1>7. watching /\ backend = "logind" BY <1>5 DEF LogindInv, WatchInv, StateInv
  <1>8. StateInv'
    <2>1. front' = front BY DEF _q_serviceRegistered, Activates, Interfaces
    <2>2. path # None BY DEF _q_serviceRegistered
    <2> QED BY <1>1, <1>2, <1>7, <2>1, <2>2 DEF _q_serviceRegistered, LogindInv, StateInv
  <1>9. path # None BY DEF _q_serviceRegistered
  <1>10. WatchInv' /\ AnswerInv' /\ CallInv' /\ OwnerInv'
    BY <1>2, <1>4, <1>9, HandledKeeps
  <1> QED BY <1>2, <1>6, <1>8, <1>10 DEF LogindInv, ResetWhenGone

(* A session that is not found now was never found: then no call was made. *)
LEMMA NoSessionKeeps == LogindInv /\ NoSession => LogindInv'
  <1> SUFFICES ASSUME LogindInv, NoSession PROVE LogindInv'
    OBVIOUS
  <1>1. /\ Receive("registered") /\ calls' = calls
        /\ UNCHANGED <<up, watching, setup, isConnected, sessionPath, subscribed>>
    BY DEF NoSession, outside, copy
  <1>2. sessionPath = None BY DEF NoSession, Found
  <1>3. calls = <<>> BY <1>2 DEF LogindInv, CallInv
  <1>4. \A i \in DOMAIN inbox : inbox[i] # "active" BY <1>2 DEF LogindInv, AnswerInv
  <1>5. inbox' \in Seq(Messages) /\ \A i \in DOMAIN inbox' : inbox'[i] # "active"
    <2>1. /\ inbox' \in Seq(Messages)
          /\ Len(inbox) \in Nat \ {0} /\ Len(inbox') = Len(inbox) - 1
          /\ DOMAIN inbox = 1 .. Len(inbox) /\ DOMAIN inbox' = 1 .. Len(inbox')
          /\ \A i \in 1 .. Len(inbox') : inbox'[i] = inbox[i + 1]
      BY <1>1, Shifted DEF LogindInv, QueueInv
    <2>2. \A i \in DOMAIN inbox' : i + 1 \in DOMAIN inbox /\ inbox'[i] = inbox[i + 1]
      BY <2>1
    <2> QED BY <1>4, <2>1, <2>2
  <1>6. QueueInv' BY <1>1, <1>5 DEF LogindInv, QueueInv, Asked
  <1>7. StateInv' BY DEF NoSession, outside, copy, LogindInv, StateInv
  <1>8. AnswerInv' /\ CallInv' BY <1>1, <1>3, <1>5 DEF AnswerInv, CallInv
  <1>9. WatchInv' /\ OwnerInv' BY <1>1, HandledTold
  <1> QED BY <1>6, <1>7, <1>8, <1>9 DEF NoSession, copy, LogindInv, ResetWhenGone

LEMMA ServiceUnregisteredKeeps == LogindInv /\ _q_serviceUnregistered => LogindInv'
  <1> SUFFICES ASSUME LogindInv, _q_serviceUnregistered PROVE LogindInv'
    OBVIOUS
  <1>1. /\ Receive("unregistered") /\ calls' = calls /\ isConnected' = FALSE
        /\ UNCHANGED <<up, watching, setup, sessionPath, subscribed>>
    BY DEF _q_serviceUnregistered, outside
  <1>2. inbox' \in Seq(Messages) BY <1>1, Shifted DEF LogindInv, QueueInv
  <1>3. QueueInv' BY <1>1, <1>2 DEF LogindInv, QueueInv, Asked
  <1>4. StateInv'
    BY DEF _q_serviceUnregistered, outside, ResetActive, LogindInv, StateInv
  <1>5. WatchInv' /\ AnswerInv' /\ CallInv' /\ OwnerInv'
    BY <1>1, HandledKeeps
  <1> QED BY <1>3, <1>4, <1>5 DEF _q_serviceUnregistered, ResetActive, LogindInv, ResetWhenGone

LEMMA ActiveIsKeeps ==
  ASSUME LogindInv, NEW value \in BOOLEAN, ActiveIs(value)
  PROVE  LogindInv'
  <1> DEFINE m == IF value THEN "active" ELSE "inactive"
  <1>1. /\ Receive(m) /\ calls' = calls
        /\ UNCHANGED <<up, watching, setup, isConnected, sessionPath, subscribed>>
    BY DEF ActiveIs, outside
  <1>2. inbox' \in Seq(Messages) /\ inbox[1] = m /\ 1 \in DOMAIN inbox
    BY <1>1, Shifted DEF LogindInv, QueueInv
  <1>3. QueueInv' BY <1>1, <1>2 DEF LogindInv, QueueInv, Asked
  <1>4. StateInv' BY DEF ActiveIs, outside, LogindInv, StateInv
  <1>5. WatchInv' /\ AnswerInv' /\ CallInv' /\ OwnerInv'
    <2>1. m \notin {"registered", "unregistered"} OBVIOUS
    <2>2. isConnected => sessionPath # None BY DEF LogindInv, StateInv
    <2> HIDE DEF m
    <2> QED BY <1>1, <2>1, <2>2, HandledKeeps
  <1>6. ResetWhenGone'
    <2>1. CASE value
      <3>1. ConnectedAt(1) BY <1>2, <2>1 DEF LogindInv, AnswerInv
      <3>2. isConnected BY <3>1 DEF ConnectedAt
      <3> QED BY <1>1, <3>2 DEF ResetWhenGone
    <2>2. CASE ~value BY <2>2 DEF ActiveIs, ResetWhenGone
    <2> QED BY <2>1, <2>2
  <1> QED BY <1>3, <1>4, <1>5, <1>6 DEF LogindInv

--------------------------------------------------------------------------------
(* The specification *)

LEMMA InitHolds == Init => LogindInv
  <1> SUFFICES ASSUME Init PROVE LogindInv
    OBVIOUS
  <1>1. StateInv
    <2>1. changes \in 0 .. MaxChanges BY LogindSessionAssumption DEF Init
    <2>2. hint \in [Sessions -> BOOLEAN] BY DEF Init
    <2> QED BY <2>1, <2>2 DEF Init, StateInv
  <1>2. QueueInv BY DEF Init, QueueInv
  <1>3. WatchInv /\ AnswerInv /\ CallInv /\ OwnerInv
    BY DEF Init, WatchInv, AnswerInv, CallInv, OwnerInv
  <1> QED BY <1>1, <1>2, <1>3 DEF Init, LogindInv, ResetWhenGone

LEMMA StutterKeeps == LogindInv /\ UNCHANGED vars => LogindInv'
  BY DEF LogindInv, vars, outside, copy, StateInv, QueueInv, Asked, WatchInv, AnswerInv,
     CallInv, ConnectedAt, OwnerInv, ResetWhenGone

LEMMA NextKeeps == LogindInv /\ [Next]_vars => LogindInv'
  <1> SUFFICES ASSUME LogindInv, [Next]_vars PROVE LogindInv'
    OBVIOUS
  <1>1. CASE BusHandles BY <1>1, BusHandlesKeeps
  <1>2. CASE LogindStops BY <1>2, LogindStopsKeeps
  <1>3. CASE LogindStarts BY <1>3, LogindStartsKeeps
  <1>4. CASE LogindHandles BY <1>4, LogindHandlesKeeps
  <1>5. CASE \E s \in Sessions \cup {None} : SwitchTo(s) BY <1>5, SwitchToKeeps
  <1>6. CASE instance BY <1>6, instanceKeeps
  <1>7. CASE _q_serviceRegistered BY <1>7, ServiceRegisteredKeeps
  <1>8. CASE NoSession BY <1>8, NoSessionKeeps
  <1>9. CASE AlreadyConnected BY <1>9, AlreadyConnectedKeeps
  <1>10. CASE _q_serviceUnregistered BY <1>10, ServiceUnregisteredKeeps
  <1>11. CASE _q_sessionPropertiesChanged BY <1>11, PropertiesChangedKeeps
  <1>12. CASE \E value \in BOOLEAN : ActiveIs(value) BY <1>12, ActiveIsKeeps
  <1>13. CASE UNCHANGED vars BY <1>13, StutterKeeps
  <1> QED BY <1>1, <1>2, <1>3, <1>4, <1>5, <1>6, <1>7, <1>8, <1>9, <1>10, <1>11, <1>12,
             <1>13 DEF Next, MainThread

(* What is known of the queues and of the connection holds in every state. *)
THEOREM LogindInvariantHolds == Spec => []LogindInv
  BY InitHolds, NextKeeps, PTL DEF Spec

(* Every variable of Logind has its type: a call that is on its way names a     *)
(* session whose signals are connected, and a connection has a session.         *)
THEOREM LogindTyped == Spec => []TypeOK
  <1>1. LogindInv => TypeOK BY TypesFollow DEF LogindInv
  <1> QED BY <1>1, LogindInvariantHolds, PTL

(* An answer to getSessionActive() that crosses with logind's end is read       *)
(* before the program hears of the end, so that _q_serviceUnregistered() has    *)
(* the last word: without a connection the session is not active.               *)
THEOREM ForgottenWhenGone == Spec => []ResetWhenGone
  <1>1. LogindInv => ResetWhenGone BY DEF LogindInv
  <1> QED BY <1>1, LogindInvariantHolds, PTL
================================================================================
