---------------------------- MODULE Inhibitors_proof ---------------------------
(* Module Inhibitors: the books of Logind, of the backend and of the screen     *)
(* saver stay right, and no client's lock is lost or left behind, for every set *)
(* of requests and every bound.                                                 *)
EXTENDS Inhibitors, TLAPS, FiniteSetTheorems, WellFoundedInduction

--------------------------------------------------------------------------------
(* Operators *)

(* Leaving some entries of a book out. *)
LEMMA Restricted ==
  ASSUME NEW f, NEW S, S \subseteq DOMAIN f
  PROVE  /\ DOMAIN Restrict(f, S) = S
         /\ \A x \in S : Restrict(f, S)[x] = f[x]
  BY DEF Restrict

(* Min() of a set of natural numbers that is not empty is one of them. *)
LEMMA LeastIsMember ==
  ASSUME NEW S \in SUBSET Nat, S # {}
  PROVE  Min(S) \in S
  <1> DEFINE less == {p \in Nat \X Nat : p[1] < p[2]}
  <1>1. IsWellFoundedOn(less, Nat) BY NatLessThanWellFounded DEF OpToRel
  <1>2. PICK x \in S : \A y \in S : <<y, x>> \notin less
    <2> HIDE DEF less
    <2> QED BY <1>1, WFMin
  <1>3. ASSUME NEW y \in S PROVE x =< y
    <2>1. <<y, x>> \in Nat \X Nat /\ <<y, x>>[1] = y /\ <<y, x>>[2] = x OBVIOUS
    <2>2. ~ (y < x) BY <1>2, <2>1
    <2> QED BY <2>2
  <1> QED BY <1>3 DEF Min

(* The descriptor dup() returns is none of those that are open. *)
LEMMA FreeFdIsNew ==
  ASSUME IsFiniteSet(DOMAIN held), DOMAIN held \subseteq Nat
  PROVE  FreeFd \in Nat /\ FreeFd \notin DOMAIN held
  <1> DEFINE n == Cardinality(DOMAIN held)
             free == {m \in 1 .. n + 1 : m \notin DOMAIN held}
  <1>1. n \in Nat BY FS_CardinalityType
  <1>2. free # {}
    <2> SUFFICES ASSUME free = {} PROVE FALSE OBVIOUS
    <2>1. 1 .. n + 1 \in SUBSET DOMAIN held OBVIOUS
    <2>2. Cardinality(1 .. n + 1) <= n BY <2>1, FS_Subset
    <2>3. Cardinality(1 .. n + 1) = n + 1 BY <1>1, FS_Interval
    <2> QED BY <1>1, <2>2, <2>3
  <1>3. free \in SUBSET Nat BY <1>1
  <1>4. Min(free) \in free BY <1>2, <1>3, LeastIsMember
  <1> QED BY <1>3, <1>4 DEF FreeFd

(* What is taken from the front of the queue of calls, and what is left. *)
LEMMA Taken ==
  ASSUME NEW S, NEW s \in Seq(S), s # <<>>
  PROVE  /\ Head(s) \in S /\ Tail(s) \in Seq(S) /\ Head(s) = s[1]
         /\ DOMAIN s = 1 .. Len(s) /\ Len(s) \in Nat \ {0}
         /\ DOMAIN Tail(s) = 1 .. Len(s) - 1
         /\ \A i \in DOMAIN Tail(s) : i + 1 \in DOMAIN s /\ Tail(s)[i] = s[i + 1]
  OBVIOUS

(* What is put behind the queue of calls. *)
LEMMA Queued ==
  ASSUME NEW S, NEW s \in Seq(S), NEW t \in Seq(S)
  PROVE  /\ s \o t \in Seq(S)
         /\ DOMAIN s = 1 .. Len(s) /\ DOMAIN t = 1 .. Len(t)
         /\ Len(s) \in Nat /\ Len(t) \in Nat
         /\ DOMAIN (s \o t) = 1 .. Len(s) + Len(t)
         /\ \A i \in DOMAIN s : (s \o t)[i] = s[i]
         /\ \A i \in DOMAIN (s \o t) :
              i \notin DOMAIN s => i - Len(s) \in DOMAIN t /\ (s \o t)[i] = t[i - Len(s)]
  OBVIOUS

--------------------------------------------------------------------------------
(* Invariants *)

(* The numbers in use: descriptors are finitely many, no cookie has been given  *)
(* out or released that Inhibit() has not counted.                              *)
NumbersInv ==
  /\ TypeOK
  /\ IsFiniteSet(DOMAIN held)
  /\ Range(inhibit) \subseteq Requests
  /\ released \subseteq 0 .. cookieSeed - 1

BookInv == NumbersInv /\ BooksRight

(* Every call a client waits for stands for one cookie without a descriptor. *)
WaitingInv ==
  \A i \in DOMAIN pending : pending[i] \in Requests =>
    \E c \in DOMAIN inhibit \ DOMAIN inhibitFd : inhibit[c] = pending[i]

NoneTwice ==
  /\ \A c, d \in DOMAIN inhibit : inhibit[c] = inhibit[d] => c = d
  /\ \A i, j \in DOMAIN pending :
       pending[i] \in Requests /\ pending[i] = pending[j] => i = j

(* What NoLeak needs while none of the three races has happened. *)
LeakInv ==
  Free /\ ~early /\ ~unheard /\ ~shared =>
    WaitingInv /\ NoneTwice /\ released \cap DOMAIN inhibit = {}

InhibitorsInv == BookInv /\ LeakInv /\ NoLeak

--------------------------------------------------------------------------------
(* Numbers *)

LEMMA OwnRequestsAreOwn == OwnRequests \in Seq(Own)
  BY DEF OwnRequests, Own

LEMMA OwnIsNobodyElses == Own \cap Requests = {}
  BY InhibitorsAssumption

(* The cookies of a request are numbers: one of them is the first. *)
LEMMA FirstCookie ==
  ASSUME NumbersInv, NEW r, CookiesOf(r) # {}
  PROVE  Min(CookiesOf(r)) \in CookiesOf(r)
  <1>1. CookiesOf(r) \in SUBSET Nat BY DEF CookiesOf, NumbersInv, TypeOK
  <1> QED BY <1>1, LeastIsMember

(* What handleInhibited() enters is the descriptor of a cookie with the request. *)
LEMMA FdRecorded ==
  ASSUME NumbersInv, NEW r, NEW fd, RecordFd(r, fd)
  PROVE  \/ CookiesOf(r) = {} /\ inhibitFd' = inhibitFd
         \/ \E c \in DOMAIN inhibit :
              inhibit[c] = r /\ inhibitFd' = Enter(inhibitFd, c, fd)
  <1>1. CASE CookiesOf(r) = {} BY <1>1 DEF RecordFd
  <1>2. CASE CookiesOf(r) # {}
    <2>1. Min(CookiesOf(r)) \in CookiesOf(r) BY <1>2, FirstCookie
    <2> QED BY <1>2, <2>1 DEF RecordFd, CookiesOf, Matches
  <1> QED BY <1>1, <1>2

(* Descriptors, owners and cookies are forgotten one by one. *)
LEMMA Forgotten ==
  ASSUME NEW f, NEW c
  PROVE  /\ DOMAIN Without(f, c) = DOMAIN f \ {c}
         /\ \A x \in DOMAIN f : x # c => Without(f, c)[x] = f[x]
  BY Restricted DEF Without

(* LogindBackend::handleUninhibited() removes at most one owner. *)
LEMMA OwnerForgotten ==
  ASSUME NEW fd, handleUninhibited(fd)
  PROVE  /\ \/ mFds' = mFds /\ (Owners(fd) = {} \/ NoName \in Owners(fd))
            \/ \E w \in Owners(fd) : DOMAIN mFds' = DOMAIN mFds \ {w}
         /\ \A w \in DOMAIN mFds' : w \in DOMAIN mFds /\ mFds'[w] = mFds[w]
  <1>1. CASE mFds' = mFds /\ (Owners(fd) = {} \/ NoName \in Owners(fd)) BY <1>1
  <1>2. ASSUME NEW w \in Owners(fd), mFds' = Without(mFds, w)
        PROVE  DOMAIN mFds' = DOMAIN mFds \ {w} /\ \A x \in DOMAIN mFds' : mFds'[x] = mFds[x]
    BY <1>2, Forgotten
  <1> QED BY <1>1, <1>2 DEF handleUninhibited

(* Logind::uninhibit() closes one descriptor that is open, or nothing. *)
LEMMA OneClosed ==
  ASSUME NEW fd, Uninhibit(fd)
  PROVE  /\ DOMAIN held' \subseteq DOMAIN held
         /\ \A x \in DOMAIN held : x # fd => x \in DOMAIN held'
         /\ \A x \in DOMAIN held' : held'[x] = held[x]
         /\ DOMAIN mFds' \subseteq DOMAIN mFds
         /\ unnamed \in BOOLEAN => unnamed' \in BOOLEAN
         /\ connected => fd \notin DOMAIN held'
  <1>1. CASE connected /\ fd \in DOMAIN held
    <2>1. DOMAIN held' = DOMAIN held \ {fd} /\ \A x \in DOMAIN held' : held'[x] = held[x]
      <3>1. held' = Without(held, fd) BY <1>1 DEF Uninhibit
      <3> QED BY <3>1, Forgotten
    <2>2. DOMAIN mFds' \subseteq DOMAIN mFds BY <1>1, OwnerForgotten DEF Uninhibit
    <2>3. unnamed' \in BOOLEAN BY <1>1 DEF Uninhibit, handleUninhibited
    <2> QED BY <1>1, <2>1, <2>2, <2>3
  <1>2. CASE ~ (connected /\ fd \in DOMAIN held)
    BY <1>2 DEF Uninhibit
  <1> QED BY <1>1, <1>2

(* A smaller set of descriptors keeps its type. *)
LEMMA FewerHeld ==
  ASSUME NumbersInv, DOMAIN held' \subseteq DOMAIN held,
         \A x \in DOMAIN held' : held'[x] = held[x]
  PROVE  /\ DOMAIN held' \subseteq Nat /\ IsFiniteSet(DOMAIN held')
         /\ Range(held') \subseteq Requests \cup Own
  <1>1. IsFiniteSet(DOMAIN held') BY FS_Subset DEF NumbersInv
  <1> QED BY <1>1 DEF NumbersInv, TypeOK, Range

(* Each action keeps the numbers. *)
LEMMA AskNumbers ==
  ASSUME NumbersInv, NEW t \in Seq(Requests \cup Own), Ask(t)
  PROVE  pending' \in Seq(Requests \cup Own)
  BY Queued DEF Ask, NumbersInv, TypeOK

LEMMA InhibitedNumbers == ASSUME NumbersInv, Inhibited PROVE NumbersInv'
  <1> DEFINE r == Head(pending)
             fd == FreeFd
  <1>1. r \in Requests \cup Own /\ pending' \in Seq(Requests \cup Own)
    BY Taken DEF Inhibited, NumbersInv, TypeOK
  <1>2. fd \in Nat BY FreeFdIsNew DEF NumbersInv, TypeOK
  <1>3. held' = Enter(held, fd, r) /\ mFds' = Enter(mFds, r.who, fd) BY DEF Inhibited
  <1> HIDE DEF fd, r
  <1>4. DOMAIN held' = DOMAIN held \cup {fd} /\ Range(held') \subseteq Requests \cup Own
    <2>1. /\ DOMAIN held' = DOMAIN held \cup {fd} /\ held'[fd] = r
          /\ \A x \in DOMAIN held : x # fd => held'[x] = held[x]
      BY <1>3 DEF Enter
    <2> QED BY <1>1, <2>1 DEF NumbersInv, TypeOK, Range
  <1>5. IsFiniteSet(DOMAIN held') BY <1>4, FS_AddElement DEF NumbersInv
  <1>6. DOMAIN mFds' \subseteq {x.who : x \in Requests \cup Own}
    <2>1. DOMAIN mFds' = DOMAIN mFds \cup {r.who} BY <1>3 DEF Enter
    <2> QED BY <1>1, <2>1 DEF NumbersInv, TypeOK
  <1>7. DOMAIN inhibitFd' \subseteq DOMAIN inhibit
    <2>1. RecordFd(r, fd) BY DEF Inhibited, r, fd
    <2>2. CASE inhibitFd' = inhibitFd BY <2>2 DEF NumbersInv, TypeOK
    <2>3. ASSUME NEW c \in DOMAIN inhibit, inhibitFd' = Enter(inhibitFd, c, fd)
          PROVE  DOMAIN inhibitFd' \subseteq DOMAIN inhibit
      <3>1. DOMAIN inhibitFd' = DOMAIN inhibitFd \cup {c} BY <2>3 DEF Enter
      <3> QED BY <3>1 DEF NumbersInv, TypeOK
    <2> QED BY <2>1, <2>2, <2>3, FdRecorded
  <1> QED
    BY <1>1, <1>2, <1>4, <1>5, <1>6, <1>7
    DEF Inhibited, world, history, NumbersInv, TypeOK

LEMMA InhibitNumbers ==
  ASSUME NumbersInv, NEW r \in Requests, Inhibit(r)
  PROVE  NumbersInv'
  <1>1. inhibit' = Enter(inhibit, cookieSeed, r) BY DEF Inhibit
  <1>2. DOMAIN inhibit' = DOMAIN inhibit \cup {cookieSeed} /\ Range(inhibit') \subseteq Requests
    <2>1. /\ DOMAIN inhibit' = DOMAIN inhibit \cup {cookieSeed} /\ inhibit'[cookieSeed] = r
          /\ \A x \in DOMAIN inhibit : x # cookieSeed => inhibit'[x] = inhibit[x]
      BY <1>1 DEF Enter
    <2> QED BY <2>1 DEF NumbersInv, Range
  <1>3. <<r>> \in Seq(Requests \cup Own) OBVIOUS
  <1>4. pending' \in Seq(Requests \cup Own) BY <1>3, AskNumbers DEF Inhibit
  <1>5. cookieSeed' \in 0 .. MaxCookies /\ cookieSeed' = cookieSeed + 1 /\ cookieSeed \in Nat
    BY InhibitorsAssumption DEF Inhibit, NumbersInv, TypeOK
  <1>6. 0 .. cookieSeed - 1 \subseteq 0 .. cookieSeed' - 1 /\ cookieSeed \in 0 .. cookieSeed' - 1
    BY <1>5
  <1> QED
    BY <1>2, <1>4, <1>5, <1>6 DEF Inhibit, world, NumbersInv, TypeOK

LEMMA UnInhibitNumbers ==
  ASSUME NumbersInv, NEW c \in 0 .. MaxCookies - 1, UnInhibit(c)
  PROVE  NumbersInv'
  <1>1. c \in 0 .. cookieSeed - 1
    BY InhibitorsAssumption DEF UnInhibit, NumbersInv, TypeOK
  <1>2. CASE c \in DOMAIN inhibitFd
    <2>1. Uninhibit(inhibitFd[c]) BY <1>2 DEF UnInhibit
    <2>2. DOMAIN inhibit' = DOMAIN inhibit \ {c} /\ DOMAIN inhibitFd' = DOMAIN inhibitFd \ {c}
          /\ Range(inhibit') \subseteq Range(inhibit)
      <3>1. inhibit' = Without(inhibit, c) /\ inhibitFd' = Without(inhibitFd, c)
        BY <1>2 DEF UnInhibit
      <3>2. /\ DOMAIN inhibit' = DOMAIN inhibit \ {c}
            /\ DOMAIN inhibitFd' = DOMAIN inhibitFd \ {c}
            /\ \A x \in DOMAIN inhibit : x # c => inhibit'[x] = inhibit[x]
        BY <3>1, Forgotten
      <3> QED BY <3>2 DEF Range
    <2>3. DOMAIN held' \subseteq Nat /\ IsFiniteSet(DOMAIN held')
          /\ Range(held') \subseteq Requests \cup Own
      BY <2>1, OneClosed, FewerHeld
    <2>4. DOMAIN mFds' \subseteq DOMAIN mFds BY <2>1, OneClosed
    <2>5. unnamed' \in BOOLEAN BY <2>1, OneClosed DEF NumbersInv, TypeOK
    <2> QED
      BY <1>1, <2>2, <2>3, <2>4, <2>5 DEF UnInhibit, world, NumbersInv, TypeOK
  <1>3. CASE c \notin DOMAIN inhibitFd
    BY <1>1, <1>3 DEF UnInhibit, world, NumbersInv, TypeOK
  <1> QED BY <1>2, <1>3

LEMMA LockedNumbers == ASSUME NumbersInv, handleSessionLocked PROVE NumbersInv'
  <1>1. CASE DOMAIN mFds = {}
    BY <1>1 DEF handleSessionLocked, Locks, screenSaver, history, NumbersInv, TypeOK
  <1>2. CASE DOMAIN mFds # {}
    <2>1. PICK w \in DOMAIN mFds : Uninhibit(mFds[w]) BY <1>2 DEF handleSessionLocked
    <2>2. DOMAIN held' \subseteq Nat /\ IsFiniteSet(DOMAIN held')
          /\ Range(held') \subseteq Requests \cup Own
      BY <2>1, OneClosed, FewerHeld
    <2>3. DOMAIN mFds' \subseteq DOMAIN mFds BY <2>1, OneClosed
    <2>4. unnamed' \in BOOLEAN BY <2>1, OneClosed DEF NumbersInv, TypeOK
    <2> QED
      BY <1>2, <2>2, <2>3, <2>4
      DEF handleSessionLocked, screenSaver, NumbersInv, TypeOK
  <1> QED BY <1>1, <1>2

LEMMA NumbersKept == ASSUME NumbersInv, [Next]_vars PROVE NumbersInv'
  <1>1. CASE UNCHANGED vars
    BY <1>1 DEF vars, logind, screenSaver, world, history, NumbersInv, TypeOK
  <1>2. CASE _q_serviceRegistered \/ _q_serviceUnregistered
    BY <1>2 DEF _q_serviceRegistered, _q_serviceUnregistered, screenSaver, world, history,
                NumbersInv, TypeOK
  <1>3. CASE Inhibited BY <1>3, InhibitedNumbers
  <1>4. CASE InhibitFails
    <2>1. pending' \in Seq(Requests \cup Own)
      BY <1>4, Taken DEF InhibitFails, NumbersInv, TypeOK
    <2> QED BY <1>4, <2>1 DEF InhibitFails, screenSaver, world, history, NumbersInv, TypeOK
  <1>5. ASSUME NEW r \in Requests, Inhibit(r) PROVE NumbersInv' BY <1>5, InhibitNumbers
  <1>6. ASSUME NEW c \in 0 .. MaxCookies - 1, UnInhibit(c) PROVE NumbersInv'
    BY <1>6, UnInhibitNumbers
  <1>7. CASE handleSessionLocked BY <1>7, LockedNumbers
  <1>8. CASE handleSessionUnlocked
    <2>1. OwnRequests \in Seq(Requests \cup Own) BY OwnRequestsAreOwn
    <2>2. pending' \in Seq(Requests \cup Own)
      BY <1>8, <2>1, AskNumbers DEF handleSessionUnlocked
    <2> QED
      BY <1>8, <2>2 DEF handleSessionUnlocked, screenSaver, history, NumbersInv, TypeOK
  <1>9. CASE prepareForSleep \/ prepareForShutdown
    <2>1. CASE prepareForSleep
      <3>1. active' \in BOOLEAN BY <2>1 DEF prepareForSleep, Locks
      <3> QED
        BY <2>1, <3>1 DEF prepareForSleep, logind, screenSaver, world, history, NumbersInv,
                          TypeOK
    <2>2. CASE prepareForShutdown
      <3>1. sessionEnds' \in BOOLEAN BY <2>2 DEF prepareForShutdown
      <3> QED
        BY <2>2, <3>1 DEF prepareForShutdown, logind, screenSaver, history, NumbersInv,
                          TypeOK
    <2> QED BY <1>9, <2>1, <2>2
  <1> QED BY <1>1, <1>2, <1>3, <1>4, <1>5, <1>6, <1>7, <1>8, <1>9 DEF Next, Replies

--------------------------------------------------------------------------------
(* Books *)

(* What the answer of logind does to the three books. *)
Answered(fd, r) ==
  /\ pending # <<>> /\ r = Head(pending) /\ pending' = Tail(pending)
  /\ DOMAIN held' = DOMAIN held \cup {fd} /\ held'[fd] = r
  /\ \A x \in DOMAIN held : held'[x] = held[x]
  /\ DOMAIN mFds' = DOMAIN mFds \cup {r.who} /\ mFds'[r.who] = fd
  /\ \A w \in DOMAIN mFds : w # r.who => mFds'[w] = mFds[w]
  /\ \/ CookiesOf(r) = {} /\ inhibitFd' = inhibitFd
     \/ \E c \in DOMAIN inhibit :
          /\ inhibit[c] = r
          /\ DOMAIN inhibitFd' = DOMAIN inhibitFd \cup {c} /\ inhibitFd'[c] = fd
          /\ \A d \in DOMAIN inhibitFd : d # c => inhibitFd'[d] = inhibitFd[d]

LEMMA AnswerFiled ==
  ASSUME NumbersInv, Inhibited
  PROVE  \E fd \in Nat \ DOMAIN held, r \in Requests \cup Own : Answered(fd, r)
  <1> DEFINE r == Head(pending)
             fd == FreeFd
  <1>1. r \in Requests \cup Own BY Taken DEF Inhibited, NumbersInv, TypeOK
  <1>2. fd \in Nat \ DOMAIN held BY FreeFdIsNew DEF NumbersInv, TypeOK
  <1>3. pending # <<>> /\ pending' = Tail(pending) BY DEF Inhibited
  <1>4. held' = Enter(held, fd, r) /\ mFds' = Enter(mFds, r.who, fd) BY DEF Inhibited
  <1>5. RecordFd(r, fd) BY DEF Inhibited
  <1> HIDE DEF fd
  <1>6. /\ DOMAIN held' = DOMAIN held \cup {fd} /\ held'[fd] = r
        /\ \A x \in DOMAIN held : held'[x] = held[x]
    BY <1>2, <1>4 DEF Enter
  <1>7. /\ DOMAIN mFds' = DOMAIN mFds \cup {r.who} /\ mFds'[r.who] = fd
        /\ \A w \in DOMAIN mFds : w # r.who => mFds'[w] = mFds[w]
    BY <1>4 DEF Enter
  <1>8. \/ CookiesOf(r) = {} /\ inhibitFd' = inhibitFd
        \/ \E c \in DOMAIN inhibit :
             /\ inhibit[c] = r
             /\ DOMAIN inhibitFd' = DOMAIN inhibitFd \cup {c} /\ inhibitFd'[c] = fd
             /\ \A d \in DOMAIN inhibitFd : d # c => inhibitFd'[d] = inhibitFd[d]
    <2>1. CASE CookiesOf(r) = {} BY <2>1, <1>5 DEF RecordFd
    <2>2. ASSUME NEW c \in DOMAIN inhibit, inhibit[c] = r,
                 inhibitFd' = Enter(inhibitFd, c, fd)
          PROVE  /\ DOMAIN inhibitFd' = DOMAIN inhibitFd \cup {c} /\ inhibitFd'[c] = fd
                 /\ \A d \in DOMAIN inhibitFd : d # c => inhibitFd'[d] = inhibitFd[d]
      BY <2>2 DEF Enter
    <2> QED BY <1>5, <2>1, <2>2, FdRecorded
  <1> QED BY <1>1, <1>2, <1>3, <1>6, <1>7, <1>8 DEF Answered

(* BooksRight is inductive: a descriptor that is entered is new, and one that   *)
(* is closed leaves the book of the backend, unless it is filed under an empty  *)
(* name, and that of the screen saver with its cookie.                          *)
LEMMA InhibitedBooks == ASSUME BookInv, Inhibited PROVE BooksRight'
  <1>1. inhibit' = inhibit /\ Free' BY DEF Inhibited, screenSaver, Free
  <1>2. PICK fd \in Nat \ DOMAIN held, r \in Requests \cup Own : Answered(fd, r)
    BY AnswerFiled DEF BookInv
  <1>3. BackendBook'
    <2> SUFFICES ASSUME ~unnamed', NEW w \in DOMAIN mFds'
                 PROVE  mFds'[w] \in DOMAIN held' /\ held'[mFds'[w]].who = w
      BY DEF BackendBook
    <2>1. ~unnamed BY DEF Inhibited, history
    <2>2. \A v \in DOMAIN mFds : mFds[v] \in DOMAIN held /\ held[mFds[v]].who = v
      BY <2>1 DEF BookInv, BooksRight, BackendBook
    <2> QED BY <1>2, <2>2 DEF Answered
  <1>4. CookieBook'
    <2>1. CASE inhibitFd' = inhibitFd
      BY <1>1, <1>2, <2>1 DEF Answered, BookInv, BooksRight, CookieBook, Free, Inhibited
    <2>2. ASSUME NEW c \in DOMAIN inhibit, inhibit[c] = r,
                 DOMAIN inhibitFd' = DOMAIN inhibitFd \cup {c}, inhibitFd'[c] = fd,
                 \A d \in DOMAIN inhibitFd : d # c => inhibitFd'[d] = inhibitFd[d]
          PROVE  CookieBook'
      BY <1>1, <1>2, <2>2 DEF Answered, BookInv, BooksRight, CookieBook, Inhibited
    <2> QED BY <1>2, <2>1, <2>2 DEF Answered
  <1> QED BY <1>3, <1>4 DEF BooksRight

(* Uninhibit() takes the owner of the descriptor out of the backend's book: as  *)
(* long as that is right the descriptor has only one, and it is not empty.      *)
LEMMA ClosedBook == ASSUME BackendBook, NEW fd, Uninhibit(fd) PROVE BackendBook'
  <1>1. CASE connected /\ fd \in DOMAIN held
    <2> SUFFICES ASSUME ~unnamed', NEW w \in DOMAIN mFds'
                 PROVE  mFds'[w] \in DOMAIN held' /\ held'[mFds'[w]].who = w
      BY DEF BackendBook
    <2>1. handleUninhibited(fd) BY <1>1 DEF Uninhibit
    <2>2. ~unnamed /\ NoName \notin Owners(fd) BY <2>1 DEF handleUninhibited
    <2>3. w \in DOMAIN mFds /\ mFds'[w] = mFds[w] BY <2>1, OwnerForgotten
    <2>4. mFds[w] \in DOMAIN held /\ held[mFds[w]].who = w BY <2>2, <2>3 DEF BackendBook
    <2>5. mFds[w] # fd
      <3> SUFFICES ASSUME mFds[w] = fd PROVE FALSE OBVIOUS
      <3>1. w \in Owners(fd) BY <2>3 DEF Owners
      <3>2. PICK v \in Owners(fd) : DOMAIN mFds' = DOMAIN mFds \ {v}
        BY <2>1, <2>2, <3>1, OwnerForgotten
      <3>3. held[fd].who = v BY <2>2, <3>2 DEF Owners, BackendBook
      <3> QED BY <2>4, <3>2, <3>3
    <2> QED BY <2>3, <2>4, <2>5, <1>1, OneClosed
  <1>2. CASE ~ (connected /\ fd \in DOMAIN held) BY <1>2 DEF Uninhibit, BackendBook
  <1> QED BY <1>1, <1>2

LEMMA UnInhibitBooks ==
  ASSUME BookInv, NEW c \in 0 .. MaxCookies - 1, UnInhibit(c)
  PROVE  BooksRight'
  <1>1. CASE c \in DOMAIN inhibitFd
    <2>1. Uninhibit(inhibitFd[c]) BY <1>1 DEF UnInhibit
    <2>2. BackendBook' BY <2>1, ClosedBook DEF BookInv, BooksRight
    <2>3. /\ DOMAIN inhibit' = DOMAIN inhibit \ {c}
          /\ DOMAIN inhibitFd' = DOMAIN inhibitFd \ {c}
          /\ \A d \in DOMAIN inhibit : d # c => inhibit'[d] = inhibit[d]
          /\ \A d \in DOMAIN inhibitFd : d # c => inhibitFd'[d] = inhibitFd[d]
      <3>1. inhibit' = Without(inhibit, c) /\ inhibitFd' = Without(inhibitFd, c)
        BY <1>1 DEF UnInhibit
      <3> QED BY <3>1, Forgotten
    <2>4. /\ \A x \in DOMAIN held : x # inhibitFd[c] => x \in DOMAIN held'
          /\ \A x \in DOMAIN held' : held'[x] = held[x]
      BY <2>1, OneClosed
    <2>5. Free /\ DOMAIN inhibitFd \subseteq DOMAIN inhibit
      BY DEF UnInhibit, BookInv, NumbersInv, TypeOK
    <2>6. CookieBook'
      BY <1>1, <2>3, <2>4, <2>5 DEF BookInv, BooksRight, CookieBook
    <2> QED BY <2>2, <2>6 DEF BooksRight
  <1>2. CASE c \notin DOMAIN inhibitFd
    BY <1>2 DEF UnInhibit, BookInv, BooksRight, BackendBook, CookieBook, Free
  <1> QED BY <1>1, <1>2

LEMMA InhibitBooks ==
  ASSUME BookInv, NEW r \in Requests, Inhibit(r)
  PROVE  BooksRight'
  <1>1. inhibit' = Enter(inhibit, cookieSeed, r) BY DEF Inhibit
  <1>2. \A c \in DOMAIN inhibitFd : c \in DOMAIN inhibit /\ c # cookieSeed
    BY DEF BookInv, NumbersInv, TypeOK
  <1>3. \A c \in DOMAIN inhibitFd : inhibit'[c] = inhibit[c]
    BY <1>1, <1>2 DEF Enter
  <1> QED BY <1>3 DEF Inhibit, BookInv, BooksRight, BackendBook, CookieBook, Free

LEMMA LockedBooks == ASSUME BookInv, handleSessionLocked PROVE BooksRight'
  <1>1. CASE DOMAIN mFds = {}
    BY <1>1 DEF handleSessionLocked, screenSaver, BookInv, BooksRight, BackendBook,
                CookieBook, Free
  <1>2. CASE DOMAIN mFds # {}
    <2>1. PICK w \in DOMAIN mFds : Uninhibit(mFds[w]) BY <1>2 DEF handleSessionLocked
    <2>2. BackendBook' BY <2>1, ClosedBook DEF BookInv, BooksRight
    <2>3. ~Free' BY <1>2 DEF handleSessionLocked, Free
    <2> QED BY <2>2, <2>3 DEF BooksRight, CookieBook
  <1> QED BY <1>1, <1>2

(* The other actions leave descriptors and cookies alone. *)
Rest ==
  \/ UNCHANGED vars \/ _q_serviceRegistered \/ _q_serviceUnregistered \/ InhibitFails
  \/ handleSessionUnlocked \/ prepareForSleep \/ prepareForShutdown

LEMMA RestLeaves ==
  ASSUME Rest
  PROVE  UNCHANGED <<thread, held, mFds, screenSaver, history>>
  BY DEF Rest, vars, logind, screenSaver, history, world, _q_serviceRegistered,
         _q_serviceUnregistered, InhibitFails, handleSessionUnlocked, prepareForSleep,
         prepareForShutdown

LEMMA Steps ==
  ASSUME [Next]_vars
  PROVE  \/ Rest \/ Inhibited \/ handleSessionLocked
         \/ \E r \in Requests : Inhibit(r)
         \/ \E c \in 0 .. MaxCookies - 1 : UnInhibit(c)
  BY DEF Next, Replies, Rest

LEMMA BookInvKept == ASSUME BookInv, [Next]_vars PROVE BookInv'
  <1>1. NumbersInv' BY NumbersKept DEF BookInv
  <1>2. CASE Rest
    <2>1. UNCHANGED <<thread, held, mFds, screenSaver, history>> BY <1>2, RestLeaves
    <2>2. BackendBook' BY <2>1 DEF history, BookInv, BooksRight, BackendBook
    <2>3. CookieBook' BY <2>1 DEF screenSaver, BookInv, BooksRight, CookieBook, Free
    <2> QED BY <1>1, <2>2, <2>3 DEF BookInv, BooksRight
  <1>3. CASE ~Rest
    <2>1. ASSUME NEW r \in Requests, Inhibit(r) PROVE BooksRight' BY <2>1, InhibitBooks
    <2>2. ASSUME NEW c \in 0 .. MaxCookies - 1, UnInhibit(c) PROVE BooksRight'
      BY <2>2, UnInhibitBooks
    <2>3. BooksRight' BY <1>3, <2>1, <2>2, Steps, InhibitedBooks, LockedBooks
    <2> QED BY <1>1, <2>3 DEF BookInv
  <1> QED BY <1>2, <1>3

LEMMA BookInvAtStart == Init => BookInv
  <1> SUFFICES ASSUME Init PROVE BookInv OBVIOUS
  <1>1. DOMAIN Nothing = {} BY DEF Nothing
  <1>2. <<>> \in Seq(Requests \cup Own) OBVIOUS
  <1>3. NumbersInv
    <2>1. Range(held) = {} /\ Range(inhibit) = {} BY <1>1 DEF Init, Range
    <2>2. IsFiniteSet(DOMAIN held) BY <1>1, FS_EmptySet DEF Init
    <2>3. cookieSeed \in 0 .. MaxCookies BY InhibitorsAssumption DEF Init
    <2> QED BY <1>1, <1>2, <2>1, <2>2, <2>3 DEF Init, NumbersInv, TypeOK
  <1>4. BooksRight BY <1>1 DEF Init, BooksRight, BackendBook, CookieBook
  <1> QED BY <1>3, <1>4 DEF BookInv

(* What is in the books has the right type. *)
THEOREM InhibitorsTyped == Spec => []TypeOK
  <1>1. BookInv => TypeOK BY DEF BookInv, NumbersInv
  <1> QED BY <1>1, BookInvAtStart, BookInvKept, PTL DEF Spec

(* No descriptor is filed under two cookies, or under one it does not inhibit   *)
(* for, nor, until one is closed that is filed under an empty name, under two   *)
(* owners (logindbackend.cpp:131, 140; screensaver.cpp:126, 171).               *)
THEOREM BooksStayRight == Spec => []BooksRight
  <1>1. BookInv => BooksRight BY DEF BookInv
  <1> QED BY <1>1, BookInvAtStart, BookInvKept, PTL DEF Spec

--------------------------------------------------------------------------------
(* Leaks *)

(* None of the three races has happened. *)
NoRace == ~early /\ ~unheard /\ ~shared

(* The descriptor of the oldest call goes to the one cookie that waits for it. *)
LEMMA InhibitedLeaks == ASSUME InhibitorsInv, Inhibited PROVE LeakInv' /\ NoLeak'
  <1> SUFFICES ASSUME NoRace
               PROVE  (WaitingInv /\ NoneTwice /\ released \cap DOMAIN inhibit = {})'
                      /\ NoLeak'
    BY DEF Inhibited, history, NoRace, LeakInv, NoLeak
  <1>1. /\ inhibit' = inhibit /\ released' = released
        /\ WaitingInv /\ NoneTwice /\ released \cap DOMAIN inhibit = {}
    BY DEF Inhibited, history, screenSaver, NoRace, InhibitorsInv, LeakInv
  <1>2. PICK fd \in Nat \ DOMAIN held, r \in Requests \cup Own : Answered(fd, r)
    BY AnswerFiled DEF InhibitorsInv, BookInv
  <1>3. /\ 1 \in DOMAIN pending /\ pending[1] = r
        /\ \A i \in DOMAIN pending' :
             i \in Nat /\ i + 1 # 1 /\ i + 1 \in DOMAIN pending /\ pending'[i] = pending[i + 1]
    BY <1>2, Taken DEF Answered, InhibitorsInv, BookInv, NumbersInv, TypeOK
  <1>4. NoneTwice'
    <2> SUFFICES ASSUME NEW i \in DOMAIN pending', NEW j \in DOMAIN pending',
                        pending'[i] \in Requests, pending'[i] = pending'[j]
                 PROVE  i = j
      BY <1>1 DEF NoneTwice
    <2>1. i + 1 = j + 1 BY <1>1, <1>3 DEF NoneTwice
    <2> QED BY <1>3, <2>1
  <1>5. \A i \in DOMAIN pending' : pending'[i] \in Requests => pending'[i] # r
    BY <1>1, <1>3 DEF NoneTwice
  <1>6. CASE CookiesOf(r) = {} /\ inhibitFd' = inhibitFd
    <2>1. r \notin Requests
      <3> SUFFICES ASSUME r \in Requests PROVE FALSE OBVIOUS
      <3>1. PICK c \in DOMAIN inhibit : inhibit[c] = r BY <1>1, <1>3 DEF WaitingInv
      <3> QED BY <1>6, <3>1 DEF CookiesOf, Matches
    <2>2. WaitingInv' BY <1>1, <1>3, <1>6 DEF WaitingInv
    <2>3. NoLeak'
      BY <1>1, <1>2, <1>6, <2>1 DEF Answered, NoRace, InhibitorsInv, NoLeak
    <2> QED BY <1>1, <1>4, <2>2, <2>3
  <1>7. ASSUME NEW c \in DOMAIN inhibit, inhibit[c] = r,
               DOMAIN inhibitFd' = DOMAIN inhibitFd \cup {c}, inhibitFd'[c] = fd,
               \A d \in DOMAIN inhibitFd : d # c => inhibitFd'[d] = inhibitFd[d]
        PROVE  WaitingInv' /\ NoLeak'
    <2>1. r \in Requests BY <1>7 DEF InhibitorsInv, BookInv, NumbersInv, Range
    <2>2. c \notin DOMAIN inhibitFd
      <3>1. PICK d \in DOMAIN inhibit \ DOMAIN inhibitFd : inhibit[d] = r
        BY <1>1, <1>3, <2>1 DEF WaitingInv
      <3> QED BY <1>1, <1>7, <3>1 DEF NoneTwice
    <2>3. WaitingInv'
      <3> SUFFICES ASSUME NEW i \in DOMAIN pending', pending'[i] \in Requests
                   PROVE  \E d \in DOMAIN inhibit \ DOMAIN inhibitFd' : inhibit[d] = pending'[i]
        BY <1>1 DEF WaitingInv
      <3>1. PICK d \in DOMAIN inhibit \ DOMAIN inhibitFd : inhibit[d] = pending'[i]
        BY <1>1, <1>3 DEF WaitingInv
      <3>2. d # c BY <1>5, <1>7, <3>1
      <3> QED BY <1>7, <3>1, <3>2
    <2>4. ASSUME NEW x \in DOMAIN held', held'[x] \in Requests
          PROVE  \E d \in DOMAIN inhibitFd' : inhibitFd'[d] = x /\ d \notin released
      <3>1. CASE x = fd BY <1>1, <1>7, <3>1
      <3>2. CASE x # fd
        <4>1. x \in DOMAIN held /\ held[x] \in Requests BY <1>2, <2>4, <3>2 DEF Answered
        <4>2. PICK d \in DOMAIN inhibitFd : inhibitFd[d] = x /\ d \notin released
          BY <4>1 DEF NoRace, InhibitorsInv, NoLeak
        <4> QED BY <1>7, <2>2, <4>2
      <3> QED BY <3>1, <3>2
    <2>5. NoLeak' BY <1>1, <2>4 DEF NoLeak
    <2> QED BY <2>3, <2>5
  <1> QED BY <1>1, <1>2, <1>4, <1>6, <1>7 DEF Answered

(* A new call waits for its own cookie, which nobody had before. *)
LEMMA InhibitLeaks ==
  ASSUME InhibitorsInv, NEW r \in Requests, Inhibit(r)
  PROVE  LeakInv' /\ NoLeak'
  <1> SUFFICES ASSUME NoRace'
               PROVE  (WaitingInv /\ NoneTwice /\ released \cap DOMAIN inhibit = {})'
                      /\ NoLeak'
    BY DEF NoRace, LeakInv, NoLeak
  <1>1. /\ NoRace /\ connected /\ \A c \in DOMAIN inhibit : inhibit[c] # r
        /\ Free /\ UNCHANGED <<released, held, inhibitFd>>
    BY DEF Inhibit, NoRace
  <1>2. WaitingInv /\ NoneTwice /\ released \cap DOMAIN inhibit = {}
    BY <1>1 DEF NoRace, InhibitorsInv, LeakInv
  <1>3. /\ cookieSeed \notin DOMAIN inhibit /\ cookieSeed \notin DOMAIN inhibitFd
        /\ cookieSeed \notin released /\ DOMAIN inhibitFd \subseteq DOMAIN inhibit
    BY DEF InhibitorsInv, BookInv, NumbersInv, TypeOK
  <1>4. /\ DOMAIN inhibit' = DOMAIN inhibit \cup {cookieSeed} /\ inhibit'[cookieSeed] = r
        /\ \A c \in DOMAIN inhibit : inhibit'[c] = inhibit[c]
    BY <1>3 DEF Inhibit, Enter
  <1>5. \A i \in DOMAIN pending : pending[i] # r
    BY <1>1, <1>2 DEF WaitingInv
  <1>6. /\ DOMAIN pending' = DOMAIN pending \cup {Len(pending) + 1}
        /\ Len(pending) + 1 \notin DOMAIN pending
        /\ pending'[Len(pending) + 1] = r
        /\ \A i \in DOMAIN pending : pending'[i] = pending[i]
    <2>1. pending \in Seq(Requests \cup Own) /\ pending' = pending \o <<r>>
      BY <1>1 DEF Inhibit, Ask, InhibitorsInv, BookInv, NumbersInv, TypeOK
    <2> QED BY <2>1
  <1>7. WaitingInv' BY <1>1, <1>2, <1>3, <1>4, <1>6 DEF WaitingInv
  <1>8. NoneTwice' BY <1>1, <1>2, <1>4, <1>5, <1>6 DEF NoneTwice
  <1>9. NoLeak' BY <1>1 DEF NoRace, InhibitorsInv, NoLeak
  <1> QED BY <1>1, <1>2, <1>3, <1>4, <1>7, <1>8, <1>9

(* With a connection a cookie takes its descriptor with it. *)
LEMMA UnInhibitLeaks ==
  ASSUME InhibitorsInv, NEW c \in 0 .. MaxCookies - 1, UnInhibit(c)
  PROVE  LeakInv' /\ NoLeak'
  <1> SUFFICES ASSUME NoRace'
               PROVE  (WaitingInv /\ NoneTwice /\ released \cap DOMAIN inhibit = {})'
                      /\ NoLeak'
    BY DEF NoRace, LeakInv, NoLeak
  <1>1. /\ NoRace /\ connected /\ Free /\ released' = released \cup {c}
        /\ pending' = pending
        /\ ~ (c \in DOMAIN inhibit /\ c \notin DOMAIN inhibitFd)
    BY DEF UnInhibit, NoRace
  <1>2. WaitingInv /\ NoneTwice /\ released \cap DOMAIN inhibit = {}
    BY <1>1 DEF NoRace, InhibitorsInv, LeakInv
  <1>3. DOMAIN inhibitFd \subseteq DOMAIN inhibit
    BY DEF InhibitorsInv, BookInv, NumbersInv, TypeOK
  <1>4. CASE c \notin DOMAIN inhibitFd
    <2>1. UNCHANGED <<held, inhibit, inhibitFd>> BY <1>4 DEF UnInhibit
    <2> QED
      BY <1>1, <1>2, <1>4, <2>1
      DEF WaitingInv, NoneTwice, NoRace, InhibitorsInv, NoLeak
  <1>5. CASE c \in DOMAIN inhibitFd
    <2>1. Uninhibit(inhibitFd[c]) BY <1>5 DEF UnInhibit
    <2>2. /\ DOMAIN inhibit' = DOMAIN inhibit \ {c}
          /\ DOMAIN inhibitFd' = DOMAIN inhibitFd \ {c}
          /\ \A d \in DOMAIN inhibit : d # c => inhibit'[d] = inhibit[d]
          /\ \A d \in DOMAIN inhibitFd : d # c => inhibitFd'[d] = inhibitFd[d]
      <3>1. inhibit' = Without(inhibit, c) /\ inhibitFd' = Without(inhibitFd, c)
        BY <1>5 DEF UnInhibit
      <3> QED BY <3>1, Forgotten
    <2>3. /\ DOMAIN held' \subseteq DOMAIN held /\ inhibitFd[c] \notin DOMAIN held'
          /\ \A x \in DOMAIN held' : held'[x] = held[x]
      BY <1>1, <2>1, OneClosed
    <2>4. WaitingInv' BY <1>1, <1>2, <1>5, <2>2 DEF WaitingInv
    <2>5. NoneTwice' BY <1>1, <1>2, <2>2 DEF NoneTwice
    <2>6. ASSUME NEW x \in DOMAIN held', held'[x] \in Requests
          PROVE  \E d \in DOMAIN inhibitFd' : inhibitFd'[d] = x /\ d \notin released'
      <3>1. x \in DOMAIN held /\ held[x] \in Requests BY <2>3, <2>6
      <3>2. PICK d \in DOMAIN inhibitFd : inhibitFd[d] = x /\ d \notin released
        BY <1>1, <3>1 DEF NoRace, InhibitorsInv, NoLeak
      <3>3. d # c BY <2>3, <3>2
      <3> QED BY <1>1, <2>2, <3>2, <3>3
    <2>7. NoLeak' BY <2>6 DEF NoLeak
    <2> QED BY <1>1, <1>2, <2>2, <2>4, <2>5, <2>7
  <1> QED BY <1>4, <1>5

(* The lock of the session closes descriptors and enters none. *)
LEMMA LockedLeaks == ASSUME InhibitorsInv, handleSessionLocked PROVE LeakInv' /\ NoLeak'
  <1>1. UNCHANGED <<pending, inhibit, inhibitFd, released, early, unheard, shared>>
    BY DEF handleSessionLocked, screenSaver, history
  <1>2. DOMAIN held' \subseteq DOMAIN held /\ \A x \in DOMAIN held' : held'[x] = held[x]
    <2>1. CASE DOMAIN mFds = {} BY <2>1 DEF handleSessionLocked
    <2>2. CASE DOMAIN mFds # {}
      <3>1. PICK w \in DOMAIN mFds : Uninhibit(mFds[w]) BY <2>2 DEF handleSessionLocked
      <3> QED BY <3>1, OneClosed
    <2> QED BY <2>1, <2>2
  <1>3. NoLeak' BY <1>1, <1>2 DEF InhibitorsInv, NoLeak
  <1>4. Free BY DEF handleSessionLocked
  <1>5. LeakInv'
    BY <1>1, <1>4 DEF InhibitorsInv, LeakInv, WaitingInv, NoneTwice
  <1> QED BY <1>3, <1>5

(* The other actions only take calls of clients out of the queue. *)
LEMMA RestLeaks == ASSUME InhibitorsInv, Rest PROVE LeakInv' /\ NoLeak'
  <1>1. UNCHANGED <<thread, held, inhibit, inhibitFd, released, early, unheard, shared>>
    BY RestLeaves DEF screenSaver, history
  <1>2. NoLeak' BY <1>1 DEF InhibitorsInv, NoLeak
  <1>3. pending \in Seq(Requests \cup Own) BY DEF InhibitorsInv, BookInv, NumbersInv, TypeOK
  <1>4. CASE pending' = pending
    BY <1>1, <1>2, <1>4 DEF InhibitorsInv, LeakInv, WaitingInv, NoneTwice, Free
  <1>5. CASE InhibitFails
    <2>1. \A i \in DOMAIN pending' :
            i \in Nat /\ i + 1 \in DOMAIN pending /\ pending'[i] = pending[i + 1]
      BY <1>3, <1>5, Taken DEF InhibitFails
    <2>2. WaitingInv => WaitingInv' BY <1>1, <2>1 DEF WaitingInv
    <2>3. NoneTwice => NoneTwice'
      <3> SUFFICES ASSUME NoneTwice,
                          NEW i \in DOMAIN pending', NEW j \in DOMAIN pending',
                          pending'[i] \in Requests, pending'[i] = pending'[j]
                   PROVE  i = j
        BY <1>1 DEF NoneTwice
      <3>1. i + 1 = j + 1 BY <2>1 DEF NoneTwice
      <3> QED BY <2>1, <3>1
    <2> QED BY <1>1, <1>2, <2>2, <2>3 DEF InhibitorsInv, LeakInv, Free
  <1>6. CASE handleSessionUnlocked /\ pending' = pending \o OwnRequests
    <2>1. OwnRequests \in Seq(Requests \cup Own) /\ OwnRequests \in Seq(Own)
      BY OwnRequestsAreOwn
    <2>2. \A i \in DOMAIN pending' :
            pending'[i] \in Requests => i \in DOMAIN pending /\ pending'[i] = pending[i]
      <3> SUFFICES ASSUME NEW i \in DOMAIN pending', pending'[i] \in Requests,
                          i \notin DOMAIN pending
                   PROVE  FALSE
        BY <1>3, <1>6, <2>1, Queued
      <3>1. i - Len(pending) \in DOMAIN OwnRequests
            /\ pending'[i] = OwnRequests[i - Len(pending)]
        BY <1>3, <1>6, <2>1, Queued
      <3>2. pending'[i] \in Own BY <2>1, <3>1
      <3> QED BY <3>2, OwnIsNobodyElses
    <2>3. WaitingInv => WaitingInv' BY <1>1, <2>2 DEF WaitingInv
    <2>4. NoneTwice => NoneTwice' BY <1>1, <2>2 DEF NoneTwice
    <2> QED BY <1>1, <1>2, <2>3, <2>4 DEF InhibitorsInv, LeakInv, Free
  <1>7. \/ pending' = pending \/ InhibitFails
        \/ handleSessionUnlocked /\ pending' = pending \o OwnRequests
    BY DEF Rest, vars, logind, _q_serviceRegistered, _q_serviceUnregistered,
           handleSessionUnlocked, Ask, prepareForSleep, prepareForShutdown
  <1> QED BY <1>2, <1>4, <1>5, <1>6, <1>7

LEMMA InhibitorsInvKept == ASSUME InhibitorsInv, [Next]_vars PROVE InhibitorsInv'
  <1>1. BookInv' BY BookInvKept DEF InhibitorsInv
  <1>2. ASSUME NEW r \in Requests, Inhibit(r) PROVE LeakInv' /\ NoLeak'
    BY <1>2, InhibitLeaks
  <1>3. ASSUME NEW c \in 0 .. MaxCookies - 1, UnInhibit(c) PROVE LeakInv' /\ NoLeak'
    BY <1>3, UnInhibitLeaks
  <1>4. LeakInv' /\ NoLeak'
    BY <1>2, <1>3, Steps, RestLeaks, InhibitedLeaks, LockedLeaks
  <1> QED BY <1>1, <1>4 DEF InhibitorsInv

LEMMA InhibitorsInvAtStart == Init => InhibitorsInv
  <1> SUFFICES ASSUME Init PROVE InhibitorsInv OBVIOUS
  <1>1. DOMAIN Nothing = {} BY DEF Nothing
  <1>2. BookInv BY BookInvAtStart
  <1>3. LeakInv BY <1>1 DEF Init, LeakInv, WaitingInv, NoneTwice
  <1>4. NoLeak BY <1>1 DEF Init, NoLeak
  <1> QED BY <1>2, <1>3, <1>4 DEF InhibitorsInv

(* No lock outlives the release of its cookie unless one of the three races has *)
(* happened (screensaver.cpp:126, 171).                                         *)
THEOREM NothingLeaks == Spec => []NoLeak
  <1>1. InhibitorsInv => NoLeak BY DEF InhibitorsInv
  <1> QED BY <1>1, InhibitorsInvAtStart, InhibitorsInvKept, PTL DEF Spec

(* A step that keeps the thread free closes only the descriptor of the cookie   *)
(* UnInhibit() is given.                                                        *)
LEMMA KeptByStep ==
  ASSUME BookInv, [Next]_vars
  PROVE  [\A c \in DOMAIN inhibitFd :
            Free' /\ c \notin released' =>
              inhibitFd[c] \in DOMAIN held' /\ held'[inhibitFd[c]] = inhibit[c]]_vars
  <1> SUFFICES ASSUME NEW c \in DOMAIN inhibitFd, Free', c \notin released', ~ UNCHANGED vars
               PROVE  inhibitFd[c] \in DOMAIN held' /\ held'[inhibitFd[c]] = inhibit[c]
    OBVIOUS
  <1>1. Free
    BY DEF Next, Replies, _q_serviceRegistered, _q_serviceUnregistered, Inhibited,
           InhibitFails, Inhibit, UnInhibit, handleSessionLocked, handleSessionUnlocked,
           prepareForSleep, prepareForShutdown
  <1>2. /\ inhibitFd[c] \in DOMAIN held /\ held[inhibitFd[c]] = inhibit[c]
        /\ \A d \in DOMAIN inhibitFd : inhibitFd[c] = inhibitFd[d] => c = d
    BY <1>1 DEF BookInv, BooksRight, CookieBook
  <1>3. CASE Rest BY <1>2, <1>3, RestLeaves
  <1>4. CASE Inhibited BY <1>2, <1>4, AnswerFiled DEF Answered, BookInv
  <1>5. CASE handleSessionLocked
    <2>1. held' = held BY <1>5 DEF handleSessionLocked, Free
    <2> QED BY <1>2, <2>1
  <1>6. CASE \E r \in Requests : Inhibit(r) BY <1>2, <1>6 DEF Inhibit
  <1>7. ASSUME NEW d \in 0 .. MaxCookies - 1, UnInhibit(d)
        PROVE  inhibitFd[c] \in DOMAIN held' /\ held'[inhibitFd[c]] = inhibit[c]
    <2>1. c # d BY <1>7 DEF UnInhibit
    <2>2. CASE d \in DOMAIN inhibitFd
      <3>1. Uninhibit(inhibitFd[d]) /\ inhibitFd[c] # inhibitFd[d]
        BY <1>2, <1>7, <2>1, <2>2 DEF UnInhibit
      <3> QED BY <1>2, <3>1, OneClosed
    <2>3. CASE d \notin DOMAIN inhibitFd BY <1>2, <1>7, <2>3 DEF UnInhibit
    <2> QED BY <2>2, <2>3
  <1> QED BY <1>3, <1>4, <1>5, <1>6, <1>7, Steps

(* Only its own UnInhibit(), or the lock of the session, closes the descriptor  *)
(* of a cookie (logind.cpp:702, screensaver.cpp:126).                           *)
THEOREM LocksAreKept == Spec => KeptUntilReleased
  <1> QED BY BookInvAtStart, BookInvKept, KeptByStep, PTL DEF Spec, KeptUntilReleased
================================================================================
