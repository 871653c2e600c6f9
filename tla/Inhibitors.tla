------------------------------- MODULE Inhibitors ------------------------------
(* The inhibitor locks of logind, held through three objects that each keep    *)
(* their own books: Logind (backends/logind/logind.cpp) the descriptors,       *)
(* LogindBackend (backends/logindbackend.cpp) one descriptor per owner, and    *)
(* ScreenSaver (dbus/screensaver.cpp) one per cookie it gave to a client.      *)
(*                                                                             *)
(* A lock is asked for with an asynchronous call.  Until the reply comes its   *)
(* client may already have released it, logind may have gone away, and another *)
(* client may have asked for the same.                                         *)
EXTENDS Integers, FiniteSets, Sequences, FiniteSetsExt, Functions

CONSTANTS
  Requests,     \* what clients of org.freedesktop.ScreenSaver ask: [who, why]
  MaxCookies,   \* bound: calls of Inhibit()
  MaxUnlocks,   \* bound: Unlock signals of logind
  MaxRestarts   \* bound: times logind goes away

Own == [who : {"Liri/PowerButton", "Liri/Sleep", "Liri/Lid"}, why : {"own"}]

ASSUME InhibitorsAssumption ==
  /\ \A r \in Requests : DOMAIN r = {"who", "why"}
  /\ Requests \cap Own = {}
  /\ {MaxCookies, MaxUnlocks, MaxRestarts} \subseteq Nat

VARIABLES
  thread,       \* the main thread: "free", "looping" in handleSessionLocked()
                \* or "crashed" there
  connected,    \* LogindPrivate::isConnected
  pending,      \* Inhibit calls logind has not answered, oldest first
  held,         \* inhibitFds: what each open descriptor inhibits
  mFds,         \* LogindBackend::m_fds: owner -> descriptor
  cookieSeed,   \* ScreenSaver: the next cookie
  inhibit,      \* ScreenSaver::m_inhibit: cookie -> request
  inhibitFd,    \* ScreenSaver::m_inhibitFd: cookie -> descriptor
  active,       \* ScreenSaver::m_active
  locked,       \* logind has sent Lock and not Unlock since
  unlocks,      \* Unlock signals so far
  restarts,     \* disconnections so far
  powerOff,     \* logind has announced the shutdown of the system
  sessionEnds,  \* Session::shutdown() has been called for it
  released,     \* history: cookies given to UnInhibit()
  early,        \* history: one was released before its reply
  unheard,      \* history: one was asked for or released without a connection
  shared,       \* history: two live cookies had the same request
  unnamed       \* history: a descriptor was closed that is filed under no name

logind == <<connected, pending, held>>
screenSaver == <<cookieSeed, inhibit, inhibitFd>>
world == <<locked, unlocks, restarts, powerOff>>
history == <<released, early, unheard, shared, unnamed>>
vars == <<thread, logind, mFds, screenSaver, active, world, sessionEnds, history>>

Nothing == [x \in {} |-> 0]
Enter(f, d, e) == [x \in DOMAIN f \cup {d} |-> IF x = d THEN e ELSE f[x]]

Init ==
  /\ thread = "free"
  /\ connected = FALSE /\ pending = <<>> /\ held = Nothing /\ mFds = Nothing
  /\ cookieSeed = 0 /\ inhibit = Nothing /\ inhibitFd = Nothing
  /\ active = FALSE /\ locked = FALSE
  /\ unlocks = 0 /\ restarts = 0 /\ powerOff = FALSE /\ sessionEnds = FALSE
  /\ released = {} /\ early = FALSE /\ unheard = FALSE /\ shared = FALSE
  /\ unnamed = FALSE

Free == thread = "free"

(* The slots outside the backend that each of its signals is connected to. *)
Slots ==
  [sessionLocked |-> {"ScreenSaver::handleLock", "SessionManager::Locked"},
   sessionUnlocked |-> {"ScreenSaver::handleUnlock", "SessionManager::Unlocked"},
   inhibited |-> {"ScreenSaver::handleInhibited"},
   shutdownRequested |-> {}]

--------------------------------------------------------------------------------
(* Logind *)

(* Logind::inhibit() for each of a sequence of requests. *)
Ask(requests) ==
  pending' = IF connected THEN pending \o requests ELSE pending

(* setupInhibitors(): LogindBackend's constructor calls it too, but then the   *)
(* service check is still under way, nothing is connected and it asks nothing. *)
OwnRequests ==
  << [who |-> "Liri/PowerButton", why |-> "own"],
     [who |-> "Liri/Sleep", why |-> "own"],
     [who |-> "Liri/Lid", why |-> "own"] >>

_q_serviceRegistered ==
  /\ Free /\ ~connected
  /\ connected' = TRUE
  /\ UNCHANGED <<thread, pending, held, mFds, screenSaver, active, world,
                 sessionEnds, history>>

_q_serviceUnregistered ==
  /\ Free /\ connected /\ restarts < MaxRestarts
  /\ connected' = FALSE /\ restarts' = restarts + 1
  /\ UNCHANGED <<thread, pending, held, mFds, screenSaver, active, locked,
                 unlocks, powerOff, sessionEnds, history>>

(* Mutant: only the owner is compared. *)
SameOwner(request, other) == request.who = other.who
Matches(request, other) == request = other

(* ScreenSaver::handleInhibited(): the first cookie with this request. *)
CookiesOf(request) == {c \in DOMAIN inhibit : Matches(inhibit[c], request)}
(* Mutant: filed under the seed, which Inhibit() has already advanced. *)
RecordUnderSeed(request, fd) == inhibitFd' = Enter(inhibitFd, cookieSeed, fd)
RecordFd(request, fd) ==
  inhibitFd' = IF CookiesOf(request) = {} THEN inhibitFd
                 ELSE Enter(inhibitFd, Min(CookiesOf(request)), fd)

(* The answer comes with a descriptor, which is dup()ed to the lowest free one. *)
FreeFd == Min({n \in 1 .. Cardinality(DOMAIN held) + 1 : n \notin DOMAIN held})
Inhibited ==
  /\ Free /\ pending # <<>>
  /\ pending' = Tail(pending)
  /\ held' = Enter(held, FreeFd, Head(pending))
  /\ mFds' = Enter(mFds, Head(pending).who, FreeFd)
  /\ RecordFd(Head(pending), FreeFd)
  /\ UNCHANGED <<thread, connected, cookieSeed, inhibit, active, world,
                 sessionEnds, history>>

InhibitFails ==
  /\ Free /\ pending # <<>>
  /\ pending' = Tail(pending)
  /\ UNCHANGED <<thread, connected, held, mFds, screenSaver, active, world,
                 sessionEnds, history>>

(* Mutants: the owner's entry stays; the descriptor stays open. *)
KeepsEntry(fd) == UNCHANGED <<mFds, unnamed>>
KeepsFd(fd) == UNCHANGED <<held, mFds, unnamed>>

Without(f, x) == Restrict(f, DOMAIN f \ {x})

(* LogindBackend::handleUninhibited(): QMap::key() returns the first owner of   *)
(* the descriptor, and an empty string when there is none.  As an owner may be  *)
(* empty too, and comes first then, nothing is removed in either case.          *)
NoName == ""
Owners(fd) == {w \in DOMAIN mFds : mFds[w] = fd}
handleUninhibited(fd) ==
  /\ IF Owners(fd) = {} \/ NoName \in Owners(fd)
       THEN UNCHANGED mFds
       ELSE \E w \in Owners(fd) : mFds' = Without(mFds, w)
  /\ unnamed' = (unnamed \/ NoName \in Owners(fd))

(* Logind::uninhibit() *)
Uninhibit(fd) ==
  IF connected /\ fd \in DOMAIN held
    THEN held' = Without(held, fd) /\ handleUninhibited(fd)
    ELSE UNCHANGED <<held, mFds, unnamed>>

--------------------------------------------------------------------------------
(* ScreenSaver *)

Inhibit(request) ==
  /\ Free /\ cookieSeed < MaxCookies
  /\ cookieSeed' = cookieSeed + 1
  /\ inhibit' = Enter(inhibit, cookieSeed, request)
  /\ Ask(<<request>>)
  /\ shared' = (shared \/ \E c \in DOMAIN inhibit : inhibit[c] = request)
  /\ unheard' = (unheard \/ ~connected)
  /\ UNCHANGED <<thread, connected, held, mFds, inhibitFd, active, world,
                 sessionEnds, released, early, unnamed>>

(* Without a descriptor nothing is done, whether the cookie is unknown or only *)
(* not answered yet; with one the cookie is forgotten even if nothing is closed.*)
UnInhibit(c) ==
  /\ Free /\ c < cookieSeed
  /\ IF c \in DOMAIN inhibitFd
       THEN /\ Uninhibit(inhibitFd[c])
            /\ inhibit' = Without(inhibit, c)
            /\ inhibitFd' = Without(inhibitFd, c)
       ELSE UNCHANGED <<held, mFds, unnamed, inhibit, inhibitFd>>
  /\ released' = released \cup {c}
  /\ early' = (early \/ (c \in DOMAIN inhibit /\ c \notin DOMAIN inhibitFd))
  /\ unheard' = (unheard \/ ~connected)
  /\ UNCHANGED <<thread, connected, pending, cookieSeed, active, world,
                 sessionEnds, shared>>

--------------------------------------------------------------------------------
(* LogindBackend *)

Locks == active' = (active \/ "ScreenSaver::handleLock" \in Slots.sessionLocked)

(* The loop of handleSessionLocked() never advances its iterator: with nothing *)
(* to release it ends at once; otherwise it goes on releasing the first entry.  *)
(* If that removes the entry the iterator, now of nothing, never reaches the    *)
(* end: the loop goes on for ever or the program crashes.                       *)
handleSessionLocked ==
  /\ Free /\ connected
  /\ locked' = TRUE
  /\ IF DOMAIN mFds = {}
       THEN Locks /\ UNCHANGED <<thread, held, mFds, unnamed>>
       ELSE /\ \E w \in DOMAIN mFds :
                 (NoName \in DOMAIN mFds => w = NoName) /\ Uninhibit(mFds[w])
            /\ thread' \in {"looping"} \cup IF mFds' # mFds THEN {"crashed"} ELSE {}
            /\ UNCHANGED active
  /\ UNCHANGED <<connected, pending, screenSaver, unlocks, restarts, powerOff,
                 sessionEnds, released, early, unheard, shared>>

handleSessionUnlocked ==
  /\ Free /\ connected /\ unlocks < MaxUnlocks
  /\ locked' = FALSE /\ unlocks' = unlocks + 1
  /\ Ask(OwnRequests)
  /\ active' = FALSE
  /\ UNCHANGED <<thread, connected, held, mFds, screenSaver, restarts, powerOff,
                 sessionEnds, history>>

(* prepareForSleep(true) locks the screen and keeps the delay lock. *)
prepareForSleep ==
  /\ Free /\ connected /\ Locks
  /\ UNCHANGED <<thread, logind, mFds, screenSaver, world, sessionEnds, history>>

prepareForShutdown ==
  /\ Free /\ connected /\ ~powerOff
  /\ powerOff' = TRUE
  /\ sessionEnds' = ("Session::shutdown" \in Slots.shutdownRequested)
  /\ UNCHANGED <<thread, logind, mFds, screenSaver, active, locked, unlocks,
                 restarts, history>>

Replies == Inhibited \/ InhibitFails

Next ==
  \/ _q_serviceRegistered \/ _q_serviceUnregistered
  \/ Replies
  \/ \E r \in Requests : Inhibit(r)
  \/ \E c \in 0 .. MaxCookies - 1 : UnInhibit(c)
  \/ handleSessionLocked \/ handleSessionUnlocked
  \/ prepareForSleep \/ prepareForShutdown

(* Every call is answered in the end; nothing else has to happen. *)
Spec == Init /\ [][Next]_vars /\ WF_vars(Replies)

--------------------------------------------------------------------------------
(* Properties *)

TypeOK ==
  /\ thread \in {"free", "looping", "crashed"}
  /\ pending \in Seq(Requests \cup Own)
  /\ DOMAIN held \subseteq Nat /\ Range(held) \subseteq Requests \cup Own
  /\ DOMAIN mFds \subseteq {r.who : r \in Requests \cup Own}
  /\ cookieSeed \in 0 .. MaxCookies
  /\ DOMAIN inhibitFd \subseteq DOMAIN inhibit
  /\ DOMAIN inhibit \subseteq 0 .. cookieSeed - 1
  /\ {connected, active, locked, powerOff, sessionEnds, unnamed} \subseteq BOOLEAN

(* LogindBackend: every descriptor in the book is open and inhibits for the    *)
(* owner it is filed under; until one is closed that is filed under an empty    *)
(* name, whose entry stays (line 143) and hides later ones of the same number.  *)
BackendBook ==
  ~unnamed =>
    \A w \in DOMAIN mFds : mFds[w] \in DOMAIN held /\ held[mFds[w]].who = w

(* ScreenSaver: a cookie stands for an open descriptor that inhibits what its  *)
(* client asked for, and for nobody else's.                                    *)
CookieBook ==
  Free =>
    /\ \A c \in DOMAIN inhibitFd :
         inhibitFd[c] \in DOMAIN held /\ held[inhibitFd[c]] = inhibit[c]
    /\ \A c, d \in DOMAIN inhibitFd : inhibitFd[c] = inhibitFd[d] => c = d

(* Both books are right, whatever numbers were reused and whatever answers got *)
(* lost or came late, so that UnInhibit() never closes what belongs to somebody *)
(* else; that of the screen saver even after the other has gone wrong.          *)
BooksRight == BackendBook /\ CookieBook

(* No client's lock outlives its release, except for the three races: released *)
(* before logind answered, without a connection, or asked for twice.           *)
NoLeak ==
  ~early /\ ~unheard /\ ~shared =>
    \A fd \in DOMAIN held :
      held[fd] \in Requests =>
        \E c \in DOMAIN inhibitFd : inhibitFd[c] = fd /\ c \notin released

(* A client that asked and did not release keeps its lock: only its own        *)
(* UnInhibit(), or the lock of the session, closes it.                         *)
KeptUntilReleased ==
  [][\A c \in DOMAIN inhibitFd :
       Free' /\ c \notin released' =>
         inhibitFd[c] \in DOMAIN held' /\ held'[inhibitFd[c]] = inhibit[c]]_vars

(* logindbackend.cpp:163: "Uninhibit everything when the session is locked";   *)
(* after that the screen saver is active.                                      *)
LockReleasesAll == locked ~> (~locked \/ (Free /\ active))

(* logindbackend.cpp:172: "Inhibit again when the session is unlocked": it was *)
(* inhibited before, so the locks are asked for once logind is there.          *)
OwnAsked ==
  \/ \E i \in DOMAIN pending : pending[i] \in Own
  \/ \E fd \in DOMAIN held : held[fd] \in Own
InhibitsFromTheStart == connected ~> (OwnAsked \/ ~connected \/ locked)
================================================================================
