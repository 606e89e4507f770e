--------------------------- MODULE ServerTimeouts ---------------------------
(***************************************************************************)
(* What VNCServerST does by the wall clock: it closes idle clients, ends   *)
(* the process by MaxDisconnectionTime, MaxConnectionTime or MaxIdleTime   *)
(* and black-lists hosts, in the event loop of the Windows server: a       *)
(* SocketManager that checks its timeouts, then waits until the soonest of *)
(* them or an event.                                                       *)
(*                                                                         *)
(* now is what time(0) returns, and is set forwards and backwards; real    *)
(* is the time that really passes, which only the wait follows.            *)
(***************************************************************************)
EXTENDS Blacklist, FiniteSets

CONSTANTS
  Client,       \* connections, which come and go
  Host, Peer,   \* the hosts, and each connection's peer address
  Settings,     \* the parameters the server may run with; 0 disables a timeout,
                \* and listening says whether a listening socket is registered
  MinAuth,      \* 15: the least idle timeout while authenticating
  Late,         \* 60: a timeout this late means that the clock was set forwards
  Start,        \* the wall clock when the server starts
  MaxWait,      \* INT_MAX / 1000: the longest wait, as milliseconds are an int
  Leaps,        \* by how much the clock is set
  MaxLeaps, MaxReal, MaxAttempts   \* bounds

ASSUME TimeoutsAssumption ==
  /\ Peer \in [Client -> Host]
  /\ MinAuth \in Nat \ {0} /\ Late \in Nat /\ Start \in Nat \ {0}
  /\ MaxWait \in Nat \ {0}
  /\ Leaps \subseteq Int
  /\ MaxLeaps \in Nat /\ MaxReal \in Nat /\ MaxAttempts \in Nat
  /\ Settings \subseteq [idle : Nat, maxDisconnection : Nat, maxConnection : Nat,
                         maxIdle : Nat, threshold : Nat, initialTimeout : 0..(Modulus - 1),
                         listening : BOOLEAN]

Forever == -1     \* no timeout
NoTime == 0       \* lastConnectionTime before the first connection
NoEntry == [marks |-> 0, blockUntil |-> 0, blockTimeout |-> 0]

VARIABLES
  param,           \* the parameters
  now,             \* time(0)
  loop,            \* about to check the timeouts, waiting, or exited
  wake,            \* the real time at which the wait ends
  state,           \* of a connection; "absent" is not in VNCServerST::clients
  lastEvent, lastDisconnect, lastConnection, lastInput,
  blm,             \* the blacklist; NoEntry for a host that is not in it
  \* History variables.
  real,            \* real time since the server started
  leaps, leapt,    \* how often the clock was set, and whether ever forwards
  heard,           \* the real time of a client's last event
  closedAt,        \* and of the last disconnection of an authenticated client
  arrivedAt,       \* and when the first client arrived
  usedAt,          \* and of the last user input
  attempts,        \* all the connections a host attempted
  tries, triedAt   \* those let in since it last authenticated; when the last was

clientVars  == <<state, lastEvent, heard>>
serverVars  == <<lastDisconnect, lastConnection, lastInput, closedAt, arrivedAt, usedAt>>
blackVars   == <<blm, attempts, tries, triedAt>>
clockVars   == <<now, real, leaps, leapt>>
vars == <<param, loop, wake, clientVars, serverVars, blackVars, clockVars>>

Listed(s) == {c \in Client : s[c] # "absent"}
Authenticated(c) == state[c] \in {"initialising", "normal"}

TypeOK ==
  /\ param \in Settings
  /\ now \in Nat \ {0} /\ real \in Nat /\ wake \in Nat \cup {Forever}
  /\ loop \in {"check", "wait", "exited"}
  /\ state \in [Client -> {"absent", "security", "query", "initialising", "normal", "closing"}]
  /\ lastEvent \in [Client -> Nat] /\ heard \in [Client -> Nat]
  /\ {lastDisconnect, lastConnection, lastInput, closedAt, arrivedAt, usedAt, leaps} \subseteq Nat
  /\ leapt \in BOOLEAN
  /\ blm \in [Host -> Entry]
  /\ attempts \in [Host -> Nat] /\ tries \in [Host -> Nat] /\ triedAt \in [Host -> Nat]

Init ==
  /\ param \in Settings
  /\ now = Start /\ real = 0 /\ leaps = 0 /\ leapt = FALSE
  /\ loop = "check" /\ wake = Forever
  /\ state = [c \in Client |-> "absent"]
  /\ lastEvent = [c \in Client |-> 0] /\ heard = [c \in Client |-> 0]
  /\ lastDisconnect = now /\ lastInput = now /\ lastConnection = NoTime
  /\ closedAt = 0 /\ arrivedAt = 0 /\ usedAt = 0
  /\ blm = [h \in Host |-> NoEntry]
  /\ attempts = [h \in Host |-> 0] /\ tries = [h \in Host |-> 0]
  /\ triedAt = [h \in Host |-> 0]

-----------------------------------------------------------------------------
(* One timeout: a time of the future, or one that was due more than Late   *)
(* ago, means that the clock was set, and the timeout starts again.        *)

\* Mutant: only a clock that was set forwards is noticed.
ResetForwardsOnly(last, limit) == IF last + limit - now < -Late THEN now ELSE last

Reset(last, limit) == IF now < last \/ last + limit - now < -Late THEN now ELSE last
Left(last, limit)  == Reset(last, limit) + limit - now

(* soonestTimeout(), over all of them.                                     *)
Soonest(lefts) == IF lefts = {} THEN Forever ELSE CHOOSE t \in lefts : \A u \in lefts : t <= u

(* secsToMillis() of an idle timeout: the client is asked again sooner.    *)
Capped(left) == IF left > MaxWait THEN MaxWait ELSE left

IdleLimit(c) ==
  IF state[c] # "normal" /\ param.idle < MinAuth THEN MinAuth ELSE param.idle

(* The loop asks the servers of its listening sockets; one that has none   *)
(* is not asked, and nothing of this happens.                              *)
Idlers == IF param.listening /\ param.idle # 0 THEN Listed(state) ELSE {}
IdleOut == {c \in Idlers : Left(lastEvent[c], IdleLimit(c)) <= 0}

CountsDisconnection ==
  param.listening /\ param.maxDisconnection # 0 /\ Listed(state) = {}
CountsConnection ==
  param.listening /\ param.maxConnection # 0 /\ lastConnection # NoTime /\ Listed(state) # {}
CountsInput == param.listening /\ param.maxIdle # 0

ExitLefts ==
  (IF CountsDisconnection THEN {Left(lastDisconnect, param.maxDisconnection)} ELSE {})
  \cup (IF CountsConnection THEN {Left(lastConnection, param.maxConnection)} ELSE {})
  \cup (IF CountsInput THEN {Left(lastInput, param.maxIdle)} ELSE {})

Expired == \E left \in ExitLefts : left <= 0

Lefts ==
  {Capped(Left(lastEvent[c], IdleLimit(c))) : c \in Idlers \ IdleOut} \cup ExitLefts

(* When the wait may end.  The three times that end the process are not    *)
(* capped: timeLeft * 1000 overflows, and the loop waits for ever or for   *)
(* any time that its unsigned milliseconds hold.                           *)
Wakes ==
  IF \E left \in ExitLefts : left > MaxWait
  THEN {Forever} \cup (real + 1)..(real + 2 * MaxWait + 1)
  ELSE IF Lefts = {} THEN {Forever}
  ELSE {real + Soonest(Lefts)}

(* The connections in S are destroyed; the others were last heard of at t. *)
Remove(S, t) ==
  /\ state' = [c \in Client |-> IF c \in S THEN "absent" ELSE state[c]]
  /\ lastEvent' = [c \in Client |-> IF c \in S THEN 0 ELSE t[c]]
  /\ heard' = [c \in Client |-> IF c \in S THEN 0 ELSE heard[c]]

(* SocketManager::checkTimeouts(): the server, if it listens, closes its   *)
(* idle clients and exits or says how long to wait; then the sockets that  *)
(* are shut down are removed.                                              *)
CheckTimeouts ==
  /\ loop = "check"
  /\ Remove(IdleOut \cup {c \in Client : state[c] = "closing"},
            [c \in Client |-> IF c \in Idlers THEN Reset(lastEvent[c], IdleLimit(c)) ELSE lastEvent[c]])
  /\ LET leaving == \E c \in IdleOut : Authenticated(c) IN
       /\ lastDisconnect' = IF leaving THEN now
                            ELSE IF CountsDisconnection THEN Reset(lastDisconnect, param.maxDisconnection)
                            ELSE lastDisconnect
       /\ closedAt' = IF leaving THEN real ELSE closedAt
  /\ lastConnection' = IF CountsConnection THEN Reset(lastConnection, param.maxConnection) ELSE lastConnection
  /\ lastInput' = IF CountsInput THEN Reset(lastInput, param.maxIdle) ELSE lastInput
  /\ \/ Expired /\ loop' = "exited" /\ wake' = Forever
     \/ ~Expired /\ loop' = "wait" /\ wake' \in Wakes
  /\ UNCHANGED <<param, arrivedAt, usedAt, blackVars, clockVars>>

-----------------------------------------------------------------------------
(* Events.  After each the loop checks the timeouts again.                 *)

Handle == loop = "wait" /\ loop' = "check" /\ UNCHANGED <<param, wake, clockVars>>

Heard(c) == lastEvent' = [lastEvent EXCEPT ![c] = now] /\ heard' = [heard EXCEPT ![c] = real]

(* The wait is over, or a window message came.                             *)
WaitEnds ==
  /\ Handle
  /\ UNCHANGED <<clientVars, serverVars, blackVars>>

(* VNCServerST::addSocket(): a black-marked host is turned away.           *)
AddSocket(c) ==
  LET h == Peer[c]
      e == IF blm[h] = NoEntry THEN NewEntry(param.initialTimeout) ELSE blm[h]
  IN
  /\ Handle
  /\ state[c] = "absent" /\ attempts[h] < MaxAttempts
  /\ attempts' = [attempts EXCEPT ![h] = @ + 1]
  /\ blm' = [blm EXCEPT ![h] = Marked(e, param.threshold, now)]
  /\ \/ /\ IsBlackmarked(e, param.threshold, now)
        /\ UNCHANGED <<clientVars, serverVars, tries, triedAt>>
     \/ /\ ~IsBlackmarked(e, param.threshold, now)
        /\ state' = [state EXCEPT ![c] = "security"]
        /\ Heard(c)
        /\ IF Listed(state) = {} THEN lastConnection' = now /\ arrivedAt' = real
           ELSE UNCHANGED <<lastConnection, arrivedAt>>
        /\ tries' = [tries EXCEPT ![h] = @ + 1] /\ triedAt' = [triedAt EXCEPT ![h] = real]
        /\ UNCHANGED <<lastDisconnect, lastInput, closedAt, usedAt>>

\* Mutant: the user's time to answer counts against the client.
AcceptedUnheard(c) ==
  /\ state' = [state EXCEPT ![c] = "initialising"]
  /\ heard' = [heard EXCEPT ![c] = real]
  /\ UNCHANGED lastEvent

(* approveConnection(true), or the server's own: authSuccess() notes the   *)
(* event.                                                                  *)
Accepted(c) ==
  /\ state' = [state EXCEPT ![c] = "initialising"]
  /\ Heard(c)

\* Mutant: the host stays black-marked.
QueryConnectionUncleared(c) ==
  /\ Handle
  /\ state[c] = "security"
  /\ \/ state' = [state EXCEPT ![c] = "query"] /\ UNCHANGED <<lastEvent, heard>>
     \/ Accepted(c)
     \/ Remove({c}, lastEvent)
  /\ tries' = [tries EXCEPT ![Peer[c]] = 0]
  /\ UNCHANGED <<serverVars, blm, attempts, triedAt>>

(* queryConnection(), once the password is right, clears the host's black  *)
(* marks; the client then waits for the user, is let in at once, or is     *)
(* refused.  Only letting it in counts as an event.                        *)
QueryConnection(c) ==
  /\ Handle
  /\ state[c] = "security"
  /\ \/ state' = [state EXCEPT ![c] = "query"] /\ UNCHANGED <<lastEvent, heard>>
     \/ Accepted(c)
     \/ Remove({c}, lastEvent)
  /\ blm' = [blm EXCEPT ![Peer[c]] = NoEntry] /\ tries' = [tries EXCEPT ![Peer[c]] = 0]
  /\ UNCHANGED <<serverVars, attempts, triedAt>>

(* The user's answer.                                                      *)
ApproveConnection(c) ==
  /\ Handle
  /\ state[c] = "query"
  /\ \/ Accepted(c)
     \/ state' = [state EXCEPT ![c] = "closing"] /\ UNCHANGED <<lastEvent, heard>>
  /\ UNCHANGED <<serverVars, blackVars>>

Disconnects(S) ==
  IF \E c \in S : Authenticated(c) THEN lastDisconnect' = now /\ closedAt' = real
  ELSE UNCHANGED <<lastDisconnect, closedAt>>

(* clientInit(), which closes all the others unless the session is shared. *)
ClientInit(c) ==
  /\ Handle
  /\ state[c] = "initialising"
  /\ \E others \in {{}, Listed(state) \ {c}} :
       /\ state' = [d \in Client |-> IF d = c THEN "normal" ELSE IF d \in others THEN "closing" ELSE state[d]]
       /\ Disconnects(others)
  /\ Heard(c)
  /\ UNCHANGED <<lastConnection, lastInput, arrivedAt, usedAt, blackVars>>

\* Mutant: input counts for the client only.
InputOfClient(c) ==
  /\ Handle
  /\ state[c] = "normal"
  /\ Heard(c)
  /\ usedAt' = real
  /\ UNCHANGED <<state, lastInput, lastDisconnect, lastConnection, closedAt, arrivedAt, blackVars>>

(* keyEvent() and pointerEvent(), whether or not the client may give input. *)
Input(c) ==
  /\ Handle
  /\ state[c] = "normal"
  /\ Heard(c)
  /\ lastInput' = now /\ usedAt' = real
  /\ UNCHANGED <<state, lastDisconnect, lastConnection, closedAt, arrivedAt, blackVars>>

(* The client leaves or fails: its own event closes it and removes it.     *)
Leave(c) ==
  /\ Handle
  /\ state[c] \notin {"absent", "closing"}
  /\ Disconnects({c})
  /\ Remove({c}, lastEvent)
  /\ UNCHANGED <<lastConnection, lastInput, arrivedAt, usedAt, blackVars>>

(* closeClients() outside the clients' own events, such as disconnect().   *)
CloseClients ==
  /\ Handle
  /\ Disconnects({c \in Client : state[c] # "closing"})
  /\ state' = [c \in Client |-> IF state[c] = "absent" THEN "absent" ELSE "closing"]
  /\ UNCHANGED <<lastEvent, heard, lastConnection, lastInput, arrivedAt, usedAt, blackVars>>

-----------------------------------------------------------------------------
(* The clocks.  Handlers take no time, and a wait ends on time.            *)

Tick ==
  /\ loop = "wait" /\ real # wake /\ real < MaxReal
  /\ real' = real + 1 /\ now' = now + 1
  /\ UNCHANGED <<param, loop, wake, clientVars, serverVars, blackVars, leaps, leapt>>

SetClock(d) ==
  /\ loop = "wait" /\ leaps < MaxLeaps /\ now + d > 0
  /\ now' = now + d
  /\ leaps' = leaps + 1 /\ leapt' = (leapt \/ d > 0)
  /\ UNCHANGED <<param, loop, wake, clientVars, serverVars, blackVars, real>>

Next ==
  \/ CheckTimeouts \/ WaitEnds \/ CloseClients \/ Tick
  \/ \E c \in Client :
       \/ AddSocket(c) \/ QueryConnection(c) \/ ApproveConnection(c) \/ ClientInit(c)
       \/ Input(c) \/ Leave(c)
  \/ \E d \in Leaps : SetClock(d)

Spec == Init /\ [][Next]_vars

-----------------------------------------------------------------------------
(* Properties.                                                             *)

(* What IdleTimeout promises: 15 seconds at least until the session begins. *)
Promised(c) ==
  IF state[c] # "normal" /\ param.idle < MinAuth THEN MinAuth ELSE param.idle

(* Setting the clock backwards never gets a client closed early (the       *)
(* resets of checkIdleTimeout).                                            *)
IdleNotEarly ==
  [][\A c \in Client :
       loop = "check" /\ state[c] \notin {"absent", "closing"} /\ state'[c] = "absent" =>
         param.idle # 0 /\ (leapt \/ real - heard[c] >= Promised(c))]_vars

(* The wait that checkTimeouts() returns is short enough for everyone: an  *)
(* idle client is closed in time, and each setting of the clock costs one  *)
(* timeout more at most.                                                   *)
IdleInTime ==
  param.idle # 0 /\ loop = "wait" =>
    \A c \in Client : state[c] \notin {"absent", "closing"} =>
      real - heard[c] <= (1 + leaps) * Promised(c)

(* The process ends only when one of the three parameters says so.         *)
ExitJustified ==
  [][loop' = "exited" =>
       \/ leapt
       \/ /\ param.maxDisconnection # 0 /\ Listed(state) = {}
          /\ real - closedAt >= param.maxDisconnection
       \/ /\ param.maxConnection # 0 /\ Listed(state) # {}
          /\ real - arrivedAt >= param.maxConnection
       \/ param.maxIdle # 0 /\ real - usedAt >= param.maxIdle]_vars

(* And it does end: "Terminate when a client has been connected for s      *)
(* seconds", "Terminate after s seconds of user inactivity".               *)
ExitInTime ==
  loop = "wait" =>
    /\ param.maxConnection # 0 /\ Listed(state) # {} =>
         real - arrivedAt <= (1 + leaps) * param.maxConnection
    /\ param.maxIdle # 0 => real - usedAt <= (1 + leaps) * param.maxIdle

(* Whatever is due happens in time, if the loop asks the server and its    *)
(* milliseconds fit an int.                                                *)
Timely ==
  param.listening /\ {param.maxDisconnection, param.maxConnection, param.maxIdle} \subseteq 0..MaxWait

InTime == TypeOK /\ (Timely => IdleInTime /\ ExitInTime)

(* "Terminate when no client has been connected for s seconds": a server   *)
(* without clients does not sleep past that time.                          *)
UnusedServerWakes ==
  loop = "wait" /\ param.maxDisconnection # 0 /\ Listed(state) = {} =>
    wake # Forever /\ wake - real <= param.maxDisconnection

PowerOf2[k \in Nat] == IF k = 0 THEN 1 ELSE 2 * PowerOf2[k - 1]

(* A host may fail threshold times (once at least) before it has to wait.  *)
(* The time is an unsigned int and wraps, which Blacklist.h lists as a     *)
(* known bug.                                                              *)
FreeTries == IF param.threshold = 0 THEN 1 ELSE param.threshold
WaitAfter(failures) == (param.initialTimeout * PowerOf2[failures]) % Modulus
Barred(h) ==
  tries[h] >= FreeTries /\ real - triedAt[h] < WaitAfter(tries[h] - FreeTries)

(* Then it waits twice as long from one attempt to the next, whatever it   *)
(* tries in between, until it authenticates (isBlackmarked(),              *)
(* clearBlackmark()).                                                      *)
FailuresBarHost ==
  [][\A h \in Host : leaps = 0 /\ attempts'[h] # attempts[h] =>
       (tries'[h] = tries[h] <=> Barred(h))]_vars
=============================================================================
