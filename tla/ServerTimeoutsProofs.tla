------------------------ MODULE ServerTimeoutsProofs ------------------------
(***************************************************************************)
(* Proofs about ServerTimeouts, for any clients, settings and clock.       *)
(***************************************************************************)
EXTENDS ServerTimeouts, WellFoundedInduction, TLAPS

-----------------------------------------------------------------------------
(* The inductive invariant.                                                *)

\* The fields that times are computed from.
Timed ==
  /\ param \in Settings
  /\ now \in Nat \ {0} /\ real \in Nat /\ leapt \in BOOLEAN
  /\ state \in [Client -> {"absent", "security", "query", "initialising", "normal", "closing"}]
  /\ lastEvent \in [Client -> Nat] /\ heard \in [Client -> Nat]
  /\ lastDisconnect \in Nat /\ lastConnection \in Nat /\ lastInput \in Nat
  /\ closedAt \in Nat /\ arrivedAt \in Nat /\ usedAt \in Nat

\* What the program noted at wall clock time last happened at real time at: it
\* did happen, and unless the clock was set forwards the wall clock shows no
\* more time since than there was.
Since(last, at) == at <= real /\ (leapt \/ now - last <= real - at)

Clocked ==
  /\ \A c \in Client : state[c] # "absent" => Since(lastEvent[c], heard[c])
  /\ Since(lastDisconnect, closedAt) /\ Since(lastInput, usedAt)
  /\ Listed(state) # {} /\ lastConnection # NoTime => Since(lastConnection, arrivedAt)

Inv == Timed /\ Clocked

-----------------------------------------------------------------------------
(* One timeout.                                                            *)

LEMMA ResetSince ==
  ASSUME Timed, NEW last \in Nat, NEW at \in Nat, NEW limit \in Nat, Since(last, at)
  PROVE  Reset(last, limit) \in Nat /\ Since(Reset(last, limit), at)
  BY TimeoutsAssumption DEF Timed, Since, Reset

\* A timeout that is due has lasted, unless the clock was set forwards.
LEMMA DueLasted ==
  ASSUME Timed, NEW last \in Nat, NEW at \in Nat, NEW limit \in Nat \ {0}, Since(last, at),
         Left(last, limit) <= 0
  PROVE  leapt \/ real - at >= limit
  BY TimeoutsAssumption DEF Timed, Since, Left, Reset

LEMMA SettingsTyped ==
  ASSUME Timed
  PROVE  /\ param.idle \in Nat /\ param.maxDisconnection \in Nat
         /\ param.maxConnection \in Nat /\ param.maxIdle \in Nat
         /\ \A c \in Client : IdleLimit(c) \in Nat
         /\ param.idle # 0 => \A c \in Client : IdleLimit(c) \in Nat \ {0}
  BY TimeoutsAssumption DEF Timed, IdleLimit

-----------------------------------------------------------------------------

LEMMA InvInit == Init => Inv
  <1> SUFFICES ASSUME Init PROVE Inv
    OBVIOUS
  <1>1. Timed
    BY TimeoutsAssumption DEF Init, Timed, NoTime
  <1>2. Clocked
    <2>1. \A c \in Client : state[c] = "absent"
      BY DEF Init
    <2>2. Since(lastDisconnect, closedAt) /\ Since(lastInput, usedAt)
      BY TimeoutsAssumption DEF Init, Since
    <2> QED
      BY <2>1, <2>2 DEF Clocked, Listed
  <1> QED
    BY <1>1, <1>2 DEF Inv

LEMMA CheckTimeoutsInv == Inv /\ CheckTimeouts => Inv'
  <1> SUFFICES ASSUME Inv, CheckTimeouts PROVE Inv'
    OBVIOUS
  <1>0. Timed /\ Clocked
    BY DEF Inv
  <1>1. /\ UNCHANGED <<param, now, real, leapt, arrivedAt, usedAt>>
    BY DEF CheckTimeouts, clockVars
  <1>2. ASSUME NEW c \in Client
        PROVE  /\ state'[c] \in {"absent", "security", "query", "initialising", "normal", "closing"}
               /\ state'[c] # "absent" => state[c] # "absent"
               /\ lastEvent'[c] \in Nat /\ heard'[c] \in Nat
               /\ state'[c] # "absent" => Since(lastEvent'[c], heard'[c])
    <2> DEFINE S == IdleOut \cup {d \in Client : state[d] = "closing"}
    <2> DEFINE t == [d \in Client |-> IF d \in Idlers THEN Reset(lastEvent[d], IdleLimit(d)) ELSE lastEvent[d]]
    <2>1. /\ state'[c] = IF c \in S THEN "absent" ELSE state[c]
          /\ lastEvent'[c] = IF c \in S THEN 0 ELSE t[c]
          /\ heard'[c] = IF c \in S THEN 0 ELSE heard[c]
      BY DEF CheckTimeouts, Remove
    <2>2. t[c] \in Nat
      BY <1>0, SettingsTyped DEF Timed, Reset
    <2>3. state[c] # "absent" => Since(t[c], heard[c])
      BY <1>0, SettingsTyped, ResetSince DEF Timed, Clocked
    <2> HIDE DEF S, t
    <2> QED
      BY <1>0, <2>1, <2>2, <2>3 DEF Timed
  <1>3. /\ lastDisconnect' \in Nat /\ closedAt' \in Nat /\ Since(lastDisconnect', closedAt')
    <2>1. CASE \E c \in IdleOut : Authenticated(c)
      <3>1. lastDisconnect' = now /\ closedAt' = real
        BY <2>1 DEF CheckTimeouts
      <3> QED
        BY <1>0, <3>1 DEF Timed, Since
    <2>2. CASE ~\E c \in IdleOut : Authenticated(c)
      <3>1. /\ closedAt' = closedAt
            /\ \/ lastDisconnect' = lastDisconnect
               \/ lastDisconnect' = Reset(lastDisconnect, param.maxDisconnection)
        BY <2>2 DEF CheckTimeouts
      <3>2. /\ Reset(lastDisconnect, param.maxDisconnection) \in Nat
            /\ Since(Reset(lastDisconnect, param.maxDisconnection), closedAt)
        BY <1>0, SettingsTyped, ResetSince DEF Timed, Clocked
      <3>3. lastDisconnect \in Nat /\ closedAt \in Nat /\ Since(lastDisconnect, closedAt)
        BY <1>0 DEF Timed, Clocked
      <3> QED
        BY <3>1, <3>2, <3>3
    <2> QED
      BY <2>1, <2>2
  <1>4. lastInput' \in Nat /\ Since(lastInput', usedAt)
    <2>1. lastInput' = lastInput \/ lastInput' = Reset(lastInput, param.maxIdle)
      BY DEF CheckTimeouts
    <2>2. Reset(lastInput, param.maxIdle) \in Nat /\ Since(Reset(lastInput, param.maxIdle), usedAt)
      BY <1>0, SettingsTyped, ResetSince DEF Timed, Clocked
    <2>3. lastInput \in Nat /\ Since(lastInput, usedAt)
      BY <1>0 DEF Timed, Clocked
    <2> QED
      BY <2>1, <2>2, <2>3
  <1>5. /\ lastConnection' \in Nat
        /\ Listed(state) # {} /\ lastConnection' # NoTime => Since(lastConnection', arrivedAt)
    <2>1. \/ lastConnection' = lastConnection
          \/ /\ lastConnection' = Reset(lastConnection, param.maxConnection)
             /\ lastConnection # NoTime /\ Listed(state) # {}
      BY DEF CheckTimeouts, CountsConnection
    <2>2. Listed(state) # {} /\ lastConnection # NoTime =>
            /\ Reset(lastConnection, param.maxConnection) \in Nat
            /\ Since(Reset(lastConnection, param.maxConnection), arrivedAt)
      BY <1>0, SettingsTyped, ResetSince DEF Timed, Clocked
    <2>3. /\ lastConnection \in Nat
          /\ Listed(state) # {} /\ lastConnection # NoTime => Since(lastConnection, arrivedAt)
      BY <1>0 DEF Timed, Clocked
    <2> QED
      BY <2>1, <2>2, <2>3
  <1>6. Listed(state') # {} => Listed(state) # {}
    BY <1>2 DEF Listed
  <1>7. /\ DOMAIN state' = Client /\ state' = [c \in Client |-> state'[c]]
        /\ lastEvent' = [c \in Client |-> lastEvent'[c]] /\ heard' = [c \in Client |-> heard'[c]]
    BY DEF CheckTimeouts, Remove
  <1>8. Timed'
    BY <1>0, <1>1, <1>2, <1>3, <1>4, <1>5, <1>7 DEF Timed
  <1>9. Clocked'
    BY <1>1, <1>2, <1>3, <1>4, <1>5, <1>6 DEF Clocked, Since
  <1> QED
    BY <1>8, <1>9 DEF Inv

\* What an event does to the times, whatever it is: those that it sets are those
\* of now, and a client that it says nothing of stays on the same side of
\* "normal", unless it is closed.
Noted ==
  /\ Handle
  /\ state' \in [Client -> {"absent", "security", "query", "initialising", "normal", "closing"}]
  /\ lastEvent' \in [Client -> Nat] /\ heard' \in [Client -> Nat]
  /\ \A c \in Client :
       \/ state'[c] = "absent"
       \/ lastEvent'[c] = now /\ heard'[c] = real
       \/ /\ state[c] # "absent" /\ lastEvent'[c] = lastEvent[c] /\ heard'[c] = heard[c]
          /\ \/ state'[c] = "closing"
             \/ state[c] # "closing" /\ (state'[c] = "normal" <=> state[c] = "normal")
  /\ \/ lastDisconnect' = now /\ closedAt' = real
     \/ UNCHANGED <<lastDisconnect, closedAt>>
  /\ \/ lastInput' = now /\ usedAt' = real
     \/ UNCHANGED <<lastInput, usedAt>>
  /\ \/ lastConnection' = now /\ arrivedAt' = real
     \/ UNCHANGED <<lastConnection, arrivedAt>> /\ (Listed(state') # {} => Listed(state) # {})

LEMMA EventNoted ==
  ASSUME Timed,
         \/ WaitEnds \/ CloseClients
         \/ \E c \in Client :
              \/ AddSocket(c) \/ QueryConnection(c) \/ ApproveConnection(c) \/ ClientInit(c)
              \/ Input(c) \/ Leave(c)
  PROVE  Noted
  <1>1. CASE WaitEnds
    <2>1. Handle /\ UNCHANGED <<state, lastEvent, heard, lastDisconnect, lastConnection, lastInput,
                                closedAt, arrivedAt, usedAt>>
      BY <1>1 DEF WaitEnds, clientVars, serverVars
    <2> QED
      BY <2>1 DEF Timed, Noted
  <1>2. CASE CloseClients
    <2>1. /\ Handle
          /\ state' = [c \in Client |-> IF state[c] = "absent" THEN "absent" ELSE "closing"]
          /\ UNCHANGED <<lastEvent, heard, lastConnection, lastInput, arrivedAt, usedAt>>
      BY <1>2 DEF CloseClients
    <2>2. \/ lastDisconnect' = now /\ closedAt' = real
          \/ UNCHANGED <<lastDisconnect, closedAt>>
      BY <1>2 DEF CloseClients, Disconnects
    <2>3. Listed(state') # {} => Listed(state) # {}
      BY <2>1 DEF Listed
    <2> QED
      BY <2>1, <2>2, <2>3 DEF Timed, Noted
  <1>3. ASSUME NEW c \in Client, AddSocket(c) PROVE Noted
    <2>1. Handle
      BY <1>3 DEF AddSocket
    <2>2. CASE UNCHANGED <<clientVars, serverVars>>
      BY <2>1, <2>2 DEF Timed, Noted, clientVars, serverVars
    <2>3. CASE /\ state' = [state EXCEPT ![c] = "security"] /\ Heard(c)
               /\ IF Listed(state) = {} THEN lastConnection' = now /\ arrivedAt' = real
                  ELSE UNCHANGED <<lastConnection, arrivedAt>>
               /\ UNCHANGED <<lastDisconnect, lastInput, closedAt, usedAt>>
      BY <2>1, <2>3 DEF Timed, Noted, Heard
    <2> QED
      BY <1>3, <2>2, <2>3 DEF AddSocket
  <1>4. ASSUME NEW c \in Client, QueryConnection(c) PROVE Noted
    <2>1. /\ Handle /\ state[c] = "security"
          /\ UNCHANGED <<lastDisconnect, lastConnection, lastInput, closedAt, arrivedAt, usedAt>>
      BY <1>4 DEF QueryConnection, serverVars
    <2>2. Listed(state) # {}
      BY <2>1 DEF Listed
    <2>3. CASE state' = [state EXCEPT ![c] = "query"] /\ UNCHANGED <<lastEvent, heard>>
      BY <2>1, <2>2, <2>3 DEF Timed, Noted
    <2>4. CASE Accepted(c)
      BY <2>1, <2>2, <2>4 DEF Timed, Noted, Accepted, Heard
    <2>5. CASE Remove({c}, lastEvent)
      BY <2>1, <2>2, <2>5 DEF Timed, Noted, Remove
    <2> QED
      BY <1>4, <2>3, <2>4, <2>5 DEF QueryConnection
  <1>5. ASSUME NEW c \in Client, ApproveConnection(c) PROVE Noted
    <2>1. /\ Handle /\ state[c] = "query"
          /\ UNCHANGED <<lastDisconnect, lastConnection, lastInput, closedAt, arrivedAt, usedAt>>
      BY <1>5 DEF ApproveConnection, serverVars
    <2>2. Listed(state) # {}
      BY <2>1 DEF Listed
    <2>3. CASE Accepted(c)
      BY <2>1, <2>2, <2>3 DEF Timed, Noted, Accepted, Heard
    <2>4. CASE state' = [state EXCEPT ![c] = "closing"] /\ UNCHANGED <<lastEvent, heard>>
      BY <2>1, <2>2, <2>4 DEF Timed, Noted
    <2> QED
      BY <1>5, <2>3, <2>4 DEF ApproveConnection
  <1>6. ASSUME NEW c \in Client, ClientInit(c) PROVE Noted
    <2>1. PICK others \in {{}, Listed(state) \ {c}} :
            /\ state' = [d \in Client |-> IF d = c THEN "normal"
                                          ELSE IF d \in others THEN "closing" ELSE state[d]]
            /\ Disconnects(others)
      BY <1>6 DEF ClientInit
    <2>2. /\ Handle /\ state[c] = "initialising" /\ Heard(c)
          /\ UNCHANGED <<lastConnection, lastInput, arrivedAt, usedAt>>
      BY <1>6 DEF ClientInit
    <2>3. \/ lastDisconnect' = now /\ closedAt' = real
          \/ UNCHANGED <<lastDisconnect, closedAt>>
      BY <2>1 DEF Disconnects
    <2>4. Listed(state) # {} /\ (\A d \in others : state[d] # "absent")
      BY <2>2 DEF Listed
    <2> QED
      BY <2>1, <2>2, <2>3, <2>4 DEF Timed, Noted, Heard
  <1>7. ASSUME NEW c \in Client, Input(c) PROVE Noted
    <2>1. /\ Handle /\ state[c] = "normal" /\ Heard(c) /\ lastInput' = now /\ usedAt' = real
          /\ UNCHANGED <<state, lastDisconnect, lastConnection, closedAt, arrivedAt>>
      BY <1>7 DEF Input
    <2> QED
      BY <2>1 DEF Timed, Noted, Heard
  <1>8. ASSUME NEW c \in Client, Leave(c) PROVE Noted
    <2>1. /\ Handle
          /\ state' = [d \in Client |-> IF d \in {c} THEN "absent" ELSE state[d]]
          /\ lastEvent' = [d \in Client |-> IF d \in {c} THEN 0 ELSE lastEvent[d]]
          /\ heard' = [d \in Client |-> IF d \in {c} THEN 0 ELSE heard[d]]
          /\ UNCHANGED <<lastConnection, lastInput, arrivedAt, usedAt>>
      BY <1>8 DEF Leave, Remove
    <2>2. \/ lastDisconnect' = now /\ closedAt' = real
          \/ UNCHANGED <<lastDisconnect, closedAt>>
      BY <1>8 DEF Leave, Disconnects
    <2>3. Listed(state') # {} => Listed(state) # {}
      BY <2>1 DEF Listed
    <2> QED
      BY <2>1, <2>2, <2>3 DEF Timed, Noted
  <1> QED
    BY <1>1, <1>2, <1>3, <1>4, <1>5, <1>6, <1>7, <1>8

\* Every step is one of five.
LEMMA NextNoted ==
  ASSUME Timed, [Next]_vars
  PROVE  CheckTimeouts \/ Noted \/ Tick \/ (\E d \in Leaps : SetClock(d)) \/ UNCHANGED vars
  BY EventNoted DEF Next

LEMMA NotedInv ==
  ASSUME Inv, Noted
  PROVE  Inv'
  <1>1. UNCHANGED <<param, now, real, leapt>>
    BY DEF Noted, Handle, clockVars
  <1>2. Timed'
    BY <1>1 DEF Inv, Timed, Noted
  <1>3. Since(lastDisconnect, closedAt)' /\ Since(lastInput, usedAt)'
    BY <1>1 DEF Inv, Timed, Clocked, Since, Noted
  <1>4. \A c \in Client : (state[c] # "absent" => Since(lastEvent[c], heard[c]))'
    BY <1>1 DEF Inv, Timed, Clocked, Since, Noted
  <1>5. (Listed(state) # {} /\ lastConnection # NoTime => Since(lastConnection, arrivedAt))'
    BY <1>1 DEF Inv, Timed, Clocked, Since, Noted
  <1> QED
    BY <1>2, <1>3, <1>4, <1>5 DEF Inv, Clocked

LEMMA InvNext == Inv /\ [Next]_vars => Inv'
  <1> SUFFICES ASSUME Inv, [Next]_vars PROVE Inv'
    OBVIOUS
  <1>0. Timed /\ Clocked
    BY DEF Inv
  <1>1. CASE CheckTimeouts
    BY <1>1, CheckTimeoutsInv
  <1>2. CASE Noted
    BY <1>2, NotedInv
  <1>3. CASE Tick
    <2>1. /\ now' = now + 1 /\ real' = real + 1
          /\ UNCHANGED <<param, leapt, state, lastEvent, heard, lastDisconnect, lastConnection,
                         lastInput, closedAt, arrivedAt, usedAt>>
      BY <1>3 DEF Tick, clientVars, serverVars
    <2> QED
      BY <1>0, <2>1 DEF Inv, Timed, Clocked, Since, Listed
  <1>4. ASSUME NEW d \in Leaps, SetClock(d) PROVE Inv'
    <2>1. /\ now' = now + d /\ now + d > 0 /\ leapt' = (leapt \/ d > 0) /\ d \in Int
          /\ UNCHANGED <<param, real, state, lastEvent, heard, lastDisconnect, lastConnection,
                         lastInput, closedAt, arrivedAt, usedAt>>
      BY <1>4, TimeoutsAssumption DEF SetClock, clientVars, serverVars
    <2>2. Timed'
      BY <1>0, <2>1 DEF Timed
    <2>3. ASSUME NEW last \in Nat, NEW at \in Nat, Since(last, at)
          PROVE  at <= real' /\ (leapt' \/ now' - last <= real' - at)
      <3>1. CASE leapt \/ d > 0
        <4>1. leapt'
          BY <2>1, <3>1, Zenon
        <4> QED
          BY <2>1, <2>3, <4>1 DEF Since
      <3>2. CASE ~leapt /\ ~(d > 0)
        <4>1. d <= 0 /\ at <= real /\ now - last <= real - at /\ now' = now + d /\ real' = real
          BY <2>1, <2>3, <3>2 DEF Since
        <4>2. now' - last <= real' - at
          BY <1>0, <2>1, <4>1 DEF Timed
        <4> QED
          BY <4>1, <4>2
      <3> QED
        BY <3>1, <3>2
    <2>4. \A c \in Client : (state[c] # "absent" => Since(lastEvent[c], heard[c]))'
      BY <1>0, <2>1, <2>3 DEF Timed, Clocked, Since
    <2>5. (Since(lastDisconnect, closedAt) /\ Since(lastInput, usedAt))'
      BY <1>0, <2>1, <2>3 DEF Timed, Clocked, Since
    <2>6. (Listed(state) # {} /\ lastConnection # NoTime => Since(lastConnection, arrivedAt))'
      BY <1>0, <2>1, <2>3 DEF Timed, Clocked, Since, Listed
    <2> QED
      BY <2>2, <2>4, <2>5, <2>6 DEF Inv, Clocked
  <1>5. CASE UNCHANGED vars
    BY <1>0, <1>5 DEF vars, clientVars, serverVars, clockVars, Inv, Timed, Clocked, Since, Listed
  <1> QED
    BY <1>0, <1>1, <1>2, <1>3, <1>4, <1>5, NextNoted

LEMMA Invariance == Spec => []Inv
  BY InvInit, InvNext, PTL DEF Spec

-----------------------------------------------------------------------------
(* The second inductive invariant: whatever is due happens in time.  A     *)
(* timeout is measured on the wall clock from last, which noted the real   *)
(* time at; each setting of the clock adds one limit to its budget.  Only  *)
(* the settings that are Timely promise that.                              *)

\* At wall clock n and real time r, no more real time has gone by than the wall
\* clock shows, but for the budget.
Covered(n, r, last, at, budget) ==
  0 <= n - last /\ (r - at) - (n - last) <= budget

\* About to be checked: the time since at is within the budget, or the timeout
\* is not overdue by the wall clock, and the budget covers the difference.
Checked(n, r, last, at, limit, budget) ==
  \/ r - at <= budget
  \/ Covered(n, r, last, at, budget) /\ n - last <= limit

\* Waiting until w: the same will hold at the end of the wait.
Awaited(n, r, w, last, at, limit, budget) ==
  /\ w # Forever /\ r <= w
  /\ \/ w - at <= budget
     \/ Covered(n, r, last, at, budget) /\ (n - last) + (w - r) <= limit

Pending(last, at, limit) ==
  /\ loop = "check" => Checked(now, real, last, at, limit, leaps * limit)
  /\ loop = "wait" => Awaited(now, real, wake, last, at, limit, leaps * limit)

Punctual ==
  /\ param.idle # 0 =>
       \A c \in Client : state[c] \notin {"absent", "closing"} =>
         Pending(lastEvent[c], heard[c], IdleLimit(c))
  /\ Listed(state) # {} => lastConnection # NoTime
  /\ param.maxConnection # 0 /\ Listed(state) # {} =>
       Pending(lastConnection, arrivedAt, param.maxConnection)
  /\ param.maxIdle # 0 => Pending(lastInput, usedAt, param.maxIdle)

\* The rest of the types.
Kept ==
  /\ wake \in Nat \cup {Forever} /\ leaps \in Nat
  /\ loop \in {"check", "wait", "exited"}
  /\ blm \in [Host -> Entry]
  /\ attempts \in [Host -> Nat] /\ tries \in [Host -> Nat] /\ triedAt \in [Host -> Nat]

InTimeInv == Inv /\ Kept /\ (Timely => Punctual)

-----------------------------------------------------------------------------
(* The wait.                                                               *)

\* soonestTimeout() returns the least of the timeouts that are left.
LEMMA SoonestLeast ==
  ASSUME NEW S \in SUBSET Nat, NEW t \in S
  PROVE  Soonest(S) \in S /\ Soonest(S) <= t
  <1>1. PICK x \in S : \A y \in S : ~ (<<y, x>> \in OpToRel(<, Nat))
    BY NatLessThanWellFounded, WFMin
  <1>2. ASSUME NEW y \in S
        PROVE  x <= y
    <2>1. x \in Nat /\ y \in Nat
      OBVIOUS
    <2>2. <<y, x>> \in OpToRel(<, Nat) <=> y < x
      BY <2>1 DEF OpToRel
    <2>3. ~(y < x)
      BY <1>1, <2>2
    <2> QED
      BY <2>1, <2>3
  <1>3. \E z \in S : \A y \in S : z <= y
    BY <1>2
  <1>4. Soonest(S) = CHOOSE z \in S : \A y \in S : z <= y
    BY DEF Soonest
  <1> QED
    BY <1>3, <1>4

\* When the server does not exit, every timeout that is left is in the future.
LEMMA LeftsPositive ==
  ASSUME Timed, ~Expired
  PROVE  Lefts \subseteq Nat \ {0}
  <1>1. \A last, limit \in Nat : Left(last, limit) \in Int
    BY DEF Timed, Left, Reset
  <1>2. \A c \in Idlers \ IdleOut : Capped(Left(lastEvent[c], IdleLimit(c))) \in Nat \ {0}
    <2>1. ASSUME NEW c \in Idlers \ IdleOut
          PROVE  Left(lastEvent[c], IdleLimit(c)) \in Nat \ {0}
      BY <1>1, <2>1, SettingsTyped DEF Timed, IdleOut, Idlers, Listed
    <2> QED
      BY <2>1, TimeoutsAssumption DEF Capped
  <1>e. ASSUME NEW last \in Nat, NEW limit \in Nat, Left(last, limit) \in ExitLefts
        PROVE  Left(last, limit) \in Nat \ {0}
    <2>1. Left(last, limit) \in Int /\ ~(Left(last, limit) <= 0)
      BY <1>1, <1>e DEF Expired
    <2> HIDE DEF Left
    <2> QED
      BY <2>1
  <1>3. CountsDisconnection => Left(lastDisconnect, param.maxDisconnection) \in Nat \ {0}
    <2>1. lastDisconnect \in Nat /\ param.maxDisconnection \in Nat
      BY SettingsTyped DEF Timed
    <2>2. CountsDisconnection => Left(lastDisconnect, param.maxDisconnection) \in ExitLefts
      BY DEF ExitLefts
    <2> QED
      BY <1>e, <2>1, <2>2
  <1>4. CountsConnection => Left(lastConnection, param.maxConnection) \in Nat \ {0}
    <2>1. lastConnection \in Nat /\ param.maxConnection \in Nat
      BY SettingsTyped DEF Timed
    <2>2. CountsConnection => Left(lastConnection, param.maxConnection) \in ExitLefts
      BY DEF ExitLefts
    <2> QED
      BY <1>e, <2>1, <2>2
  <1>5. CountsInput => Left(lastInput, param.maxIdle) \in Nat \ {0}
    <2>1. lastInput \in Nat /\ param.maxIdle \in Nat
      BY SettingsTyped DEF Timed
    <2>2. CountsInput => Left(lastInput, param.maxIdle) \in ExitLefts
      BY DEF ExitLefts
    <2> QED
      BY <1>e, <2>1, <2>2
  <1> HIDE DEF Idlers, IdleOut, CountsDisconnection, CountsConnection, CountsInput, Left, Capped
  <1> QED
    BY <1>2, <1>3, <1>4, <1>5 DEF Lefts, ExitLefts

LEMMA NoLater ==
  ASSUME NEW w \in Int, NEW t \in Nat, NEW left \in Int, w <= t, t <= left
  PROVE  w <= left
  OBVIOUS

\* No timeout that is left is longer than its limit, so that none overflows.
LEMMA LeftsFit ==
  ASSUME Timed, Timely
  PROVE  \A left \in ExitLefts : ~(left > MaxWait)
  <1>1. \A last, limit \in Nat : Left(last, limit) \in Int /\ Left(last, limit) <= limit
    BY TimeoutsAssumption DEF Timed, Left, Reset
  <1>2. MaxWait \in Nat /\ \A limit \in 0..MaxWait : limit \in Nat /\ limit <= MaxWait
    BY TimeoutsAssumption
  <1>3. ASSUME NEW last \in Nat, NEW limit \in 0..MaxWait
        PROVE  ~(Left(last, limit) > MaxWait)
    BY <1>1, <1>2
  <1>4. {param.maxDisconnection, param.maxConnection, param.maxIdle} \subseteq 0..MaxWait
    BY DEF Timely
  <1>5. lastDisconnect \in Nat /\ lastConnection \in Nat /\ lastInput \in Nat
    BY DEF Timed
  <1> HIDE DEF Left
  <1> QED
    BY <1>3, <1>4, <1>5 DEF ExitLefts

\* Whenever the wait ends.
LEMMA WakesTyped ==
  ASSUME Timed, CheckTimeouts
  PROVE  wake' \in Nat \cup {Forever}
  <1>1. CASE Expired
    BY <1>1 DEF CheckTimeouts
  <1>2. CASE ~Expired
    <2>1. wake' \in Wakes
      BY <1>2 DEF CheckTimeouts
    <2>2. Lefts \subseteq Nat \ {0}
      BY <1>2, LeftsPositive
    <2>3. Lefts # {} => Soonest(Lefts) \in Nat
      BY <2>2, SoonestLeast
    <2>4. real \in Nat /\ MaxWait \in Nat
      BY TimeoutsAssumption DEF Timed
    <2>5. (real + 1)..(real + 2 * MaxWait + 1) \subseteq Nat
      BY <2>4
    <2>6. Lefts # {} => real + Soonest(Lefts) \in Nat
      BY <2>3, <2>4
    <2> QED
      BY <2>1, <2>5, <2>6 DEF Wakes
  <1> QED
    BY <1>1, <1>2

\* The wait ends before anything that is left is due.
LEMMA WakeSoon ==
  ASSUME Timed, Timely, CheckTimeouts, loop' = "wait"
  PROVE  \A t \in Lefts : wake' \in Nat /\ real <= wake' /\ wake' - real <= t
  <1>1. ~Expired /\ wake' \in Wakes
    BY DEF CheckTimeouts
  <1>2. Lefts \subseteq Nat \ {0}
    BY <1>1, LeftsPositive
  <1>3. ASSUME NEW t \in Lefts
        PROVE  wake' \in Nat /\ real <= wake' /\ wake' - real <= t
    <2>1. Soonest(Lefts) \in Nat \ {0} /\ Soonest(Lefts) <= t /\ t \in Nat
      BY <1>2, SoonestLeast
    <2>2. wake' = real + Soonest(Lefts)
      BY <1>1, <1>3, LeftsFit DEF Wakes
    <2> QED
      BY <2>1, <2>2 DEF Timed
  <1> QED
    BY <1>3

-----------------------------------------------------------------------------
(* One timeout, from one step to the next.                                 *)

\* A check that finds it not yet due waits no longer than what is left of it;
\* a timeout that starts again does so within the budget.
LEMMA CheckedAwaited ==
  ASSUME NEW n \in Nat, NEW r \in Nat, NEW last \in Nat, NEW at \in Nat,
         NEW limit \in Nat \ {0}, NEW budget \in Nat, NEW w \in Nat, NEW new,
         Checked(n, r, last, at, limit, budget),
         new = IF n < last \/ last + limit - n < -Late THEN n ELSE last,
         r <= w, w - r <= new + limit - n
  PROVE  Awaited(n, r, w, new, at, limit, budget)
  <1>1. CASE n < last \/ last + limit - n < -Late
    <2>1. r - at <= budget
      BY <1>1, TimeoutsAssumption DEF Checked, Covered
    <2> QED
      BY <1>1, <2>1 DEF Awaited, Covered, Forever
  <1>2. CASE ~(n < last \/ last + limit - n < -Late)
    BY <1>2 DEF Awaited, Checked, Covered, Forever
  <1> QED
    BY <1>1, <1>2

LEMMA AwaitedChecked ==
  ASSUME NEW n \in Nat, NEW r \in Nat, NEW w \in Nat \cup {Forever}, NEW last \in Nat,
         NEW at \in Nat, NEW limit \in Nat, NEW budget \in Nat,
         Awaited(n, r, w, last, at, limit, budget)
  PROVE  Checked(n, r, last, at, limit, budget)
  BY DEF Awaited, Checked, Covered, Forever

LEMMA AwaitedTick ==
  ASSUME NEW n \in Nat, NEW r \in Nat, NEW w \in Nat \cup {Forever}, NEW last \in Nat,
         NEW at \in Nat, NEW limit \in Nat, NEW budget \in Nat,
         Awaited(n, r, w, last, at, limit, budget), r # w
  PROVE  Awaited(n + 1, r + 1, w, last, at, limit, budget)
  BY DEF Awaited, Covered, Forever

\* Setting the clock costs one limit, however far it is set.
LEMMA AwaitedLeap ==
  ASSUME NEW n \in Nat, NEW m \in Nat, NEW r \in Nat, NEW w \in Nat \cup {Forever},
         NEW last \in Nat, NEW at \in Nat, NEW limit \in Nat, NEW budget \in Nat,
         Awaited(n, r, w, last, at, limit, budget)
  PROVE  Awaited(m, r, w, last, at, limit, budget + limit)
  BY DEF Awaited, Covered, Forever

LEMMA AwaitedBound ==
  ASSUME NEW n \in Nat, NEW r \in Nat, NEW w \in Nat \cup {Forever}, NEW last \in Nat,
         NEW at \in Nat, NEW limit \in Nat, NEW budget \in Nat,
         Awaited(n, r, w, last, at, limit, budget)
  PROVE  r - at <= budget + limit
  BY DEF Awaited, Covered, Forever

LEMMA Budgets ==
  ASSUME NEW k \in Nat, NEW limit \in Nat
  PROVE  /\ k * limit \in Nat
         /\ (k + 1) * limit = k * limit + limit /\ (1 + k) * limit = k * limit + limit
  OBVIOUS

-----------------------------------------------------------------------------
(* The second invariant is inductive.                                      *)

\* An event ends the wait: what it noted is of now, and the rest is no later
\* than it would have been at the end of the wait.
LEMMA NotedPunctual ==
  ASSUME InTimeInv, Timely, Noted
  PROVE  Punctual'
  <1>0. Timed /\ Clocked /\ Kept /\ Punctual
    BY DEF InTimeInv, Inv
  <1>1. loop = "wait" /\ loop' = "check" /\ UNCHANGED <<param, wake, now, real, leaps>>
    BY DEF Noted, Handle, clockVars
  <1>2. ASSUME NEW last \in Nat, NEW at \in Nat, NEW limit \in Nat, Pending(last, at, limit)
        PROVE  Checked(now, real, last, at, limit, leaps * limit)
    BY <1>0, <1>1, <1>2, Budgets, AwaitedChecked DEF Pending, Timed, Kept
  <1>3. ASSUME NEW limit \in Nat
        PROVE  Checked(now, real, now, real, limit, leaps * limit)
    BY <1>0, Budgets DEF Checked, Timed, Kept
  <1>4. ASSUME param'.idle # 0, NEW c \in Client, state'[c] \notin {"absent", "closing"}
        PROVE  Pending(lastEvent[c], heard[c], IdleLimit(c))'
    <2>1. IdleLimit(c)' \in Nat
      BY <1>0, <1>1, TimeoutsAssumption DEF Timed, IdleLimit
    <2>2. CASE lastEvent'[c] = now /\ heard'[c] = real
      BY <1>1, <1>3, <2>1, <2>2 DEF Pending
    <2>3. CASE ~(lastEvent'[c] = now /\ heard'[c] = real)
      <3>1. /\ state[c] \notin {"absent", "closing"}
            /\ lastEvent'[c] = lastEvent[c] /\ heard'[c] = heard[c]
            /\ state'[c] = "normal" <=> state[c] = "normal"
        BY <1>4, <2>3 DEF Noted
      <3>2. IdleLimit(c)' = IdleLimit(c)
        BY <1>1, <3>1 DEF IdleLimit
      <3>3. Pending(lastEvent[c], heard[c], IdleLimit(c))
        BY <1>0, <1>1, <1>4, <3>1 DEF Punctual
      <3>4. lastEvent[c] \in Nat /\ heard[c] \in Nat
        BY <1>0 DEF Timed
      <3>5. Checked(now, real, lastEvent[c], heard[c], IdleLimit(c), leaps * IdleLimit(c))
        BY <1>2, <2>1, <3>2, <3>3, <3>4
      <3> QED
        BY <1>1, <3>1, <3>2, <3>5 DEF Pending
    <2> QED
      BY <2>2, <2>3
  <1>5. Listed(state') # {} => lastConnection' # NoTime
    BY <1>0, <1>1 DEF Noted, Timed, Punctual, NoTime
  <1>6. ASSUME param'.maxConnection # 0, Listed(state') # {}
        PROVE  Pending(lastConnection, arrivedAt, param.maxConnection)'
    <2>1. param.maxConnection \in Nat /\ lastConnection \in Nat /\ arrivedAt \in Nat
      BY <1>0, SettingsTyped DEF Timed
    <2>2. CASE lastConnection' = now /\ arrivedAt' = real
      BY <1>1, <1>3, <2>1, <2>2 DEF Pending
    <2>3. CASE UNCHANGED <<lastConnection, arrivedAt>> /\ (Listed(state') # {} => Listed(state) # {})
      <3>1. Pending(lastConnection, arrivedAt, param.maxConnection)
        BY <1>0, <1>1, <1>6, <2>3 DEF Punctual
      <3> QED
        BY <1>1, <1>2, <2>1, <2>3, <3>1 DEF Pending
    <2> QED
      BY <2>2, <2>3 DEF Noted
  <1>7. ASSUME param'.maxIdle # 0
        PROVE  Pending(lastInput, usedAt, param.maxIdle)'
    <2>1. param.maxIdle \in Nat /\ lastInput \in Nat /\ usedAt \in Nat
      BY <1>0, SettingsTyped DEF Timed
    <2>2. CASE lastInput' = now /\ usedAt' = real
      BY <1>1, <1>3, <2>1, <2>2 DEF Pending
    <2>3. CASE UNCHANGED <<lastInput, usedAt>>
      <3>1. Pending(lastInput, usedAt, param.maxIdle)
        BY <1>0, <1>1, <1>7 DEF Punctual
      <3> QED
        BY <1>1, <1>2, <2>1, <2>3, <3>1 DEF Pending
    <2> QED
      BY <2>2, <2>3 DEF Noted
  <1> QED
    BY <1>4, <1>5, <1>6, <1>7 DEF Punctual

\* After a check the server waits no longer than the soonest timeout, and every
\* client that is left and every time that counts is one of them.
LEMMA CheckPunctual ==
  ASSUME InTimeInv, Timely, CheckTimeouts
  PROVE  Punctual'
  <1>0. Timed /\ Clocked /\ Kept /\ Punctual
    BY DEF InTimeInv, Inv
  <1>1. loop = "check" /\ loop' # "check" /\ UNCHANGED <<param, now, real, leaps, arrivedAt, usedAt>>
    BY DEF CheckTimeouts, clockVars
  <1>2. ASSUME NEW last \in Nat, NEW at \in Nat, NEW limit \in Nat \ {0},
               loop' = "wait", Pending(last, at, limit),
               \E t \in Lefts : t <= Left(last, limit)
        PROVE  Awaited(now, real, wake', Reset(last, limit), at, limit, leaps * limit)
    <2>0. PICK t \in Lefts : t <= Left(last, limit)
      BY <1>2
    <2>a. t \in Nat /\ real \in Nat /\ Left(last, limit) \in Int
      <3>1. loop' = "wait" => ~Expired
        BY DEF CheckTimeouts
      <3> QED
        BY <1>0, <1>2, <2>0, <3>1, LeftsPositive DEF Timed, Left, Reset
    <2>b. wake' \in Nat /\ real <= wake' /\ wake' - real <= t
      BY <1>0, <1>2, <2>0, WakeSoon
    <2>1. wake' \in Nat /\ real <= wake' /\ wake' - real <= Reset(last, limit) + limit - now
      <3>1. wake' - real <= Left(last, limit)
        <4>1. t <= Left(last, limit) /\ wake' - real \in Int
          BY <2>0, <2>a, <2>b
        <4> QED
          BY <2>a, <2>b, <4>1, NoLater
      <3> QED
        BY <2>b, <3>1 DEF Left
    <2>2. Checked(now, real, last, at, limit, leaps * limit)
      BY <1>1, <1>2 DEF Pending
    <2>3. leaps * limit \in Nat
      BY <1>0, Budgets DEF Kept
    <2>4. now \in Nat /\ real \in Nat
      BY <1>0 DEF Timed
    <2> QED
      BY <2>1, <2>2, <2>3, <2>4, CheckedAwaited DEF Reset
  <1>3. ASSUME param'.idle # 0, NEW c \in Client, state'[c] \notin {"absent", "closing"}
        PROVE  Pending(lastEvent[c], heard[c], IdleLimit(c))'
    <2>1. /\ c \notin IdleOut /\ state[c] \notin {"absent", "closing"} /\ state'[c] = state[c]
          /\ heard'[c] = heard[c]
          /\ lastEvent'[c] = IF c \in Idlers THEN Reset(lastEvent[c], IdleLimit(c)) ELSE lastEvent[c]
      BY <1>3 DEF CheckTimeouts, Remove
    <2>2. c \in Idlers
      BY <1>1, <1>3, <2>1 DEF Idlers, Listed, Timely
    <2>3. IdleLimit(c) \in Nat \ {0} /\ lastEvent[c] \in Nat /\ heard[c] \in Nat
      BY <1>0, <1>1, <1>3, SettingsTyped DEF Timed
    <2>4. Pending(lastEvent[c], heard[c], IdleLimit(c))
      BY <1>0, <1>1, <1>3, <2>1 DEF Punctual
    <2>5. \E t \in Lefts : t <= Left(lastEvent[c], IdleLimit(c))
      <3>1. Capped(Left(lastEvent[c], IdleLimit(c))) \in Lefts
        BY <2>1, <2>2 DEF Lefts
      <3>2. Left(lastEvent[c], IdleLimit(c)) \in Int
        BY <1>0, <2>3 DEF Timed, Left, Reset
      <3>3. Capped(Left(lastEvent[c], IdleLimit(c))) <= Left(lastEvent[c], IdleLimit(c))
        BY <3>2, TimeoutsAssumption DEF Capped
      <3> QED
        BY <3>1, <3>3
    <2>6. IdleLimit(c)' = IdleLimit(c)
      BY <1>1, <2>1 DEF IdleLimit
    <2>7. loop' = "wait" =>
            Awaited(now, real, wake', Reset(lastEvent[c], IdleLimit(c)), heard[c], IdleLimit(c),
                    leaps * IdleLimit(c))
      BY <1>2, <2>3, <2>4, <2>5
    <2> QED
      BY <1>1, <2>1, <2>2, <2>6, <2>7 DEF Pending
  <1>4. Listed(state') # {} => Listed(state) # {}
    BY DEF CheckTimeouts, Remove, Listed
  <1>5. Listed(state') # {} => lastConnection' # NoTime
    BY <1>0, <1>4 DEF CheckTimeouts, Punctual, Timed, Reset, NoTime
  <1>6. ASSUME param'.maxConnection # 0, Listed(state') # {}
        PROVE  Pending(lastConnection, arrivedAt, param.maxConnection)'
    <2>1. CountsConnection
      BY <1>0, <1>1, <1>4, <1>6 DEF CountsConnection, Punctual, Timely
    <2>2. param.maxConnection \in Nat \ {0} /\ lastConnection \in Nat /\ arrivedAt \in Nat
      BY <1>0, <1>1, <1>6, SettingsTyped DEF Timed
    <2>3. Pending(lastConnection, arrivedAt, param.maxConnection)
      BY <1>0, <1>1, <1>4, <1>6 DEF Punctual
    <2>4. \E t \in Lefts : t <= Left(lastConnection, param.maxConnection)
      <3>1. Left(lastConnection, param.maxConnection) \in Lefts
        BY <2>1 DEF Lefts, ExitLefts
      <3>2. Left(lastConnection, param.maxConnection) \in Int
        BY <1>0, <2>2 DEF Timed, Left, Reset
      <3> QED
        BY <3>1, <3>2
    <2>5. loop' = "wait" =>
            Awaited(now, real, wake', Reset(lastConnection, param.maxConnection), arrivedAt,
                    param.maxConnection, leaps * param.maxConnection)
      BY <1>2, <2>2, <2>3, <2>4
    <2>6. lastConnection' = Reset(lastConnection, param.maxConnection)
      BY <2>1 DEF CheckTimeouts
    <2> QED
      BY <1>1, <2>5, <2>6 DEF Pending
  <1>7. ASSUME param'.maxIdle # 0
        PROVE  Pending(lastInput, usedAt, param.maxIdle)'
    <2>1. CountsInput
      BY <1>1, <1>7 DEF CountsInput, Timely
    <2>2. param.maxIdle \in Nat \ {0} /\ lastInput \in Nat /\ usedAt \in Nat
      BY <1>0, <1>1, <1>7, SettingsTyped DEF Timed
    <2>3. Pending(lastInput, usedAt, param.maxIdle)
      BY <1>0, <1>1, <1>7 DEF Punctual
    <2>4. \E t \in Lefts : t <= Left(lastInput, param.maxIdle)
      <3>1. Left(lastInput, param.maxIdle) \in Lefts
        BY <2>1 DEF Lefts, ExitLefts
      <3>2. Left(lastInput, param.maxIdle) \in Int
        BY <1>0, <2>2 DEF Timed, Left, Reset
      <3> QED
        BY <3>1, <3>2
    <2>5. loop' = "wait" =>
            Awaited(now, real, wake', Reset(lastInput, param.maxIdle), usedAt, param.maxIdle,
                    leaps * param.maxIdle)
      BY <1>2, <2>2, <2>3, <2>4
    <2>6. lastInput' = Reset(lastInput, param.maxIdle)
      BY <2>1 DEF CheckTimeouts
    <2> QED
      BY <1>1, <2>5, <2>6 DEF Pending
  <1> QED
    BY <1>3, <1>5, <1>6, <1>7 DEF Punctual

\* Time passes, or the clock is set, only in the wait.
LEMMA ClockPunctual ==
  ASSUME InTimeInv, Timely, Tick \/ \E d \in Leaps : SetClock(d)
  PROVE  Punctual'
  <1>0. Timed /\ Clocked /\ Kept /\ Punctual
    BY DEF InTimeInv, Inv
  <1>1. /\ loop = "wait" /\ loop' = "wait"
        /\ UNCHANGED <<param, wake, state, lastEvent, heard, lastConnection, lastInput, arrivedAt, usedAt>>
    BY DEF Tick, SetClock, clientVars, serverVars
  <1>2. ASSUME NEW last \in Nat, NEW at \in Nat, NEW limit \in Nat, Pending(last, at, limit)
        PROVE  Awaited(now', real', wake, last, at, limit, leaps' * limit)
    <2>1. Awaited(now, real, wake, last, at, limit, leaps * limit)
      BY <1>1, <1>2 DEF Pending
    <2>2. leaps * limit \in Nat /\ (leaps + 1) * limit = leaps * limit + limit
      BY <1>0, Budgets DEF Kept
    <2>3. now \in Nat /\ real \in Nat /\ wake \in Nat \cup {Forever}
      BY <1>0 DEF Timed, Kept
    <2>4. CASE Tick
      <3>1. real # wake /\ real' = real + 1 /\ now' = now + 1 /\ leaps' = leaps
        BY <2>4 DEF Tick
      <3> QED
        BY <2>1, <2>2, <2>3, <3>1, AwaitedTick
    <2>5. CASE \E d \in Leaps : SetClock(d)
      <3>1. now' \in Nat /\ real' = real /\ leaps' = leaps + 1
        BY <1>0, <2>5, TimeoutsAssumption DEF SetClock, Timed
      <3>2. Awaited(now', real, wake, last, at, limit, leaps * limit + limit)
        BY <2>1, <2>2, <2>3, <3>1, AwaitedLeap
      <3> QED
        BY <2>2, <3>1, <3>2
    <2> QED
      BY <2>4, <2>5
  <1>3. ASSUME param'.idle # 0, NEW c \in Client, state'[c] \notin {"absent", "closing"}
        PROVE  Pending(lastEvent[c], heard[c], IdleLimit(c))'
    <2>1. IdleLimit(c) \in Nat /\ lastEvent[c] \in Nat /\ heard[c] \in Nat
      BY <1>0, SettingsTyped DEF Timed
    <2>2. Pending(lastEvent[c], heard[c], IdleLimit(c))
      BY <1>0, <1>1, <1>3 DEF Punctual
    <2>3. Awaited(now', real', wake, lastEvent[c], heard[c], IdleLimit(c), leaps' * IdleLimit(c))
      BY <1>2, <2>1, <2>2
    <2>4. IdleLimit(c)' = IdleLimit(c)
      BY <1>1 DEF IdleLimit
    <2> QED
      BY <1>1, <2>3, <2>4 DEF Pending
  <1>4. Listed(state') = Listed(state)
    BY <1>1
  <1>5. ASSUME param'.maxConnection # 0, Listed(state') # {}
        PROVE  Pending(lastConnection, arrivedAt, param.maxConnection)'
    <2>1. param.maxConnection \in Nat /\ lastConnection \in Nat /\ arrivedAt \in Nat
      BY <1>0, SettingsTyped DEF Timed
    <2>2. Pending(lastConnection, arrivedAt, param.maxConnection)
      BY <1>0, <1>1, <1>4, <1>5 DEF Punctual
    <2> QED
      BY <1>1, <1>2, <2>1, <2>2 DEF Pending
  <1>6. ASSUME param'.maxIdle # 0
        PROVE  Pending(lastInput, usedAt, param.maxIdle)'
    <2>1. param.maxIdle \in Nat /\ lastInput \in Nat /\ usedAt \in Nat
      BY <1>0, SettingsTyped DEF Timed
    <2>2. Pending(lastInput, usedAt, param.maxIdle)
      BY <1>0, <1>1, <1>6 DEF Punctual
    <2> QED
      BY <1>1, <1>2, <2>1, <2>2 DEF Pending
  <1>7. Listed(state') # {} => lastConnection' # NoTime
    BY <1>0, <1>1, <1>4 DEF Punctual
  <1> QED
    BY <1>3, <1>5, <1>6, <1>7 DEF Punctual

\* An entry of the blacklist stays one: its timeout wraps.
LEMMA MarkedEntry ==
  ASSUME NEW e \in Entry, NEW threshold \in Nat, NEW n \in Nat
  PROVE  Marked(e, threshold, n) \in Entry
  <1>1. CASE e.marks < threshold
    BY <1>1 DEF Marked, Entry
  <1>2. CASE ~(e.marks < threshold) /\ n < e.blockUntil
    BY <1>2 DEF Marked
  <1>3. CASE ~(e.marks < threshold) /\ ~(n < e.blockUntil)
    <2> DEFINE doubled == (2 * e.blockTimeout) % Modulus
    <2>1. e.blockTimeout \in Nat
      BY ModulusAssumption DEF Entry
    <2>2. doubled \in 0..(Modulus - 1)
      BY <2>1, ModulusAssumption
    <2>3. Marked(e, threshold, n) = [e EXCEPT !.blockUntil = n + e.blockTimeout,
                                              !.blockTimeout = doubled]
      BY <1>3 DEF Marked
    <2>4. n + e.blockTimeout \in Nat
      BY <2>1
    <2> HIDE DEF doubled
    <2> QED
      BY <2>2, <2>3, <2>4 DEF Entry
  <1> QED
    BY <1>1, <1>2, <1>3

LEMMA KeptNext == Inv /\ Kept /\ [Next]_vars => Kept'
  <1> SUFFICES ASSUME Inv, Kept, [Next]_vars PROVE Kept'
    OBVIOUS
  <1>0. Timed
    BY DEF Inv
  <1>1. CASE CheckTimeouts
    <2>1. loop' \in {"check", "wait", "exited"} /\ UNCHANGED <<leaps, blackVars>>
      BY <1>1 DEF CheckTimeouts, clockVars
    <2>2. wake' \in Nat \cup {Forever}
      BY <1>0, <1>1, WakesTyped
    <2> QED
      BY <2>1, <2>2 DEF Kept, blackVars
  <1>2. CASE Tick
    BY <1>2 DEF Tick, Kept, blackVars
  <1>3. ASSUME NEW d \in Leaps, SetClock(d) PROVE Kept'
    BY <1>3 DEF SetClock, Kept, blackVars
  <1>4. ASSUME NEW c \in Client, AddSocket(c) PROVE Kept'
    <2> DEFINE h == Peer[c]
               e == IF blm[h] = NoEntry THEN NewEntry(param.initialTimeout) ELSE blm[h]
    <2>1. h \in Host /\ param.threshold \in Nat /\ param.initialTimeout \in 0..(Modulus - 1)
      BY <1>0, TimeoutsAssumption DEF Timed
    <2>2. e \in Entry
      BY <2>1 DEF Kept, NewEntry, Entry
    <2>3. /\ loop' = "check" /\ wake' = wake /\ leaps' = leaps
          /\ attempts' = [attempts EXCEPT ![h] = @ + 1]
          /\ blm' = [blm EXCEPT ![h] = Marked(e, param.threshold, now)]
          /\ \/ UNCHANGED <<tries, triedAt>>
             \/ tries' = [tries EXCEPT ![h] = @ + 1] /\ triedAt' = [triedAt EXCEPT ![h] = real]
      BY <1>4 DEF AddSocket, Handle, clockVars
    <2>4. Marked(e, param.threshold, now) \in Entry /\ real \in Nat
      BY <1>0, <2>1, <2>2, MarkedEntry DEF Timed
    <2> HIDE DEF h, e
    <2> QED
      BY <2>1, <2>3, <2>4 DEF Kept
  <1>5. ASSUME NEW c \in Client, QueryConnection(c) PROVE Kept'
    <2>1. NoEntry \in Entry
      BY ModulusAssumption DEF NoEntry, Entry
    <2>2. Peer[c] \in Host
      BY TimeoutsAssumption
    <2>3. /\ loop' = "check" /\ UNCHANGED <<wake, leaps, attempts, triedAt>>
          /\ blm' = [blm EXCEPT ![Peer[c]] = NoEntry] /\ tries' = [tries EXCEPT ![Peer[c]] = 0]
      BY <1>5 DEF QueryConnection, Handle, clockVars
    <2> QED
      BY <2>1, <2>2, <2>3 DEF Kept
  <1>6. CASE Handle /\ UNCHANGED blackVars
    BY <1>6 DEF Kept, Handle, blackVars, clockVars
  <1>7. CASE UNCHANGED vars
    BY <1>7 DEF vars, Kept, blackVars, clockVars
  <1> QED
    BY <1>1, <1>2, <1>3, <1>4, <1>5, <1>6, <1>7
    DEF Next, WaitEnds, CloseClients, ApproveConnection, ClientInit, Input, Leave

LEMMA InTimeInit == Init => InTimeInv
  <1> SUFFICES ASSUME Init PROVE InTimeInv
    OBVIOUS
  <1>1. Inv
    BY InvInit
  <1>2. Kept
    <2>1. NoEntry \in Entry
      BY ModulusAssumption DEF NoEntry, Entry
    <2> QED
      BY <2>1 DEF Init, Kept
  <1>3. Punctual
    <2>1. \A c \in Client : state[c] = "absent"
      BY DEF Init
    <2>2. param.maxIdle \in Nat
      BY <1>1, SettingsTyped DEF Inv
    <2>3. Pending(lastInput, usedAt, param.maxIdle)
      BY <2>2, Budgets DEF Init, Pending, Checked
    <2> QED
      BY <2>1, <2>3 DEF Punctual, Listed
  <1> QED
    BY <1>1, <1>2, <1>3 DEF InTimeInv

LEMMA InTimeNext == InTimeInv /\ [Next]_vars => InTimeInv'
  <1> SUFFICES ASSUME InTimeInv, [Next]_vars PROVE InTimeInv'
    OBVIOUS
  <1>1. Inv' /\ Kept'
    BY InvNext, KeptNext DEF InTimeInv
  <1>2. ASSUME Timely' PROVE Punctual'
    <2>1. Timely
      <3>1. param' = param
        BY DEF Next, vars, Handle, CheckTimeouts, WaitEnds, CloseClients, Tick, SetClock,
               AddSocket, QueryConnection, ApproveConnection, ClientInit, Input, Leave
      <3> QED
        BY <1>2, <3>1 DEF Timely
    <2>2. CASE UNCHANGED vars
      BY <2>1, <2>2 DEF InTimeInv, Punctual, Pending, IdleLimit, Listed, vars, clientVars,
                        serverVars, blackVars, clockVars
    <2> QED
      BY <2>1, <2>2, NextNoted, NotedPunctual, CheckPunctual, ClockPunctual DEF InTimeInv, Inv
  <1> QED
    BY <1>1, <1>2 DEF InTimeInv

LEMMA InTimeInvariance == Spec => []InTimeInv
  BY InTimeInit, InTimeNext, PTL DEF Spec

-----------------------------------------------------------------------------
(* The blacklist: powers of two, first.  A recursive function is what its  *)
(* equation says only if there is such a function.                         *)

PowersTo(n, f) ==
  f \in [0..n -> Nat] /\ f[0] = 1 /\ \A k \in 1..n : f[k] = 2 * f[k - 1]

\* A set of naturals that is not empty has a least element.
LEMMA LeastNatural ==
  ASSUME NEW S \in SUBSET Nat, S # {}
  PROVE  \E x \in S : \A y \in S : x <= y
  <1>1. PICK y \in S : TRUE
    OBVIOUS
  <1> QED
    BY <1>1, SoonestLeast

LEMMA PowersExist == \A n \in Nat : \E f : PowersTo(n, f)
  <1> DEFINE Without == { n \in Nat : ~\E f : PowersTo(n, f) }
  <1> SUFFICES ASSUME Without # {} PROVE FALSE
    OBVIOUS
  <1>1. PICK n \in Without : \A m \in Without : n <= m
    BY LeastNatural
  <1>2. CASE n = 0
    <2>1. PowersTo(0, [k \in 0..0 |-> 1])
      BY DEF PowersTo
    <2> QED
      BY <1>2, <2>1
  <1>3. CASE n # 0
    <2>1. n - 1 \in Nat /\ n - 1 \notin Without
      BY <1>1, <1>3
    <2>2. PICK f : PowersTo(n - 1, f)
      BY <2>1
    <2> DEFINE g == [k \in 0..n |-> IF k = n THEN 2 * f[n - 1] ELSE f[k]]
    <2>3. f \in [0..(n - 1) -> Nat] /\ f[0] = 1 /\ \A k \in 1..(n - 1) : f[k] = 2 * f[k - 1]
      BY <2>2 DEF PowersTo
    <2>4. n - 1 \in 0..(n - 1) /\ \A k \in 0..n : k # n => k \in 0..(n - 1)
      BY <2>1
    <2>5. g \in [0..n -> Nat]
      BY <2>3, <2>4
    <2>6. g[0] = 1
      BY <1>3, <2>1, <2>3
    <2>7. ASSUME NEW k \in 1..n PROVE g[k] = 2 * g[k - 1]
      <3>1. k - 1 \in 0..n /\ k \in 0..n /\ k - 1 # n
        BY <2>1
      <3>2. g[k - 1] = f[k - 1]
        BY <3>1
      <3>3. CASE k = n
        BY <3>1, <3>2, <3>3
      <3>4. CASE k # n
        <4>1. k \in 1..(n - 1)
          BY <2>1, <3>4
        <4> QED
          BY <2>3, <3>1, <3>2, <3>4, <4>1
      <3> QED
        BY <3>3, <3>4
    <2> HIDE DEF g
    <2>8. PowersTo(n, g)
      BY <2>5, <2>6, <2>7 DEF PowersTo
    <2> QED
      BY <2>8
  <1> QED
    BY <1>2, <1>3

LEMMA PowersUnique ==
  ASSUME NEW m \in Nat, NEW n \in Nat, NEW f, NEW g, PowersTo(m, f), PowersTo(n, g)
  PROVE  \A k \in 0..m : k <= n => f[k] = g[k]
  <1> DEFINE Differ == { k \in Nat : k <= m /\ k <= n /\ f[k] # g[k] }
  <1> SUFFICES ASSUME Differ # {} PROVE FALSE
    OBVIOUS
  <1>1. PICK k \in Differ : \A l \in Differ : k <= l
    BY LeastNatural
  <1>2. k \in 1..m /\ k \in 1..n
    <2>1. k # 0
      BY DEF PowersTo
    <2> QED
      BY <2>1
  <1>3. k - 1 \notin Differ /\ k - 1 \in Nat /\ k - 1 <= m /\ k - 1 <= n
    BY <1>1, <1>2
  <1>4. f[k - 1] = g[k - 1]
    BY <1>3
  <1> QED
    BY <1>2, <1>4 DEF PowersTo

LEMMA Powers ==
  /\ PowerOf2[0] = 1
  /\ \A k \in Nat : PowerOf2[k] \in Nat /\ PowerOf2[k + 1] = 2 * PowerOf2[k]
  <1> DEFINE To(n) == CHOOSE f : PowersTo(n, f)
             P == [n \in Nat |-> To(n)[n]]
  <1>1. \A n \in Nat : PowersTo(n, To(n))
    BY PowersExist
  <1>2. \A n \in Nat : P[n] \in Nat
    <2> SUFFICES ASSUME NEW n \in Nat PROVE P[n] \in Nat
      OBVIOUS
    <2> HIDE DEF To
    <2> QED
      BY <1>1 DEF PowersTo
  <1>3. P[0] = 1
    <2> HIDE DEF To
    <2> QED
      BY <1>1 DEF PowersTo
  <1>4. ASSUME NEW n \in Nat, n # 0 PROVE P[n] = 2 * P[n - 1]
    <2>1. n - 1 \in Nat /\ n - 1 \in 0..(n - 1) /\ n \in 1..n /\ n - 1 <= n
      BY <1>4
    <2>2. PowersTo(n - 1, To(n - 1)) /\ PowersTo(n, To(n))
      BY <1>1, <2>1
    <2> HIDE DEF To
    <2>3. To(n - 1)[n - 1] = To(n)[n - 1]
      BY <2>1, <2>2, PowersUnique
    <2>4. To(n)[n] = 2 * To(n)[n - 1]
      BY <2>1, <2>2 DEF PowersTo
    <2> QED
      BY <2>1, <2>3, <2>4
  <1> HIDE DEF P
  <1>5. P = [n \in Nat |-> IF n = 0 THEN 1 ELSE 2 * P[n - 1]]
    <2>1. P = [n \in Nat |-> P[n]]
      BY DEF P
    <2>2. \A n \in Nat : P[n] = IF n = 0 THEN 1 ELSE 2 * P[n - 1]
      BY <1>3, <1>4
    <2> QED
      BY <2>1, <2>2
  <1>6. PowerOf2 = [n \in Nat |-> IF n = 0 THEN 1 ELSE 2 * PowerOf2[n - 1]]
    BY <1>5 DEF PowerOf2
  <1> DEFINE Twos == { n \in Nat : PowerOf2[n] # P[n] }
  <1>7. Twos = {}
    <2> SUFFICES ASSUME Twos # {} PROVE FALSE
      OBVIOUS
    <2>1. PICK n \in Twos : \A m \in Twos : n <= m
      BY LeastNatural
    <2>2. n = 0 \/ (n - 1 \in Nat /\ n - 1 \notin Twos)
      BY <2>1
    <2>3. PowerOf2[n] = IF n = 0 THEN 1 ELSE 2 * PowerOf2[n - 1]
      BY <1>6
    <2> QED
      BY <1>3, <1>4, <2>2, <2>3
  <1>8. \A n \in Nat : PowerOf2[n] = P[n]
    BY <1>7
  <1>9. ASSUME NEW k \in Nat PROVE PowerOf2[k + 1] = 2 * PowerOf2[k]
    <2>1. k + 1 \in Nat /\ k + 1 # 0 /\ k + 1 - 1 = k
      OBVIOUS
    <2> QED
      BY <1>4, <1>8, <2>1
  <1> QED
    BY <1>2, <1>3, <1>8, <1>9

\* A remainder is what it is of.
LEMMA Remainder ==
  ASSUME NEW m \in Nat \ {0}, NEW n \in Nat
  PROVE  n % m \in 0..(m - 1) /\ \E q \in Nat : n = m * q + (n % m)
  <1>1. n % m \in 0..(m - 1)
    OBVIOUS
  <1>2. n \div m \in Nat /\ n = m * (n \div m) + (n % m)
    OBVIOUS
  <1> QED
    BY <1>1, <1>2

LEMMA RemainderIs ==
  ASSUME NEW m \in Nat \ {0}, NEW q \in Nat, NEW r \in 0..(m - 1)
  PROVE  (m * q + r) % m = r
  OBVIOUS

LEMMA DoubleRemainder ==
  ASSUME NEW m \in Nat \ {0}, NEW n \in Nat
  PROVE  (2 * (n % m)) % m = (2 * n) % m
  <1> DEFINE r == n % m
  <1>1. r \in 0..(m - 1)
    BY Remainder
  <1>2. PICK q \in Nat : n = m * q + r
    BY Remainder
  <1> HIDE DEF r
  <1>3. CASE 2 * r < m
    <2>1. 2 * r \in 0..(m - 1) /\ 2 * q \in Nat
      BY <1>1, <1>3
    <2>2. 2 * n = m * (2 * q) + 2 * r
      BY <1>1, <1>2
    <2>3. 2 * r = m * 0 + 2 * r
      BY <1>1
    <2>4. (m * 0 + 2 * r) % m = 2 * r
      BY <2>1, RemainderIs
    <2>5. (m * (2 * q) + 2 * r) % m = 2 * r
      BY <2>1, RemainderIs
    <2> QED
      BY <2>2, <2>3, <2>4, <2>5 DEF r
  <1>4. CASE ~(2 * r < m)
    <2> DEFINE s == 2 * r - m
    <2>1. s \in 0..(m - 1) /\ 2 * q + 1 \in Nat
      BY <1>1, <1>4
    <2>2. 2 * n = m * (2 * q + 1) + s
      BY <1>1, <1>2
    <2>3. 2 * r = m * 1 + s
      BY <1>1
    <2> HIDE DEF s
    <2>4. (m * 1 + s) % m = s
      BY <2>1, RemainderIs
    <2>5. (m * (2 * q + 1) + s) % m = s
      BY <2>1, RemainderIs
    <2> QED
      BY <2>2, <2>3, <2>4, <2>5 DEF r
  <1> QED
    BY <1>1, <1>3, <1>4

-----------------------------------------------------------------------------
(* What the blacklist knows of a host that was let in n times since it     *)
(* last authenticated, the last time at that real time.                    *)

EntryAfter(n, at) ==
  IF n < FreeTries THEN [marks |-> n + 1, blockUntil |-> 0, blockTimeout |-> param.initialTimeout]
  ELSE [marks |-> FreeTries,
        blockUntil |-> Start + at + WaitAfter(n - FreeTries),
        blockTimeout |-> WaitAfter(n - FreeTries + 1)]

\* Of a clock that was not set: the entry tells all that FailuresBarHost needs.
Remembered ==
  leaps = 0 =>
    /\ now = Start + real
    /\ \A h \in Host : blm[h] = IF tries[h] = 0 THEN NoEntry ELSE EntryAfter(tries[h], triedAt[h])

BlackInv == InTimeInv /\ Remembered

LEMMA Waits ==
  ASSUME Timed
  PROVE  /\ FreeTries \in Nat \ {0} /\ param.threshold \in Nat
         /\ param.initialTimeout \in 0..(Modulus - 1)
         /\ WaitAfter(0) = param.initialTimeout
         /\ \A k \in Nat : WaitAfter(k) \in Nat /\ WaitAfter(k + 1) = (2 * WaitAfter(k)) % Modulus
  <1> DEFINE i == param.initialTimeout
  <1>1. i \in 0..(Modulus - 1) /\ param.threshold \in Nat /\ Modulus \in Nat \ {0}
    BY TimeoutsAssumption, ModulusAssumption DEF Timed
  <1>2. FreeTries \in Nat \ {0}
    BY <1>1 DEF FreeTries
  <1> HIDE DEF i
  <1>3. \A k \in Nat : WaitAfter(k) = (i * PowerOf2[k]) % Modulus
    BY DEF WaitAfter, i
  <1>4. WaitAfter(0) = i
    <2>1. i * PowerOf2[0] = Modulus * 0 + i
      BY <1>1, Powers
    <2> QED
      BY <1>1, <1>3, <2>1, RemainderIs
  <1>5. ASSUME NEW k \in Nat
        PROVE  WaitAfter(k) \in Nat /\ WaitAfter(k + 1) = (2 * WaitAfter(k)) % Modulus
    <2> DEFINE n == i * PowerOf2[k]
    <2>1. n \in Nat /\ i * PowerOf2[k + 1] = 2 * n
      <3>1. /\ PowerOf2[k] \in Nat /\ i \in Nat
            /\ PowerOf2[k + 1] = 2 * PowerOf2[k]
        BY <1>1, Powers
      <3> QED
        BY <3>1
    <2> HIDE DEF n
    <2>2. WaitAfter(k) = n % Modulus /\ WaitAfter(k + 1) = (2 * n) % Modulus
      BY <1>3, <2>1 DEF n
    <2>3. n % Modulus \in Nat
      BY <1>1, <2>1, Remainder
    <2>4. (2 * (n % Modulus)) % Modulus = (2 * n) % Modulus
      BY <1>1, <2>1, DoubleRemainder
    <2> QED
      BY <2>2, <2>3, <2>4
  <1> QED
    BY <1>1, <1>2, <1>4, <1>5 DEF i

\* Such a host is turned away exactly if it is barred, and the entry then
\* stays; otherwise it becomes the next one.
LEMMA MarkedNext ==
  ASSUME Timed, NEW n \in Nat, NEW at \in Nat, now = Start + real
  PROVE  /\ IsBlackmarked(EntryAfter(n, at), param.threshold, now)
             <=> n >= FreeTries /\ real - at < WaitAfter(n - FreeTries)
         /\ IsBlackmarked(EntryAfter(n, at), param.threshold, now)
              => Marked(EntryAfter(n, at), param.threshold, now) = EntryAfter(n, at)
         /\ ~IsBlackmarked(EntryAfter(n, at), param.threshold, now)
              => Marked(EntryAfter(n, at), param.threshold, now) = EntryAfter(n + 1, real)
  <1> DEFINE e == EntryAfter(n, at)
             t == param.threshold
  <1>1. now \in Nat /\ real \in Nat /\ Start \in Nat
    BY TimeoutsAssumption DEF Timed
  <1>2. t \in Nat /\ FreeTries \in Nat \ {0} /\ FreeTries >= t /\ FreeTries = IF t = 0 THEN 1 ELSE t
    BY Waits DEF FreeTries
  <1>3. CASE n < FreeTries
    <2>1. e = [marks |-> n + 1, blockUntil |-> 0, blockTimeout |-> param.initialTimeout]
      BY <1>3 DEF EntryAfter
    <2> HIDE DEF e, t
    <2>2. e.marks = n + 1 /\ e.blockUntil = 0 /\ e.blockTimeout = param.initialTimeout
      BY <2>1
    <2>3. ~IsBlackmarked(e, t, now)
      BY <1>1, <2>2 DEF IsBlackmarked
    <2>4. CASE n + 1 < t
      <3>1. n + 1 < FreeTries
        BY <1>2, <2>4
      <3>2. EntryAfter(n + 1, real)
              = [marks |-> n + 2, blockUntil |-> 0, blockTimeout |-> param.initialTimeout]
        BY <3>1 DEF EntryAfter
      <3>3. Marked(e, t, now) = [e EXCEPT !.marks = @ + 1]
        BY <2>2, <2>4 DEF Marked
      <3>4. Marked(e, t, now) = EntryAfter(n + 1, real)
        BY <2>1, <3>2, <3>3
      <3> QED
        BY <1>2, <1>3, <2>3, <3>4 DEF e, t
    <2>5. CASE ~(n + 1 < t)
      <3>1. n + 1 = FreeTries
        BY <1>2, <1>3, <2>5
      <3>2. EntryAfter(n + 1, real)
              = [marks |-> FreeTries, blockUntil |-> Start + real + WaitAfter(0),
                 blockTimeout |-> WaitAfter(1)]
        <4>1. ~(n + 1 < FreeTries) /\ (n + 1) - FreeTries = 0 /\ 0 + 1 = 1
          BY <1>2, <3>1
        <4> QED
          BY <4>1 DEF EntryAfter
      <3>3. Marked(e, t, now) = [e EXCEPT !.blockUntil = now + e.blockTimeout,
                                          !.blockTimeout = (2 * @) % Modulus]
        BY <1>1, <2>2, <2>5 DEF Marked
      <3>4. /\ WaitAfter(0) = param.initialTimeout
            /\ WaitAfter(1) = (2 * param.initialTimeout) % Modulus
        <4>1. WaitAfter(0 + 1) = (2 * WaitAfter(0)) % Modulus
          BY Waits
        <4> QED
          BY <4>1, Waits
      <3>5. Marked(e, t, now) = EntryAfter(n + 1, real)
        BY <2>1, <2>2, <3>1, <3>2, <3>3, <3>4
      <3> QED
        BY <1>2, <1>3, <2>3, <3>5 DEF e, t
    <2> QED
      BY <2>4, <2>5
  <1>4. CASE ~(n < FreeTries)
    <2> DEFINE k == n - FreeTries
    <2>1. k \in Nat /\ WaitAfter(k) \in Nat /\ WaitAfter(k + 1) \in Nat
          /\ WaitAfter(k + 2) = (2 * WaitAfter(k + 1)) % Modulus
      <3>1. k \in Nat /\ k + 1 \in Nat /\ k + 1 + 1 = k + 2
        BY <1>2, <1>4
      <3> HIDE DEF k
      <3>2. WaitAfter(k + 1 + 1) = (2 * WaitAfter(k + 1)) % Modulus
        BY <3>1, Waits
      <3> QED
        BY <3>1, <3>2, Waits
    <2>2. e = [marks |-> FreeTries, blockUntil |-> Start + at + WaitAfter(k),
               blockTimeout |-> WaitAfter(k + 1)]
      BY <1>4 DEF EntryAfter
    <2>3. EntryAfter(n + 1, real)
            = [marks |-> FreeTries, blockUntil |-> Start + real + WaitAfter(k + 1),
               blockTimeout |-> WaitAfter(k + 2)]
      <3>1. ~(n + 1 < FreeTries) /\ (n + 1) - FreeTries = k + 1 /\ (n + 1) - FreeTries + 1 = k + 2
        BY <1>2, <1>4
      <3> HIDE DEF k
      <3> QED
        BY <3>1 DEF EntryAfter
    <2> HIDE DEF e, t
    <2>4. e.marks = FreeTries /\ e.blockUntil = Start + at + WaitAfter(k)
          /\ e.blockTimeout = WaitAfter(k + 1)
      BY <2>2
    <2>5. IsBlackmarked(e, t, now) <=> real - at < WaitAfter(k)
      <3> HIDE DEF k
      <3> QED
        BY <1>1, <1>2, <2>1, <2>4 DEF IsBlackmarked
    <2>6. IsBlackmarked(e, t, now) => Marked(e, t, now) = e
      BY <1>2, <2>4 DEF IsBlackmarked, Marked
    <2>7. ASSUME ~IsBlackmarked(e, t, now)
          PROVE  Marked(e, t, now) = EntryAfter(n + 1, real)
      <3>1. Marked(e, t, now) = [e EXCEPT !.blockUntil = now + e.blockTimeout,
                                          !.blockTimeout = (2 * @) % Modulus]
        BY <1>2, <2>4, <2>7 DEF IsBlackmarked, Marked
      <3> HIDE DEF k
      <3> QED
        BY <2>1, <2>2, <2>3, <2>4, <3>1
    <2> QED
      BY <1>2, <1>4, <2>5, <2>6, <2>7 DEF e, t, k
  <1> QED
    BY <1>2, <1>3, <1>4

\* A host without an entry is as one that was never let in.
LEMMA EntryUsed ==
  ASSUME BlackInv, leaps = 0, NEW h \in Host
  PROVE  /\ tries[h] \in Nat /\ triedAt[h] \in Nat
         /\ (IF blm[h] = NoEntry THEN NewEntry(param.initialTimeout) ELSE blm[h])
              = EntryAfter(tries[h], triedAt[h])
         /\ tries[h] = 0 <=> blm[h] = NoEntry
  <1>0. Timed /\ Kept
    BY DEF BlackInv, InTimeInv, Inv
  <1>1. tries[h] \in Nat /\ triedAt[h] \in Nat
    BY <1>0 DEF Kept
  <1>2. FreeTries \in Nat \ {0}
    BY <1>0, Waits
  <1>3. blm[h] = IF tries[h] = 0 THEN NoEntry ELSE EntryAfter(tries[h], triedAt[h])
    BY DEF BlackInv, Remembered
  <1>4. EntryAfter(tries[h], triedAt[h]).marks \in Nat \ {0}
    BY <1>1, <1>2 DEF EntryAfter
  <1>5. tries[h] = 0 => NewEntry(param.initialTimeout) = EntryAfter(tries[h], triedAt[h])
    BY <1>1, <1>2 DEF NewEntry, EntryAfter
  <1> QED
    BY <1>1, <1>3, <1>4, <1>5 DEF NoEntry

\* An attempt: turned away or let in, by what the host did before.
LEMMA Attempt ==
  ASSUME BlackInv, leaps = 0, NEW c \in Client, AddSocket(c)
  PROVE  LET h == Peer[c] IN
         /\ h \in Host
         /\ attempts' = [attempts EXCEPT ![h] = @ + 1]
         /\ \/ /\ Barred(h)
               /\ UNCHANGED <<blm, tries, triedAt>>
            \/ /\ ~Barred(h)
               /\ blm' = [blm EXCEPT ![h] = EntryAfter(tries[h] + 1, real)]
               /\ tries' = [tries EXCEPT ![h] = @ + 1]
               /\ triedAt' = [triedAt EXCEPT ![h] = real]
  <1> DEFINE h == Peer[c]
             e == IF blm[h] = NoEntry THEN NewEntry(param.initialTimeout) ELSE blm[h]
             t == param.threshold
  <1>0. Timed /\ Kept /\ Remembered
    BY DEF BlackInv, InTimeInv, Inv
  <1>1. h \in Host
    BY TimeoutsAssumption
  <1>2. /\ attempts' = [attempts EXCEPT ![h] = @ + 1]
        /\ blm' = [blm EXCEPT ![h] = Marked(e, t, now)]
        /\ \/ IsBlackmarked(e, t, now) /\ UNCHANGED <<tries, triedAt>>
           \/ /\ ~IsBlackmarked(e, t, now)
              /\ tries' = [tries EXCEPT ![h] = @ + 1] /\ triedAt' = [triedAt EXCEPT ![h] = real]
    BY DEF AddSocket
  <1>3. /\ tries[h] \in Nat /\ triedAt[h] \in Nat
        /\ e = EntryAfter(tries[h], triedAt[h])
        /\ tries[h] = 0 <=> blm[h] = NoEntry
    BY <1>1, EntryUsed
  <1>4. now = Start + real /\ FreeTries \in Nat \ {0} /\ blm \in [Host -> Entry]
    BY <1>0, Waits DEF Remembered, Kept
  <1> HIDE DEF h, t
  <1>5. /\ IsBlackmarked(e, t, now) <=> Barred(h)
        /\ IsBlackmarked(e, t, now) => Marked(e, t, now) = e
        /\ ~IsBlackmarked(e, t, now) => Marked(e, t, now) = EntryAfter(tries[h] + 1, real)
    BY <1>0, <1>3, <1>4, MarkedNext DEF Barred, t
  <1>6. Barred(h) => blm[h] = e
    BY <1>3, <1>4 DEF Barred
  <1> HIDE DEF e
  <1>7. Barred(h) => UNCHANGED <<blm, tries, triedAt>>
    BY <1>2, <1>4, <1>5, <1>6
  <1>8. ~Barred(h) => /\ blm' = [blm EXCEPT ![h] = EntryAfter(tries[h] + 1, real)]
                      /\ tries' = [tries EXCEPT ![h] = @ + 1]
                      /\ triedAt' = [triedAt EXCEPT ![h] = real]
    BY <1>2, <1>5
  <1> QED
    BY <1>1, <1>2, <1>7, <1>8 DEF h

\* Nobody else touches the blacklist, but for the host that authenticates.
LEMMA Untouched ==
  ASSUME [Next]_vars, ~\E c \in Client : AddSocket(c)
  PROVE  /\ attempts' = attempts /\ triedAt' = triedAt
         /\ \/ UNCHANGED <<blm, tries>>
            \/ \E h : blm' = [blm EXCEPT ![h] = NoEntry] /\ tries' = [tries EXCEPT ![h] = 0]
  BY DEF Next, vars, blackVars, CheckTimeouts, WaitEnds, CloseClients, Tick, SetClock, QueryConnection,
         ApproveConnection, ClientInit, Input, Leave

LEMMA BlackNext == BlackInv /\ [Next]_vars => BlackInv'
  <1> SUFFICES ASSUME BlackInv, [Next]_vars PROVE BlackInv'
    OBVIOUS
  <1>0. Timed /\ Kept /\ InTimeInv /\ Remembered
    BY DEF BlackInv, InTimeInv, Inv
  <1>1. InTimeInv'
    BY <1>0, InTimeNext
  <1>2. ASSUME leaps' = 0 PROVE leaps = 0 /\ param' = param /\ now' = Start + real'
    <2>1. CASE Tick
      BY <1>0, <1>2, <2>1, TimeoutsAssumption DEF Tick, Remembered, Kept, Timed
    <2>2. CASE \E d \in Leaps : SetClock(d)
      BY <1>0, <1>2, <2>2 DEF SetClock, Kept
    <2>3. CASE UNCHANGED <<param, clockVars>>
      BY <1>0, <1>2, <2>3 DEF clockVars, Remembered
    <2>4. Tick \/ (\E d \in Leaps : SetClock(d)) \/ UNCHANGED <<param, clockVars>>
      BY DEF Next, vars, CheckTimeouts, Handle, WaitEnds, CloseClients, AddSocket, QueryConnection,
             ApproveConnection, ClientInit, Input, Leave
    <2> QED
      BY <2>1, <2>2, <2>3, <2>4
  <1>3. ASSUME leaps' = 0, NEW h \in Host
        PROVE  blm'[h] = IF tries'[h] = 0 THEN NoEntry ELSE EntryAfter(tries'[h], triedAt'[h])
    <2>1. /\ tries \in [Host -> Nat] /\ triedAt \in [Host -> Nat] /\ blm \in [Host -> Entry]
          /\ blm[h] = IF tries[h] = 0 THEN NoEntry ELSE EntryAfter(tries[h], triedAt[h])
      BY <1>0, <1>2, <1>3 DEF Kept, Remembered
    <2>2. ASSUME NEW c \in Client, AddSocket(c)
          PROVE  blm'[h] = IF tries'[h] = 0 THEN NoEntry ELSE EntryAfter(tries'[h], triedAt'[h])
      BY <1>2, <1>3, <2>1, <2>2, Attempt
    <2>3. CASE ~\E c \in Client : AddSocket(c)
      BY <2>1, <2>3, Untouched
    <2> QED
      BY <2>2, <2>3
  <1>4. Remembered'
    <2> SUFFICES ASSUME leaps' = 0
                 PROVE  /\ now' = Start + real'
                        /\ \A h \in Host :
                             blm'[h] = IF tries'[h] = 0 THEN NoEntry
                                       ELSE EntryAfter(tries[h], triedAt[h])'
      BY DEF Remembered
    <2>1. \A h \in Host : EntryAfter(tries[h], triedAt[h])' = EntryAfter(tries'[h], triedAt'[h])
      BY <1>2 DEF EntryAfter, FreeTries, WaitAfter
    <2> QED
      BY <1>2, <1>3, <2>1
  <1> QED
    BY <1>1, <1>4 DEF BlackInv

LEMMA BlackInvariance == Spec => []BlackInv
  <1>1. Init => BlackInv
    <2>1. Init => Remembered
      BY TimeoutsAssumption DEF Init, Remembered
    <2> QED
      BY <2>1, InTimeInit DEF BlackInv
  <1> QED
    BY <1>1, BlackNext, PTL DEF Spec

-----------------------------------------------------------------------------
(* The theorems.                                                           *)

\* However often the clock is set backwards, no client is closed as idle
\* before it was silent for its idle timeout.
THEOREM NeverEarly == Spec => IdleNotEarly
  <1>1. ASSUME Inv, [Next]_vars,
               NEW c \in Client, loop = "check", state[c] \notin {"absent", "closing"},
               state'[c] = "absent"
        PROVE  param.idle # 0 /\ (leapt \/ real - heard[c] >= Promised(c))
    <2>1. CheckTimeouts
      BY <1>1 DEF Next, vars, clientVars, Tick, SetClock, WaitEnds, CloseClients, AddSocket,
                  QueryConnection, ApproveConnection, ClientInit, Input, Leave, Handle
    <2>2. c \in IdleOut
      BY <1>1, <2>1 DEF CheckTimeouts, Remove
    <2>3. param.idle # 0 /\ Left(lastEvent[c], IdleLimit(c)) <= 0
      BY <2>2 DEF IdleOut, Idlers
    <2>4. Since(lastEvent[c], heard[c]) /\ lastEvent[c] \in Nat /\ heard[c] \in Nat
      BY <1>1 DEF Inv, Timed, Clocked
    <2>5. leapt \/ real - heard[c] >= IdleLimit(c)
      BY <1>1, <2>3, <2>4, SettingsTyped, DueLasted DEF Inv
    <2> QED
      BY <2>3, <2>5 DEF IdleLimit, Promised
  <1>2. Inv /\ [Next]_vars =>
          [\A c \in Client :
             loop = "check" /\ state[c] \notin {"absent", "closing"} /\ state'[c] = "absent" =>
               param.idle # 0 /\ (leapt \/ real - heard[c] >= Promised(c))]_vars
    BY <1>1
  <1> QED
    BY <1>2, Invariance, PTL DEF Spec, IdleNotEarly

\* Nor does the process end before one of the three times that it is given.
THEOREM ExitsWithReason == Spec => ExitJustified
  <1> DEFINE Reason ==
       \/ leapt
       \/ /\ param.maxDisconnection # 0 /\ Listed(state) = {}
          /\ real - closedAt >= param.maxDisconnection
       \/ /\ param.maxConnection # 0 /\ Listed(state) # {}
          /\ real - arrivedAt >= param.maxConnection
       \/ param.maxIdle # 0 /\ real - usedAt >= param.maxIdle
  <1>1. ASSUME Inv, Next, loop' = "exited"
        PROVE  Reason
    <2>1. CheckTimeouts
      BY <1>1 DEF Next, Tick, SetClock, WaitEnds, CloseClients, AddSocket, QueryConnection,
                  ApproveConnection, ClientInit, Input, Leave, Handle
    <2>2. Expired
      BY <1>1, <2>1 DEF CheckTimeouts
    <2>3. Timed /\ Clocked
      BY <1>1 DEF Inv
    <2>4. CASE CountsDisconnection /\ Left(lastDisconnect, param.maxDisconnection) <= 0
      BY <2>3, <2>4, SettingsTyped, DueLasted DEF CountsDisconnection, Timed, Clocked
    <2>5. CASE CountsConnection /\ Left(lastConnection, param.maxConnection) <= 0
      BY <2>3, <2>5, SettingsTyped, DueLasted DEF CountsConnection, Timed, Clocked
    <2>6. CASE CountsInput /\ Left(lastInput, param.maxIdle) <= 0
      BY <2>3, <2>6, SettingsTyped, DueLasted DEF CountsInput, Timed, Clocked
    <2> QED
      BY <2>2, <2>4, <2>5, <2>6 DEF Expired, ExitLefts
  <1>2. Inv /\ [Next]_vars => [loop' = "exited" => Reason]_vars
    BY <1>1
  <1> QED
    BY <1>2, Invariance, PTL DEF Spec, ExitJustified

\* However the clock is set, and whenever the server waits: a client that is
\* silent is closed, and the process ends, within the time promised and once
\* that time more for each setting of the clock, if a listening socket is
\* registered and the times that end the process fit an int of milliseconds.
THEOREM AlwaysInTime == Spec => []InTime
  <1>1. ASSUME InTimeInv
        PROVE  InTime
    <2>0. Timed /\ Clocked /\ Kept /\ (Timely => Punctual)
      BY <1>1 DEF InTimeInv, Inv
    <2>1. TypeOK
      BY <2>0 DEF TypeOK, Timed, Kept
    <2>2. ASSUME NEW last \in Nat, NEW at \in Nat, NEW limit \in Nat, Pending(last, at, limit),
                 loop = "wait"
          PROVE  real - at <= (1 + leaps) * limit
      <3>1. Awaited(now, real, wake, last, at, limit, leaps * limit)
        BY <2>2 DEF Pending
      <3>2. now \in Nat /\ real \in Nat /\ wake \in Nat \cup {Forever} /\ leaps \in Nat
        BY <2>0 DEF Timed, Kept
      <3>3. real - at <= leaps * limit + limit
        BY <3>1, <3>2, Budgets, AwaitedBound
      <3> QED
        BY <3>2, <3>3, Budgets
    <2>3. Timely => IdleInTime
      <3> SUFFICES ASSUME Timely PROVE IdleInTime
        OBVIOUS
      <3>1. ASSUME param.idle # 0, loop = "wait", NEW c \in Client,
                   state[c] \notin {"absent", "closing"}
            PROVE  real - heard[c] <= (1 + leaps) * Promised(c)
        <4>1. IdleLimit(c) \in Nat /\ lastEvent[c] \in Nat /\ heard[c] \in Nat
          BY <2>0, SettingsTyped DEF Timed
        <4>2. Pending(lastEvent[c], heard[c], IdleLimit(c))
          BY <2>0, <3>1 DEF Punctual
        <4>3. Promised(c) = IdleLimit(c)
          BY DEF Promised, IdleLimit
        <4> QED
          BY <2>2, <3>1, <4>1, <4>2, <4>3
      <3> QED
        BY <3>1 DEF IdleInTime
    <2>4. Timely => ExitInTime
      <3> SUFFICES ASSUME Timely PROVE ExitInTime
        OBVIOUS
      <3>1. /\ param.maxConnection \in Nat /\ param.maxIdle \in Nat
            /\ {lastConnection, arrivedAt, lastInput, usedAt} \subseteq Nat
        BY <2>0, SettingsTyped DEF Timed
      <3> QED
        BY <2>0, <2>2, <3>1 DEF ExitInTime, Punctual
    <2> QED
      BY <2>1, <2>3, <2>4 DEF InTime
  <1> QED
    BY <1>1, InTimeInvariance, PTL

\* As long as the clock is not set, a host that keeps failing is turned away
\* for exactly as long as the number of its failures says: being turned away
\* neither shortens nor prolongs it.
THEOREM BarredForTwiceAsLong == Spec => FailuresBarHost
  <1>1. ASSUME BlackInv, [Next]_vars, leaps = 0, NEW h \in Host, attempts'[h] # attempts[h]
        PROVE  tries'[h] = tries[h] <=> Barred(h)
    <2>1. PICK c \in Client : AddSocket(c)
      BY <1>1, Untouched
    <2>2. tries \in [Host -> Nat] /\ attempts \in [Host -> Nat]
      BY <1>1 DEF BlackInv, InTimeInv, Kept
    <2>3. /\ Peer[c] \in Host
          /\ attempts' = [attempts EXCEPT ![Peer[c]] = @ + 1]
          /\ \/ Barred(Peer[c]) /\ UNCHANGED tries
             \/ ~Barred(Peer[c]) /\ tries' = [tries EXCEPT ![Peer[c]] = @ + 1]
      BY <1>1, <2>1, Attempt
    <2>4. h = Peer[c]
      BY <1>1, <2>2, <2>3
    <2>5. Barred(h) => tries'[h] = tries[h]
      BY <2>3, <2>4
    <2>6. ~Barred(h) => tries'[h] = tries[h] + 1 /\ tries[h] \in Nat
      BY <2>2, <2>3, <2>4
    <2> QED
      BY <2>5, <2>6
  <1>2. BlackInv /\ [Next]_vars =>
          [\A h \in Host : leaps = 0 /\ attempts'[h] # attempts[h] =>
             (tries'[h] = tries[h] <=> Barred(h))]_vars
    BY <1>1
  <1> QED
    BY <1>2, BlackInvariance, PTL DEF Spec, FailuresBarHost
=============================================================================
