-------------------------- MODULE VNCServerProofs --------------------------
(***************************************************************************)
(* Proofs about VNCServer, for every set of sockets and keys and every     *)
(* setting of the server's parameters.                                     *)
(***************************************************************************)
EXTENDS VNCServer, TLAPS

USE DEF State, Right

-----------------------------------------------------------------------------
(* Types.                                                                  *)

LEMMA AcceptType ==
  ASSUME TypeOK, NEW s \in Sock, Accept(s)
  PROVE  /\ state' \in [Sock -> State]
         /\ desktopStarted' \in BOOLEAN
         /\ pb' \in {"null", "live", "freed"}
         /\ lastCall' \in {"start", "stop", "broken"}
         /\ pbFault' \in BOOLEAN
  BY DEF TypeOK, Accept, StartDesktop, Called, deskVars

LEMMA DeleteType ==
  ASSUME TypeOK, NEW s \in Sock, DeleteClient(s), StopIfUnused(s)
  PROVE  TypeOK'
  BY DEF TypeOK, DeleteClient, StopIfUnused, StopDesktop, Called, deskVars

\* The state stays well typed under every call.
LEMMA TypeStep == TypeOK /\ [Next]_vars => TypeOK'
  <1> SUFFICES ASSUME TypeOK, [Next]_vars PROVE TypeOK'
    OBVIOUS
  <1> USE DEF TypeOK, deskVars, inputVars, queryVars
  <1>1. ASSUME NEW s \in Sock, AddSocket(s) PROVE TypeOK'
    BY <1>1 DEF AddSocket
  <1>2. ASSUME NEW s \in Sock, RemoveSocket(s) PROVE TypeOK'
    BY <1>2, DeleteType DEF RemoveSocket
  <1>3. ASSUME NEW s \in Sock, Close(s) PROVE TypeOK'
    BY <1>3 DEF Close
  <1>4. ASSUME NEW s \in Sock, QueryConnection(s) PROVE TypeOK'
    BY <1>4, AcceptType DEF QueryConnection, Reject
  <1>5. ASSUME NEW s \in Sock, NEW b \in BOOLEAN, ClientInit(s, b) PROVE TypeOK'
    BY <1>5 DEF ClientInit, Clients
  <1>6. ASSUME NEW s \in Sock, NEW b \in BOOLEAN, PointerEvent(s, b) PROVE TypeOK'
    BY <1>6 DEF PointerEvent
  <1>7. ASSUME NEW s \in Sock, NEW k \in Key, NEW d \in BOOLEAN, KeyEvent(s, k, d)
        PROVE TypeOK'
    <2> DEFINE kk == IF Remap[k] = LeftTab THEN Tab ELSE Remap[k]
    <2>1. kk \in Key
      BY KeyAssumption
    <2>2. pressedKeys' \in [Sock -> SUBSET Key]
      <3>1. (IF d THEN pressedKeys[s] \cup {kk} ELSE pressedKeys[s] \ {kk}) \in SUBSET Key
        BY <2>1
      <3>2. pressedKeys' = [pressedKeys EXCEPT ![s] =
                              IF d THEN pressedKeys[s] \cup {kk} ELSE pressedKeys[s] \ {kk}]
        BY <1>7 DEF KeyEvent
      <3> QED
        BY <3>1, <3>2
    <2>3. deskKeys' \subseteq Key
      BY <1>7, <2>1 DEF KeyEvent
    <2> QED
      BY <1>7, <2>2, <2>3 DEF KeyEvent
  <1>8. ASSUME CloseClients PROVE TypeOK'
    BY <1>8 DEF CloseClients
  <1>9. ASSUME NEW b \in BOOLEAN, Verdict(b) PROVE TypeOK'
    BY <1>9, AcceptType, SockAssumption DEF Verdict, Reject
  <1>10. ASSUME PanelSetsStatus PROVE TypeOK'
    <2>0. PICK listed \in SUBSET Sock : \E f \in [listed -> Statuses] : SetConnStatus(f)
      BY <1>10 DEF PanelSetsStatus
    <2>f. PICK f \in [listed -> Statuses] : SetConnStatus(f)
      BY <2>0
    <2>1. state' \in [Sock -> State]
      BY <2>f DEF SetConnStatus
    <2>2. ASSUME NEW s \in Sock PROVE NewRights(accessRights[s], f[s]) \in SUBSET Right
      BY DEF NewRights
    <2>3. accessRights' \in [Sock -> SUBSET Right]
      BY <2>f, <2>2 DEF SetConnStatus
    <2>4. pbFault' \in BOOLEAN
      BY <2>f DEF SetConnStatus
    <2> QED
      BY <2>f, <2>1, <2>3, <2>4 DEF SetConnStatus
  <1>11. ASSUME NEW f \in SUBSET Sock, SetPixelBuffer(f) PROVE TypeOK'
    BY <1>11 DEF SetPixelBuffer
  <1>12. CASE UNCHANGED vars
    BY <1>12 DEF vars
  <1> QED
    BY <1>1, <1>2, <1>3, <1>4, <1>5, <1>6, <1>7, <1>8, <1>9, <1>10, <1>11, <1>12 DEF Next

\* Every reachable state has the types of the code's fields.
THEOREM TypeCorrect == Spec => []TypeOK
  <1>1. Init => TypeOK
    BY DEF Init, TypeOK
  <1> QED
    BY <1>1, TypeStep, PTL DEF Spec

-----------------------------------------------------------------------------
(* The desktop.  An authenticated client needs it running; running it has  *)
(* a live buffer and someone whose removal will stop it.  Alone, "used     *)
(* implies running" is not inductive for pb, nor "running implies needed"  *)
(* for the step that stops the desktop.                                    *)

DesktopInv ==
  /\ Authenticated # {} => desktopStarted
  /\ ~StartMayLackBuffer => (desktopStarted => pb = "live")
  /\ DesktopIsNeeded

LEMMA AcceptDesktop ==
  ASSUME TypeOK, DesktopInv, NEW s \in Sock, Accept(s)
  PROVE  DesktopInv'
  <1> USE DEF TypeOK, DesktopInv, Authenticated, DesktopIsNeeded, deskVars, Called
  <1>1. CASE desktopStarted
    BY <1>1 DEF Accept
  <1>2. CASE ~desktopStarted
    BY <1>2, ParamAssumption DEF Accept, StartDesktop
  <1> QED
    BY <1>1, <1>2

\* A step that leaves the desktop alone and in which clients only connect,
\* advance or close. A client that closes may be the last one needing the
\* desktop: it still counts as needing it until removed.
QuietStep ==
  /\ UNCHANGED <<desktopStarted, pb>>
  /\ state' \in [Sock -> State]
  /\ \A t \in Sock :
       \/ state'[t] = state[t]
       \/ state'[t] = "CLOSING"
       \/ state[t] = "INITIALISATION" /\ state'[t] = "NORMAL"
       \/ state[t] \in {"ABSENT", "HANDSHAKE"} /\ state'[t] \in {"HANDSHAKE", "QUERYING"}

LEMMA QuietDesktop ==
  ASSUME TypeOK, DesktopInv, QuietStep
  PROVE  DesktopInv'
  BY DEF TypeOK, DesktopInv, Authenticated, DesktopIsNeeded, QuietStep

LEMMA RemoveDesktop ==
  ASSUME TypeOK, DesktopInv, NEW s \in Sock, DeleteClient(s), StopIfUnused(s)
  PROVE  DesktopInv'
  <1> USE DEF TypeOK, DesktopInv, Authenticated, DesktopIsNeeded, deskVars, DeleteClient
  <1>1. Authenticated' = Authenticated \ {s}
    OBVIOUS
  <1>2. CASE Authenticated \ {s} = {} /\ desktopStarted
    BY <1>1, <1>2 DEF StopIfUnused, StopDesktop, Called
  <1>3. CASE Authenticated \ {s} = {} /\ ~desktopStarted
    BY <1>1, <1>3 DEF StopIfUnused
  <1>4. CASE Authenticated \ {s} # {}
    BY <1>1, <1>4 DEF StopIfUnused
  <1> QED
    BY <1>2, <1>3, <1>4

LEMMA DesktopStep == TypeOK /\ DesktopInv /\ [Next]_vars => DesktopInv'
  <1> SUFFICES ASSUME TypeOK, DesktopInv, [Next]_vars PROVE DesktopInv'
    OBVIOUS
  <1>0. state' \in [Sock -> State]
    BY TypeStep DEF TypeOK
  <1> USE <1>0 DEF deskVars, inputVars, queryVars
  <1>1. ASSUME NEW s \in Sock, AddSocket(s) PROVE DesktopInv'
    BY <1>1, QuietDesktop DEF QuietStep, AddSocket, Clients
  <1>2. ASSUME NEW s \in Sock, RemoveSocket(s) PROVE DesktopInv'
    BY <1>2, RemoveDesktop, QuietDesktop DEF QuietStep, RemoveSocket
  <1>3. ASSUME NEW s \in Sock, Close(s) PROVE DesktopInv'
    BY <1>3, QuietDesktop DEF QuietStep, Close
  <1>4. ASSUME NEW s \in Sock, QueryConnection(s) PROVE DesktopInv'
    <2>1. CASE Accept(s)
      BY <2>1, AcceptDesktop
    <2>2. CASE ~Accept(s)
      BY <1>4, <2>2, QuietDesktop DEF QuietStep, QueryConnection, Reject
    <2> QED
      BY <2>1, <2>2
  <1>5. ASSUME NEW s \in Sock, NEW b \in BOOLEAN, ClientInit(s, b) PROVE DesktopInv'
    BY <1>5, QuietDesktop DEF QuietStep, ClientInit, Clients, Authenticated
  <1>6. ASSUME NEW s \in Sock, NEW b \in BOOLEAN, PointerEvent(s, b) PROVE DesktopInv'
    BY <1>6, QuietDesktop DEF QuietStep, PointerEvent
  <1>7. ASSUME NEW s \in Sock, NEW k \in Key, NEW d \in BOOLEAN, KeyEvent(s, k, d)
        PROVE DesktopInv'
    BY <1>7, QuietDesktop DEF QuietStep, KeyEvent
  <1>8. ASSUME CloseClients PROVE DesktopInv'
    BY <1>8, QuietDesktop DEF QuietStep, CloseClients, Clients
  <1>9. ASSUME NEW b \in BOOLEAN, Verdict(b) PROVE DesktopInv'
    <2> DEFINE s == queryConnectSock
    <2>0. s \in Sock
      BY <1>9 DEF Verdict, TypeOK
    <2>1. CASE Accept(s)
      BY <2>0, <2>1, AcceptDesktop
    <2>2. CASE ~Accept(s)
      BY <1>9, <2>0, <2>2, QuietDesktop DEF QuietStep, Verdict, Reject
    <2> QED
      BY <2>1, <2>2
  <1>10. ASSUME PanelSetsStatus PROVE DesktopInv'
    BY <1>10, QuietDesktop DEF QuietStep, PanelSetsStatus, SetConnStatus
  <1>11. ASSUME NEW f \in SUBSET Sock, SetPixelBuffer(f) PROVE DesktopInv'
    BY <1>11 DEF SetPixelBuffer, DesktopInv, Authenticated, DesktopIsNeeded
  <1>12. CASE UNCHANGED vars
    BY <1>12, QuietDesktop DEF QuietStep, vars, deskVars
  <1> QED
    BY <1>1, <1>2, <1>3, <1>4, <1>5, <1>6, <1>7, <1>8, <1>9, <1>10, <1>11, <1>12 DEF Next

LEMMA DesktopAlways == Spec => []DesktopInv
  <1>1. Init => DesktopInv
    BY DEF Init, DesktopInv, Authenticated, DesktopIsNeeded
  <1> QED
    BY <1>1, DesktopStep, TypeCorrect, PTL DEF Spec

\* While any client is authenticated the desktop runs and pb is live, if the
\* desktop sets its buffer before start() returns, as SDesktop.h asks of it.
THEOREM DesktopServes == ASSUME ~StartMayLackBuffer PROVE Spec => []DesktopServesClients
  <1>1. DesktopInv => DesktopServesClients
    BY DEF DesktopInv, DesktopServesClients
  <1> QED
    BY <1>1, DesktopAlways, PTL

\* A running desktop always has a client that needs it or whose removal will
\* stop it: no order of closes and removals leaves it running for nobody.
THEOREM DesktopNeeded == Spec => []DesktopIsNeeded
  <1>1. DesktopInv => DesktopIsNeeded
    BY DEF DesktopInv
  <1> QED
    BY <1>1, DesktopAlways, PTL

\* The desktop runs while it is needed and not longer.
THEOREM DesktopFollows == ASSUME ~StartMayLackBuffer PROVE Spec => []DesktopFollowsClients
  BY DesktopServes, DesktopNeeded, PTL DEF DesktopFollowsClients

-----------------------------------------------------------------------------
(* Approval.                                                               *)

\* Only one connection can be QUERYING, and it is the one the dialog shows.
LEMMA QueryStep == TypeOK /\ QueryIsAnswerable /\ [Next]_vars => QueryIsAnswerable'
  <1> SUFFICES ASSUME TypeOK, QueryIsAnswerable, [Next]_vars PROVE QueryIsAnswerable'
    OBVIOUS
  <1> USE DEF TypeOK, QueryIsAnswerable, queryVars, deskVars, inputVars
  <1>1. ASSUME NEW s \in Sock, AddSocket(s) PROVE QueryIsAnswerable'
    BY <1>1 DEF AddSocket
  <1>2. ASSUME NEW s \in Sock, RemoveSocket(s) PROVE QueryIsAnswerable'
    BY <1>2 DEF RemoveSocket, DeleteClient
  <1>3. ASSUME NEW s \in Sock, Close(s) PROVE QueryIsAnswerable'
    BY <1>3 DEF Close
  <1>4. ASSUME NEW s \in Sock, QueryConnection(s) PROVE QueryIsAnswerable'
    <2>1. CASE UNCHANGED queryVars
      BY <1>4, <2>1 DEF QueryConnection, Accept, StartDesktop, Reject
    <2>2. CASE ~UNCHANGED queryVars
      BY <1>4, <2>2, SockAssumption DEF QueryConnection
    <2> QED
      BY <2>1, <2>2
  <1>5. ASSUME NEW s \in Sock, NEW b \in BOOLEAN, ClientInit(s, b) PROVE QueryIsAnswerable'
    BY <1>5 DEF ClientInit, Clients
  <1>6. ASSUME NEW s \in Sock, NEW b \in BOOLEAN, PointerEvent(s, b) PROVE QueryIsAnswerable'
    BY <1>6 DEF PointerEvent
  <1>7. ASSUME NEW s \in Sock, NEW k \in Key, NEW d \in BOOLEAN, KeyEvent(s, k, d)
        PROVE QueryIsAnswerable'
    BY <1>7 DEF KeyEvent
  <1>8. ASSUME CloseClients PROVE QueryIsAnswerable'
    BY <1>8 DEF CloseClients, Clients
  <1>9. ASSUME NEW b \in BOOLEAN, Verdict(b) PROVE QueryIsAnswerable'
    BY <1>9 DEF Verdict, Accept, StartDesktop, Reject
  <1>10. ASSUME PanelSetsStatus PROVE QueryIsAnswerable'
    BY <1>10 DEF PanelSetsStatus, SetConnStatus, Clients
  <1>11. ASSUME NEW f \in SUBSET Sock, SetPixelBuffer(f) PROVE QueryIsAnswerable'
    BY <1>11 DEF SetPixelBuffer
  <1>12. CASE UNCHANGED vars
    BY <1>12 DEF vars
  <1> QED
    BY <1>1, <1>2, <1>3, <1>4, <1>5, <1>6, <1>7, <1>8, <1>9, <1>10, <1>11, <1>12 DEF Next

\* The answer the user gives will reach the connection that waits for it.
THEOREM QueryAnswerable == Spec => []QueryIsAnswerable
  <1>1. Init => QueryIsAnswerable
    BY DEF Init, QueryIsAnswerable
  <1> QED
    BY <1>1, QueryStep, TypeCorrect, PTL DEF Spec

\* NeverShared is exclusive although the "already in use" test and ClientInit
\* are steps of different connections: ClientInit alone makes it inductive.
LEMMA ExclusiveStep == TypeOK /\ NeverSharedIsExclusive /\ [Next]_vars => NeverSharedIsExclusive'
  <1> SUFFICES ASSUME TypeOK, NeverSharedIsExclusive, [Next]_vars, NeverShared
               PROVE  NeverSharedIsExclusive'
    BY DEF NeverSharedIsExclusive
  <1> USE DEF TypeOK, NeverSharedIsExclusive
  <1>1. CASE \A s \in Sock : state'[s] = "NORMAL" => state[s] = "NORMAL"
    BY <1>1
  <1>2. ASSUME NEW s \in Sock, NEW b \in BOOLEAN, ClientInit(s, b) PROVE NeverSharedIsExclusive'
    BY <1>2 DEF ClientInit, Clients, Authenticated
  <1>3. (\E s \in Sock, b \in BOOLEAN : ClientInit(s, b))
        \/ \A s \in Sock : state'[s] = "NORMAL" => state[s] = "NORMAL"
    <2>1. ASSUME NEW s \in Sock, AddSocket(s) \/ RemoveSocket(s) \/ Close(s) \/ QueryConnection(s)
          PROVE \A t \in Sock : state'[t] = "NORMAL" => state[t] = "NORMAL"
      BY <2>1 DEF AddSocket, RemoveSocket, DeleteClient, Close, QueryConnection, Accept,
                  StartDesktop, Reject
    <2>2. ASSUME NEW s \in Sock, NEW k \in Key, NEW b \in BOOLEAN,
                 PointerEvent(s, b) \/ KeyEvent(s, k, b)
          PROVE UNCHANGED state
      BY <2>2 DEF PointerEvent, KeyEvent
    <2>3. ASSUME NEW b \in BOOLEAN, Verdict(b)
          PROVE \A t \in Sock : state'[t] = "NORMAL" => state[t] = "NORMAL"
      BY <2>3 DEF Verdict, Accept, StartDesktop, Reject
    <2>4. ASSUME CloseClients \/ PanelSetsStatus
                 \/ \E f \in SUBSET Sock : SetPixelBuffer(f)
          PROVE \A t \in Sock : state'[t] = "NORMAL" => state[t] = "NORMAL"
      BY <2>4 DEF CloseClients, PanelSetsStatus, SetConnStatus, SetPixelBuffer, Clients
    <2>5. UNCHANGED vars => UNCHANGED state
      BY DEF vars
    <2>6. ASSUME NEW s \in Sock, NEW b \in BOOLEAN, PointerEvent(s, b) PROVE UNCHANGED state
      BY <2>6 DEF PointerEvent
    <2> QED
      BY <2>1, <2>2, <2>3, <2>4, <2>5, <2>6 DEF Next
  <1> QED
    BY <1>1, <1>2, <1>3

\* With NeverShared, no interleaving of handshakes, approvals and ClientInits
\* puts two clients in session.
THEOREM NeverSharedExclusive == Spec => []NeverSharedIsExclusive
  <1>1. Init => NeverSharedIsExclusive
    BY DEF Init, NeverSharedIsExclusive
  <1> QED
    BY <1>1, ExclusiveStep, TypeCorrect, PTL DEF Spec

\* A connection subject to the user's approval enters the session only by the
\* answer to the question about it: QueryIsAnswerable excludes an answer about
\* an earlier connection whose socket had the same address.
LEMMA LetInStep ==
  ASSUME TypeOK, QueryIsAnswerable, [Next]_vars, NEW s \in Sock,
         ~BypassesQuery(s), s \notin Authenticated, state'[s] \in {"INITIALISATION", "NORMAL"}
  PROVE  queryConnectSock = s /\ queryCurrent /\ queryConnectSock' = NoSock
  <1> DEFINE In(t) == state'[t] \in {"INITIALISATION", "NORMAL"} => state[t] \in {"INITIALISATION", "NORMAL"}
  <1> USE DEF TypeOK
  <1>0. ~In(s)
    BY DEF Authenticated
  <1>1. ASSUME NEW t \in Sock, AddSocket(t) \/ RemoveSocket(t) \/ Close(t) PROVE In(s)
    BY <1>1 DEF AddSocket, RemoveSocket, DeleteClient, Close
  <1>2. ASSUME NEW t \in Sock, QueryConnection(t) PROVE In(s)
    BY <1>2 DEF QueryConnection, Accept, StartDesktop, Reject
  <1>3. ASSUME NEW t \in Sock, NEW b \in BOOLEAN, ClientInit(t, b) PROVE In(s)
    BY <1>3 DEF ClientInit, Clients, Authenticated
  <1>4. ASSUME NEW t \in Sock, NEW b \in BOOLEAN, PointerEvent(t, b) PROVE In(s)
    BY <1>4 DEF PointerEvent
  <1>5. ASSUME NEW t \in Sock, NEW k \in Key, NEW b \in BOOLEAN, KeyEvent(t, k, b) PROVE In(s)
    BY <1>5 DEF KeyEvent
  <1>6. ASSUME CloseClients PROVE In(s)
    BY <1>6 DEF CloseClients
  <1>9. ASSUME PanelSetsStatus PROVE In(s)
    BY <1>9 DEF PanelSetsStatus, SetConnStatus
  <1>10. ASSUME NEW f \in SUBSET Sock, SetPixelBuffer(f) PROVE In(s)
    BY <1>10 DEF SetPixelBuffer
  <1>7. UNCHANGED vars => In(s)
    BY DEF vars
  <1>8. ASSUME NEW b \in BOOLEAN, Verdict(b)
        PROVE queryConnectSock = s /\ queryCurrent /\ queryConnectSock' = NoSock
    BY <1>0, <1>8 DEF Verdict, Accept, StartDesktop, Reject, QueryIsAnswerable
  <1> QED
    BY <1>0, <1>1, <1>2, <1>3, <1>4, <1>5, <1>6, <1>7, <1>8, <1>9, <1>10 DEF Next

\* The theorem about every step of every behaviour.
THEOREM UserLetsIn == Spec => OnlyTheUserLetsIn
  <1>1. TypeOK /\ QueryIsAnswerable /\ [Next]_vars =>
          [\A s \in Sock : ~BypassesQuery(s) /\ s \notin Authenticated
                          /\ state'[s] \in {"INITIALISATION", "NORMAL"}
             => queryConnectSock = s /\ queryCurrent /\ queryConnectSock' = NoSock]_vars
    BY LetInStep
  <1> QED
    BY <1>1, TypeCorrect, QueryAnswerable, PTL DEF Spec, OnlyTheUserLetsIn

-----------------------------------------------------------------------------
(* Keys and the pointer.  A client that holds keys or the pointer got into *)
(* session, so it is deleted only through its destructor, which gives them *)
(* back.                                                                   *)

InputInv ==
  /\ PointerOwnerListed
  /\ \A s \in Sock : pressedKeys[s] # {} => state[s] \in {"NORMAL", "CLOSING"}
  /\ StoppedTakesKeys => \A k \in deskKeys : \E s \in Sock : k \in pressedKeys[s]

\* Steps that touch no key or button, and keep sessions or close them.
KeepsInput ==
  /\ UNCHANGED <<pointerClient, pressedKeys, deskKeys>>
  /\ \A s \in Sock : state[s] \in {"NORMAL", "CLOSING"} => state'[s] \in {"NORMAL", "CLOSING"}

LEMMA KeepsInputStep == ASSUME TypeOK, InputInv, KeepsInput PROVE InputInv'
  BY DEF TypeOK, InputInv, PointerOwnerListed, KeepsInput

LEMMA DeleteInput ==
  ASSUME TypeOK, InputInv, NEW s \in Sock, DeleteClient(s) PROVE InputInv'
  <1> USE DEF TypeOK, InputInv, PointerOwnerListed, DeleteClient
  <1>1. PointerOwnerListed'
    OBVIOUS
  <1>2. \A t \in Sock : pressedKeys'[t] # {} => state'[t] \in {"NORMAL", "CLOSING"}
    OBVIOUS
  <1>3. ASSUME StoppedTakesKeys, NEW k \in deskKeys'
        PROVE  \E t \in Sock : k \in pressedKeys'[t]
    <2>1. k \in deskKeys /\ k \notin pressedKeys[s]
      BY <1>3
    <2>2. PICK t \in Sock : k \in pressedKeys[t]
      BY <1>3, <2>1
    <2> QED
      BY <2>1, <2>2
  <1> QED
    BY <1>1, <1>2, <1>3

LEMMA KeyEventInput ==
  ASSUME TypeOK, InputInv, NEW s \in Sock, NEW k \in Key, NEW d \in BOOLEAN, KeyEvent(s, k, d)
  PROVE  InputInv'
  <1> DEFINE kk == IF Remap[k] = LeftTab THEN Tab ELSE Remap[k]
  <1> USE DEF TypeOK, InputInv, PointerOwnerListed
  <1>1. PointerOwnerListed'
    BY DEF KeyEvent
  <1>2. pressedKeys' = [pressedKeys EXCEPT ![s] = IF d THEN pressedKeys[s] \cup {kk}
                                                  ELSE pressedKeys[s] \ {kk}]
    BY DEF KeyEvent
  <1>3. state[s] = "NORMAL" /\ UNCHANGED state
    BY DEF KeyEvent
  <1>4. \A t \in Sock : pressedKeys'[t] # {} => state'[t] \in {"NORMAL", "CLOSING"}
    BY <1>2, <1>3
  <1>5. deskKeys' \subseteq IF d THEN deskKeys \cup {kk}
                           ELSE IF kk \in pressedKeys[s] THEN deskKeys \ {kk} ELSE deskKeys
    BY DEF KeyEvent
  <1>6. ASSUME StoppedTakesKeys, NEW j \in deskKeys'
        PROVE  \E t \in Sock : j \in pressedKeys'[t]
    <2>1. CASE d /\ j = kk
      BY <1>2, <2>1
    <2>2. CASE ~(d /\ j = kk)
      <3>1. j \in deskKeys
        BY <1>5, <2>2
      <3>2. PICK t \in Sock : j \in pressedKeys[t]
        BY <1>6, <3>1
      <3>3. CASE j # kk \/ t # s \/ d
        BY <1>2, <3>2, <3>3
      <3>4. CASE j = kk /\ t = s /\ ~d
        BY <1>5, <3>2, <3>4
      <3> QED
        BY <3>3, <3>4
    <2> QED
      BY <2>1, <2>2
  <1> QED
    BY <1>1, <1>4, <1>6

LEMMA InputStep == TypeOK /\ InputInv /\ [Next]_vars => InputInv'
  <1> SUFFICES ASSUME TypeOK, InputInv, [Next]_vars PROVE InputInv'
    OBVIOUS
  <1> USE KeepsInputStep DEF queryVars, deskVars, inputVars
  <1>t. state \in [Sock -> State]
    BY DEF TypeOK
  <1>1. ASSUME NEW s \in Sock, AddSocket(s) PROVE InputInv'
    BY <1>1, <1>t DEF AddSocket, Clients, KeepsInput
  <1>2. ASSUME NEW s \in Sock, RemoveSocket(s) PROVE InputInv'
    BY <1>2, DeleteInput DEF RemoveSocket, KeepsInput
  <1>3. ASSUME NEW s \in Sock, Close(s) PROVE InputInv'
    BY <1>3, <1>t DEF Close, KeepsInput
  <1>4. ASSUME NEW s \in Sock, QueryConnection(s) PROVE InputInv'
    BY <1>4, <1>t DEF QueryConnection, Accept, StartDesktop, Reject, KeepsInput
  <1>5. ASSUME NEW s \in Sock, NEW b \in BOOLEAN, ClientInit(s, b) PROVE InputInv'
    BY <1>5, <1>t DEF ClientInit, Clients, KeepsInput
  <1>6. ASSUME NEW s \in Sock, NEW b \in BOOLEAN, PointerEvent(s, b) PROVE InputInv'
    BY <1>6 DEF PointerEvent, TypeOK, InputInv, PointerOwnerListed
  <1>7. ASSUME NEW s \in Sock, NEW k \in Key, NEW d \in BOOLEAN, KeyEvent(s, k, d)
        PROVE InputInv'
    BY <1>7, KeyEventInput
  <1>8. ASSUME CloseClients PROVE InputInv'
    BY <1>8 DEF CloseClients, Clients, KeepsInput
  <1>9. ASSUME NEW b \in BOOLEAN, Verdict(b) PROVE InputInv'
    <2>1. queryConnectSock \in Sock
      BY <1>9 DEF Verdict, TypeOK
    <2> QED
      BY <1>9, <1>t, <2>1 DEF Verdict, Accept, StartDesktop, Reject, KeepsInput
  <1>10. ASSUME PanelSetsStatus PROVE InputInv'
    BY <1>10 DEF PanelSetsStatus, SetConnStatus, KeepsInput
  <1>11. ASSUME NEW f \in SUBSET Sock, SetPixelBuffer(f) PROVE InputInv'
    BY <1>11 DEF SetPixelBuffer, KeepsInput
  <1>12. CASE UNCHANGED vars
    BY <1>12 DEF vars, KeepsInput
  <1> QED
    BY <1>1, <1>2, <1>3, <1>4, <1>5, <1>6, <1>7, <1>8, <1>9, <1>10, <1>11, <1>12 DEF Next

LEMMA InputAlways == Spec => []InputInv
  <1>1. Init => InputInv
    BY DEF Init, InputInv, PointerOwnerListed
  <1> QED
    BY <1>1, InputStep, TypeCorrect, PTL DEF Spec

\* pointerClient never points to a deleted connection.
THEOREM PointerOwner == Spec => []PointerOwnerListed
  <1>1. InputInv => PointerOwnerListed
    BY DEF InputInv
  <1> QED
    BY <1>1, InputAlways, PTL

\* If the desktop's input still works after stop(), a key it believes down is
\* held by a listed client: nobody's disconnection leaves a key stuck.
THEOREM KeysReleased == ASSUME StoppedTakesKeys PROVE Spec => []NoStuckKey
  <1>1. InputInv => NoStuckKey
    BY DEF InputInv, NoStuckKey
  <1> QED
    BY <1>1, InputAlways, PTL
=============================================================================
