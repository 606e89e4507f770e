----------------------------- MODULE VNCServer -----------------------------
(***************************************************************************)
(* The RFB server: VNCServerST, the list of VNCSConnectionST it keeps (one *)
(* per socket), the SDesktop it starts and stops, and the handler that     *)
(* asks the local user about a connection.                                 *)
(*                                                                         *)
(* Everything runs on one thread: every action is one call the host loop,  *)
(* the desktop or the query dialog makes into the server, carried through  *)
(* to its return.  Closing a connection has two phases: close() shuts the  *)
(* socket and leaves the client in the list as CLOSING; later the host     *)
(* notices the shut socket and calls removeSocket().  Between the two, any *)
(* other call may happen.                                                  *)
(***************************************************************************)
EXTENDS Naturals

CONSTANTS
  Sock,              \* addresses of network::Socket objects (reused after delete)
  NoSock,            \* the null pointer
  Outgoing,          \* sockets the server opened itself (reverse connections)
  FilterQuery,       \* sockets whose TcpFilter rule says "query the user"
  Key,               \* keysyms
  Tab, LeftTab,      \* XK_Tab and XK_ISO_Left_Tab
  ShiftL, ShiftR,    \* XK_Shift_L and XK_Shift_R
  Remap,             \* KeyRemapper::remapKey
  AlwaysShared, NeverShared, DisconnectClients, QueryConnect, \* rfb::Server parameters
  StartMayFail,      \* desktop->start() may throw (SDisplay::startCore does)
  StartMayLackBuffer, \* desktop->start() may return without a pixel buffer
  StopClearsBuffer,  \* stop() calls setPixelBuffer(0); if not it just frees pb
  StoppedTakesKeys,  \* keyEvent() still reaches the input system after stop()
  Statuses           \* statuses the control panel sets (0..3)

ASSUME SockAssumption == NoSock \notin Sock /\ Outgoing \subseteq Sock /\ FilterQuery \subseteq Sock
ASSUME KeyAssumption == {Tab, LeftTab, ShiftL, ShiftR} \subseteq Key /\ Remap \in [Key -> Key]
                        /\ LeftTab # Tab /\ Tab # ShiftL
ASSUME ParamAssumption == {AlwaysShared, NeverShared, DisconnectClients, QueryConnect,
                           StartMayFail, StartMayLackBuffer, StopClearsBuffer,
                           StoppedTakesKeys} \subseteq BOOLEAN
ASSUME StatusAssumption == Statuses \subseteq 0..3

\* What SConnection::stateEnum tells apart here. HANDSHAKE stands for the
\* states from PROTOCOL_VERSION to SECURITY (module Handshake separates
\* them); ABSENT is a socket with no VNCSConnectionST. UNINITIALISED and
\* INVALID exist only inside one call, which ends in CLOSING.
State == {"ABSENT", "HANDSHAKE", "QUERYING", "INITIALISATION", "NORMAL", "CLOSING"}
Right == {"View", "Key", "Ptr", "CutText"}

VARIABLES
  state,             \* SConnection::state_ of the client at each socket
  closingSockets,    \* black-marked sockets waiting to be removed
  desktopStarted,    \* VNCServerST::desktopStarted
  pb,                \* VNCServerST::pb: null, a live buffer, or a freed one
  pointerClient,     \* the client with a pointer button held
  pressedKeys,       \* VNCSConnectionST::pressedKeys
  accessRights,      \* VNCSConnectionST::accessRights
  queryConnectSock,  \* QueryConnHandler::queryConnectSock
  queryCurrent,      \* history: the client asked about is still the one at its socket
  lastCall,          \* history: the last of start() and stop() called on the
                     \* desktop, or "broken" once one was called twice running
  deskKeys,          \* keys the desktop was told are down
  pbFault            \* history: pb was dereferenced when null or freed

vars == <<state, closingSockets, desktopStarted, pb, pointerClient, pressedKeys,
          accessRights, queryConnectSock, queryCurrent, lastCall, deskKeys, pbFault>>
deskVars == <<desktopStarted, pb, lastCall>>
inputVars == <<pointerClient, pressedKeys, accessRights, deskKeys>>
queryVars == <<queryConnectSock, queryCurrent>>

Clients == {s \in Sock : state[s] # "ABSENT"}
Authenticated == {s \in Sock : state[s] \in {"INITIALISATION", "NORMAL"}}

Init ==
  /\ state = [s \in Sock |-> "ABSENT"]
  /\ closingSockets = {}
  /\ desktopStarted = FALSE
  /\ pb = "null"
  /\ pointerClient = NoSock
  /\ pressedKeys = [s \in Sock |-> {}]
  /\ accessRights = [s \in Sock |-> Right]
  /\ queryConnectSock = NoSock
  /\ queryCurrent = FALSE
  /\ lastCall = "stop"
  /\ deskKeys = {}
  /\ pbFault = FALSE

-----------------------------------------------------------------------------
(* The host's calls.                                                       *)

\* addSocket(): a black-marked peer is told so and its socket shut; any other
\* gets a client, whose init() writes the version and may fail to.
AddSocket(s) ==
  /\ s \notin Clients \cup closingSockets
  /\ \/ /\ closingSockets' = closingSockets \cup {s}
        /\ UNCHANGED state
     \/ /\ \E st \in {"HANDSHAKE", "CLOSING"} : state' = [state EXCEPT ![s] = st]
        /\ UNCHANGED closingSockets
  /\ UNCHANGED <<deskVars, inputVars, queryVars, pbFault>>

\* Faulty variant of DeleteClient: forgets to clear pointerClient.
DeleteClientKeepsPointer(s) ==
  /\ state' = [state EXCEPT ![s] = "ABSENT"]
  /\ deskKeys' = deskKeys \ pressedKeys[s]
  /\ pressedKeys' = [pressedKeys EXCEPT ![s] = {}]
  /\ accessRights' = [accessRights EXCEPT ![s] = Right]
  /\ queryCurrent' = (queryCurrent /\ queryConnectSock # s)
  /\ UNCHANGED <<closingSockets, queryConnectSock, pointerClient, pbFault>>

\* ~VNCSConnectionST(): release what the client holds. Key releases go to the
\* desktop whether or not it is running.
DeleteClient(s) ==
  /\ state' = [state EXCEPT ![s] = "ABSENT"]
  /\ deskKeys' = IF desktopStarted \/ StoppedTakesKeys
                 THEN deskKeys \ pressedKeys[s] ELSE deskKeys
  /\ pressedKeys' = [pressedKeys EXCEPT ![s] = {}]
  /\ accessRights' = [accessRights EXCEPT ![s] = Right]
  /\ pointerClient' = IF pointerClient = s THEN NoSock ELSE pointerClient
  /\ queryCurrent' = (queryCurrent /\ queryConnectSock # s)
  /\ UNCHANGED <<closingSockets, queryConnectSock, pbFault>>

Called(call) == lastCall' = IF lastCall \in {call, "broken"} THEN "broken" ELSE call

StopDesktop ==
  /\ desktopStarted' = FALSE
  /\ Called("stop")
  /\ pb' = IF StopClearsBuffer THEN "null" ELSE "freed"

\* Faulty variants of StopIfUnused: one counts only clients in session, one
\* waits for the list to empty, one does not look at desktopStarted.
StopIfNoneNormal(s) ==
  IF (\A t \in Sock \ {s} : state[t] # "NORMAL") /\ desktopStarted
  THEN StopDesktop ELSE UNCHANGED deskVars
StopIfNoClients(s) ==
  IF Clients \ {s} = {} /\ desktopStarted THEN StopDesktop ELSE UNCHANGED deskVars

\* Stop the desktop when no client left in the list is authenticated.
StopIfUnused(s) ==
  IF Authenticated \ {s} = {} /\ desktopStarted
  THEN StopDesktop ELSE UNCHANGED deskVars

\* removeSocket(): usually of a socket that was shut, but SocketManager also
\* removes a live one when its event cannot be re-armed.
RemoveSocket(s) ==
  \/ /\ s \in Clients
     /\ DeleteClient(s)
     /\ StopIfUnused(s)
  \/ /\ s \in closingSockets
     /\ closingSockets' = closingSockets \ {s}
     /\ UNCHANGED <<state, deskVars, inputVars, queryVars, pbFault>>

\* close(): an exception or end of stream in processMessages(), an idle
\* timeout, a failed write, a resize the client does not support.
Close(s) ==
  /\ s \in Clients
  /\ state[s] # "CLOSING"
  /\ state' = [state EXCEPT ![s] = "CLOSING"]
  /\ UNCHANGED <<closingSockets, deskVars, inputVars, queryVars, pbFault>>

\* closeClients(), from the desktop, the tray icon, vncconfig or an IPC command.
CloseClients ==
  /\ state' = [s \in Sock |-> IF s \in Clients THEN "CLOSING" ELSE "ABSENT"]
  /\ UNCHANGED <<closingSockets, deskVars, inputVars, queryVars, pbFault>>

-----------------------------------------------------------------------------
(* Authentication, approval and ClientInit.                                *)

\* startDesktop(): a start() that throws may already have set the pixel
\* buffer; the exception closes the connection.  A start() that returns has
\* started the desktop; a null pb found only then throws all the same, and a
\* freed one is not told from a live one.
StartDesktop(s) ==
  \/ /\ state' = [state EXCEPT ![s] = "INITIALISATION"]
     /\ desktopStarted' = TRUE
     /\ Called("start")
     /\ pb' = "live"
     /\ UNCHANGED pbFault
  \/ /\ StartMayFail
     /\ state' = [state EXCEPT ![s] = "CLOSING"]
     /\ Called("start")
     /\ pb' \in {pb, "live"}
     /\ UNCHANGED <<desktopStarted, pbFault>>
  \/ /\ StartMayLackBuffer
     /\ desktopStarted' = TRUE
     /\ Called("start")
     /\ state' = [state EXCEPT ![s] = IF pb = "null" THEN "CLOSING" ELSE "INITIALISATION"]
     /\ pbFault' = (pbFault \/ pb = "freed")
     /\ UNCHANGED pb

\* authSuccess(): start the desktop unless it runs.
Accept(s) ==
  \/ /\ desktopStarted
     /\ state' = [state EXCEPT ![s] = "INITIALISATION"]
     /\ pbFault' = (pbFault \/ pb # "live")
     /\ UNCHANGED deskVars
  \/ ~desktopStarted /\ StartDesktop(s)

\* approveConnection(false): write the refusal, throw, and be closed.
Reject(s) ==
  /\ state' = [state EXCEPT ![s] = "CLOSING"]
  /\ UNCHANGED <<deskVars, pbFault>>

InUse == NeverShared /\ ~DisconnectClients /\ Authenticated # {}
BypassesQuery(s) == s \in Outgoing \/ ~(QueryConnect \/ s \in FilterQuery)

\* Faulty variant of QueryConnection: asks about a second connection while
\* the dialog is up, forgetting the first.
QueryConnectionOverwrites(s) ==
  /\ state[s] = "HANDSHAKE"
  /\ IF BypassesQuery(s) THEN Accept(s) /\ UNCHANGED queryVars
     ELSE /\ queryConnectSock' = s
          /\ queryCurrent' = TRUE
          /\ state' = [state EXCEPT ![s] = "QUERYING"]
          /\ UNCHANGED <<deskVars, pbFault>>
  /\ UNCHANGED <<closingSockets, inputVars>>

\* The security handshake succeeds: queryConnection().  The handler has one
\* dialog; while it is up every other connection is refused.
QueryConnection(s) ==
  /\ state[s] = "HANDSHAKE"
  /\ IF InUse THEN Reject(s) /\ UNCHANGED queryVars
     ELSE IF BypassesQuery(s) THEN Accept(s) /\ UNCHANGED queryVars
     ELSE IF queryConnectSock # NoSock THEN Reject(s) /\ UNCHANGED queryVars
     ELSE /\ queryConnectSock' = s
          /\ queryCurrent' = TRUE
          /\ state' = [state EXCEPT ![s] = "QUERYING"]
          /\ UNCHANGED <<deskVars, pbFault>>
  /\ UNCHANGED <<closingSockets, inputVars>>

\* Faulty variant of Verdict: does not check that the connection is QUERYING.
VerdictUnchecked(accept) ==
  LET s == queryConnectSock IN
  /\ s # NoSock
  /\ queryConnectSock' = NoSock
  /\ queryCurrent' = FALSE
  /\ IF state[s] = "ABSENT" THEN UNCHANGED <<state, deskVars, pbFault>>
     ELSE IF accept THEN Accept(s)
     ELSE Reject(s)
  /\ UNCHANGED <<closingSockets, inputVars>>

\* The dialog closes (the user answers or it times out) and the handler calls
\* approveConnection() with the socket pointer it kept.  A connection found
\* there in any state but QUERYING makes it throw, and is closed.
Verdict(accept) ==
  LET s == queryConnectSock IN
  /\ s # NoSock
  /\ queryConnectSock' = NoSock
  /\ queryCurrent' = FALSE
  /\ IF state[s] = "ABSENT" THEN UNCHANGED <<state, deskVars, pbFault>>
     ELSE IF state[s] = "QUERYING" /\ accept THEN Accept(s)
     ELSE Reject(s)
  /\ UNCHANGED <<closingSockets, inputVars>>

\* Faulty variant of ClientInit: relies on the "already in use" test that
\* was made before the query.
ClientInitUncounted(s, sharedFlag) ==
  /\ state[s] = "INITIALISATION"
  /\ state' = [state EXCEPT ![s] = "NORMAL"]
  /\ UNCHANGED <<closingSockets, deskVars, inputVars, queryVars, pbFault>>

\* clientInit(): a non-shared client closes the others or is itself refused.
ClientInit(s, sharedFlag) ==
  LET shared == ~NeverShared /\ (AlwaysShared \/ s \in Outgoing \/ sharedFlag) IN
  /\ state[s] = "INITIALISATION"
  /\ state' =
       IF ~shared /\ DisconnectClients
       THEN [t \in Sock |-> IF t = s THEN "NORMAL"
                            ELSE IF t \in Clients THEN "CLOSING" ELSE "ABSENT"]
       ELSE IF ~shared /\ Authenticated # {s}
       THEN [state EXCEPT ![s] = "CLOSING"]
       ELSE [state EXCEPT ![s] = "NORMAL"]
  /\ UNCHANGED <<closingSockets, deskVars, inputVars, queryVars, pbFault>>

-----------------------------------------------------------------------------
(* Input from NORMAL clients.                                              *)

\* pointerEvent(): while one client holds a button the others are ignored.
PointerEvent(s, buttons) ==
  /\ state[s] = "NORMAL"
  /\ "Ptr" \in accessRights[s]
  /\ pointerClient \in {NoSock, s}
  /\ pointerClient' = IF buttons THEN s ELSE NoSock
  /\ UNCHANGED <<state, closingSockets, deskVars, queryVars, pressedKeys,
                 accessRights, deskKeys, pbFault>>

\* Faulty variant of KeyEvent: the Shift_L pressed for ISO_Left_Tab stays down
\* when an unmatched up returns early.
KeyEventKeepsShift(s, key, down) ==
  LET k == IF Remap[key] = LeftTab THEN Tab ELSE Remap[key]
      shift == IF Remap[key] = LeftTab /\ {ShiftL, ShiftR} \cap pressedKeys[s] = {}
               THEN {ShiftL} ELSE {}
  IN /\ state[s] = "NORMAL"
     /\ "Key" \in accessRights[s]
     /\ pressedKeys' = [pressedKeys EXCEPT ![s] = IF down THEN @ \cup {k} ELSE @ \ {k}]
     /\ deskKeys' = IF down THEN (deskKeys \cup {k}) \ shift
                    ELSE IF k \in pressedKeys[s] THEN deskKeys \ ({k} \cup shift)
                    ELSE deskKeys \cup shift
     /\ UNCHANGED <<state, closingSockets, deskVars, queryVars, pointerClient,
                    accessRights, pbFault>>

\* keyEvent(): repeated downs pass, an up only if this client pressed the key.
\* ISO_Left_Tab is a Tab inside a Shift_L that is released on return.
KeyEvent(s, key, down) ==
  LET k == IF Remap[key] = LeftTab THEN Tab ELSE Remap[key]
      shift == IF Remap[key] = LeftTab /\ {ShiftL, ShiftR} \cap pressedKeys[s] = {}
               THEN {ShiftL} ELSE {}
  IN /\ state[s] = "NORMAL"
     /\ "Key" \in accessRights[s]
     /\ pressedKeys' = [pressedKeys EXCEPT ![s] = IF down THEN @ \cup {k} ELSE @ \ {k}]
     /\ deskKeys' = (IF down THEN deskKeys \cup {k}
                     ELSE IF k \in pressedKeys[s] THEN deskKeys \ {k}
                     ELSE deskKeys) \ shift
     /\ UNCHANGED <<state, closingSockets, deskVars, queryVars, pointerClient,
                    accessRights, pbFault>>

-----------------------------------------------------------------------------
(* The control panel and the desktop.                                      *)

\* setStatus(): "& !(...)" is a logical not, so 1 and 2 clear every right.
NewRights(rights, status) ==
  IF status = 0 THEN rights \cup {"Ptr", "Key", "View"}
  ELSE IF status = 1 THEN {"View"}
  ELSE IF status = 2 THEN {}
  ELSE rights

\* setConnStatus(): the panel sends back a list it took earlier, with a status
\* for each connection of it still found here; 3 closes, the others set the
\* rights and then read pb's rectangle, whether or not the desktop runs.
SetConnStatus(status) ==
  LET listed == DOMAIN status IN
  /\ listed \subseteq Clients
  /\ listed # {}
  /\ state' = [s \in Sock |-> IF s \in listed /\ status[s] = 3 THEN "CLOSING" ELSE state[s]]
  /\ accessRights' = [s \in Sock |-> IF s \in listed THEN NewRights(accessRights[s], status[s])
                                     ELSE accessRights[s]]
  /\ pbFault' = (pbFault \/ (pb # "live" /\ \E s \in listed : status[s] # 3))
  /\ UNCHANGED <<closingSockets, deskVars, queryVars, pointerClient, pressedKeys, deskKeys>>

PanelSetsStatus ==
  \E listed \in SUBSET Sock : \E status \in [listed -> Statuses] : SetConnStatus(status)

\* setPixelBuffer() while running, after a screen change: the NORMAL clients
\* that cannot be resized are closed.
SetPixelBuffer(fixedSize) ==
  /\ desktopStarted
  /\ fixedSize # {}
  /\ \A s \in fixedSize : state[s] = "NORMAL"
  /\ pb' = "live"
  /\ state' = [s \in Sock |-> IF s \in fixedSize THEN "CLOSING" ELSE state[s]]
  /\ UNCHANGED <<closingSockets, desktopStarted, lastCall, inputVars, queryVars, pbFault>>

-----------------------------------------------------------------------------
Next ==
  \/ \E s \in Sock : \/ AddSocket(s)
                     \/ RemoveSocket(s)
                     \/ Close(s)
                     \/ QueryConnection(s)
                     \/ \E b \in BOOLEAN : ClientInit(s, b) \/ PointerEvent(s, b)
                     \/ \E k \in Key, d \in BOOLEAN : KeyEvent(s, k, d)
  \/ CloseClients
  \/ \E b \in BOOLEAN : Verdict(b)
  \/ PanelSetsStatus
  \/ \E fixedSize \in SUBSET Sock : SetPixelBuffer(fixedSize)

Spec == Init /\ [][Next]_vars

\* The host removes every socket it finds shut, and the dialog times out.
IsShutdown(s) == state[s] = "CLOSING" \/ s \in closingSockets
Reap(s) == IsShutdown(s) /\ RemoveSocket(s)
Fairness == /\ \A s \in Sock : WF_vars(Reap(s))
            /\ WF_vars(\E b \in BOOLEAN : Verdict(b))
FairSpec == Spec /\ Fairness

-----------------------------------------------------------------------------
(* Properties.                                                             *)

TypeOK ==
  /\ state \in [Sock -> State]
  /\ closingSockets \subseteq Sock
  /\ desktopStarted \in BOOLEAN
  /\ pb \in {"null", "live", "freed"}
  /\ pointerClient \in Sock \cup {NoSock}
  /\ pressedKeys \in [Sock -> SUBSET Key]
  /\ accessRights \in [Sock -> SUBSET Right]
  /\ queryConnectSock \in Sock \cup {NoSock}
  /\ queryCurrent \in BOOLEAN
  /\ lastCall \in {"start", "stop", "broken"}
  /\ deskKeys \subseteq Key
  /\ pbFault \in BOOLEAN

\* An authenticated client (whose handlers use pb freely) always has a running
\* desktop and a live pixel buffer, whoever else came and went, if the desktop
\* keeps SDesktop.h's word that start() returns with a buffer.
DesktopServesClients == Authenticated # {} => desktopStarted /\ pb = "live"

\* A running desktop is wanted by an authenticated client, or by one whose
\* removal is still to come and will stop it: it is never left running.
DesktopIsNeeded ==
  desktopStarted => \E s \in Sock : s \in Authenticated \/ state[s] = "CLOSING"

\* The desktop runs exactly as long as somebody is in need of it, in both
\* directions, in any order of closes, removals and new connections.
DesktopFollowsClients == DesktopServesClients /\ DesktopIsNeeded

\* SDesktop.h: start() and stop() are called alternately.  (Not so after a
\* start() that threw; see the README.)
StartStopAlternate == lastCall # "broken"

\* With NeverShared at most one client is in session, also when several pass
\* the "already in use" test before any of them sends ClientInit.
NeverSharedIsExclusive ==
  NeverShared => \A s, t \in Sock : state[s] = "NORMAL" /\ state[t] = "NORMAL" => s = t

\* A connection waiting for the user is the one the dialog asks about, so
\* that the answer will reach it.
QueryIsAnswerable ==
  \A s \in Sock : state[s] = "QUERYING" => queryConnectSock = s /\ queryCurrent

\* The destructor's promise to release the keys a client held: a key the
\* desktop believes down is held by a client still in the list.
NoStuckKey == deskKeys \subseteq UNION {pressedKeys[s] : s \in Sock}

\* The pointer is never reserved for a client that is gone: pointerClient is
\* no dangling pointer, and its holder got as far as a session.
PointerOwnerListed ==
  pointerClient # NoSock => state[pointerClient] \in {"NORMAL", "CLOSING"}

\* pb is never dereferenced when null or freed.  (Not so for setStatus() on a
\* connection that is not authenticated yet; see the README.)
PixelBufferValid == ~pbFault

\* A connection that must be approved by the user is let in only by the
\* answer to a question about that very connection, not by the answer about
\* an earlier one whose socket had the same address.
OnlyTheUserLetsIn ==
  [][\A s \in Sock : ~BypassesQuery(s) /\ s \notin Authenticated
                      /\ state'[s] \in {"INITIALISATION", "NORMAL"}
       => queryConnectSock = s /\ queryCurrent /\ queryConnectSock' = NoSock]_vars

\* approveConnection() decides on the connection that was asked about: an
\* answer that comes after its removal changes no other connection.
VerdictOnlyForAsked ==
  [][queryConnectSock # NoSock /\ queryConnectSock' = NoSock /\ ~queryCurrent
       => UNCHANGED state]_vars

\* A desktop no authenticated client uses is stopped, or used again.
UnusedDesktopStops ==
  desktopStarted /\ Authenticated = {} ~> ~desktopStarted \/ Authenticated # {}

\* No connection waits for the user forever.
QueryEnds == \A s \in Sock : state[s] = "QUERYING" ~> state[s] # "QUERYING"
=============================================================================
