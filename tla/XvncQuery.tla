------------------------------ MODULE XvncQuery ------------------------------
(***************************************************************************)
(* How Xvnc asks its local user about a connection: VNCServerST asks the   *)
(* XserverDesktop of a screen, the VNC extension holds the one query of    *)
(* the X server and notifies every vncconfig, each vncconfig fetches the   *)
(* query and shows a dialog, and the first answer decides.                 *)
(*                                                                         *)
(* The X server has one thread, so each of its handlers is one action.  A  *)
(* connection is known outside VNCServerST by the address of its socket,   *)
(* which a later connection may get again.                                 *)
(***************************************************************************)
EXTENDS Integers, Sequences, FiniteSets

CONSTANTS
  \* All four are numbered from 1 in the order of their first use.
  Conns,      \* connections
  Ids,        \* addresses of sockets
  Desktops,   \* the screens
  Configs,    \* the vncconfig processes
  Timeouts,   \* the values of the parameter QueryConnectTimeout
  MaxExits    \* bound: the vncconfigs that exit

ASSUME QueryAssumption ==
  /\ Timeouts \subseteq Nat /\ Timeouts # {}
  /\ 0 \notin Ids /\ 0 \notin Desktops
  /\ MaxExits \in Nat
  /\ \A S \in {Conns, Ids, Desktops, Configs} : S \subseteq Nat

VARIABLES
  conn,      \* the state of a connection
  id,        \* the address of its socket
  screen,    \* the screen it connected to
  deskId,    \* XserverDesktop::queryConnectId
  slot,      \* queryConnectDesktop, queryConnectId, queryConnectTimeout
  timer,     \* queryConnectTimer is set
  param,     \* the parameter QueryConnectTimeout
  listening, \* vncInputSelectHead: the vncconfigs that get notified
  exited,    \* the vncconfigs that are gone; a new one is another process
  events,    \* notifications a vncconfig has not handled
  dialog,    \* its queryConnectId, and whether the dialog is there and mapped
  requests,  \* its answers that the X server has not read
  approved,  \* history: the connections whose dialog a user has accepted
  unasked    \* history: the screens that wait for a query with a timeout of 0

serverVars == <<conn, id, screen, deskId, slot, timer, param, unasked>>
configVars == <<listening, exited, events, dialog, requests, approved>>
vars == <<serverVars, configVars>>

NoQuery  == [desktop |-> 0, id |-> 0, timeout |-> 0]
NoDialog == [id |-> 0, about |-> {}, exists |-> FALSE, mapped |-> FALSE]

Listed == {"connected", "querying", "accepted", "closed"}   \* in VNCServerST::clients

TypeOK ==
  /\ conn \in [Conns -> Listed \cup {"absent", "gone"}]
  /\ id \in [Conns -> Ids \cup {0}] /\ screen \in [Conns -> Desktops \cup {0}]
  /\ deskId \in [Desktops -> Ids \cup {0}]
  /\ slot \in [desktop : Desktops \cup {0}, id : Ids \cup {0}, timeout : Timeouts \cup {0}]
  /\ timer \in BOOLEAN /\ param \in Timeouts
  /\ listening \in SUBSET Configs /\ exited \in SUBSET Configs
  /\ events \in [Configs -> Nat]
  /\ dialog \in [Configs -> [id : Ids \cup {0}, about : SUBSET Conns, exists : BOOLEAN, mapped : BOOLEAN]]
  /\ requests \in [Configs -> Seq([id : Ids, accept : BOOLEAN])]
  /\ approved \in SUBSET Conns /\ unasked \in SUBSET Desktops

Init ==
  /\ conn = [c \in Conns |-> "absent"]
  /\ id = [c \in Conns |-> 0] /\ screen = [c \in Conns |-> 0]
  /\ deskId = [d \in Desktops |-> 0]
  /\ slot = NoQuery /\ timer = FALSE /\ param \in Timeouts
  /\ listening = {} /\ exited = {} /\ events = [k \in Configs |-> 0]
  /\ dialog = [k \in Configs |-> NoDialog]
  /\ requests = [k \in Configs |-> <<>>]
  /\ approved = {} /\ unasked = {}

-----------------------------------------------------------------------------
(* The X server.                                                           *)

(* VNCServerST::approveConnection() of some screens: their connection with *)
(* this address gets the verdict, or is closed if it is not being queried. *)
Verdict(screens, i, accept) ==
  [c \in Conns |->
     IF conn[c] \in Listed /\ screen[c] \in screens /\ id[c] = i
     THEN IF conn[c] = "querying" /\ accept THEN "accepted" ELSE "closed"
     ELSE conn[c]]

(* XserverDesktop::approveConnection() of some screens: those that wait    *)
(* about this address take the answer.                                     *)
Approve(screens, i, accept) ==
  LET asked == {d \in screens : deskId[d] = i} IN
  /\ deskId' = [d \in Desktops |-> IF d \in asked THEN 0 ELSE deskId[d]]
  /\ conn' = Verdict(asked, i, accept)
  /\ unasked' = unasked \ asked

Notify == events' = [k \in Configs |-> IF k \in listening THEN events[k] + 1 ELSE events[k]]

(* The rest of vncQueryConnect() once a query is over.                     *)
Cleared ==
  /\ slot' = NoQuery
  /\ timer' = FALSE
  /\ Notify

Busy(d, i) == slot.timeout # 0 /\ (d # slot.desktop \/ i # slot.id)

\* Mutants: a query refused in favour of another screen's leaves its screen busy;
\* no timer is set.
VncQueryConnectLeaves(c) ==
  LET d == screen[c] IN
  \/ /\ Busy(d, id[c]) \/ (param # 0 /\ listening = {})
     /\ conn' = [conn EXCEPT ![c] = "closed"]
     /\ deskId' = [deskId EXCEPT ![d] = id[c]]
     /\ UNCHANGED <<slot, timer, events, unasked>>
  \/ /\ ~Busy(d, id[c]) /\ param # 0 /\ listening # {}
     /\ conn' = [conn EXCEPT ![c] = "querying"]
     /\ deskId' = [deskId EXCEPT ![d] = id[c]]
     /\ slot' = [desktop |-> d, id |-> id[c], timeout |-> param]
     /\ timer' = TRUE
     /\ Notify
     /\ UNCHANGED unasked
VncQueryConnectUntimed(c) ==
  LET d == screen[c] IN
  \/ /\ Busy(d, id[c]) \/ (param # 0 /\ listening = {})
     /\ conn' = [conn EXCEPT ![c] = "closed"]
     /\ UNCHANGED <<deskId, slot, timer, events, unasked>>
  \/ /\ ~Busy(d, id[c]) /\ param # 0 /\ listening # {}
     /\ conn' = [conn EXCEPT ![c] = "querying"]
     /\ deskId' = [deskId EXCEPT ![d] = id[c]]
     /\ slot' = [desktop |-> d, id |-> id[c], timeout |-> param]
     /\ Notify
     /\ UNCHANGED <<timer, unasked>>

(* vncQueryConnect() for a new query c of screen d: refused while another  *)
(* one is shown, refused when no vncconfig listens, else shown.  With a    *)
(* timeout of 0 there is no query to show and none to wait for.            *)
VncQueryConnect(c) ==
  LET d == screen[c] IN
  \/ /\ Busy(d, id[c]) \/ (param # 0 /\ listening = {})
     /\ conn' = [conn EXCEPT ![c] = "closed"]
     /\ UNCHANGED <<deskId, slot, timer, events, unasked>>
  \/ /\ ~Busy(d, id[c]) /\ param # 0 /\ listening # {}
     /\ conn' = [conn EXCEPT ![c] = "querying"]
     /\ deskId' = [deskId EXCEPT ![d] = id[c]]
     /\ slot' = [desktop |-> d, id |-> id[c], timeout |-> param]
     /\ timer' = TRUE
     /\ Notify
     /\ UNCHANGED unasked
  \/ /\ ~Busy(d, id[c]) /\ param = 0
     /\ conn' = [conn EXCEPT ![c] = "querying"]
     /\ deskId' = [deskId EXCEPT ![d] = id[c]]
     /\ Cleared
     /\ unasked' = unasked \cup {d}

InOrder(x, S, used) == x \in used \/ \A y \in S : y < x => y \in used

Arrive(c) ==
  /\ conn[c] = "absent"
  /\ InOrder(c, Conns, {e \in Conns : conn[e] # "absent"})
  /\ \E i \in Ids, d \in Desktops :
       /\ InOrder(i, Ids, {id[e] : e \in Conns}) /\ InOrder(d, Desktops, {screen[e] : e \in Conns})
       /\ \A e \in Conns : conn[e] \in Listed => id[e] # i
       /\ id' = [id EXCEPT ![c] = i] /\ screen' = [screen EXCEPT ![c] = d]
  /\ conn' = [conn EXCEPT ![c] = "connected"]
  /\ UNCHANGED <<deskId, slot, timer, param, unasked, configVars>>

(* XserverDesktop::queryConnection(): one query per screen.                *)
QueryConnection(c) ==
  /\ conn[c] = "connected"
  /\ \/ /\ deskId[screen[c]] # 0
        /\ conn' = [conn EXCEPT ![c] = "closed"]
        /\ UNCHANGED <<deskId, slot, timer, events, unasked>>
     \/ /\ deskId[screen[c]] = 0
        /\ VncQueryConnect(c)
  /\ UNCHANGED <<id, screen, param, listening, exited, dialog, requests, approved>>

Leave(c) ==
  /\ conn[c] \in Listed
  /\ conn' = [conn EXCEPT ![c] = "gone"]
  /\ UNCHANGED <<id, screen, deskId, slot, timer, param, unasked, configVars>>

(* Twice the dialog's time has passed without an answer.                   *)
QueryConnectTimerCallback ==
  /\ timer
  /\ Approve({slot.desktop}, slot.id, FALSE)
  /\ Cleared
  /\ UNCHANGED <<id, screen, param, listening, exited, dialog, requests, approved>>

\* Mutant: the answer is taken for the present query, whichever it was about.
ProcVncExtApproveConnectAny(k) ==
  /\ requests[k] # <<>>
  /\ requests' = [requests EXCEPT ![k] = Tail(@)]
  /\ IF slot.timeout # 0
     THEN Approve(Desktops, slot.id, Head(requests[k]).accept) /\ Cleared
     ELSE UNCHANGED <<conn, deskId, slot, timer, events, unasked>>
  /\ UNCHANGED <<id, screen, param, listening, exited, dialog, approved>>
\* Mutant: the other vncconfigs are not told.
ProcVncExtApproveConnectQuietly(k) ==
  /\ requests[k] # <<>>
  /\ requests' = [requests EXCEPT ![k] = Tail(@)]
  /\ IF slot.id = Head(requests[k]).id
     THEN Approve(Desktops, slot.id, Head(requests[k]).accept) /\ slot' = NoQuery /\ timer' = FALSE
     ELSE UNCHANGED <<conn, deskId, slot, timer, unasked>>
  /\ UNCHANGED <<id, screen, param, listening, exited, events, dialog, approved>>

(* The answer counts if it is about the present query.  Every screen gets  *)
(* it: one that waits in vain about an earlier connection of this address  *)
(* is freed by it too.                                                     *)
ProcVncExtApproveConnect(k) ==
  /\ requests[k] # <<>>
  /\ requests' = [requests EXCEPT ![k] = Tail(@)]
  /\ IF slot.id = Head(requests[k]).id
     THEN Approve(Desktops, slot.id, Head(requests[k]).accept) /\ Cleared
     ELSE UNCHANGED <<conn, deskId, slot, timer, events, unasked>>
  /\ UNCHANGED <<id, screen, param, listening, exited, dialog, approved>>

SetParam ==
  /\ param' \in Timeouts \ {param}
  /\ UNCHANGED <<conn, id, screen, deskId, slot, timer, unasked, configVars>>

ProcVncExtSelectInput(k) ==
  /\ k \notin listening \cup exited
  /\ InOrder(k, Configs, listening \cup exited)
  /\ listening' = listening \cup {k}
  /\ UNCHANGED <<serverVars, exited, events, dialog, requests, approved>>

-----------------------------------------------------------------------------
(* vncconfig.                                                              *)

(* A notification is answered by a round trip: the X server has read all   *)
(* of this vncconfig's answers, and replies with the query it has then.    *)
HandleNotify(k) ==
  /\ events[k] > 0 /\ requests[k] = <<>>
  /\ events' = [events EXCEPT ![k] = @ - 1]
  /\ LET shown == slot.desktop # 0 /\ deskId[slot.desktop] = slot.id /\ param # 0
     IN dialog' = [dialog EXCEPT ![k] =
          IF shown THEN [id |-> slot.id, exists |-> TRUE, mapped |-> TRUE,
                         about |-> {c \in Conns : id[c] = slot.id}]
          ELSE NoDialog]
  /\ UNCHANGED <<serverVars, listening, exited, requests, approved>>

(* The user clicks, or closes the window, which counts as a rejection.     *)
Answer(k, accept) ==
  /\ dialog[k].mapped
  /\ dialog' = [dialog EXCEPT ![k].mapped = FALSE]
  /\ requests' = [requests EXCEPT ![k] = Append(@, [id |-> dialog[k].id, accept |-> accept])]
  /\ approved' = IF accept THEN approved \cup dialog[k].about ELSE approved
  /\ UNCHANGED <<serverVars, listening, exited, events>>

(* The countdown ends.  It also runs on in a dialog that was answered.     *)
DialogTimeout(k) ==
  /\ dialog[k].exists
  /\ dialog' = [dialog EXCEPT ![k] = NoDialog]
  /\ requests' = [requests EXCEPT ![k] = Append(@, [id |-> dialog[k].id, accept |-> FALSE])]
  /\ UNCHANGED <<serverVars, listening, exited, events, approved>>

(* vncconfig exits or is killed.                                           *)
Quit(k) ==
  /\ k \in listening /\ Cardinality(exited) < MaxExits
  /\ listening' = listening \ {k} /\ exited' = exited \cup {k}
  /\ events' = [events EXCEPT ![k] = 0]
  /\ dialog' = [dialog EXCEPT ![k] = NoDialog]
  /\ requests' = [requests EXCEPT ![k] = <<>>]
  /\ UNCHANGED <<serverVars, approved>>

-----------------------------------------------------------------------------
Next ==
  \/ \E c \in Conns : Arrive(c) \/ QueryConnection(c) \/ Leave(c)
  \/ \E k \in Configs :
       \/ ProcVncExtSelectInput(k) \/ ProcVncExtApproveConnect(k)
       \/ HandleNotify(k) \/ DialogTimeout(k) \/ Quit(k)
       \/ \E accept \in BOOLEAN : Answer(k, accept)
  \/ QueryConnectTimerCallback \/ SetParam

Spec == Init /\ [][Next]_vars

(* The X server runs its timer and reads its clients, and a vncconfig      *)
(* handles what it is sent.  Users need not answer.                        *)
Fairness ==
  /\ WF_vars(QueryConnectTimerCallback)
  /\ \A k \in Configs : WF_vars(ProcVncExtApproveConnect(k)) /\ WF_vars(HandleNotify(k))

FairSpec == Spec /\ Fairness

-----------------------------------------------------------------------------
(* Properties.                                                             *)

(* The screens and the extension agree on the one query: a screen whose    *)
(* query the extension does not hold would refuse everybody for ever.      *)
(* That happens with a timeout of 0 only.                                  *)
SlotAgrees ==
  \A d \in Desktops \ unasked : deskId[d] # 0 => slot.desktop = d /\ slot.id = deskId[d] /\ timer

(* A connection that waits for a verdict is the one being asked about, and *)
(* there is at most one.                                                   *)
WaitingIsAsked ==
  \A c \in Conns : conn[c] = "querying" =>
    deskId[screen[c]] = id[c] /\ (slot.id = id[c] \/ screen[c] \in unasked)

(* So there is one query, about which everybody agrees.                    *)
OneQuery == TypeOK /\ SlotAgrees /\ WaitingIsAsked

(* A connection is accepted only by a user who was shown a connection with *)
(* its socket address: without a reuse of addresses, that connection.      *)
AcceptedWasShown ==
  \A c \in Conns : conn[c] = "accepted" => \E e \in approved : id[e] = id[c]

(* Every query ends, whatever users, vncconfigs and the connection do.     *)
QueryEnds == \A d \in Desktops : deskId[d] # 0 ~> deskId[d] = 0 \/ d \in unasked

(* The timeout is the "number of seconds to show the Accept Connection     *)
(* dialog before rejecting the connection".                                *)
RejectedInTime == \A d \in Desktops : deskId[d] # 0 ~> deskId[d] = 0

(* A dialog does not outlive its query: someone answers it, or the end of  *)
(* the query takes it away.                                                *)
DialogsEnd == \A k \in Configs : dialog[k].mapped ~> ~dialog[k].mapped
=============================================================================
