--------------------------- MODULE XvncQueryProofs ---------------------------
(***************************************************************************)
(* The safety properties of XvncQuery, for any number of connections,      *)
(* addresses, screens and vncconfigs.                                      *)
(***************************************************************************)
EXTENDS XvncQuery, SequenceTheorems, TLAPS

(* The query of the extension is there or not in all its parts, and its    *)
(* screen waits for it; a screen that waits without a query gets no other. *)
SlotWhole ==
  /\ slot.desktop # 0 <=> slot.id # 0
  /\ slot.desktop # 0 <=> slot.timeout # 0
  /\ timer <=> slot.desktop # 0
  /\ slot.desktop # 0 => deskId[slot.desktop] = slot.id /\ slot.desktop \notin unasked
  /\ \A d \in unasked : deskId[d] # 0

(* Addresses are those of connections that came once.                      *)
Known(i) == \E c \in Conns : conn[c] # "absent" /\ id[c] = i
AddressesKnown ==
  /\ \A c \in Conns : IF conn[c] = "absent" THEN id[c] = 0
                      ELSE id[c] \in Ids /\ screen[c] \in Desktops
  /\ slot.id # 0 => Known(slot.id)

(* A dialog that can be answered shows the connections of its address, and *)
(* an acceptance was given to one of them.                                 *)
DialogsShown ==
  \A k \in Configs : dialog[k].exists \/ dialog[k].mapped =>
    /\ dialog[k].id \in Ids
    /\ \E c \in dialog[k].about : id[c] = dialog[k].id /\ conn[c] # "absent"
Approved(i) == \E e \in approved : id[e] = i /\ conn[e] # "absent"
AcceptancesShown ==
  \A k \in Configs : \A n \in 1..Len(requests[k]) :
    requests[k][n].accept => Approved(requests[k][n].id)
AcceptedShown == \A c \in Conns : conn[c] = "accepted" => Approved(id[c])

Inv ==
  /\ TypeOK
  /\ SlotWhole /\ SlotAgrees /\ WaitingIsAsked
  /\ AddressesKnown /\ DialogsShown /\ AcceptancesShown /\ AcceptedShown

-----------------------------------------------------------------------------
(* Each action preserves the invariant.                                    *)

LEMMA InitInv == Init => Inv
<1> SUFFICES ASSUME Init PROVE Inv
  OBVIOUS
<1>1. TypeOK
  <2>1. \A k \in Configs : requests[k] \in Seq([id : Ids, accept : BOOLEAN])
    BY EmptySeq DEF Init
  <2>2. requests \in [Configs -> Seq([id : Ids, accept : BOOLEAN])]
    BY <2>1 DEF Init
  <2> QED BY <2>2, QueryAssumption DEF Init, TypeOK, NoQuery, NoDialog, Listed
<1>2. SlotWhole /\ SlotAgrees /\ WaitingIsAsked
  BY DEF Init, SlotWhole, SlotAgrees, WaitingIsAsked, NoQuery
<1>3. AddressesKnown
  BY DEF Init, AddressesKnown, NoQuery
<1>4. DialogsShown /\ AcceptancesShown /\ AcceptedShown
  BY DEF Init, DialogsShown, AcceptancesShown, AcceptedShown, NoDialog
<1> QED BY <1>1, <1>2, <1>3, <1>4 DEF Inv

(* What the user's side keeps when connections only get other states, none *)
(* of them absent again and none accepted anew.                            *)
LEMMA OldVerdictsKept ==
  ASSUME Inv, UNCHANGED <<id, dialog, requests, approved>>,
         \A c \in Conns : conn[c] # "absent" => conn'[c] # "absent",
         \A c \in Conns : conn'[c] = "accepted" => conn[c] = "accepted" \/ Approved(id[c])
  PROVE  DialogsShown' /\ AcceptancesShown' /\ AcceptedShown'
<1>1. \A i : Approved(i) => Approved(i)'
  BY DEF Approved, Inv, TypeOK
<1>2. DialogsShown'
  BY DEF Inv, TypeOK, DialogsShown
<1>3. AcceptancesShown'
  BY <1>1 DEF Inv, AcceptancesShown
<1>4. AcceptedShown'
  BY <1>1 DEF Inv, AcceptedShown
<1> QED BY <1>2, <1>3, <1>4

(* A connection that comes has an address that no other has now.           *)
LEMMA ArriveStep == ASSUME Inv, NEW c \in Conns, Arrive(c) PROVE Inv'
<1> USE DEF Inv, Arrive, Listed
<1>1. PICK i \in Ids, d \in Desktops :
        id' = [id EXCEPT ![c] = i] /\ screen' = [screen EXCEPT ![c] = d]
  OBVIOUS
<1>2. /\ conn' = [conn EXCEPT ![c] = "connected"] /\ conn[c] = "absent" /\ id[c] = 0
      /\ UNCHANGED <<deskId, slot, timer, param, unasked, configVars>>
  BY DEF AddressesKnown
<1>3. TypeOK'
  <2>1. /\ conn' \in [Conns -> Listed \cup {"absent", "gone"}]
        /\ id' \in [Conns -> Ids \cup {0}] /\ screen' \in [Conns -> Desktops \cup {0}]
    BY <1>1, <1>2 DEF TypeOK
  <2> QED BY <1>2, <2>1 DEF TypeOK, configVars
<1>4. SlotWhole' /\ SlotAgrees'
  BY <1>2 DEF SlotWhole, SlotAgrees
<1>5. WaitingIsAsked'
  BY <1>1, <1>2 DEF WaitingIsAsked, TypeOK
<1>6. \A e \in Conns : e # c => id'[e] = id[e] /\ conn'[e] = conn[e] /\ screen'[e] = screen[e]
  BY <1>1, <1>2 DEF TypeOK
<1>7. /\ \A j : Known(j) => Known(j)'
      /\ \A j : Approved(j) => Approved(j)'
  BY <1>2, <1>6 DEF Known, Approved, TypeOK, configVars
<1>8. AddressesKnown'
  BY <1>1, <1>2, <1>6, <1>7 DEF AddressesKnown, TypeOK
<1>9. DialogsShown'
  BY <1>2, <1>6 DEF DialogsShown, TypeOK, configVars
<1>10. AcceptancesShown'
  BY <1>2, <1>7 DEF AcceptancesShown, configVars
<1>11. AcceptedShown'
  BY <1>2, <1>6, <1>7 DEF AcceptedShown, TypeOK
<1> QED BY <1>3, <1>4, <1>5, <1>8, <1>9, <1>10, <1>11

(* A query begins only when neither the screen nor the extension has one.  *)
LEMMA QueryStep == ASSUME Inv, NEW c \in Conns, QueryConnection(c) PROVE Inv'
<1> DEFINE d == screen[c]
<1>0. /\ conn[c] = "connected" /\ id[c] \in Ids /\ d \in Desktops /\ id[c] # 0 /\ d # 0
      /\ UNCHANGED <<id, screen, param, listening, exited, dialog, requests, approved>>
  BY QueryAssumption DEF Inv, AddressesKnown, QueryConnection
<1>1. TypeOK /\ TypeOK!2
  BY DEF Inv, TypeOK
<1>2. CASE conn' = [conn EXCEPT ![c] = "closed"] /\ UNCHANGED <<deskId, slot, timer, events, unasked>>
  <2>1. TypeOK'
    BY <1>0, <1>2 DEF Inv, TypeOK, Listed
  <2>2. SlotWhole' /\ SlotAgrees' /\ WaitingIsAsked'
    BY <1>0, <1>1, <1>2 DEF Inv, TypeOK, SlotWhole, SlotAgrees, WaitingIsAsked
  <2>3. AddressesKnown'
    BY <1>0, <1>1, <1>2 DEF Inv, TypeOK, AddressesKnown, Known
  <2>4. DialogsShown' /\ AcceptancesShown' /\ AcceptedShown'
    BY <1>0, <1>1, <1>2, OldVerdictsKept DEF Inv, TypeOK
  <2> QED BY <2>1, <2>2, <2>3, <2>4 DEF Inv
<1>3. CASE deskId[d] = 0 /\ ~Busy(d, id[c]) /\ conn' = [conn EXCEPT ![c] = "querying"]
           /\ deskId' = [deskId EXCEPT ![d] = id[c]]
           /\ \/ /\ param # 0
                 /\ slot' = [desktop |-> d, id |-> id[c], timeout |-> param]
                 /\ timer' = TRUE /\ Notify /\ UNCHANGED unasked
              \/ Cleared /\ unasked' = unasked \cup {d}
  <2>1. slot.timeout = 0 /\ slot.desktop = 0 /\ slot.id = 0
    BY <1>0, <1>3, QueryAssumption DEF Inv, SlotWhole, Busy
  <2>2. \A e \in Desktops \ unasked : deskId[e] = 0
    BY <2>1, QueryAssumption DEF Inv, SlotAgrees
  <2>3. events' \in [Configs -> Nat]
    <3>1. Notify
      BY <1>3 DEF Cleared
    <3>2. events \in [Configs -> Nat]
      BY DEF Inv, TypeOK
    <3> QED BY <3>1, <3>2 DEF Notify
  <2>4. TypeOK'
    <3>1. slot' \in [desktop : Desktops \cup {0}, id : Ids \cup {0}, timeout : Timeouts \cup {0}]
      BY <1>0, <1>3 DEF Inv, TypeOK, Cleared, NoQuery
    <3>2. timer' \in BOOLEAN /\ unasked' \subseteq Desktops
      BY <1>0, <1>3 DEF Inv, TypeOK, Cleared
    <3>3. conn' \in [Conns -> Listed \cup {"absent", "gone"}] /\ deskId' \in [Desktops -> Ids \cup {0}]
      BY <1>0, <1>3 DEF Inv, TypeOK, Listed
    <3> QED BY <1>0, <2>3, <3>1, <3>2, <3>3 DEF Inv, TypeOK
  <2>5. SlotWhole'
    BY <1>0, <1>1, <1>3, <2>1, QueryAssumption DEF Inv, TypeOK, SlotWhole, Cleared, NoQuery
  <2>6. SlotAgrees'
    BY <1>0, <1>1, <1>3, <2>2, QueryAssumption DEF Inv, TypeOK, SlotAgrees, Cleared, NoQuery
  <2>7. \A e \in Conns : conn[e] = "querying" => screen[e] # d /\ screen[e] \in unasked /\ screen[e] \in Desktops
    BY <1>0, <1>3, <2>1, QueryAssumption DEF Inv, AddressesKnown, WaitingIsAsked
  <2>8. WaitingIsAsked'
    BY <1>0, <1>1, <1>3, <2>7 DEF Inv, TypeOK, WaitingIsAsked, Cleared
  <2>9. AddressesKnown'
    BY <1>0, <1>1, <1>3 DEF Inv, TypeOK, AddressesKnown, Known, Cleared, NoQuery
  <2>10. DialogsShown' /\ AcceptancesShown' /\ AcceptedShown'
    BY <1>0, <1>1, <1>3, OldVerdictsKept DEF Inv, TypeOK
  <2> QED BY <2>4, <2>5, <2>6, <2>8, <2>9, <2>10 DEF Inv
<1> QED BY <1>2, <1>3 DEF QueryConnection, VncQueryConnect

LEMMA LeaveStep == ASSUME Inv, NEW c \in Conns, Leave(c) PROVE Inv'
<1> USE DEF Leave, Listed
<1>1. conn' = [conn EXCEPT ![c] = "gone"] /\ conn[c] # "absent"
      /\ UNCHANGED <<id, screen, deskId, slot, timer, param, unasked, configVars>>
  OBVIOUS
<1>2. TypeOK'
  BY <1>1 DEF Inv, TypeOK, configVars
<1>3. SlotWhole' /\ SlotAgrees' /\ WaitingIsAsked'
  BY <1>1 DEF Inv, TypeOK, SlotWhole, SlotAgrees, WaitingIsAsked
<1>4. AddressesKnown'
  BY <1>1 DEF Inv, TypeOK, AddressesKnown, Known
<1>5. DialogsShown' /\ AcceptancesShown' /\ AcceptedShown'
  BY <1>1, OldVerdictsKept DEF Inv, TypeOK, configVars
<1> QED BY <1>2, <1>3, <1>4, <1>5 DEF Inv

(* The end of the query, by an answer, which all screens get, or by the    *)
(* timer: nobody waits about its address any more at the screens that got  *)
(* it, and who is accepted was shown to the user.                          *)
LEMMA EndStep ==
  ASSUME Inv, slot.id # 0, NEW accept \in BOOLEAN,
         NEW screens \in SUBSET Desktops, slot.desktop \in screens,
         Approve(screens, slot.id, accept), Cleared,
         UNCHANGED <<id, screen, param, listening, exited, dialog, approved>>,
         accept => Approved(slot.id)
  PROVE  /\ conn' \in [Conns -> Listed \cup {"absent", "gone"}]
         /\ deskId' \in [Desktops -> Ids \cup {0}] /\ events' \in [Configs -> Nat]
         /\ unasked' \in SUBSET Desktops /\ SlotWhole' /\ SlotAgrees' /\ WaitingIsAsked' /\ AddressesKnown'
         /\ DialogsShown' /\ AcceptedShown' /\ \A i : Approved(i) => Approved(i)'
<1> DEFINE asked == {d \in screens : deskId[d] = slot.id}
<1>1. /\ slot.desktop \in asked /\ asked \subseteq Desktops /\ slot.id \in Ids /\ slot.id # 0
      /\ slot.desktop \notin unasked
  BY QueryAssumption DEF Inv, TypeOK, SlotWhole
<1>2. /\ deskId' = [d \in Desktops |-> IF d \in asked THEN 0 ELSE deskId[d]]
      /\ conn' = Verdict(asked, slot.id, accept) /\ unasked' = unasked \ asked
  BY DEF Approve
<1>3. \A e \in Desktops \ unasked : e # slot.desktop => deskId[e] = 0
  BY <1>1 DEF Inv, SlotAgrees
<1>4. /\ conn' \in [Conns -> Listed \cup {"absent", "gone"}]
      /\ \A c \in Conns :
           /\ conn[c] = "absent" <=> conn'[c] = "absent"
           /\ conn'[c] = "querying" => conn[c] = "querying" /\ ~(screen[c] \in asked /\ id[c] = slot.id)
           /\ conn'[c] = "accepted" => conn[c] = "accepted" \/ (accept /\ id[c] = slot.id)
  BY <1>2 DEF Inv, TypeOK, Verdict, Listed
<1>5. /\ deskId' \in [Desktops -> Ids \cup {0}] /\ events' \in [Configs -> Nat]
      /\ unasked' \in SUBSET Desktops
  BY <1>1, <1>2 DEF Inv, TypeOK, Cleared, Notify
<1>6. slot' = NoQuery /\ timer' = FALSE
  BY DEF Cleared
<1>7. SlotWhole' /\ SlotAgrees'
  <2>1. SlotWhole'
    BY <1>2, <1>6 DEF Inv, TypeOK, SlotWhole, NoQuery
  <2>2. ASSUME NEW e \in Desktops, e \notin unasked' PROVE deskId'[e] = 0
    BY <1>1, <1>2, <1>3, <2>2
  <2> QED BY <2>1, <2>2 DEF SlotAgrees
<1>8. WaitingIsAsked'
  <2> SUFFICES ASSUME NEW c \in Conns, conn'[c] = "querying"
               PROVE deskId'[screen[c]] = id[c] /\ screen[c] \in unasked'
    BY DEF WaitingIsAsked
  <2>1. conn[c] = "querying" /\ ~(screen[c] \in asked /\ id[c] = slot.id)
    BY <1>4
  <2>2. deskId[screen[c]] = id[c] /\ screen[c] \in Desktops /\ id[c] # 0
    BY <2>1, QueryAssumption DEF Inv, WaitingIsAsked, AddressesKnown
  <2>3. screen[c] \notin asked /\ screen[c] # slot.desktop
    BY <1>1, <2>1, <2>2
  <2>4. screen[c] \in unasked
    BY <1>3, <2>2, <2>3
  <2> QED BY <1>2, <2>2, <2>3, <2>4
<1>9. AddressesKnown'
  BY <1>4, <1>6 DEF Inv, AddressesKnown, NoQuery
<1>10. \A i : Approved(i) => Approved(i)'
  BY <1>4 DEF Approved, Inv, TypeOK
<1>11. DialogsShown'
  BY <1>4 DEF Inv, TypeOK, DialogsShown
<1>12. AcceptedShown'
  BY <1>4, <1>10 DEF Inv, AcceptedShown
<1> QED BY <1>4, <1>5, <1>7, <1>8, <1>9, <1>10, <1>11, <1>12

LEMMA TimerStep == ASSUME Inv, QueryConnectTimerCallback PROVE Inv'
<1> USE DEF QueryConnectTimerCallback
<1>1. slot.id # 0
  BY DEF Inv, SlotWhole
<1>2. /\ conn' \in [Conns -> Listed \cup {"absent", "gone"}]
      /\ deskId' \in [Desktops -> Ids \cup {0}] /\ events' \in [Configs -> Nat]
      /\ unasked' \in SUBSET Desktops /\ SlotWhole' /\ SlotAgrees' /\ WaitingIsAsked' /\ AddressesKnown'
      /\ DialogsShown' /\ AcceptedShown' /\ \A i : Approved(i) => Approved(i)'
  <2>1. slot.desktop \in Desktops
    BY <1>1, QueryAssumption DEF Inv, TypeOK, SlotWhole
  <2> QED BY <1>1, <2>1, EndStep
<1>3. slot' = NoQuery /\ timer' = FALSE
  BY DEF Cleared
<1>4. TypeOK'
  BY <1>2, <1>3 DEF Inv, TypeOK, NoQuery
<1>5. AcceptancesShown'
  BY <1>2 DEF Inv, AcceptancesShown
<1> QED BY <1>2, <1>4, <1>5 DEF Inv

(* The first answer is read; the others remain.                            *)
LEMMA AnswerRead ==
  ASSUME Inv, NEW k \in Configs, requests[k] # <<>>, requests' = [requests EXCEPT ![k] = Tail(@)]
  PROVE  /\ requests' \in [Configs -> Seq([id : Ids, accept : BOOLEAN])]
         /\ Head(requests[k]) \in [id : Ids, accept : BOOLEAN]
         /\ Head(requests[k]).accept => Approved(Head(requests[k]).id)
         /\ \A j \in Configs : \A n \in 1..Len(requests'[j]) :
              requests'[j][n].accept => Approved(requests'[j][n].id)
<1>1. requests[k] \in Seq([id : Ids, accept : BOOLEAN])
  BY DEF Inv, TypeOK
<1>2. /\ Head(requests[k]) = requests[k][1] /\ 1 \in 1..Len(requests[k])
      /\ Head(requests[k]) \in [id : Ids, accept : BOOLEAN]
      /\ Tail(requests[k]) \in Seq([id : Ids, accept : BOOLEAN])
      /\ \A n \in 1..Len(Tail(requests[k])) : n + 1 \in 1..Len(requests[k])
                                            /\ Tail(requests[k])[n] = requests[k][n + 1]
  <2>1. /\ Head(requests[k]) \in [id : Ids, accept : BOOLEAN]
        /\ Tail(requests[k]) \in Seq([id : Ids, accept : BOOLEAN])
        /\ Len(Tail(requests[k])) = Len(requests[k]) - 1
        /\ \A n \in 1..Len(Tail(requests[k])) : Tail(requests[k])[n] = requests[k][n + 1]
    BY <1>1, HeadTailProperties
  <2>2. Len(requests[k]) \in Nat \ {0} /\ Head(requests[k]) = requests[k][1]
    BY <1>1, EmptySeq
  <2> QED BY <2>1, <2>2
<1>3. requests' \in [Configs -> Seq([id : Ids, accept : BOOLEAN])]
  BY <1>2 DEF Inv, TypeOK
<1>4. \A n \in 1..Len(requests[k]) : requests[k][n].accept => Approved(requests[k][n].id)
  BY DEF Inv, AcceptancesShown
<1>5. requests'[k] = Tail(requests[k]) /\ \A j \in Configs : j # k => requests'[j] = requests[j]
  BY DEF Inv, TypeOK
<1>6. ASSUME NEW j \in Configs PROVE \A n \in 1..Len(requests'[j]) :
        requests'[j][n].accept => Approved(requests'[j][n].id)
  <2>1. CASE j = k
    BY <1>2, <1>4, <1>5, <2>1
  <2>2. CASE j # k
    BY <1>5, <2>2 DEF Inv, AcceptancesShown
  <2> QED BY <2>1, <2>2
<1> QED BY <1>2, <1>3, <1>4, <1>6

LEMMA ApproveStep == ASSUME Inv, NEW k \in Configs, ProcVncExtApproveConnect(k) PROVE Inv'
<1> DEFINE answer == Head(requests[k])
<1>1. /\ requests[k] # <<>> /\ requests' = [requests EXCEPT ![k] = Tail(@)]
      /\ UNCHANGED <<id, screen, param, listening, exited, dialog, approved>>
  BY DEF ProcVncExtApproveConnect
<1>2. /\ requests' \in [Configs -> Seq([id : Ids, accept : BOOLEAN])]
      /\ answer.id \in Ids /\ answer.id # 0 /\ answer.accept \in BOOLEAN
      /\ answer.accept => Approved(answer.id)
      /\ \A j \in Configs : \A n \in 1..Len(requests'[j]) :
              requests'[j][n].accept => Approved(requests'[j][n].id)
  BY <1>1, AnswerRead, QueryAssumption
<1>3. CASE slot.id = answer.id
  <2>1. Approve(Desktops, slot.id, answer.accept) /\ Cleared /\ slot.desktop \in Desktops
    BY <1>2, <1>3, QueryAssumption DEF ProcVncExtApproveConnect, Inv, TypeOK, SlotWhole
  <2>2. /\ conn' \in [Conns -> Listed \cup {"absent", "gone"}]
        /\ deskId' \in [Desktops -> Ids \cup {0}] /\ events' \in [Configs -> Nat]
        /\ unasked' \in SUBSET Desktops /\ SlotWhole' /\ SlotAgrees' /\ WaitingIsAsked' /\ AddressesKnown'
        /\ DialogsShown' /\ AcceptedShown' /\ \A i : Approved(i) => Approved(i)'
    BY <1>1, <1>2, <1>3, <2>1, EndStep
  <2>3. slot' = NoQuery /\ timer' = FALSE
    BY <2>1 DEF Cleared
  <2>4. TypeOK'
    BY <1>1, <1>2, <2>2, <2>3 DEF Inv, TypeOK, NoQuery
  <2>5. AcceptancesShown'
    BY <1>2, <2>2 DEF AcceptancesShown
  <2> QED BY <2>2, <2>4, <2>5 DEF Inv
<1>4. CASE slot.id # answer.id
  <2>1. UNCHANGED <<conn, deskId, slot, timer, events, unasked>>
    BY <1>4 DEF ProcVncExtApproveConnect
  <2>2. TypeOK'
    BY <1>1, <1>2, <2>1 DEF Inv, TypeOK
  <2>3. SlotWhole' /\ SlotAgrees' /\ WaitingIsAsked' /\ AddressesKnown'
    BY <1>1, <2>1 DEF Inv, SlotWhole, SlotAgrees, WaitingIsAsked, AddressesKnown, Known
  <2>4. DialogsShown' /\ AcceptedShown' /\ AcceptancesShown'
    BY <1>1, <1>2, <2>1 DEF Inv, DialogsShown, AcceptedShown, AcceptancesShown, Approved
  <2> QED BY <2>2, <2>3, <2>4 DEF Inv
<1> QED BY <1>3, <1>4

(* The vncconfigs' own steps leave the server alone.                       *)
LEMMA ServerKept ==
  ASSUME Inv, UNCHANGED serverVars
  PROVE  SlotWhole' /\ SlotAgrees' /\ WaitingIsAsked' /\ AddressesKnown'
<1> SUFFICES ASSUME UNCHANGED <<conn, id, screen, deskId, slot, timer, param, unasked>>
             PROVE SlotWhole' /\ SlotAgrees' /\ WaitingIsAsked' /\ AddressesKnown'
  BY DEF serverVars
<1> QED BY DEF Inv, SlotWhole, SlotAgrees, WaitingIsAsked, AddressesKnown, Known

LEMMA NotifyStep == ASSUME Inv, NEW k \in Configs, HandleNotify(k) PROVE Inv'
<1> DEFINE D == [id |-> slot.id, exists |-> TRUE, mapped |-> TRUE,
                 about |-> {c \in Conns : id[c] = slot.id}]
<1>1. /\ events[k] > 0 /\ events' = [events EXCEPT ![k] = @ - 1]
      /\ UNCHANGED <<serverVars, listening, exited, requests, approved>>
      /\ \/ slot.desktop # 0 /\ dialog' = [dialog EXCEPT ![k] = D]
         \/ dialog' = [dialog EXCEPT ![k] = NoDialog]
  BY DEF HandleNotify
<1>2. slot.desktop # 0 => slot.id \in Ids /\ \E c \in D.about : id[c] = D.id /\ conn[c] # "absent"
  BY DEF Inv, TypeOK, SlotWhole, AddressesKnown, Known
<1>3. D \in [id : Ids \cup {0}, about : SUBSET Conns, exists : BOOLEAN, mapped : BOOLEAN]
  BY DEF Inv, TypeOK
<1>4. NoDialog \in [id : Ids \cup {0}, about : SUBSET Conns, exists : BOOLEAN, mapped : BOOLEAN]
  BY DEF NoDialog
<1>5. TypeOK'
  <2>1. dialog' \in [Configs -> [id : Ids \cup {0}, about : SUBSET Conns, exists : BOOLEAN, mapped : BOOLEAN]]
    BY <1>1, <1>3, <1>4 DEF Inv, TypeOK
  <2>2. events' \in [Configs -> Nat]
    BY <1>1 DEF Inv, TypeOK
  <2> QED BY <1>1, <2>1, <2>2 DEF Inv, TypeOK, serverVars
<1>6. DialogsShown'
  <2> SUFFICES ASSUME NEW j \in Configs, dialog'[j].exists \/ dialog'[j].mapped
               PROVE dialog'[j].id \in Ids /\ \E c \in dialog'[j].about : id[c] = dialog'[j].id /\ conn[c] # "absent"
    BY <1>1 DEF DialogsShown, serverVars
  <2>1. CASE j # k
    BY <1>1, <2>1 DEF Inv, TypeOK, DialogsShown
  <2>2. CASE j = k
    <3>1. dialog'[k] = NoDialog \/ (slot.desktop # 0 /\ dialog'[k] = D)
      BY <1>1 DEF Inv, TypeOK
    <3>2. ~NoDialog.exists /\ ~NoDialog.mapped
      BY DEF NoDialog
    <3> QED BY <1>2, <2>2, <3>1, <3>2
  <2> QED BY <2>1, <2>2
<1>7. AcceptancesShown' /\ AcceptedShown'
  BY <1>1 DEF Inv, AcceptancesShown, AcceptedShown, Approved, serverVars
<1> QED BY <1>1, <1>5, <1>6, <1>7, ServerKept DEF Inv

(* An answer is about the dialog's connection; an acceptance is the user's. *)
LEMMA RequestAdded ==
  ASSUME Inv, NEW k \in Configs, NEW accept \in BOOLEAN, dialog[k].exists \/ dialog[k].mapped,
         requests' = [requests EXCEPT ![k] = Append(@, [id |-> dialog[k].id, accept |-> accept])],
         approved' = IF accept THEN approved \cup dialog[k].about ELSE approved,
         UNCHANGED <<conn, id>>
  PROVE  /\ requests' \in [Configs -> Seq([id : Ids, accept : BOOLEAN])]
         /\ approved' \in SUBSET Conns
         /\ AcceptancesShown' /\ AcceptedShown'
<1> DEFINE r == [id |-> dialog[k].id, accept |-> accept]
<1>1. /\ dialog[k].id \in Ids
      /\ \E c \in dialog[k].about : id[c] = dialog[k].id /\ conn[c] # "absent"
      /\ dialog[k].about \subseteq Conns
  BY DEF Inv, TypeOK, DialogsShown
<1>2. r \in [id : Ids, accept : BOOLEAN] /\ requests[k] \in Seq([id : Ids, accept : BOOLEAN])
  BY <1>1 DEF Inv, TypeOK
<1>3. /\ Append(requests[k], r) \in Seq([id : Ids, accept : BOOLEAN])
      /\ Len(Append(requests[k], r)) = Len(requests[k]) + 1
      /\ \A n \in 1..Len(requests[k]) : Append(requests[k], r)[n] = requests[k][n]
      /\ Append(requests[k], r)[Len(requests[k]) + 1] = r
      /\ Len(requests[k]) \in Nat
  BY <1>2, AppendProperties, LenProperties
<1>4. \A i : Approved(i) => Approved(i)'
  BY DEF Approved
<1> DEFINE Given(i) == \E e \in approved' : id[e] = i /\ conn[e] # "absent"
<1>5. (\A i : Approved(i) => Given(i)) /\ (accept => Given(dialog[k].id))
  BY <1>1 DEF Approved
<1>6. /\ requests' \in [Configs -> Seq([id : Ids, accept : BOOLEAN])]
      /\ requests'[k] = Append(requests[k], r)
      /\ \A j \in Configs : j # k => requests'[j] = requests[j]
  BY <1>3 DEF Inv, TypeOK
<1>7. approved' \in SUBSET Conns
  BY <1>1 DEF Inv, TypeOK
<1>8. ASSUME NEW j \in Configs, NEW n \in 1..Len(requests'[j]), requests'[j][n].accept
      PROVE Given(requests'[j][n].id)
  <2> HIDE DEF Given
  <2>1. CASE j # k
    BY <1>5, <1>6, <1>8, <2>1 DEF Inv, AcceptancesShown
  <2>2. CASE j = k /\ n \in 1..Len(requests[k])
    BY <1>3, <1>5, <1>6, <1>8, <2>2 DEF Inv, AcceptancesShown
  <2>3. CASE j = k /\ n = Len(requests[k]) + 1
    BY <1>3, <1>5, <1>6, <1>8, <2>3
  <2> QED BY <1>3, <1>6, <2>1, <2>2, <2>3
<1>9. AcceptancesShown'
  BY <1>8 DEF AcceptancesShown, Approved
<1>10. AcceptedShown'
  BY <1>4 DEF Inv, AcceptedShown
<1> QED BY <1>6, <1>7, <1>9, <1>10

LEMMA AnswerStep ==
  ASSUME Inv, NEW k \in Configs, NEW accept \in BOOLEAN, Answer(k, accept) PROVE Inv'
<1>1. /\ dialog[k].mapped /\ dialog' = [dialog EXCEPT ![k].mapped = FALSE]
      /\ UNCHANGED <<serverVars, listening, exited, events>> /\ UNCHANGED <<conn, id>>
  BY DEF Answer, serverVars
<1>2. /\ requests' \in [Configs -> Seq([id : Ids, accept : BOOLEAN])]
      /\ approved' \in SUBSET Conns /\ AcceptancesShown' /\ AcceptedShown'
  BY <1>1, RequestAdded DEF Answer
<1>3. TypeOK'
  BY <1>1, <1>2 DEF Inv, TypeOK, serverVars
<1>4. DialogsShown'
  BY <1>1 DEF Inv, TypeOK, DialogsShown
<1> QED BY <1>1, <1>2, <1>3, <1>4, ServerKept DEF Inv

LEMMA DialogTimeoutStep == ASSUME Inv, NEW k \in Configs, DialogTimeout(k) PROVE Inv'
<1>1. /\ dialog[k].exists /\ dialog' = [dialog EXCEPT ![k] = NoDialog]
      /\ UNCHANGED <<serverVars, listening, exited, events>> /\ UNCHANGED <<conn, id>>
      /\ approved' = approved
  BY DEF DialogTimeout, serverVars
<1>2. /\ requests' \in [Configs -> Seq([id : Ids, accept : BOOLEAN])]
      /\ AcceptancesShown' /\ AcceptedShown'
  BY <1>1, RequestAdded DEF DialogTimeout
<1>3. TypeOK'
  BY <1>1, <1>2 DEF Inv, TypeOK, serverVars, NoDialog
<1>4. DialogsShown'
  BY <1>1 DEF Inv, TypeOK, DialogsShown, NoDialog
<1> QED BY <1>1, <1>2, <1>3, <1>4, ServerKept DEF Inv

LEMMA QuitStep == ASSUME Inv, NEW k \in Configs, Quit(k) PROVE Inv'
<1>1. /\ listening' = listening \ {k} /\ exited' = exited \cup {k}
      /\ events' = [events EXCEPT ![k] = 0] /\ dialog' = [dialog EXCEPT ![k] = NoDialog]
      /\ requests' = [requests EXCEPT ![k] = <<>>]
      /\ UNCHANGED <<serverVars, approved>> /\ UNCHANGED <<conn, id>>
  BY DEF Quit, serverVars
<1>2. TypeOK'
  <2>1. requests' \in [Configs -> Seq([id : Ids, accept : BOOLEAN])]
    BY <1>1, EmptySeq DEF Inv, TypeOK
  <2>2. dialog' \in [Configs -> [id : Ids \cup {0}, about : SUBSET Conns, exists : BOOLEAN, mapped : BOOLEAN]]
    BY <1>1 DEF Inv, TypeOK, NoDialog
  <2> QED BY <1>1, <2>1, <2>2 DEF Inv, TypeOK, serverVars
<1>3. DialogsShown'
  BY <1>1 DEF Inv, TypeOK, DialogsShown, NoDialog
<1>4. AcceptedShown'
  BY <1>1 DEF Inv, AcceptedShown, Approved
<1>5. AcceptancesShown'
  <2> SUFFICES ASSUME NEW j \in Configs, NEW n \in 1..Len(requests'[j]), requests'[j][n].accept
               PROVE  Approved(requests'[j][n].id)
    BY <1>1 DEF AcceptancesShown, Approved
  <2>1. requests'[j] = <<>> => Len(requests'[j]) = 0
    OBVIOUS
  <2>2. j # k /\ requests'[j] = requests[j]
    BY <1>1, <2>1 DEF Inv, TypeOK
  <2> QED BY <2>2 DEF Inv, AcceptancesShown
<1> QED BY <1>1, <1>2, <1>3, <1>4, <1>5, ServerKept DEF Inv

LEMMA OtherStep ==
  ASSUME Inv, SetParam \/ (\E k \in Configs : ProcVncExtSelectInput(k)) \/ UNCHANGED vars
  PROVE  Inv'
<1>1. /\ UNCHANGED <<conn, id, screen, deskId, slot, timer, unasked>>
      /\ UNCHANGED <<exited, events, dialog, requests, approved>>
      /\ param' \in Timeouts /\ listening' \in SUBSET Configs
  BY DEF Inv, TypeOK, SetParam, ProcVncExtSelectInput, vars, serverVars, configVars
<1>2. TypeOK'
  BY <1>1 DEF Inv, TypeOK
<1>3. SlotWhole' /\ SlotAgrees' /\ WaitingIsAsked' /\ AddressesKnown'
  BY <1>1 DEF Inv, SlotWhole, SlotAgrees, WaitingIsAsked, AddressesKnown, Known
<1>4. DialogsShown' /\ AcceptancesShown' /\ AcceptedShown'
  BY <1>1 DEF Inv, DialogsShown, AcceptancesShown, AcceptedShown, Approved
<1> QED BY <1>2, <1>3, <1>4 DEF Inv

LEMMA Invariance == Spec => []Inv
<1>1. Inv /\ [Next]_vars => Inv'
  BY ArriveStep, QueryStep, LeaveStep, TimerStep, ApproveStep, NotifyStep, AnswerStep,
     DialogTimeoutStep, QuitStep, OtherStep DEF Next
<1> QED BY <1>1, InitInv, PTL DEF Spec

-----------------------------------------------------------------------------
(* What follows for every execution.                                       *)

(* Screens and extension never disagree on the one query, whatever         *)
(* vncconfigs, users and connections do.                                   *)
THEOREM OneQueryAgreed == Spec => []OneQuery
  BY Invariance, PTL DEF Inv, OneQuery

(* Only a user who was shown the address of a connection lets it in.       *)
THEOREM OnlyShownAccepted == Spec => []AcceptedWasShown
<1>1. Inv => AcceptedWasShown
  BY DEF Inv, AcceptedShown, AcceptedWasShown, Approved
<1> QED BY <1>1, Invariance, PTL
=============================================================================
