-------------------------- MODULE ConnectionProofs --------------------------
(***************************************************************************)
(* What the two ends of a connection may rely on, from the first byte on:  *)
(* first Handshake, for every set of offers, server versions and viewers,  *)
(* then UpdateStream, for every desktop, set of formats and encodings.     *)
(***************************************************************************)
EXTENDS Handshake, UpdateStream, SequenceTheorems, FiniteSetTheorems, TLAPS

-----------------------------------------------------------------------------
(* The handshake: the inductive invariant of authorisation.                *)

\* The messages on their way to the viewer: no server initialisation before
\* the server admitted it.
Delivered == { m \in ToClient : m.kind \in {"serverInit", "interaction"} => admitted }

\* The messages on their way to the server: a right response only from a
\* viewer that knows the password.
Sent == { m \in ToServer : m.kind = "response" /\ m.body = TRUE => knows }

\* What the state of the server says of its security object.
ServerSound ==
  /\ sState \in {"PROTOCOL_VERSION", "SECURITY_TYPE", "TIGHT_AUTH_TYPE"} => sSec = "unset"
  /\ sState = "SECURITY" => sSec = "VncAuth"
  /\ Authorised
  /\ admitted => Entitled /\ sState \in {"NORMAL", "CLOSING"}

ClientSound == cState \in {"CAPABILITIES", "NORMAL"} => admitted

Inv ==
  /\ FieldsOK
  /\ toClient \in Seq(Delivered)
  /\ toServer \in Seq(Sent)
  /\ ServerSound
  /\ ClientSound

-----------------------------------------------------------------------------
(* Channels.                                                               *)

LEMMA OneMessage ==
  ASSUME NEW S, NEW m \in S
  PROVE  <<m>> \in Seq(S)
  OBVIOUS

LEMMA TwoMessages ==
  ASSUME NEW S, NEW m \in S, NEW n \in S
  PROVE  <<m, n>> \in Seq(S)
  OBVIOUS

\* Whatever the state, these messages may be written to the viewer.
LEMMA Writable ==
  /\ \A ok \in BOOLEAN : Result(ok) \in Delivered
  /\ Challenge \in Delivered
  /\ Tunnels \in Delivered
  /\ \A t \in SecType \cup {"Invalid"} : Message("type33", t) \in Delivered
  /\ \A l \in Offers : Message("types", Append(l, "Tight")) \in Delivered
  /\ \A l \in Offers \cup {<<>>} : Message("caps", l) \in Delivered
  BY DEF Delivered, ToClient, Result, Challenge, Tunnels, Message

\* Reading takes a well-formed message off the channel.
LEMMA ServerReadsOne ==
  ASSUME Inv, NEW kind, ServerReads(kind)
  PROVE  /\ Head(toServer) \in Sent
         /\ Head(toServer).kind = kind
         /\ toServer' \in Seq(Sent)
         /\ UNCHANGED <<setup, clientVars>>
  BY HeadTailProperties DEF Inv, ServerReads

LEMMA ClientReadsOne ==
  ASSUME Inv, NEW kind, ClientReads(kind)
  PROVE  /\ Head(toClient) \in Delivered
         /\ Head(toClient).kind = kind
         /\ toClient' \in Seq(Delivered)
         /\ UNCHANGED <<setup, serverVars>>
  BY HeadTailProperties DEF Inv, ClientReads

\* The bodies of the messages the server reads.
LEMMA ServerBodies ==
  ASSUME NEW m \in Sent
  PROVE  /\ m.kind = "version" => m.body \in {3, 7, 8}
         /\ m.kind = "type" => m.body \in SecType \cup {"Tight"}
         /\ m.kind = "authType" => m.body \in SecType
         /\ m.kind = "response" => m.body \in BOOLEAN /\ (m.body = TRUE => knows)
  BY DEF Sent, ToServer, Version, Message

\* The bodies of the messages the viewer reads.
LEMMA ClientBodies ==
  ASSUME NEW m \in Delivered
  PROVE  /\ m.kind = "version" => m.body \in {3, 8}
         /\ m.kind = "type33" => m.body \in SecType \cup {"Invalid"}
         /\ m.kind = "types" => \E l \in Offers : m.body = Append(l, "Tight")
         /\ m.kind = "caps" => m.body \in Offers \cup {<<>>}
         /\ m.kind = "result" => m.body \in BOOLEAN
         /\ m.kind \in {"serverInit", "interaction"} => admitted
  BY DEF Delivered, ToClient, Version, Result, Challenge, Tunnels, Message

-----------------------------------------------------------------------------
(* The parts of the server's handlers.                                     *)

LEMMA ResultTyped ==
  ASSUME NEW minor, NEW type, NEW ok \in BOOLEAN
  PROVE  ResultOf(minor, type, ok) \in Seq(Delivered)
  BY Writable, OneMessage, EmptySeq DEF ResultOf

LEMMA AcceptsSound ==
  ASSUME Inv, NEW written \in Seq(Delivered), NEW minor, NEW type,
         Accepts(written, minor, type)
  PROVE  /\ toClient' \in Seq(Delivered)
         /\ sState' \in {"INITIALISATION", "CLOSING"}
         /\ closeReason' \in {closeReason, "no desktop"}
  <1>1. written \o ResultOf(minor, type, TRUE) \in Seq(Delivered)
    BY ResultTyped, ConcatProperties
  <1>2. toClient' \in Seq(Delivered)
    BY <1>1, ConcatProperties DEF Accepts, ServerWrites, Inv
  <1> QED
    BY <1>2 DEF Accepts, Enters, Closes

LEMMA AuthenticatedSound ==
  ASSUME Inv, NEW written \in Seq(Delivered), NEW minor, NEW type,
         Authenticated(written, minor, type)
  PROVE  /\ toClient' \in Seq(Delivered)
         /\ sState' \in {"INITIALISATION", "CLOSING", "QUERYING"}
         /\ closeReason' \in {closeReason, "no desktop", "rejected"}
  <1>1. CASE Accepts(written, minor, type)
    BY <1>1, AcceptsSound
  <1>2. CASE /\ ServerWrites(written \o ResultOf(minor, type, FALSE) \o <<Result(FALSE)>>)
             /\ Closes("rejected")
    <2>1. written \o ResultOf(minor, type, FALSE) \in Seq(Delivered)
      BY ResultTyped, ConcatProperties
    <2>2. <<Result(FALSE)>> \in Seq(Delivered)
      BY Writable, OneMessage
    <2>3. written \o ResultOf(minor, type, FALSE) \o <<Result(FALSE)>> \in Seq(Delivered)
      BY <2>1, <2>2, ConcatProperties
    <2> QED
      BY <1>2, <2>3, ConcatProperties DEF ServerWrites, Closes, Inv
  <1>3. CASE ServerWrites(written) /\ Enters("QUERYING")
    BY <1>3, ConcatProperties DEF ServerWrites, Enters, Inv
  <1> QED
    BY <1>1, <1>2, <1>3 DEF Authenticated

LEMMA StartSecuritySound ==
  ASSUME Inv, NEW written \in Seq(Delivered), NEW minor, NEW type \in SecType,
         StartSecurity(written, minor, type)
  PROVE  /\ toClient' \in Seq(Delivered)
         /\ sSec' = type
         /\ \/ sState' \in {"INITIALISATION", "CLOSING", "QUERYING"} /\ type = "None"
            \/ sState' = "SECURITY" /\ type = "VncAuth"
         /\ closeReason' \in {closeReason, "no desktop", "rejected"}
  <1>1. CASE type = "None" /\ Authenticated(written, minor, type)
    BY <1>1, AuthenticatedSound DEF StartSecurity
  <1>2. CASE /\ type = "VncAuth"
             /\ ServerWrites(written \o <<Challenge>>) /\ Enters("SECURITY")
    <2>1. written \o <<Challenge>> \in Seq(Delivered)
      BY Writable, OneMessage, ConcatProperties
    <2> QED
      BY <1>2, <2>1, ConcatProperties DEF ServerWrites, Enters, StartSecurity, Inv
  <1> QED
    BY <1>1, <1>2 DEF StartSecurity

LEMMA OfferedTyped ==
  ASSUME Inv
  PROVE  /\ Offered \subseteq SecType
         /\ offer # <<>> => Head(offer) \in Offered
         /\ offer \in Seq(SecType)
  <1>1. offer \in Seq(SecType)
    BY HandshakeAssumption DEF Inv, FieldsOK
  <1>2. Offered \subseteq SecType
    BY <1>1, ElementOfSeq, LenProperties DEF Offered
  <1>3. ASSUME offer # <<>> PROVE Head(offer) \in Offered
    BY <1>1, <1>3, EmptySeq, LenProperties DEF Offered
  <1> QED
    BY <1>1, <1>2, <1>3

LEMMA ProcessSecurityTypeSound ==
  ASSUME Inv, sSec = "unset", NEW type, ProcessSecurityType(type)
  PROVE  /\ toClient' \in Seq(Delivered)
         /\ \/ /\ sSec' = "None" /\ "None" \in Offered
               /\ sState' \in {"INITIALISATION", "CLOSING", "QUERYING"}
            \/ sSec' = "VncAuth" /\ "VncAuth" \in Offered /\ sState' = "SECURITY"
            \/ sSec' = sSec /\ sState' = "CLOSING"
         /\ closeReason' \in {closeReason, "no desktop", "rejected", "type not available"}
  <1>1. CASE type \in Offered /\ StartSecurity(<<>>, sMinor, type)
    <2>1. type \in SecType
      BY <1>1, OfferedTyped
    <2>2. <<>> \in Seq(Delivered)
      BY EmptySeq
    <2> QED
      BY <1>1, <2>1, <2>2, StartSecuritySound
  <1>2. CASE type \notin Offered /\ Closes("type not available") /\ UNCHANGED <<sSec, toClient>>
    BY <1>2 DEF Closes, Inv
  <1> QED
    BY <1>1, <1>2 DEF ProcessSecurityType

LEMMA OfferTightSound ==
  ASSUME Inv, sSec = "unset", OfferTight
  PROVE  /\ toClient' \in Seq(Delivered)
         /\ \/ /\ sSec' = "None" /\ "None" \in Offered
               /\ sState' \in {"INITIALISATION", "CLOSING", "QUERYING"}
            \/ sSec' = sSec /\ sState' \in {"CLOSING", "TIGHT_AUTH_TYPE"}
         /\ closeReason' \in {closeReason, "no desktop", "rejected", "no type"}
  <1>1. CASE offer = <<>> /\ ServerWrites(<<Tunnels>>) /\ Closes("no type") /\ UNCHANGED sSec
    <2>1. <<Tunnels>> \in Seq(Delivered)
      BY Writable, OneMessage
    <2> QED
      BY <1>1, <2>1, ConcatProperties DEF ServerWrites, Closes, Inv
  <1>2. CASE /\ Offered = {"None"}
             /\ StartSecurity(<<Tunnels, Message("caps", <<>>)>>, sMinor, "None")
    <2>1. <<Tunnels, Message("caps", <<>>)>> \in Seq(Delivered)
      BY Writable, TwoMessages
    <2> QED
      BY <1>2, <2>1, StartSecuritySound DEF SecType
  <1>3. CASE /\ ServerWrites(<<Tunnels, Message("caps", offer)>>)
             /\ Enters("TIGHT_AUTH_TYPE")
             /\ UNCHANGED sSec
    <2>1. offer \in Offers
      BY DEF Inv, FieldsOK
    <2>2. <<Tunnels, Message("caps", offer)>> \in Seq(Delivered)
      BY <2>1, Writable, TwoMessages
    <2> QED
      BY <1>3, <2>2, ConcatProperties DEF ServerWrites, Enters, Inv
  <1> QED
    BY <1>1, <1>2, <1>3 DEF OfferTight

-----------------------------------------------------------------------------
(* The server's steps keep the invariant and settle the type once.         *)

SettledNow == sSec' # sSec => sSec = "unset" /\ sSec' \in Offered

\* A step of the server that admits nobody.
LEMMA QuietStep ==
  ASSUME Inv, FieldsOK', ServerSound',
         toClient' \in Seq(Delivered), toServer' \in Seq(Sent),
         UNCHANGED <<knows, admitted, cState>>
  PROVE  Inv'
  <1>1. Delivered' = Delivered /\ Sent' = Sent
    BY DEF Delivered, Sent
  <1> QED
    BY <1>1 DEF Inv, ClientSound

\* A step that leaves the viewer's side alone.
LEMMA ServerFields ==
  ASSUME Inv, UNCHANGED <<setup, clientVars>>, admitted' \in BOOLEAN,
         sMinor' \in {3, 7, 8}, sTight' \in BOOLEAN, sSec' \in SecType \cup {"unset"},
         sState' \in ServerState, closeReason' \in CloseReason
  PROVE  FieldsOK'
  BY DEF Inv, FieldsOK, setup, clientVars

LEMMA VersionStep == Inv /\ ProcessVersionMsg => Inv' /\ SettledNow
  <1> SUFFICES ASSUME Inv, ProcessVersionMsg PROVE Inv' /\ SettledNow
    OBVIOUS
  <1>1. ServerReads("version") /\ sState = "PROTOCOL_VERSION"
    BY DEF ProcessVersionMsg
  <1>2. /\ toServer' \in Seq(Sent) /\ sMinor' \in {3, 7, 8}
        /\ UNCHANGED <<setup, clientVars, sTight, admitted>>
    BY <1>1, ServerReadsOne, ServerBodies DEF ProcessVersionMsg
  <1>3. sSec = "unset" /\ ~admitted
    BY <1>1 DEF Inv, ServerSound
  <1>4. /\ toClient' \in Seq(Delivered)
        /\ \/ /\ sSec' = "None" /\ "None" \in Offered
              /\ sState' \in {"INITIALISATION", "CLOSING", "QUERYING"}
           \/ sSec' = "VncAuth" /\ "VncAuth" \in Offered /\ sState' = "SECURITY"
           \/ sSec' = sSec /\ sState' \in {"CLOSING", "SECURITY_TYPE"}
        /\ closeReason' \in {closeReason, "no desktop", "rejected", "no type"}
    <2>1. CASE /\ ServerWrites(<<Message("type33", "Invalid")>>)
               /\ Closes("no type") /\ UNCHANGED sSec
      <3>1. <<Message("type33", "Invalid")>> \in Seq(Delivered)
        BY Writable, OneMessage
      <3> QED
        BY <2>1, <3>1, ConcatProperties DEF ServerWrites, Closes, Inv
    <2>2. CASE /\ offer # <<>>
               /\ StartSecurity(<<Message("type33", Head(offer))>>, 3, Head(offer))
      <3>1. Head(offer) \in Offered /\ Head(offer) \in SecType
        BY <2>2, OfferedTyped
      <3>2. <<Message("type33", Head(offer))>> \in Seq(Delivered)
        BY <3>1, Writable, OneMessage
      <3> QED
        BY <2>2, <3>1, <3>2, StartSecuritySound
    <2>3. CASE /\ ServerWrites(<<Message("types", Append(offer, "Tight"))>>)
               /\ Enters("SECURITY_TYPE") /\ UNCHANGED sSec
      <3>1. <<Message("types", Append(offer, "Tight"))>> \in Seq(Delivered)
        BY Writable, OneMessage DEF Inv, FieldsOK
      <3> QED
        BY <2>3, <3>1, ConcatProperties DEF ServerWrites, Enters, Inv
    <2> QED
      BY <2>1, <2>2, <2>3 DEF ProcessVersionMsg
  <1>5. FieldsOK'
    <2>1. sState' \in ServerState
      BY <1>4 DEF ServerState
    <2>2. closeReason' \in CloseReason
      BY <1>4 DEF CloseReason, Inv, FieldsOK
    <2>3. sSec' \in SecType \cup {"unset"}
      BY <1>2, <1>3, <1>4 DEF SecType, Inv, FieldsOK
    <2> QED
      BY <2>1, <2>2, <2>3, <1>2, ServerFields DEF Inv, FieldsOK
  <1>6. ServerSound'
    BY <1>2, <1>3, <1>4 DEF ServerSound, Authorised, Entitled
  <1>7. SettledNow
    BY <1>3, <1>4 DEF SettledNow
  <1> QED
    BY <1>2, <1>4, <1>5, <1>6, <1>7, QuietStep DEF setup, clientVars

LEMMA TypeStep == Inv /\ ProcessSecurityTypeMsg => Inv' /\ SettledNow
  <1> SUFFICES ASSUME Inv, ProcessSecurityTypeMsg PROVE Inv' /\ SettledNow
    OBVIOUS
  <1>1. ServerReads("type") /\ sState = "SECURITY_TYPE"
    BY DEF ProcessSecurityTypeMsg
  <1>2. /\ toServer' \in Seq(Sent) /\ sTight' \in BOOLEAN
        /\ UNCHANGED <<setup, clientVars, sMinor, admitted>>
    BY <1>1, ServerReadsOne DEF ProcessSecurityTypeMsg, Inv, FieldsOK
  <1>3. sSec = "unset" /\ ~admitted
    BY <1>1 DEF Inv, ServerSound
  <1>4. /\ toClient' \in Seq(Delivered)
        /\ \/ /\ sSec' = "None" /\ "None" \in Offered
              /\ sState' \in {"INITIALISATION", "CLOSING", "QUERYING"}
           \/ sSec' = "VncAuth" /\ "VncAuth" \in Offered /\ sState' = "SECURITY"
           \/ sSec' = sSec /\ sState' \in {"CLOSING", "TIGHT_AUTH_TYPE"}
        /\ closeReason' \in {closeReason, "no desktop", "rejected", "no type", "type not available"}
    BY <1>3, OfferTightSound, ProcessSecurityTypeSound DEF ProcessSecurityTypeMsg
  <1>5. FieldsOK'
    <2>1. sState' \in ServerState
      BY <1>4 DEF ServerState
    <2>2. closeReason' \in CloseReason
      BY <1>4 DEF CloseReason, Inv, FieldsOK
    <2>3. sSec' \in SecType \cup {"unset"}
      BY <1>2, <1>3, <1>4 DEF SecType, Inv, FieldsOK
    <2> QED
      BY <2>1, <2>2, <2>3, <1>2, ServerFields DEF Inv, FieldsOK
  <1>6. ServerSound'
    BY <1>2, <1>3, <1>4 DEF ServerSound, Authorised, Entitled
  <1>7. SettledNow
    BY <1>3, <1>4 DEF SettledNow
  <1> QED
    BY <1>2, <1>4, <1>5, <1>6, <1>7, QuietStep DEF setup, clientVars

LEMMA AuthTypeStep == Inv /\ ProcessAuthTypeMsg => Inv' /\ SettledNow
  <1> SUFFICES ASSUME Inv, ProcessAuthTypeMsg PROVE Inv' /\ SettledNow
    OBVIOUS
  <1>1. ServerReads("authType") /\ sState = "TIGHT_AUTH_TYPE"
    BY DEF ProcessAuthTypeMsg
  <1>2. /\ toServer' \in Seq(Sent)
        /\ UNCHANGED <<setup, clientVars, sMinor, sTight, admitted>>
    BY <1>1, ServerReadsOne DEF ProcessAuthTypeMsg
  <1>3. sSec = "unset" /\ ~admitted
    BY <1>1 DEF Inv, ServerSound
  <1>4. /\ toClient' \in Seq(Delivered)
        /\ \/ /\ sSec' = "None" /\ "None" \in Offered
              /\ sState' \in {"INITIALISATION", "CLOSING", "QUERYING"}
           \/ sSec' = "VncAuth" /\ "VncAuth" \in Offered /\ sState' = "SECURITY"
           \/ sSec' = sSec /\ sState' = "CLOSING"
        /\ closeReason' \in {closeReason, "no desktop", "rejected", "type not available"}
    BY <1>3, ProcessSecurityTypeSound DEF ProcessAuthTypeMsg
  <1>5. FieldsOK'
    <2>1. sState' \in ServerState
      BY <1>4 DEF ServerState
    <2>2. closeReason' \in CloseReason
      BY <1>4 DEF CloseReason, Inv, FieldsOK
    <2>3. sSec' \in SecType \cup {"unset"}
      BY <1>2, <1>3, <1>4 DEF SecType, Inv, FieldsOK
    <2> QED
      BY <2>1, <2>2, <2>3, <1>2, ServerFields DEF Inv, FieldsOK
  <1>6. ServerSound'
    BY <1>2, <1>3, <1>4 DEF ServerSound, Authorised, Entitled
  <1>7. SettledNow
    BY <1>3, <1>4 DEF SettledNow
  <1> QED
    BY <1>2, <1>4, <1>5, <1>6, <1>7, QuietStep DEF setup, clientVars

\* The response decides: only a viewer that knows the password passes.
LEMMA ResponseStep == Inv /\ ProcessSecurityMsg => Inv' /\ SettledNow
  <1> SUFFICES ASSUME Inv, ProcessSecurityMsg PROVE Inv' /\ SettledNow
    OBVIOUS
  <1>1. ServerReads("response") /\ sState = "SECURITY"
    BY DEF ProcessSecurityMsg
  <1>2. /\ toServer' \in Seq(Sent)
        /\ UNCHANGED <<setup, clientVars, sMinor, sSec, sTight, admitted>>
    BY <1>1, ServerReadsOne DEF ProcessSecurityMsg
  <1>3. sSec = "VncAuth" /\ ~admitted
    BY <1>1 DEF Inv, ServerSound
  <1>4. Head(toServer).body => knows
    BY <1>1, ServerReadsOne, ServerBodies
  <1>5. /\ toClient' \in Seq(Delivered)
        /\ sState' \in {"INITIALISATION", "CLOSING", "QUERYING"}
        /\ sState' # "CLOSING" => knows
        /\ closeReason' \in {closeReason, "no desktop", "rejected", "wrong password"}
    <2>1. CASE Head(toServer).body /\ Authenticated(<<>>, sMinor, sSec)
      <3>1. <<>> \in Seq(Delivered)
        BY EmptySeq
      <3> QED
        BY <2>1, <3>1, <1>4, AuthenticatedSound
    <2>2. CASE ServerWrites(<<Result(FALSE)>>) /\ Closes("wrong password")
      <3>1. <<Result(FALSE)>> \in Seq(Delivered)
        BY Writable, OneMessage
      <3> QED
        BY <2>2, <3>1, ConcatProperties DEF ServerWrites, Closes, Inv
    <2> QED
      BY <2>1, <2>2 DEF ProcessSecurityMsg
  <1>6. FieldsOK'
    <2>1. sState' \in ServerState
      BY <1>5 DEF ServerState
    <2>2. closeReason' \in CloseReason
      BY <1>5 DEF CloseReason, Inv, FieldsOK
    <2>3. sSec' \in SecType \cup {"unset"}
      BY <1>2, <1>5 DEF SecType, Inv, FieldsOK
    <2> QED
      BY <2>1, <2>2, <2>3, <1>2, ServerFields DEF Inv, FieldsOK
  <1>7. ServerSound'
    BY <1>2, <1>3, <1>5 DEF ServerSound, Authorised, Entitled, setup
  <1> QED
    BY <1>2, <1>5, <1>6, <1>7, QuietStep DEF setup, clientVars, SettledNow

\* The server's initialisation is written only here, and only to a viewer
\* that is entitled.
LEMMA InitStep == Inv /\ ProcessInitMsg => Inv' /\ SettledNow
  <1> SUFFICES ASSUME Inv, ProcessInitMsg PROVE Inv' /\ SettledNow
    OBVIOUS
  <1>1. ServerReads("clientInit") /\ sState = "INITIALISATION"
    BY DEF ProcessInitMsg
  <1>2. /\ toServer' \in Seq(Sent)
        /\ UNCHANGED <<setup, clientVars, sMinor, sSec, sTight>>
    BY <1>1, ServerReadsOne DEF ProcessInitMsg
  <1>3. Entitled /\ Entitled' /\ ~admitted
    BY <1>1, <1>2 DEF Inv, ServerSound, Authorised, Entitled, setup
  <1>4. CASE Closes("in use") /\ UNCHANGED <<toClient, admitted>>
    <2>1. sState' \in ServerState /\ closeReason' \in CloseReason
      BY <1>4 DEF Closes, ServerState, CloseReason
    <2>2. FieldsOK'
      BY <1>2, <1>4, <2>1, ServerFields DEF Inv, FieldsOK
    <2>3. ServerSound'
      BY <1>3, <1>4 DEF Closes, ServerSound, Authorised
    <2>4. toClient' \in Seq(Delivered)
      BY <1>4 DEF Inv
    <2> QED
      BY <1>2, <1>4, <2>2, <2>3, <2>4, QuietStep DEF setup, clientVars, SettledNow
  <1>5. CASE /\ ServerWrites(<<Message("serverInit", "desktop")>>
                  \o IF sTight THEN <<Message("interaction", "caps")>> ELSE <<>>)
             /\ Enters("NORMAL")
             /\ admitted' = TRUE
    <2>1. sState' \in ServerState /\ closeReason' \in CloseReason
      BY <1>5 DEF Enters, ServerState, Inv, FieldsOK
    <2>2. FieldsOK'
      BY <1>2, <1>5, <2>1, ServerFields DEF Inv, FieldsOK
    <2>3. ServerSound'
      BY <1>3, <1>5 DEF Enters, ServerSound, Authorised
    <2>4. Delivered \subseteq Delivered'
      BY <1>5 DEF Delivered
    <2>5. /\ <<Message("serverInit", "desktop")>> \in Seq(Delivered')
          /\ <<Message("interaction", "caps")>> \in Seq(Delivered')
          /\ <<>> \in Seq(Delivered')
      <3>1. /\ Message("serverInit", "desktop") \in Delivered'
            /\ Message("interaction", "caps") \in Delivered'
        BY <1>5 DEF Delivered, ToClient
      <3> QED
        BY <3>1, OneMessage, EmptySeq
    <2>6. <<Message("serverInit", "desktop")>>
            \o (IF sTight THEN <<Message("interaction", "caps")>> ELSE <<>>) \in Seq(Delivered')
      BY <2>5, ConcatProperties
    <2>7. toClient \in Seq(Delivered')
      BY <2>4, SeqMonotonic DEF Inv
    <2>8. toClient' \in Seq(Delivered')
      BY <1>5, <2>6, <2>7, ConcatProperties DEF ServerWrites
    <2>9. Sent' = Sent
      BY <1>2 DEF Sent, setup
    <2> QED
      BY <1>2, <1>5, <2>2, <2>3, <2>8, <2>9 DEF Inv, ClientSound, SettledNow
  <1> QED
    BY <1>4, <1>5 DEF ProcessInitMsg

\* The steps in which the server closes, or hears the user's answer.
LEMMA ClosingStep ==
  ASSUME Inv, NEW reason \in CloseReason, Closes(reason),
         UNCHANGED <<setup, clientVars, sMinor, sSec, sTight, admitted, toClient, toServer>>
  PROVE  Inv' /\ SettledNow
  <1>1. FieldsOK'
    BY ServerFields DEF Closes, ServerState, Inv, FieldsOK
  <1>2. ServerSound'
    BY DEF Inv, ServerSound, Authorised, Entitled, Closes, setup
  <1> QED
    BY <1>1, <1>2, QuietStep DEF Inv, setup, clientVars, SettledNow

LEMMA ApproveStep == Inv /\ ApproveConnection => Inv' /\ SettledNow
  <1> SUFFICES ASSUME Inv, ApproveConnection PROVE Inv' /\ SettledNow
    OBVIOUS
  <1>1. /\ sState = "QUERYING"
        /\ UNCHANGED <<setup, clientVars, sMinor, sSec, sTight, admitted, toServer>>
    BY DEF ApproveConnection
  <1>2. /\ toClient' \in Seq(Delivered)
        /\ sState' \in {"INITIALISATION", "CLOSING"}
        /\ closeReason' \in {closeReason, "no desktop", "rejected"}
    <2>1. CASE Accepts(<<>>, sMinor, sSec)
      BY <2>1, AcceptsSound, EmptySeq
    <2>2. CASE ServerWrites(ResultOf(sMinor, sSec, FALSE)) /\ Closes("rejected")
      BY <2>2, ResultTyped, ConcatProperties DEF ServerWrites, Closes, Inv
    <2> QED
      BY <2>1, <2>2 DEF ApproveConnection
  <1>3. sState' \in ServerState /\ closeReason' \in CloseReason
    BY <1>2 DEF ServerState, CloseReason, Inv, FieldsOK
  <1>4. FieldsOK'
    BY <1>1, <1>3, ServerFields DEF Inv, FieldsOK
  <1>5. ServerSound'
    BY <1>1, <1>2 DEF Inv, ServerSound, Authorised, Entitled, setup
  <1> QED
    BY <1>1, <1>2, <1>4, <1>5, QuietStep DEF Inv, setup, clientVars, SettledNow

-----------------------------------------------------------------------------
(* The viewer's steps.                                                     *)

\* What a viewer may write in any state.
LEMMA ClientWritable ==
  ASSUME Inv
  PROVE  /\ \A m \in {3, 7, 8} : Version(m) \in Sent
         /\ \A t \in SecType \cup {"Tight"} : Message("type", t) \in Sent
         /\ \A t \in SecType : Message("authType", t) \in Sent
         /\ Message("response", knows) \in Sent
         /\ Message("clientInit", "shared") \in Sent
  BY DEF Inv, FieldsOK, Sent, ToServer, Version, Message

LEMMA CompleteSound ==
  ASSUME Inv, NEW written \in Seq(Sent), Complete(written)
  PROVE  toServer' \in Seq(Sent) /\ cState' = "INITIALISATION"
  <1>1. <<Message("clientInit", "shared")>> \in Seq(Sent)
    BY ClientWritable, OneMessage
  <1>2. written \o <<Message("clientInit", "shared")>> \in Seq(Sent)
    BY <1>1, ConcatProperties
  <1> QED
    BY <1>2, ConcatProperties DEF Complete, ClientWrites, Inv

LEMMA ChooseSound ==
  ASSUME Inv, NEW written \in Seq(Sent), NEW type, Choose(written, type)
  PROVE  /\ toServer' \in Seq(Sent)
         /\ cSec' \in SecType
         /\ cState' \in {"SECURITY", "SECURITY_RESULT", "INITIALISATION"}
  BY CompleteSound, ConcatProperties DEF Choose, ClientWrites, SecType, Inv

\* The first known type of a list is its head, if the list has one at all.
LEMMA FirstKnownTyped ==
  ASSUME NEW l \in Seq(SecType)
  PROVE  /\ l # <<>> => FirstKnown(l) \in SecType
         /\ AnyKnown(Append(l, "Tight")) => FirstKnown(Append(l, "Tight")) \in SecType
  <1>1. ASSUME NEW s, DOMAIN s \subseteq Nat, 1 \in DOMAIN s, s[1] \in SecType,
               \A i \in DOMAIN s : i >= 1
        PROVE  FirstKnown(s) \in SecType
    <2> DEFINE First(i) == s[i] \in SecType /\ \A j \in DOMAIN s : j < i => s[j] \notin SecType
    <2>1. First(1)
      BY <1>1
    <2>2. First(CHOOSE i \in DOMAIN s : First(i))
      BY <1>1, <2>1
    <2> QED
      BY <2>2 DEF FirstKnown
  <1>2. ASSUME l # <<>> PROVE FirstKnown(l) \in SecType
    <2>1. DOMAIN l = 1 .. Len(l) /\ Len(l) \in Nat \ {0}
      BY <1>2, EmptySeq, LenProperties
    <2>2. l[1] \in SecType
      BY <2>1, ElementOfSeq
    <2> QED
      BY <1>1, <2>1, <2>2
  <1>3. ASSUME l # <<>> PROVE FirstKnown(Append(l, "Tight")) \in SecType
    <2> DEFINE s == Append(l, "Tight")
    <2>1. Len(l) \in Nat \ {0}
      BY <1>3, EmptySeq
    <2>2. DOMAIN s = 1 .. (Len(l) + 1) /\ s[1] = l[1]
      BY <2>1
    <2>3. l[1] \in SecType
      BY <2>1, ElementOfSeq
    <2> HIDE DEF s
    <2>4. FirstKnown(s) \in SecType
      BY <1>1, <2>1, <2>2, <2>3
    <2> QED
      BY <2>4 DEF s
  <1>4. ASSUME l = <<>> PROVE ~AnyKnown(Append(l, "Tight"))
    BY <1>4 DEF AnyKnown, SecType
  <1> QED
    BY <1>2, <1>3, <1>4

\* A step of the viewer leaves the server's side alone.
LEMMA ClientStepSound ==
  ASSUME Inv, UNCHANGED <<setup, serverVars>>,
         toClient' \in Seq(Delivered), toServer' \in Seq(Sent),
         cState' \in ClientState, cMinor' \in {0, 3, 7, 8},
         cSec' \in SecType \cup {"unset"}, cTight' \in BOOLEAN,
         cState' \in {"CAPABILITIES", "NORMAL"} => admitted
  PROVE  Inv' /\ SettledNow
  <1>1. Delivered' = Delivered /\ Sent' = Sent
    BY DEF Delivered, Sent, setup, serverVars
  <1>2. FieldsOK'
    BY DEF Inv, FieldsOK, setup, serverVars
  <1>3. ServerSound' /\ ClientSound'
    BY DEF Inv, ServerSound, ClientSound, Authorised, Entitled, setup, serverVars
  <1> QED
    BY <1>1, <1>2, <1>3 DEF Inv, SettledNow, serverVars

LEMMA ClientStepInv == Inv /\ ClientStep => Inv' /\ SettledNow
  <1> SUFFICES ASSUME Inv, ClientStep PROVE Inv' /\ SettledNow
    OBVIOUS
  <1>0. /\ cMinor \in {0, 3, 7, 8} /\ cSec \in SecType \cup {"unset"} /\ cTight \in BOOLEAN
        /\ toClient \in Seq(Delivered) /\ toServer \in Seq(Sent)
    BY DEF Inv, FieldsOK
  <1>1. CASE ReadVersionMsg
    <2>1. ClientReads("version")
      BY <1>1 DEF ReadVersionMsg
    <2>2. /\ toClient' \in Seq(Delivered) /\ UNCHANGED <<setup, serverVars>>
          /\ Head(toClient).body \in {3, 8}
      BY <2>1, ClientReadsOne, ClientBodies
    <2>3. viewer.minor \in {3, 7, 8}
      BY HandshakeAssumption DEF Inv, FieldsOK
    <2>4. cMinor' \in {3, 7, 8}
      BY <1>1, <2>2, <2>3 DEF ReadVersionMsg
    <2>5. toServer' \in Seq(Sent)
      <3>1. <<Version(cMinor')>> \in Seq(Sent)
        BY <2>4, ClientWritable, OneMessage
      <3> QED
        BY <1>0, <1>1, <3>1, ConcatProperties DEF ReadVersionMsg, ClientWrites
    <2> QED
      BY <1>0, <1>1, <2>2, <2>4, <2>5, ClientStepSound DEF ReadVersionMsg, ClientState
  <1>2. CASE ReadSecurityType
    <2>1. ClientReads("type33")
      BY <1>2 DEF ReadSecurityType
    <2>2. /\ toClient' \in Seq(Delivered) /\ UNCHANGED <<setup, serverVars, cMinor, cTight>>
      BY <1>2, <2>1, ClientReadsOne DEF ReadSecurityType
    <2>3. CASE cState' = "REFUSED" /\ UNCHANGED <<cSec, toServer>>
      BY <1>0, <2>2, <2>3, ClientStepSound DEF ClientState
    <2>4. CASE Choose(<<>>, Head(toClient).body)
      <3>1. /\ toServer' \in Seq(Sent) /\ cSec' \in SecType
            /\ cState' \in {"SECURITY", "SECURITY_RESULT", "INITIALISATION"}
        BY <2>4, EmptySeq, ChooseSound
      <3> QED
        BY <1>0, <2>2, <3>1, ClientStepSound DEF ClientState
    <2> QED
      BY <1>2, <2>3, <2>4 DEF ReadSecurityType
  <1>3. CASE ReadSecurityTypes
    <2>1. ClientReads("types")
      BY <1>3 DEF ReadSecurityTypes
    <2>2. /\ toClient' \in Seq(Delivered) /\ UNCHANGED <<setup, serverVars, cMinor>>
      BY <1>3, <2>1, ClientReadsOne DEF ReadSecurityTypes
    <2> DEFINE list == Head(toClient).body
    <2>3. PICK l \in Offers : list = Append(l, "Tight")
      BY <2>1, ClientReadsOne, ClientBodies
    <2> HIDE DEF list
    <2>4. CASE /\ ClientWrites(<<Message("type", "Tight")>>)
               /\ cTight' = TRUE /\ cState' = "TUNNELS" /\ UNCHANGED cSec
      <3>1. <<Message("type", "Tight")>> \in Seq(Sent)
        BY ClientWritable, OneMessage
      <3>2. toServer' \in Seq(Sent)
        BY <1>0, <2>4, <3>1, ConcatProperties DEF ClientWrites
      <3> QED
        BY <1>0, <2>2, <2>4, <3>2, ClientStepSound DEF ClientState
    <2>5. CASE /\ AnyKnown(list)
               /\ Choose(<<Message("type", FirstKnown(list))>>, FirstKnown(list))
               /\ UNCHANGED cTight
      <3>1. l \in Seq(SecType)
        BY HandshakeAssumption
      <3>2. FirstKnown(list) \in SecType
        BY <2>3, <2>5, <3>1, FirstKnownTyped
      <3>3. <<Message("type", FirstKnown(list))>> \in Seq(Sent)
        BY <3>2, ClientWritable, OneMessage
      <3>4. /\ toServer' \in Seq(Sent) /\ cSec' \in SecType
            /\ cState' \in {"SECURITY", "SECURITY_RESULT", "INITIALISATION"}
        BY <2>5, <3>3, ChooseSound
      <3> QED
        BY <1>0, <2>2, <2>5, <3>4, ClientStepSound DEF ClientState
    <2>6. CASE Fails /\ UNCHANGED <<cSec, cTight, toServer>>
      BY <1>0, <2>2, <2>6, ClientStepSound DEF Fails, ClientState
    <2> QED
      BY <1>3, <2>4, <2>5, <2>6 DEF ReadSecurityTypes, list
  <1>4. CASE SetupTunneling
    <2>1. ClientReads("tunnels")
      BY <1>4 DEF SetupTunneling
    <2> QED
      BY <1>0, <1>4, <2>1, ClientReadsOne, ClientStepSound DEF SetupTunneling, ClientState
  <1>5. CASE NegotiateAuthenticationTight
    <2>1. ClientReads("caps")
      BY <1>5 DEF NegotiateAuthenticationTight
    <2>2. /\ toClient' \in Seq(Delivered) /\ UNCHANGED <<setup, serverVars, cMinor, cTight>>
      BY <1>5, <2>1, ClientReadsOne DEF NegotiateAuthenticationTight
    <2> DEFINE list == Head(toClient).body
    <2>3. list \in Offers \cup {<<>>}
      BY <2>1, ClientReadsOne, ClientBodies
    <2> HIDE DEF list
    <2>4. CASE Choose(<<>>, "None")
      <3>1. /\ toServer' \in Seq(Sent) /\ cSec' \in SecType
            /\ cState' \in {"SECURITY", "SECURITY_RESULT", "INITIALISATION"}
        BY <2>4, EmptySeq, ChooseSound
      <3> QED
        BY <1>0, <2>2, <3>1, ClientStepSound DEF ClientState
    <2>5. CASE list # <<>> /\ Choose(<<Message("authType", FirstKnown(list))>>, FirstKnown(list))
      <3>1. list \in Seq(SecType)
        BY <2>3, <2>5, HandshakeAssumption
      <3>2. FirstKnown(list) \in SecType
        BY <2>5, <3>1, FirstKnownTyped
      <3>3. <<Message("authType", FirstKnown(list))>> \in Seq(Sent)
        BY <3>2, ClientWritable, OneMessage
      <3>4. /\ toServer' \in Seq(Sent) /\ cSec' \in SecType
            /\ cState' \in {"SECURITY", "SECURITY_RESULT", "INITIALISATION"}
        BY <2>5, <3>3, ChooseSound
      <3> QED
        BY <1>0, <2>2, <3>4, ClientStepSound DEF ClientState
    <2> QED
      BY <1>5, <2>4, <2>5 DEF NegotiateAuthenticationTight, list
  <1>6. CASE RespondToChallenge
    <2>1. ClientReads("challenge")
      BY <1>6 DEF RespondToChallenge
    <2>2. <<Message("response", knows)>> \in Seq(Sent)
      BY ClientWritable, OneMessage
    <2>3. toServer' \in Seq(Sent)
      BY <1>0, <1>6, <2>2, ConcatProperties DEF RespondToChallenge, ClientWrites
    <2> QED
      BY <1>0, <1>6, <2>1, <2>3, ClientReadsOne, ClientStepSound DEF RespondToChallenge, ClientState
  <1>7. CASE ReadSecurityResult
    <2>1. ClientReads("result")
      BY <1>7 DEF ReadSecurityResult
    <2>2. toServer' \in Seq(Sent) /\ cState' \in {"INITIALISATION", "REFUSED"}
      BY <1>0, <1>7, EmptySeq, CompleteSound DEF ReadSecurityResult
    <2> QED
      BY <1>0, <1>7, <2>1, <2>2, ClientReadsOne, ClientStepSound DEF ReadSecurityResult, ClientState
  <1>8. CASE ReadServerInit
    <2>1. ClientReads("serverInit")
      BY <1>8 DEF ReadServerInit
    <2>2. admitted
      BY <2>1, ClientReadsOne, ClientBodies
    <2> QED
      BY <1>0, <1>8, <2>1, <2>2, ClientReadsOne, ClientStepSound DEF ReadServerInit, ClientState
  <1>9. CASE ReadInteractionCaps
    <2>1. ClientReads("interaction")
      BY <1>9 DEF ReadInteractionCaps
    <2>2. admitted
      BY <2>1, ClientReadsOne, ClientBodies
    <2> QED
      BY <1>0, <1>9, <2>1, <2>2, ClientReadsOne, ClientStepSound DEF ReadInteractionCaps, ClientState
  <1>10. CASE ClientSeesEnd
    BY <1>0, <1>10, ClientStepSound DEF ClientSeesEnd, Fails, ClientState
  <1> QED
    BY <1>1, <1>2, <1>3, <1>4, <1>5, <1>6, <1>7, <1>8, <1>9, <1>10 DEF ClientStep

-----------------------------------------------------------------------------
(* The theorems.                                                           *)

LEMMA InitInv == Init => Inv
  <1> SUFFICES ASSUME Init PROVE Inv
    OBVIOUS
  <1>1. FieldsOK
    BY HandshakeAssumption DEF Init, FieldsOK, ServerState, ClientState, CloseReason
  <1>2. Version(sMinor) \in Delivered
    BY HandshakeAssumption DEF Init, Delivered, ToClient, Version, Message
  <1>3. toClient \in Seq(Delivered) /\ toServer \in Seq(Sent)
    BY <1>2, OneMessage, EmptySeq DEF Init
  <1> QED
    BY <1>1, <1>3 DEF Init, Inv, ServerSound, ClientSound, Authorised

LEMMA NextInv == Inv /\ [Next]_vars => Inv' /\ SettledNow
  <1> SUFFICES ASSUME Inv, [Next]_vars PROVE Inv' /\ SettledNow
    OBVIOUS
  <1>1. CASE ServerStep
    <2>1. CASE BogusWhileQuerying
      BY <2>1, ClosingStep DEF BogusWhileQuerying, CloseReason
    <2>2. CASE ServerSeesEnd
      BY <2>2, ClosingStep DEF ServerSeesEnd, CloseReason
    <2> QED
      BY <1>1, <2>1, <2>2, VersionStep, TypeStep, AuthTypeStep, ResponseStep, InitStep, ApproveStep
         DEF ServerStep
  <1>2. CASE ClientStep
    BY <1>2, ClientStepInv
  <1>3. CASE ServerCloses
    BY <1>3, ClosingStep DEF ServerCloses, CloseReason
  <1>4. CASE ClientCloses
    BY <1>4, ClientStepSound DEF ClientCloses, Fails, ClientState, Inv, FieldsOK
  <1>5. CASE SetSecurityTypes
    <2>1. Delivered' = Delivered /\ Sent' = Sent
      BY <1>5 DEF SetSecurityTypes, Delivered, Sent, serverVars
    <2>2. FieldsOK'
      BY <1>5 DEF SetSecurityTypes, Inv, FieldsOK, serverVars, clientVars
    <2>3. ServerSound' /\ ClientSound'
      BY <1>5 DEF SetSecurityTypes, Inv, ServerSound, ClientSound, Authorised, Entitled,
                  serverVars, clientVars
    <2> QED
      BY <1>5, <2>1, <2>2, <2>3 DEF SetSecurityTypes, Inv, SettledNow, serverVars
  <1>6. CASE UNCHANGED vars
    <2>1. UNCHANGED <<setup, serverVars, clientVars, toClient, toServer>>
      BY <1>6 DEF vars
    <2> QED
      BY <2>1, ClientStepSound DEF Inv, FieldsOK, ClientSound, clientVars
  <1> QED
    BY <1>1, <1>2, <1>3, <1>4, <1>5, <1>6 DEF Next

LEMMA Invariance == Spec => []Inv
  BY InitInv, NextInv, PTL DEF Spec

\* The fields have their types and the channels hold messages of the protocol.
THEOREM TypeCorrect == Spec => []TypeOK
  <1>1. Inv => TypeOK
    <2>1. Delivered \subseteq ToClient /\ Sent \subseteq ToServer
      BY DEF Delivered, Sent
    <2> QED
      BY <2>1, SeqMonotonic DEF Inv, TypeOK
  <1> QED
    BY <1>1, Invariance, PTL

\* Nobody gets past the security handshake without the password, unless the
\* type None was settled.
THEOREM OnlyAuthorised == Spec => []Authorised
  <1>1. Inv => Authorised
    BY DEF Inv, ServerSound
  <1> QED
    BY <1>1, Invariance, PTL

\* The security type is settled once, and from what is offered at the moment.
THEOREM TypeSettledFromOffer == Spec => SettledFromOffer
  <1>1. Inv /\ [Next]_vars => [sSec' # sSec => sSec = "unset" /\ sSec' \in Offered]_vars
    BY NextInv DEF SettledNow
  <1> QED
    BY <1>1, Invariance, PTL DEF Spec, SettledFromOffer

-----------------------------------------------------------------------------
(* The handshake implements Admission.                                     *)

Viewer == IF ClientGone THEN "gone" ELSE IF cState = "NORMAL" THEN "in" ELSE "waiting"

\* Once settled, the right to come in does not change.
LEMMA EntitledStays ==
  ASSUME SettledNow, UNCHANGED knows
  PROVE  Entitled => Entitled'
  BY DEF SettledNow, Entitled

\* A step of the server: it settles the type, admits, or does neither.
LEMMA ServerRefines ==
  ASSUME Inv, SettledNow, UNCHANGED <<knows, cState>>,
         admitted' = admitted \/ (sSec' = sSec /\ admitted' /\ sState = "INITIALISATION")
  PROVE  [Promise!Next]_(Promise!vars)
  <1>1. Viewer' = Viewer
    BY DEF Viewer, ClientGone
  <1>2. CASE admitted' = admitted /\ Entitled' = Entitled
    BY <1>1, <1>2 DEF Promise!vars, Viewer
  <1>3. CASE admitted' = admitted /\ Entitled' # Entitled
    <2>1. ~Entitled /\ Entitled' = TRUE
      BY <1>3, EntitledStays DEF Entitled
    <2> QED
      BY <1>1, <1>3, <2>1 DEF Promise!Next, Promise!Settle, Viewer
  <1>4. CASE admitted' # admitted
    <2>1. /\ sSec' = sSec /\ sState = "INITIALISATION"
          /\ admitted \in BOOLEAN /\ admitted'
      BY <1>4 DEF Inv, FieldsOK
    <2>2. Entitled /\ ~admitted
      BY <2>1 DEF Inv, ServerSound, Authorised
    <2>3. Entitled' = Entitled
      BY <2>1 DEF Entitled
    <2>4. admitted' = TRUE
      BY <1>4, <2>1, <2>2
    <2> QED
      BY <1>1, <2>2, <2>3, <2>4 DEF Promise!Next, Promise!Admit, Viewer
  <1> QED
    BY <1>2, <1>3, <1>4

\* A step of the viewer: it joins, leaves, or does neither.
LEMMA ClientRefines ==
  ASSUME Inv, UNCHANGED <<knows, sSec, admitted>>, ~ClientGone,
         cState = "NORMAL" => cState' \in {"NORMAL", "CLOSED"},
         cState' = "NORMAL" => admitted
  PROVE  [Promise!Next]_(Promise!vars)
  <1>1. Entitled' = Entitled
    BY DEF Entitled
  <1>2. CASE ClientGone'
    BY <1>1, <1>2 DEF Promise!Next, Promise!Leave, Viewer, ClientGone
  <1>3. CASE ~ClientGone' /\ cState' = "NORMAL" /\ cState # "NORMAL"
    BY <1>1, <1>3 DEF Promise!Next, Promise!Join, Viewer, ClientGone
  <1>4. CASE ~ClientGone' /\ (cState' = "NORMAL" <=> cState = "NORMAL")
    BY <1>1, <1>4 DEF Promise!vars, Viewer, ClientGone
  <1> QED
    BY <1>2, <1>3, <1>4 DEF ClientGone

LEMMA StepRefines == Inv /\ Inv' /\ [Next]_vars => [Promise!Next]_(Promise!vars)
  <1> SUFFICES ASSUME Inv, Inv', [Next]_vars PROVE [Promise!Next]_(Promise!vars)
    OBVIOUS
  <1>1. SettledNow
    BY NextInv
  <1>2. CASE ProcessInitMsg
    <2>1. /\ UNCHANGED <<knows, cState, sSec>> /\ sState = "INITIALISATION"
          /\ admitted' = admitted \/ admitted' = TRUE
      BY <1>2 DEF ProcessInitMsg, ServerReads, setup, clientVars
    <2> QED
      BY <1>1, <2>1, ServerRefines
  <1>3. CASE \/ ProcessVersionMsg \/ ProcessSecurityTypeMsg \/ ProcessAuthTypeMsg
             \/ ProcessSecurityMsg
    <2>1. UNCHANGED <<knows, cState, admitted>>
      BY <1>3 DEF ProcessVersionMsg, ProcessSecurityTypeMsg, ProcessAuthTypeMsg,
                  ProcessSecurityMsg, ServerReads, setup, clientVars
    <2> QED
      BY <1>1, <2>1, ServerRefines
  <1>4. CASE \/ BogusWhileQuerying \/ ApproveConnection \/ ServerSeesEnd \/ ServerCloses
             \/ SetSecurityTypes \/ UNCHANGED vars
    <2>1. UNCHANGED <<knows, cState, admitted>>
      BY <1>4 DEF BogusWhileQuerying, ApproveConnection, ServerSeesEnd, ServerCloses,
                  SetSecurityTypes, vars, setup, clientVars, serverVars
    <2> QED
      BY <1>1, <2>1, ServerRefines
  <1>5. CASE ClientStep \/ ClientCloses
    <2>1. UNCHANGED <<knows, sSec, admitted>>
      BY <1>5 DEF ClientStep, ReadVersionMsg, ReadSecurityType, ReadSecurityTypes, SetupTunneling,
                  NegotiateAuthenticationTight, RespondToChallenge, ReadSecurityResult,
                  ReadServerInit, ReadInteractionCaps, ClientSeesEnd, ClientCloses,
                  ClientReads, setup, serverVars
    <2>2. /\ ~ClientGone
          /\ cState = "NORMAL" => cState' = "CLOSED"
      BY <1>5 DEF ClientStep, ReadVersionMsg, ReadSecurityType, ReadSecurityTypes, SetupTunneling,
                  NegotiateAuthenticationTight, RespondToChallenge, ReadSecurityResult,
                  ReadServerInit, ReadInteractionCaps, ClientSeesEnd, ClientCloses,
                  ClientGone, Fails
    <2>3. cState' = "NORMAL" => admitted
      BY <2>1 DEF Inv, ClientSound
    <2> QED
      BY <2>1, <2>2, <2>3, ClientRefines
  <1> QED
    BY <1>2, <1>3, <1>4, <1>5 DEF Next, ServerStep

\* Every behaviour of the handshake, seen through its refinement mapping, is
\* a behaviour of Admission: a viewer is admitted once, only with the right
\* to it, and believes itself in session only afterwards.
THEOREM ImplementsAdmission == Spec => PromiseKept
  <1>1. Init => Promise!Init
    BY DEF Init, Promise!Init, Entitled, ClientGone
  <1>2. Inv /\ Inv' /\ [Next]_vars => [Promise!Next]_(Promise!vars)
    BY StepRefines
  <1> QED
    BY <1>1, <1>2, Invariance, PTL DEF Spec, Promise!Spec, PromiseKept

-----------------------------------------------------------------------------
(* Both ends together: where each is, and what is on its way between them. *)

Type(t)       == Message("type", t)
AuthType(t)   == Message("authType", t)
Type33(t)     == Message("type33", t)
Caps(l)       == Message("caps", l)
Types(l)      == Message("types", Append(l, "Tight"))
Response(ok)  == Message("response", ok)
ClientInit    == Message("clientInit", "shared")
ServerInit    == Message("serverInit", "desktop")
Interaction   == Message("interaction", "caps")

Due == ResultDue(sMinor, sSec)

\* The viewer has settled the type that the server has, or has yet to hear it.
Same == <<cMinor, cSec, cTight>> = <<sMinor, sSec, sTight>>

\* A viewer in that state, with s to read and r written, has chosen the type t,
\* of which the server does not know yet.
Choice(t, told, sec, state, minor, s, r) ==
  /\ sec = t /\ s = <<>>
  /\ \/ t = "VncAuth" /\ state = "SECURITY" /\ r = <<told>>
     \/ t = "None" /\ minor = 8 /\ state = "SECURITY_RESULT" /\ r = <<told>>
     \/ t = "None" /\ minor = 7 /\ state = "INITIALISATION" /\ r = <<told, ClientInit>>

Chosen(t, told) == Choice(t, told, cSec, cState, cMinor, toClient, toServer)

\* The message m comes first.
Before(m, rest) == <<m>> \o rest

\* It has yet to read the type that the server has settled, and then rest.
Behind(rest) ==
  /\ toServer = <<>> /\ cTight = sTight
  /\ \/ /\ cMinor = 3 /\ ~cTight
        /\ cState = "SECURITY_TYPES" /\ toClient = Before(Type33(sSec), rest)
     \/ /\ cMinor # 3 /\ cTight /\ sSec = "None"
        /\ \/ cState = "TUNNELS" /\ toClient = Before(Tunnels, Before(Caps(<<>>), rest))
           \/ cState = "AUTH_CAPS" /\ toClient = Before(Caps(<<>>), rest)

AtVersion ==
  /\ ~cTight /\ ~sTight
  /\ \/ cState = "PROTOCOL_VERSION" /\ toClient = <<Version(sMinor)>> /\ toServer = <<>>
     \/ /\ cState = "SECURITY_TYPES" /\ cMinor # 0
        /\ toClient = <<>> /\ toServer = <<Version(cMinor)>>

AtType ==
  /\ cMinor # 3 /\ ~sTight
  /\ \/ ~cTight /\ cState = "SECURITY_TYPES" /\ toServer = <<>> /\ \E l \in Offers : toClient = <<Types(l)>>
     \/ cTight /\ cState = "TUNNELS" /\ toClient = <<>> /\ toServer = <<Type("Tight")>>
     \/ ~cTight /\ \E t \in SecType : Chosen(t, Type(t))

AtAuthType ==
  /\ cMinor # 3 /\ sTight /\ cTight
  /\ \/ /\ toServer = <<>>
        /\ \E l \in Offers \ {<<>>} :
             \/ cState = "TUNNELS" /\ toClient = Before(Tunnels, <<Caps(l)>>)
             \/ cState = "AUTH_CAPS" /\ toClient = <<Caps(l)>>
     \/ \E t \in SecType : Chosen(t, AuthType(t))

AtSecurity ==
  \/ Behind(<<Challenge>>)
  \/ Same /\ cState = "SECURITY" /\ toClient = <<Challenge>> /\ toServer = <<>>
  \/ Same /\ cState = "SECURITY_RESULT" /\ toClient = <<>> /\ toServer = <<Response(knows)>>

AtQuery ==
  \/ sSec = "None" /\ Behind(<<>>)
  \/ /\ Same /\ toClient = <<>>
     /\ \/ Due /\ cState = "SECURITY_RESULT" /\ toServer = <<>>
        \/ ~Due /\ cState = "INITIALISATION" /\ toServer = <<ClientInit>>

AtInit ==
  \/ sSec = "None" /\ Behind(ResultOf(sMinor, sSec, TRUE))
  \/ Same /\ Due /\ cState = "SECURITY_RESULT" /\ toClient = <<Result(TRUE)>> /\ toServer = <<>>
  \/ Same /\ cState = "INITIALISATION" /\ toClient = <<>> /\ toServer = <<ClientInit>>

\* The beginning of the session.
SessionOf(tight) == IF tight THEN <<ServerInit, Interaction>> ELSE <<ServerInit>>

AtNormal ==
  /\ Same /\ toServer = <<>>
  /\ \/ cState = "INITIALISATION" /\ toClient = SessionOf(cTight)
     \/ cState = "CAPABILITIES" /\ cTight /\ toClient = <<Interaction>>
     \/ cState = "NORMAL" /\ toClient = <<>>

\* As long as neither has closed.
Open ==
  /\ sState # "PROTOCOL_VERSION" => sMinor = cMinor
  /\ sState = "PROTOCOL_VERSION" => AtVersion
  /\ sState = "SECURITY_TYPE" => AtType
  /\ sState = "TIGHT_AUTH_TYPE" => AtAuthType
  /\ sState = "SECURITY" => AtSecurity
  /\ sState = "QUERYING" => AtQuery
  /\ sState = "INITIALISATION" => AtInit
  /\ sState = "NORMAL" => AtNormal

\* What the server may still read, though the viewer may be gone.
ServerReadable ==
  /\ sState = "PROTOCOL_VERSION" => toServer = <<>> \/ \E m \in {3, 7, 8} : toServer = <<Version(m)>>
  /\ sState = "SECURITY_TYPE" =>
       \/ toServer = <<>> \/ \E t \in SecType \cup {"Tight"} : toServer = <<Type(t)>>
       \/ toServer = <<Type("None"), ClientInit>>
  /\ sState = "TIGHT_AUTH_TYPE" =>
       \/ toServer = <<>> \/ \E t \in SecType : toServer = <<AuthType(t)>>
       \/ toServer = <<AuthType("None"), ClientInit>>
  /\ sState = "SECURITY" => toServer = <<>> \/ toServer = <<Response(knows)>>
  /\ sState \in {"QUERYING", "INITIALISATION"} => toServer = <<>> \/ toServer = <<ClientInit>>
  /\ sState = "NORMAL" => toServer = <<>>

\* How the security handshake may end for a viewer that is not at fault.  One
\* that awaits no result finds one only when it is refused.
Outcomes == { <<>>, <<Result(TRUE)>>, <<Result(FALSE)>>, <<Result(FALSE), Result(FALSE)>> }
Unasked  == <<Result(FALSE)>>
OutcomesOf(minor, refused) ==
  IF minor = 8 THEN Outcomes ELSE IF refused THEN { <<>>, Unasked } ELSE { <<>> }

\* What a viewer in that state may still read, though the server may have closed.
Readable(state, minor, tight, refused, s) ==
  /\ state = "PROTOCOL_VERSION" => \E m \in {3, 8} : s = <<Version(m)>>
  /\ state = "SECURITY_TYPES" /\ minor = 3 =>
       \/ s \in { <<>>, <<Type33("Invalid")>>, Before(Type33("VncAuth"), <<>>),
                  Before(Type33("VncAuth"), <<Challenge>>) }
       \/ \E o \in OutcomesOf(3, refused) : s = Before(Type33("None"), o)
  /\ state = "SECURITY_TYPES" /\ minor # 3 => s = <<>> \/ \E l \in Offers : s = <<Types(l)>>
  /\ state = "TUNNELS" =>
       \/ s \in { <<>>, <<Tunnels>> }
       \/ \E l \in Offers \ {<<>>} : s = Before(Tunnels, <<Caps(l)>>)
       \/ \E o \in OutcomesOf(minor, refused) : s = Before(Tunnels, Before(Caps(<<>>), o))
  /\ state = "AUTH_CAPS" =>
       \/ s = <<>>
       \/ \E l \in Offers \ {<<>>} : s = <<Caps(l)>>
       \/ \E o \in OutcomesOf(minor, refused) : s = Before(Caps(<<>>), o)
  /\ state = "SECURITY" => s \in { <<>>, <<Challenge>> }
  /\ state = "SECURITY_RESULT" => s \in Outcomes
  /\ state = "INITIALISATION" => s \in { <<>>, SessionOf(tight) } \/ (refused /\ s = Unasked)
  /\ state = "CAPABILITIES" => s \in { <<>>, <<Interaction>> }
  /\ state = "NORMAL" => s = <<>>
  /\ state # "PROTOCOL_VERSION" => minor \in {3, 7, 8}
  /\ state \in {"TUNNELS", "AUTH_CAPS"} => minor # 3

Legible(refused) == Readable(cState, cMinor, cTight, refused, toClient)

RefusedUnasked == closeReason = "rejected" /\ ~Due

ClientSide ==
  ~ClientGone => Legible(RefusedUnasked) /\ RefusalTold /\ (sState # "CLOSING" => Open)

Joint ==
  /\ closeReason # "unset" <=> sState = "CLOSING"
  /\ sState # "CLOSING" => ServerReadable
  /\ ClientSide

-----------------------------------------------------------------------------
(* Messages and short sequences of them.                                   *)

LEMMA MessageFields ==
  \A k, b : Message(k, b).kind = k /\ Message(k, b).body = b
  BY DEF Message

LEMMA Kinds ==
  /\ \A x : /\ Version(x).kind = "version" /\ Version(x).body = x
            /\ Result(x).kind = "result" /\ Result(x).body = x
            /\ Type(x).kind = "type" /\ Type(x).body = x
            /\ AuthType(x).kind = "authType" /\ AuthType(x).body = x
            /\ Type33(x).kind = "type33" /\ Type33(x).body = x
            /\ Caps(x).kind = "caps" /\ Caps(x).body = x
            /\ Types(x).kind = "types" /\ Types(x).body = Append(x, "Tight")
            /\ Response(x).kind = "response" /\ Response(x).body = x
  /\ Challenge.kind = "challenge" /\ Tunnels.kind = "tunnels"
  /\ ClientInit.kind = "clientInit" /\ ServerInit.kind = "serverInit"
  /\ Interaction.kind = "interaction"
  BY MessageFields DEF Version, Result, Type, AuthType, Type33, Caps, Types, Response, Challenge,
                       Tunnels, ClientInit, ServerInit, Interaction

LEMMA Singles ==
  \A m, n : /\ <<m>> # <<>> /\ Head(<<m>>) = m /\ Tail(<<m>>) = <<>>
            /\ <<m, n>> # <<>> /\ Head(<<m, n>>) = m /\ Tail(<<m, n>>) = <<n>>
  <1> SUFFICES ASSUME NEW m, NEW n
               PROVE  /\ <<m>> # <<>> /\ Head(<<m>>) = m /\ Tail(<<m>>) = <<>>
                      /\ <<m, n>> # <<>> /\ Head(<<m, n>>) = m /\ Tail(<<m, n>>) = <<n>>
    OBVIOUS
  <1> DEFINE S == {m, n}
  <1>1. <<m>> \in Seq(S) /\ <<m, n>> \in Seq(S) /\ <<n>> \in Seq(S) /\ <<>> \in Seq(S)
    OBVIOUS
  <1>2. Tail(<<m>>) = <<>>
    <2>1. Tail(<<m>>) \in Seq(S) /\ Len(Tail(<<m>>)) = 0
      BY <1>1, HeadTailProperties
    <2> QED
      BY <2>1, <1>1, SeqEqual
  <1>3. Tail(<<m, n>>) = <<n>>
    <2>1. Tail(<<m, n>>) \in Seq(S) /\ Len(Tail(<<m, n>>)) = 1
      BY <1>1, HeadTailProperties
    <2>2. Tail(<<m, n>>)[1] = n
      BY <1>1, <2>1, HeadTailProperties
    <2> QED
      BY <2>1, <2>2, <1>1, SeqEqual
  <1> QED
    BY <1>2, <1>3

LEMMA Concats ==
  \A m, n : /\ <<>> \o <<m>> = <<m>> /\ <<>> \o <<>> = <<>> /\ <<m>> \o <<>> = <<m>>
            /\ <<m>> \o <<n>> = <<m, n>> /\ <<>> \o <<m, n>> = <<m, n>>
  <1> SUFFICES ASSUME NEW m, NEW n
               PROVE  /\ <<>> \o <<m>> = <<m>> /\ <<>> \o <<>> = <<>> /\ <<m>> \o <<>> = <<m>>
                      /\ <<m>> \o <<n>> = <<m, n>> /\ <<>> \o <<m, n>> = <<m, n>>
    OBVIOUS
  <1> DEFINE S == {m, n}
  <1>1. <<m>> \in Seq(S) /\ <<m, n>> \in Seq(S) /\ <<n>> \in Seq(S) /\ <<>> \in Seq(S)
    OBVIOUS
  <1>2. <<m>> \o <<n>> = <<m, n>>
    <2>1. <<m>> \o <<n>> \in Seq(S) /\ Len(<<m>> \o <<n>>) = 2
      BY <1>1, ConcatProperties
    <2>2. (<<m>> \o <<n>>)[1] = m /\ (<<m>> \o <<n>>)[2] = n
      BY <1>1, <2>1, ConcatProperties
    <2>3. \A i \in 1 .. 2 : (<<m>> \o <<n>>)[i] = <<m, n>>[i]
      BY <2>2
    <2>4. Len(<<m, n>>) = 2
      OBVIOUS
    <2> QED
      BY ONLY <2>1, <2>3, <2>4, <1>1, SeqEqual
  <1> QED
    BY <1>1, <1>2, ConcatEmptySeq

LEMMA BeforeFirst ==
  ASSUME NEW S, NEW m \in S, NEW rest \in Seq(S)
  PROVE  /\ Before(m, rest) \in Seq(S) /\ Before(m, rest) # <<>>
         /\ Head(Before(m, rest)) = m /\ Tail(Before(m, rest)) = rest
  <1>1. <<m>> \in Seq(S) /\ Len(<<m>>) = 1 /\ <<m>>[1] = m
    OBVIOUS
  <1> DEFINE s == <<m>> \o rest
  <1>2. s \in Seq(S) /\ Len(s) = 1 + Len(rest) /\ s # <<>>
    BY <1>1, ConcatProperties, LenProperties, EmptySeq
  <1>3. \A i \in 1 .. 1 + Len(rest) : s[i] = IF i <= 1 THEN m ELSE rest[i - 1]
    BY <1>1, ConcatProperties, LenProperties
  <1>4. Len(rest) \in Nat
    BY LenProperties
  <1> HIDE DEF s
  <1>5. Head(s) = m
    BY <1>2, <1>3, <1>4
  <1>6. Tail(s) = rest
    <2>1. Tail(s) \in Seq(S) /\ Len(Tail(s)) = Len(rest)
      BY <1>2, <1>4, HeadTailProperties
    <2>2. ASSUME NEW i \in 1 .. Len(rest) PROVE Tail(s)[i] = rest[i]
      BY <1>2, <1>3, <1>4, <2>1, HeadTailProperties
    <2> QED
      BY <2>1, <2>2, SeqEqual
  <1> QED
    BY <1>2, <1>5, <1>6 DEF s, Before

LEMMA ResultSequences ==
  /\ Result(TRUE) \in ToClient /\ Result(FALSE) \in ToClient
  /\ \A o \in Outcomes : o \in Seq(ToClient)
  /\ <<Result(FALSE)>> \in Outcomes
  <1>1. Result(TRUE) \in ToClient /\ Result(FALSE) \in ToClient
    BY DEF ToClient
  <1>2. /\ <<>> \in Seq(ToClient) /\ <<Result(TRUE)>> \in Seq(ToClient)
        /\ <<Result(FALSE)>> \in Seq(ToClient) /\ <<Result(FALSE), Result(FALSE)>> \in Seq(ToClient)
    BY <1>1, EmptySeq, OneMessage, TwoMessages
  <1> QED
    BY <1>1, <1>2 DEF Outcomes

LEMMA ResultOfOutcome ==
  \A minor, type :
    /\ ResultOf(minor, type, TRUE) = IF ResultDue(minor, type) THEN <<Result(TRUE)>> ELSE <<>>
    /\ ResultOf(minor, type, FALSE) \o <<Result(FALSE)>> =
         IF ResultDue(minor, type) THEN <<Result(FALSE), Result(FALSE)>> ELSE Unasked
    /\ ResultOf(minor, type, FALSE) = IF ResultDue(minor, type) THEN <<Result(FALSE)>> ELSE <<>>
    /\ \A ok \in BOOLEAN : ResultOf(minor, type, ok) \in Outcomes
  BY Concats DEF ResultOf, Unasked, Outcomes

-----------------------------------------------------------------------------
(* How the server goes on once the client is authenticated.                *)

Told == \E i \in DOMAIN toClient : toClient[i] = Result(FALSE)

LEMMA ToldLast ==
  ASSUME NEW s \in Seq(ToClient), toClient' = s \o <<Result(FALSE)>>
  PROVE  Told'
  <1> DEFINE t == Append(s, Result(FALSE))
  <1>1. toClient' = t
    BY ResultSequences, AppendIsConcat
  <1>2. t \in Seq(ToClient) /\ Len(t) = Len(s) + 1 /\ t[Len(s) + 1] = Result(FALSE)
    BY ResultSequences, AppendProperties
  <1>3. Len(s) \in Nat /\ DOMAIN t = 1 .. Len(t)
    BY <1>2, LenProperties
  <1> HIDE DEF t
  <1>4. Len(s) + 1 \in DOMAIN t
    BY <1>2, <1>3
  <1> QED
    BY <1>1, <1>2, <1>4 DEF Told, Result

\* The state after it, and what it writes last.
Ends(minor, type, r) ==
  \/ sState' = "QUERYING" /\ r = <<>> /\ UNCHANGED closeReason
  \/ sState' = "INITIALISATION" /\ r = ResultOf(minor, type, TRUE) /\ UNCHANGED closeReason
  \/ sState' = "CLOSING" /\ closeReason' = "no desktop" /\ r = ResultOf(minor, type, TRUE)
  \/ /\ sState' = "CLOSING" /\ closeReason' = "rejected"
     /\ r = ResultOf(minor, type, FALSE) \o <<Result(FALSE)>>

LEMMA AuthenticatedEnds ==
  ASSUME toClient = <<>>, NEW w \in Seq(ToClient), NEW minor, NEW type,
         Authenticated(w, minor, type)
  PROVE  /\ \E r \in Outcomes : toClient' = w \o r /\ Ends(minor, type, r)
         /\ closeReason' = "rejected" /\ closeReason = "unset" => Told'
  <1>1. ResultOf(minor, type, TRUE) \in Outcomes /\ ResultOf(minor, type, TRUE) \in Seq(ToClient)
        /\ ResultOf(minor, type, FALSE) \in Outcomes /\ ResultOf(minor, type, FALSE) \in Seq(ToClient)
    BY ResultOfOutcome, ResultSequences
  <1>2. <<Result(FALSE)>> \in Seq(ToClient) /\ <<>> \in Outcomes
    BY ResultSequences DEF Outcomes
  <1>3. CASE Accepts(w, minor, type)
    <2>1. w \o ResultOf(minor, type, TRUE) \in Seq(ToClient)
      BY <1>1, ConcatProperties
    <2>2. toClient' = w \o ResultOf(minor, type, TRUE)
      BY <1>3, <2>1, ConcatEmptySeq DEF Accepts, ServerWrites
    <2> QED
      BY <1>1, <1>3, <2>2 DEF Accepts, Enters, Closes, Ends
  <1>4. CASE /\ ServerWrites(w \o ResultOf(minor, type, FALSE) \o <<Result(FALSE)>>)
             /\ Closes("rejected")
    <2> DEFINE f == ResultOf(minor, type, FALSE)
               r == f \o <<Result(FALSE)>>
    <2>1. w \o f \in Seq(ToClient) /\ (w \o f) \o <<Result(FALSE)>> \in Seq(ToClient)
      BY <1>1, <1>2, ConcatProperties
    <2>2. toClient' = (w \o f) \o <<Result(FALSE)>>
      BY <1>4, <2>1, ConcatEmptySeq DEF ServerWrites
    <2>3. toClient' = w \o r
      <3>1. \A x \in Seq(ToClient), y \in Seq(ToClient) : (x \o y) \o <<Result(FALSE)>> = x \o (y \o <<Result(FALSE)>>)
        BY <1>2, ConcatAssociative
      <3> QED
        BY <1>1, <2>2, <3>1
    <2>4. r \in Outcomes
      BY ResultOfOutcome DEF Outcomes, Unasked
    <2>5. Told'
      BY <2>1, <2>2, ToldLast
    <2> QED
      BY <1>4, <2>3, <2>4, <2>5 DEF Closes, Ends
  <1>5. CASE ServerWrites(w) /\ Enters("QUERYING")
    <2>1. toClient' = w \o <<>>
      BY <1>5, ConcatEmptySeq DEF ServerWrites
    <2> QED
      BY <1>2, <1>5, <2>1 DEF Enters, Ends
  <1> QED
    BY <1>3, <1>4, <1>5 DEF Authenticated

\* What it writes last is what a viewer at that point can read.
LEMMA EndsReadable ==
  ASSUME NEW minor \in {3, 7, 8}, NEW r, closeReason = "unset"
  PROVE  /\ Ends(minor, "None", r) => r \in OutcomesOf(minor, closeReason' = "rejected" /\ minor # 8)
         /\ Ends(minor, "VncAuth", r) => r \in Outcomes
  <1>1. ResultDue(minor, "None") <=> minor = 8
    BY DEF ResultDue
  <1>2. ResultDue(minor, "VncAuth")
    BY DEF ResultDue
  <1>3. ASSUME Ends(minor, "None", r) PROVE r \in OutcomesOf(minor, closeReason' = "rejected" /\ minor # 8)
    <2>1. CASE minor = 8
      BY <1>1, <1>3, <2>1, ResultOfOutcome DEF Ends, OutcomesOf, Outcomes
    <2>2. CASE minor # 8
      BY <1>1, <1>3, <2>2, ResultOfOutcome DEF Ends, OutcomesOf, Unasked
    <2> QED
      BY <2>1, <2>2
  <1> QED
    BY <1>2, <1>3, ResultOfOutcome DEF Ends, Outcomes

LEMMA Known ==
  /\ \A t \in SecType \cup {"Invalid"} : Type33(t) \in ToClient
  /\ Challenge \in ToClient /\ Tunnels \in ToClient /\ Caps(<<>>) \in ToClient
  /\ \A l \in Offers : Caps(l) \in ToClient /\ Types(l) \in ToClient
  /\ ServerInit \in ToClient /\ Interaction \in ToClient
  BY DEF ToClient, Type33, Caps, Types, ServerInit, Interaction

LEMMA BeforeTwo ==
  ASSUME NEW m \in ToClient, NEW n \in ToClient, NEW r \in Seq(ToClient)
  PROVE  <<m, n>> \o r = Before(m, Before(n, r))
  <1>1. <<m>> \in Seq(ToClient) /\ <<n>> \in Seq(ToClient)
    BY OneMessage
  <1>2. (<<m>> \o <<n>>) \o r = <<m>> \o (<<n>> \o r)
    BY <1>1, ConcatAssociative
  <1> QED
    BY <1>2, Concats DEF Before

\* The server settles None, before the viewer has read that it does.
LEMMA SettlesUnread ==
  ASSUME closeReason = "unset", toClient = <<>>, cMinor \in {3, 7, 8},
         sMinor' = cMinor, sSec' = "None", toServer' = <<>>, UNCHANGED clientVars, sTight' = cTight,
         NEW w, Authenticated(w, cMinor, "None"),
         \/ cMinor = 3 /\ cTight = FALSE /\ cState = "SECURITY_TYPES" /\ w = <<Type33("None")>>
         \/ cMinor # 3 /\ cTight /\ cState = "TUNNELS" /\ w = <<Tunnels, Caps(<<>>)>>
  PROVE  /\ sState' \in {"QUERYING", "INITIALISATION", "CLOSING"}
         /\ closeReason' # "unset" <=> sState' = "CLOSING"
         /\ ClientSide'
  <1>1. w \in Seq(ToClient)
    BY Known, OneMessage, TwoMessages DEF SecType
  <1>2. PICK r \in Outcomes : toClient' = w \o r /\ Ends(cMinor, "None", r)
    BY <1>1, AuthenticatedEnds
  <1>3. r \in Seq(ToClient)
    BY ResultSequences
  <1>4. Due' <=> cMinor = 8
    BY DEF Due, ResultDue
  <1>5. r \in OutcomesOf(cMinor, RefusedUnasked')
    BY <1>2, <1>4, EndsReadable DEF RefusedUnasked
  <1>6. UNCHANGED <<cState, cMinor, cTight>>
    BY DEF clientVars
  <1>7. /\ cMinor = 3 => toClient' = Before(Type33("None"), r)
        /\ cMinor # 3 => toClient' = Before(Tunnels, Before(Caps(<<>>), r))
    <2>1. cMinor = 3 => toClient' = Before(Type33("None"), r)
      BY <1>2 DEF Before
    <2>2. <<Tunnels, Caps(<<>>)>> \o r = Before(Tunnels, Before(Caps(<<>>), r))
      BY <1>3, Known, BeforeTwo
    <2>3. cMinor # 3 => toClient' = Before(Tunnels, Before(Caps(<<>>), r))
      BY <1>2, <2>2
    <2> QED
      BY <2>1, <2>3
  <1>8. Legible(RefusedUnasked)'
    BY <1>5, <1>6, <1>7 DEF Legible, Readable
  <1>9. RefusalTold'
    <2>1. closeReason' \in {"rejected", "wrong password"} => Told'
      BY <1>1, <1>2, AuthenticatedEnds DEF Ends
    <2> QED
      BY <2>1 DEF RefusalTold, Told
  <1>10. ASSUME sState' # "CLOSING" PROVE Open'
    <2>1. /\ sState' = "QUERYING" => r = <<>>
          /\ sState' = "INITIALISATION" => r = ResultOf(sMinor', sSec', TRUE)
          /\ sState' \in {"QUERYING", "INITIALISATION"}
      BY <1>2, <1>10 DEF Ends
    <2>2. Behind(r)'
      BY <1>6, <1>7 DEF Behind
    <2>3. CASE sState' = "QUERYING"
      BY <2>1, <2>2, <2>3, <1>6 DEF Open, AtQuery
    <2>4. CASE sState' = "INITIALISATION"
      <3>1. Behind(ResultOf(sMinor, sSec, TRUE))'
        BY <2>1, <2>2, <2>4 DEF Behind, ResultOf
      <3> QED
        BY <2>4, <3>1, <1>6 DEF Open, AtInit
    <2> QED
      BY <2>1, <2>3, <2>4
  <1> QED
    BY <1>2, <1>8, <1>9, <1>10 DEF ClientSide, Ends

\* The server lets in the viewer that awaits it: one that chose None, or
\* whose response was right.
LEMMA SettlesRead ==
  ASSUME closeReason = "unset", toClient = <<>>, cMinor \in {3, 7, 8},
         sMinor' = cMinor, sSec' = cSec, UNCHANGED clientVars, sTight' = cTight,
         cSec \in SecType, Authenticated(<<>>, cMinor, cSec),
         \/ ResultDue(cMinor, cSec) /\ cState = "SECURITY_RESULT" /\ toServer' = <<>>
         \/ ~ResultDue(cMinor, cSec) /\ cState = "INITIALISATION" /\ toServer' = <<ClientInit>>
  PROVE  /\ sState' \in {"QUERYING", "INITIALISATION", "CLOSING"}
         /\ closeReason' # "unset" <=> sState' = "CLOSING"
         /\ ClientSide'
  <1>1. PICK r \in Outcomes : toClient' = <<>> \o r /\ Ends(cMinor, cSec, r)
    BY AuthenticatedEnds, EmptySeq
  <1>2. toClient' = r
    BY <1>1, ResultSequences, ConcatEmptySeq
  <1>3. UNCHANGED <<cState, cMinor, cSec, cTight>> /\ Same' /\ (Due' <=> ResultDue(cMinor, cSec))
    BY DEF clientVars, Same, Due
  <1>4. Legible(RefusedUnasked)'
    <2>1. CASE ResultDue(cMinor, cSec)
      BY <2>1, <1>2, <1>3 DEF Legible, Readable
    <2>2. CASE ~ResultDue(cMinor, cSec)
      <3>1. cSec = "None" /\ cMinor # 8
        BY <2>2 DEF ResultDue, SecType
      <3>2. r \in OutcomesOf(cMinor, RefusedUnasked')
        BY <1>1, <1>3, <2>2, <3>1, EndsReadable DEF RefusedUnasked
      <3>3. r = <<>> \/ (RefusedUnasked' /\ r = Unasked)
        BY <3>1, <3>2 DEF OutcomesOf
      <3> QED
        BY <1>2, <1>3, <2>2, <3>3 DEF Legible, Readable
    <2> QED
      BY <2>1, <2>2
  <1>5. RefusalTold'
    <2>1. closeReason' \in {"rejected", "wrong password"} => Told'
      BY <1>1, AuthenticatedEnds, EmptySeq DEF Ends
    <2> QED
      BY <2>1 DEF RefusalTold, Told
  <1>6. ASSUME sState' # "CLOSING" PROVE Open'
    <2>1. /\ sState' = "QUERYING" => r = <<>>
          /\ sState' = "INITIALISATION" => r = ResultOf(cMinor, cSec, TRUE)
          /\ sState' \in {"QUERYING", "INITIALISATION"}
      BY <1>1, <1>6 DEF Ends
    <2>2. CASE sState' = "QUERYING"
      BY <2>1, <2>2, <1>2, <1>3 DEF Open, AtQuery
    <2>3. CASE sState' = "INITIALISATION"
      BY <2>1, <2>3, <1>2, <1>3, ResultOfOutcome DEF Open, AtInit
    <2> QED
      BY <2>1, <2>2, <2>3
  <1> QED
    BY <1>1, <1>4, <1>5, <1>6 DEF ClientSide, Ends

\* The server settles VncAuth, and asks for the password.
LEMMA SettlesVncAuth ==
  ASSUME closeReason = "unset", toClient = <<>>, cMinor \in {3, 7, 8},
         sMinor' = cMinor, sTight' = cTight, toServer' = <<>>, UNCHANGED clientVars,
         NEW w, StartSecurity(w, cMinor, "VncAuth"),
         \/ cMinor = 3 /\ cTight = FALSE /\ cState = "SECURITY_TYPES" /\ w = <<Type33("VncAuth")>>
         \/ cSec = "VncAuth" /\ cState = "SECURITY" /\ w = <<>>
  PROVE  /\ sState' = "SECURITY" /\ closeReason' = "unset"
         /\ ClientSide'
  <1>1. sState' = "SECURITY" /\ closeReason' = "unset" /\ sSec' = "VncAuth"
        /\ toClient' = toClient \o (w \o <<Challenge>>)
    BY DEF StartSecurity, Enters, ServerWrites
  <1>2. UNCHANGED <<cState, cMinor, cSec, cTight>> /\ RefusalTold'
    BY <1>1 DEF clientVars, RefusalTold
  <1>3. <<Challenge>> \in Seq(ToClient)
    BY Known, OneMessage
  <1>4. CASE cMinor = 3 /\ cTight = FALSE /\ cState = "SECURITY_TYPES" /\ w = <<Type33("VncAuth")>>
    <2>1. Before(Type33("VncAuth"), <<Challenge>>) \in Seq(ToClient)
      BY <1>3, Known, BeforeFirst DEF SecType
    <2>2. toClient' = Before(Type33("VncAuth"), <<Challenge>>)
      BY <1>1, <1>4, <2>1, ConcatEmptySeq DEF Before
    <2>3. Legible(RefusedUnasked)'
      BY <1>2, <1>4, <2>2 DEF Legible, Readable
    <2>4. Open'
      BY <1>1, <1>2, <1>4, <2>2 DEF Open, AtSecurity, Behind
    <2> QED
      BY <1>1, <1>2, <2>3, <2>4 DEF ClientSide
  <1>5. CASE cSec = "VncAuth" /\ cState = "SECURITY" /\ w = <<>>
    <2>1. toClient' = <<Challenge>>
      BY <1>1, <1>3, <1>5, ConcatEmptySeq
    <2>2. Legible(RefusedUnasked)'
      BY <1>2, <1>5, <2>1 DEF Legible, Readable
    <2>3. Open'
      BY <1>1, <1>2, <1>5, <2>1 DEF Open, AtSecurity, Same
    <2> QED
      BY <1>1, <1>2, <2>2, <2>3 DEF ClientSide
  <1> QED
    BY <1>4, <1>5

-----------------------------------------------------------------------------
(* The server's steps.                                                     *)

\* The message that it reads.
LEMMA ServerHead ==
  ASSUME NEW kind, ServerReads(kind)
  PROVE  /\ toServer # <<>> /\ Head(toServer).kind = kind /\ toServer' = Tail(toServer)
         /\ UNCHANGED <<offer, viewer, knows, cState, cMinor, cSec, cTight, clientVars>>
         /\ ClientGone' = ClientGone
  BY DEF ServerReads, setup, clientVars, ClientGone

LEMMA OfferedSettles ==
  ASSUME Inv, NEW w, NEW minor, NEW t \in SecType, StartSecurity(w, minor, t)
  PROVE  /\ sSec' = t
         /\ t = "None" => Authenticated(w, minor, "None")
         /\ t = "VncAuth" => StartSecurity(w, minor, "VncAuth")
         /\ sState' \in {"SECURITY", "QUERYING", "INITIALISATION", "CLOSING"}
         /\ closeReason = "unset" => (closeReason' # "unset" <=> sState' = "CLOSING")
  BY DEF StartSecurity, Authenticated, Accepts, Enters, Closes

LEMMA VersionJoint == Inv /\ Joint /\ ProcessVersionMsg => Joint'
  <1> SUFFICES ASSUME Inv, Joint, ProcessVersionMsg PROVE Joint'
    OBVIOUS
  <1>1. /\ sState = "PROTOCOL_VERSION" /\ closeReason = "unset" /\ sTight' = sTight
        /\ sMinor' = Head(toServer).body /\ sSec = "unset"
    BY DEF ProcessVersionMsg, Joint, Inv, ServerSound
  <1>2. /\ toServer # <<>> /\ toServer' = Tail(toServer)
        /\ UNCHANGED <<offer, cState, cMinor, cSec, cTight, clientVars>>
        /\ ClientGone' = ClientGone
    BY ServerHead DEF ProcessVersionMsg
  <1>3. toServer' = <<>>
    BY <1>1, <1>2, Singles DEF Joint, ServerReadable
  <1>4. ASSUME ~ClientGone
        PROVE  /\ cState = "SECURITY_TYPES" /\ toClient = <<>> /\ sMinor' = cMinor
               /\ cMinor \in {3, 7, 8} /\ cTight = FALSE /\ sTight = FALSE
    <2>1. AtVersion
      BY <1>1, <1>4 DEF Joint, ClientSide, Open
    <2> QED
      BY <1>1, <1>2, <2>1, Singles, Kinds DEF AtVersion, Inv, FieldsOK
  <1>5. CASE /\ sMinor' = 3
             /\ ServerWrites(<<Message("type33", "Invalid")>>)
             /\ Closes("no type")
    <2>1. sState' = "CLOSING" /\ closeReason' = "no type"
      BY <1>5 DEF Closes
    <2>2. ASSUME ~ClientGone PROVE Legible(RefusedUnasked)'
      <3>1. toClient' = <<Type33("Invalid")>>
        BY <1>4, <1>5, <2>2, Concats DEF ServerWrites, Type33
      <3> QED
        BY <1>2, <1>4, <1>5, <2>2, <3>1 DEF Legible, Readable
    <2>3. ClientSide'
      BY <1>2, <2>1, <2>2 DEF ClientSide, RefusalTold
    <2> QED
      BY <2>1, <2>3 DEF Joint
  <1>6. CASE /\ sMinor' = 3 /\ offer # <<>>
             /\ StartSecurity(<<Message("type33", Head(offer))>>, 3, Head(offer))
    <2> DEFINE t == Head(offer)
    <2>1. t \in SecType
      BY <1>6, OfferedTyped
    <2>2. /\ sSec' = t
          /\ t = "None" => Authenticated(<<Type33("None")>>, 3, "None")
          /\ t = "VncAuth" => StartSecurity(<<Type33("VncAuth")>>, 3, "VncAuth")
          /\ sState' \in {"SECURITY", "QUERYING", "INITIALISATION", "CLOSING"}
          /\ closeReason' # "unset" <=> sState' = "CLOSING"
      BY <1>1, <1>6, <2>1, OfferedSettles DEF Type33
    <2> HIDE DEF t
    <2>3. ServerReadable'
      BY <1>3, <2>2 DEF ServerReadable
    <2>4. ASSUME ~ClientGone PROVE ClientSide'
      <3>1. CASE t = "None"
        BY <1>1, <1>2, <1>3, <1>4, <1>6, <2>2, <2>4, <3>1, SettlesUnread
      <3>2. CASE t = "VncAuth"
        BY <1>1, <1>2, <1>3, <1>4, <1>6, <2>2, <2>4, <3>2, SettlesVncAuth
      <3> QED
        BY <2>1, <3>1, <3>2 DEF SecType
    <2>5. ClientSide'
      BY <1>2, <2>4 DEF ClientSide
    <2> QED
      BY <2>2, <2>3, <2>5 DEF Joint
  <1>7. CASE /\ sMinor' # 3
             /\ ServerWrites(<<Message("types", Append(offer, "Tight"))>>)
             /\ Enters("SECURITY_TYPE")
    <2>1. sState' = "SECURITY_TYPE" /\ closeReason' = "unset"
      BY <1>1, <1>7 DEF Enters
    <2>2. ServerReadable'
      BY <1>3, <2>1 DEF ServerReadable
    <2>3. ASSUME ~ClientGone PROVE Legible(RefusedUnasked)' /\ Open'
      <3>1. toClient' = <<Types(offer)>> /\ offer \in Offers
        BY <1>4, <1>7, <2>3, Concats DEF ServerWrites, Types, Inv, FieldsOK
      <3>2. Legible(RefusedUnasked)'
        BY <1>2, <1>4, <1>7, <2>3, <3>1 DEF Legible, Readable
      <3>3. Open'
        BY <1>1, <1>2, <1>3, <1>4, <1>7, <2>1, <2>3, <3>1 DEF Open, AtType
      <3> QED
        BY <3>2, <3>3
    <2>4. ClientSide'
      BY <1>2, <2>1, <2>3 DEF ClientSide, RefusalTold
    <2> QED
      BY <2>1, <2>2, <2>4 DEF Joint
  <1> QED
    BY <1>5, <1>6, <1>7 DEF ProcessVersionMsg

\* The server closes without a word to the viewer.
LEMMA ClosesJoint ==
  ASSUME Joint, sState # "CLOSING", UNCHANGED <<clientVars, toClient>>,
         NEW reason \in CloseReason \ {"unset", "rejected", "wrong password"}, Closes(reason)
  PROVE  Joint'
  <1>1. closeReason = "unset" /\ sState' = "CLOSING" /\ closeReason' = reason
    BY DEF Joint, Closes
  <1>2. RefusedUnasked = FALSE /\ RefusedUnasked' = FALSE
    BY <1>1 DEF RefusedUnasked
  <1>3. UNCHANGED <<cState, cMinor, cSec, cTight, ClientGone, toClient>>
    BY DEF clientVars, ClientGone
  <1>4. ASSUME ~ClientGone PROVE Legible(RefusedUnasked)'
    <2>1. Legible(FALSE)
      BY <1>2, <1>4 DEF Joint, ClientSide
    <2> QED
      BY <1>2, <1>3, <2>1 DEF Legible
  <1>5. RefusalTold'
    BY <1>1 DEF RefusalTold
  <1> QED
    BY <1>1, <1>3, <1>4, <1>5 DEF Joint, ClientSide

\* The type that the viewer chose becomes known to the server.
LEMMA ChoiceJoint ==
  ASSUME Inv, Joint, NEW kind, ServerReads(kind), sState \in {"SECURITY_TYPE", "TIGHT_AUTH_TYPE"},
         sMinor' = sMinor, sTight' = sTight, NEW told, NEW t \in SecType, Head(toServer) = told,
         ProcessSecurityType(t),
         toServer = <<told>> \/ (t = "None" /\ toServer = <<told, ClientInit>>),
         ~ClientGone => Chosen(t, told) /\ cMinor = sMinor /\ cMinor # 3 /\ cTight = sTight
  PROVE  Joint'
  <1>1. closeReason = "unset"
    BY DEF Joint
  <1>2. /\ toServer' = Tail(toServer)
        /\ UNCHANGED <<cState, cMinor, cSec, cTight, clientVars>>
        /\ ClientGone' = ClientGone
    BY ServerHead
  <1>3. toServer' \in { <<>>, <<ClientInit>> } /\ (t # "None" => toServer' = <<>>)
    BY <1>2, Singles
  <1>4. CASE t \in Offered /\ StartSecurity(<<>>, sMinor, t)
    <2>1. /\ sSec' = t
          /\ t = "None" => Authenticated(<<>>, sMinor, "None")
          /\ t = "VncAuth" => StartSecurity(<<>>, sMinor, "VncAuth")
          /\ sState' \in {"SECURITY", "QUERYING", "INITIALISATION", "CLOSING"}
          /\ closeReason' # "unset" <=> sState' = "CLOSING"
      BY <1>1, <1>4, OfferedSettles
    <2>2. t = "None" => sState' # "SECURITY"
      BY <2>1 DEF Authenticated, Accepts, Enters, Closes
    <2>3. ServerReadable'
      BY <1>3, <2>1, <2>2 DEF ServerReadable
    <2>4. ASSUME ~ClientGone PROVE ClientSide'
      <3>1. /\ Chosen(t, told) /\ cMinor = sMinor /\ cMinor # 3 /\ cTight = sTight
            /\ cSec = t /\ toClient = <<>> /\ cMinor \in {3, 7, 8}
        BY <2>4 DEF Chosen, Choice, Inv, FieldsOK
      <3>2. CASE t = "None"
        <4>1. \/ ResultDue(cMinor, cSec) /\ cState = "SECURITY_RESULT" /\ toServer' = <<>>
              \/ ~ResultDue(cMinor, cSec) /\ cState = "INITIALISATION" /\ toServer' = <<ClientInit>>
          <5>1. CASE cMinor = 8 /\ cState = "SECURITY_RESULT" /\ toServer = <<told>>
            BY <1>2, <3>1, <3>2, <5>1, Singles DEF ResultDue
          <5>2. CASE cMinor = 7 /\ cState = "INITIALISATION" /\ toServer = <<told, ClientInit>>
            BY <1>2, <3>1, <3>2, <5>2, Singles DEF ResultDue
          <5> QED
            BY <3>1, <3>2, <5>1, <5>2 DEF Chosen, Choice
        <4> QED
          BY <1>1, <1>2, <2>1, <3>1, <3>2, <4>1, SettlesRead
      <3>3. CASE t = "VncAuth"
        <4>1. cState = "SECURITY"
          BY <3>1, <3>3 DEF Chosen, Choice
        <4> QED
          BY <1>1, <1>2, <1>3, <2>1, <3>1, <3>3, <4>1, SettlesVncAuth
      <3> QED
        BY <3>2, <3>3 DEF SecType
    <2>5. ClientSide'
      BY <1>2, <2>4 DEF ClientSide
    <2> QED
      BY <2>1, <2>3, <2>5 DEF Joint
  <1>5. CASE Closes("type not available") /\ UNCHANGED <<sSec, toClient>>
    BY <1>2, <1>5, ClosesJoint DEF CloseReason
  <1> QED
    BY <1>4, <1>5 DEF ProcessSecurityType

LEMMA TypeJoint == Inv /\ Joint /\ ProcessSecurityTypeMsg => Joint'
  <1> SUFFICES ASSUME Inv, Joint, ProcessSecurityTypeMsg PROVE Joint'
    OBVIOUS
  <1>1. /\ sState = "SECURITY_TYPE" /\ closeReason = "unset" /\ sMinor' = sMinor
        /\ ServerReads("type")
    BY DEF ProcessSecurityTypeMsg, Joint
  <1>2. /\ toServer # <<>> /\ toServer' = Tail(toServer)
        /\ UNCHANGED <<offer, cState, cMinor, cSec, cTight, clientVars>>
        /\ ClientGone' = ClientGone
    BY <1>1, ServerHead
  <1>3. PICK t \in SecType \cup {"Tight"} :
          toServer = <<Type(t)>> \/ (t = "None" /\ toServer = <<Type("None"), ClientInit>>)
    BY <1>1, <1>2 DEF Joint, ServerReadable, SecType
  <1>4. Head(toServer) = Type(t) /\ Head(toServer).body = t
    BY <1>3, Singles, Kinds
  <1>5. ASSUME ~ClientGone
        PROVE  /\ sMinor = cMinor /\ cMinor \in {7, 8} /\ sTight = FALSE
               /\ \/ /\ t = "Tight" /\ cTight = TRUE /\ cState = "TUNNELS" /\ toClient = <<>>
                     /\ toServer = <<Type("Tight")>>
                  \/ t # "Tight" /\ cTight = FALSE /\ Chosen(t, Type(t))
    <2>1. AtType /\ sMinor = cMinor /\ cMinor # 3
      BY <1>1, <1>5 DEF Joint, ClientSide, Open, AtType
    <2>2. cTight \in BOOLEAN /\ sTight \in BOOLEAN /\ sMinor \in {3, 7, 8}
      BY DEF Inv, FieldsOK
    <2>3. CASE cTight /\ cState = "TUNNELS" /\ toClient = <<>> /\ toServer = <<Type("Tight")>>
      <3>1. t = "Tight"
        BY <1>4, <2>3, Singles, Kinds
      <3> QED
        BY <2>1, <2>2, <2>3, <3>1 DEF AtType
    <2>4. ASSUME ~cTight, NEW u \in SecType, Chosen(u, Type(u)) PROVE t = u /\ t # "Tight"
      BY <1>4, <2>4, Singles, Kinds DEF Chosen, Choice, SecType
    <2> QED
      BY <1>2, <2>1, <2>2, <2>3, <2>4 DEF AtType
  <1>6. CASE t # "Tight"
    <2>1. ProcessSecurityType(t) /\ sTight' = sTight /\ t \in SecType
      BY <1>4, <1>6 DEF ProcessSecurityTypeMsg
    <2>2. toServer = <<Type(t)>> \/ (t = "None" /\ toServer = <<Type(t), ClientInit>>)
      BY <1>3
    <2>3. ~ClientGone => Chosen(t, Type(t)) /\ cMinor = sMinor /\ cMinor # 3 /\ cTight = sTight
      <3> SUFFICES ASSUME ~ClientGone
                   PROVE  Chosen(t, Type(t)) /\ cMinor = sMinor /\ cMinor # 3 /\ cTight = sTight
        OBVIOUS
      <3>1. cMinor = sMinor /\ cMinor \in {7, 8}
        BY <1>5
      <3>2. Chosen(t, Type(t)) /\ cTight = sTight
        BY <1>5, <1>6
      <3> QED
        BY <3>1, <3>2
    <2> QED
      BY <1>1, <1>4, <2>1, <2>2, <2>3, ChoiceJoint
  <1>7. CASE t = "Tight"
    <2>1. OfferTight /\ sTight' = TRUE
      BY <1>4, <1>7 DEF ProcessSecurityTypeMsg
    <2>2. toServer' = <<>>
      BY <1>2, <1>3, <1>7, Singles
    <2>3. ASSUME ~ClientGone
          PROVE  /\ cState = "TUNNELS" /\ toClient = <<>> /\ sMinor' = cMinor /\ cTight = TRUE
                 /\ cMinor \in {7, 8}
      BY <1>1, <1>5, <1>7, <2>3
    <2>4. CASE ServerWrites(<<Tunnels>>) /\ Closes("no type")
      <3>1. sState' = "CLOSING" /\ closeReason' = "no type"
        BY <2>4 DEF Closes
      <3>2. ASSUME ~ClientGone PROVE Legible(RefusedUnasked)'
        <4>1. toClient' = <<Tunnels>>
          BY <2>3, <2>4, <3>2, Concats DEF ServerWrites
        <4> QED
          BY <1>2, <2>3, <3>2, <4>1 DEF Legible, Readable
      <3> QED
        BY <1>2, <3>1, <3>2 DEF Joint, ClientSide, RefusalTold
    <2>5. CASE StartSecurity(<<Tunnels, Caps(<<>>)>>, sMinor, "None")
      <3>1. /\ sSec' = "None"
            /\ Authenticated(<<Tunnels, Caps(<<>>)>>, sMinor, "None")
            /\ sState' \in {"QUERYING", "INITIALISATION", "CLOSING"}
            /\ closeReason' # "unset" <=> sState' = "CLOSING"
        BY <1>1, <2>5 DEF StartSecurity, Authenticated, Accepts, Enters, Closes
      <3>2. ServerReadable'
        BY <2>2, <3>1 DEF ServerReadable
      <3>3. ASSUME ~ClientGone PROVE ClientSide'
        BY <1>1, <1>2, <2>1, <2>2, <2>3, <3>1, <3>3, SettlesUnread
      <3> QED
        BY <1>2, <3>1, <3>2, <3>3 DEF Joint, ClientSide
    <2>6. CASE /\ "VncAuth" \in Offered /\ ServerWrites(<<Tunnels, Caps(offer)>>)
               /\ Enters("TIGHT_AUTH_TYPE")
      <3>1. sState' = "TIGHT_AUTH_TYPE" /\ closeReason' = "unset"
        BY <1>1, <2>6 DEF Enters
      <3>2. ServerReadable'
        BY <2>2, <3>1 DEF ServerReadable
      <3>3. offer \in Offers \ {<<>>}
        BY <2>6 DEF Inv, FieldsOK, Offered
      <3>4. ASSUME ~ClientGone PROVE Legible(RefusedUnasked)' /\ Open'
        <4>1. toClient' = Before(Tunnels, <<Caps(offer)>>)
          BY <2>3, <2>6, <3>4, Concats DEF ServerWrites, Before
        <4>2. Legible(RefusedUnasked)'
          BY <1>2, <2>3, <3>3, <3>4, <4>1 DEF Legible, Readable
        <4>3. AtAuthType'
          BY <1>2, <2>1, <2>2, <2>3, <3>3, <3>4, <4>1 DEF AtAuthType
        <4> QED
          BY <1>2, <2>3, <3>1, <3>4, <4>2, <4>3 DEF Open
      <3> QED
        BY <1>2, <3>1, <3>2, <3>4 DEF Joint, ClientSide, RefusalTold
    <2> QED
      BY <2>1, <2>4, <2>5, <2>6 DEF OfferTight, Caps
  <1> QED
    BY <1>6, <1>7

LEMMA AuthTypeJoint == Inv /\ Joint /\ ProcessAuthTypeMsg => Joint'
  <1> SUFFICES ASSUME Inv, Joint, ProcessAuthTypeMsg PROVE Joint'
    OBVIOUS
  <1>1. /\ sState = "TIGHT_AUTH_TYPE" /\ sMinor' = sMinor /\ sTight' = sTight
        /\ ServerReads("authType") /\ ProcessSecurityType(Head(toServer).body)
    BY DEF ProcessAuthTypeMsg
  <1>2. toServer # <<>>
    BY <1>1, ServerHead
  <1>3. PICK t \in SecType :
          \/ toServer = <<AuthType(t)>>
          \/ t = "None" /\ toServer = <<AuthType("None"), ClientInit>>
    BY <1>1, <1>2 DEF Joint, ServerReadable, SecType
  <1>4. Head(toServer) = AuthType(t) /\ Head(toServer).body = t
    BY <1>3, Singles, Kinds
  <1>5. ASSUME ~ClientGone
        PROVE  cMinor = sMinor /\ cMinor # 3 /\ cTight = sTight /\ Chosen(t, AuthType(t))
    <2>1. AtAuthType /\ sMinor = cMinor
      BY <1>1, <1>5 DEF Joint, ClientSide, Open
    <2>2. cTight = sTight
      BY <2>1 DEF AtAuthType, Inv, FieldsOK
    <2>3. ASSUME NEW u \in SecType, Chosen(u, AuthType(u)) PROVE t = u
      BY <1>4, <2>3, Singles, Kinds DEF Chosen, Choice
    <2> QED
      BY <1>2, <2>1, <2>2, <2>3 DEF AtAuthType
  <1> QED
    BY <1>1, <1>3, <1>4, <1>5, ChoiceJoint

LEMMA ResponseJoint == Inv /\ Joint /\ ProcessSecurityMsg => Joint'
  <1> SUFFICES ASSUME Inv, Joint, ProcessSecurityMsg PROVE Joint'
    OBVIOUS
  <1>1. /\ sState = "SECURITY" /\ closeReason = "unset" /\ sSec = "VncAuth"
        /\ ServerReads("response") /\ UNCHANGED <<sMinor, sSec, sTight>>
    BY DEF ProcessSecurityMsg, Joint, Inv, ServerSound
  <1>2. /\ toServer # <<>> /\ toServer' = Tail(toServer)
        /\ UNCHANGED <<knows, cState, cMinor, cSec, cTight, clientVars>>
        /\ ClientGone' = ClientGone
    BY <1>1, ServerHead
  <1>3. toServer = <<Response(knows)>>
    BY <1>1, <1>2 DEF Joint, ServerReadable
  <1>4. toServer' = <<>>
    BY <1>2, <1>3, Singles
  <1>5. ASSUME ~ClientGone
        PROVE  /\ cState = "SECURITY_RESULT" /\ toClient = <<>> /\ cMinor = sMinor /\ cMinor \in {3, 7, 8}
               /\ cSec = "VncAuth" /\ cTight = sTight
    BY <1>1, <1>2, <1>5 DEF Joint, ClientSide, Open, AtSecurity, Behind, Same, Inv, FieldsOK
  <1>6. CASE Authenticated(<<>>, sMinor, sSec)
    <2>1. /\ sState' \in {"QUERYING", "INITIALISATION", "CLOSING"}
          /\ closeReason' # "unset" <=> sState' = "CLOSING"
      BY <1>1, <1>6 DEF Authenticated, Accepts, Enters, Closes
    <2>2. ServerReadable'
      BY <1>4, <2>1 DEF ServerReadable
    <2>3. ASSUME ~ClientGone PROVE ClientSide'
      <3>1. ResultDue(cMinor, cSec)
        BY <1>5, <2>3 DEF ResultDue
      <3>2. cSec \in SecType /\ sSec' = cSec /\ sMinor' = cMinor /\ sTight' = cTight
        BY <1>1, <1>5, <2>3 DEF SecType
      <3>3. Authenticated(<<>>, cMinor, cSec)
        BY <1>1, <1>5, <1>6, <2>3
      <3> QED
        BY <1>1, <1>2, <1>4, <1>5, <2>3, <3>1, <3>2, <3>3, SettlesRead
    <2> QED
      BY <1>2, <2>1, <2>2, <2>3 DEF Joint, ClientSide
  <1>7. CASE ServerWrites(<<Result(FALSE)>>) /\ Closes("wrong password")
    <2>1. sState' = "CLOSING" /\ closeReason' = "wrong password"
      BY <1>7 DEF Closes
    <2>2. ASSUME ~ClientGone PROVE Legible(RefusedUnasked)' /\ RefusalTold'
      <3>1. toClient' = <<>> \o <<Result(FALSE)>> /\ toClient' = <<Result(FALSE)>>
        BY <1>5, <1>7, <2>2, Concats DEF ServerWrites
      <3>2. Legible(RefusedUnasked)'
        BY <1>2, <1>5, <2>2, <3>1, ResultSequences DEF Legible, Readable
      <3>3. Told'
        BY <3>1, EmptySeq, ToldLast
      <3> QED
        BY <3>2, <3>3 DEF RefusalTold, Told
    <2> QED
      BY <1>2, <2>1, <2>2 DEF Joint, ClientSide
  <1> QED
    BY <1>6, <1>7 DEF ProcessSecurityMsg

LEMMA InitMsgJoint == Inv /\ Joint /\ ProcessInitMsg => Joint'
  <1> SUFFICES ASSUME Inv, Joint, ProcessInitMsg PROVE Joint'
    OBVIOUS
  <1>1. /\ sState = "INITIALISATION" /\ closeReason = "unset"
        /\ ServerReads("clientInit") /\ UNCHANGED <<sMinor, sSec, sTight>>
    BY DEF ProcessInitMsg, Joint
  <1>2. /\ toServer # <<>> /\ toServer' = Tail(toServer)
        /\ UNCHANGED <<knows, cState, cMinor, cSec, cTight, clientVars>>
        /\ ClientGone' = ClientGone
    BY <1>1, ServerHead
  <1>3. toServer = <<ClientInit>>
    BY <1>1, <1>2 DEF Joint, ServerReadable
  <1>4. toServer' = <<>>
    BY <1>2, <1>3, Singles
  <1>5. ASSUME ~ClientGone
        PROVE  /\ cState = "INITIALISATION" /\ toClient = <<>> /\ Same /\ sMinor = cMinor
               /\ cMinor \in {3, 7, 8}
    BY <1>1, <1>2, <1>5 DEF Joint, ClientSide, Open, AtInit, Behind, Inv, FieldsOK
  <1>6. CASE Closes("in use") /\ UNCHANGED toClient
    BY <1>1, <1>2, <1>6, ClosesJoint DEF CloseReason
  <1>7. CASE /\ ServerWrites(<<ServerInit>> \o IF sTight THEN <<Interaction>> ELSE <<>>)
             /\ Enters("NORMAL")
    <2>1. sState' = "NORMAL" /\ closeReason' = "unset"
      BY <1>1, <1>7 DEF Enters
    <2>2. ServerReadable'
      BY <1>4, <2>1 DEF ServerReadable
    <2>3. ASSUME ~ClientGone PROVE Legible(RefusedUnasked)' /\ Open'
      <3>1. sTight = cTight
        BY <1>5, <2>3 DEF Same
      <3>2. toClient' = SessionOf(cTight)
        <4>1. CASE cTight
          BY <1>5, <1>7, <2>3, <3>1, <4>1, Concats DEF ServerWrites, SessionOf
        <4>2. CASE ~cTight
          BY <1>5, <1>7, <2>3, <3>1, <4>2, Concats DEF ServerWrites, SessionOf
        <4> QED
          BY <4>1, <4>2
      <3>3. Legible(RefusedUnasked)'
        BY <1>2, <1>5, <2>3, <3>2 DEF Legible, Readable
      <3>4. AtNormal'
        BY <1>1, <1>2, <1>4, <1>5, <2>3, <3>2 DEF AtNormal, Same
      <3> QED
        BY <1>1, <1>2, <1>5, <2>1, <2>3, <3>3, <3>4 DEF Open
    <2> QED
      BY <1>2, <2>1, <2>2, <2>3 DEF Joint, ClientSide, RefusalTold
  <1> QED
    BY <1>6, <1>7 DEF ProcessInitMsg, ServerInit, Interaction

LEMMA BeforeConcat ==
  ASSUME NEW m \in ToClient, NEW s \in Seq(ToClient), NEW r \in Seq(ToClient)
  PROVE  Before(m, s) \o r = Before(m, s \o r) /\ Before(m, s) \in Seq(ToClient)
  BY OneMessage, ConcatAssociative, ConcatProperties DEF Before

LEMMA BeforeNothing ==
  ASSUME NEW m \in ToClient, NEW r \in Seq(ToClient)
  PROVE  Before(m, <<>>) \o r = Before(m, r) /\ Before(m, <<>>) \in Seq(ToClient)
  <1>1. PICK e \in Seq(ToClient) : e = <<>>
    BY EmptySeq
  <1>2. Before(m, e) \o r = Before(m, e \o r) /\ Before(m, e) \in Seq(ToClient)
    BY BeforeConcat
  <1>3. e \o r = r
    BY <1>1, ConcatEmptySeq
  <1> QED
    BY ONLY <1>1, <1>2, <1>3

\* What the user's answer appends to what the viewer has yet to read.
LEMMA BehindAppend ==
  ASSUME Behind(<<>>), sSec = "None", NEW r \in Seq(ToClient), toClient' = toClient \o r,
         UNCHANGED <<clientVars, toServer, sMinor, sSec, sTight>>
  PROVE  Behind(r)'
  <1>1. UNCHANGED <<cState, cMinor, cSec, cTight>>
    BY DEF clientVars
  <1>2. Type33("None") \in ToClient /\ Tunnels \in ToClient /\ Caps(<<>>) \in ToClient
    BY Known DEF SecType
  <1>3. Before(Type33("None"), <<>>) \o r = Before(Type33("None"), r)
    BY <1>2, BeforeNothing
  <1>4. /\ Before(Caps(<<>>), <<>>) \o r = Before(Caps(<<>>), r)
        /\ Before(Caps(<<>>), <<>>) \in Seq(ToClient)
    BY <1>2, BeforeNothing
  <1>5. Before(Tunnels, Before(Caps(<<>>), <<>>)) \o r = Before(Tunnels, Before(Caps(<<>>), r))
    <2>1. PICK s \in Seq(ToClient) : s = Before(Caps(<<>>), <<>>)
      BY <1>4
    <2>2. Before(Tunnels, s) \o r = Before(Tunnels, s \o r)
      BY <1>2, BeforeConcat
    <2> QED
      BY ONLY <1>4, <2>1, <2>2
  <1> QED
    BY <1>1, <1>3, <1>4, <1>5 DEF Behind

LEMMA ApproveJoint == Inv /\ Joint /\ ApproveConnection => Joint'
  <1> SUFFICES ASSUME Inv, Joint, ApproveConnection PROVE Joint'
    OBVIOUS
  <1>1. /\ sState = "QUERYING" /\ closeReason = "unset"
        /\ UNCHANGED <<clientVars, sMinor, sSec, sTight, toServer>>
    BY DEF ApproveConnection, Joint
  <1>2. UNCHANGED <<cState, cMinor, cSec, cTight>> /\ ClientGone' = ClientGone /\ Due' = Due
    BY <1>1 DEF clientVars, ClientGone, Due
  <1>3. PICK ok \in BOOLEAN :
          /\ toClient' = toClient \o ResultOf(sMinor, sSec, ok)
          /\ \/ ok /\ sState' = "INITIALISATION" /\ closeReason' = "unset"
             \/ ok /\ sState' = "CLOSING" /\ closeReason' = "no desktop"
             \/ ~ok /\ sState' = "CLOSING" /\ closeReason' = "rejected"
    <2>1. CASE Accepts(<<>>, sMinor, sSec)
      <3>1. <<>> \o ResultOf(sMinor, sSec, TRUE) = ResultOf(sMinor, sSec, TRUE)
        BY ResultOfOutcome, ResultSequences, ConcatEmptySeq
      <3> QED
        BY <1>1, <2>1, <3>1 DEF Accepts, ServerWrites, Enters, Closes
    <2>2. CASE ServerWrites(ResultOf(sMinor, sSec, FALSE)) /\ Closes("rejected")
      BY <2>2 DEF ServerWrites, Closes
    <2> QED
      BY <2>1, <2>2 DEF ApproveConnection
  <1> DEFINE r == ResultOf(sMinor, sSec, ok)
  <1>4. r \in Outcomes /\ r \in Seq(ToClient) /\ r = IF Due THEN <<Result(ok)>> ELSE <<>>
    BY ResultOfOutcome, ResultSequences DEF Due, ResultOf
  <1>5. r' = r
    BY <1>1 DEF ResultOf
  <1>6. toClient \in Seq(ToClient)
    BY SeqMonotonic DEF Inv, Delivered
  <1> HIDE DEF r
  <1>7. ServerReadable'
    BY <1>1, <1>3 DEF Joint, ServerReadable
  <1>8. RefusalTold'
    <2>1. CASE ok = FALSE /\ Due
      BY <1>3, <1>4, <1>6, <2>1, ToldLast DEF RefusalTold, Told, r
    <2>2. CASE ~Due
      BY <1>2, <2>2 DEF RefusalTold, Due
    <2>3. CASE ok = TRUE
      BY <1>3, <2>3 DEF RefusalTold
    <2> QED
      BY <2>1, <2>2, <2>3
  <1>9. ASSUME ~ClientGone
        PROVE  Legible(RefusedUnasked)' /\ (sState' = "INITIALISATION" => AtInit')
    <2>1. AtQuery /\ sMinor = cMinor /\ cMinor \in {3, 7, 8}
      BY <1>1, <1>9 DEF Joint, ClientSide, Open, Inv, FieldsOK
    <2>2. CASE sSec = "None" /\ Behind(<<>>)
      <3>1. Behind(r)'
        BY <1>1, <1>3, <1>4, <2>2, BehindAppend DEF r
      <3>2. r \in OutcomesOf(cMinor, RefusedUnasked')
        <4>1. CASE sMinor = 8
          BY <1>4, <2>1, <4>1 DEF OutcomesOf
        <4>2. CASE sMinor # 8
          <5>1. ~Due
            BY <2>1, <2>2, <4>2 DEF Due, ResultDue
          <5> QED
            BY <1>4, <2>1, <4>2, <5>1 DEF OutcomesOf
        <4> QED
          BY <4>1, <4>2
      <3>3. Legible(RefusedUnasked)'
        <4>1. r' = r /\ UNCHANGED <<cState, cMinor>> /\ cMinor \in {3, 7, 8} /\ sSec' = "None"
          BY <1>1, <1>2, <1>5, <2>1, <2>2 DEF r
        <4>2. CASE cMinor = 3 /\ cState = "SECURITY_TYPES" /\ toClient' = Before(Type33("None"), r)
          BY <3>2, <4>1, <4>2 DEF Legible, Readable
        <4>3. CASE /\ cMinor # 3 /\ cState = "TUNNELS"
                   /\ toClient' = Before(Tunnels, Before(Caps(<<>>), r))
          BY <3>2, <4>1, <4>3 DEF Legible, Readable
        <4>4. CASE cMinor # 3 /\ cState = "AUTH_CAPS" /\ toClient' = Before(Caps(<<>>), r)
          BY <3>2, <4>1, <4>4 DEF Legible, Readable
        <4> QED
          BY <3>1, <4>1, <4>2, <4>3, <4>4 DEF Behind
      <3>4. sState' = "INITIALISATION" => Behind(ResultOf(sMinor, sSec, TRUE))'
        BY <1>1, <1>3, <3>1 DEF Behind, r
      <3> QED
        BY <1>1, <2>2, <3>3, <3>4 DEF AtInit
    <2>3. CASE Same /\ toClient = <<>> /\ Due /\ cState = "SECURITY_RESULT" /\ toServer = <<>>
      <3>1. toClient' = <<Result(ok)>> /\ toClient' \in Outcomes
        BY <1>3, <1>4, <2>3, ConcatEmptySeq DEF r
      <3>2. Legible(RefusedUnasked)'
        BY <1>2, <2>1, <2>3, <3>1 DEF Legible, Readable
      <3>3. Same'
        BY <1>1, <1>2, <2>3 DEF Same
      <3> QED
        BY <1>1, <1>2, <1>3, <2>3, <3>1, <3>2, <3>3 DEF AtInit
    <2>4. CASE Same /\ toClient = <<>> /\ ~Due /\ cState = "INITIALISATION" /\ toServer = <<ClientInit>>
      <3>1. toClient' = <<>>
        BY <1>3, <1>4, <2>4, Concats DEF r
      <3>2. Legible(RefusedUnasked)'
        BY <1>2, <2>1, <2>4, <3>1 DEF Legible, Readable
      <3>3. Same'
        BY <1>1, <1>2, <2>4 DEF Same
      <3> QED
        BY <1>1, <1>2, <2>4, <3>1, <3>2, <3>3 DEF AtInit
    <2> QED
      BY <2>1, <2>2, <2>3, <2>4 DEF AtQuery
  <1>10. ASSUME ~ClientGone, sState' # "CLOSING" PROVE Open'
    <2>1. sState' = "INITIALISATION" /\ AtInit'
      BY <1>3, <1>9, <1>10
    <2>2. sMinor' = cMinor'
      BY <1>1, <1>2, <1>10 DEF Joint, ClientSide, Open
    <2> QED
      BY <2>1, <2>2 DEF Open
  <1> QED
    BY <1>2, <1>3, <1>7, <1>8, <1>9, <1>10 DEF Joint, ClientSide

-----------------------------------------------------------------------------
(* The viewer's steps.                                                     *)

LEMMA ClientHead ==
  ASSUME NEW kind, ClientReads(kind)
  PROVE  /\ toClient # <<>> /\ Head(toClient).kind = kind /\ toClient' = Tail(toClient)
         /\ UNCHANGED <<offer, knows, sState, sMinor, sSec, sTight, closeReason>>
         /\ RefusedUnasked' = RefusedUnasked /\ Due' = Due
  BY DEF ClientReads, setup, serverVars, RefusedUnasked, Due

\* No other message is taken for a refusal.
LEMMA NoRefusal ==
  ASSUME NEW m, m.kind # "result"
  PROVE  m # Result(FALSE)
  <1>1. Result(FALSE).kind = "result"
    BY Kinds
  <1> QED
    BY <1>1

LEMMA ClientChannels == Inv => toClient \in Seq(ToClient) /\ toServer \in Seq(ToServer)
  BY SeqMonotonic DEF Inv, Delivered, Sent

\* A refusal stays on its way until it is read.
LEMMA ToldStays ==
  ASSUME toClient \in Seq(ToClient), toClient # <<>>, Head(toClient) # Result(FALSE),
         toClient' = Tail(toClient), Told
  PROVE  Told'
  <1>1. PICK i \in DOMAIN toClient : toClient[i] = Result(FALSE)
    BY DEF Told
  <1>2. Head(toClient) = toClient[1]
    BY HeadTailProperties
  <1>3. i \in 2 .. Len(toClient) /\ Len(toClient) \in Nat
    <2>1. i \in 1 .. Len(toClient) /\ Len(toClient) \in Nat
      BY <1>1, LenProperties
    <2>2. i # 1
      BY <1>1, <1>2
    <2> QED
      BY <2>1, <2>2
  <1>4. /\ Tail(toClient) \in Seq(ToClient) /\ Len(Tail(toClient)) = Len(toClient) - 1
        /\ \A j \in 1 .. Len(Tail(toClient)) : Tail(toClient)[j] = toClient[j + 1]
    BY HeadTailProperties
  <1> DEFINE t == Tail(toClient)
             j == i - 1
  <1>5. DOMAIN t = 1 .. Len(t)
    BY <1>4, LenProperties
  <1> HIDE DEF t
  <1>6. j \in 1 .. Len(t) /\ j + 1 = i
    BY <1>3, <1>4 DEF t
  <1>7. t[j] = Result(FALSE)
    BY <1>1, <1>4, <1>6 DEF t
  <1>8. toClient' = t /\ j \in DOMAIN t
    BY <1>5, <1>6 DEF t
  <1>9. \E k \in DOMAIN toClient' : toClient'[k] = Result(FALSE)
    BY <1>7, <1>8
  <1> QED
    BY <1>9 DEF Told, Result

\* A step of the viewer keeps its side if what it finds next is legible, and
\* both ends go together as long as the server has not closed.
LEMMA ReadsJoint ==
  ASSUME Inv, Joint, NEW kind, ClientReads(kind), ~ClientGone,
         ClientGone' \/ (Head(toClient) # Result(FALSE) /\ Legible(RefusedUnasked)'),
         Open /\ sState # "CLOSING" => ServerReadable' /\ (~ClientGone' => Open')
  PROVE  Joint'
  <1>1. /\ toClient # <<>> /\ toClient' = Tail(toClient)
        /\ UNCHANGED <<sState, sMinor, sSec, closeReason>>
    BY ClientHead
  <1>2. Legible(RefusedUnasked) /\ RefusalTold /\ (sState # "CLOSING" => Open)
    BY DEF Joint, ClientSide
  <1>3. ASSUME ~ClientGone' PROVE RefusalTold'
    <2>1. Told => Told'
      BY <1>1, <1>3, ClientChannels, ToldStays
    <2>2. ResultDue(sMinor, sSec)' = ResultDue(sMinor, sSec)
      BY <1>1 DEF ResultDue
    <2> QED
      BY <1>1, <1>2, <2>1, <2>2 DEF RefusalTold, Told
  <1> QED
    BY <1>1, <1>2, <1>3 DEF Joint, ClientSide

\* A step that only makes the viewer stop reading.
LEMMA LeavesJoint ==
  ASSUME Joint, ClientGone', UNCHANGED <<serverVars, toServer, knows>>
  PROVE  Joint'
  <1>1. UNCHANGED <<sState, closeReason>>
    BY DEF serverVars
  <1>2. ServerReadable => ServerReadable'
    BY <1>1 DEF ServerReadable
  <1> QED
    BY <1>1, <1>2 DEF Joint, ClientSide

\* What the viewer writes where nothing waits to be read.
LEMMA WritesFirst ==
  \A m, n : /\ toServer = <<>> /\ ClientWrites(<<m>>) => toServer' = <<m>>
            /\ toServer = <<>> /\ ClientWrites(<<m, n>>) => toServer' = <<m, n>>
            /\ toServer = <<>> /\ ClientWrites(<<>>) => toServer' = <<>>
            /\ toServer = <<>> /\ ClientWrites(<<>> \o <<m>>) => toServer' = <<m>>
            /\ toServer = <<>> /\ ClientWrites(<<m>> \o <<n>>) => toServer' = <<m, n>>
  BY Concats DEF ClientWrites

LEMMA ReadVersionJoint == Inv /\ Joint /\ ReadVersionMsg => Joint'
  <1> SUFFICES ASSUME Inv, Joint, ReadVersionMsg PROVE Joint'
    OBVIOUS
  <1>1. /\ ClientReads("version") /\ cState = "PROTOCOL_VERSION" /\ cState' = "SECURITY_TYPES"
        /\ ~ClientGone /\ ~ClientGone' /\ cTight' = cTight /\ ClientWrites(<<Version(cMinor')>>)
    BY DEF ReadVersionMsg, ClientGone
  <1>2. /\ toClient # <<>> /\ toClient' = Tail(toClient) /\ Head(toClient).kind = "version"
        /\ UNCHANGED <<sState, sMinor, sTight>>
    BY <1>1, ClientHead
  <1>3. PICK m \in {3, 8} : toClient = <<Version(m)>>
    BY <1>1 DEF Joint, ClientSide, Legible, Readable
  <1>4. toClient' = <<>> /\ Head(toClient) # Result(FALSE) /\ Head(toClient).body = m
    <2>1. Head(toClient) = Version(m) /\ toClient' = <<>>
      BY <1>2, <1>3, Singles
    <2>2. Head(toClient) # Result(FALSE)
      BY <1>2, NoRefusal
    <2> QED
      BY <2>1, <2>2, Kinds
  <1>5. cMinor' \in {3, 7, 8}
    <2>1. viewer.minor \in {3, 7, 8}
      BY HandshakeAssumption DEF Inv, FieldsOK
    <2> QED
      BY <1>4, <2>1 DEF ReadVersionMsg
  <1>6. Legible(RefusedUnasked)'
    BY <1>1, <1>4, <1>5 DEF Legible, Readable
  <1>7. ASSUME Open, sState # "CLOSING" PROVE ServerReadable' /\ Open'
    <2>1. sState = "PROTOCOL_VERSION"
      BY <1>1, <1>7 DEF Open, AtType, AtAuthType, AtSecurity, AtQuery, AtInit, AtNormal, Behind,
                        Chosen, Choice, Inv, FieldsOK, ServerState
    <2>2. toServer = <<>> /\ ~cTight /\ ~sTight
      BY <1>1, <1>7, <2>1 DEF Open, AtVersion
    <2>3. toServer' = <<Version(cMinor')>>
      BY <1>1, <2>2, WritesFirst
    <2>4. AtVersion'
      BY <1>1, <1>2, <1>4, <1>5, <2>2, <2>3 DEF AtVersion
    <2>5. ServerReadable'
      BY <1>2, <1>5, <2>1, <2>3 DEF ServerReadable
    <2> QED
      BY <1>2, <2>1, <2>4, <2>5 DEF Open
  <1> QED
    BY <1>1, <1>4, <1>6, <1>7, ReadsJoint

\* What the viewer reads first where the server is ahead of it.
LEMMA BehindReads ==
  ASSUME NEW x \in Seq(ToClient), Behind(x), sSec \in SecType
  PROVE  /\ toServer = <<>> /\ cTight = sTight
         /\ cState \in {"SECURITY_TYPES", "TUNNELS", "AUTH_CAPS"}
         /\ cState = "SECURITY_TYPES" =>
              cMinor = 3 /\ ~cTight /\ Head(toClient) = Type33(sSec) /\ Tail(toClient) = x
         /\ cState = "TUNNELS" =>
              /\ cMinor # 3 /\ cTight /\ sSec = "None"
              /\ Head(toClient) = Tunnels /\ Tail(toClient) = Before(Caps(<<>>), x)
         /\ cState = "AUTH_CAPS" =>
              /\ cMinor # 3 /\ cTight /\ sSec = "None"
              /\ Head(toClient) = Caps(<<>>) /\ Tail(toClient) = x
  <1>1. Type33(sSec) \in ToClient /\ Tunnels \in ToClient /\ Caps(<<>>) \in ToClient
    BY Known
  <1>2. /\ Head(Before(Type33(sSec), x)) = Type33(sSec) /\ Tail(Before(Type33(sSec), x)) = x
        /\ Head(Before(Caps(<<>>), x)) = Caps(<<>>) /\ Tail(Before(Caps(<<>>), x)) = x
        /\ Before(Caps(<<>>), x) \in Seq(ToClient)
    BY <1>1, BeforeFirst
  <1>3. /\ Head(Before(Tunnels, Before(Caps(<<>>), x))) = Tunnels
        /\ Tail(Before(Tunnels, Before(Caps(<<>>), x))) = Before(Caps(<<>>), x)
    BY <1>1, <1>2, BeforeFirst
  <1> QED
    BY <1>2, <1>3 DEF Behind

\* With something to read in these states, the server is at one of these.
LEMMA Ahead ==
  ASSUME Inv, Open, sState # "CLOSING", toClient # <<>>,
         cState \in {"SECURITY_TYPES", "TUNNELS", "AUTH_CAPS"}
  PROVE  \/ sState = "SECURITY_TYPE" /\ AtType /\ cState = "SECURITY_TYPES"
         \/ sState = "TIGHT_AUTH_TYPE" /\ AtAuthType /\ cState # "SECURITY_TYPES"
         \/ sState = "SECURITY" /\ Behind(<<Challenge>>) /\ sSec = "VncAuth"
         \/ sState = "QUERYING" /\ Behind(<<>>) /\ sSec = "None"
         \/ sState = "INITIALISATION" /\ Behind(ResultOf(sMinor, sSec, TRUE)) /\ sSec = "None"
  <1>1. sState \in ServerState \ {"CLOSING"} /\ (sState = "SECURITY" => sSec = "VncAuth")
    BY DEF Inv, FieldsOK, ServerSound
  <1>2. sState \notin {"PROTOCOL_VERSION", "NORMAL"}
    BY DEF Open, AtVersion, AtNormal
  <1>3. CASE sState = "SECURITY_TYPE"
    BY <1>3, Singles DEF Open, AtType, Chosen, Choice
  <1>4. CASE sState = "TIGHT_AUTH_TYPE"
    BY <1>4, Singles DEF Open, AtAuthType, Chosen, Choice
  <1>5. CASE sState = "SECURITY"
    BY <1>1, <1>5 DEF Open, AtSecurity
  <1>6. CASE sState = "QUERYING"
    BY <1>6 DEF Open, AtQuery
  <1>7. CASE sState = "INITIALISATION"
    BY <1>7 DEF Open, AtInit
  <1> QED
    BY <1>1, <1>2, <1>3, <1>4, <1>5, <1>6, <1>7 DEF ServerState

LEMMA ReadTypeJoint == Inv /\ Joint /\ ReadSecurityType => Joint'
  <1> SUFFICES ASSUME Inv, Joint, ReadSecurityType PROVE Joint'
    OBVIOUS
  <1>1. /\ ClientReads("type33") /\ cState = "SECURITY_TYPES" /\ ~ClientGone
        /\ cMinor' = cMinor /\ cTight' = cTight
    BY DEF ReadSecurityType, ClientGone
  <1>2. /\ toClient # <<>> /\ toClient' = Tail(toClient) /\ Head(toClient).kind = "type33"
        /\ UNCHANGED <<sState, sMinor, sSec, sTight, closeReason>>
        /\ RefusedUnasked' = RefusedUnasked /\ Due' = Due
    BY <1>1, ClientHead
  <1>3. Legible(RefusedUnasked) /\ cMinor \in {3, 7, 8} /\ Head(toClient) # Result(FALSE)
    BY <1>1, <1>2, NoRefusal DEF Joint, ClientSide, Legible, Readable
  <1>4. cMinor = 3
    <2> SUFFICES ASSUME cMinor # 3 PROVE FALSE
      OBVIOUS
    <2>1. PICK l \in Offers : toClient = <<Types(l)>>
      BY <1>1, <1>2, <1>3 DEF Legible, Readable
    <2> QED
      BY <1>2, <2>1, Singles, Kinds
  <1>5. PICK t \in SecType \cup {"Invalid"}, rest \in Seq(ToClient) :
          /\ toClient = Before(Type33(t), rest)
          /\ t = "VncAuth" => rest \in { <<>>, <<Challenge>> }
          /\ t = "None" => rest \in OutcomesOf(3, RefusedUnasked)
    <2>1. <<Challenge>> \in Seq(ToClient) /\ <<>> \in Seq(ToClient)
          /\ \A o \in OutcomesOf(3, RefusedUnasked) : o \in Seq(ToClient)
      BY Known, OneMessage, EmptySeq, ResultSequences DEF OutcomesOf, Unasked
    <2>2. <<Type33("Invalid")>> = Before(Type33("Invalid"), <<>>)
      BY Concats DEF Before
    <2> QED
      <3>1. CASE toClient = <<Type33("Invalid")>>
        <4> WITNESS "Invalid" \in SecType \cup {"Invalid"}, <<>> \in Seq(ToClient)
        <4> QED
          BY <2>2, <3>1
      <3>2. CASE toClient = Before(Type33("VncAuth"), <<>>)
        <4>1. "VncAuth" \in SecType \cup {"Invalid"}
          BY DEF SecType
        <4> WITNESS "VncAuth" \in SecType \cup {"Invalid"}, <<>> \in Seq(ToClient)
        <4> QED
          BY <3>2
      <3>3. CASE toClient = Before(Type33("VncAuth"), <<Challenge>>)
        <4>1. "VncAuth" \in SecType \cup {"Invalid"}
          BY DEF SecType
        <4>2. <<Challenge>> \in Seq(ToClient)
          BY <2>1
        <4> WITNESS "VncAuth" \in SecType \cup {"Invalid"}, <<Challenge>> \in Seq(ToClient)
        <4> QED
          BY <3>3
      <3>4. CASE \E o \in OutcomesOf(3, RefusedUnasked) : toClient = Before(Type33("None"), o)
        BY <2>1, <3>4 DEF SecType
      <3> QED
        BY <1>1, <1>2, <1>3, <1>4, <3>1, <3>2, <3>3, <3>4 DEF Legible, Readable
  <1>6. Head(toClient) = Type33(t) /\ Head(toClient).body = t /\ toClient' = rest
    <2>1. Type33(t) \in ToClient
      BY Known
    <2>2. Head(toClient) = Type33(t) /\ Tail(toClient) = rest
      BY <1>5, <2>1, BeforeFirst
    <2> QED
      BY <1>2, <2>2, Kinds
  <1>7. CASE t = "Invalid"
    <2>1. cState' = "REFUSED" /\ toServer' = toServer /\ ClientGone'
      BY <1>6, <1>7 DEF ReadSecurityType, ClientGone, Choose, SecType
    <2>2. Open /\ sState # "CLOSING" => ServerReadable'
      BY <1>1, <1>2, <2>1 DEF Joint, ServerReadable, ClientReads, setup
    <2> QED
      BY <1>1, <2>1, <2>2, ReadsJoint
  <1>8. CASE t # "Invalid"
    <2>1. Choose(<<>>, t) /\ t \in SecType
      BY <1>6, <1>8 DEF ReadSecurityType
    <2>2. /\ cSec' = t /\ ~ClientGone'
          /\ \/ t = "VncAuth" /\ cState' = "SECURITY" /\ ClientWrites(<<>>)
             \/ t = "None" /\ cState' = "INITIALISATION" /\ ClientWrites(<<>> \o <<ClientInit>>)
      BY <1>4, <2>1 DEF Choose, Complete, ClientGone, ClientInit
    <2>3. Legible(RefusedUnasked)'
      <3>1. UNCHANGED <<cMinor, cTight>> /\ RefusedUnasked' = RefusedUnasked /\ toClient' = rest
        BY <1>1, <1>2, <1>6
      <3>2. CASE t = "VncAuth" /\ cState' = "SECURITY"
        BY <1>4, <1>5, <3>1, <3>2 DEF Legible, Readable
      <3>3. CASE t = "None" /\ cState' = "INITIALISATION"
        <4>1. rest = <<>> \/ (RefusedUnasked /\ rest = Unasked)
          BY <1>5, <3>3 DEF OutcomesOf
        <4> QED
          BY <1>4, <3>1, <3>3, <4>1 DEF Legible, Readable
      <3> QED
        BY <2>2, <3>2, <3>3
    <2>4. ASSUME Open, sState # "CLOSING" PROVE ServerReadable' /\ Open'
      <3>1. CASE sState = "SECURITY" /\ Behind(<<Challenge>>) /\ sSec = "VncAuth"
        <4>1. t = sSec /\ rest = <<Challenge>> /\ toServer = <<>> /\ cTight = sTight
          <5>1. <<Challenge>> \in Seq(ToClient) /\ sSec \in SecType
            BY <3>1, Known, OneMessage DEF SecType
          <5>2. /\ Head(toClient) = Type33(sSec) /\ Tail(toClient) = <<Challenge>>
                /\ toServer = <<>> /\ cTight = sTight
            BY <1>1, <3>1, <5>1, BehindReads
          <5>3. Type33(sSec).body = sSec
            BY Kinds
          <5> QED
            BY <1>2, <1>6, <5>2, <5>3
        <4>2. toServer' = <<>>
          BY <2>2, <3>1, <4>1, WritesFirst
        <4>3. AtSecurity'
          BY <1>1, <1>2, <1>6, <2>2, <2>4, <3>1, <4>1, <4>2 DEF AtSecurity, Same, Open
        <4> QED
          BY <1>1, <1>2, <2>4, <3>1, <4>2, <4>3 DEF Open, ServerReadable
      <3>2. CASE sState = "QUERYING" /\ Behind(<<>>) /\ sSec = "None"
        <4>1. t = sSec /\ rest = <<>> /\ toServer = <<>> /\ cTight = sTight
          <5>1. <<>> \in Seq(ToClient) /\ sSec \in SecType
            BY <3>2, EmptySeq DEF SecType
          <5>2. /\ Head(toClient) = Type33(sSec) /\ Tail(toClient) = <<>>
                /\ toServer = <<>> /\ cTight = sTight
            BY <1>1, <3>2, <5>1, BehindReads
          <5>3. Type33(sSec).body = sSec
            BY Kinds
          <5> QED
            BY <1>2, <1>6, <5>2, <5>3
        <4>2. toServer' = <<ClientInit>> /\ cState' = "INITIALISATION"
          BY <2>2, <3>2, <4>1, WritesFirst
        <4>3. ~Due'
          BY <1>2, <1>4, <2>4, <3>2 DEF Due, ResultDue, Open
        <4>4. AtQuery'
          BY <1>1, <1>2, <1>6, <2>2, <2>4, <3>2, <4>1, <4>2, <4>3 DEF AtQuery, Same, Open
        <4> QED
          BY <1>1, <1>2, <2>4, <3>2, <4>2, <4>4 DEF Open, ServerReadable
      <3>3. CASE sState = "INITIALISATION" /\ Behind(ResultOf(sMinor, sSec, TRUE)) /\ sSec = "None"
        <4>1. ResultOf(sMinor, sSec, TRUE) = <<>>
          BY <1>4, <2>4, <3>3 DEF ResultOf, ResultDue, Open
        <4>2. t = sSec /\ rest = <<>> /\ toServer = <<>> /\ cTight = sTight
          <5>1. <<>> \in Seq(ToClient) /\ sSec \in SecType
            BY <3>3, EmptySeq DEF SecType
          <5>2. /\ Head(toClient) = Type33(sSec) /\ Tail(toClient) = <<>>
                /\ toServer = <<>> /\ cTight = sTight
            BY <1>1, <3>3, <4>1, <5>1, BehindReads
          <5>3. Type33(sSec).body = sSec
            BY Kinds
          <5> QED
            BY <1>2, <1>6, <5>2, <5>3
        <4>3. toServer' = <<ClientInit>> /\ cState' = "INITIALISATION"
          BY <2>2, <3>3, <4>2, WritesFirst
        <4>4. AtInit'
          BY <1>1, <1>2, <1>6, <2>2, <2>4, <3>3, <4>2, <4>3 DEF AtInit, Same, Open
        <4> QED
          BY <1>1, <1>2, <2>4, <3>3, <4>3, <4>4 DEF Open, ServerReadable
      <3>4. sState # "SECURITY_TYPE"
        BY <1>4, <2>4 DEF Open, AtType
      <3> QED
        BY <1>1, <1>2, <2>4, <3>1, <3>2, <3>3, <3>4, Ahead
    <2> QED
      BY <1>1, <1>3, <2>2, <2>3, <2>4, ReadsJoint
  <1> QED
    BY <1>7, <1>8

\* The viewer writes the type it chose, and goes on as the type demands.
LEMMA ChoosesJoint ==
  ASSUME cMinor \in {7, 8}, NEW told, NEW t \in SecType, Choose(<<told>>, t), toClient' = <<>>,
         UNCHANGED <<cMinor, cTight>>
  PROVE  /\ cState' \in {"SECURITY", "SECURITY_RESULT", "INITIALISATION"}
         /\ ~ClientGone' /\ Legible(RefusedUnasked)'
         /\ toServer = <<>> =>
              Choice(t, told, cSec', cState', cMinor', toClient', toServer') /\ (toServer' = <<told>> \/ (t = "None" /\ toServer' = <<told, ClientInit>>))
  <1>1. /\ cSec' = t
        /\ \/ t = "VncAuth" /\ cState' = "SECURITY" /\ ClientWrites(<<told>>)
           \/ t = "None" /\ cMinor = 8 /\ cState' = "SECURITY_RESULT" /\ ClientWrites(<<told>>)
           \/ t = "None" /\ cMinor = 7 /\ cState' = "INITIALISATION" /\ ClientWrites(<<told>> \o <<ClientInit>>)
    BY DEF Choose, Complete, ClientInit
  <1>2. cState' \in {"SECURITY", "SECURITY_RESULT", "INITIALISATION"} /\ ~ClientGone'
    BY <1>1 DEF ClientGone
  <1>3. <<>> \in Outcomes
    BY DEF Outcomes
  <1>4. Legible(RefusedUnasked)'
    BY <1>2, <1>3 DEF Legible, Readable
  <1>5. ASSUME toServer = <<>>
        PROVE  Choice(t, told, cSec', cState', cMinor', toClient', toServer') /\ (toServer' = <<told>> \/ (t = "None" /\ toServer' = <<told, ClientInit>>))
    <2>1. CASE t = "VncAuth" /\ cState' = "SECURITY" /\ ClientWrites(<<told>>)
      BY <1>1, <1>5, <2>1, WritesFirst DEF Chosen, Choice
    <2>2. CASE t = "None" /\ cMinor = 8 /\ cState' = "SECURITY_RESULT" /\ ClientWrites(<<told>>)
      BY <1>1, <1>5, <2>2, WritesFirst DEF Chosen, Choice
    <2>3. CASE t = "None" /\ cMinor = 7 /\ cState' = "INITIALISATION" /\ ClientWrites(<<told>> \o <<ClientInit>>)
      BY <1>1, <1>5, <2>3, WritesFirst DEF Chosen, Choice
    <2> QED
      BY <1>1, <2>1, <2>2, <2>3
  <1> QED
    BY <1>2, <1>4, <1>5

LEMMA ReadTypesJoint == Inv /\ Joint /\ ReadSecurityTypes => Joint'
  <1> SUFFICES ASSUME Inv, Joint, ReadSecurityTypes PROVE Joint'
    OBVIOUS
  <1>1. ClientReads("types") /\ cState = "SECURITY_TYPES" /\ ~ClientGone /\ cMinor' = cMinor
    BY DEF ReadSecurityTypes, ClientGone
  <1>2. /\ toClient # <<>> /\ toClient' = Tail(toClient) /\ Head(toClient).kind = "types"
        /\ UNCHANGED <<sState, sMinor, sSec, sTight, closeReason>>
    BY <1>1, ClientHead
  <1>3. Legible(RefusedUnasked) /\ cMinor \in {3, 7, 8} /\ Head(toClient) # Result(FALSE)
    BY <1>1, <1>2, NoRefusal DEF Joint, ClientSide, Legible, Readable
  <1>4. cMinor # 3
    <2> SUFFICES ASSUME cMinor = 3 PROVE FALSE
      OBVIOUS
    <2>1. \A t \in SecType \cup {"Invalid"} : \A rest \in Seq(ToClient) :
            Head(Before(Type33(t), rest)).kind # "types"
      <3> SUFFICES ASSUME NEW t \in SecType \cup {"Invalid"}, NEW rest \in Seq(ToClient)
                   PROVE  Head(Before(Type33(t), rest)).kind # "types"
        OBVIOUS
      <3>1. Type33(t) \in ToClient
        BY Known
      <3>2. Head(Before(Type33(t), rest)) = Type33(t)
        BY <3>1, BeforeFirst
      <3> QED
        BY <3>2, Kinds
    <2>2. <<>> \in Seq(ToClient) /\ <<Challenge>> \in Seq(ToClient)
          /\ \A o \in OutcomesOf(3, RefusedUnasked) : o \in Seq(ToClient)
      BY Known, OneMessage, EmptySeq, ResultSequences DEF OutcomesOf, Unasked
    <2>3. <<Type33("Invalid")>> = Before(Type33("Invalid"), <<>>)
      BY Concats DEF Before
    <2>4. \E t \in SecType \cup {"Invalid"} : \E rest \in Seq(ToClient) : toClient = Before(Type33(t), rest)
      <3>1. CASE toClient = Before(Type33("Invalid"), <<>>)
        BY <2>2, <3>1
      <3>2. CASE toClient = Before(Type33("VncAuth"), <<>>)
        BY <2>2, <3>2 DEF SecType
      <3>3. CASE toClient = Before(Type33("VncAuth"), <<Challenge>>)
        BY <2>2, <3>3 DEF SecType
      <3>4. CASE \E o \in OutcomesOf(3, RefusedUnasked) : toClient = Before(Type33("None"), o)
        BY <2>2, <3>4 DEF SecType
      <3> QED
        BY <1>1, <1>2, <1>3, <2>3, <3>1, <3>2, <3>3, <3>4 DEF Legible, Readable
    <2> QED
      BY <1>2, <2>1, <2>4
  <1>5. PICK l \in Offers : toClient = <<Types(l)>>
    BY <1>1, <1>2, <1>3, <1>4 DEF Legible, Readable
  <1>6. Head(toClient).body = Append(l, "Tight") /\ toClient' = <<>>
    BY <1>2, <1>5, Singles, Kinds
  <1>7. ASSUME Open, sState # "CLOSING"
        PROVE  /\ sState = "SECURITY_TYPE" /\ ~sTight /\ ~cTight /\ toServer = <<>> /\ cMinor = sMinor
    <2>1. sState = "SECURITY_TYPE" /\ AtType
      <3>1. \A x \in Seq(ToClient) : ~Behind(x)
        BY <1>1, <1>4 DEF Behind
      <3>2. <<Challenge>> \in Seq(ToClient) /\ <<>> \in Seq(ToClient)
            /\ ResultOf(sMinor, sSec, TRUE) \in Seq(ToClient)
        BY Known, OneMessage, EmptySeq, ResultOfOutcome, ResultSequences
      <3> QED
        BY <1>1, <1>2, <1>7, <3>1, <3>2, Ahead
    <2> QED
      BY <1>1, <1>7, <2>1 DEF Open, AtType, Chosen, Choice
  <1> DEFINE list == Head(toClient).body
  <1>8. CASE /\ ClientWrites(<<Message("type", "Tight")>>)
             /\ cTight' = TRUE /\ cState' = "TUNNELS"
    <2>1. ~ClientGone' /\ Legible(RefusedUnasked)'
      BY <1>1, <1>3, <1>4, <1>6, <1>8 DEF ClientGone, Legible, Readable
    <2>2. ASSUME Open, sState # "CLOSING" PROVE ServerReadable' /\ Open'
      <3>1. toServer' = <<Type("Tight")>>
        BY <1>7, <1>8, <2>2, WritesFirst DEF Type
      <3>2. AtType'
        BY <1>1, <1>2, <1>4, <1>6, <1>7, <1>8, <2>2, <3>1 DEF AtType
      <3>3. sState' = "SECURITY_TYPE" /\ sMinor' = cMinor'
        BY <1>1, <1>2, <1>7, <2>2
      <3> QED
        BY <3>1, <3>2, <3>3 DEF Open, ServerReadable
    <2> QED
      BY <1>1, <1>3, <2>1, <2>2, ReadsJoint
  <1>9. CASE /\ AnyKnown(list)
             /\ Choose(<<Message("type", FirstKnown(list))>>, FirstKnown(list))
             /\ UNCHANGED cTight
    <2> DEFINE t == FirstKnown(list)
    <2>1. t \in SecType
      <3>1. l \in Seq(SecType)
        BY HandshakeAssumption
      <3> QED
        BY <1>6, <1>9, <3>1, FirstKnownTyped
    <2>2. Choose(<<Type(t)>>, t)
      BY <1>9 DEF Type
    <2> HIDE DEF t
    <2>3. /\ cState' \in {"SECURITY", "SECURITY_RESULT", "INITIALISATION"}
          /\ ~ClientGone' /\ Legible(RefusedUnasked)'
          /\ toServer = <<>> =>
               Choice(t, Type(t), cSec', cState', cMinor', toClient', toServer')
               /\ (toServer' = <<Type(t)>> \/ (t = "None" /\ toServer' = <<Type(t), ClientInit>>))
      <3>1. cMinor \in {7, 8} /\ UNCHANGED <<cMinor, cTight>>
        BY <1>1, <1>3, <1>4, <1>9
      <3> QED
        BY <1>6, <2>1, <2>2, <3>1, ChoosesJoint
    <2>4. ASSUME Open, sState # "CLOSING" PROVE ServerReadable' /\ Open'
      <3>1. /\ sState' = "SECURITY_TYPE" /\ sMinor' = cMinor' /\ cMinor' # 3 /\ ~sTight' /\ ~cTight'
            /\ Choice(t, Type(t), cSec', cState', cMinor', toClient', toServer')
            /\ toServer' = <<Type(t)>> \/ (t = "None" /\ toServer' = <<Type(t), ClientInit>>)
        BY <1>1, <1>2, <1>4, <1>7, <1>9, <2>3, <2>4
      <3>2. AtType'
        BY <2>1, <3>1 DEF AtType, Chosen
      <3>3. ServerReadable'
        BY <2>1, <3>1 DEF ServerReadable
      <3> QED
        BY <3>1, <3>2, <3>3 DEF Open
    <2> QED
      BY <1>1, <1>3, <2>3, <2>4, ReadsJoint
  <1>10. CASE Fails /\ UNCHANGED <<cSec, cTight, toServer>>
    <2>1. ClientGone'
      BY <1>10 DEF Fails, ClientGone
    <2>2. UNCHANGED <<serverVars, toServer, knows>>
      BY <1>1, <1>10 DEF ClientReads, setup
    <2> QED
      BY <2>1, <2>2, LeavesJoint
  <1> QED
    BY <1>8, <1>9, <1>10 DEF ReadSecurityTypes, list

\* What a viewer finds that has said it speaks the Tight extensions.
LEMMA TunnelsRead ==
  ASSUME Legible(RefusedUnasked), cState = "TUNNELS", toClient # <<>>
  PROVE  \/ Tail(toClient) = <<>>
         \/ \E l \in Offers \ {<<>>} : Tail(toClient) = <<Caps(l)>>
         \/ \E o \in OutcomesOf(cMinor, RefusedUnasked) : Tail(toClient) = Before(Caps(<<>>), o)
  <1>1. CASE toClient = <<Tunnels>>
    BY <1>1, Singles
  <1>2. ASSUME NEW l \in Offers \ {<<>>}, toClient = Before(Tunnels, <<Caps(l)>>)
        PROVE  Tail(toClient) = <<Caps(l)>>
    <2>1. <<Caps(l)>> \in Seq(ToClient) /\ Tunnels \in ToClient
      BY Known, OneMessage
    <2> QED
      BY <1>2, <2>1, BeforeFirst
  <1>3. ASSUME NEW o \in OutcomesOf(cMinor, RefusedUnasked),
               toClient = Before(Tunnels, Before(Caps(<<>>), o))
        PROVE  Tail(toClient) = Before(Caps(<<>>), o)
    <2>1. o \in Seq(ToClient) /\ Caps(<<>>) \in ToClient /\ Tunnels \in ToClient
      BY Known, ResultSequences DEF OutcomesOf, Unasked, Outcomes
    <2>2. Before(Caps(<<>>), o) \in Seq(ToClient)
      BY <2>1, BeforeFirst
    <2> QED
      BY <1>3, <2>1, <2>2, BeforeFirst
  <1> QED
    BY <1>1, <1>2, <1>3 DEF Legible, Readable

LEMMA TunnelsJoint == Inv /\ Joint /\ SetupTunneling => Joint'
  <1> SUFFICES ASSUME Inv, Joint, SetupTunneling PROVE Joint'
    OBVIOUS
  <1>1. /\ ClientReads("tunnels") /\ cState = "TUNNELS" /\ cState' = "AUTH_CAPS" /\ ~ClientGone
        /\ ~ClientGone' /\ UNCHANGED <<cMinor, cSec, cTight, toServer>>
    BY DEF SetupTunneling, ClientGone
  <1>2. /\ toClient # <<>> /\ toClient' = Tail(toClient) /\ Head(toClient).kind = "tunnels"
        /\ UNCHANGED <<knows, sState, sMinor, sSec, sTight, closeReason>>
        /\ RefusedUnasked' = RefusedUnasked
    BY <1>1, ClientHead
  <1>3. /\ Legible(RefusedUnasked) /\ cMinor \in {3, 7, 8} /\ cMinor # 3
        /\ Head(toClient) # Result(FALSE)
    BY <1>1, <1>2, NoRefusal DEF Joint, ClientSide, Legible, Readable
  <1>4. Legible(RefusedUnasked)'
    BY <1>1, <1>2, <1>3, TunnelsRead DEF Legible, Readable
  <1>5. ASSUME Open, sState # "CLOSING" PROVE ServerReadable' /\ Open'
    <2>1. ServerReadable'
      BY <1>1, <1>2, <1>5 DEF Joint, ServerReadable
    <2>2. ASSUME NEW x \in Seq(ToClient), Behind(x), sSec = "None"
          PROVE  /\ toServer = <<>> /\ cTight = sTight /\ cTight /\ toClient' = Before(Caps(<<>>), x)
      <3>1. sSec \in SecType
        BY <2>2 DEF SecType
      <3> QED
        BY <1>1, <1>2, <2>2, <3>1, BehindReads
    <2>3. CASE sState = "TIGHT_AUTH_TYPE" /\ AtAuthType
      <3>1. /\ cMinor # 3 /\ sTight /\ cTight /\ toServer = <<>>
            /\ \E l \in Offers \ {<<>>} : toClient = Before(Tunnels, <<Caps(l)>>)
        BY <1>1, <1>2, <2>3 DEF AtAuthType, Chosen, Choice
      <3>2. PICK l \in Offers \ {<<>>} : toClient = Before(Tunnels, <<Caps(l)>>)
        BY <3>1
      <3>3. toClient' = <<Caps(l)>>
        <4>1. <<Caps(l)>> \in Seq(ToClient) /\ Tunnels \in ToClient
          BY Known, OneMessage
        <4> QED
          BY <1>2, <3>2, <4>1, BeforeFirst
      <3>4. AtAuthType'
        BY <1>1, <1>2, <3>1, <3>3 DEF AtAuthType
      <3> QED
        BY <1>1, <1>2, <1>5, <2>1, <2>3, <3>4 DEF Open
    <2>4. CASE sState = "QUERYING" /\ Behind(<<>>) /\ sSec = "None"
      <3>1. Behind(<<>>)'
        BY <1>1, <1>2, <1>3, <2>2, <2>4, EmptySeq DEF Behind
      <3> QED
        BY <1>1, <1>2, <1>5, <2>1, <2>4, <3>1 DEF Open, AtQuery
    <2>5. CASE sState = "INITIALISATION" /\ Behind(ResultOf(sMinor, sSec, TRUE)) /\ sSec = "None"
      <3>1. ResultOf(sMinor, sSec, TRUE) \in Seq(ToClient)
        BY ResultOfOutcome, ResultSequences
      <3>2. ResultOf(sMinor, sSec, TRUE)' = ResultOf(sMinor, sSec, TRUE)
        BY <1>2 DEF ResultOf
      <3>3. Behind(ResultOf(sMinor, sSec, TRUE))'
        BY <1>1, <1>2, <1>3, <2>2, <2>5, <3>1, <3>2 DEF Behind
      <3> QED
        BY <1>1, <1>2, <1>5, <2>1, <2>5, <3>3 DEF Open, AtInit
    <2>6. ~Behind(<<Challenge>>) \/ sSec # "VncAuth"
      BY <1>1 DEF Behind
    <2> QED
      BY <1>1, <1>2, <1>5, <2>3, <2>4, <2>5, <2>6, Ahead
  <1> QED
    BY <1>1, <1>3, <1>4, <1>5, ReadsJoint

LEMMA CapsJoint == Inv /\ Joint /\ NegotiateAuthenticationTight => Joint'
  <1> SUFFICES ASSUME Inv, Joint, NegotiateAuthenticationTight PROVE Joint'
    OBVIOUS
  <1>1. /\ ClientReads("caps") /\ cState = "AUTH_CAPS" /\ ~ClientGone
        /\ UNCHANGED <<cMinor, cTight>>
    BY DEF NegotiateAuthenticationTight, ClientGone
  <1>2. /\ toClient # <<>> /\ toClient' = Tail(toClient) /\ Head(toClient).kind = "caps"
        /\ UNCHANGED <<knows, sState, sMinor, sSec, sTight, closeReason>>
        /\ RefusedUnasked' = RefusedUnasked
    BY <1>1, ClientHead
  <1>3. /\ Legible(RefusedUnasked) /\ cMinor \in {7, 8} /\ Head(toClient) # Result(FALSE)
    BY <1>1, <1>2, NoRefusal DEF Joint, ClientSide, Legible, Readable
  <1> DEFINE list == Head(toClient).body
  <1>4. \/ list = <<>> /\ toClient' \in OutcomesOf(cMinor, RefusedUnasked)
        \/ list \in Offers \ {<<>>} /\ toClient' = <<>> /\ toClient = <<Caps(list)>>
    <2>1. ASSUME NEW l \in Offers \ {<<>>}, toClient = <<Caps(l)>>
          PROVE  list = l /\ toClient' = <<>>
      BY <1>2, <2>1, Singles, Kinds
    <2>2. ASSUME NEW o \in OutcomesOf(cMinor, RefusedUnasked), toClient = Before(Caps(<<>>), o)
          PROVE  list = <<>> /\ toClient' = o
      <3>1. o \in Seq(ToClient) /\ Caps(<<>>) \in ToClient
        BY Known, ResultSequences DEF OutcomesOf, Unasked, Outcomes
      <3>2. Head(toClient) = Caps(<<>>) /\ Tail(toClient) = o
        BY <2>2, <3>1, BeforeFirst
      <3> QED
        BY <1>2, <3>2, Kinds
    <2> QED
      BY <1>1, <1>2, <1>3, <2>1, <2>2 DEF Legible, Readable
  <1>5. CASE list = <<>> /\ Choose(<<>>, "None")
    <2>1. /\ cSec' = "None" /\ ~ClientGone'
          /\ \/ cMinor = 8 /\ cState' = "SECURITY_RESULT" /\ ClientWrites(<<>>)
             \/ cMinor = 7 /\ cState' = "INITIALISATION" /\ ClientWrites(<<>> \o <<ClientInit>>)
      BY <1>3, <1>5 DEF Choose, Complete, ClientInit, ClientGone
    <2>2. toClient' \in OutcomesOf(cMinor, RefusedUnasked)
      BY <1>4, <1>5
    <2>3. Legible(RefusedUnasked)'
      <3>1. CASE cMinor = 8
        BY <1>1, <2>1, <2>2, <3>1 DEF Legible, Readable, OutcomesOf
      <3>2. CASE cMinor = 7
        <4>1. toClient' = <<>> \/ (RefusedUnasked /\ toClient' = Unasked)
          BY <2>2, <3>2 DEF OutcomesOf
        <4> QED
          BY <1>1, <1>2, <2>1, <3>2, <4>1 DEF Legible, Readable
      <3> QED
        BY <1>3, <3>1, <3>2
    <2>4. ASSUME Open, sState # "CLOSING" PROVE ServerReadable' /\ Open'
      <3>1. ASSUME NEW x \in Seq(ToClient), Behind(x), sSec = "None", cMinor = sMinor
            PROVE  /\ Same' /\ toClient' = x
                   /\ \/ Due' /\ cState' = "SECURITY_RESULT" /\ toServer' = <<>>
                      \/ ~Due' /\ cState' = "INITIALISATION" /\ toServer' = <<ClientInit>>
        <4>1. toServer = <<>> /\ cTight = sTight /\ toClient' = x
          <5>1. sSec \in SecType
            BY <3>1 DEF SecType
          <5> QED
            BY <1>1, <1>2, <3>1, <5>1, BehindReads
        <4>2. Same'
          BY <1>1, <1>2, <2>1, <3>1, <4>1 DEF Same
        <4>3. Due' <=> cMinor = 8
          BY <1>2, <1>3, <3>1 DEF Due, ResultDue
        <4>4. \/ cMinor = 8 /\ cState' = "SECURITY_RESULT" /\ toServer' = <<>>
              \/ cMinor = 7 /\ cState' = "INITIALISATION" /\ toServer' = <<ClientInit>>
          BY <2>1, <4>1, WritesFirst
        <4> QED
          BY <4>1, <4>2, <4>3, <4>4
      <3>2. CASE sState = "QUERYING" /\ Behind(<<>>) /\ sSec = "None"
        <4>1. cMinor = sMinor /\ <<>> \in Seq(ToClient)
          BY <2>4, <3>2, EmptySeq DEF Open
        <4>2. /\ Same' /\ toClient' = <<>>
              /\ \/ Due' /\ cState' = "SECURITY_RESULT" /\ toServer' = <<>>
                 \/ ~Due' /\ cState' = "INITIALISATION" /\ toServer' = <<ClientInit>>
          BY <3>1, <3>2, <4>1
        <4> QED
          BY <1>1, <1>2, <3>2, <4>1, <4>2 DEF Open, ServerReadable, AtQuery
      <3>3. CASE sState = "INITIALISATION" /\ Behind(ResultOf(sMinor, sSec, TRUE)) /\ sSec = "None"
        <4>1. cMinor = sMinor /\ ResultOf(sMinor, sSec, TRUE) \in Seq(ToClient)
          BY <2>4, <3>3, ResultOfOutcome, ResultSequences DEF Open
        <4>2. /\ Same' /\ toClient' = ResultOf(sMinor, sSec, TRUE)
              /\ \/ Due' /\ cState' = "SECURITY_RESULT" /\ toServer' = <<>>
                 \/ ~Due' /\ cState' = "INITIALISATION" /\ toServer' = <<ClientInit>>
          BY <3>1, <3>3, <4>1
        <4>3. ResultOf(sMinor, sSec, TRUE) = IF Due' THEN <<Result(TRUE)>> ELSE <<>>
          BY <1>2 DEF Due, ResultOf
        <4>4. AtInit'
          BY <4>2, <4>3 DEF AtInit
        <4> QED
          BY <1>1, <1>2, <3>3, <4>1, <4>2, <4>4 DEF Open, ServerReadable
      <3>4. ~Behind(<<Challenge>>) \/ sSec # "VncAuth"
        BY <1>1 DEF Behind
      <3>5. sState # "TIGHT_AUTH_TYPE"
        <4> SUFFICES ASSUME sState = "TIGHT_AUTH_TYPE" PROVE FALSE
          OBVIOUS
        <4>1. PICK l \in Offers \ {<<>>} : toClient = <<Caps(l)>>
          BY <1>1, <1>2, <2>4 DEF Open, AtAuthType, Chosen, Choice
        <4> QED
          BY <1>5, <4>1, Singles, Kinds
      <3> QED
        BY <1>1, <1>2, <2>4, <3>2, <3>3, <3>4, <3>5, Ahead
    <2> QED
      BY <1>1, <1>3, <2>1, <2>3, <2>4, ReadsJoint
  <1>6. CASE list # <<>> /\ Choose(<<Message("authType", FirstKnown(list))>>, FirstKnown(list))
    <2> DEFINE t == FirstKnown(list)
    <2>1. t \in SecType
      <3>1. list \in Seq(SecType)
        BY <1>4, <1>6, HandshakeAssumption
      <3> QED
        BY <1>6, <3>1, FirstKnownTyped
    <2>2. Choose(<<AuthType(t)>>, t)
      BY <1>6 DEF AuthType
    <2> HIDE DEF t
    <2>3. toClient' = <<>> /\ toClient = <<Caps(list)>> /\ list \in Offers \ {<<>>}
      BY <1>4, <1>6
    <2>4. /\ cState' \in {"SECURITY", "SECURITY_RESULT", "INITIALISATION"}
          /\ ~ClientGone' /\ Legible(RefusedUnasked)'
          /\ toServer = <<>> =>
               Choice(t, AuthType(t), cSec', cState', cMinor', toClient', toServer')
               /\ (toServer' = <<AuthType(t)>> \/ (t = "None" /\ toServer' = <<AuthType(t), ClientInit>>))
      BY <1>1, <1>3, <2>1, <2>2, <2>3, ChoosesJoint
    <2>5. ASSUME Open, sState # "CLOSING" PROVE ServerReadable' /\ Open'
      <3>1. sState = "TIGHT_AUTH_TYPE" /\ AtAuthType
        <4>1. ASSUME NEW x \in Seq(ToClient), Behind(x), sSec \in SecType PROVE FALSE
          <5>1. Head(toClient) = Caps(<<>>)
            BY <1>1, <4>1, BehindReads
          <5>2. Head(toClient) = Caps(list)
            BY <2>3, Singles
          <5> QED
            BY <1>6, <5>1, <5>2, Kinds
        <4>2. <<Challenge>> \in Seq(ToClient) /\ <<>> \in Seq(ToClient)
              /\ ResultOf(sMinor, sSec, TRUE) \in Seq(ToClient)
          BY Known, OneMessage, EmptySeq, ResultOfOutcome, ResultSequences
        <4> QED
          BY <1>1, <1>2, <2>5, <4>1, <4>2, Ahead DEF SecType
      <3>2. toServer = <<>> /\ sTight /\ cTight /\ cMinor # 3 /\ cMinor = sMinor
        BY <1>1, <1>2, <2>5, <3>1 DEF Open, AtAuthType, Chosen, Choice
      <3>3. /\ sState' = "TIGHT_AUTH_TYPE" /\ sMinor' = cMinor' /\ cMinor' # 3 /\ sTight' /\ cTight'
            /\ Choice(t, AuthType(t), cSec', cState', cMinor', toClient', toServer')
            /\ toServer' = <<AuthType(t)>> \/ (t = "None" /\ toServer' = <<AuthType(t), ClientInit>>)
        BY <1>1, <1>2, <2>4, <3>1, <3>2
      <3>4. AtAuthType'
        BY <2>1, <3>3 DEF AtAuthType, Chosen
      <3>5. ServerReadable'
        BY <2>1, <3>3 DEF ServerReadable
      <3> QED
        BY <3>3, <3>4, <3>5 DEF Open
    <2> QED
      BY <1>1, <1>3, <2>4, <2>5, ReadsJoint
  <1> QED
    BY <1>5, <1>6 DEF NegotiateAuthenticationTight, list

LEMMA ChallengeJoint == Inv /\ Joint /\ RespondToChallenge => Joint'
  <1> SUFFICES ASSUME Inv, Joint, RespondToChallenge PROVE Joint'
    OBVIOUS
  <1>1. /\ ClientReads("challenge") /\ cState = "SECURITY" /\ cState' = "SECURITY_RESULT"
        /\ ~ClientGone /\ ~ClientGone' /\ UNCHANGED <<cMinor, cSec, cTight>>
        /\ ClientWrites(<<Response(knows)>>)
    BY DEF RespondToChallenge, ClientGone, Response
  <1>2. /\ toClient # <<>> /\ toClient' = Tail(toClient) /\ Head(toClient).kind = "challenge"
        /\ UNCHANGED <<knows, sState, sMinor, sSec, sTight>>
    BY <1>1, ClientHead
  <1>3. /\ toClient = <<Challenge>> /\ cMinor \in {3, 7, 8} /\ Head(toClient) # Result(FALSE)
    BY <1>1, <1>2, NoRefusal DEF Joint, ClientSide, Legible, Readable
  <1>4. toClient' = <<>> /\ <<>> \in Outcomes
    BY <1>2, <1>3, Singles DEF Outcomes
  <1>5. Legible(RefusedUnasked)'
    BY <1>1, <1>3, <1>4 DEF Legible, Readable
  <1>6. ASSUME Open, sState # "CLOSING" PROVE ServerReadable' /\ Open'
    <2>1. sState = "SECURITY" /\ Same /\ toServer = <<>> /\ sMinor = cMinor
      BY <1>1, <1>2, <1>6 DEF Open, AtVersion, AtType, AtAuthType, AtSecurity, AtQuery, AtInit,
                              AtNormal, Behind, Chosen, Choice, Inv, FieldsOK, ServerState
    <2>2. toServer' = <<Response(knows)>> /\ knows' = knows
      BY <1>1, <1>2, <2>1, WritesFirst
    <2>3. AtSecurity'
      BY <1>1, <1>2, <1>4, <2>1, <2>2 DEF AtSecurity, Same
    <2> QED
      BY <1>1, <1>2, <2>1, <2>2, <2>3 DEF Open, ServerReadable
  <1> QED
    BY <1>1, <1>3, <1>5, <1>6, ReadsJoint

LEMMA ResultJoint == Inv /\ Joint /\ ReadSecurityResult => Joint'
  <1> SUFFICES ASSUME Inv, Joint, ReadSecurityResult PROVE Joint'
    OBVIOUS
  <1>1. /\ ClientReads("result") /\ cState = "SECURITY_RESULT" /\ ~ClientGone
        /\ UNCHANGED <<cMinor, cSec, cTight>>
    BY DEF ReadSecurityResult, ClientGone
  <1>2. /\ toClient # <<>> /\ toClient' = Tail(toClient)
        /\ UNCHANGED <<knows, sState, sMinor, sSec, sTight, closeReason>> /\ Due' = Due
    BY <1>1, ClientHead
  <1>3. cMinor \in {3, 7, 8} /\ toClient \in Outcomes
    BY <1>1 DEF Joint, ClientSide, Legible, Readable
  <1>4. CASE Head(toClient).body /\ Complete(<<>>)
    <2>1. Result(FALSE).body = FALSE
      BY Kinds
    <2>2. toClient = <<Result(TRUE)>>
      BY <1>2, <1>3, <1>4, <2>1, Singles DEF Outcomes
    <2>3. toClient' = <<>> /\ Head(toClient) # Result(FALSE)
      BY <1>2, <1>4, <2>1, <2>2, Singles
    <2>4. cState' = "INITIALISATION" /\ ClientWrites(<<>> \o <<ClientInit>>) /\ ~ClientGone'
      BY <1>4 DEF Complete, ClientInit, ClientGone
    <2>5. Legible(RefusedUnasked)'
      BY <1>1, <1>3, <2>3, <2>4 DEF Legible, Readable
    <2>6. ASSUME Open, sState # "CLOSING" PROVE ServerReadable' /\ Open'
      <3>1. /\ sState = "INITIALISATION" /\ Same /\ toServer = <<>> /\ sMinor = cMinor
        BY <1>1, <1>2, <2>2, <2>6, Singles
           DEF Open, AtVersion, AtType, AtAuthType, AtSecurity, AtQuery, AtInit,
               AtNormal, Behind, Chosen, Choice, Inv, FieldsOK, ServerState
      <3>2. toServer' = <<ClientInit>>
        BY <2>4, <3>1, WritesFirst
      <3>3. AtInit'
        BY <1>1, <1>2, <2>3, <2>4, <3>1, <3>2 DEF AtInit, Same
      <3> QED
        BY <1>1, <1>2, <3>1, <3>2, <3>3 DEF Open, ServerReadable
    <2> QED
      BY <1>1, <2>3, <2>4, <2>5, <2>6, ReadsJoint
  <1>5. CASE cState' = "REFUSED" /\ UNCHANGED toServer
    <2>1. ClientGone'
      BY <1>5 DEF ClientGone
    <2>2. UNCHANGED <<serverVars, toServer, knows>>
      BY <1>1, <1>5 DEF ClientReads, setup
    <2> QED
      BY <2>1, <2>2, LeavesJoint
  <1> QED
    BY <1>4, <1>5 DEF ReadSecurityResult

LEMMA ServerInitJoint == Inv /\ Joint /\ ReadServerInit => Joint'
  <1> SUFFICES ASSUME Inv, Joint, ReadServerInit PROVE Joint'
    OBVIOUS
  <1>1. /\ ClientReads("serverInit") /\ cState = "INITIALISATION" /\ ~ClientGone /\ ~ClientGone'
        /\ cState' = IF cTight THEN "CAPABILITIES" ELSE "NORMAL"
        /\ UNCHANGED <<cMinor, cSec, cTight, toServer>>
    BY DEF ReadServerInit, ClientGone
  <1>2. /\ toClient # <<>> /\ toClient' = Tail(toClient) /\ Head(toClient).kind = "serverInit"
        /\ UNCHANGED <<knows, sState, sMinor, sSec, sTight, closeReason>>
    BY <1>1, ClientHead
  <1>3. /\ cMinor \in {3, 7, 8} /\ Head(toClient) # Result(FALSE)
        /\ toClient = SessionOf(cTight) \/ toClient = Unasked
    BY <1>1, <1>2, NoRefusal DEF Joint, ClientSide, Legible, Readable
  <1>4. toClient = SessionOf(cTight)
    BY <1>3, Singles DEF Unasked
  <1>5. toClient' = IF cTight THEN <<Interaction>> ELSE <<>>
    BY <1>2, <1>4, Singles DEF SessionOf
  <1>6. Legible(RefusedUnasked)'
    <2>1. CASE cTight
      BY <1>1, <1>3, <1>5, <2>1 DEF Legible, Readable
    <2>2. CASE ~cTight
      BY <1>1, <1>3, <1>5, <2>2 DEF Legible, Readable
    <2> QED
      BY <2>1, <2>2
  <1>7. ASSUME Open, sState # "CLOSING" PROVE ServerReadable' /\ Open'
    <2>1. sState = "NORMAL" /\ Same /\ toServer = <<>> /\ sMinor = cMinor
      BY <1>1, <1>2, <1>7 DEF Open, AtVersion, AtType, AtAuthType, AtSecurity, AtQuery, AtInit,
                              AtNormal, Behind, Chosen, Choice, Inv, FieldsOK, ServerState
    <2>2. AtNormal'
      BY <1>1, <1>2, <1>5, <2>1 DEF AtNormal, Same
    <2> QED
      BY <1>1, <1>2, <2>1, <2>2 DEF Open, ServerReadable
  <1> QED
    BY <1>1, <1>3, <1>6, <1>7, ReadsJoint

LEMMA InteractionJoint == Inv /\ Joint /\ ReadInteractionCaps => Joint'
  <1> SUFFICES ASSUME Inv, Joint, ReadInteractionCaps PROVE Joint'
    OBVIOUS
  <1>1. /\ ClientReads("interaction") /\ cState = "CAPABILITIES" /\ ~ClientGone /\ ~ClientGone'
        /\ cState' = "NORMAL" /\ UNCHANGED <<cMinor, cSec, cTight, toServer>>
    BY DEF ReadInteractionCaps, ClientGone
  <1>2. /\ toClient # <<>> /\ toClient' = Tail(toClient) /\ Head(toClient).kind = "interaction"
        /\ UNCHANGED <<knows, sState, sMinor, sSec, sTight, closeReason>>
    BY <1>1, ClientHead
  <1>3. cMinor \in {3, 7, 8} /\ Head(toClient) # Result(FALSE) /\ toClient = <<Interaction>>
    BY <1>1, <1>2, NoRefusal DEF Joint, ClientSide, Legible, Readable
  <1>4. toClient' = <<>>
    BY <1>2, <1>3, Singles
  <1>5. Legible(RefusedUnasked)'
    BY <1>1, <1>3, <1>4 DEF Legible, Readable
  <1>6. ASSUME Open, sState # "CLOSING" PROVE ServerReadable' /\ Open'
    <2>1. sState = "NORMAL" /\ Same /\ toServer = <<>> /\ sMinor = cMinor
      BY <1>1, <1>2, <1>6 DEF Open, AtVersion, AtType, AtAuthType, AtSecurity, AtQuery, AtInit,
                              AtNormal, Behind, Chosen, Choice, Inv, FieldsOK, ServerState
    <2>2. AtNormal'
      BY <1>1, <1>2, <1>4, <2>1 DEF AtNormal, Same
    <2> QED
      BY <1>1, <1>2, <2>1, <2>2 DEF Open, ServerReadable
  <1> QED
    BY <1>1, <1>3, <1>5, <1>6, ReadsJoint

-----------------------------------------------------------------------------
(* Every step keeps both ends together.                                    *)

\* A step that changes neither end, nor what is on its way between them.
LEMMA StillJoint ==
  ASSUME Joint, UNCHANGED <<knows, serverVars, clientVars, toClient, toServer>>
  PROVE  Joint'
  <1>1. /\ UNCHANGED <<knows, sState, sMinor, sSec, sTight, closeReason, toServer>>
        /\ UNCHANGED <<cState, cMinor, cSec, cTight, toClient>>
    BY DEF serverVars, clientVars
  <1>2. Due' = Due /\ RefusedUnasked' = RefusedUnasked /\ Same' = Same
    BY <1>1 DEF Due, RefusedUnasked, Same
  <1>3. ClientGone' = ClientGone
    BY <1>1 DEF ClientGone
  <1>4. Legible(RefusedUnasked) => Legible(RefusedUnasked)'
    BY <1>1, <1>2 DEF Legible
  <1>5. RefusalTold => RefusalTold'
    BY <1>1, <1>2, <1>3 DEF RefusalTold, Due
  <1>6. ServerReadable => ServerReadable'
    BY <1>1 DEF ServerReadable
  <1>7. ResultOf(sMinor, sSec, TRUE)' = ResultOf(sMinor, sSec, TRUE)
    BY <1>1 DEF ResultOf
  <1>8. /\ Behind(<<>>)' <=> Behind(<<>>)
        /\ Behind(<<Challenge>>)' <=> Behind(<<Challenge>>)
        /\ Behind(ResultOf(sMinor, sSec, TRUE))' <=> Behind(ResultOf(sMinor, sSec, TRUE))
    BY <1>1, <1>7 DEF Behind
  <1>9. AtVersion' <=> AtVersion
    BY <1>1 DEF AtVersion
  <1>10. AtType => AtType'
    BY <1>1 DEF AtType, Chosen
  <1>11. AtAuthType => AtAuthType'
    BY <1>1 DEF AtAuthType, Chosen
  <1>12. AtSecurity => AtSecurity'
    BY <1>1, <1>2, <1>8 DEF AtSecurity
  <1>13. AtQuery => AtQuery'
    BY <1>1, <1>2, <1>8 DEF AtQuery
  <1>14. AtInit => AtInit'
    BY <1>1, <1>2, <1>8 DEF AtInit
  <1>15. AtNormal => AtNormal'
    BY <1>1, <1>2 DEF AtNormal
  <1>16. Open => Open'
    BY <1>1, <1>9, <1>10, <1>11, <1>12, <1>13, <1>14, <1>15 DEF Open
  <1> QED
    BY <1>1, <1>3, <1>4, <1>5, <1>6, <1>16 DEF Joint, ClientSide

LEMMA StartsJoint == Init => Joint
  <1> SUFFICES ASSUME Init PROVE Joint
    OBVIOUS
  <1>1. sMinor \in {3, 8}
    BY HandshakeAssumption DEF Init
  <1>2. Legible(RefusedUnasked)
    BY <1>1 DEF Init, Legible, Readable
  <1>3. Open
    BY DEF Init, Open, AtVersion
  <1> QED
    BY <1>2, <1>3 DEF Init, Joint, ClientSide, RefusalTold, ServerReadable

LEMMA NextJoint == Inv /\ Joint /\ [Next]_vars => Joint'
  <1> SUFFICES ASSUME Inv, Joint, [Next]_vars PROVE Joint'
    OBVIOUS
  <1>1. CASE BogusWhileQuerying \/ ServerSeesEnd \/ ServerCloses
    BY <1>1, ClosesJoint DEF BogusWhileQuerying, ServerSeesEnd, ServerCloses, CloseReason
  <1>2. CASE ClientSeesEnd \/ ClientCloses
    <2>1. ClientGone' /\ UNCHANGED <<serverVars, toServer, knows>>
      BY <1>2 DEF ClientSeesEnd, ClientCloses, Fails, ClientGone, setup
    <2> QED
      BY <2>1, LeavesJoint
  <1>3. CASE SetSecurityTypes \/ UNCHANGED vars
    BY <1>3, StillJoint DEF SetSecurityTypes, vars, setup
  <1> QED
    BY <1>1, <1>2, <1>3, VersionJoint, TypeJoint, AuthTypeJoint, ResponseJoint, InitMsgJoint,
       ApproveJoint, ReadVersionJoint, ReadTypeJoint, ReadTypesJoint, TunnelsJoint, CapsJoint,
       ChallengeJoint, ResultJoint, ServerInitJoint, InteractionJoint
       DEF Next, ServerStep, ClientStep

LEMMA JointInvariance == Spec => [](Inv /\ Joint)
  <1>1. Init => Inv /\ Joint
    BY InitInv, StartsJoint
  <1>2. Inv /\ Joint /\ [Next]_vars => (Inv /\ Joint)'
    BY NextInv, NextJoint
  <1> QED
    BY <1>1, <1>2, PTL DEF Spec

\* When both ends are in session they agree on the version, on the type and
\* on whether the Tight extensions are spoken: neither ends up reading the
\* other's messages by rules of its own.
THEOREM EndsAgree == Spec => []Agreement
  <1>1. Joint => Agreement
    <2> SUFFICES ASSUME Joint, sState = "NORMAL", cState = "NORMAL"
                 PROVE  <<sMinor, sSec, sTight>> = <<cMinor, cSec, cTight>>
      BY DEF Agreement
    <2>1. AtNormal
      BY DEF Joint, ClientSide, ClientGone, Open
    <2> QED
      BY <2>1 DEF AtNormal, Same
  <1> QED
    BY <1>1, JointInvariance, PTL

\* A refusal the protocol can express stays on its way until it is read.
THEOREM RefusalsTold == Spec => []RefusalTold
  <1>1. Joint => RefusalTold
    BY DEF Joint, ClientSide, RefusalTold
  <1> QED
    BY <1>1, JointInvariance, PTL

\* The message that each end finds next is one it awaits.
LEMMA ServerFinds ==
  ASSUME Inv, Joint, toServer # <<>>, sState \notin {"QUERYING", "CLOSING"}
  PROVE  Head(toServer).kind \in ServerAwaits
  <1>1. ServerReadable /\ sState \in ServerState
    BY DEF Joint, Inv, FieldsOK
  <1>2. CASE sState = "PROTOCOL_VERSION"
    BY <1>1, <1>2, Singles, Kinds DEF ServerReadable, ServerAwaits
  <1>3. CASE sState = "SECURITY_TYPE"
    BY <1>1, <1>3, Singles, Kinds DEF ServerReadable, ServerAwaits
  <1>4. CASE sState = "TIGHT_AUTH_TYPE"
    BY <1>1, <1>4, Singles, Kinds DEF ServerReadable, ServerAwaits
  <1>5. CASE sState = "SECURITY"
    BY <1>1, <1>5, Singles, Kinds DEF ServerReadable, ServerAwaits
  <1>6. CASE sState = "INITIALISATION"
    BY <1>1, <1>6, Singles, Kinds DEF ServerReadable, ServerAwaits
  <1>7. sState # "NORMAL"
    BY <1>1 DEF ServerReadable
  <1> QED
    BY <1>1, <1>2, <1>3, <1>4, <1>5, <1>6, <1>7 DEF ServerState

LEMMA ClientFinds ==
  ASSUME Inv, Joint, toClient # <<>>, ~ClientGone
  PROVE  Head(toClient).kind \in ClientAwaits \/ RefusedUnasked
  <1>1. Legible(RefusedUnasked) /\ cState \in ClientState
    BY DEF Joint, ClientSide, Inv, FieldsOK
  <1>2. \A m \in ToClient : \A s \in Seq(ToClient) : Head(Before(m, s)) = m
    BY BeforeFirst
  <1>3. /\ <<>> \in Seq(ToClient) /\ <<Challenge>> \in Seq(ToClient)
        /\ \A l \in Offers : <<Caps(l)>> \in Seq(ToClient)
        /\ \A minor : \A o \in OutcomesOf(minor, RefusedUnasked) :
             o \in Seq(ToClient) /\ Before(Caps(<<>>), o) \in Seq(ToClient)
    BY Known, OneMessage, EmptySeq, ResultSequences, BeforeFirst DEF OutcomesOf, Unasked, Outcomes
  <1>4. /\ Type33("None") \in ToClient /\ Type33("VncAuth") \in ToClient
        /\ Tunnels \in ToClient /\ Caps(<<>>) \in ToClient
    BY Known DEF SecType
  <1>5. CASE cState = "PROTOCOL_VERSION"
    BY <1>1, <1>5, Singles, Kinds DEF Legible, Readable, ClientAwaits
  <1>6. CASE cState = "SECURITY_TYPES" /\ cMinor = 3
    <2>1. \E t \in {"None", "VncAuth", "Invalid"} : Head(toClient) = Type33(t)
      <3>1. CASE toClient = <<Type33("Invalid")>>
        BY <3>1, Singles
      <3>2. CASE toClient = Before(Type33("VncAuth"), <<>>)
        BY <1>2, <1>3, <1>4, <3>2
      <3>3. CASE toClient = Before(Type33("VncAuth"), <<Challenge>>)
        BY <1>2, <1>3, <1>4, <3>3
      <3>4. CASE \E o \in OutcomesOf(3, RefusedUnasked) : toClient = Before(Type33("None"), o)
        BY <1>2, <1>3, <1>4, <3>4
      <3> QED
        BY <1>1, <1>6, <3>1, <3>2, <3>3, <3>4 DEF Legible, Readable
    <2>2. Head(toClient).kind = "type33"
      BY <2>1, Kinds
    <2> QED
      BY <1>6, <2>2 DEF ClientAwaits
  <1>7. CASE cState = "SECURITY_TYPES" /\ cMinor # 3
    BY <1>1, <1>7, Singles, Kinds DEF Legible, Readable, ClientAwaits
  <1>8. CASE cState = "TUNNELS"
    <2>1. Head(toClient) = Tunnels
      <3>1. CASE toClient = <<Tunnels>>
        BY <3>1, Singles
      <3>2. CASE \E l \in Offers \ {<<>>} : toClient = Before(Tunnels, <<Caps(l)>>)
        BY <1>2, <1>3, <1>4, <3>2
      <3>3. CASE \E o \in OutcomesOf(cMinor, RefusedUnasked) :
                   toClient = Before(Tunnels, Before(Caps(<<>>), o))
        BY <1>2, <1>3, <1>4, <3>3
      <3> QED
        BY <1>1, <1>8, <3>1, <3>2, <3>3 DEF Legible, Readable
    <2> QED
      BY <1>8, <2>1, Kinds DEF ClientAwaits
  <1>9. CASE cState = "AUTH_CAPS"
    <2>1. \E l : Head(toClient) = Caps(l)
      <3>1. CASE \E l \in Offers \ {<<>>} : toClient = <<Caps(l)>>
        BY <3>1, Singles
      <3>2. CASE \E o \in OutcomesOf(cMinor, RefusedUnasked) : toClient = Before(Caps(<<>>), o)
        BY <1>2, <1>3, <1>4, <3>2
      <3> QED
        BY <1>1, <1>9, <3>1, <3>2 DEF Legible, Readable
    <2>2. Head(toClient).kind = "caps"
      BY <2>1, Kinds
    <2> QED
      BY <1>9, <2>2 DEF ClientAwaits
  <1>10. CASE cState = "SECURITY"
    BY <1>1, <1>10, Singles, Kinds DEF Legible, Readable, ClientAwaits
  <1>11. CASE cState = "SECURITY_RESULT"
    <2>1. Result(TRUE).kind = "result" /\ Result(FALSE).kind = "result"
      BY Kinds
    <2>2. Head(toClient).kind = "result"
      BY <1>1, <1>11, <2>1, Singles DEF Legible, Readable, Outcomes
    <2> QED
      BY <1>11, <2>2 DEF ClientAwaits
  <1>12. CASE cState = "INITIALISATION"
    <2>1. toClient = SessionOf(cTight) \/ RefusedUnasked
      BY <1>1, <1>12 DEF Legible, Readable
    <2>2. ASSUME toClient = SessionOf(cTight) PROVE Head(toClient).kind = "serverInit"
      BY <2>2, Singles, Kinds DEF SessionOf
    <2> QED
      BY <1>12, <2>1, <2>2 DEF ClientAwaits
  <1>13. CASE cState = "CAPABILITIES"
    BY <1>1, <1>13, Singles, Kinds DEF Legible, Readable, ClientAwaits
  <1>14. cState \notin {"NORMAL", "REFUSED", "CLOSED"}
    BY <1>1 DEF Legible, Readable, ClientGone
  <1> QED
    BY <1>1, <1>5, <1>6, <1>7, <1>8, <1>9, <1>10, <1>11, <1>12, <1>13, <1>14 DEF ClientState

\* Neither end finds a message other than the one it is about to read, but for
\* the result that follows a rejection where the protocol has none.
THEOREM StaysInStep == Spec => []InStep
  <1>1. Inv /\ Joint => InStep
    BY ServerFinds, ClientFinds DEF InStep, RefusedUnasked, Due
  <1> QED
    BY <1>1, JointInvariance, PTL

-----------------------------------------------------------------------------
(* The stream of updates.                                                  *)

IsFormat(m) == m.type = "format"
IsRequest(m) == m.type = "request"

\* No version is ahead of what happened.
Counted == cursor <= events /\ name <= events

\* What the server may do after it has come to the state c.
Serves(c) ==
  \/ Quietly(c)
  \/ ~c.closed /\ WriteFramebufferUpdate(c)
  \/ ~c.closed /\ SetCursor(c)

\* Something may have happened.
Passes == events' = events \/ Event

-----------------------------------------------------------------------------
(* The messages.                                                           *)

\* What the messages from the server hold.
LEMMA ServerMessages ==
  ASSUME NEW m \in FromServer
  PROVE  /\ m.type \in {"update", "pixels", "cursor", "size", "name"}
         /\ m.type = "update" => m.rects \in 1..(MaxWidth + 3)
         /\ m.type = "pixels" => m.at \in Column /\ m.format \in Format
         /\ m.type = "cursor" => m.is \in 0..MaxEvents /\ m.format \in Format
         /\ m.type = "size" => m.is \in Column
         /\ m.type = "name" => m.is \in 0..MaxEvents
  BY DEF FromServer, Update, Pixels, Shape, Size, Name

LEMMA ViewerMessages ==
  ASSUME NEW m \in FromViewer
  PROVE  /\ m.type \in {"format", "encodings", "request"}
         /\ m.type = "format" => m.format \in Format
         /\ m.type = "encodings" => m.encodings \in Encodings
         /\ m.type = "request" => m.size \in Column /\ m.incremental \in BOOLEAN
  BY DEF FromViewer, SetPixelFormat, SetEncodings, Request

\* And how each is made.
LEMMA ServerMakes ==
  /\ \A n \in 1..(MaxWidth + 3) :
       Update(n) \in FromServer /\ Update(n).type = "update" /\ Update(n).rects = n
  /\ \A x \in Column, f \in Format :
       /\ Pixels(x, f) \in FromServer /\ Pixels(x, f).type = "pixels"
       /\ Pixels(x, f).at = x /\ Pixels(x, f).format = f
  /\ \A v \in 0..MaxEvents, f \in Format :
       /\ Shape(v, f) \in FromServer /\ Shape(v, f).type = "cursor" /\ Shape(v, f).format = f
  /\ \A w \in Column : Size(w) \in FromServer /\ Size(w).type = "size"
  /\ \A v \in 0..MaxEvents : Name(v) \in FromServer /\ Name(v).type = "name"
  <1>1. /\ \A n : Update(n).type = "update" /\ Update(n).rects = n
        /\ \A x, f : Pixels(x, f).type = "pixels" /\ Pixels(x, f).at = x /\ Pixels(x, f).format = f
        /\ \A v, f : Shape(v, f).type = "cursor" /\ Shape(v, f).format = f
        /\ \A w : Size(w).type = "size"
        /\ \A v : Name(v).type = "name"
    BY DEF Update, Pixels, Shape, Size, Name
  <1>2. \A n \in 1..(MaxWidth + 3) : Update(n) \in FromServer
    BY DEF FromServer
  <1>3. \A x \in Column, f \in Format : Pixels(x, f) \in FromServer
    BY DEF FromServer
  <1>4. \A v \in 0..MaxEvents, f \in Format : Shape(v, f) \in FromServer
    BY DEF FromServer
  <1>5. /\ \A w \in Column : Size(w) \in FromServer
        /\ \A v \in 0..MaxEvents : Name(v) \in FromServer
    BY DEF FromServer
  <1> QED
    BY <1>1, <1>2, <1>3, <1>4, <1>5

LEMMA ViewerMakes ==
  /\ \A f \in Format :
       /\ SetPixelFormat(f) \in FromViewer /\ SetPixelFormat(f).type = "format"
       /\ SetPixelFormat(f).format = f
  /\ \A e \in Encodings : SetEncodings(e) \in FromViewer /\ SetEncodings(e).type = "encodings"
  /\ \A w \in Column, inc \in BOOLEAN :
       /\ Request(w, inc) \in FromViewer /\ Request(w, inc).type = "request"
       /\ Request(w, inc).size = w
  <1>1. /\ \A f : SetPixelFormat(f).type = "format" /\ SetPixelFormat(f).format = f
        /\ \A e : SetEncodings(e).type = "encodings"
        /\ \A w, inc : Request(w, inc).type = "request" /\ Request(w, inc).size = w
    BY DEF SetPixelFormat, SetEncodings, Request
  <1>2. /\ \A f \in Format : SetPixelFormat(f) \in FromViewer
        /\ \A e \in Encodings : SetEncodings(e) \in FromViewer
        /\ \A w \in Column, inc \in BOOLEAN : Request(w, inc) \in FromViewer
    BY DEF FromViewer
  <1> QED
    BY <1>1, <1>2

\* The changed columns, in any order, each once.
LEMMA AnyOrder ==
  ASSUME NEW S, IsFiniteSet(S)
  PROVE  /\ SetToSeq(S) \in Seq(S) /\ Len(SetToSeq(S)) = Cardinality(S)
         /\ \A i \in 1..Cardinality(S) : SetToSeq(S)[i] \in S
  <1>1. Cardinality(S) \in Nat /\ ExistsBijection(1..Cardinality(S), S)
    BY FS_CardinalityType
  <1>2. PICK f \in [1..Cardinality(S) -> S] : IsInjective(f)
    BY <1>1, Zenon DEF ExistsBijection, Bijection, Injection
  <1>3. SetToSeq(S) \in [1..Cardinality(S) -> S]
    BY <1>2 DEF SetToSeq
  <1> QED
    BY <1>1, <1>3

\* There are as many of their rectangles as there are changed columns.
LEMMA PixelsCount ==
  ASSUME NEW T \in SUBSET Column, NEW f \in Format
  PROVE  LET P == {Pixels(x, f) : x \in T} IN
           /\ IsFiniteSet(P) /\ Cardinality(P) = Cardinality(T)
           /\ IsFiniteSet(T) /\ Cardinality(T) \in 0..MaxWidth
  <1> DEFINE P == {Pixels(x, f) : x \in T}
             g == [x \in T |-> Pixels(x, f)]
  <1>1. IsFiniteSet(T) /\ Cardinality(T) \in 0..MaxWidth
    <2>1. IsFiniteSet(Column) /\ Cardinality(Column) = MaxWidth
      BY FS_Interval, StreamAssumption DEF Column
    <2> QED
      BY <2>1, FS_Subset, FS_CardinalityType, StreamAssumption
  <1>2. \A x, y \in T : Pixels(x, f) = Pixels(y, f) => x = y
    BY ServerMakes
  <1>3. g \in Bijection(T, P)
    BY <1>2 DEF Bijection, Injection, Surjection, IsInjective
  <1>4. ExistsBijection(T, P)
    BY <1>3 DEF ExistsBijection
  <1> QED
    BY <1>1, <1>4, FS_Bijection

LEMMA OneMore ==
  ASSUME NEW S, NEW s \in Seq(S), NEW m \in S
  PROVE  /\ s \o <<m>> \in Seq(S) /\ Len(s \o <<m>>) = Len(s) + 1
         /\ \A i \in 1..Len(s) : (s \o <<m>>)[i] = s[i]
         /\ (s \o <<m>>)[Len(s) + 1] = m
  <1>1. <<m>> \in Seq(S) /\ Len(<<m>>) = 1 /\ <<m>>[1] = m
    OBVIOUS
  <1> QED
    BY <1>1, ConcatProperties

-----------------------------------------------------------------------------
(* One update.                                                             *)

\* A message of the body of an update in format f about the columns cols.
Body(m, f, cols) ==
  /\ m.type # "update"
  /\ m.type \in {"pixels", "cursor"} => m.format = f
  /\ m.type = "pixels" => m.at \in cols

\* The update is its header and no more rectangles than this announces, exactly
\* as many unless its end throws; the new size comes after the last pixels.
WholeUpdate(s, f, cols, cut) ==
  /\ s \in Seq(FromServer) /\ Len(s) >= 1
  /\ s[1].type = "update" /\ s[1].rects > 0
  /\ Len(s) <= s[1].rects + 1
  /\ ~cut => Len(s) = s[1].rects + 1
  /\ \A i \in 2..Len(s) : Body(s[i], f, cols)
  /\ \A i, j \in 1..Len(s) : i < j /\ s[i].type = "size" => s[j].type # "pixels"

\* As far as it is written: n messages.
Part(s, n, m, f, cols) ==
  /\ s \in Seq(FromServer) /\ Len(s) = n /\ s[1] = m
  /\ \A i \in 2..Len(s) : Body(s[i], f, cols)
  /\ \A i, j \in 1..Len(s) : i < j /\ s[i].type = "size" => s[j].type # "pixels"

LEMMA PartMore ==
  ASSUME NEW s, NEW n \in Nat \ {0}, NEW m, NEW f, NEW cols, Part(s, n, m, f, cols),
         NEW r \in FromServer, Body(r, f, cols), r.type # "pixels"
  PROVE  Part(s \o <<r>>, n + 1, m, f, cols)
  <1> DEFINE t == s \o <<r>>
  <1>1. s \in Seq(FromServer) /\ Len(s) = n /\ s[1] = m
    BY DEF Part
  <1>2. /\ t \in Seq(FromServer) /\ Len(t) = n + 1
        /\ \A i \in 1..n : t[i] = s[i]
        /\ t[n + 1] = r
    BY <1>1, OneMore
  <1> HIDE DEF t
  <1>3. ASSUME NEW i \in 2..Len(t) PROVE Body(t[i], f, cols)
    BY <1>1, <1>2 DEF Part
  <1>4. ASSUME NEW i \in 1..Len(t), NEW j \in 1..Len(t), i < j, t[i].type = "size"
        PROVE  t[j].type # "pixels"
    BY <1>1, <1>2, <1>4 DEF Part
  <1>5. t[1] = m
    BY <1>1, <1>2
  <1> QED
    BY <1>2, <1>3, <1>4, <1>5 DEF Part, t

LEMMA IfOne ==
  ASSUME NEW S, NEW s \in Seq(S), NEW m \in S, NEW b \in BOOLEAN
  PROVE  s \o If(b, <<m>>) = IF b THEN s \o <<m>> ELSE s
  <1>1. CASE b
    BY <1>1 DEF If
  <1>2. CASE ~b
    <2>1. If(b, <<m>>) = <<>>
      BY <1>2 DEF If
    <2> QED
      BY <1>2, <2>1, ConcatEmptySeq
  <1> QED
    BY <1>1, <1>2

LEMMA PartIf ==
  ASSUME NEW s, NEW n \in Nat \ {0}, NEW m, NEW f, NEW cols, Part(s, n, m, f, cols),
         NEW r \in FromServer, Body(r, f, cols), r.type # "pixels", NEW b \in BOOLEAN
  PROVE  Part(s \o If(b, <<r>>), n + CountOf(b), m, f, cols)
  <1>1. s \in Seq(FromServer)
    BY DEF Part
  <1>2. s \o If(b, <<r>>) = IF b THEN s \o <<r>> ELSE s
    BY <1>1, IfOne
  <1>3. CASE b
    <2>1. s \o If(b, <<r>>) = s \o <<r>> /\ n + CountOf(b) = n + 1
      BY <1>2, <1>3 DEF CountOf
    <2> QED
      BY <2>1, PartMore
  <1>4. CASE ~b
    <2>1. s \o If(b, <<r>>) = s /\ n + CountOf(b) = n
      BY <1>2, <1>4 DEF CountOf
    <2> QED
      BY <2>1
  <1> QED
    BY <1>3, <1>4

LEMMA OutputWhole ==
  ASSUME NEW c \in Connection, Writes(c), cursor' \in 0..MaxEvents, name' \in 0..MaxEvents
  PROVE  WholeUpdate(Output(c), c.format, c.requested, Unsupported(c))
  <1> DEFINE P == {Pixels(x, c.format) : x \in ToSend(c)}
             f == c.format
             cols == c.requested
             m == Update(Count(c))
             cur == Shape(cursor', f)
             wide == Size(c.size)
             title == Name(name')
             sized == ~Unsupported(c) /\ c.newSize
             named == ~Unsupported(c) /\ c.newName
             s2 == <<m>> \o If(c.newCursor, <<cur>>)
             s3 == s2 \o SetToSeq(P)
             s4 == s3 \o If(sized, <<wide>>)
             s5 == s4 \o If(named, <<title>>)
             N == Cardinality(ToSend(c))
             n2 == 1 + CountOf(c.newCursor)
             n3 == n2 + N
             n4 == n3 + CountOf(sized)
             n5 == n4 + CountOf(named)
  <1>1. /\ ToSend(c) \in SUBSET Column /\ ToSend(c) \subseteq c.requested
        /\ c.format \in Format /\ c.size \in Column
        /\ c.newCursor \in BOOLEAN /\ c.newSize \in BOOLEAN /\ c.newName \in BOOLEAN
    BY DEF Connection, ToSend
  <1>2. /\ SetToSeq(P) \in Seq(P) /\ Len(SetToSeq(P)) = N /\ N \in 0..MaxWidth
        /\ \A i \in 1..N : SetToSeq(P)[i] \in P
        /\ IsFiniteSet(ToSend(c))
    <2>1. IsFiniteSet(P) /\ Cardinality(P) = N /\ N \in 0..MaxWidth /\ IsFiniteSet(ToSend(c))
      BY <1>1, PixelsCount
    <2> HIDE DEF P
    <2> QED
      BY <2>1, AnyOrder
  <1>3. /\ Count(c) = N + CountOf(c.newCursor) + CountOf(c.newSize) + CountOf(c.newName)
        /\ Count(c) \in 1..(MaxWidth + 3)
    <2>1. N > 0 \/ NeedFakeUpdate(c)
      <3>1. N = 0 => ToSend(c) = {}
        BY <1>2, FS_EmptySet
      <3> QED
        BY <1>2, <3>1 DEF Writes
    <2> QED
      BY <1>1, <1>2, <2>1, StreamAssumption DEF Count, CountOf, NeedFakeUpdate
  <1>4. Output(c) = s5
    BY DEF Output
  <1>5. /\ \A x \in P : x \in FromServer /\ Body(x, f, cols) /\ x.type = "pixels"
        /\ m \in FromServer /\ m.type = "update" /\ m.rects = Count(c)
        /\ cur \in FromServer /\ Body(cur, f, cols) /\ cur.type = "cursor"
        /\ wide \in FromServer /\ Body(wide, f, cols) /\ wide.type = "size"
        /\ title \in FromServer /\ Body(title, f, cols) /\ title.type = "name"
    BY <1>1, <1>3, ServerMakes DEF Body
  <1>6. sized \in BOOLEAN /\ named \in BOOLEAN
    OBVIOUS
  <1>7. /\ CountOf(c.newCursor) \in {0, 1} /\ CountOf(sized) \in {0, 1} /\ CountOf(named) \in {0, 1}
        /\ CountOf(c.newSize) \in {0, 1} /\ CountOf(c.newName) \in {0, 1}
    BY DEF CountOf
  <1>8. /\ sized => CountOf(sized) = CountOf(c.newSize) /\ c.newSize
        /\ CountOf(sized) <= CountOf(c.newSize) /\ CountOf(named) <= CountOf(c.newName)
        /\ ~Unsupported(c) => CountOf(sized) = CountOf(c.newSize) /\ CountOf(named) = CountOf(c.newName)
    BY DEF CountOf
  <1> HIDE DEF P, m, cur, wide, title, sized, named, f, cols
  <1>9. Part(<<m>>, 1, m, f, cols)
    BY <1>5 DEF Part
  <1>10. Part(s2, n2, m, f, cols)
    BY <1>1, <1>5, <1>9, PartIf
  <1>11. Part(s3, n3, m, f, cols)
    <2>1. s2 \in Seq(FromServer) /\ Len(s2) = n2 /\ s2[1] = m /\ n2 \in {1, 2}
      BY <1>7, <1>10 DEF Part
    <2>2. SetToSeq(P) \in Seq(FromServer)
      BY <1>2, <1>5, SeqMonotonic
    <2>6. ASSUME NEW i \in 1..n2 PROVE s2[i].type # "size"
      <3>1. CASE c.newCursor
        <4>1. s2 = <<m>> \o <<cur>> /\ n2 = 2
          BY <3>1 DEF If, CountOf
        <4>2. <<m>> \in Seq(FromServer) /\ Len(<<m>>) = 1 /\ <<m>>[1] = m
          BY <1>5
        <4>3. s2[1] = m /\ s2[2] = cur
          BY <1>5, <4>1, <4>2, OneMore
        <4> HIDE DEF s2, n2
        <4> QED
          BY <1>5, <4>1, <4>3
      <3>2. CASE ~c.newCursor
        <4>1. n2 = 1
          BY <3>2 DEF CountOf
        <4> QED
          BY <1>5, <2>1, <4>1
      <3> QED
        BY <3>1, <3>2
    <2> HIDE DEF s2
    <2>3. /\ s3 \in Seq(FromServer) /\ Len(s3) = n2 + N
          /\ \A i \in 1..(n2 + N) : s3[i] = IF i <= n2 THEN s2[i] ELSE SetToSeq(P)[i - n2]
      BY <1>2, <2>1, <2>2, ConcatProperties
    <2>4. ASSUME NEW i \in 2..(n2 + N) PROVE Body(s3[i], f, cols)
      <3>1. CASE i <= n2
        BY <1>10, <2>1, <2>3, <3>1 DEF Part
      <3>2. CASE ~(i <= n2)
        <4>1. i - n2 \in 1..N /\ s3[i] = SetToSeq(P)[i - n2]
          BY <1>2, <2>1, <2>3, <3>2
        <4> QED
          BY <1>2, <1>5, <4>1
      <3> QED
        BY <3>1, <3>2
    <2>5. s3[1] = m
      BY <1>2, <2>1, <2>3
    <2>7. ASSUME NEW i \in 1..(n2 + N) PROVE s3[i].type # "size"
      <3>1. CASE i <= n2
        BY <2>1, <2>3, <2>6, <3>1
      <3>2. CASE ~(i <= n2)
        <4>1. i - n2 \in 1..N /\ s3[i] = SetToSeq(P)[i - n2]
          BY <1>2, <2>1, <2>3, <3>2
        <4> QED
          BY <1>2, <1>5, <4>1
      <3> QED
        BY <3>1, <3>2
    <2> HIDE DEF s3
    <2> QED
      BY <2>3, <2>4, <2>5, <2>7 DEF Part
  <1>12. n3 \in Nat \ {0} /\ n4 \in Nat \ {0}
    BY <1>2, <1>7
  <1> HIDE DEF s2, n2
  <1>13. Part(s4, n4, m, f, cols)
    BY <1>5, <1>6, <1>11, <1>12, PartIf
  <1>14. Part(s5, n5, m, f, cols)
    BY <1>5, <1>6, <1>12, <1>13, PartIf
  <1>15. n5 <= Count(c) + 1 /\ (~Unsupported(c) => n5 = Count(c) + 1)
    BY <1>2, <1>3, <1>7, <1>8 DEF n2
  <1> HIDE DEF s3, s4, s5, n3, n4
  <1> QED
    BY <1>3, <1>4, <1>5, <1>7, <1>12, <1>14, <1>15 DEF Part, WholeUpdate, f, cols

-----------------------------------------------------------------------------
(* The server's steps.                                                     *)

LEMMA Unpacked ==
  ASSUME StreamTyped
  PROVE  /\ conn \in Connection /\ cconn \in ViewerState
         /\ upstream \in Seq(FromViewer) /\ downstream \in Seq(FromServer)
         /\ DOMAIN upstream = 1..Len(upstream) /\ DOMAIN downstream = 1..Len(downstream)
         /\ Len(upstream) \in Nat /\ Len(downstream) \in Nat
         /\ cconn.rectsLeft \in Nat /\ cconn.size \in 1..MaxWidth
         /\ conn.requested \in SUBSET Column
         /\ crossed \subseteq {"format", "size"}
  BY StreamAssumption DEF StreamTyped, Connection, ViewerState, Column

\* It writes nothing, or an update about what was requested, which ends the
\* request or the connection.
LEMMA Served ==
  ASSUME StreamTyped, NEW c \in Connection, Serves(c),
         cursor' \in 0..MaxEvents, name' \in 0..MaxEvents
  PROVE  /\ conn' \in Connection /\ downstream' \in Seq(FromServer)
         /\ conn'.format = c.format /\ conn'.view = c.view
         /\ \/ /\ downstream' = downstream
               /\ conn'.requested = c.requested /\ conn'.closed = c.closed
            \/ /\ ~c.closed /\ c.requested # {}
               /\ conn'.closed \/ conn'.requested = {}
               /\ \E t : /\ WholeUpdate(t, c.format, c.requested, conn'.closed)
                         /\ downstream' = downstream \o t
  <1>0. downstream \in Seq(FromServer)
    BY Unpacked
  <1>1. CASE Quietly(c)
    BY <1>0, <1>1 DEF Quietly
  <1>2. ASSUME NEW d \in Connection, ~d.closed, WriteFramebufferUpdate(d),
               d.format = c.format, d.requested = c.requested, d.view = c.view, ~c.closed
        PROVE  /\ conn' \in Connection /\ downstream' \in Seq(FromServer)
               /\ conn'.format = c.format /\ conn'.view = c.view
               /\ \/ /\ downstream' = downstream
                     /\ conn'.requested = c.requested /\ conn'.closed = c.closed
                  \/ /\ ~c.closed /\ c.requested # {}
                     /\ conn'.closed \/ conn'.requested = {}
                     /\ \E t : /\ WholeUpdate(t, c.format, c.requested, conn'.closed)
                               /\ downstream' = downstream \o t
    <2>1. conn' = After(d) /\ downstream' = downstream \o Output(d)
      BY <1>2 DEF WriteFramebufferUpdate
    <2>2. CASE ~Writes(d)
      <3>1. conn' = d /\ downstream' = downstream
        BY <1>0, <2>1, <2>2, ConcatEmptySeq DEF After, Output
      <3>2. d.closed = FALSE /\ c.closed = FALSE
        BY <1>2 DEF Connection
      <3> QED
        BY <1>0, <1>2, <3>1, <3>2
    <2>3. CASE Writes(d)
      <3>1. WholeUpdate(Output(d), d.format, d.requested, Unsupported(d))
        BY <2>3, OutputWhole
      <3>2. Unsupported(d) \in BOOLEAN
        BY DEF Unsupported, Connection
      <3>3. /\ conn' \in Connection /\ conn'.closed = Unsupported(d)
            /\ conn'.format = d.format /\ conn'.view = d.view
            /\ conn'.closed \/ conn'.requested = {}
        <4>1. CASE Unsupported(d)
          <5>1. conn' = [d EXCEPT !.closed = TRUE]
            BY <2>1, <2>3, <4>1 DEF After
          <5> QED
            BY <3>2, <4>1, <5>1 DEF Connection
        <4>2. CASE ~Unsupported(d)
          <5>1. conn' = [d EXCEPT !.changed = @ \ d.requested, !.requested = {}, !.newCursor = FALSE,
                                  !.newSize = FALSE, !.newName = FALSE]
            BY <2>1, <2>3, <4>2 DEF After
          <5> QED
            BY <1>2, <3>2, <4>2, <5>1 DEF Connection
        <4> QED
          BY <4>1, <4>2
      <3>4. downstream' \in Seq(FromServer)
        <4>1. Output(d) \in Seq(FromServer)
          BY <3>1 DEF WholeUpdate
        <4> QED
          BY <1>0, <2>1, <4>1, ConcatProperties
      <3>5. d.requested # {}
        BY <2>3 DEF Writes
      <3> QED
        BY <1>2, <2>1, <3>1, <3>3, <3>4, <3>5
    <2> QED
      BY <2>2, <2>3
  <1>3. CASE ~c.closed /\ WriteFramebufferUpdate(c)
    BY <1>2, <1>3
  <1>4. CASE ~c.closed /\ SetCursor(c)
    <2>1. CASE c.supports.cursor
      <3> DEFINE d == [c EXCEPT !.newCursor = TRUE]
      <3>1. /\ d \in Connection /\ ~d.closed /\ d.format = c.format
            /\ d.requested = c.requested /\ d.view = c.view
        BY <1>4 DEF Connection
      <3>2. WriteFramebufferUpdate(d)
        BY <1>4, <2>1 DEF SetCursor
      <3> HIDE DEF d
      <3> QED
        BY <1>2, <1>4, <3>1, <3>2
    <2>2. CASE ~c.supports.cursor
      BY <1>1, <1>4, <2>2 DEF SetCursor
    <2> QED
      BY <2>1, <2>2
  <1> QED
    BY <1>1, <1>3, <1>4 DEF Serves

\* The rest of the messages from the viewer, each one place further ahead.
LEMMA FirstTaken ==
  ASSUME StreamTyped, upstream # <<>>, upstream' = Tail(upstream)
  PROVE  /\ Head(upstream) = upstream[1] /\ Head(upstream) \in FromViewer
         /\ upstream' \in Seq(FromViewer)
         /\ DOMAIN upstream' = 1..(Len(upstream) - 1)
         /\ 1 \in DOMAIN upstream
         /\ \A i \in DOMAIN upstream' :
              i \in Nat \ {0} /\ i + 1 \in DOMAIN upstream /\ upstream'[i] = upstream[i + 1]
         /\ \A i \in DOMAIN upstream : i \in Nat /\ (i # 1 => i - 1 \in DOMAIN upstream')
  <1>1. /\ upstream \in Seq(FromViewer) /\ Len(upstream) \in Nat
        /\ DOMAIN upstream = 1..Len(upstream)
    BY Unpacked
  <1>2. /\ Head(upstream) \in FromViewer /\ Tail(upstream) \in Seq(FromViewer)
        /\ Len(Tail(upstream)) = Len(upstream) - 1
        /\ \A i \in 1..Len(Tail(upstream)) : Tail(upstream)[i] = upstream[i + 1]
        /\ Len(upstream) >= 1
    BY <1>1, HeadTailProperties, EmptySeq
  <1>3. Head(upstream) = upstream[1]
    BY <1>1, <1>2
  <1>4. DOMAIN upstream' = 1..(Len(upstream) - 1)
    BY <1>2, LenProperties
  <1>5. \A i \in DOMAIN upstream' :
          i \in Nat \ {0} /\ i + 1 \in DOMAIN upstream /\ upstream'[i] = upstream[i + 1]
    BY <1>1, <1>2, <1>4
  <1> QED
    BY <1>1, <1>2, <1>3, <1>4, <1>5

\* What framebufferUpdateRequest() makes of the connection.
LEMMA Noted ==
  ASSUME NEW c \in Connection, NEW w \in Column, NEW inc \in BOOLEAN
  PROVE  LET d == FramebufferUpdateRequest(c, w, inc) IN
         /\ d \in Connection
         /\ d.format = c.format /\ d.view = c.view /\ d.closed = c.closed
         /\ d.requested = IF c.view THEN c.requested \cup 1..w ELSE c.requested
  <1>1. 1..w \in SUBSET Column
    BY StreamAssumption DEF Column
  <1>2. CASE ~c.view
    BY <1>2 DEF FramebufferUpdateRequest
  <1>3. CASE c.view
    <2> DEFINE d == [c EXCEPT !.requested = @ \cup 1..w,
                              !.changed = IF inc THEN @ ELSE @ \cup 1..w]
    <2>1. FramebufferUpdateRequest(c, w, inc) = d
      BY <1>3 DEF FramebufferUpdateRequest
    <2>2. /\ d \in Connection
          /\ d.format = c.format /\ d.view = c.view /\ d.closed = c.closed
          /\ d.requested = c.requested \cup 1..w
      BY <1>1 DEF Connection
    <2> HIDE DEF d
    <2> QED
      BY <1>3, <2>1, <2>2
  <1> QED
    BY <1>2, <1>3

\* A message is taken: it sets something, after which the cursor may be sent, or
\* is a request.
LEMMA Handled ==
  ASSUME StreamTyped, ProcessMsg
  PROVE  LET m == Head(upstream) IN
         /\ ~conn.closed /\ upstream # <<>> /\ upstream' = Tail(upstream) /\ reading' = TRUE
         /\ UNCHANGED <<cursor, name, due, cconn, events>>
         /\ m \in FromViewer /\ (IsRequest(m) => m.size \in Column)
         /\ \E c \in Connection :
              /\ Serves(c) /\ ~c.closed /\ c.view = conn.view
              /\ c.format = IF IsFormat(m) THEN m.format ELSE conn.format
              /\ \/ ~IsRequest(m) /\ c.requested = conn.requested /\ UNCHANGED crossed
                 \/ /\ IsRequest(m) /\ ~IsFormat(m) /\ downstream' = downstream
                    /\ c.requested = IF conn.view THEN conn.requested \cup 1..m.size
                                     ELSE conn.requested
                    /\ crossed' = IF conn.view THEN crossed \cup Crossing(m.size) ELSE crossed
  <1> DEFINE m == Head(upstream)
  <1>1. /\ ~conn.closed /\ upstream # <<>> /\ upstream' = Tail(upstream) /\ reading' = TRUE
        /\ UNCHANGED <<cursor, name, due, cconn, events>>
        /\ Handle(m)
    BY DEF ProcessMsg, desktopVars
  <1>2. m \in FromViewer /\ conn \in Connection
    BY <1>1, FirstTaken, Unpacked
  <1>3. /\ m.type = "format" => m.format \in Format
        /\ m.type = "encodings" => m.encodings \in Encodings
        /\ m.type = "request" => m.size \in Column /\ m.incremental \in BOOLEAN
    BY <1>2, ViewerMessages
  <1> HIDE DEF m
  <1>4. CASE /\ m.type = "format"
             /\ SetCursor([conn EXCEPT !.format = m.format]) /\ UNCHANGED crossed
    <2> DEFINE c == [conn EXCEPT !.format = m.format]
    <2>1. /\ c \in Connection /\ ~c.closed /\ c.requested = conn.requested /\ c.view = conn.view
          /\ c.format = m.format
      BY <1>1, <1>2, <1>3, <1>4 DEF Connection
    <2>2. SetCursor(c)
      BY <1>4
    <2> HIDE DEF c
    <2> QED
      BY <1>1, <1>2, <1>4, <2>1, <2>2 DEF m, Serves, IsFormat, IsRequest
  <1>5. CASE /\ m.type = "encodings"
             /\ SetCursor([conn EXCEPT !.supports = m.encodings]) /\ UNCHANGED crossed
    <2> DEFINE c == [conn EXCEPT !.supports = m.encodings]
    <2>1. /\ c \in Connection /\ ~c.closed /\ c.requested = conn.requested /\ c.view = conn.view
          /\ c.format = conn.format
      BY <1>1, <1>2, <1>3, <1>5 DEF Connection
    <2>2. SetCursor(c)
      BY <1>5
    <2> HIDE DEF c
    <2> QED
      BY <1>1, <1>2, <1>5, <2>1, <2>2 DEF m, Serves, IsFormat, IsRequest
  <1>6. CASE /\ m.type = "request"
             /\ Quietly(FramebufferUpdateRequest(conn, m.size, m.incremental))
             /\ crossed' = IF conn.view THEN crossed \cup Crossing(m.size) ELSE crossed
    <2> DEFINE c == FramebufferUpdateRequest(conn, m.size, m.incremental)
    <2>1. /\ c \in Connection
          /\ c.format = conn.format /\ c.view = conn.view /\ c.closed = conn.closed
          /\ c.requested = IF conn.view THEN conn.requested \cup 1..m.size ELSE conn.requested
      BY <1>2, <1>3, <1>6, Noted
    <2>2. Quietly(c) /\ downstream' = downstream
      BY <1>6 DEF Quietly
    <2> HIDE DEF c
    <2> QED
      BY <1>1, <1>2, <1>3, <1>6, <2>1, <2>2 DEF m, Serves, IsFormat, IsRequest
  <1> QED
    BY <1>1, <1>4, <1>5, <1>6 DEF Handle

\* The panel asks for what is to be seen.
LEMMA StatusSet ==
  ASSUME StreamTyped, NEW view \in BOOLEAN, SetStatus(view)
  PROVE  /\ ~conn.closed /\ Event /\ UNCHANGED <<reading, cursor, name, due, cconn, upstream>>
         /\ downstream' = downstream /\ conn.size \in Column
         /\ crossed' = IF view THEN crossed \cup Crossing(conn.size)
                                     \cup (IF FormatUnderWay THEN {"format"} ELSE {})
                       ELSE crossed
         /\ \E c \in Connection :
              /\ Serves(c) /\ conn' = c
              /\ c.format = conn.format /\ c.view = view /\ c.closed = conn.closed
              /\ c.requested = IF view THEN conn.requested \cup 1..conn.size ELSE conn.requested
  <1> DEFINE b == [conn EXCEPT !.view = view]
             c == FramebufferUpdateRequest(b, conn.size, FALSE)
  <1>1. conn \in Connection /\ conn.size \in Column
    BY Unpacked DEF Connection
  <1>2. /\ b \in Connection /\ b.format = conn.format /\ b.view = view /\ b.closed = conn.closed
        /\ b.requested = conn.requested
    BY <1>1 DEF Connection
  <1>3. Quietly(c) /\ conn' = c /\ downstream' = downstream
    BY DEF SetStatus, Quietly
  <1> HIDE DEF b
  <1>4. /\ c \in Connection
        /\ c.format = b.format /\ c.view = b.view /\ c.closed = b.closed
        /\ c.requested = IF b.view THEN b.requested \cup 1..conn.size ELSE b.requested
    BY <1>1, <1>2, Noted
  <1> HIDE DEF c
  <1>5. /\ ~conn.closed /\ Event /\ UNCHANGED <<reading, cursor, name, due, cconn, upstream>>
        /\ crossed' = IF view THEN crossed \cup Crossing(conn.size)
                                    \cup (IF FormatUnderWay THEN {"format"} ELSE {})
                      ELSE crossed
    BY DEF SetStatus, desktopVars
  <1> QED
    BY <1>1, <1>2, <1>3, <1>4, <1>5 DEF Serves

\* The other steps of the server find or make a state of the connection, in which
\* it writes or not.
LEMMA ServerSteps ==
  ASSUME StreamTyped, Counted,
         \/ AnswerRequests \/ TryUpdate \/ CursorChange \/ SetDesktopName
         \/ \E x \in Column : Draw(x) \/ PixelBufferChange(x)
  PROVE  /\ ~conn.closed /\ UNCHANGED <<cconn, upstream, crossed>>
         /\ {cursor', name', events'} \subseteq 0..MaxEvents /\ cursor' <= events' /\ name' <= events'
         /\ reading' \in BOOLEAN /\ due' \in BOOLEAN
         /\ \E c \in Connection :
              /\ c.requested = conn.requested /\ c.format = conn.format /\ c.view = conn.view
              /\ Serves(c)
  <1>0. /\ conn \in Connection /\ reading \in BOOLEAN /\ due \in BOOLEAN
        /\ {cursor, name, events} \subseteq 0..MaxEvents
        /\ cursor <= events /\ name <= events /\ MaxEvents \in Nat
    BY StreamAssumption DEF StreamTyped, Counted
  <1>1. CASE AnswerRequests
    BY <1>0, <1>1 DEF AnswerRequests, desktopVars, Serves
  <1>2. CASE TryUpdate
    BY <1>0, <1>2 DEF TryUpdate, Desktop, Serves
  <1>3. CASE CursorChange
    BY <1>0, <1>3 DEF CursorChange, Desktop, Event, Serves
  <1>4. CASE SetDesktopName
    <2> DEFINE c == [conn EXCEPT !.newName = (@ \/ conn.supports.rename)]
    <2>1. /\ ~conn.closed /\ UNCHANGED <<cconn, upstream, crossed, reading, cursor, due>>
          /\ events < MaxEvents /\ events' = events + 1 /\ name' = name + 1
      BY <1>4 DEF SetDesktopName, Desktop, Event
    <2>2. c \in Connection /\ c.requested = conn.requested /\ c.format = conn.format /\ c.view = conn.view
      BY <1>0 DEF Connection
    <2>3. Quietly(c)
      BY <1>4 DEF SetDesktopName
    <2> HIDE DEF c
    <2> QED
      BY <1>0, <2>1, <2>2, <2>3 DEF Serves
  <1>5. ASSUME NEW x \in Column, Draw(x) \/ PixelBufferChange(x)
        PROVE  /\ ~conn.closed /\ UNCHANGED <<cconn, upstream, crossed, reading, cursor, name>>
               /\ due' \in BOOLEAN /\ events < MaxEvents /\ events' = events + 1
    BY <1>0, <1>5 DEF Draw, PixelBufferChange, Desktop, Event, desktopVars
  <1>6. ASSUME NEW x \in Column, Draw(x) \/ PixelBufferChange(x)
        PROVE  \E c \in Connection :
                 /\ c.requested = conn.requested /\ c.format = conn.format /\ c.view = conn.view
                 /\ Serves(c)
    <2>1. CASE Quietly([conn EXCEPT !.changed = @ \cup {x}])
      <3> DEFINE c == [conn EXCEPT !.changed = @ \cup {x}]
      <3>1. c \in Connection /\ c.requested = conn.requested /\ c.format = conn.format /\ c.view = conn.view
        BY <1>0 DEF Connection
      <3>2. Quietly(c)
        BY <2>1
      <3> HIDE DEF c
      <3> QED
        BY <3>1, <3>2 DEF Serves
    <2>2. CASE Quietly([conn EXCEPT !.size = x, !.closed = TRUE])
      <3> DEFINE c == [conn EXCEPT !.size = x, !.closed = TRUE]
      <3>1. c \in Connection /\ c.requested = conn.requested /\ c.format = conn.format /\ c.view = conn.view
        BY <1>0 DEF Connection
      <3>2. Quietly(c)
        BY <2>2
      <3> HIDE DEF c
      <3> QED
        BY <3>1, <3>2 DEF Serves
    <2>3. CASE Quietly(Resized(x)) \/ WriteFramebufferUpdate(Resized(x))
      <3> DEFINE c == Resized(x)
      <3>1. 1..x \in SUBSET Column
        BY StreamAssumption DEF Column
      <3>2. /\ c \in Connection /\ c.requested = conn.requested /\ c.format = conn.format /\ c.view = conn.view
            /\ ~c.closed
        BY <1>0, <1>5, <1>6, <3>1 DEF Connection, Resized
      <3> HIDE DEF c
      <3>3. Quietly(c) \/ WriteFramebufferUpdate(c)
        BY <2>3 DEF c
      <3> QED
        BY <3>2, <3>3 DEF Serves
    <2> QED
      BY <1>6, <2>1, <2>2, <2>3 DEF Draw, PixelBufferChange
  <1>7. ASSUME NEW x \in Column, Draw(x) \/ PixelBufferChange(x)
        PROVE  /\ ~conn.closed /\ UNCHANGED <<cconn, upstream, crossed>>
               /\ {cursor', name', events'} \subseteq 0..MaxEvents
               /\ cursor' <= events' /\ name' <= events'
               /\ reading' \in BOOLEAN /\ due' \in BOOLEAN
    BY <1>0, <1>5, <1>7
  <1> QED
    BY <1>1, <1>2, <1>3, <1>4, <1>6, <1>7
-----------------------------------------------------------------------------
(* The viewer's steps.                                                     *)

\* What requestNewUpdate() sends: the request last, a new format first.
LEMMA RequestLast ==
  ASSUME NEW v \in ViewerState
  PROVE  LET s == RequestMessages(v) IN
         /\ s \in Seq(FromViewer) /\ Len(s) >= 1
         /\ IsRequest(s[Len(s)])
         /\ \A i \in 1..Len(s) : IsFormat(s[i]) => v.formatChange /\ s[i].format = v.wants /\ i = 1
         /\ v.formatChange => IsFormat(s[1])
  <1> DEFINE s == RequestMessages(v)
             F == SetPixelFormat(v.wants)
             E == SetEncodings(v.supports)
             R == Request(v.size, ~v.formatChange)
  <1>1. /\ F \in FromViewer /\ F.type = "format" /\ F.format = v.wants
        /\ E \in FromViewer /\ E.type = "encodings"
        /\ R \in FromViewer /\ R.type = "request" /\ R.size = v.size
    <2>1. /\ v.wants \in Format /\ v.supports \in Encodings /\ v.size \in Column
          /\ (~v.formatChange) \in BOOLEAN
      BY DEF ViewerState
    <2> QED
      BY <2>1, ViewerMakes
  <1>2. /\ v.formatChange \in BOOLEAN /\ v.encodingChange \in BOOLEAN
        /\ s = If(v.formatChange, <<F>>) \o If(v.encodingChange, <<E>>) \o <<R>>
    BY DEF ViewerState, RequestMessages
  <1> HIDE DEF s, F, E, R
  <1> DEFINE p == If(v.formatChange, <<F>>)
             q == p \o If(v.encodingChange, <<E>>)
  <1>3. /\ p \in Seq(FromViewer) /\ Len(p) = CountOf(v.formatChange)
        /\ v.formatChange => p[1] = F
    <2>1. CASE v.formatChange
      BY <1>1, <2>1 DEF If, CountOf
    <2>2. CASE ~v.formatChange
      <3>1. p = <<>>
        BY <2>2 DEF If
      <3> HIDE DEF p
      <3> QED
        BY <2>2, <3>1 DEF CountOf
    <2> QED
      BY <2>1, <2>2
  <1> HIDE DEF p
  <1>4. q = IF v.encodingChange THEN p \o <<E>> ELSE p
    BY <1>1, <1>2, <1>3, IfOne
  <1>5. /\ q \in Seq(FromViewer) /\ Len(q) = CountOf(v.formatChange) + CountOf(v.encodingChange)
        /\ v.formatChange => q[1] = F
        /\ \A i \in 1..Len(q) : q[i] = E \/ (v.formatChange /\ i = 1 /\ q[i] = F)
    <2>1. CASE v.encodingChange
      <3>1. /\ q \in Seq(FromViewer) /\ Len(q) = CountOf(v.formatChange) + 1
            /\ \A i \in 1..CountOf(v.formatChange) : q[i] = p[i]
            /\ q[CountOf(v.formatChange) + 1] = E
        <4>1. q = p \o <<E>>
          BY <1>4, <2>1
        <4>2. CountOf(v.formatChange) \in Nat
          BY DEF CountOf
        <4> HIDE DEF q
        <4> QED
          BY <1>1, <1>3, <4>1, <4>2, OneMore
      <3>2. CountOf(v.encodingChange) = 1
        BY <2>1 DEF CountOf
      <3> HIDE DEF q
      <3> QED
        BY <1>3, <2>1, <3>1, <3>2 DEF CountOf
    <2>2. CASE ~v.encodingChange
      <3>1. q = p
        BY <1>4, <2>2
      <3> HIDE DEF q
      <3> QED
        BY <1>3, <2>2, <3>1 DEF CountOf
    <2> QED
      BY <2>1, <2>2
  <1>6. s = q \o <<R>>
    BY <1>2 DEF p
  <1> HIDE DEF q
  <1>7. /\ s \in Seq(FromViewer) /\ Len(s) = Len(q) + 1 /\ Len(q) \in Nat
        /\ \A i \in 1..Len(q) : s[i] = q[i]
        /\ s[Len(s)] = R
    BY <1>1, <1>5, <1>6, OneMore, LenProperties
  <1>8. \A i \in 1..Len(s) : i # Len(s) => i \in 1..Len(q)
    BY <1>7
  <1>9. v.formatChange => 1 \in 1..Len(q) /\ 1 \in 1..Len(s) /\ s[1] = F
    BY <1>5, <1>7 DEF CountOf
  <1>10. ASSUME NEW i \in 1..Len(s), IsFormat(s[i])
         PROVE  v.formatChange /\ s[i].format = v.wants /\ i = 1
    BY <1>1, <1>5, <1>7, <1>8, <1>10 DEF IsFormat
  <1> QED
    BY <1>1, <1>7, <1>9, <1>10 DEF s, IsFormat, IsRequest

\* It asks: the messages follow those under way.
LEMMA Asks ==
  ASSUME StreamTyped, NEW v \in ViewerState, RequestNewUpdate(v)
  PROVE  /\ cconn' \in ViewerState /\ cconn'.rectsLeft = v.rectsLeft /\ cconn'.size = v.size
         /\ cconn'.format = IF v.formatChange THEN v.wants ELSE v.format
         /\ crossed' = IF v.formatChange /\ UpdateUnderWay THEN crossed \cup {"format"} ELSE crossed
         /\ upstream' \in Seq(FromViewer)
         /\ Len(upstream) \in Nat /\ DOMAIN upstream = 1..Len(upstream)
         /\ DOMAIN upstream' \subseteq Nat \ {0}
         /\ \A i \in DOMAIN upstream : i \in DOMAIN upstream' /\ upstream'[i] = upstream[i]
         /\ \E i \in DOMAIN upstream' : IsRequest(upstream'[i])
         /\ \A i \in DOMAIN upstream' :
              \/ i \in DOMAIN upstream
              \/ IsFormat(upstream'[i]) =>
                   v.formatChange /\ upstream'[i].format = v.wants /\ i = Len(upstream) + 1
         /\ v.formatChange =>
              Len(upstream) + 1 \in DOMAIN upstream' /\ IsFormat(upstream'[Len(upstream) + 1])
  <1> DEFINE s == RequestMessages(v)
             L == Len(upstream)
  <1>1. /\ cconn' \in ViewerState /\ cconn'.rectsLeft = v.rectsLeft /\ cconn'.size = v.size
        /\ cconn'.format = IF v.formatChange THEN v.wants ELSE v.format
    BY DEF RequestNewUpdate, ViewerState
  <1>2. /\ upstream' = upstream \o s
        /\ crossed' = IF v.formatChange /\ UpdateUnderWay THEN crossed \cup {"format"} ELSE crossed
    BY DEF RequestNewUpdate
  <1>3. /\ s \in Seq(FromViewer) /\ Len(s) >= 1 /\ Len(s) \in Nat
        /\ IsRequest(s[Len(s)])
        /\ \A i \in 1..Len(s) : IsFormat(s[i]) => v.formatChange /\ s[i].format = v.wants /\ i = 1
        /\ v.formatChange => IsFormat(s[1])
    BY RequestLast
  <1> HIDE DEF s
  <1>4. upstream \in Seq(FromViewer) /\ L \in Nat /\ DOMAIN upstream = 1..L
    BY Unpacked
  <1>5. /\ upstream' \in Seq(FromViewer) /\ Len(upstream') = L + Len(s)
        /\ DOMAIN upstream' = 1..(L + Len(s))
        /\ \A i \in 1..(L + Len(s)) : upstream'[i] = IF i <= L THEN upstream[i] ELSE s[i - L]
    BY <1>2, <1>3, <1>4, ConcatProperties, LenProperties
  <1> HIDE DEF L
  <1>6. \A k \in 1..Len(s) : L + k \in DOMAIN upstream' /\ upstream'[L + k] = s[k]
    <2> SUFFICES ASSUME NEW k \in 1..Len(s)
                 PROVE  L + k \in DOMAIN upstream' /\ upstream'[L + k] = s[k]
      OBVIOUS
    <2>1. L + k \in 1..(L + Len(s)) /\ ~(L + k <= L) /\ (L + k) - L = k
      BY <1>3, <1>4
    <2> QED
      BY <1>5, <2>1
  <1>7. \E i \in DOMAIN upstream' : IsRequest(upstream'[i])
    <2>1. Len(s) \in 1..Len(s)
      BY <1>3
    <2> QED
      BY <1>3, <1>6, <2>1
  <1>8. v.formatChange => L + 1 \in DOMAIN upstream' /\ IsFormat(upstream'[L + 1])
    <2>1. 1 \in 1..Len(s)
      BY <1>3
    <2> QED
      BY <1>3, <1>6, <2>1
  <1>9. ASSUME NEW i \in DOMAIN upstream', i \notin DOMAIN upstream, IsFormat(upstream'[i])
        PROVE  v.formatChange /\ upstream'[i].format = v.wants /\ i = L + 1
    <2>1. i - L \in 1..Len(s) /\ upstream'[i] = s[i - L]
      BY <1>3, <1>4, <1>5, <1>9
    <2>2. v.formatChange /\ s[i - L].format = v.wants /\ i - L = 1
      BY <1>3, <1>9, <2>1
    <2> QED
      BY <1>4, <1>5, <2>1, <2>2
  <1>10. \A i \in DOMAIN upstream : i \in DOMAIN upstream' /\ upstream'[i] = upstream[i]
    BY <1>3, <1>4, <1>5
  <1>11. DOMAIN upstream' \subseteq Nat \ {0}
    BY <1>5
  <1> QED
    BY <1>1, <1>2, <1>4, <1>5, <1>7, <1>8, <1>9, <1>10, <1>11 DEF L

\* The rest of the messages to the viewer, each one place further ahead.
LEMMA FirstRead ==
  ASSUME StreamTyped, downstream # <<>>, downstream' = Tail(downstream)
  PROVE  /\ Head(downstream) = downstream[1] /\ Head(downstream) \in FromServer
         /\ downstream' \in Seq(FromServer) /\ 1 \in DOMAIN downstream
         /\ Len(downstream') = Len(downstream) - 1 /\ Len(downstream) \in Nat
         /\ \A i \in DOMAIN downstream' :
              i \in Nat \ {0} /\ i + 1 \in DOMAIN downstream /\ downstream'[i] = downstream[i + 1]
  <1>1. /\ downstream \in Seq(FromServer) /\ Len(downstream) \in Nat
        /\ DOMAIN downstream = 1..Len(downstream)
    BY Unpacked
  <1>2. /\ Head(downstream) \in FromServer /\ Tail(downstream) \in Seq(FromServer)
        /\ Len(Tail(downstream)) = Len(downstream) - 1
        /\ \A i \in 1..Len(Tail(downstream)) : Tail(downstream)[i] = downstream[i + 1]
        /\ Len(downstream) >= 1
    BY <1>1, HeadTailProperties, EmptySeq
  <1>3. Head(downstream) = downstream[1]
    BY <1>1, <1>2
  <1>4. DOMAIN downstream' = 1..(Len(downstream) - 1)
    BY <1>2, LenProperties
  <1> QED
    BY <1>1, <1>2, <1>3, <1>4

\* What the viewer is after it has read the rectangle m.
LEMMA DecodedTyped ==
  ASSUME StreamTyped, cconn.rectsLeft > 0, NEW m \in FromServer
  PROVE  LET v == Decoded(m) IN
         /\ v \in ViewerState /\ v.rectsLeft = cconn.rectsLeft - 1 /\ v.format = cconn.format
         /\ v.requestUpdate = cconn.requestUpdate
         /\ v.size = IF m.type = "size" THEN m.is ELSE cconn.size
  <1>1. /\ m.type = "size" => m.is \in Column
        /\ m.type \in {"cursor", "name"} => m.is \in 0..MaxEvents
    BY ServerMessages
  <1>2. cconn \in ViewerState
    BY DEF StreamTyped
  <1> DEFINE v == Decoded(m)
             size == IF m.type = "size" THEN m.is ELSE cconn.size
             shape == IF m.type = "cursor" /\ m.format = cconn.format THEN m.is ELSE cconn.cursor
             title == IF m.type = "name" THEN m.is ELSE cconn.name
  <1>3. v = [cconn EXCEPT !.rectsLeft = cconn.rectsLeft - 1, !.size = size, !.cursor = shape,
                          !.name = title]
    BY DEF Decoded
  <1>4. /\ size \in Column /\ shape \in 0..MaxEvents /\ title \in 0..MaxEvents
        /\ cconn.rectsLeft - 1 \in 0..(MaxWidth + 3)
    BY <1>1, <1>2, StreamAssumption DEF ViewerState
  <1> HIDE DEF v, size, shape, title
  <1>5. v \in ViewerState /\ v.rectsLeft = cconn.rectsLeft - 1 /\ v.size = size
    BY <1>2, <1>3, <1>4 DEF ViewerState
  <1>6. v.format = cconn.format /\ v.requestUpdate = cconn.requestUpdate
    BY <1>2, <1>3 DEF ViewerState
  <1> QED
    BY <1>5, <1>6 DEF size, v

\* One more message at the end of those from the viewer.
LEMMA Appended ==
  ASSUME StreamTyped, NEW m \in FromViewer, upstream' = Append(upstream, m)
  PROVE  /\ upstream' \in Seq(FromViewer) /\ Len(upstream) \in Nat
         /\ DOMAIN upstream = 1..Len(upstream) /\ DOMAIN upstream' = 1..(Len(upstream) + 1)
         /\ \A i \in DOMAIN upstream : i \in DOMAIN upstream' /\ upstream'[i] = upstream[i]
         /\ \A i \in DOMAIN upstream' : i \in DOMAIN upstream \/ i = Len(upstream) + 1
         /\ upstream'[Len(upstream) + 1] = m
  BY Unpacked, AppendProperties, LenProperties

\* What the viewer tells without having read anything: a request, or its options.
LEMMA Tells ==
  ASSUME StreamTyped,
         PaintCompleted \/ Refresh \/ \E f \in Format, e \in Encodings : GetOptions(f, e)
  PROVE  /\ UNCHANGED <<conn, reading, cursor, name, due, downstream>>
         /\ Passes
         /\ \/ RequestNewUpdate(cconn)
            \/ /\ UNCHANGED crossed
               /\ cconn' \in ViewerState /\ cconn'.size = cconn.size
               /\ cconn'.format = cconn.format /\ cconn'.rectsLeft = cconn.rectsLeft
               /\ upstream' \in Seq(FromViewer)
               /\ \A i \in DOMAIN upstream : i \in DOMAIN upstream' /\ upstream'[i] = upstream[i]
               /\ \A i \in DOMAIN upstream' : i \in DOMAIN upstream \/ ~IsFormat(upstream'[i])
               /\ \/ cconn'.requestUpdate = cconn.requestUpdate
                  \/ \E i \in DOMAIN upstream' : IsRequest(upstream'[i])
  <1>0. cconn \in ViewerState /\ upstream \in Seq(FromViewer)
    BY Unpacked
  <1>1. CASE PaintCompleted
    BY <1>1 DEF PaintCompleted, ViewerStep, desktopVars, Passes
  <1>2. CASE Refresh
    <2> DEFINE m == Request(cconn.size, FALSE)
    <2>1. PICK asks \in {FALSE, cconn.requestUpdate} :
            cconn' = [cconn EXCEPT !.requestUpdate = asks]
      BY <1>2 DEF Refresh
    <2>2. /\ Event /\ UNCHANGED <<conn, reading, cursor, name, due, downstream, crossed>>
          /\ upstream' = Append(upstream, m)
      BY <1>2 DEF Refresh, ViewerStep, desktopVars
    <2>3. m \in FromViewer /\ m.type = "request"
      BY <1>0, ViewerMakes DEF ViewerState
    <2> HIDE DEF m
    <2>4. /\ upstream' \in Seq(FromViewer) /\ Len(upstream) \in Nat
          /\ DOMAIN upstream' = 1..(Len(upstream) + 1)
          /\ \A i \in DOMAIN upstream : i \in DOMAIN upstream' /\ upstream'[i] = upstream[i]
          /\ \A i \in DOMAIN upstream' : i \in DOMAIN upstream \/ i = Len(upstream) + 1
          /\ upstream'[Len(upstream) + 1] = m
      BY <2>2, <2>3, Appended
    <2>5. Len(upstream) + 1 \in DOMAIN upstream'
      BY <2>4
    <2>6. /\ cconn' \in ViewerState /\ cconn'.size = cconn.size
          /\ cconn'.format = cconn.format /\ cconn'.rectsLeft = cconn.rectsLeft
      BY <1>0, <2>1 DEF ViewerState
    <2> QED
      BY <2>2, <2>3, <2>4, <2>5, <2>6 DEF IsFormat, IsRequest, Passes
  <1>3. ASSUME NEW f \in Format, NEW e \in Encodings, GetOptions(f, e)
        PROVE  /\ UNCHANGED <<conn, reading, cursor, name, due, downstream>>
               /\ Event /\ UNCHANGED crossed
               /\ cconn' \in ViewerState /\ cconn'.size = cconn.size
               /\ cconn'.format = cconn.format /\ cconn'.rectsLeft = cconn.rectsLeft
               /\ upstream' \in Seq(FromViewer)
               /\ \A i \in DOMAIN upstream : i \in DOMAIN upstream' /\ upstream'[i] = upstream[i]
               /\ \A i \in DOMAIN upstream' : i \in DOMAIN upstream \/ ~IsFormat(upstream'[i])
               /\ cconn'.requestUpdate = cconn.requestUpdate
    <2> DEFINE v == [Changed(cconn, f) EXCEPT !.supports = e,
                                              !.encodingChange = (@ \/ e # cconn.supports)]
    <2>1. /\ Event /\ UNCHANGED <<conn, reading, cursor, name, due, downstream, crossed>>
          /\ \/ cconn' = v /\ UNCHANGED upstream
             \/ /\ cconn' = [v EXCEPT !.encodingChange = FALSE]
                /\ upstream' = Append(upstream, SetEncodings(e))
      BY <1>3 DEF GetOptions, ViewerStep, desktopVars
    <2>2. /\ v \in ViewerState /\ v.rectsLeft = cconn.rectsLeft /\ v.size = cconn.size
          /\ v.format = cconn.format /\ v.requestUpdate = cconn.requestUpdate
      BY <1>0 DEF ViewerState, Changed
    <2> HIDE DEF v
    <2>3. /\ cconn' \in ViewerState /\ cconn'.rectsLeft = cconn.rectsLeft
          /\ cconn'.size = cconn.size
          /\ cconn'.format = cconn.format /\ cconn'.requestUpdate = cconn.requestUpdate
      <3>1. CASE cconn' = v
        BY <2>2, <3>1
      <3>2. CASE cconn' = [v EXCEPT !.encodingChange = FALSE]
        BY <2>2, <3>2 DEF ViewerState
      <3> QED
        BY <2>1, <3>1, <3>2
    <2>4. /\ upstream' \in Seq(FromViewer)
          /\ \A i \in DOMAIN upstream : i \in DOMAIN upstream' /\ upstream'[i] = upstream[i]
          /\ \A i \in DOMAIN upstream' : i \in DOMAIN upstream \/ ~IsFormat(upstream'[i])
      <3>1. CASE UNCHANGED upstream
        BY <1>0, <3>1
      <3>2. CASE upstream' = Append(upstream, SetEncodings(e))
        <4>1. SetEncodings(e) \in FromViewer /\ SetEncodings(e).type = "encodings"
          BY ViewerMakes
        <4>2. /\ upstream' \in Seq(FromViewer)
              /\ \A i \in DOMAIN upstream : i \in DOMAIN upstream' /\ upstream'[i] = upstream[i]
              /\ \A i \in DOMAIN upstream' : i \in DOMAIN upstream \/ i = Len(upstream) + 1
              /\ upstream'[Len(upstream) + 1] = SetEncodings(e)
          BY <3>2, <4>1, Appended
        <4> QED
          BY <4>1, <4>2 DEF IsFormat
      <3> QED
        BY <2>1, <3>1, <3>2
    <2> QED
      BY <2>1, <2>3, <2>4
  <1> QED
    BY <1>1, <1>2, <1>3 DEF Passes

-----------------------------------------------------------------------------
(* The framing of the stream, which holds whatever the viewer asks for: any *)
(* number of updates may be under way.                                     *)

Heads(s) == {i \in 1..Len(s) : s[i].type = "update"}

\* From i on there are n rectangles and then a header or nothing. Only if the
\* stream is cut off may some be missing.
Followed(s, i, n, cut) ==
  /\ \A j \in Heads(s) : j >= i => j >= i + n
  /\ Len(s) >= i + n => i + n \in Heads(s)
  /\ ~cut => i + n <= Len(s) + 1

Chain(s, n, cut) ==
  /\ Followed(s, 1, n, cut)
  /\ \A i \in Heads(s) : Followed(s, i + 1, s[i].rects, cut)

FramingInv == StreamTyped /\ Counted /\ Chain(downstream, cconn.rectsLeft, conn.closed)

LEMMA HeadsCount ==
  ASSUME NEW s \in Seq(FromServer), NEW i \in Heads(s)
  PROVE  /\ i \in 1..Len(s) /\ i \in Nat /\ s[i] \in FromServer
         /\ s[i].type = "update" /\ s[i].rects \in 1..(MaxWidth + 3) /\ s[i].rects \in Nat
  <1>1. i \in 1..Len(s) /\ s[i].type = "update" /\ Len(s) \in Nat /\ DOMAIN s = 1..Len(s)
    BY LenProperties DEF Heads
  <1>2. s[i] \in FromServer
    BY <1>1, ElementOfSeq
  <1> QED
    BY <1>1, <1>2, ServerMessages, StreamAssumption

\* A whole update after a stream that is complete.
LEMMA FollowedBefore ==
  ASSUME NEW s \in Seq(FromServer), NEW t \in Seq(FromServer), NEW cut \in BOOLEAN,
         Heads(s \o t) = Heads(s) \cup {Len(s) + 1}, Len(t) >= 1,
         Len(s \o t) = Len(s) + Len(t),
         NEW i \in Nat, NEW n \in Nat, Followed(s, i, n, FALSE)
  PROVE  Followed(s \o t, i, n, cut)
  <1>1. Len(s) \in Nat /\ Len(t) \in Nat
    BY LenProperties
  <1>2. i + n <= Len(s) + 1
    BY DEF Followed
  <1> QED
    BY <1>1, <1>2 DEF Followed

LEMMA ChainLonger ==
  ASSUME NEW s \in Seq(FromServer), NEW n \in Nat, Chain(s, n, FALSE),
         NEW t, NEW f, NEW cols, NEW cut \in BOOLEAN, WholeUpdate(t, f, cols, cut)
  PROVE  Chain(s \o t, n, cut)
  <1> DEFINE L == Len(s)
             r == t[1].rects
  <1>1. /\ t \in Seq(FromServer) /\ Len(t) \in Nat /\ Len(t) >= 1 /\ t[1].type = "update"
        /\ Len(t) <= r + 1 /\ (~cut => Len(t) = r + 1)
        /\ \A i \in 2..Len(t) : t[i].type # "update"
    BY LenProperties DEF WholeUpdate, Body
  <1>2. 1 \in Heads(t) /\ r \in Nat
    <2>1. 1 \in Heads(t)
      BY <1>1 DEF Heads
    <2> QED
      BY <1>1, <2>1, HeadsCount
  <1>3. /\ s \o t \in Seq(FromServer) /\ Len(s \o t) = L + Len(t) /\ L \in Nat
        /\ \A i \in 1..(L + Len(t)) : (s \o t)[i] = IF i <= L THEN s[i] ELSE t[i - L]
    BY <1>1, ConcatProperties, LenProperties
  <1> DEFINE u == s \o t
  <1> HIDE DEF u, r, L
  <1>4. Heads(u) = Heads(s) \cup {L + 1}
    <2>1. ASSUME NEW i \in Heads(u) PROVE i \in Heads(s) \cup {L + 1}
      <3>1. i \in 1..(L + Len(t)) /\ u[i].type = "update"
        BY <1>3, <2>1 DEF Heads, u
      <3>2. CASE i <= L
        BY <1>3, <3>1, <3>2 DEF Heads, u, L
      <3>3. CASE ~(i <= L)
        <4>1. i - L \in 1..Len(t) /\ u[i] = t[i - L]
          BY <1>1, <1>3, <3>1, <3>3 DEF u
        <4>2. i - L = 1
          BY <1>1, <3>1, <4>1
        <4> QED
          BY <1>3, <3>1, <4>2
      <3> QED
        BY <3>2, <3>3
    <2>2. ASSUME NEW i \in Heads(s) PROVE i \in Heads(u)
      <3>1. i \in 1..L /\ s[i].type = "update"
        BY DEF Heads, L
      <3>2. i \in 1..(L + Len(t)) /\ i <= L
        BY <1>1, <1>3, <3>1
      <3> QED
        BY <1>3, <3>1, <3>2 DEF Heads, u
    <2>3. L + 1 \in Heads(u)
      <3>1. L + 1 \in 1..(L + Len(t)) /\ ~(L + 1 <= L) /\ (L + 1) - L = 1
        BY <1>1, <1>3
      <3> QED
        BY <1>1, <1>3, <3>1 DEF Heads, u
    <2> QED
      BY <2>1, <2>2, <2>3
  <1>5. \A i, k \in Nat : Followed(s, i, k, FALSE) => Followed(u, i, k, cut)
    BY <1>1, <1>3, <1>4, FollowedBefore DEF u, L
  <1>6. Followed(u, 1, n, cut)
    BY <1>5 DEF Chain
  <1>7. ASSUME NEW i \in Heads(s) PROVE Followed(u, i + 1, u[i].rects, cut)
    <2>1. i \in 1..L /\ s[i].rects \in Nat /\ i + 1 \in Nat
      BY HeadsCount DEF L
    <2>2. u[i] = s[i]
      BY <1>1, <1>3, <2>1 DEF u
    <2>3. Followed(s, i + 1, s[i].rects, FALSE)
      BY DEF Chain
    <2> QED
      BY <1>5, <2>1, <2>2, <2>3
  <1>8. Followed(u, L + 1 + 1, u[L + 1].rects, cut)
    <2>1. u[L + 1].rects = r
      <3>1. L + 1 \in 1..(L + Len(t)) /\ ~(L + 1 <= L) /\ (L + 1) - L = 1
        BY <1>1, <1>3
      <3> QED
        BY <1>3, <3>1 DEF u, r
    <2>2. \A j \in Heads(u) : ~(j >= L + 1 + 1)
      <3>1. \A j \in Heads(s) : j \in 1..L
        BY DEF Heads, L
      <3> QED
        BY <1>3, <1>4, <3>1
    <2>3. Len(u) = L + Len(t)
      BY <1>3 DEF u
    <2>4. ~(Len(u) >= L + 1 + 1 + r) /\ (~cut => L + 1 + 1 + r <= Len(u) + 1)
      BY <1>1, <1>2, <1>3, <2>3 DEF r
    <2> QED
      BY <2>1, <2>2, <2>4 DEF Followed
  <1> QED
    BY <1>4, <1>6, <1>7, <1>8 DEF Chain, u

\* The first message is read.
LEMMA ChainShorter ==
  ASSUME NEW s \in Seq(FromServer), s # <<>>, NEW n \in Nat, NEW cut \in BOOLEAN, Chain(s, n, cut)
  PROVE  /\ n > 0 => Chain(Tail(s), n - 1, cut)
         /\ n = 0 => 1 \in Heads(s) /\ Chain(Tail(s), s[1].rects, cut)
  <1> DEFINE t == Tail(s)
  <1>1. /\ t \in Seq(FromServer) /\ Len(t) = Len(s) - 1 /\ Len(s) \in Nat /\ Len(s) >= 1
        /\ \A i \in 1..Len(t) : t[i] = s[i + 1]
    BY HeadTailProperties, EmptySeq, LenProperties
  <1> HIDE DEF t
  <1>2. \A i \in Nat \ {0} : i \in Heads(t) <=> i + 1 \in Heads(s)
    BY <1>1 DEF Heads
  <1>3. \A i \in Heads(t) : i \in Nat \ {0} /\ t[i] = s[i + 1]
    BY <1>1 DEF Heads
  <1>4. ASSUME NEW i \in Nat \ {0}, NEW k \in Nat, Followed(s, i + 1, k, cut)
        PROVE  Followed(t, i, k, cut)
    <2>1. \A j \in Heads(t) : j >= i => j >= i + k
      <3> SUFFICES ASSUME NEW j \in Heads(t), j >= i PROVE j >= i + k
        OBVIOUS
      <3>1. j \in Nat /\ j + 1 \in Heads(s) /\ j + 1 >= i + 1
        BY <1>2, <1>3
      <3>2. j + 1 >= i + 1 + k
        BY <1>4, <3>1 DEF Followed
      <3> QED
        BY <3>1, <3>2
    <2>2. Len(t) >= i + k => i + k \in Heads(t)
      <3> SUFFICES ASSUME Len(t) >= i + k PROVE i + k \in Heads(t)
        OBVIOUS
      <3>1. i + 1 + k \in Heads(s) /\ i + 1 + k = i + k + 1 /\ i + k \in Nat \ {0}
        BY <1>1, <1>4 DEF Followed
      <3> QED
        BY <1>2, <3>1
    <2>3. ~cut => i + k <= Len(t) + 1
      <3>1. ~cut => i + 1 + k <= Len(s) + 1
        BY <1>4 DEF Followed
      <3> QED
        BY <1>1, <3>1
    <2> QED
      BY <2>1, <2>2, <2>3 DEF Followed
  <1>5. ASSUME NEW i \in Heads(t) PROVE Followed(t, i + 1, t[i].rects, cut)
    <2>1. i \in Nat \ {0} /\ i + 1 \in Heads(s) /\ t[i] = s[i + 1]
      BY <1>2, <1>3
    <2>2. s[i + 1].rects \in Nat
      BY <2>1, HeadsCount
    <2>3. Followed(s, i + 1 + 1, s[i + 1].rects, cut)
      BY <2>1 DEF Chain
    <2> QED
      BY <1>4, <2>1, <2>2, <2>3
  <1>6. ASSUME n > 0 PROVE Followed(t, 1, n - 1, cut)
    <2>0. Followed(s, 1, n, cut)
      BY DEF Chain
    <2>1. \A j \in Heads(t) : j >= 1 => j >= 1 + (n - 1)
      <3> SUFFICES ASSUME NEW j \in Heads(t) PROVE j >= 1 + (n - 1)
        OBVIOUS
      <3>1. j \in Nat \ {0} /\ j + 1 \in Heads(s)
        BY <1>2, <1>3
      <3>2. j + 1 >= 1 + n
        BY <2>0, <3>1 DEF Followed
      <3> QED
        BY <3>1, <3>2
    <2>2. Len(t) >= 1 + (n - 1) => 1 + (n - 1) \in Heads(t)
      <3>1. n \in Nat \ {0} /\ 1 + (n - 1) = n /\ 1 + n = n + 1
        BY <1>6
      <3>2. Len(t) >= n => 1 + n \in Heads(s)
        BY <1>1, <2>0 DEF Followed
      <3> QED
        BY <1>2, <3>1, <3>2
    <2>3. ~cut => 1 + (n - 1) <= Len(t) + 1
      BY <1>1, <2>0 DEF Followed
    <2> QED
      BY <2>1, <2>2, <2>3 DEF Followed
  <1>7. ASSUME n = 0 PROVE 1 \in Heads(s) /\ Followed(t, 1, s[1].rects, cut)
    <2>1. 1 \in Heads(s)
      <3>1. Followed(s, 1, 0, cut)
        BY <1>7 DEF Chain
      <3>2. Len(s) >= 1 + 0 /\ 1 + 0 = 1
        BY <1>1
      <3> QED
        BY <3>1, <3>2 DEF Followed
    <2>2. Followed(s, 1 + 1, s[1].rects, cut) /\ s[1].rects \in Nat
      BY <2>1, HeadsCount DEF Chain
    <2>3. 1 \in Nat \ {0} /\ 1 + 1 = 2
      OBVIOUS
    <2>4. Followed(t, 1, s[1].rects, cut)
      BY <1>4, <2>2, <2>3
    <2> QED
      BY <2>1, <2>4
  <1> QED
    BY <1>5, <1>6, <1>7 DEF Chain, t

\* A connection that is closed without a word.
LEMMA ChainCut ==
  ASSUME NEW s, NEW n, NEW cut \in BOOLEAN, Chain(s, n, FALSE)
  PROVE  Chain(s, n, cut)
  <1>1. \A i, k : Followed(s, i, k, FALSE) => Followed(s, i, k, cut)
    BY DEF Followed
  <1> QED
    BY <1>1 DEF Chain

\* A step of the server, of an open connection in the state c.
LEMMA ServerFramed ==
  ASSUME FramingInv, ~conn.closed, UNCHANGED cconn, upstream' \in Seq(FromViewer),
         {cursor', name', events'} \subseteq 0..MaxEvents, cursor' <= events', name' <= events',
         reading' \in BOOLEAN, due' \in BOOLEAN, crossed' \subseteq {"format", "size"},
         NEW c \in Connection, Serves(c)
  PROVE  FramingInv'
  <1> DEFINE n == cconn.rectsLeft
  <1>1. /\ StreamTyped /\ downstream \in Seq(FromServer) /\ n \in Nat
        /\ cursor' \in 0..MaxEvents /\ name' \in 0..MaxEvents
    BY Unpacked DEF FramingInv
  <1>2. Chain(downstream, n, FALSE)
    <2>1. conn.closed = FALSE
      BY <1>1 DEF StreamTyped, Connection
    <2> QED
      BY <2>1 DEF FramingInv
  <1>3. /\ conn' \in Connection /\ downstream' \in Seq(FromServer)
        /\ \/ downstream' = downstream
           \/ \E t : /\ WholeUpdate(t, c.format, c.requested, conn'.closed)
                     /\ downstream' = downstream \o t
    BY <1>1, Served
  <1>4. conn'.closed \in BOOLEAN
    BY <1>3 DEF Connection
  <1> HIDE DEF n
  <1>5. Chain(downstream', n, conn'.closed)
    <2>1. CASE downstream' = downstream
      BY <1>2, <1>4, <2>1, ChainCut
    <2>2. CASE \E t : /\ WholeUpdate(t, c.format, c.requested, conn'.closed)
                      /\ downstream' = downstream \o t
      BY <1>1, <1>2, <1>4, <2>2, ChainLonger
    <2> QED
      BY <1>3, <2>1, <2>2
  <1> QED
    BY <1>1, <1>3, <1>5 DEF FramingInv, StreamTyped, Counted, n

LEMMA ProcessMsgFramed ==
  ASSUME FramingInv, ProcessMsg
  PROVE  FramingInv'
  <1>0. StreamTyped /\ Counted
    BY DEF FramingInv
  <1>1. /\ ~conn.closed /\ upstream # <<>> /\ upstream' = Tail(upstream) /\ reading' = TRUE
        /\ UNCHANGED <<cursor, name, due, cconn, events>>
    BY <1>0, Handled
  <1>2. PICK c \in Connection :
          /\ Serves(c)
          /\ \/ UNCHANGED crossed
             \/ crossed' = crossed \cup Crossing(Head(upstream).size)
    BY <1>0, Handled
  <1>3. crossed' \subseteq {"format", "size"}
    BY <1>0, <1>2, Unpacked DEF Crossing
  <1>4. /\ upstream' \in Seq(FromViewer)
        /\ {cursor', name', events'} \subseteq 0..MaxEvents /\ cursor' <= events' /\ name' <= events'
        /\ reading' \in BOOLEAN /\ due' \in BOOLEAN
    BY <1>0, <1>1, FirstTaken DEF StreamTyped, Counted
  <1> QED
    BY <1>1, <1>2, <1>3, <1>4, ServerFramed

\* One more event keeps the versions behind.
LEMMA Later ==
  ASSUME StreamTyped, Counted, UNCHANGED <<cursor, name>>, Passes
  PROVE  {cursor', name', events'} \subseteq 0..MaxEvents /\ cursor' <= events' /\ name' <= events'
  BY StreamAssumption DEF StreamTyped, Counted, Passes, Event

LEMMA SetStatusFramed ==
  ASSUME FramingInv, NEW view \in BOOLEAN, SetStatus(view)
  PROVE  FramingInv'
  <1>0. StreamTyped /\ Counted /\ upstream \in Seq(FromViewer)
    BY Unpacked DEF FramingInv
  <1>1. /\ ~conn.closed /\ Event /\ UNCHANGED <<reading, cursor, name, due, cconn, upstream>>
        /\ \E c \in Connection : Serves(c)
    BY <1>0, StatusSet
  <1>2. crossed' \subseteq {"format", "size"}
    <2>1. crossed' = IF view THEN crossed \cup Crossing(conn.size)
                                  \cup (IF FormatUnderWay THEN {"format"} ELSE {})
                     ELSE crossed
      BY <1>0, StatusSet
    <2> QED
      BY <1>0, <2>1, Unpacked DEF Crossing
  <1>3. {cursor', name', events'} \subseteq 0..MaxEvents /\ cursor' <= events' /\ name' <= events'
    <2>1. Passes
      BY <1>1 DEF Passes
    <2> QED
      BY <1>0, <1>1, <2>1, Later
  <1>4. reading' \in BOOLEAN /\ due' \in BOOLEAN
    BY <1>0, <1>1 DEF StreamTyped
  <1> QED
    BY <1>0, <1>1, <1>2, <1>3, <1>4, ServerFramed

\* The end of an update: the viewer asks now or later.
LEMMA EndAsks ==
  ASSUME StreamTyped, NEW v \in ViewerState, FramebufferUpdateEnd(v)
  PROVE  \/ RequestNewUpdate(v)
         \/ /\ UNCHANGED <<upstream, crossed>>
            /\ cconn' \in ViewerState /\ cconn'.rectsLeft = v.rectsLeft
            /\ cconn'.size = v.size /\ cconn'.format = v.format /\ cconn'.requestUpdate
  <1>1. CASE /\ cconn' = [v EXCEPT !.requestUpdate = TRUE]
             /\ UNCHANGED <<upstream, crossed>>
    BY <1>1 DEF ViewerState
  <1> QED
    BY <1>1 DEF FramebufferUpdateEnd

\* A message is read: the viewer expects n rectangles from then on, and asks if
\* these are none.
LEMMA Reads ==
  ASSUME FramingInv, ReadFramebufferUpdate \/ ReadRect
  PROVE  LET m == Head(downstream)
             size == IF m.type = "size" THEN m.is ELSE cconn.size IN
         /\ downstream # <<>> /\ downstream' = Tail(downstream)
         /\ UNCHANGED <<conn, reading, cursor, name, due>> /\ Passes
         /\ \E n \in Nat :
              /\ Chain(downstream', n, conn'.closed)
              /\ \/ /\ UNCHANGED <<upstream, crossed>>
                    /\ cconn' \in ViewerState /\ cconn'.rectsLeft = n
                    /\ cconn'.size = size /\ cconn'.format = cconn.format
                    /\ n > 0 \/ cconn'.requestUpdate
                 \/ \E v \in ViewerState :
                      /\ v.rectsLeft = n /\ v.size = size /\ v.format = cconn.format
                      /\ RequestNewUpdate(v)
  <1> DEFINE m == Head(downstream)
             size == IF m.type = "size" THEN m.is ELSE cconn.size
  <1>0. /\ StreamTyped /\ Counted /\ Chain(downstream, cconn.rectsLeft, conn.closed)
        /\ cconn \in ViewerState /\ conn.closed \in BOOLEAN
        /\ downstream \in Seq(FromServer) /\ cconn.rectsLeft \in Nat
    BY Unpacked DEF FramingInv, Connection
  <1>1. CASE ReadFramebufferUpdate
    <2> DEFINE n == downstream[1].rects
    <2>1. /\ cconn.rectsLeft = 0 /\ downstream # <<>> /\ downstream' = Tail(downstream)
          /\ cconn' = [cconn EXCEPT !.rectsLeft = m.rects]
          /\ UNCHANGED <<conn, reading, cursor, name, due, upstream, events, crossed>>
      BY <1>1 DEF ReadFramebufferUpdate, ViewerStep, desktopVars, Passes
    <2>2. m = downstream[1]
      BY <1>0, <2>1, FirstRead
    <2>3. 1 \in Heads(downstream) /\ Chain(Tail(downstream), n, conn.closed)
      <3>1. Chain(downstream, 0, conn.closed)
        BY <1>0, <2>1
      <3>2. \A k \in Nat :
              Chain(downstream, k, conn.closed) /\ k = 0 =>
                1 \in Heads(downstream) /\ Chain(Tail(downstream), n, conn.closed)
        BY <1>0, <2>1, ChainShorter
      <3> QED
        BY <3>1, <3>2
    <2>4. n \in 1..(MaxWidth + 3) /\ n \in Nat /\ n > 0 /\ m.type = "update"
      <3>1. n \in 1..(MaxWidth + 3) /\ n \in Nat /\ m.type = "update"
        BY <1>0, <2>2, <2>3, HeadsCount
      <3> QED
        BY <3>1
    <2> HIDE DEF n
    <2>5. /\ cconn' \in ViewerState /\ cconn'.rectsLeft = n /\ cconn'.size = cconn.size
          /\ cconn'.format = cconn.format
      <3>1. n \in 0..(MaxWidth + 3)
        BY <2>4, StreamAssumption
      <3> QED
        BY <1>0, <2>1, <2>2, <3>1 DEF ViewerState, n
    <2>6. cconn'.size = size /\ Chain(downstream', n, conn'.closed)
      BY <2>1, <2>3, <2>4, <2>5
    <2> QED
      BY <2>1, <2>4, <2>5, <2>6 DEF Passes
  <1>2. CASE ReadRect
    <2> DEFINE v == Decoded(m)
               n == cconn.rectsLeft - 1
    <2>1. /\ cconn.rectsLeft > 0 /\ downstream # <<>> /\ downstream' = Tail(downstream)
          /\ UNCHANGED <<conn, reading, cursor, name, due>>
          /\ \/ v.rectsLeft > 0 /\ cconn' = v /\ UNCHANGED <<upstream, events, crossed>>
             \/ FramebufferUpdateEnd(v) /\ UNCHANGED events
             \/ Event /\ \E f \in Format : FramebufferUpdateEnd(Changed(v, f))
      BY <1>2 DEF ReadRect, ViewerStep, desktopVars
    <2>2. m \in FromServer
      BY <1>0, <2>1, FirstRead
    <2>3. /\ v \in ViewerState /\ v.rectsLeft = n /\ v.format = cconn.format /\ v.size = size
      BY <1>0, <2>1, <2>2, DecodedTyped
    <2>4. Chain(downstream', n, conn'.closed) /\ n \in Nat
      BY <1>0, <2>1, ChainShorter
    <2> HIDE DEF v, n, m, size
    <2>5. ASSUME NEW f \in Format
          PROVE  /\ Changed(v, f) \in ViewerState /\ Changed(v, f).rectsLeft = n
                 /\ Changed(v, f).format = cconn.format /\ Changed(v, f).size = size
      BY <2>3 DEF Changed, ViewerState
    <2>6. ASSUME NEW w \in ViewerState, w.rectsLeft = n, w.size = size, w.format = cconn.format,
                 FramebufferUpdateEnd(w)
          PROVE  \/ /\ UNCHANGED <<upstream, crossed>>
                    /\ cconn' \in ViewerState /\ cconn'.rectsLeft = n
                    /\ cconn'.size = size /\ cconn'.format = cconn.format
                    /\ cconn'.requestUpdate
                 \/ RequestNewUpdate(w)
      BY <1>0, <2>6, EndAsks
    <2>7. CASE v.rectsLeft > 0 /\ cconn' = v /\ UNCHANGED <<upstream, events, crossed>>
      BY <2>1, <2>3, <2>4, <2>7 DEF m, size, Passes
    <2>8. CASE FramebufferUpdateEnd(v) /\ UNCHANGED events
      BY <2>1, <2>3, <2>4, <2>6, <2>8 DEF m, size, Passes
    <2>9. CASE Event /\ \E f \in Format : FramebufferUpdateEnd(Changed(v, f))
      BY <2>1, <2>4, <2>5, <2>6, <2>9 DEF m, size, Passes
    <2> QED
      BY <2>1, <2>7, <2>8, <2>9
  <1> QED
    BY <1>1, <1>2

LEMMA ReadsFramed ==
  ASSUME FramingInv, ReadFramebufferUpdate \/ ReadRect
  PROVE  FramingInv'
  <1>0. StreamTyped /\ Counted /\ conn \in Connection
    BY Unpacked DEF FramingInv
  <1>1. /\ downstream # <<>> /\ downstream' = Tail(downstream)
        /\ UNCHANGED <<conn, reading, cursor, name, due>> /\ Passes
    BY Reads
  <1>2. PICK n \in Nat :
          /\ Chain(downstream', n, conn'.closed)
          /\ \/ /\ UNCHANGED <<upstream, crossed>>
                /\ cconn' \in ViewerState /\ cconn'.rectsLeft = n
             \/ \E v \in ViewerState : v.rectsLeft = n /\ RequestNewUpdate(v)
    BY Reads
  <1>3. /\ cconn' \in ViewerState /\ cconn'.rectsLeft = n /\ upstream' \in Seq(FromViewer)
        /\ crossed' \subseteq {"format", "size"}
    <2>1. CASE /\ UNCHANGED <<upstream, crossed>>
               /\ cconn' \in ViewerState /\ cconn'.rectsLeft = n
      BY <1>0, <2>1, Unpacked
    <2>2. ASSUME NEW v \in ViewerState, v.rectsLeft = n, RequestNewUpdate(v)
          PROVE  /\ cconn' \in ViewerState /\ cconn'.rectsLeft = n /\ upstream' \in Seq(FromViewer)
                 /\ crossed' \subseteq {"format", "size"}
      BY <1>0, <2>2, Asks, Unpacked
    <2> QED
      BY <1>2, <2>1, <2>2
  <1>4. {cursor', name', events'} \subseteq 0..MaxEvents /\ cursor' <= events' /\ name' <= events'
    BY <1>0, <1>1, Later
  <1>5. downstream' \in Seq(FromServer)
    BY <1>0, <1>1, FirstRead
  <1> QED
    BY <1>0, <1>1, <1>2, <1>3, <1>4, <1>5 DEF FramingInv, StreamTyped, Counted

\* A stream that is given up.
LEMMA ErrorFramed ==
  ASSUME FramingInv, ViewerError
  PROVE  FramingInv'
  <1>0. StreamTyped /\ Counted /\ conn \in Connection /\ cconn.rectsLeft \in Nat
    BY Unpacked DEF FramingInv
  <1>1. /\ conn' = [conn EXCEPT !.closed = TRUE] /\ upstream' = <<>> /\ downstream' = <<>>
        /\ upstream' \in Seq(FromViewer) /\ downstream' \in Seq(FromServer)
        /\ UNCHANGED <<reading, cursor, name, due, cconn, events, crossed>>
    BY DEF ViewerError, desktopVars
  <1>2. conn' \in Connection /\ conn'.closed = TRUE
    BY <1>0, <1>1 DEF Connection
  <1>3. Len(downstream') = 0 /\ Heads(downstream') = {}
    BY <1>1 DEF Heads
  <1>4. Chain(downstream', cconn'.rectsLeft, conn'.closed)
    BY <1>0, <1>1, <1>2, <1>3 DEF Chain, Followed
  <1> QED
    BY <1>0, <1>1, <1>2, <1>4 DEF FramingInv, StreamTyped, Counted

LEMMA TellsFramed ==
  ASSUME FramingInv,
         PaintCompleted \/ Refresh \/ \E f \in Format, e \in Encodings : GetOptions(f, e)
  PROVE  FramingInv'
  <1>0. StreamTyped /\ Counted /\ cconn \in ViewerState
    BY Unpacked DEF FramingInv
  <1>1. UNCHANGED <<conn, reading, cursor, name, due, downstream>> /\ Passes
    BY <1>0, Tells
  <1>2. /\ cconn' \in ViewerState /\ cconn'.rectsLeft = cconn.rectsLeft
        /\ upstream' \in Seq(FromViewer) /\ crossed' \subseteq {"format", "size"}
    <2>1. CASE RequestNewUpdate(cconn)
      BY <1>0, <2>1, Asks, Unpacked
    <2>2. CASE /\ UNCHANGED crossed
               /\ cconn' \in ViewerState /\ cconn'.rectsLeft = cconn.rectsLeft
               /\ upstream' \in Seq(FromViewer)
      BY <1>0, <2>2, Unpacked
    <2> QED
      BY <1>0, <2>1, <2>2, Tells
  <1>3. {cursor', name', events'} \subseteq 0..MaxEvents /\ cursor' <= events' /\ name' <= events'
    BY <1>0, <1>1, Later
  <1> QED
    BY <1>0, <1>1, <1>2, <1>3 DEF FramingInv, StreamTyped, Counted

\* Something is on its way to the viewer after an update was written.
LEMMA NotEmptied ==
  ASSUME StreamTyped, NEW t, NEW f, NEW cols, NEW cut, WholeUpdate(t, f, cols, cut)
  PROVE  downstream \o t # <<>>
  <1>1. t \in Seq(FromServer) /\ Len(t) >= 1 /\ downstream \in Seq(FromServer)
    BY Unpacked DEF WholeUpdate
  <1>2. Len(downstream \o t) = Len(downstream) + Len(t) /\ Len(downstream) \in Nat /\ Len(t) \in Nat
    BY <1>1, ConcatProperties, LenProperties
  <1> DEFINE u == downstream \o t
  <1> HIDE DEF u
  <1>3. Len(u) # 0
    BY <1>1, <1>2 DEF u
  <1> QED
    BY <1>3 DEF u

-----------------------------------------------------------------------------
(* Never without a request.                                                *)

RequestSent == \E i \in DOMAIN upstream : IsRequest(upstream[i])

LEMMA NeverStarvedIs ==
  /\ NeverStarved <=>
       (~conn.closed /\ conn.view =>
          \/ RequestSent \/ conn.requested # {} \/ downstream # <<>>
          \/ cconn.rectsLeft > 0 \/ cconn.requestUpdate)
  /\ NeverStarved' <=>
       (~conn'.closed /\ conn'.view =>
          \/ RequestSent' \/ conn'.requested # {} \/ downstream' # <<>>
          \/ cconn'.rectsLeft > 0 \/ cconn'.requestUpdate)
  BY DEF NeverStarved, RequestSent, IsRequest

\* A request is taken off the stream, and noted if the viewer may see.
LEMMA TakenStarves ==
  ASSUME FramingInv, NeverStarved, ProcessMsg
  PROVE  NeverStarved'
  <1> DEFINE m == Head(upstream)
  <1>0. StreamTyped /\ cursor \in 0..MaxEvents /\ name \in 0..MaxEvents
    BY DEF FramingInv, StreamTyped
  <1>1. /\ ~conn.closed /\ upstream # <<>> /\ upstream' = Tail(upstream)
        /\ UNCHANGED <<cursor, name, cconn>>
        /\ IsRequest(m) => m.size \in Column
    BY <1>0, Handled
  <1>2. PICK c \in Connection :
          /\ Serves(c) /\ c.view = conn.view
          /\ \/ ~IsRequest(m) /\ c.requested = conn.requested
             \/ /\ IsRequest(m)
                /\ c.requested = IF conn.view THEN conn.requested \cup 1..m.size ELSE conn.requested
    BY <1>0, Handled
  <1>3. /\ conn'.view = c.view
        /\ \/ downstream' = downstream /\ conn'.requested = c.requested
           \/ \E t : WholeUpdate(t, c.format, c.requested, conn'.closed) /\ downstream' = downstream \o t
    BY <1>0, <1>1, <1>2, Served
  <1>4. CASE \E t : WholeUpdate(t, c.format, c.requested, conn'.closed) /\ downstream' = downstream \o t
    BY <1>0, <1>4, NotEmptied, NeverStarvedIs
  <1>5. CASE downstream' = downstream /\ conn'.requested = c.requested
    <2>1. CASE IsRequest(m)
      <3>1. c.view => c.requested # {}
        <4>1. 1 \in 1..m.size
          BY <1>1, <2>1, StreamAssumption DEF Column
        <4> QED
          BY <1>2, <2>1, <4>1
      <3> QED
        BY <1>3, <1>5, <3>1, NeverStarvedIs
    <2>2. CASE ~IsRequest(m)
      <3>1. RequestSent => RequestSent'
        <4>1. /\ m = upstream[1]
              /\ \A i \in DOMAIN upstream' : i \in Nat \ {0} /\ upstream'[i] = upstream[i + 1]
              /\ \A i \in DOMAIN upstream : i \in Nat /\ (i # 1 => i - 1 \in DOMAIN upstream')
          BY <1>0, <1>1, FirstTaken
        <4>2. ASSUME NEW i \in DOMAIN upstream, IsRequest(upstream[i])
              PROVE  i - 1 \in DOMAIN upstream' /\ IsRequest(upstream'[i - 1])
          <5>1. i # 1 /\ (i - 1) + 1 = i
            BY <2>2, <4>1, <4>2
          <5> QED
            BY <4>1, <4>2, <5>1
        <4> QED
          BY <4>2 DEF RequestSent
      <3>2. c.requested = conn.requested
        BY <1>2, <2>2
      <3> QED
        BY <1>1, <1>2, <1>3, <1>5, <3>1, <3>2, NeverStarvedIs
    <2> QED
      BY <2>1, <2>2
  <1> QED
    BY <1>3, <1>4, <1>5

LEMMA ServerStarves ==
  ASSUME FramingInv, NeverStarved,
         \/ AnswerRequests \/ TryUpdate \/ CursorChange \/ SetDesktopName
         \/ \E x \in Column : Draw(x) \/ PixelBufferChange(x)
  PROVE  NeverStarved'
  <1>0. StreamTyped /\ Counted
    BY DEF FramingInv
  <1>1. /\ ~conn.closed /\ UNCHANGED <<cconn, upstream>>
        /\ {cursor', name', events'} \subseteq 0..MaxEvents
    BY <1>0, ServerSteps
  <1>2. PICK c \in Connection : Serves(c) /\ c.requested = conn.requested /\ c.view = conn.view
    BY <1>0, ServerSteps
  <1>3. /\ conn'.view = c.view
        /\ \/ downstream' = downstream /\ conn'.requested = c.requested
           \/ \E t : WholeUpdate(t, c.format, c.requested, conn'.closed) /\ downstream' = downstream \o t
    BY <1>0, <1>1, <1>2, Served
  <1>4. CASE \E t : WholeUpdate(t, c.format, c.requested, conn'.closed) /\ downstream' = downstream \o t
    BY <1>0, <1>4, NotEmptied, NeverStarvedIs
  <1>5. CASE downstream' = downstream /\ conn'.requested = c.requested
    <2>1. RequestSent' = RequestSent
      BY <1>1 DEF RequestSent
    <2> QED
      BY <1>1, <1>2, <1>3, <1>5, <2>1, NeverStarvedIs
  <1> QED
    BY <1>3, <1>4, <1>5

LEMMA StatusStarves ==
  ASSUME FramingInv, NEW view \in BOOLEAN, SetStatus(view)
  PROVE  NeverStarved'
  <1>0. StreamTyped
    BY DEF FramingInv
  <1>1. conn.size \in Column
    BY <1>0, StatusSet
  <1>2. PICK c \in Connection :
          /\ conn' = c /\ c.view = view
          /\ c.requested = IF view THEN conn.requested \cup 1..conn.size ELSE conn.requested
    BY <1>0, StatusSet
  <1>3. 1 \in 1..conn.size
    BY <1>1, StreamAssumption DEF Column
  <1>4. conn'.view => conn'.requested # {}
    BY <1>2, <1>3
  <1> QED
    BY <1>4, NeverStarvedIs

LEMMA ViewerStarves ==
  ASSUME FramingInv, NeverStarved,
         \/ ReadFramebufferUpdate \/ ReadRect
         \/ PaintCompleted \/ Refresh \/ \E f \in Format, e \in Encodings : GetOptions(f, e)
  PROVE  NeverStarved'
  <1>0. StreamTyped /\ cconn \in ViewerState
    BY Unpacked DEF FramingInv
  <1>1. ASSUME NEW v \in ViewerState, RequestNewUpdate(v) PROVE NeverStarved'
    <2>1. RequestSent'
      BY <1>0, <1>1, Asks DEF RequestSent
    <2> QED
      BY <2>1, NeverStarvedIs
  <1>2. CASE ReadFramebufferUpdate \/ ReadRect
    <2>1. PICK n \in Nat :
            \/ cconn'.rectsLeft = n /\ (n > 0 \/ cconn'.requestUpdate)
            \/ \E v \in ViewerState : RequestNewUpdate(v)
      BY <1>2, Reads
    <2>2. CASE cconn'.rectsLeft = n /\ (n > 0 \/ cconn'.requestUpdate)
      BY <2>2, NeverStarvedIs
    <2> QED
      BY <1>1, <2>1, <2>2
  <1>3. CASE PaintCompleted \/ Refresh \/ \E f \in Format, e \in Encodings : GetOptions(f, e)
    <2>1. UNCHANGED <<conn, downstream>>
      BY <1>0, <1>3, Tells
    <2>2. \/ RequestNewUpdate(cconn)
          \/ /\ cconn'.rectsLeft = cconn.rectsLeft
             /\ \A i \in DOMAIN upstream : i \in DOMAIN upstream' /\ upstream'[i] = upstream[i]
             /\ \/ cconn'.requestUpdate = cconn.requestUpdate
                \/ \E i \in DOMAIN upstream' : IsRequest(upstream'[i])
      BY <1>0, <1>3, Tells
    <2>3. CASE /\ cconn'.rectsLeft = cconn.rectsLeft
               /\ \A i \in DOMAIN upstream : i \in DOMAIN upstream' /\ upstream'[i] = upstream[i]
               /\ \/ cconn'.requestUpdate = cconn.requestUpdate
                  \/ \E i \in DOMAIN upstream' : IsRequest(upstream'[i])
      <3>1. RequestSent => RequestSent'
        BY <2>3 DEF RequestSent
      <3>2. RequestSent' \/ cconn'.requestUpdate = cconn.requestUpdate
        BY <2>3 DEF RequestSent
      <3> QED
        BY <2>1, <2>3, <3>1, <3>2, NeverStarvedIs
    <2> QED
      BY <1>0, <1>1, <2>2, <2>3
  <1> QED
    BY <1>2, <1>3

LEMMA NeverStarvedNext ==
  ASSUME FramingInv, NeverStarved, [StreamNext]_streamVars
  PROVE  NeverStarved'
  <1>1. CASE UNCHANGED streamVars
    BY <1>1 DEF streamVars, NeverStarved
  <1>2. CASE ViewerError
    <2>1. conn'.closed
      BY <1>2, Unpacked DEF ViewerError, FramingInv, Connection
    <2> QED
      BY <2>1, NeverStarvedIs
  <1> QED
    BY <1>1, <1>2, TakenStarves, ServerStarves, StatusStarves, ViewerStarves DEF StreamNext

-----------------------------------------------------------------------------
(* The formats.                                                            *)

\* What can be decoded in the format f.
In(m, f) == m.type \in {"pixels", "cursor"} => m.format = f

\* A new format is on its way only while nothing else is: the server will write
\* in it what it is asked for after it.
FormatAhead(i) ==
  /\ upstream[i].format = cconn.format
  /\ conn.requested = {} /\ downstream = <<>>
  /\ \A j \in 1..(i - 1) : upstream[j].type = "encodings"

FormatInv ==
  "format" \notin crossed =>
    /\ \A i \in DOMAIN downstream : In(downstream[i], cconn.format)
    /\ ~conn.closed =>
         /\ \A i \in DOMAIN upstream : IsFormat(upstream[i]) => FormatAhead(i)
         /\ \/ conn.format = cconn.format
            \/ \E i \in DOMAIN upstream : IsFormat(upstream[i])

\* What is written in the format of a viewer can be decoded by it.
LEMMA WrittenIn ==
  ASSUME StreamTyped, NEW f, \A i \in DOMAIN downstream : In(downstream[i], f),
         NEW t, NEW cols, NEW cut, WholeUpdate(t, f, cols, cut), downstream' = downstream \o t
  PROVE  \A i \in DOMAIN downstream' : In(downstream'[i], f)
  <1> DEFINE L == Len(downstream)
  <1>1. /\ downstream \in Seq(FromServer) /\ L \in Nat /\ DOMAIN downstream = 1..L
        /\ t \in Seq(FromServer) /\ Len(t) \in Nat /\ t[1].type = "update"
        /\ \A i \in 2..Len(t) : Body(t[i], f, cols)
    BY Unpacked, LenProperties DEF WholeUpdate
  <1>2. /\ DOMAIN downstream' = 1..(L + Len(t))
        /\ \A i \in 1..(L + Len(t)) :
             downstream'[i] = IF i <= L THEN downstream[i] ELSE t[i - L]
    BY <1>1, ConcatProperties, LenProperties
  <1> HIDE DEF L
  <1> SUFFICES ASSUME NEW i \in DOMAIN downstream' PROVE In(downstream'[i], f)
    OBVIOUS
  <1>3. CASE i <= L
    <2>1. i \in DOMAIN downstream /\ downstream'[i] = downstream[i]
      BY <1>1, <1>2, <1>3
    <2> QED
      BY <2>1
  <1>4. CASE ~(i <= L)
    <2>1. i - L \in 1..Len(t) /\ downstream'[i] = t[i - L]
      BY <1>1, <1>2, <1>4
    <2>2. CASE i - L = 1
      BY <1>1, <2>1, <2>2 DEF In
    <2>3. CASE i - L # 1
      <3>1. i - L \in 2..Len(t)
        BY <1>1, <2>1, <2>3
      <3> QED
        BY <1>1, <2>1, <3>1 DEF In, Body
    <2> QED
      BY <2>2, <2>3
  <1> QED
    BY <1>3, <1>4

\* The server goes on in the viewer's format, or in one that is still to come.
LEMMA ServesFormat ==
  ASSUME StreamTyped, "format" \notin crossed, ~conn.closed, FormatInv,
         cursor' \in 0..MaxEvents, name' \in 0..MaxEvents,
         NEW c \in Connection, Serves(c), c.requested # {} => c.format = cconn.format,
         UNCHANGED cconn
  PROVE  /\ \A i \in DOMAIN downstream' : In(downstream'[i], cconn'.format)
         /\ conn'.format = c.format
         /\ c.requested = {} =>
              downstream' = downstream /\ conn'.requested = {} /\ conn'.closed = c.closed
  <1>1. /\ conn'.format = c.format
        /\ \/ /\ downstream' = downstream
              /\ conn'.requested = c.requested /\ conn'.closed = c.closed
           \/ /\ c.requested # {}
              /\ \E t : /\ WholeUpdate(t, c.format, c.requested, conn'.closed)
                        /\ downstream' = downstream \o t
    BY Served
  <1>2. \A i \in DOMAIN downstream : In(downstream[i], cconn.format)
    BY DEF FormatInv
  <1>3. CASE /\ downstream' = downstream
             /\ conn'.requested = c.requested /\ conn'.closed = c.closed
    BY <1>1, <1>2, <1>3
  <1>4. CASE /\ c.requested # {}
             /\ \E t : /\ WholeUpdate(t, c.format, c.requested, conn'.closed)
                       /\ downstream' = downstream \o t
    BY <1>1, <1>2, <1>4, WrittenIn
  <1> QED
    BY <1>1, <1>3, <1>4

LEMMA TakenFormat ==
  ASSUME StreamTyped, FormatInv, ProcessMsg
  PROVE  FormatInv'
  <1> DEFINE m == Head(upstream)
  <1>1. /\ ~conn.closed /\ upstream # <<>> /\ upstream' = Tail(upstream)
        /\ UNCHANGED <<cursor, name, cconn>>
    BY Handled
  <1>2. PICK c \in Connection :
          /\ Serves(c) /\ ~c.closed
          /\ c.format = IF IsFormat(m) THEN m.format ELSE conn.format
          /\ \/ ~IsRequest(m) /\ c.requested = conn.requested /\ UNCHANGED crossed
             \/ /\ IsRequest(m) /\ ~IsFormat(m) /\ downstream' = downstream
                /\ crossed \subseteq crossed'
    BY Handled
  <1>3. /\ m = upstream[1] /\ 1 \in DOMAIN upstream
        /\ \A i \in DOMAIN upstream' :
             i \in Nat \ {0} /\ i + 1 \in DOMAIN upstream /\ upstream'[i] = upstream[i + 1]
        /\ \A i \in DOMAIN upstream : i \in Nat /\ (i # 1 => i - 1 \in DOMAIN upstream')
    BY <1>1, FirstTaken
  <1> HIDE DEF m
  <1> SUFFICES ASSUME "format" \notin crossed' PROVE FormatInv'
    BY DEF FormatInv
  <1>4. /\ "format" \notin crossed
        /\ \A i \in DOMAIN upstream : IsFormat(upstream[i]) => FormatAhead(i)
        /\ conn.format = cconn.format \/ \E i \in DOMAIN upstream : IsFormat(upstream[i])
    BY <1>1, <1>2 DEF FormatInv
  <1>5. ASSUME NEW i \in DOMAIN upstream', IsFormat(upstream'[i])
        PROVE  m.type = "encodings" /\ FormatAhead(i + 1) /\ IsFormat(upstream[i + 1])
    <2>1. i + 1 \in DOMAIN upstream /\ upstream'[i] = upstream[i + 1] /\ 1 \in 1..((i + 1) - 1)
      BY <1>3
    <2>2. FormatAhead(i + 1)
      BY <1>4, <1>5, <2>1
    <2>3. upstream[1].type = "encodings"
      BY <2>1, <2>2 DEF FormatAhead
    <2> QED
      BY <1>3, <1>5, <2>1, <2>2, <2>3
  <1>6. IsFormat(m) => m.format = cconn.format /\ conn.requested = {}
    BY <1>3, <1>4 DEF FormatAhead
  <1>7. (\A i \in DOMAIN upstream' : ~IsFormat(upstream'[i])) => c.format = cconn.format
    <2>1. ASSUME \A i \in DOMAIN upstream' : ~IsFormat(upstream'[i]), ~IsFormat(m)
          PROVE  conn.format = cconn.format
      <3>1. ASSUME NEW i \in DOMAIN upstream PROVE ~IsFormat(upstream[i])
        <4>1. CASE i = 1
          BY <1>3, <2>1, <4>1
        <4>2. CASE i # 1
          <5>1. i - 1 \in DOMAIN upstream' /\ (i - 1) + 1 = i
            BY <1>3, <4>2
          <5> QED
            BY <1>3, <2>1, <5>1
        <4> QED
          BY <4>1, <4>2
      <3> QED
        BY <1>4, <3>1
    <2> QED
      BY <1>2, <1>6, <2>1
  <1>8. CASE IsRequest(m)
    <2>1. \A i \in DOMAIN upstream' : ~IsFormat(upstream'[i])
      BY <1>5, <1>8 DEF IsRequest
    <2>2. downstream' = downstream
      BY <1>2, <1>8
    <2>3. conn'.format = c.format
      BY <1>1, <1>2, Served DEF StreamTyped
    <2> QED
      BY <1>1, <1>4, <1>7, <2>1, <2>2, <2>3 DEF FormatInv
  <1>9. CASE ~IsRequest(m)
    <2>1. c.requested = conn.requested
      BY <1>2, <1>9
    <2>2. ASSUME NEW i \in DOMAIN upstream', IsFormat(upstream'[i]) PROVE c.requested = {}
      BY <1>5, <2>1, <2>2 DEF FormatAhead
    <2>3. c.requested # {} => c.format = cconn.format
      BY <1>7, <2>2
    <2>4. /\ \A i \in DOMAIN downstream' : In(downstream'[i], cconn'.format)
          /\ conn'.format = c.format
          /\ c.requested = {} => downstream' = downstream /\ conn'.requested = {}
      <3>1. cursor' \in 0..MaxEvents /\ name' \in 0..MaxEvents
        BY <1>1 DEF StreamTyped
      <3> QED
        BY <1>1, <1>2, <1>4, <2>3, <3>1, ServesFormat
    <2>5. ASSUME NEW i \in DOMAIN upstream', IsFormat(upstream'[i])
          PROVE  FormatAhead(i)'
      <3>1. FormatAhead(i + 1) /\ upstream'[i] = upstream[i + 1] /\ i \in Nat \ {0}
        BY <1>3, <1>5, <2>5
      <3>2. ASSUME NEW j \in 1..(i - 1) PROVE upstream'[j].type = "encodings"
        <4>1. j \in DOMAIN upstream'
          <5>1. DOMAIN upstream' = 1..(Len(upstream) - 1)
            BY <1>1, FirstTaken
          <5> QED
            BY <3>1, <5>1, Unpacked
        <4>2. j + 1 \in 1..((i + 1) - 1) /\ upstream'[j] = upstream[j + 1]
          BY <1>3, <3>1, <4>1
        <4> QED
          BY <3>1, <4>2 DEF FormatAhead
      <3>3. conn'.requested = {} /\ downstream' = <<>>
        BY <2>2, <2>4, <2>5, <3>1 DEF FormatAhead
      <3> QED
        BY <1>1, <3>1, <3>2, <3>3 DEF FormatAhead
    <2> QED
      BY <1>1, <1>7, <2>4, <2>5 DEF FormatInv
  <1> QED
    BY <1>8, <1>9

LEMMA ServerFormat ==
  ASSUME StreamTyped, Counted, FormatInv,
         \/ AnswerRequests \/ TryUpdate \/ CursorChange \/ SetDesktopName
         \/ \E x \in Column : Draw(x) \/ PixelBufferChange(x)
  PROVE  FormatInv'
  <1>1. /\ ~conn.closed /\ UNCHANGED <<cconn, upstream, crossed>>
        /\ cursor' \in 0..MaxEvents /\ name' \in 0..MaxEvents
    BY ServerSteps
  <1>2. PICK c \in Connection :
          Serves(c) /\ c.requested = conn.requested /\ c.format = conn.format
    BY ServerSteps
  <1> SUFFICES ASSUME "format" \notin crossed PROVE FormatInv'
    BY <1>1 DEF FormatInv
  <1>3. /\ \A i \in DOMAIN upstream : IsFormat(upstream[i]) => FormatAhead(i)
        /\ conn.format = cconn.format \/ \E i \in DOMAIN upstream : IsFormat(upstream[i])
    BY <1>1 DEF FormatInv
  <1>4. c.requested # {} => c.format = cconn.format
    BY <1>2, <1>3 DEF FormatAhead
  <1>5. /\ \A i \in DOMAIN downstream' : In(downstream'[i], cconn'.format)
        /\ conn'.format = c.format
        /\ c.requested = {} => downstream' = downstream /\ conn'.requested = {}
    BY <1>1, <1>2, <1>4, ServesFormat
  <1>6. ASSUME NEW i \in DOMAIN upstream', IsFormat(upstream'[i]) PROVE FormatAhead(i)'
    BY <1>1, <1>2, <1>3, <1>5, <1>6 DEF FormatAhead
  <1> QED
    BY <1>1, <1>2, <1>3, <1>5, <1>6 DEF FormatInv

LEMMA StatusFormat ==
  ASSUME StreamTyped, FormatInv, NEW view \in BOOLEAN, SetStatus(view)
  PROVE  FormatInv'
  <1>1. /\ ~conn.closed /\ UNCHANGED <<cconn, upstream>> /\ downstream' = downstream
        /\ crossed' = IF view THEN crossed \cup Crossing(conn.size)
                                    \cup (IF FormatUnderWay THEN {"format"} ELSE {})
                      ELSE crossed
    BY StatusSet
  <1>2. /\ conn'.format = conn.format
        /\ ~view => conn'.requested = conn.requested
    BY StatusSet
  <1> SUFFICES ASSUME "format" \notin crossed' PROVE FormatInv'
    BY DEF FormatInv
  <1>3. "format" \notin crossed /\ (view => ~FormatUnderWay)
    BY <1>1
  <1>4. /\ \A i \in DOMAIN downstream : In(downstream[i], cconn.format)
        /\ \A i \in DOMAIN upstream : IsFormat(upstream[i]) => FormatAhead(i)
        /\ conn.format = cconn.format \/ \E i \in DOMAIN upstream : IsFormat(upstream[i])
    BY <1>1, <1>3 DEF FormatInv
  <1>5. ASSUME NEW i \in DOMAIN upstream', IsFormat(upstream'[i]) PROVE FormatAhead(i)'
    <2>1. ~view
      BY <1>1, <1>3, <1>5 DEF FormatUnderWay, IsFormat
    <2> QED
      BY <1>1, <1>2, <1>4, <1>5, <2>1 DEF FormatAhead
  <1> QED
    BY <1>1, <1>2, <1>4, <1>5 DEF FormatInv

\* The viewer changes its format when it asks: then, if nothing is under way, the
\* server has nothing to write before it knows.
LEMMA AsksFormat ==
  ASSUME StreamTyped, FormatInv, UNCHANGED conn,
         NEW v \in ViewerState, v.format = cconn.format, RequestNewUpdate(v),
         \/ downstream' = downstream
         \/ downstream # <<>> /\ downstream' = Tail(downstream)
  PROVE  FormatInv'
  <1> SUFFICES ASSUME "format" \notin crossed' PROVE FormatInv'
    BY DEF FormatInv
  <1> DEFINE L == Len(upstream)
  <1>1. /\ cconn'.format = IF v.formatChange THEN v.wants ELSE v.format
        /\ crossed' = IF v.formatChange /\ UpdateUnderWay THEN crossed \cup {"format"} ELSE crossed
        /\ L \in Nat /\ DOMAIN upstream = 1..L /\ DOMAIN upstream' \subseteq Nat \ {0}
        /\ \A i \in DOMAIN upstream : i \in DOMAIN upstream' /\ upstream'[i] = upstream[i]
        /\ \A i \in DOMAIN upstream' :
             \/ i \in DOMAIN upstream
             \/ IsFormat(upstream'[i]) =>
                  v.formatChange /\ upstream'[i].format = v.wants /\ i = L + 1
        /\ v.formatChange => L + 1 \in DOMAIN upstream' /\ IsFormat(upstream'[L + 1])
    BY Asks
  <1> HIDE DEF L
  <1>2. /\ "format" \notin crossed
        /\ \A i \in DOMAIN downstream : In(downstream[i], cconn.format)
        /\ ~conn.closed =>
             /\ \A i \in DOMAIN upstream : IsFormat(upstream[i]) => FormatAhead(i)
             /\ conn.format = cconn.format \/ \E i \in DOMAIN upstream : IsFormat(upstream[i])
    BY <1>1 DEF FormatInv
  <1>3. CASE v.formatChange
    <2>1. /\ conn.requested = {} /\ downstream' = <<>>
          /\ \A i \in DOMAIN upstream : upstream[i].type = "encodings"
      BY <1>1, <1>2, <1>3 DEF UpdateUnderWay
    <2>2. ASSUME NEW i \in DOMAIN upstream', IsFormat(upstream'[i]) PROVE FormatAhead(i)'
      <3>1. i \notin DOMAIN upstream
        BY <1>1, <2>1, <2>2 DEF IsFormat
      <3>2. upstream'[i].format = cconn'.format /\ i = L + 1
        BY <1>1, <1>3, <2>2, <3>1
      <3>3. \A j \in 1..(i - 1) : upstream'[j].type = "encodings"
        BY <1>1, <2>1, <3>2
      <3> QED
        BY <2>1, <3>2, <3>3 DEF FormatAhead
    <2>3. \A i \in DOMAIN downstream' : In(downstream'[i], cconn'.format)
      BY <2>1
    <2> QED
      BY <1>1, <1>3, <2>2, <2>3 DEF FormatInv
  <1>4. CASE ~v.formatChange
    <2>1. cconn'.format = cconn.format
      BY <1>1, <1>4
    <2>2. \A i \in DOMAIN downstream' : In(downstream'[i], cconn'.format)
      <3>1. CASE downstream' = downstream
        BY <1>2, <2>1, <3>1
      <3>2. CASE downstream # <<>> /\ downstream' = Tail(downstream)
        BY <1>2, <2>1, <3>2, FirstRead
      <3> QED
        BY <3>1, <3>2
    <2>3. ASSUME ~conn.closed, NEW i \in DOMAIN upstream', IsFormat(upstream'[i])
          PROVE  FormatAhead(i)'
      <3>1. i \in DOMAIN upstream /\ upstream'[i] = upstream[i] /\ i \in 1..L
        BY <1>1, <1>4, <2>3
      <3>2. FormatAhead(i)
        BY <1>2, <2>3, <3>1
      <3>3. \A j \in 1..(i - 1) : upstream'[j] = upstream[j]
        BY <1>1, <3>1
      <3>4. downstream' = <<>>
        BY <3>2 DEF FormatAhead
      <3> QED
        BY <2>1, <3>1, <3>2, <3>3, <3>4 DEF FormatAhead
    <2>4. ~conn.closed =>
            conn'.format = cconn'.format \/ \E i \in DOMAIN upstream' : IsFormat(upstream'[i])
      BY <1>1, <1>2, <2>1
    <2> QED
      BY <2>2, <2>3, <2>4 DEF FormatInv
  <1> QED
    BY <1>3, <1>4

LEMMA ReadsFormat ==
  ASSUME FramingInv, FormatInv, ReadFramebufferUpdate \/ ReadRect
  PROVE  FormatInv'
  <1>0. StreamTyped
    BY DEF FramingInv
  <1>1. downstream # <<>> /\ downstream' = Tail(downstream) /\ UNCHANGED conn
    BY Reads
  <1>2. \/ UNCHANGED <<upstream, crossed>> /\ cconn'.format = cconn.format
        \/ \E v \in ViewerState : v.format = cconn.format /\ RequestNewUpdate(v)
    BY Reads
  <1>3. CASE UNCHANGED <<upstream, crossed>> /\ cconn'.format = cconn.format
    <2>1. \A i \in DOMAIN downstream' : i + 1 \in DOMAIN downstream /\ downstream'[i] = downstream[i + 1]
      BY <1>0, <1>1, FirstRead
    <2> QED
      BY <1>1, <1>3, <2>1 DEF FormatInv, FormatAhead
  <1> QED
    BY <1>0, <1>1, <1>2, <1>3, AsksFormat

LEMMA TellsFormat ==
  ASSUME StreamTyped, FormatInv,
         PaintCompleted \/ Refresh \/ \E f \in Format, e \in Encodings : GetOptions(f, e)
  PROVE  FormatInv'
  <1>1. UNCHANGED <<conn, downstream>> /\ cconn \in ViewerState
    BY Tells, Unpacked
  <1>2. CASE RequestNewUpdate(cconn)
    BY <1>1, <1>2, AsksFormat
  <1>3. CASE /\ UNCHANGED crossed /\ cconn'.format = cconn.format
             /\ upstream' \in Seq(FromViewer)
             /\ \A i \in DOMAIN upstream : i \in DOMAIN upstream' /\ upstream'[i] = upstream[i]
             /\ \A i \in DOMAIN upstream' : i \in DOMAIN upstream \/ ~IsFormat(upstream'[i])
    <2> SUFFICES ASSUME "format" \notin crossed PROVE FormatInv'
      BY <1>3 DEF FormatInv
    <2>1. ASSUME ~conn.closed, NEW i \in DOMAIN upstream', IsFormat(upstream'[i])
          PROVE  FormatAhead(i)'
      <3>1. i \in DOMAIN upstream /\ upstream'[i] = upstream[i]
        BY <1>3, <2>1
      <3>2. FormatAhead(i)
        BY <2>1, <3>1 DEF FormatInv
      <3>3. \A j \in 1..(i - 1) : j \in DOMAIN upstream
        BY <3>1, Unpacked
      <3> QED
        BY <1>1, <1>3, <3>1, <3>2, <3>3 DEF FormatAhead
    <2> QED
      BY <1>1, <1>3, <2>1 DEF FormatInv
  <1> QED
    BY <1>2, <1>3, Tells

LEMMA FormatNext ==
  ASSUME FramingInv, FormatInv, [StreamNext]_streamVars
  PROVE  FormatInv'
  <1>0. StreamTyped /\ Counted
    BY DEF FramingInv
  <1>1. CASE UNCHANGED streamVars
    BY <1>1 DEF streamVars, FormatInv, FormatAhead
  <1>2. CASE ViewerError
    <2>1. conn'.closed /\ downstream' = <<>>
      BY <1>0, <1>2, Unpacked DEF ViewerError, Connection
    <2> QED
      BY <2>1 DEF FormatInv
  <1> QED
    BY <1>0, <1>1, <1>2, TakenFormat, ServerFormat, StatusFormat, ReadsFormat, TellsFormat DEF StreamNext

-----------------------------------------------------------------------------
(* The sizes.                                                              *)

\* FitsAfter() of the messages s to a viewer that knows a desktop of size n.
Fits(s, n, x, i) ==
  /\ (\A k \in 1..i : s[k].type # "size") => x <= n
  /\ \A k \in 1..i :
       s[k].type = "size" /\ (\A l \in (k + 1)..i : s[l].type # "size") => x <= s[k].is

Shown(i) == downstream[i].type = "pixels" => FitsAfter(downstream[i].at, i - 1)

\* Every rectangle fits where it will be read, and whatever is requested would fit
\* if it were written next.
SizeInv ==
  "size" \notin crossed =>
    /\ \A i \in DOMAIN downstream : Shown(i)
    /\ ~conn.closed => \A x \in conn.requested : FitsAfter(x, Len(downstream))

LEMMA FitsIs ==
  /\ \A x, i : FitsAfter(x, i) <=> Fits(downstream, cconn.size, x, i)
  /\ \A x, i : FitsAfter(x, i)' <=> Fits(downstream', cconn'.size, x, i)
  BY DEF FitsAfter, Fits

\* More messages, none of which is a size, change nothing.
LEMMA FitsOver ==
  ASSUME NEW s, NEW u, NEW n, NEW x, NEW L \in Nat, NEW M \in Nat, L <= M, Fits(s, n, x, L),
         \A k \in 1..L : u[k] = s[k], \A k \in (L + 1)..M : u[k].type # "size"
  PROVE  Fits(u, n, x, M)
  <1>1. \A k \in 1..L : k \in 1..M
    OBVIOUS
  <1>2. ASSUME NEW k \in 1..M, u[k].type = "size"
        PROVE  /\ k \in 1..L
               /\ \A l \in (k + 1)..L : l \in 1..L /\ l \in (k + 1)..M
    <2>1. k \notin (L + 1)..M
      BY <1>2
    <2> QED
      BY <2>1
  <1>3. (\A k \in 1..M : u[k].type # "size") => x <= n
    BY <1>1 DEF Fits
  <1>4. ASSUME NEW k \in 1..M, u[k].type = "size", \A l \in (k + 1)..M : u[l].type # "size"
        PROVE  x <= u[k].is
    <2>1. k \in 1..L /\ s[k].type = "size" /\ s[k].is = u[k].is
      BY <1>2, <1>4
    <2>2. \A l \in (k + 1)..L : s[l].type # "size"
      BY <1>2, <1>4
    <2> QED
      BY <2>1, <2>2 DEF Fits
  <1> QED
    BY <1>3, <1>4 DEF Fits

\* Once the viewer has read the first message.
LEMMA FitsTail ==
  ASSUME NEW s, NEW u, NEW n, NEW x, NEW i \in Nat, Fits(s, n, x, i + 1),
         \A k \in 1..i : u[k] = s[k + 1]
  PROVE  Fits(u, IF s[1].type = "size" THEN s[1].is ELSE n, x, i)
  <1> DEFINE m == IF s[1].type = "size" THEN s[1].is ELSE n
  <1>1. \A k \in 1..(i + 1) : k = 1 \/ (k - 1 \in 1..i /\ (k - 1) + 1 = k)
    OBVIOUS
  <1>2. ASSUME \A k \in 1..i : u[k].type # "size" PROVE x <= m
    <2>1. \A k \in 1..(i + 1) : k = 1 \/ s[k].type # "size"
      BY <1>1, <1>2
    <2>2. 1 \in 1..(i + 1) /\ \A l \in (1 + 1)..(i + 1) : l \in 1..(i + 1) /\ l # 1
      OBVIOUS
    <2> QED
      BY <2>1, <2>2 DEF Fits
  <1>3. ASSUME NEW k \in 1..i, u[k].type = "size", \A l \in (k + 1)..i : u[l].type # "size"
        PROVE  x <= u[k].is
    <2>1. k + 1 \in 1..(i + 1) /\ s[k + 1] = u[k]
      OBVIOUS
    <2>2. \A l \in ((k + 1) + 1)..(i + 1) : l - 1 \in (k + 1)..i /\ l - 1 \in 1..i /\ (l - 1) + 1 = l
      OBVIOUS
    <2>3. \A l \in ((k + 1) + 1)..(i + 1) : s[l].type # "size"
      BY <1>3, <2>2
    <2> QED
      BY <1>3, <2>1, <2>3 DEF Fits
  <1> QED
    BY <1>2, <1>3 DEF Fits

\* The columns of a desktop fit if its last one does.
LEMMA FitsLess ==
  ASSUME StreamTyped, NEW w \in Column, NEW x \in 1..w, FitsAfter(w, Len(downstream))
  PROVE  FitsAfter(x, Len(downstream))
  <1> DEFINE L == Len(downstream)
  <1>1. /\ L \in Nat /\ cconn.size \in Nat /\ w \in Nat /\ x \in Nat /\ x <= w
        /\ downstream \in Seq(FromServer) /\ DOMAIN downstream = 1..L
    BY Unpacked, StreamAssumption DEF Column
  <1>2. \A k \in 1..L : downstream[k].type = "size" => downstream[k].is \in Nat
    <2>1. \A k \in 1..L : downstream[k] \in FromServer
      BY <1>1
    <2> QED
      BY <2>1, ServerMessages DEF Column
  <1> HIDE DEF L
  <1>3. FitsAfter(w, L)
    BY DEF L
  <1>4. FitsAfter(x, L)
    BY <1>1, <1>2, <1>3 DEF FitsAfter
  <1> QED
    BY <1>4 DEF L

\* An update shows what was requested, and a new size only after that.
LEMMA WrittenFits ==
  ASSUME StreamTyped, UNCHANGED cconn, \A i \in DOMAIN downstream : Shown(i),
         NEW t, NEW f, NEW cols, NEW cut, WholeUpdate(t, f, cols, cut),
         downstream' = downstream \o t,
         \A x \in cols : FitsAfter(x, Len(downstream))
  PROVE  \A i \in DOMAIN downstream' : Shown(i)'
  <1> DEFINE L == Len(downstream)
             s == downstream
             u == downstream'
             n == cconn.size
  <1>1. /\ s \in Seq(FromServer) /\ L \in Nat /\ DOMAIN s = 1..L
        /\ t \in Seq(FromServer) /\ Len(t) \in Nat /\ t[1].type = "update"
        /\ \A i \in 2..Len(t) : Body(t[i], f, cols)
        /\ \A i, j \in 1..Len(t) : i < j /\ t[i].type = "size" => t[j].type # "pixels"
    BY Unpacked, LenProperties DEF WholeUpdate
  <1>2. /\ DOMAIN u = 1..(L + Len(t))
        /\ \A i \in 1..(L + Len(t)) : u[i] = IF i <= L THEN s[i] ELSE t[i - L]
    BY <1>1, ConcatProperties, LenProperties
  <1>3. /\ \A i \in DOMAIN s : s[i].type = "pixels" => Fits(s, n, s[i].at, i - 1)
        /\ \A x \in cols : Fits(s, n, x, L)
        /\ cconn'.size = n
    BY FitsIs DEF Shown
  <1> SUFFICES ASSUME NEW i \in DOMAIN u, u[i].type = "pixels" PROVE Fits(u, n, u[i].at, i - 1)
    BY <1>3, FitsIs DEF Shown
  <1> HIDE DEF L, s, u, n
  <1>4. CASE i <= L
    <2>1. i \in DOMAIN s /\ u[i] = s[i] /\ i - 1 \in Nat
      BY <1>1, <1>2, <1>4
    <2>2. \A k \in 1..(i - 1) : u[k] = s[k]
      BY <1>1, <1>2, <1>4
    <2>3. \A k \in ((i - 1) + 1)..(i - 1) : u[k].type # "size"
      BY <2>1
    <2>4. Fits(s, n, u[i].at, i - 1) /\ i - 1 <= i - 1
      BY <1>3, <2>1
    <2> QED
      BY <2>1, <2>2, <2>3, <2>4, FitsOver
  <1>5. CASE ~(i <= L)
    <2>1. i - L \in 1..Len(t) /\ u[i] = t[i - L] /\ i - 1 \in Nat /\ L <= i - 1
      BY <1>1, <1>2, <1>5
    <2>2. i - L # 1
      BY <1>1, <2>1
    <2>3. i - L \in 2..Len(t)
      BY <1>1, <2>1, <2>2
    <2>4. u[i].at \in cols
      BY <1>1, <2>1, <2>3 DEF Body
    <2>5. \A k \in 1..L : u[k] = s[k]
      BY <1>1, <1>2
    <2>6. ASSUME NEW k \in (L + 1)..(i - 1) PROVE u[k].type # "size"
      <3>1. k - L \in 1..Len(t) /\ k - L < i - L /\ u[k] = t[k - L]
        BY <1>1, <1>2, <1>5
      <3> QED
        BY <1>1, <2>1, <3>1
    <2>7. Fits(s, n, u[i].at, L)
      BY <1>3, <2>4
    <2> QED
      BY <1>1, <2>1, <2>5, <2>6, <2>7, FitsOver
  <1> QED
    BY <1>4, <1>5

\* The server goes on with requests that fit.
LEMMA ServesSize ==
  ASSUME StreamTyped, UNCHANGED cconn, \A i \in DOMAIN downstream : Shown(i),
         cursor' \in 0..MaxEvents, name' \in 0..MaxEvents,
         NEW c \in Connection, Serves(c),
         \A x \in c.requested : FitsAfter(x, Len(downstream))
  PROVE  /\ \A i \in DOMAIN downstream' : Shown(i)'
         /\ ~conn'.closed => \A x \in conn'.requested : FitsAfter(x, Len(downstream))'
  <1>1. \/ downstream' = downstream /\ conn'.requested = c.requested
        \/ /\ conn'.closed \/ conn'.requested = {}
           /\ \E t : /\ WholeUpdate(t, c.format, c.requested, conn'.closed)
                     /\ downstream' = downstream \o t
    BY Served
  <1>2. CASE downstream' = downstream /\ conn'.requested = c.requested
    BY <1>2 DEF Shown, FitsAfter
  <1>3. CASE /\ conn'.closed \/ conn'.requested = {}
             /\ \E t : /\ WholeUpdate(t, c.format, c.requested, conn'.closed)
                       /\ downstream' = downstream \o t
    BY <1>3, WrittenFits
  <1> QED
    BY <1>1, <1>2, <1>3

\* A request that does not cross a change of the size is one that fits.
LEMMA RequestFits ==
  ASSUME StreamTyped, NEW w \in Column, "size" \notin Crossing(w)
  PROVE  \A x \in 1..w : FitsAfter(x, Len(downstream))
  <1>1. FitsAfter(w, Len(downstream))
    BY DEF Crossing
  <1> QED
    BY <1>1, FitsLess

LEMMA TakenSize ==
  ASSUME StreamTyped, SizeInv, ProcessMsg
  PROVE  SizeInv'
  <1> DEFINE m == Head(upstream)
  <1>1. /\ ~conn.closed /\ UNCHANGED <<cursor, name, cconn>>
        /\ IsRequest(m) => m.size \in Column
    BY Handled
  <1>2. PICK c \in Connection :
          /\ Serves(c)
          /\ \/ c.requested = conn.requested /\ UNCHANGED crossed
             \/ /\ IsRequest(m)
                /\ c.requested = IF conn.view THEN conn.requested \cup 1..m.size
                                 ELSE conn.requested
                /\ crossed' = IF conn.view THEN crossed \cup Crossing(m.size) ELSE crossed
    BY Handled
  <1> SUFFICES ASSUME "size" \notin crossed' PROVE SizeInv'
    BY DEF SizeInv
  <1>3. "size" \notin crossed
    BY <1>2
  <1>4. /\ \A i \in DOMAIN downstream : Shown(i)
        /\ \A x \in conn.requested : FitsAfter(x, Len(downstream))
    BY <1>1, <1>3 DEF SizeInv
  <1>5. \A x \in c.requested : FitsAfter(x, Len(downstream))
    <2>1. CASE c.requested = conn.requested
      BY <1>4, <2>1
    <2>2. CASE /\ IsRequest(m) /\ conn.view
               /\ c.requested = conn.requested \cup 1..m.size
               /\ crossed' = crossed \cup Crossing(m.size)
      BY <1>1, <1>4, <2>2, RequestFits
    <2> QED
      BY <1>2, <2>1, <2>2
  <1>6. cursor' \in 0..MaxEvents /\ name' \in 0..MaxEvents
    BY <1>1 DEF StreamTyped
  <1> QED
    BY <1>1, <1>2, <1>4, <1>5, <1>6, ServesSize DEF SizeInv

LEMMA ServerSize ==
  ASSUME StreamTyped, Counted, SizeInv,
         \/ AnswerRequests \/ TryUpdate \/ CursorChange \/ SetDesktopName
         \/ \E x \in Column : Draw(x) \/ PixelBufferChange(x)
  PROVE  SizeInv'
  <1>1. /\ ~conn.closed /\ UNCHANGED <<cconn, crossed>>
        /\ cursor' \in 0..MaxEvents /\ name' \in 0..MaxEvents
    BY ServerSteps
  <1>2. PICK c \in Connection : Serves(c) /\ c.requested = conn.requested
    BY ServerSteps
  <1> SUFFICES ASSUME "size" \notin crossed PROVE SizeInv'
    BY <1>1 DEF SizeInv
  <1>3. /\ \A i \in DOMAIN downstream : Shown(i)
        /\ \A x \in conn.requested : FitsAfter(x, Len(downstream))
    BY <1>1 DEF SizeInv
  <1> QED
    BY <1>1, <1>2, <1>3, ServesSize DEF SizeInv

LEMMA StatusSize ==
  ASSUME StreamTyped, SizeInv, NEW view \in BOOLEAN, SetStatus(view)
  PROVE  SizeInv'
  <1>1. /\ ~conn.closed /\ UNCHANGED <<cursor, name, cconn>> /\ conn.size \in Column
        /\ crossed' = IF view THEN crossed \cup Crossing(conn.size)
                                    \cup (IF FormatUnderWay THEN {"format"} ELSE {})
                      ELSE crossed
    BY StatusSet
  <1>2. PICK c \in Connection :
          /\ Serves(c)
          /\ c.requested = IF view THEN conn.requested \cup 1..conn.size ELSE conn.requested
    BY StatusSet
  <1> SUFFICES ASSUME "size" \notin crossed' PROVE SizeInv'
    BY DEF SizeInv
  <1>3. "size" \notin crossed /\ (view => "size" \notin Crossing(conn.size))
    BY <1>1
  <1>4. /\ \A i \in DOMAIN downstream : Shown(i)
        /\ \A x \in conn.requested : FitsAfter(x, Len(downstream))
    BY <1>1, <1>3 DEF SizeInv
  <1>5. \A x \in c.requested : FitsAfter(x, Len(downstream))
    BY <1>1, <1>2, <1>3, <1>4, RequestFits
  <1>6. cursor' \in 0..MaxEvents /\ name' \in 0..MaxEvents
    BY <1>1 DEF StreamTyped
  <1> QED
    BY <1>1, <1>2, <1>4, <1>5, <1>6, ServesSize DEF SizeInv

LEMMA ReadsSize ==
  ASSUME FramingInv, SizeInv, ReadFramebufferUpdate \/ ReadRect
  PROVE  SizeInv'
  <1> DEFINE L == Len(downstream)
  <1>0. StreamTyped /\ downstream \in Seq(FromServer) /\ L \in Nat
    BY Unpacked DEF FramingInv
  <1>1. downstream # <<>> /\ downstream' = Tail(downstream) /\ UNCHANGED conn
    BY Reads
  <1>2. /\ Head(downstream) = downstream[1]
        /\ Len(downstream') = L - 1 /\ L - 1 \in Nat /\ (L - 1) + 1 = L
        /\ DOMAIN downstream' = 1..(L - 1) /\ DOMAIN downstream = 1..L
        /\ \A i \in 1..(L - 1) : downstream'[i] = downstream[i + 1]
    <2>1. /\ Tail(downstream) \in Seq(FromServer) /\ Len(Tail(downstream)) = L - 1
          /\ \A i \in 1..Len(Tail(downstream)) : Tail(downstream)[i] = downstream[i + 1]
      BY <1>0, <1>1, HeadTailProperties
    <2>2. L >= 1
      BY <1>0, <1>1, EmptySeq
    <2>3. DOMAIN downstream' = 1..(L - 1) /\ DOMAIN downstream = 1..L
      BY <1>0, <1>1, <2>1, LenProperties
    <2> QED
      BY <1>0, <1>1, <2>1, <2>2, <2>3, FirstRead
  <1> DEFINE size == IF downstream[1].type = "size" THEN downstream[1].is ELSE cconn.size
  <1>3. cconn'.size = size /\ ("size" \in crossed => "size" \in crossed')
    <2>1. \/ UNCHANGED crossed /\ cconn'.size = size
          \/ \E v \in ViewerState : v.size = size /\ RequestNewUpdate(v)
      BY <1>2, Reads
    <2>2. ASSUME NEW v \in ViewerState, v.size = size, RequestNewUpdate(v)
          PROVE  cconn'.size = size /\ ("size" \in crossed => "size" \in crossed')
      BY <1>0, <2>2, Asks
    <2> QED
      BY <2>1, <2>2
  <1> SUFFICES ASSUME "size" \notin crossed PROVE SizeInv'
    BY <1>3 DEF SizeInv
  <1> HIDE DEF L, size
  <1>4. ASSUME NEW x, NEW i \in 0..(L - 1), FitsAfter(x, i + 1) PROVE FitsAfter(x, i)'
    <2>1. Fits(downstream, cconn.size, x, i + 1)
      BY <1>4, FitsIs
    <2>2. i \in Nat /\ \A k \in 1..i : downstream'[k] = downstream[k + 1]
      BY <1>2
    <2>3. Fits(downstream', size, x, i)
      BY <2>1, <2>2, FitsTail DEF size
    <2> QED
      BY <1>3, <2>3, FitsIs
  <1>5. ASSUME NEW i \in DOMAIN downstream' PROVE Shown(i)'
    <2>1. /\ i + 1 \in DOMAIN downstream /\ i - 1 \in 0..(L - 1) /\ (i - 1) + 1 = i /\ (i + 1) - 1 = i
          /\ downstream'[i] = downstream[i + 1]
      BY <1>2
    <2>2. Shown(i + 1)
      BY <2>1 DEF SizeInv
    <2>3. downstream'[i].type = "pixels" => FitsAfter(downstream'[i].at, i)
      BY <2>1, <2>2 DEF Shown
    <2> QED
      BY <1>4, <2>1, <2>3 DEF Shown
  <1>6. ASSUME ~conn'.closed, NEW x \in conn'.requested PROVE FitsAfter(x, Len(downstream))'
    <2>1. FitsAfter(x, L)
      BY <1>1, <1>6 DEF SizeInv, L
    <2>2. L - 1 \in 0..(L - 1) /\ (L - 1) + 1 = L
      BY <1>2
    <2>3. FitsAfter(x, (L - 1) + 1)
      BY <2>1, <2>2
    <2>4. Fits(downstream', cconn'.size, x, L - 1)
      BY <1>4, <2>2, <2>3, FitsIs
    <2>5. Fits(downstream', cconn'.size, x, Len(downstream'))
      BY <1>2, <2>4
    <2> QED
      BY <2>5 DEF Fits, FitsAfter
  <1> QED
    BY <1>5, <1>6 DEF SizeInv

LEMMA TellsSize ==
  ASSUME StreamTyped, SizeInv,
         PaintCompleted \/ Refresh \/ \E f \in Format, e \in Encodings : GetOptions(f, e)
  PROVE  SizeInv'
  <1>1. UNCHANGED <<conn, downstream>> /\ cconn \in ViewerState
    BY Tells, Unpacked
  <1>2. cconn'.size = cconn.size /\ ("size" \in crossed => "size" \in crossed')
    <2>1. RequestNewUpdate(cconn) \/ (UNCHANGED crossed /\ cconn'.size = cconn.size)
      BY Tells
    <2>2. CASE RequestNewUpdate(cconn)
      BY <1>1, <2>2, Asks
    <2> QED
      BY <2>1, <2>2
  <1> QED
    BY <1>1, <1>2 DEF SizeInv, Shown, FitsAfter

LEMMA SizeNext ==
  ASSUME FramingInv, SizeInv, [StreamNext]_streamVars
  PROVE  SizeInv'
  <1>0. StreamTyped /\ Counted
    BY DEF FramingInv
  <1>1. CASE UNCHANGED streamVars
    BY <1>1 DEF streamVars, SizeInv, Shown, FitsAfter
  <1>2. CASE ViewerError
    <2>1. conn'.closed /\ downstream' = <<>>
      BY <1>0, <1>2, Unpacked DEF ViewerError, Connection
    <2> QED
      BY <2>1 DEF SizeInv
  <1> QED
    BY <1>0, <1>1, <1>2, TakenSize, ServerSize, StatusSize, ReadsSize, TellsSize DEF StreamNext

-----------------------------------------------------------------------------
(* The invariants hold.                                                    *)

StreamInv == FramingInv /\ NeverStarved /\ FormatInv /\ SizeInv

LEMMA StreamInvInit == StreamInit => StreamInv
  <1> SUFFICES ASSUME StreamInit PROVE StreamInv
    OBVIOUS
  <1>1. PICK w \in Column, f \in Format, g \in Format, e \in Encodings :
          /\ conn = [size |-> w, format |-> f, supports |-> Unset, requested |-> {}, changed |-> {},
                     newCursor |-> FALSE, newSize |-> FALSE, newName |-> FALSE, view |-> TRUE,
                     closed |-> FALSE]
          /\ cconn = [size |-> w, format |-> g, wants |-> g, supports |-> e,
                      formatChange |-> FALSE, encodingChange |-> FALSE, requestUpdate |-> FALSE,
                      rectsLeft |-> 0, cursor |-> 0, name |-> 0]
          /\ upstream = <<SetPixelFormat(g), SetEncodings(e), Request(w, FALSE)>>
    BY DEF StreamInit
  <1>2. /\ SetPixelFormat(g) \in FromViewer /\ SetPixelFormat(g).type = "format"
        /\ SetPixelFormat(g).format = g
        /\ SetEncodings(e) \in FromViewer /\ SetEncodings(e).type = "encodings"
        /\ Request(w, FALSE) \in FromViewer /\ Request(w, FALSE).type = "request"
    BY ViewerMakes
  <1>3. /\ upstream \in Seq(FromViewer) /\ DOMAIN upstream = 1..3
        /\ upstream[1] = SetPixelFormat(g) /\ upstream[2] = SetEncodings(e)
        /\ upstream[3] = Request(w, FALSE)
    <2> DEFINE a == SetPixelFormat(g)
               b == SetEncodings(e)
               c == Request(w, FALSE)
    <2>1. upstream = <<a, b, c>> /\ a \in FromViewer /\ b \in FromViewer /\ c \in FromViewer
      BY <1>1, <1>2
    <2> HIDE DEF a, b, c
    <2>2. /\ upstream \in Seq(FromViewer) /\ Len(upstream) = 3
          /\ upstream[1] = a /\ upstream[2] = b /\ upstream[3] = c
      BY <2>1
    <2>3. DOMAIN upstream = 1..3
      BY <2>2, LenProperties
    <2> QED
      BY <2>2, <2>3 DEF a, b, c
  <1>4. /\ downstream = <<>> /\ downstream \in Seq(FromServer) /\ reading = FALSE /\ due = FALSE
        /\ cursor = 0 /\ name = 0 /\ events = 0 /\ crossed = {}
    BY DEF StreamInit
  <1>5. conn \in Connection /\ cconn \in ViewerState
    <2>1. 0 \in 0..(MaxWidth + 3) /\ 0 \in 0..MaxEvents
      BY StreamAssumption
    <2> QED
      BY <1>1, <2>1 DEF Connection, ViewerState
  <1>6. StreamTyped /\ Counted
    <2>1. {cursor, name, events} \subseteq 0..MaxEvents /\ Counted
      BY <1>4, StreamAssumption DEF Counted
    <2> QED
      BY <1>3, <1>4, <1>5, <2>1 DEF StreamTyped
  <1>7. /\ upstream[1].type = "format" /\ upstream[1].format = g
         /\ upstream[2].type = "encodings" /\ upstream[3].type = "request"
         /\ 1 \in DOMAIN upstream /\ 3 \in DOMAIN upstream
         /\ \A i \in DOMAIN upstream : i = 1 \/ i = 2 \/ i = 3
    <2>1. /\ upstream[1].type = "format" /\ upstream[1].format = g
          /\ upstream[2].type = "encodings" /\ upstream[3].type = "request"
      BY <1>2, <1>3
    <2>2. /\ 1 \in DOMAIN upstream /\ 3 \in DOMAIN upstream
          /\ \A i \in DOMAIN upstream : i = 1 \/ i = 2 \/ i = 3
      BY <1>3
    <2> QED
      BY <2>1, <2>2
  <1>8. FramingInv
    <2>1. Len(downstream) = 0 /\ Heads(downstream) = {} /\ cconn.rectsLeft = 0
      BY <1>1, <1>4 DEF Heads
    <2> QED
      BY <1>6, <2>1 DEF FramingInv, Chain, Followed
  <1>9. NeverStarved
    <2>1. 3 \in DOMAIN upstream /\ IsRequest(upstream[3])
      BY <1>7 DEF IsRequest
    <2> QED
      BY <2>1, NeverStarvedIs DEF RequestSent
  <1>10. FormatInv
    <2>1. /\ 1 \in DOMAIN upstream /\ IsFormat(upstream[1])
          /\ \A i \in DOMAIN upstream : IsFormat(upstream[i]) => i = 1
      BY <1>7 DEF IsFormat
    <2>2. FormatAhead(1)
      BY <1>1, <1>4, <1>7 DEF FormatAhead
    <2> QED
      BY <1>4, <2>1, <2>2 DEF FormatInv
  <1>11. SizeInv
    BY <1>1, <1>4 DEF SizeInv
  <1> QED
    BY <1>8, <1>9, <1>10, <1>11 DEF StreamInv

LEMMA FramingNext ==
  ASSUME FramingInv, [StreamNext]_streamVars
  PROVE  FramingInv'
  <1>0. StreamTyped /\ Counted
    BY DEF FramingInv
  <1>1. CASE UNCHANGED streamVars
    BY <1>1 DEF streamVars, desktopVars, FramingInv, StreamTyped, Counted
  <1>2. CASE \/ AnswerRequests \/ TryUpdate \/ CursorChange \/ SetDesktopName
             \/ \E x \in Column : Draw(x) \/ PixelBufferChange(x)
    <2>1. /\ ~conn.closed /\ UNCHANGED <<cconn, upstream, crossed>>
          /\ {cursor', name', events'} \subseteq 0..MaxEvents /\ cursor' <= events' /\ name' <= events'
          /\ reading' \in BOOLEAN /\ due' \in BOOLEAN
          /\ \E c \in Connection : Serves(c)
      BY <1>0, <1>2, ServerSteps
    <2>2. upstream' \in Seq(FromViewer) /\ crossed' \subseteq {"format", "size"}
      BY <1>0, <2>1, Unpacked
    <2> QED
      BY <2>1, <2>2, ServerFramed
  <1> QED
    BY <1>1, <1>2, ProcessMsgFramed, SetStatusFramed, ReadsFramed, ErrorFramed, TellsFramed
       DEF StreamNext

LEMMA StreamInvariance == StreamSpec => []StreamInv
  <1>1. StreamInv /\ [StreamNext]_streamVars => StreamInv'
    BY FramingNext, NeverStarvedNext, FormatNext, SizeNext DEF StreamInv
  <1> QED
    BY <1>1, StreamInvInit, PTL DEF StreamSpec

-----------------------------------------------------------------------------
(* The theorems, which hold however often the panel hides the desktop and  *)
(* the user refreshes.                                                     *)

\* Every header announces the rectangles that follow it, unless the update's end
\* throws and with it ends the connection (writeFramebufferUpdateStart() and
\* ...End() of SMsgWriterV3).
THEOREM CountsHold == StreamSpec => []StreamFramed
  <1>1. StreamInv => StreamFramed
    <2> SUFFICES ASSUME FramingInv PROVE StreamFramed
      BY DEF StreamInv
    <2> DEFINE L == Len(downstream)
               n == cconn.rectsLeft
    <2>1. /\ StreamTyped /\ L \in Nat /\ DOMAIN downstream = 1..L /\ n \in Nat
          /\ downstream \in Seq(FromServer) /\ Updates = Heads(downstream)
      BY Unpacked DEF FramingInv, Updates, Heads
    <2> SUFFICES ASSUME ~conn.closed
                 PROVE  /\ \A i \in DOMAIN downstream : i < n + 1 => i \notin Updates
                        /\ n + 1 \in Updates \cup {L + 1}
                        /\ \A i \in Updates : i + downstream[i].rects + 1 \in Updates \cup {L + 1}
      BY <2>1 DEF StreamFramed
    <2>2. Chain(downstream, n, FALSE)
      <3>1. conn.closed = FALSE
        BY <2>1 DEF StreamTyped, Connection
      <3> QED
        BY <3>1 DEF FramingInv
    <2>3. Followed(downstream, 1, n, FALSE)
      BY <2>2 DEF Chain
    <2>4. ASSUME NEW i \in DOMAIN downstream, i < n + 1 PROVE i \notin Updates
      BY <2>1, <2>3, <2>4 DEF Followed
    <2>5. n + 1 \in Updates \cup {L + 1}
      BY <2>1, <2>3 DEF Followed
    <2>6. ASSUME NEW i \in Updates
          PROVE  i + downstream[i].rects + 1 \in Updates \cup {L + 1}
      <3>1. i \in Nat /\ downstream[i].rects \in Nat
        BY <2>1, HeadsCount
      <3>2. Followed(downstream, i + 1, downstream[i].rects, FALSE)
        BY <2>1, <2>2 DEF Chain
      <3>3. i + 1 + downstream[i].rects = i + downstream[i].rects + 1
        BY <3>1
      <3> QED
        BY <2>1, <3>1, <3>2, <3>3 DEF Followed
    <2> QED
      BY <2>4, <2>5, <2>6
  <1> QED
    BY <1>1, StreamInvariance, PTL

LEMMA HeadIs ==
  ASSUME StreamTyped, downstream # <<>>
  PROVE  Head(downstream) = downstream[1] /\ 1 \in DOMAIN downstream
  BY Unpacked, EmptySeq, HeadTailProperties

\* The viewer decodes every rectangle in the format in which the server wrote it,
\* unless it changed the format while an update was under way that it had not
\* asked for with requestNewUpdate() (CConn) or the panel asked for one before
\* the new format had arrived (setStatus()).
THEOREM DecodesAsWritten == StreamSpec => []FormatsAgree
  <1>1. StreamInv => FormatsAgree
    <2> SUFFICES ASSUME StreamInv, downstream # <<>>, "format" \notin crossed
                 PROVE  ~Garbled(Head(downstream))
      BY DEF FormatsAgree
    <2>1. Head(downstream) = downstream[1] /\ 1 \in DOMAIN downstream
      BY HeadIs DEF StreamInv, FramingInv
    <2>2. In(downstream[1], cconn.format)
      BY <2>1 DEF StreamInv, FormatInv
    <2> QED
      BY <2>1, <2>2 DEF Garbled, In
  <1> QED
    BY <1>1, StreamInvariance, PTL

\* And no rectangle lies outside the desktop that the viewer knows when it reads it
\* (CMsgReader's "Rect too big"), unless some request was for more than the viewer
\* will know by then.
THEOREM NoRectTooBig == StreamSpec => []RectsFit
  <1>1. StreamInv => RectsFit
    <2> SUFFICES ASSUME StreamInv, downstream # <<>>, "size" \notin crossed
                 PROVE  ~TooBig(Head(downstream))
      BY DEF RectsFit
    <2>1. StreamTyped /\ Head(downstream) = downstream[1] /\ 1 \in DOMAIN downstream
      BY HeadIs DEF StreamInv, FramingInv
    <2> SUFFICES ASSUME downstream[1].type = "pixels" PROVE ~(downstream[1].at > cconn.size)
      BY <2>1 DEF TooBig
    <2>2. FitsAfter(downstream[1].at, 0)
      <3>1. Shown(1)
        BY <2>1 DEF StreamInv, SizeInv
      <3>2. FitsAfter(downstream[1].at, 1 - 1)
        BY <3>1 DEF Shown
      <3> QED
        BY <3>2
    <2>3. downstream[1].at <= cconn.size
      BY <2>2 DEF FitsAfter
    <2>4. downstream[1].at \in Nat /\ cconn.size \in Nat
      <3>1. downstream[1] \in FromServer
        BY <2>1, Unpacked
      <3> QED
        BY <2>1, <3>1, Unpacked, ServerMessages DEF Column
    <2> QED
      BY <2>3, <2>4
  <1> QED
    BY <1>1, StreamInvariance, PTL

\* A viewer that may see the desktop always has a request or an update under way, or
\* is about to ask (requestNewUpdate() of CConn and setStatus() of the server).
THEOREM AlwaysAsked == StreamSpec => []NeverStarved
  <1>1. StreamInv => NeverStarved
    BY DEF StreamInv
  <1> QED
    BY <1>1, StreamInvariance, PTL

=============================================================================
