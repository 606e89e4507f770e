----------------------------- MODULE Handshake -----------------------------
(***************************************************************************)
(* The start of a connection: SConnection, with the overrides of           *)
(* VNCSConnectionST, against a viewer.  A viewer is CConnection (the C++   *)
(* viewers) or RfbProto (the Java viewer, which speaks the Tight           *)
(* extensions); both pick the version and the types the same way and       *)
(* differ in what they do with the type "Tight".                           *)
(*                                                                         *)
(* A message is one element of a FIFO channel; a read of part of a message *)
(* blocks.  The server's state INVALID never outlives the handler that     *)
(* sets it: the exception closes the connection.                           *)
(***************************************************************************)
EXTENDS Integers, Sequences

CONSTANTS
  Offers,        \* the values of the parameter SecurityTypes
  ServerMinors,  \* the minor versions the server announces
  Viewers        \* the viewers: their implementation and highest version

SecType == {"None", "VncAuth"}

ASSUME HandshakeAssumption ==
  /\ Offers \subseteq Seq(SecType)
  /\ ServerMinors \subseteq {3, 8}
  /\ Viewers \subseteq [java : BOOLEAN, minor : {3, 7, 8}]

VARIABLES
  offer,        \* SSecurityFactory::getSecTypes()
  viewer,       \* the viewer that connects
  knows,        \* its user types the server's password
  sState,       \* SConnection::state_
  sMinor,       \* the server's cp.minorVersion
  sSec,         \* SConnection::security, by its type
  sTight,       \* the server's cp.tightExtensionsEnabled
  closeReason,  \* VNCSConnectionST::closeReason
  admitted,     \* history: the server has entered the session
  cState,       \* CConnection::state_, or where RfbProto reads
  cMinor,       \* the viewer's cp.minorVersion
  cSec,         \* CConnection::security, by its type
  cTight,       \* RfbProto.protocolTightVNC
  toClient, toServer

setup      == <<offer, viewer, knows>>
serverVars == <<sState, sMinor, sSec, sTight, closeReason, admitted>>
clientVars == <<cState, cMinor, cSec, cTight>>
vars       == <<setup, serverVars, clientVars, toClient, toServer>>

-----------------------------------------------------------------------------
(* Messages.                                                               *)

Message(kind, body) == [kind |-> kind, body |-> body]

Version(minor)  == Message("version", minor)
Result(ok)      == Message("result", ok)
Challenge       == Message("challenge", "bytes")
Tunnels         == Message("tunnels", "none")

ToClient ==
  { Version(m) : m \in {3, 8} }
    \cup { Message("type33", t) : t \in SecType \cup {"Invalid"} }
    \cup { Message("types", Append(l, "Tight")) : l \in Offers }
    \cup { Message("caps", l) : l \in Offers \cup {<<>>} }
    \cup { Result(ok) : ok \in BOOLEAN }
    \cup { Challenge, Tunnels, Message("serverInit", "desktop"), Message("interaction", "caps") }

ToServer ==
  { Version(m) : m \in {3, 7, 8} }
    \cup { Message("type", t) : t \in SecType \cup {"Tight"} }
    \cup { Message("authType", t) : t \in SecType }
    \cup { Message("response", ok) : ok \in BOOLEAN }
    \cup { Message("clientInit", "shared") }

ServerReads(kind) ==
  /\ toServer # <<>>
  /\ Head(toServer).kind = kind
  /\ toServer' = Tail(toServer)
  /\ UNCHANGED <<setup, clientVars>>

ClientReads(kind) ==
  /\ toClient # <<>>
  /\ Head(toClient).kind = kind
  /\ toClient' = Tail(toClient)
  /\ UNCHANGED <<setup, serverVars>>

ServerWrites(messages) == toClient' = toClient \o messages
ClientWrites(messages) == toServer' = toServer \o messages

Offered == { offer[i] : i \in DOMAIN offer }

\* Mutants: the result comes with 3.7 already; None never has a result.
ResultDueFrom37(minor, type) == minor >= 7 \/ type # "None"
ResultDueForPassword(minor, type) == type # "None"

ResultDue(minor, type) == minor >= 8 \/ type # "None"

-----------------------------------------------------------------------------
(* SConnection.                                                            *)

Closes(reason) == sState' = "CLOSING" /\ closeReason' = reason
Enters(state)  == sState' = state /\ UNCHANGED closeReason

ResultOf(minor, type, ok) ==
  IF ResultDue(minor, type) THEN <<Result(ok)>> ELSE <<>>

\* approveConnection(true); authSuccess() throws when the desktop does not start.
Accepts(written, minor, type) ==
  /\ ServerWrites(written \o ResultOf(minor, type, TRUE))
  /\ Enters("INITIALISATION") \/ Closes("no desktop")

\* The end of processSecurityMsg(): queryConnection() accepts, rejects or
\* asks the user.  The handler of the rejection's exception writes a result
\* of its own.
Authenticated(written, minor, type) ==
  \/ Accepts(written, minor, type)
  \/ /\ ServerWrites(written \o ResultOf(minor, type, FALSE) \o <<Result(FALSE)>>)
     /\ Closes("rejected")
  \/ ServerWrites(written) /\ Enters("QUERYING")

\* The first processSecurityMsg() with a new security object.
StartSecurity(written, minor, type) ==
  /\ sSec' = type
  /\ \/ type = "None" /\ Authenticated(written, minor, type)
     \/ type = "VncAuth" /\ ServerWrites(written \o <<Challenge>>) /\ Enters("SECURITY")

ProcessVersionMsg ==
  /\ sState = "PROTOCOL_VERSION"
  /\ ServerReads("version")
  /\ sMinor' = Head(toServer).body
  /\ \/ /\ sMinor' = 3 /\ offer = <<>>
        /\ ServerWrites(<<Message("type33", "Invalid")>>)
        /\ Closes("no type")
        /\ UNCHANGED sSec
     \/ /\ sMinor' = 3 /\ offer # <<>>
        /\ StartSecurity(<<Message("type33", Head(offer))>>, 3, Head(offer))
     \/ /\ sMinor' # 3
        /\ ServerWrites(<<Message("types", Append(offer, "Tight"))>>)
        /\ Enters("SECURITY_TYPE")
        /\ UNCHANGED sSec
  /\ UNCHANGED <<sTight, admitted>>

ProcessSecurityType(type) ==
  \/ type \in Offered /\ StartSecurity(<<>>, sMinor, type)
  \/ type \notin Offered /\ Closes("type not available") /\ UNCHANGED <<sSec, toClient>>

\* offerTunneling() and offerAuthentication().
OfferTight ==
  \/ /\ offer = <<>>
     /\ ServerWrites(<<Tunnels>>) /\ Closes("no type") /\ UNCHANGED sSec
  \/ /\ Offered = {"None"}
     /\ StartSecurity(<<Tunnels, Message("caps", <<>>)>>, sMinor, "None")
  \/ /\ "VncAuth" \in Offered
     /\ ServerWrites(<<Tunnels, Message("caps", offer)>>)
     /\ Enters("TIGHT_AUTH_TYPE")
     /\ UNCHANGED sSec

ProcessSecurityTypeMsg ==
  /\ sState = "SECURITY_TYPE"
  /\ ServerReads("type")
  /\ \/ Head(toServer).body = "Tight" /\ sTight' = TRUE /\ OfferTight
     \/ /\ Head(toServer).body # "Tight"
        /\ ProcessSecurityType(Head(toServer).body)
        /\ UNCHANGED sTight
  /\ UNCHANGED <<sMinor, admitted>>

ProcessAuthTypeMsg ==
  /\ sState = "TIGHT_AUTH_TYPE"
  /\ ServerReads("authType")
  /\ ProcessSecurityType(Head(toServer).body)
  /\ UNCHANGED <<sMinor, sTight, admitted>>

\* Mutants: the response is not compared; the failure is not written.
ProcessSecurityMsgAny ==
  /\ sState = "SECURITY"
  /\ ServerReads("response")
  /\ Authenticated(<<>>, sMinor, sSec)
  /\ UNCHANGED <<sMinor, sSec, sTight, admitted>>
ProcessSecurityMsgSilent ==
  /\ sState = "SECURITY"
  /\ ServerReads("response")
  /\ \/ Head(toServer).body /\ Authenticated(<<>>, sMinor, sSec)
     \/ ~Head(toServer).body /\ Closes("wrong password") /\ UNCHANGED toClient
  /\ UNCHANGED <<sMinor, sSec, sTight, admitted>>

\* processSecurityMsg() with the response to the challenge.
ProcessSecurityMsg ==
  /\ sState = "SECURITY"
  /\ ServerReads("response")
  /\ \/ Head(toServer).body /\ Authenticated(<<>>, sMinor, sSec)
     \/ ~Head(toServer).body /\ ServerWrites(<<Result(FALSE)>>) /\ Closes("wrong password")
  /\ UNCHANGED <<sMinor, sSec, sTight, admitted>>

\* clientInit() closes the connection when the server is already in use.
ProcessInitMsg ==
  /\ sState = "INITIALISATION"
  /\ ServerReads("clientInit")
  /\ \/ Closes("in use") /\ UNCHANGED <<toClient, admitted>>
     \/ /\ ServerWrites(<<Message("serverInit", "desktop")>>
              \o IF sTight THEN <<Message("interaction", "caps")>> ELSE <<>>)
        /\ Enters("NORMAL")
        /\ admitted' = TRUE
  /\ UNCHANGED <<sMinor, sSec, sTight>>

\* processMsg() with anything to read while the user is asked.
BogusWhileQuerying ==
  /\ sState = "QUERYING"
  /\ toServer # <<>>
  /\ Closes("bogus data")
  /\ UNCHANGED <<setup, clientVars, sMinor, sSec, sTight, admitted, toClient, toServer>>

\* The user's answer: approveConnectionOrClose().
ApproveConnection ==
  /\ sState = "QUERYING"
  /\ \/ Accepts(<<>>, sMinor, sSec)
     \/ ServerWrites(ResultOf(sMinor, sSec, FALSE)) /\ Closes("rejected")
  /\ UNCHANGED <<setup, clientVars, sMinor, sSec, sTight, admitted, toServer>>

ClientGone == cState \in {"REFUSED", "CLOSED"}

ServerSeesEnd ==
  /\ sState # "CLOSING"
  /\ ClientGone /\ toServer = <<>>
  /\ Closes("clean disconnection")
  /\ UNCHANGED <<setup, clientVars, sMinor, sSec, sTight, admitted, toClient, toServer>>

\* A timeout, another client's request not to share, the host's command.
ServerCloses ==
  /\ sState # "CLOSING"
  /\ Closes("host")
  /\ UNCHANGED <<setup, clientVars, sMinor, sSec, sTight, admitted, toClient, toServer>>

-----------------------------------------------------------------------------
(* The viewer.                                                             *)

Fails == cState' = "CLOSED"

\* The first type of a list the viewer supports; RfbProto and CConnection
\* both know the two of SecType.
FirstKnown(list) ==
  list[CHOOSE i \in DOMAIN list :
         list[i] \in SecType /\ \A j \in DOMAIN list : j < i => list[j] \notin SecType]

AnyKnown(list) == \E i \in DOMAIN list : list[i] \in SecType

\* Mutant: the viewer does not wait for the server's initialisation.
CompleteAtOnce(written) ==
  /\ ClientWrites(written \o <<Message("clientInit", "shared")>>)
  /\ cState' = "NORMAL"

\* securityCompleted().
Complete(written) ==
  /\ ClientWrites(written \o <<Message("clientInit", "shared")>>)
  /\ cState' = "INITIALISATION"

\* The security object is created and processes what it can.
Choose(written, type) ==
  /\ cSec' = type
  /\ \/ /\ type = "VncAuth"
        /\ ClientWrites(written) /\ cState' = "SECURITY"
     \/ /\ type = "None" /\ cMinor >= 8
        /\ ClientWrites(written) /\ cState' = "SECURITY_RESULT"
     \/ /\ type = "None" /\ cMinor < 8
        /\ Complete(written)

\* Mutant: cp keeps the server's version instead of the one that is written.
ReadVersionMsgKept ==
  /\ cState = "PROTOCOL_VERSION"
  /\ ClientReads("version")
  /\ cMinor' = Head(toClient).body
  /\ ClientWrites(<<Version(IF viewer.minor < cMinor' THEN viewer.minor ELSE cMinor')>>)
  /\ cState' = "SECURITY_TYPES"
  /\ UNCHANGED <<cSec, cTight>>

ReadVersionMsg ==
  /\ cState = "PROTOCOL_VERSION"
  /\ ClientReads("version")
  /\ cMinor' = IF viewer.minor < Head(toClient).body THEN viewer.minor ELSE Head(toClient).body
  /\ ClientWrites(<<Version(cMinor')>>)
  /\ cState' = "SECURITY_TYPES"
  /\ UNCHANGED <<cSec, cTight>>

\* A 3.3 server names the type; 0 comes with the reason of the refusal.
ReadSecurityType ==
  /\ cState = "SECURITY_TYPES"
  /\ ClientReads("type33")
  /\ \/ /\ Head(toClient).body = "Invalid"
        /\ cState' = "REFUSED"
        /\ UNCHANGED <<cSec, toServer>>
     \/ Head(toClient).body # "Invalid" /\ Choose(<<>>, Head(toClient).body)
  /\ UNCHANGED <<cMinor, cTight>>

ReadSecurityTypes ==
  /\ cState = "SECURITY_TYPES"
  /\ ClientReads("types")
  /\ LET list == Head(toClient).body IN
       \/ /\ viewer.java
          /\ ClientWrites(<<Message("type", "Tight")>>)
          /\ cTight' = TRUE
          /\ cState' = "TUNNELS"
          /\ UNCHANGED cSec
       \/ /\ ~viewer.java /\ AnyKnown(list)
          /\ Choose(<<Message("type", FirstKnown(list))>>, FirstKnown(list))
          /\ UNCHANGED cTight
       \/ /\ ~viewer.java /\ ~AnyKnown(list)
          /\ Fails
          /\ UNCHANGED <<cSec, cTight, toServer>>
  /\ UNCHANGED cMinor

SetupTunneling ==
  /\ cState = "TUNNELS"
  /\ ClientReads("tunnels")
  /\ cState' = "AUTH_CAPS"
  /\ UNCHANGED <<cMinor, cSec, cTight, toServer>>

NegotiateAuthenticationTight ==
  /\ cState = "AUTH_CAPS"
  /\ ClientReads("caps")
  /\ LET list == Head(toClient).body IN
       \/ list = <<>> /\ Choose(<<>>, "None")
       \/ list # <<>> /\ Choose(<<Message("authType", FirstKnown(list))>>, FirstKnown(list))
  /\ UNCHANGED <<cMinor, cTight>>

RespondToChallenge ==
  /\ cState = "SECURITY"
  /\ ClientReads("challenge")
  /\ ClientWrites(<<Message("response", knows)>>)
  /\ cState' = "SECURITY_RESULT"
  /\ UNCHANGED <<cMinor, cSec, cTight>>

ReadSecurityResult ==
  /\ cState = "SECURITY_RESULT"
  /\ ClientReads("result")
  /\ \/ Head(toClient).body /\ Complete(<<>>)
     \/ ~Head(toClient).body /\ cState' = "REFUSED" /\ UNCHANGED toServer
  /\ UNCHANGED <<cMinor, cSec, cTight>>

ReadServerInit ==
  /\ cState = "INITIALISATION"
  /\ ClientReads("serverInit")
  /\ cState' = IF cTight THEN "CAPABILITIES" ELSE "NORMAL"
  /\ UNCHANGED <<cMinor, cSec, cTight, toServer>>

ReadInteractionCaps ==
  /\ cState = "CAPABILITIES"
  /\ ClientReads("interaction")
  /\ cState' = "NORMAL"
  /\ UNCHANGED <<cMinor, cSec, cTight, toServer>>

\* The messages a viewer can make sense of where it reads.
ClientAwaits ==
  CASE cState = "PROTOCOL_VERSION" -> {"version"}
    [] cState = "SECURITY_TYPES"   -> IF cMinor = 3 THEN {"type33"} ELSE {"types"}
    [] cState = "TUNNELS"          -> {"tunnels"}
    [] cState = "AUTH_CAPS"        -> {"caps"}
    [] cState = "SECURITY"         -> {"challenge"}
    [] cState = "SECURITY_RESULT"  -> {"result"}
    [] cState = "INITIALISATION"   -> {"serverInit"}
    [] cState = "CAPABILITIES"     -> {"interaction"}
    [] OTHER                       -> {}

ServerAwaits ==
  CASE sState = "PROTOCOL_VERSION" -> {"version"}
    [] sState = "SECURITY_TYPE"    -> {"type"}
    [] sState = "TIGHT_AUTH_TYPE"  -> {"authType"}
    [] sState = "SECURITY"         -> {"response"}
    [] sState = "INITIALISATION"   -> {"clientInit"}
    [] OTHER                       -> {}

\* A read that runs into the end of the stream, in a message or before one.
ClientSeesEnd ==
  /\ ~ClientGone
  /\ sState = "CLOSING"
  /\ toClient # <<>> => Head(toClient).kind \notin ClientAwaits
  /\ Fails
  /\ UNCHANGED <<setup, serverVars, cMinor, cSec, cTight, toClient, toServer>>

ClientCloses ==
  /\ ~ClientGone
  /\ Fails
  /\ UNCHANGED <<setup, serverVars, cMinor, cSec, cTight, toClient, toServer>>

\* The parameter SecurityTypes is set while the connection is being made.
SetSecurityTypes ==
  /\ offer' \in Offers
  /\ UNCHANGED <<viewer, knows, serverVars, clientVars, toClient, toServer>>

-----------------------------------------------------------------------------

Init ==
  /\ offer \in Offers
  /\ viewer \in Viewers
  /\ knows \in BOOLEAN
  /\ sState = "PROTOCOL_VERSION"
  /\ sMinor \in ServerMinors
  /\ sSec = "unset"
  /\ sTight = FALSE
  /\ closeReason = "unset"
  /\ admitted = FALSE
  /\ cState = "PROTOCOL_VERSION"
  /\ cMinor = 0
  /\ cSec = "unset"
  /\ cTight = FALSE
  /\ toClient = <<Version(sMinor)>>
  /\ toServer = <<>>

ServerStep ==
  \/ ProcessVersionMsg \/ ProcessSecurityTypeMsg \/ ProcessAuthTypeMsg
  \/ ProcessSecurityMsg \/ ProcessInitMsg \/ BogusWhileQuerying
  \/ ApproveConnection \/ ServerSeesEnd

ClientStep ==
  \/ ReadVersionMsg \/ ReadSecurityType \/ ReadSecurityTypes
  \/ SetupTunneling \/ NegotiateAuthenticationTight \/ RespondToChallenge
  \/ ReadSecurityResult \/ ReadServerInit \/ ReadInteractionCaps
  \/ ClientSeesEnd

Next == ServerStep \/ ClientStep \/ ServerCloses \/ ClientCloses \/ SetSecurityTypes

Spec == Init /\ [][Next]_vars

FairSpec == Spec /\ WF_vars(ServerStep) /\ WF_vars(ClientStep)

-----------------------------------------------------------------------------
(* Properties.                                                             *)

ServerState ==
  { "PROTOCOL_VERSION", "SECURITY_TYPE", "TIGHT_AUTH_TYPE", "SECURITY", "QUERYING",
    "INITIALISATION", "NORMAL", "CLOSING" }

ClientState ==
  { "PROTOCOL_VERSION", "SECURITY_TYPES", "TUNNELS", "AUTH_CAPS", "SECURITY",
    "SECURITY_RESULT", "INITIALISATION", "CAPABILITIES", "NORMAL", "REFUSED", "CLOSED" }

CloseReason ==
  { "unset", "no desktop", "rejected", "no type", "type not available", "wrong password",
    "in use", "bogus data", "clean disconnection", "host" }

FieldsOK ==
  /\ offer \in Offers /\ viewer \in Viewers /\ knows \in BOOLEAN
  /\ sState \in ServerState /\ closeReason \in CloseReason
  /\ sMinor \in {3, 7, 8} /\ sSec \in SecType \cup {"unset"}
  /\ sTight \in BOOLEAN /\ admitted \in BOOLEAN
  /\ cState \in ClientState
  /\ cMinor \in {0, 3, 7, 8} /\ cSec \in SecType \cup {"unset"}
  /\ cTight \in BOOLEAN

\* The variables have the types of the fields they stand for, and the
\* channels hold the messages of the protocol.
TypeOK ==
  /\ FieldsOK
  /\ toClient \in Seq(ToClient)
  /\ toServer \in Seq(ToServer)

Entitled == sSec = "None" \/ (sSec = "VncAuth" /\ knows)

\* Past the security handshake a type has been settled, and if it is VncAuth
\* the viewer has proved that it knows the password, by whichever of the
\* paths (3.3, 3.7 and later, Tight) it came.
Authorised == sState \in {"QUERYING", "INITIALISATION", "NORMAL"} => Entitled

\* The type is settled once, and is one configured at that moment, even if
\* the viewer chose it from a list sent before the configuration changed.
SettledFromOffer == [][sSec' # sSec => sSec = "unset" /\ sSec' \in Offered]_vars

\* Whether a result follows depends on version and type; two ends that
\* disagreed would read each other's messages wrongly from there on.
Agreement ==
  sState = "NORMAL" /\ cState = "NORMAL"
    => <<sMinor, sSec, sTight>> = <<cMinor, cSec, cTight>>

\* Neither end finds a message other than the one it is about to read.  The
\* exception is in the code: a rejection the server need not ask the user
\* about writes a result even where the protocol has none.
InStep ==
  /\ toServer # <<>> /\ sState \notin {"QUERYING", "CLOSING"}
       => Head(toServer).kind \in ServerAwaits
  /\ toClient # <<>> /\ ~ClientGone
       => \/ Head(toClient).kind \in ClientAwaits
          \/ closeReason = "rejected" /\ ~ResultDue(sMinor, sSec)

\* A refusal the protocol can express is told to the viewer: as long as the
\* viewer has not read it, it is on its way.
RefusalTold ==
  closeReason \in {"rejected", "wrong password"} /\ ResultDue(sMinor, sSec) /\ ~ClientGone
    => \E i \in DOMAIN toClient : toClient[i] = Result(FALSE)

\* A connection the user is asked about is accepted or rejected by the
\* answer: what the viewer sends meanwhile does not end it.
AskedIsAnswered == closeReason # "bogus data"

Settled ==
  \/ sState = "NORMAL" /\ cState = "NORMAL"
  \/ sState = "CLOSING" /\ ClientGone

\* Neither end waits for the other for ever: the handshake ends with both
\* in session or both closed.
Settles == []<>Settled

\* The handshake implements Admission.
Promise == INSTANCE Admission WITH
  entitled <- Entitled,
  viewer   <- IF ClientGone THEN "gone" ELSE IF cState = "NORMAL" THEN "in" ELSE "waiting"

PromiseKept == Promise!Spec
=============================================================================
