---------------------------- MODULE UpdateStream ----------------------------
(***************************************************************************)
(* The stream of updates between a server's VNCSConnectionST with its      *)
(* SMsgWriterV3 and a viewer's CConn with its CMsgReaderV3: pixel formats, *)
(* encodings, the cursor's shape, a desktop that changes its size and its  *)
(* name, and a control panel that hides the desktop and shows it again.    *)
(*                                                                         *)
(* The screen is a row of columns, a desktop of size n being the columns   *)
(* 1..n, and each changed column is one rectangle of an update.            *)
(***************************************************************************)
EXTENDS Naturals, Sequences, SequencesExt, FiniteSetsExt

CONSTANTS
  Format,       \* pixel formats
  MaxWidth,     \* the largest desktop
  Encodings,    \* what a viewer may tell that it supports
  MaxEvents     \* bound: what users and the desktop do

ASSUME StreamAssumption ==
  /\ MaxWidth \in Nat \ {0} /\ MaxEvents \in Nat
  /\ Format # {}
  /\ Encodings # {}
  /\ Encodings \subseteq [cursor : BOOLEAN, resize : BOOLEAN, rename : {TRUE}]

VARIABLES
  conn,       \* the server's connection: VNCSConnectionST, its cp and its writer
  reading,    \* the server is in the loop of processMessages()
  due,        \* a deferred tryUpdate() is due
  cursor,     \* the server's cursor (a version)
  name,       \* the desktop's name (a version)
  cconn,      \* the viewer: CConn, its cp and its reader
  upstream, downstream,   \* the messages from the viewer and to it
  events,     \* what users and the desktop did so far
  crossed     \* history: a change of these crossed an update (see FormatsAgree)

desktopVars == <<cursor, name, due>>
streamVars == <<conn, reading, desktopVars, cconn, upstream, downstream, events, crossed>>

Column == 1..MaxWidth
(* What a server takes a viewer to support that has not told.              *)
Unset == [cursor |-> FALSE, resize |-> TRUE, rename |-> FALSE]

Update(n)  == [type |-> "update", rects |-> n]
Pixels(x, f) == [type |-> "pixels", at |-> x, format |-> f]
Shape(v, f)  == [type |-> "cursor", is |-> v, format |-> f]
Size(w)    == [type |-> "size", is |-> w]
Name(v)    == [type |-> "name", is |-> v]
SetPixelFormat(f) == [type |-> "format", format |-> f]
SetEncodings(e)   == [type |-> "encodings", encodings |-> e]
Request(w, inc)   == [type |-> "request", size |-> w, incremental |-> inc]

FromServer ==
  {Update(n) : n \in 1..(MaxWidth + 3)}
  \cup {Pixels(x, f) : x \in Column, f \in Format}
  \cup {Shape(v, f) : v \in 0..MaxEvents, f \in Format}
  \cup {Size(w) : w \in Column} \cup {Name(v) : v \in 0..MaxEvents}
FromViewer ==
  {SetPixelFormat(f) : f \in Format} \cup {SetEncodings(e) : e \in Encodings}
  \cup {Request(w, inc) : w \in Column, inc \in BOOLEAN}

Connection ==
  [size : Column, format : Format, supports : Encodings \cup {Unset},
   requested : SUBSET Column, changed : SUBSET Column, newCursor : BOOLEAN,
   newSize : BOOLEAN, newName : BOOLEAN, view : BOOLEAN, closed : BOOLEAN]
ViewerState ==
  [size : Column, format : Format, wants : Format, supports : Encodings,
   formatChange : BOOLEAN, encodingChange : BOOLEAN, requestUpdate : BOOLEAN,
   rectsLeft : 0..(MaxWidth + 3), cursor : 0..MaxEvents, name : 0..MaxEvents]

StreamTyped ==
  /\ conn \in Connection /\ cconn \in ViewerState
  /\ reading \in BOOLEAN /\ due \in BOOLEAN
  /\ {cursor, name, events} \subseteq 0..MaxEvents
  /\ upstream \in Seq(FromViewer) /\ downstream \in Seq(FromServer)
  /\ crossed \subseteq {"format", "size"}

-----------------------------------------------------------------------------
(* What the exceptions of FormatsAgree and RectsFit are made of.           *)

(* Column x lies on the desktop that the viewer will know when it has read *)
(* the first i messages to it.                                             *)
FitsAfter(x, i) ==
  /\ (\A k \in 1..i : downstream[k].type # "size") => x <= cconn.size
  /\ \A k \in 1..i :
       /\ downstream[k].type = "size"
       /\ \A l \in (k + 1)..i : downstream[l].type # "size"
       => x <= downstream[k].is

(* An update is requested of a desktop that the viewer does not know.      *)
Crossing(w) == IF FitsAfter(w, Len(downstream)) THEN {} ELSE {"size"}

FormatUnderWay == \E i \in DOMAIN upstream : upstream[i].type = "format"

(* Something that the server will write, or has written, in the old format.*)
UpdateUnderWay ==
  \/ conn.requested # {} \/ downstream' # <<>>
  \/ \E i \in DOMAIN upstream : upstream[i].type # "encodings"

-----------------------------------------------------------------------------
(* The server writes.                                                      *)

NeedFakeUpdate(c) == c.newCursor \/ c.newSize \/ c.newName

\* Mutant: what the client did not ask for is sent too.
ToSendUnasked(c) == c.changed
(* getUpdateInfo(): what changed where the client asked.                   *)
ToSend(c) == c.changed \cap c.requested

Writes(c) == ~c.closed /\ c.requested # {} /\ (ToSend(c) # {} \/ NeedFakeUpdate(c))

If(b, s) == IF b THEN s ELSE <<>>
CountOf(b) == IF b THEN 1 ELSE 0

\* Mutant: a new name is not counted.
CountUnnamed(c) == Cardinality(ToSend(c)) + CountOf(c.newCursor) + CountOf(c.newSize)
(* The number that writeFramebufferUpdateStart() puts into the header.     *)
Count(c) ==
  Cardinality(ToSend(c)) + CountOf(c.newCursor) + CountOf(c.newSize) + CountOf(c.newName)

(* writeFramebufferUpdateEnd() throws.                                     *)
Unsupported(c) == c.newSize /\ ~c.supports.resize

(* The update, whose cursor comes first and whose size and name come last. *)
Output(c) ==
  IF ~Writes(c) THEN <<>>
  ELSE <<Update(Count(c))>>
       \o If(c.newCursor, <<Shape(cursor', c.format)>>)
       \o SetToSeq({Pixels(x, c.format) : x \in ToSend(c)})
       \o If(~Unsupported(c) /\ c.newSize, <<Size(c.size)>>)
       \o If(~Unsupported(c) /\ c.newName, <<Name(name')>>)

(* And the connection after it.                                            *)
After(c) ==
  IF ~Writes(c) THEN c
  ELSE IF Unsupported(c) THEN [c EXCEPT !.closed = TRUE]
  ELSE [c EXCEPT !.changed = @ \ c.requested, !.requested = {}, !.newCursor = FALSE,
                 !.newSize = FALSE, !.newName = FALSE]

(* writeFramebufferUpdate() of a connection in the state c.                *)
WriteFramebufferUpdate(c) == conn' = After(c) /\ downstream' = downstream \o Output(c)

Quietly(c) == conn' = c /\ UNCHANGED downstream

(* setCursor(): of no effect for a client that does not draw it itself.    *)
SetCursor(c) ==
  IF c.supports.cursor THEN WriteFramebufferUpdate([c EXCEPT !.newCursor = TRUE])
  ELSE Quietly(c)

-----------------------------------------------------------------------------
(* The server reads: processMessages().                                    *)

(* framebufferUpdateRequest() of columns 1..w.                             *)
FramebufferUpdateRequest(c, w, incremental) ==
  IF ~c.view THEN c
  ELSE [c EXCEPT !.requested = @ \cup 1..w,
                  !.changed = IF incremental THEN @ ELSE @ \cup 1..w]

Handle(m) ==
  \/ /\ m.type = "format"
     /\ SetCursor([conn EXCEPT !.format = m.format])
     /\ UNCHANGED crossed
  \/ /\ m.type = "encodings"
     /\ SetCursor([conn EXCEPT !.supports = m.encodings])
     /\ UNCHANGED crossed
  \/ /\ m.type = "request"
     /\ Quietly(FramebufferUpdateRequest(conn, m.size, m.incremental))
     /\ crossed' = IF conn.view THEN crossed \cup Crossing(m.size) ELSE crossed

(* One message of those that have arrived.                                 *)
ProcessMsg ==
  /\ ~conn.closed /\ upstream # <<>>
  /\ reading' = TRUE
  /\ upstream' = Tail(upstream)
  /\ UNCHANGED <<desktopVars, cconn, events>>
  /\ Handle(Head(upstream))

(* No more have: the requests are answered.                                *)
AnswerRequests ==
  /\ ~conn.closed /\ reading
  /\ reading' = FALSE
  /\ UNCHANGED <<desktopVars, cconn, upstream, events, crossed>>
  /\ WriteFramebufferUpdate(conn)

-----------------------------------------------------------------------------
(* The desktop.                                                            *)

Desktop == ~conn.closed /\ ~reading /\ UNCHANGED <<reading, cconn, upstream, crossed>>
Event == events < MaxEvents /\ events' = events + 1

(* add_changed(); the desktop calls tryUpdate() later.                     *)
Draw(x) ==
  /\ Desktop /\ Event
  /\ x <= conn.size
  /\ due' = TRUE
  /\ UNCHANGED <<cursor, name>>
  /\ Quietly([conn EXCEPT !.changed = @ \cup {x}])

TryUpdate ==
  /\ Desktop
  /\ due /\ due' = FALSE
  /\ UNCHANGED <<cursor, name, events>>
  /\ WriteFramebufferUpdate(conn)

Resized(w) ==
  [conn EXCEPT !.size = w, !.newSize = (@ \/ w # conn.size), !.changed = 1..w]

\* Mutant: the new size waits for the next update.
PixelBufferChangeQuietly(w) ==
  /\ Desktop /\ Event
  /\ UNCHANGED desktopVars
  /\ IF w # conn.size /\ ~conn.supports.resize THEN Quietly([conn EXCEPT !.size = w, !.closed = TRUE])
     ELSE Quietly(Resized(w))

(* pixelBufferChange(): of another size or of the same.                    *)
PixelBufferChange(w) ==
  /\ Desktop /\ Event
  /\ UNCHANGED desktopVars
  /\ IF w # conn.size /\ ~conn.supports.resize THEN Quietly([conn EXCEPT !.size = w, !.closed = TRUE])
     ELSE IF NeedFakeUpdate(Resized(w)) THEN WriteFramebufferUpdate(Resized(w))
     ELSE Quietly(Resized(w))

(* VNCServerST::setCursor(), whose cursor Output() sends.                  *)
CursorChange ==
  /\ Desktop /\ Event
  /\ cursor' = cursor + 1
  /\ UNCHANGED <<name, due>>
  /\ SetCursor(conn)

(* setDesktopName(): a client that has sent its encodings is told with the *)
(* next update.                                                            *)
SetDesktopName ==
  /\ Desktop /\ Event
  /\ name' = name + 1
  /\ UNCHANGED <<cursor, due>>
  /\ Quietly([conn EXCEPT !.newName = (@ \/ conn.supports.rename)])

\* Mutant: the viewer that sees the desktop again is left to ask for it.
SetStatusUnasked(view) ==
  /\ ~conn.closed /\ ~reading /\ Event
  /\ UNCHANGED <<reading, desktopVars, cconn, upstream, crossed>>
  /\ Quietly([conn EXCEPT !.view = view])

(* setStatus(): the control panel lets the client see the desktop or not.  *)
(* The update that it requests may be one too many for the viewer.         *)
SetStatus(view) ==
  /\ ~conn.closed /\ ~reading /\ Event
  /\ UNCHANGED <<reading, desktopVars, cconn, upstream>>
  /\ Quietly(FramebufferUpdateRequest([conn EXCEPT !.view = view], conn.size, FALSE))
  /\ crossed' = IF view THEN crossed \cup Crossing(conn.size)
                                \cup (IF FormatUnderWay THEN {"format"} ELSE {})
                 ELSE crossed

-----------------------------------------------------------------------------
(* The viewer.                                                             *)

\* Mutant: the request comes first.
RequestMessagesFirst(v) ==
  <<Request(v.size, ~v.formatChange)>>
  \o If(v.formatChange, <<SetPixelFormat(v.wants)>>)
  \o If(v.encodingChange, <<SetEncodings(v.supports)>>)

RequestMessages(v) ==
  If(v.formatChange, <<SetPixelFormat(v.wants)>>)
  \o If(v.encodingChange, <<SetEncodings(v.supports)>>)
  \o <<Request(v.size, ~v.formatChange)>>

(* requestNewUpdate(), which sets the format and the encodings first.      *)
RequestNewUpdate(v) ==
  /\ cconn' = [v EXCEPT !.format = IF v.formatChange THEN v.wants ELSE @,
                         !.formatChange = FALSE, !.encodingChange = FALSE, !.requestUpdate = FALSE]
  /\ upstream' = upstream \o RequestMessages(v)
  /\ crossed' = IF v.formatChange /\ UpdateUnderWay THEN crossed \cup {"format"} ELSE crossed

ViewerStep == UNCHANGED <<conn, reading, desktopVars>>

(* framebufferUpdateEnd(): the next update is requested now, or by a       *)
(* viewer that is yet to paint this one when it has (paintCompleted()).    *)
FramebufferUpdateEnd(v) ==
  \/ RequestNewUpdate(v)
  \/ /\ cconn' = [v EXCEPT !.requestUpdate = TRUE]
     /\ UNCHANGED <<upstream, crossed>>

Changed(v, f) == [v EXCEPT !.wants = f, !.formatChange = (@ \/ f # v.wants)]

(* readFramebufferUpdate().                                                *)
ReadFramebufferUpdate ==
  /\ cconn.rectsLeft = 0 /\ downstream # <<>>
  /\ cconn' = [cconn EXCEPT !.rectsLeft = Head(downstream).rects]
  /\ downstream' = Tail(downstream)
  /\ ViewerStep /\ UNCHANGED <<upstream, events, crossed>>

(* A cursor in another format is decoded to some other picture.            *)
Decoded(m) ==
  [cconn EXCEPT !.rectsLeft = @ - 1,
                 !.size = IF m.type = "size" THEN m.is ELSE @,
                 !.cursor = IF m.type = "cursor" /\ m.format = cconn.format THEN m.is ELSE @,
                 !.name = IF m.type = "name" THEN m.is ELSE @]

TooBig(m) == m.type = "pixels" /\ m.at > cconn.size
Garbled(m) == m.type \in {"pixels", "cursor"} /\ m.format # cconn.format

(* A rectangle, after the last of which the format may be selected anew.   *)
ReadRect ==
  /\ cconn.rectsLeft > 0 /\ downstream # <<>>
  /\ ~TooBig(Head(downstream))
  /\ downstream' = Tail(downstream)
  /\ ViewerStep
  /\ LET v == Decoded(Head(downstream)) IN
       \/ v.rectsLeft > 0 /\ cconn' = v /\ UNCHANGED <<upstream, events, crossed>>
       \/ v.rectsLeft = 0 /\ FramebufferUpdateEnd(v) /\ UNCHANGED events
       \/ v.rectsLeft = 0 /\ Event /\ \E f \in Format \ {v.wants} : FramebufferUpdateEnd(Changed(v, f))

(* "Rect too big", or what a rectangle of another format is taken for: the *)
(* exception ends the viewer and with it the connection.                   *)
ViewerError ==
  /\ cconn.rectsLeft > 0 /\ downstream # <<>>
  /\ TooBig(Head(downstream)) \/ Garbled(Head(downstream))
  /\ conn' = [conn EXCEPT !.closed = TRUE]
  /\ upstream' = <<>> /\ downstream' = <<>>
  /\ UNCHANGED <<reading, desktopVars, cconn, events, crossed>>

(* The rest of the update is painted, between two messages or within one.  *)
PaintCompleted ==
  /\ cconn.requestUpdate
  /\ ViewerStep /\ UNCHANGED <<downstream, events>>
  /\ RequestNewUpdate(cconn)

(* The options dialog: the Unix viewer tells new encodings at once, the    *)
(* Windows viewer with its next request.                                   *)
GetOptions(f, e) ==
  LET v == [Changed(cconn, f) EXCEPT !.supports = e,
                                      !.encodingChange = (@ \/ e # cconn.supports)] IN
  /\ Event
  /\ ViewerStep /\ UNCHANGED <<downstream, crossed>>
  /\ \/ cconn' = v /\ UNCHANGED upstream
     \/ /\ v.encodingChange
        /\ cconn' = [v EXCEPT !.encodingChange = FALSE]
        /\ upstream' = Append(upstream, SetEncodings(e))

(* The menu's refresh, at any time. In the Windows viewer it stands for a  *)
(* request that is due.                                                    *)
Refresh ==
  /\ Event
  /\ \E asks \in {FALSE, cconn.requestUpdate} : cconn' = [cconn EXCEPT !.requestUpdate = asks]
  /\ upstream' = Append(upstream, Request(cconn.size, FALSE))
  /\ ViewerStep /\ UNCHANGED <<downstream, crossed>>

-----------------------------------------------------------------------------
(* serverInit() of the viewer has sent its first messages.                 *)
StreamInit ==
  /\ \E w \in Column, f \in Format, g \in Format, e \in Encodings :
       /\ conn = [size |-> w, format |-> f, supports |-> Unset, requested |-> {}, changed |-> {},
                  newCursor |-> FALSE, newSize |-> FALSE, newName |-> FALSE, view |-> TRUE, closed |-> FALSE]
       /\ cconn = [size |-> w, format |-> g, wants |-> g, supports |-> e,
                    formatChange |-> FALSE, encodingChange |-> FALSE, requestUpdate |-> FALSE,
                    rectsLeft |-> 0, cursor |-> 0, name |-> 0]
       /\ upstream = <<SetPixelFormat(g), SetEncodings(e), Request(w, FALSE)>>
  /\ downstream = <<>>
  /\ reading = FALSE /\ due = FALSE
  /\ cursor = 0 /\ name = 0 /\ events = 0 /\ crossed = {}

StreamNext ==
  \/ ProcessMsg \/ AnswerRequests \/ TryUpdate \/ CursorChange \/ SetDesktopName
  \/ \E x \in Column : Draw(x) \/ PixelBufferChange(x)
  \/ \E view \in BOOLEAN : SetStatus(view)
  \/ ReadFramebufferUpdate \/ ReadRect \/ ViewerError \/ PaintCompleted \/ Refresh
  \/ \E f \in Format, e \in Encodings : GetOptions(f, e)

Fairness ==
  /\ WF_streamVars(ProcessMsg) /\ WF_streamVars(AnswerRequests) /\ WF_streamVars(TryUpdate)
  /\ WF_streamVars(ReadFramebufferUpdate) /\ WF_streamVars(ReadRect) /\ WF_streamVars(PaintCompleted)
  /\ WF_streamVars(ViewerError)

StreamSpec == StreamInit /\ [][StreamNext]_streamVars /\ Fairness

-----------------------------------------------------------------------------
(* Properties.                                                             *)

(* What the viewer reads next is in the format that it decodes with. The   *)
(* exception is a viewer that has changed its format while an update that  *)
(* the menu's refresh or the control panel asked for was under way, or     *)
(* while the panel then asked for one.                                     *)
FormatsAgree ==
  "format" \notin crossed /\ downstream # <<>> => ~Garbled(Head(downstream))

(* And lies on the viewer's desktop, though the server's may have been     *)
(* smaller or larger for long ("Rect too big"). The exception is a request *)
(* that the server took for more than the viewer knows of by then, from    *)
(* the panel or from a menu that asked before the viewer read of a smaller *)
(* desktop.                                                                *)
RectsFit ==
  "size" \notin crossed /\ downstream # <<>> => ~TooBig(Head(downstream))

Updates == {i \in DOMAIN downstream : downstream[i].type = "update"}

(* The count in a header is the number of rectangles up to the next, so    *)
(* that the viewer never takes a rectangle for a message or a message for  *)
(* a rectangle ("nRects out of sync").                                     *)
StreamFramed ==
  LET next == cconn.rectsLeft + 1 IN
  /\ StreamTyped
  /\ ~conn.closed =>
       /\ \A i \in DOMAIN downstream : i < next => i \notin Updates
       /\ downstream # <<>> => next \in Updates \cup {Len(downstream) + 1}
       /\ \A i \in Updates : i + downstream[i].rects + 1 \in Updates \cup {Len(downstream) + 1}

(* A viewer that may see the desktop is never left without a request: one  *)
(* is under way, or an update, or the viewer is about to ask               *)
(* (requestNewUpdate()). What it asked for while it was not to see the     *)
(* desktop was dropped, and the panel makes up for it.                     *)
NeverStarved ==
  ~conn.closed /\ conn.view =>
    \/ \E i \in DOMAIN upstream : upstream[i].type = "request"
    \/ conn.requested # {} \/ downstream # <<>>
    \/ cconn.rectsLeft > 0 \/ cconn.requestUpdate

UpToDate ==
  /\ cconn.size = conn.size
  /\ conn.supports.cursor /\ "format" \notin crossed => cconn.cursor = cursor

(* When the desktop falls silent, the viewer has its size and its cursor,  *)
(* though neither change is a change of the screen (needFakeUpdate()). The *)
(* exception is a viewer that the panel shows the desktop again: the       *)
(* update asked for it waits for the next change of the desktop or the     *)
(* next message of the viewer, for setStatus() does not write.             *)
Converges ==
  /\ []conn.view => <>[](conn.closed \/ UpToDate)
  /\ <>[](conn.closed \/ ~conn.view \/ Writes(conn) \/ UpToDate)
=============================================================================
