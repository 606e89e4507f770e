--------------------------- MODULE RenderedCursor ---------------------------
(***************************************************************************)
(* The cursor that the server draws into a client's screen: the server     *)
(* renders it on the pixels below (VNCServerST::checkUpdate()), each       *)
(* client removes where it was and draws where it is                       *)
(* (VNCSConnectionST::writeFramebufferUpdate()), while the screen changes  *)
(* and is scrolled.  One client; what the others do to the server's state  *)
(* are actions.  Cursor shapes sent to the client, video, comparing and    *)
(* resizes are left out.                                                   *)
(***************************************************************************)
EXTENDS UpdateTracker

CONSTANTS
  Colour,       \* the values of a pixel
  Width,        \* of the cursor, whose hotspot is its leftmost pixel
  Deltas,       \* by how much the display is scrolled
  Asked,        \* the regions that the client requests
  MaxEvents     \* bound on what the display, the pointers and time do

ASSUME RenderedCursorAssumption ==
  /\ Width \in Nat \ {0} /\ MaxEvents \in Nat
  /\ Deltas \subseteq Int /\ Asked \subseteq Region /\ Colour # {}
  /\ \E p \in Pixel : \A q \in Pixel : p <= q

VARIABLES
  fb, cmp,      \* the frame buffer, and VNCServerST::comparer as a tracker
  cursorPos,    \* VNCServerST::cursorPos
  rendered,     \* renderedCursor: its rectangle and the pixels below
  invalid,      \* renderedCursorInvalid
  upd, requested,
  drawn,        \* VNCSConnectionST::renderedCursorRect
  draw, remove, \* drawRenderedCursor, removeRenderedCursor
  local,        \* the client draws the cursor itself, unless others move it
  need,         \* needRenderedCursor()
  cfb,          \* what the client shows
  writing,      \* writeFramebufferUpdate() is called next
  events

serverVars == <<cmp, rendered, invalid>>
clientVars == <<upd, requested, drawn, draw, remove, cfb>>
vars == <<fb, cursorPos, serverVars, clientVars, local, need, writing, events>>

\* A pixel that the client shows, with the cursor on it or not.
Shown == [colour : Colour, cursor : BOOLEAN]
Plain(k) == [colour |-> k, cursor |-> FALSE]

(* The cursor, clipped to the screen.                                      *)
CursorRect == {p \in Pixel : cursorPos <= p /\ p < cursorPos + Width}

TypeOK ==
  /\ fb \in [Pixel -> Colour] /\ cmp \in Tracker /\ upd \in Tracker
  /\ cursorPos \in Pixel /\ requested \in Region /\ drawn \in Region
  /\ rendered \in [rect : Region, under : [Pixel -> Colour]]
  /\ {invalid, draw, remove, local, need, writing} \subseteq BOOLEAN
  /\ cfb \in [Pixel -> Shown] /\ events \in 0..MaxEvents

-----------------------------------------------------------------------------
(* checkUpdate(), in which another client may also need the cursor.        *)

Noted == Info(Normalized(cmp), Pixel)

Quiet(others) == IsEmpty(Noted) /\ ~((need \/ others) /\ invalid)

Renders(others) ==
  /\ ~Quiet(others)
  /\ need \/ others
  /\ invalid \/ (Noted.changed \cup Noted.copied) \cap CursorRect # {}

Rendered(others) ==
  IF Renders(others) THEN [rect |-> CursorRect, under |-> fb] ELSE rendered

Fed(others) ==
  IF Quiet(others) THEN upd
  ELSE AddChanged(AddCopied(upd, Noted.copied, Noted.delta), Noted.changed)

CheckUpdate(others) ==
  /\ cmp' = IF Quiet(others) THEN Normalized(cmp) ELSE Clear(Normalized(cmp))
  /\ rendered' = Rendered(others)
  /\ invalid' = (invalid /\ ~Renders(others))

-----------------------------------------------------------------------------
(* writeFramebufferUpdate().                                               *)

\* Mutant: what is copied from under the old cursor is not repainted.
BogusNowhere(ui) == {}

(* Where the copy would put an image of the cursor drawn last.             *)
Bogus(ui) ==
  LET copy == Translate(drawn, ui.delta) \cap Pixel
  IN IF ui.copied \cap copy = {} THEN {} ELSE copy

(* The old cursor is added to what changed.                                *)
Pended(others) ==
  LET u == Normalized(Fed(others))
  IN Normalized(AddChanged(AddChanged(u, Bogus(Info(u, requested))), IF remove THEN drawn ELSE {}))

Kept == IF remove THEN {} ELSE drawn

\* Mutant: the cursor is drawn only when it moved.
DrawsMoved(others, rect) == draw /\ (need => rect # {})

(* It is drawn when it moved or when the update paints over it.            *)
Draws(others, rect) ==
  LET ui == Info(Pended(others), requested) IN
  IF need THEN rect # {} /\ (draw \/ (ui.changed \cup ui.copied) \cap rect # {}) ELSE draw

Drawn(others) ==
  IF need THEN Rendered(others).rect \cap BoundingRect(requested) ELSE Kept

\* Mutant: the changes come before the copies.
PaintedChangedFirst(ui, rect, draws, others) ==
  LET base == [p \in Pixel |-> IF p \in ui.changed THEN Plain(fb[p]) ELSE cfb[p]] IN
  [p \in Pixel |->
     IF draws /\ p \in rect THEN [colour |-> Rendered(others).under[p], cursor |-> TRUE]
     ELSE IF p \in ui.copied THEN base[p - ui.delta]
     ELSE base[p]]

(* The client makes the copies, paints the changes and then the cursor.    *)
Painted(ui, rect, draws, others) ==
  [p \in Pixel |->
     IF draws /\ p \in rect THEN [colour |-> Rendered(others).under[p], cursor |-> TRUE]
     ELSE IF p \in ui.changed THEN Plain(fb[p])
     ELSE IF p \in ui.copied THEN cfb[p - ui.delta]
     ELSE cfb[p]]

Write(others) ==
  LET u == Pended(others)
      ui == Info(u, requested)
      rect == Drawn(others)
      draws == Draws(others, rect)
      nothing == IsEmpty(u) /\ ~draw       \* the early return
      sends == ~nothing /\ (~IsEmpty(ui) \/ draws)
  IN
  /\ CheckUpdate(others)
  /\ remove' = FALSE
  /\ drawn' = IF nothing THEN Kept ELSE rect
  /\ \/ /\ ~sends
        /\ draw' = (~nothing /\ draws)
        /\ upd' = u
        /\ UNCHANGED <<requested, cfb>>
     \/ /\ sends
        /\ draw' = FALSE
        /\ cfb' = Painted(ui, rect, draws, others)
        /\ upd' = Subtract(u, ui.changed \cup ui.copied)
        /\ requested' = {}

(* The display calls tryUpdate(), of no effect without a request.          *)
TryUpdate ==
  /\ ~writing /\ requested # {}
  /\ writing' = TRUE
  /\ UNCHANGED <<fb, cursorPos, serverVars, clientVars, local, need, events>>

WriteFramebufferUpdate(others) ==
  /\ writing
  /\ Write(others)
  /\ writing' = FALSE
  /\ UNCHANGED <<fb, cursorPos, local, need, events>>

(* And for another client, which propagates what the display has noted.    *)
OtherClientWrites(others) ==
  /\ ~writing /\ ~Quiet(others)
  /\ CheckUpdate(others)
  /\ upd' = Fed(others)
  /\ UNCHANGED <<fb, cursorPos, requested, drawn, draw, remove, cfb, local, need, writing, events>>

(* The client's next request, answered at once.                            *)
FramebufferUpdateRequest(R) ==
  /\ ~writing /\ R \ requested # {}
  /\ requested' = requested \cup R
  /\ writing' = TRUE
  /\ UNCHANGED <<fb, cursorPos, serverVars, upd, drawn, draw, remove, cfb, local, need, events>>

-----------------------------------------------------------------------------
(* The display, the pointers and time.                                     *)

Event == ~writing /\ events < MaxEvents /\ events' = events + 1 /\ UNCHANGED <<writing, local>>

Draw(R, k) ==
  /\ Event
  /\ fb' = [p \in Pixel |-> IF p \in R THEN k ELSE fb[p]]
  /\ cmp' = ClipChanged(cmp, R)
  /\ UNCHANGED <<cursorPos, rendered, invalid, clientVars, need>>

CopyArea(dest, d, k) ==
  /\ Event
  /\ fb' = [p \in Pixel |-> IF p \notin dest THEN fb[p]
                            ELSE IF p - d \in Pixel THEN fb[p - d] ELSE k]
  /\ cmp' = ClipCopied(cmp, dest, d)
  /\ UNCHANGED <<cursorPos, rendered, invalid, clientVars, need>>

(* Whether the client needs the cursor drawn: one with a cursor of its own *)
(* only if its pointer was elsewhere, and for more than a second.          *)
Needs == IF local THEN BOOLEAN ELSE {TRUE}

(* setCursorPos() and setCursor(), with renderedCursorChange().            *)
CursorChange(p) ==
  /\ Event
  /\ cursorPos' = p /\ invalid' = TRUE
  /\ need' \in Needs
  /\ remove' = TRUE
  /\ draw' = (draw \/ need')
  /\ UNCHANGED <<fb, cmp, rendered, upd, requested, drawn, cfb>>

(* The client's own pointer events, or a second without any.               *)
NeedChanges ==
  /\ Event
  /\ need' \in Needs \ {need}
  /\ UNCHANGED <<fb, cursorPos, serverVars, clientVars>>

-----------------------------------------------------------------------------
Init ==
  /\ LET k == CHOOSE k \in Colour : TRUE IN
       fb = [p \in Pixel |-> k] /\ cfb = [p \in Pixel |-> Plain(k)]
  /\ cmp = NewTracker(TRUE)
  /\ cursorPos = CHOOSE p \in Pixel : \A q \in Pixel : p <= q
  /\ rendered = [rect |-> {}, under |-> fb] /\ invalid = TRUE
  /\ upd = AddChanged(NewTracker(TRUE), Pixel) /\ requested = {} /\ drawn = {}
  /\ draw = FALSE /\ remove = FALSE
  /\ local \in BOOLEAN
  /\ need = ~local
  /\ writing = FALSE /\ events = 0

Strip == {R \in Region : R # {} /\ R = BoundingRect(R)}

Next ==
  \/ \E others \in BOOLEAN : WriteFramebufferUpdate(others) \/ OtherClientWrites(others)
  \/ \E R \in Asked : FramebufferUpdateRequest(R)
  \/ \E R \in Strip, k \in Colour : Draw(R, k)
  \/ \E dest \in Strip, d \in Deltas, k \in Colour : CopyArea(dest, d, k)
  \/ \E p \in Pixel : CursorChange(p)
  \/ TryUpdate \/ NeedChanges

Spec == Init /\ [][Next]_vars

(* The display's loop calls tryUpdate() again and again, and a client asks *)
(* for the whole screen again after each update.  Both are enabled only    *)
(* between calls, hence strong fairness.                                   *)
AsksAgain == ~writing /\ requested = {} /\ requested' = Pixel /\ writing' = TRUE

FairSpec ==
  /\ Spec
  /\ SF_writing(~writing /\ requested # {} /\ writing' = TRUE)
  /\ WF_writing(writing /\ writing' = FALSE)
  /\ SF_<<requested, writing>>(AsksAgain)

-----------------------------------------------------------------------------
(* Properties.                                                             *)

Pending == cmp.changed \cup cmp.copied \cup upd.changed \cup upd.copied

(* The cursor leaves no trail: wherever the client shows one, the server   *)
(* knows that it must be removed there ("ensures that the next update will *)
(* clean up the old rendered cursor"), however the screen was scrolled.    *)
NoTrail == \A p \in Pixel : cfb[p].cursor => p \in drawn \cup Pending

(* Elsewhere the client shows the frame buffer, or awaits an update.       *)
RestIsRight == \A p \in Pixel \ Pending : ~cfb[p].cursor => cfb[p].colour = fb[p]

(* The cursor lies on the screen as it is, not as it was when the cursor   *)
(* was last rendered ("rendering it again with the correct background").   *)
Background == \A p \in Pixel \ Pending : cfb[p].cursor => cfb[p].colour = fb[p]

(* What awaits no update is right: the screen, and under the cursor of a   *)
(* client that always has it drawn by the server.                          *)
ShownRight == TypeOK /\ RestIsRight /\ (~local => Background)

(* Which in the end shows the cursor where it is and nowhere else.         *)
CursorShown == <>[](~local => \A p \in Pixel : cfb[p].cursor <=> p \in CursorRect)
=============================================================================
