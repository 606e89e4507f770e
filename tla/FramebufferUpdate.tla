------------------------- MODULE FramebufferUpdate -------------------------
(***************************************************************************)
(* How a drawn pixel reaches the clients: the drawing hints enter the      *)
(* server's ComparingUpdateTracker, VNCServerST::checkUpdate() filters     *)
(* them and hands them to the tracker of every client, and a client's      *)
(* writeFramebufferUpdate() sends what its requests cover.                 *)
(*                                                                         *)
(* The server-side rendered cursor is left out.  A pixel also stands for a *)
(* block of ComparingUpdateTracker::compareRect().                         *)
(***************************************************************************)
EXTENDS UpdateTracker

CONSTANTS
  Client,         \* the connections
  Colour,         \* the values of a pixel
  Deltas,         \* the offsets by which the display is scrolled
  VideoAreas,     \* the video areas the host or a client selects
  Requests,       \* the regions clients request
  CompareFB,      \* the parameter rfb::Server::compareFB
  VideoPriority,  \* the parameter rfb::Server::videoPriority
  CanFreeze,      \* some client freezes the video
  MaxEvents       \* the bound on display and connection events

ASSUME FramebufferAssumption ==
  /\ Deltas \subseteq Int
  /\ VideoAreas \subseteq Region
  /\ Requests \subseteq Region
  /\ CompareFB \in BOOLEAN
  /\ VideoPriority \in Nat
  /\ CanFreeze \in BOOLEAN
  /\ MaxEvents \in Nat
  /\ Colour # {}

Image == [Pixel -> Colour]

VARIABLES
  fb,            \* the PixelBuffer
  cmp,           \* VNCServerST::comparer, as a tracker
  oldFb,         \* comparer->oldFb
  firstCompare,  \* comparer->firstCompare
  upd,           \* VNCSConnectionST::updates of each client
  requested,     \* VNCSConnectionST::requested
  fullUpdate,    \* VNCSConnectionST::m_fullUpdateRequested
  counter,       \* VNCSConnectionST::m_updateTypeCounter
  frozen,        \* VNCSConnectionST::m_videoFrozen
  useCopyRect,   \* cp.useCopyRect
  normal,        \* the clients in session
  cfb,           \* what each client has drawn
  turn,          \* the clients whose write the running call has yet to make
  seen,          \* history: the frame buffer at the last propagation
  events         \* the number of bounded events so far

serverVars == <<cmp, oldFb, firstCompare, seen>>
clientVars == <<upd, requested, fullUpdate, counter, cfb>>
modeVars   == <<frozen, useCopyRect, normal>>
vars == <<fb, serverVars, clientVars, modeVars, turn, events>>

-----------------------------------------------------------------------------
(* The ComparingUpdateTracker.                                             *)

NewComparer == AddChanged(NewTracker(TRUE), Pixel)

\* oldFb after the pending copies were made in it.
CopiedOld(u) == [p \in Pixel |-> IF p \in u.copied THEN oldFb[p - u.delta] ELSE oldFb[p]]

NewChanged(u) == {p \in u.changed \cup u.copied : CopiedOld(u)[p] # fb[p]}

Compared(u) ==
  IF firstCompare THEN u
  ELSE [u EXCEPT !.changed = NewChanged(u), !.copied = @ \ NewChanged(u)]

\* Mutant: the pending copies are not made in the old image.
ComparedOldNoCopy(u) ==
  IF firstCompare THEN fb
  ELSE [p \in Pixel |-> IF p \in u.changed THEN fb[p] ELSE oldFb[p]]

ComparedOld(u) ==
  IF firstCompare THEN fb
  ELSE [p \in Pixel |-> IF p \in u.changed \cup u.copied THEN fb[p] ELSE oldFb[p]]

\* Mutant: a lone copy is taken for nothing.
IdleUnlessChanged == Info(Normalized(cmp), Pixel).changed = {}

\* checkUpdate() returns early when nothing is pending.
Idle == IsEmpty(Info(Normalized(cmp), Pixel))

Checked == IF CompareFB THEN Normalized(Compared(Normalized(cmp))) ELSE Normalized(cmp)

Propagated(u, ui) ==
  SetVideoArea(AddChanged(AddCopied(u, ui.copied, ui.delta), ui.changed), ui.video)

CheckUpdate ==
  IF Idle
  THEN cmp' = Normalized(cmp) /\ UNCHANGED <<oldFb, firstCompare, seen>>
  ELSE /\ cmp' = Clear(Checked)
       /\ oldFb' = IF CompareFB THEN ComparedOld(Normalized(cmp)) ELSE oldFb
       /\ firstCompare' = (firstCompare /\ ~CompareFB)
       /\ seen' = fb

-----------------------------------------------------------------------------
(* VNCSConnectionST::writeFramebufferUpdate().                             *)

\* The clients' trackers after enable_copyrect() of client c and checkUpdate().
Fed(c) ==
  LET enabled == [upd EXCEPT ![c] = EnableCopyrect(upd[c], useCopyRect[c])]
  IN IF Idle THEN enabled
     ELSE [d \in Client |-> Propagated(enabled[d], Info(Checked, Pixel))]

VideoAsChanged(u) ==
  IF VideoPriority = 0 THEN SetVideoArea(AddChanged(u, u.video), {}) ELSE u

Offer(c) == Normalized(VideoAsChanged(Fed(c)[c]))

Sendable(c) == Info(Offer(c), requested[c])

WillSendVideo(c) == (~frozen[c] \/ fullUpdate[c]) /\ Sendable(c).video # {}

VideoOnly(c) == WillSendVideo(c) /\ counter[c] - 1 > 0 /\ ~fullUpdate[c]

\* Mutant: the changed pixels are sent before the copies.
PaintedChangedFirst(c) ==
  LET ui == Sendable(c)
      base == [p \in Pixel |-> IF p \in ui.changed THEN fb[p] ELSE cfb[c][p]]
  IN [p \in Pixel |-> IF p \in ui.copied THEN base[p - ui.delta] ELSE base[p]]

\* The client's screen: video first, then the copies, then the changed pixels.
Painted(c) ==
  LET ui == Sendable(c)
      base == [p \in Pixel |-> IF WillSendVideo(c) /\ p \in ui.video
                               THEN fb[p] ELSE cfb[c][p]]
  IN IF VideoOnly(c) THEN base
     ELSE [p \in Pixel |-> IF p \in ui.changed THEN fb[p]
                           ELSE IF p \in ui.copied THEN base[p - ui.delta]
                           ELSE base[p]]

\* Mutant: a video-only update also forgets the rest.
RemainingAlways(c) == Subtract(Offer(c), Sendable(c).changed \cup Sendable(c).copied)

Remaining(c) ==
  IF VideoOnly(c) THEN Offer(c)
  ELSE Subtract(Offer(c), Sendable(c).changed \cup Sendable(c).copied)

Ready(c) == c \in normal /\ requested[c] # {}

\* Not in session or nothing requested: the call returns at once.
WriteReturns(c) ==
  /\ c \in turn /\ ~Ready(c)
  /\ turn' = turn \ {c}
  /\ UNCHANGED <<fb, serverVars, clientVars, modeVars, events>>

\* Nothing in the requested region: the request stays open.
WriteNothing(c) ==
  /\ c \in turn /\ Ready(c)
  /\ IsEmpty(Sendable(c))
  /\ CheckUpdate
  /\ upd' = [Fed(c) EXCEPT ![c] = Offer(c)]
  /\ turn' = turn \ {c}
  /\ UNCHANGED <<fb, requested, fullUpdate, counter, cfb, modeVars, events>>

WriteUpdate(c) ==
  /\ c \in turn /\ Ready(c)
  /\ ~IsEmpty(Sendable(c))
  /\ CheckUpdate
  /\ upd' = [Fed(c) EXCEPT ![c] = Remaining(c)]
  /\ cfb' = [cfb EXCEPT ![c] = Painted(c)]
  /\ counter' = [counter EXCEPT ![c] = IF ~WillSendVideo(c) THEN @
                                       ELSE IF VideoOnly(c) THEN @ - 1
                                       ELSE VideoPriority]
  /\ requested' = [requested EXCEPT ![c] = {}]
  /\ fullUpdate' = [fullUpdate EXCEPT ![c] = FALSE]
  /\ turn' = turn \ {c}
  /\ UNCHANGED <<fb, modeVars, events>>

-----------------------------------------------------------------------------
(* The calls that lead to a write.  Nothing else runs until turn is empty: *)
(* the server is single threaded.                                          *)

\* The host's main loop tries every client.
TryUpdate ==
  /\ turn = {}
  /\ turn' = Client
  /\ UNCHANGED <<fb, serverVars, clientVars, modeVars, events>>

\* A batch of client messages: incremental requests for inc, full ones for
\* non, and the last SetEncodings and video freeze among them.
ProcessMessages(c, inc, non, copyRect, freeze) ==
  /\ turn = {} /\ c \in normal
  /\ requested' = [requested EXCEPT ![c] = @ \cup inc \cup non]
  /\ upd' = [upd EXCEPT ![c] = AddChanged(@, non)]
  /\ cmp' = AddChanged(cmp, non)
  /\ fullUpdate' = [fullUpdate EXCEPT ![c] = @ \/ non # {}]
  /\ useCopyRect' = [useCopyRect EXCEPT ![c] = copyRect]
  /\ frozen' = [frozen EXCEPT ![c] = freeze]
  /\ turn' = IF requested'[c] = {} THEN {} ELSE {c}
  /\ UNCHANGED <<fb, oldFb, firstCompare, seen, counter, cfb, normal, events>>

-----------------------------------------------------------------------------
(* The display and the connections.                                        *)

Event == turn = {} /\ events < MaxEvents /\ events' = events + 1

Draw(R, k) ==
  /\ Event
  /\ fb' = [p \in Pixel |-> IF p \in R THEN k ELSE fb[p]]
  /\ cmp' = ClipChanged(cmp, R)
  /\ UNCHANGED <<oldFb, firstCompare, seen, clientVars, modeVars, turn>>

\* dest is scrolled into place by d; what comes from off the screen is of
\* colour k.
CopyArea(dest, d, k) ==
  /\ Event
  /\ fb' = [p \in Pixel |-> IF p \notin dest THEN fb[p]
                            ELSE IF p - d \in Pixel THEN fb[p - d] ELSE k]
  /\ cmp' = ClipCopied(cmp, dest, d)
  /\ UNCHANGED <<oldFb, firstCompare, seen, clientVars, modeVars, turn>>

\* Mutant: the clients are not told.
SetPixelBufferQuietly(image, V) ==
  /\ Event
  /\ fb' = image
  /\ cmp' = SetVideoArea(NewTracker(TRUE), V)
  /\ firstCompare' = TRUE
  /\ oldFb' = image
  /\ seen' = image
  /\ UNCHANGED <<clientVars, modeVars, turn>>

\* A new PixelBuffer of the same size, with the video rectangle V in force.
SetPixelBuffer(image, V) ==
  /\ Event
  /\ fb' = image
  /\ cmp' = SetVideoArea(NewComparer, V)
  /\ firstCompare' = TRUE
  /\ oldFb' = image
  /\ seen' = image
  /\ upd' = [c \in Client |-> IF c \in normal THEN AddChanged(Clear(upd[c]), Pixel)
                              ELSE upd[c]]
  /\ UNCHANGED <<requested, fullUpdate, counter, cfb, modeVars, turn>>

ApplyVideoRectangle(V) ==
  /\ Event
  /\ cmp' = SetVideoArea(cmp, V)
  /\ UNCHANGED <<fb, oldFb, firstCompare, seen, clientVars, modeVars, turn>>

\* A connection authenticates (authSuccess) with a screen of some colour k.
Join(c, k) ==
  /\ Event
  /\ c \notin normal
  /\ normal' = normal \cup {c}
  /\ upd' = [upd EXCEPT ![c] = AddChanged(NewTracker(FALSE), Pixel)]
  /\ cfb' = [cfb EXCEPT ![c] = [p \in Pixel |-> k]]
  /\ requested' = [requested EXCEPT ![c] = {}]
  /\ fullUpdate' = [fullUpdate EXCEPT ![c] = FALSE]
  /\ counter' = [counter EXCEPT ![c] = 1]
  /\ frozen' = [frozen EXCEPT ![c] = FALSE]
  /\ useCopyRect' = [useCopyRect EXCEPT ![c] = FALSE]
  /\ UNCHANGED <<fb, serverVars, turn>>

Leave(c) ==
  /\ Event
  /\ c \in normal
  /\ normal' = normal \ {c}
  /\ UNCHANGED <<fb, serverVars, clientVars, frozen, useCopyRect, turn>>

-----------------------------------------------------------------------------
Init ==
  /\ fb \in Image
  /\ \E V \in VideoAreas : cmp = SetVideoArea(NewComparer, V)
  /\ oldFb = fb /\ seen = fb
  /\ firstCompare = TRUE
  /\ upd = [c \in Client |-> NewTracker(FALSE)]
  /\ requested = [c \in Client |-> {}]
  /\ fullUpdate = [c \in Client |-> FALSE]
  /\ counter = [c \in Client |-> 1]
  /\ frozen = [c \in Client |-> FALSE]
  /\ useCopyRect = [c \in Client |-> FALSE]
  /\ normal = {}
  /\ \E k \in Colour : cfb = [c \in Client |-> [p \in Pixel |-> k]]
  /\ turn = {}
  /\ events = 0

Strip == {R \in Region : R # {} /\ R = BoundingRect(R)}
Freezes == IF CanFreeze THEN BOOLEAN ELSE {FALSE}

Messages(c) ==
  \E inc, non \in Requests \cup {{}}, copyRect \in BOOLEAN, freeze \in Freezes :
    ProcessMessages(c, inc, non, copyRect, freeze)

Next ==
  \/ \E c \in Client : WriteReturns(c) \/ WriteNothing(c) \/ WriteUpdate(c)
  \/ TryUpdate
  \/ \E c \in Client : Messages(c)
  \/ \E R \in Strip, k \in Colour : Draw(R, k)
  \/ \E dest \in Strip, d \in Deltas, k \in Colour : CopyArea(dest, d, k)
  \/ \E image \in Image, V \in VideoAreas : SetPixelBuffer(image, V)
  \/ \E V \in VideoAreas : ApplyVideoRectangle(V)
  \/ \E c \in Client, k \in Colour : Join(c, k)
  \/ \E c \in Client : Leave(c)

Spec == Init /\ [][Next]_vars

\* The host's loop tries the clients again and again, a call once begun goes
\* through its clients, and a client in session asks for the whole screen
\* again after every update.  The first and the last are enabled only between
\* calls, hence strong fairness.
Writes(c) == c \in turn /\ turn' = turn \ {c}

AsksAgain(c) ==
  /\ turn = {} /\ c \in normal /\ requested[c] = {}
  /\ requested' = [requested EXCEPT ![c] = Pixel]
  /\ turn' = {c}

FairSpec ==
  /\ Spec
  /\ SF_turn(turn = {} /\ turn' = Client)
  /\ \A c \in Client : WF_turn(Writes(c)) /\ SF_<<requested, turn>>(AsksAgain(c))

-----------------------------------------------------------------------------
(* Properties.                                                             *)

TypeOK ==
  /\ fb \in Image /\ oldFb \in Image /\ seen \in Image
  /\ cmp \in Tracker
  /\ firstCompare \in BOOLEAN
  /\ upd \in [Client -> Tracker]
  /\ requested \in [Client -> Region]
  /\ fullUpdate \in [Client -> BOOLEAN]
  /\ counter \in [Client -> Nat]
  /\ frozen \in [Client -> BOOLEAN]
  /\ useCopyRect \in [Client -> BOOLEAN]
  /\ normal \subseteq Client
  /\ cfb \in [Client -> Image]
  /\ turn \subseteq Client
  /\ events \in Nat

\* What is awaiting transmission to client c.
Pending(c) == cmp.changed \cup cmp.copied \cup cmp.video
              \cup upd[c].changed \cup upd[c].copied \cup upd[c].video

\* Every pixel that a client shows wrongly awaits an update of that client, in
\* its own tracker or in the server's, so nothing is ever lost between the two
\* (VNCServerST::checkUpdate, SimpleUpdateTracker::subtract).
NoStalePixel == \A c \in normal, p \in Pixel : cfb[c][p] # fb[p] => p \in Pending(c)

\* Each client's tracker bridges what the client shows and what the server
\* last propagated: a pending copy never reads a pixel that will be repainted
\* (SimpleUpdateTracker::add_copied).
ClientBridged == \A c \in normal : Bridges(upd[c], cfb[c], seen)

\* The server's tracker bridges what it last propagated and the frame buffer
\* (ComparingUpdateTracker).
ServerBridged == Bridges(cmp, seen, fb)

\* The comparer's old image is the one the clients were told of: comparing
\* against it never hides a change (ComparingUpdateTracker::compare).
ComparesWithSeen == CompareFB /\ ~firstCompare => oldFb = seen

\* A client that keeps asking shows the whole frame buffer when the display
\* comes to rest (VNCSConnectionST::writeFramebufferUpdate).
Converges == \A c \in Client : <>[](c \in normal => cfb[c] = fb)

\* Video does not starve the rest of the screen: outside the video areas the
\* client catches up even though the video is never at rest
\* (m_updateTypeCounter, VNCSConnectionST.cxx:693).
NonVideoConverges ==
  \A c \in Client :
    <>[](c \in normal => \A p \in Pixel \ UNION VideoAreas : cfb[c][p] = fb[p])
=============================================================================
