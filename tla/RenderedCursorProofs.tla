------------------------ MODULE RenderedCursorProofs ------------------------
(***************************************************************************)
(* The cursor that the server draws leaves no trail, and the client shows  *)
(* the frame buffer around and under it: for any frame buffer, colours,    *)
(* width of the cursor, scrolls and number of events, when the client asks *)
(* for the whole screen.                                                   *)
(***************************************************************************)
EXTENDS RenderedCursor, UpdateTrackerProofs

AsksForAll == Asked \subseteq {Pixel}

Image == [Pixel -> Colour]

(* Trackers whose copies stay in the frame, and no video.                  *)
Formed ==
  /\ TypeOK
  /\ InFrame(cmp) /\ InFrame(upd) /\ cmp.video = {} /\ upd.video = {}
  /\ requested \in {{}, Pixel} /\ (writing => requested = Pixel)

(* The client's record of where its cursor is.                             *)
Tidy ==
  /\ \A p \in Pixel : cfb[p].cursor => p \in drawn
  /\ ~remove /\ drawn # {} => drawn = CursorRect
  /\ ~invalid => rendered.rect = CursorRect
  /\ ~local => need

(* Two images link the client's screen to the frame buffer: `shown', which *)
(* is the client's screen but for cursors over other things, and `seen',   *)
(* the frame buffer as it was when the server last propagated changes.     *)
Linked(shown, seen) ==
  /\ Bridges(upd, shown, seen) /\ Bridges(cmp, seen, fb)
  /\ \A p \in Pixel : (local => ~cfb[p].cursor) => cfb[p].colour = shown[p]
  /\ ~local /\ ~invalid => \A p \in CursorRect : rendered.under[p] = seen[p]

Inv == Formed /\ Tidy /\ \E shown, seen \in Image : Linked(shown, seen)

-----------------------------------------------------------------------------
LEMMA CursorRectType ==
  ASSUME Formed
  PROVE  CursorRect \in Region /\ CursorRect # {}
<1>1. cursorPos \in Pixel /\ cursorPos \in Int /\ Width \in Nat \ {0}
  BY PixelAssumption, RenderedCursorAssumption DEF Formed, TypeOK
<1>2. cursorPos <= cursorPos /\ cursorPos < cursorPos + Width
  BY <1>1
<1>3. cursorPos \in CursorRect
  BY <1>1, <1>2 DEF CursorRect
<1> QED BY <1>3 DEF CursorRect, Region

LEMMA WholeBounds == BoundingRect(Pixel) = Pixel
<1>1. \A p \in Pixel : p <= p
  BY PixelAssumption
<1> QED BY <1>1 DEF BoundingRect

LEMMA NotedType ==
  ASSUME Formed
  PROVE  /\ Normalized(cmp) \in Tracker /\ InFrame(Normalized(cmp))
         /\ Normalized(cmp).video = {}
         /\ Noted.changed = Normalized(cmp).changed /\ Noted.copied = Normalized(cmp).copied
         /\ Noted.delta = Normalized(cmp).delta /\ Noted.video = {}
<1> DEFINE n == Normalized(cmp)
<1>1. n \in Tracker /\ InFrame(n) /\ n.video = {}
  BY NormalizedType DEF Formed, TypeOK
<1> HIDE DEF n
<1>2. Pixel \in Region
  BY DEF Region
<1>3. /\ Info(n, Pixel).changed = n.changed \cap Pixel /\ Info(n, Pixel).copied = n.copied \cap Pixel
      /\ Info(n, Pixel).delta = n.delta /\ Info(n, Pixel).video = n.video \cap BoundingRect(Pixel)
  BY <1>1, <1>2, InfoType
<1>4. n.changed \subseteq Pixel /\ n.copied \subseteq Pixel
  BY <1>1 DEF Tracker, Region
<1> QED BY <1>1, <1>3, <1>4 DEF Noted, n

(* What the server has noted brings what it last propagated up to date, so *)
(* that nothing noted is nothing to propagate.                             *)
LEMMA NotedBridges ==
  ASSUME Formed, NEW seen \in Image, Bridges(cmp, seen, fb)
  PROVE  /\ Bridges(Normalized(cmp), seen, fb)
         /\ IsEmpty(Noted) => \A p \in Pixel : seen[p] = fb[p]
<1>1. Bridges(Normalized(cmp), seen, fb)
  BY NormalizedBridges DEF Formed, TypeOK
<1> QED BY <1>1, NotedType DEF IsEmpty, Bridges

LEMMA RenderedKept ==
  ASSUME Inv, NEW others \in BOOLEAN
  PROVE  /\ Rendered(others) \in [rect : Region, under : Image]
         /\ ~(invalid /\ ~Renders(others)) => Rendered(others).rect = CursorRect
         /\ need => Rendered(others).rect = CursorRect
         /\ need => ~(invalid /\ ~Renders(others))
<1>1. rendered \in [rect : Region, under : Image] /\ fb \in Image /\ CursorRect \in Region
  BY CursorRectType DEF Inv, Formed, TypeOK, Image
<1>2. Renders(others) => Rendered(others) = [rect |-> CursorRect, under |-> fb]
  BY DEF Rendered
<1>3. ~Renders(others) => Rendered(others) = rendered
  BY DEF Rendered
<1>4. need /\ invalid => Renders(others)
  BY DEF Renders, Quiet
<1>5. ~invalid => rendered.rect = CursorRect
  BY DEF Inv, Tidy
<1> QED BY <1>1, <1>2, <1>3, <1>4, <1>5

(* For a client that always has the cursor drawn, it is rendered on the    *)
(* frame buffer as it is.                                                  *)
LEMMA RenderedRight ==
  ASSUME Inv, NEW others \in BOOLEAN, NEW shown \in Image, NEW seen \in Image, Linked(shown, seen),
         ~local
  PROVE  \A p \in CursorRect : Rendered(others).under[p] = fb[p]
<1>1. need
  BY DEF Inv, Tidy
<1>2. CASE Renders(others)
  BY <1>2 DEF Rendered
<1>3. CASE ~Renders(others)
  <2>1. ~invalid /\ Rendered(others) = rendered
    BY <1>1, <1>3, RenderedKept DEF Rendered
  <2>2. \A p \in CursorRect : rendered.under[p] = seen[p] /\ p \in Pixel
    BY <2>1 DEF Linked, CursorRect
  <2>3. CASE Quiet(others)
    BY <2>1, <2>2, <2>3, NotedBridges DEF Quiet, Inv, Linked
  <2>4. CASE ~Quiet(others)
    <3>1. (Noted.changed \cup Noted.copied) \cap CursorRect = {}
      BY <1>1, <1>3, <2>4 DEF Renders
    <3>2. Bridges(Normalized(cmp), seen, fb)
      BY NotedBridges DEF Inv, Linked
    <3>3. \A p \in CursorRect : seen[p] = fb[p]
      BY <2>2, <3>1, <3>2, NotedType DEF Inv, Bridges
    <3> QED BY <2>1, <2>2, <3>3
  <2> QED BY <2>3, <2>4
<1> QED BY <1>2, <1>3

(* checkUpdate() brings the client's tracker up to the frame buffer.       *)
LEMMA FedRight ==
  ASSUME Inv, NEW others \in BOOLEAN
  PROVE  /\ Fed(others) \in Tracker /\ InFrame(Fed(others)) /\ Fed(others).video = {}
         /\ \A shown, seen \in Image : Linked(shown, seen) => Bridges(Fed(others), shown, fb)
<1>1. /\ upd \in Tracker /\ InFrame(upd) /\ upd.video = {} /\ cmp \in Tracker
      /\ Normalized(cmp) \in Tracker /\ InFrame(Normalized(cmp))
  BY NotedType DEF Inv, Formed, TypeOK
<1>2. CASE Quiet(others)
  <2>1. Fed(others) = upd /\ IsEmpty(Noted)
    BY <1>2 DEF Fed, Quiet
  <2>2. ASSUME NEW shown \in Image, NEW seen \in Image, Linked(shown, seen)
        PROVE  Bridges(upd, shown, fb)
    <3>1. \A p \in Pixel : seen[p] = fb[p]
      BY <2>1, <2>2, NotedBridges DEF Inv, Linked
    <3> QED BY <2>2, <3>1 DEF Linked, Bridges
  <2> QED BY <1>1, <2>1, <2>2
<1>3. CASE ~Quiet(others)
  <2>1. Fed(others) = Feed(upd, Normalized(cmp))
    BY <1>3, NotedType DEF Fed, Feed, Inv
  <2>2. ASSUME NEW shown \in Image, NEW seen \in Image, Linked(shown, seen)
        PROVE  Bridges(Feed(upd, Normalized(cmp)), shown, fb)
    <3>1. Bridges(upd, shown, seen) /\ Bridges(Normalized(cmp), seen, fb)
      BY <2>2, NotedBridges DEF Inv, Linked
    <3> QED BY <1>1, <3>1, FeedBridges
  <2> QED BY <1>1, <2>1, <2>2, FeedType
<1> QED BY <1>2, <1>3

LEMMA CheckUpdateTypes ==
  ASSUME Inv, NEW others \in BOOLEAN, CheckUpdate(others)
  PROVE  /\ cmp' \in Tracker /\ InFrame(cmp') /\ cmp'.video = {}
         /\ cmp'.changed = {} /\ cmp'.copied = {}
         /\ rendered' \in [rect : Region, under : Image] /\ invalid' \in BOOLEAN
<1> DEFINE n == Normalized(cmp)
<1>1. /\ n \in Tracker /\ InFrame(n) /\ n.video = {}
      /\ Quiet(others) => n.changed = {} /\ n.copied = {}
  BY NotedType DEF Inv, Quiet, IsEmpty
<1>2. cmp' = IF Quiet(others) THEN n ELSE Clear(n)
  BY DEF CheckUpdate
<1> HIDE DEF n
<1>3. Clear(n) \in Tracker /\ InFrame(Clear(n)) /\ Clear(n).video = {}
      /\ Clear(n).changed = {} /\ Clear(n).copied = {}
  BY <1>1, ClearType
<1>4. rendered' = Rendered(others) /\ invalid' = (invalid /\ ~Renders(others))
  BY DEF CheckUpdate
<1> QED BY <1>1, <1>2, <1>3, <1>4, RenderedKept DEF Inv, Formed, TypeOK

(* What is pending for the client when it is written to: its old cursor is *)
(* there if it is to be removed, and no copy has its source under it.      *)
LEMMA PendedRight ==
  ASSUME Inv, NEW others \in BOOLEAN, requested = Pixel
  PROVE  /\ Pended(others) \in Tracker /\ InFrame(Pended(others)) /\ Pended(others).video = {}
         /\ Pended(others).changed \cap Pended(others).copied = {}
         /\ \A p \in Pended(others).copied : p - Pended(others).delta \notin drawn
         /\ remove => drawn \subseteq Pended(others).changed
         /\ \A shown, seen \in Image : Linked(shown, seen) => Bridges(Pended(others), shown, fb)
<1> DEFINE u == Normalized(Fed(others))
           B == Bogus(Info(u, requested))
           v == AddChanged(u, B)
           old == IF remove THEN drawn ELSE {}
           w == AddChanged(v, old)
<1>1. drawn \in Region /\ old \in Region /\ Pixel \in Region
  BY DEF Inv, Formed, TypeOK, Region
<1>2. /\ u \in Tracker /\ InFrame(u) /\ u.video = {}
      /\ \A shown, seen \in Image : Linked(shown, seen) => Bridges(u, shown, fb)
  BY FedRight, NormalizedType, NormalizedBridges
<1> HIDE DEF u
<1>3. /\ Info(u, requested).copied = u.copied /\ Info(u, requested).delta = u.delta
  <2>1. u.copied \cap Pixel = u.copied
    BY <1>2 DEF Tracker, Region
  <2> QED BY <1>1, <1>2, <2>1, InfoType
<1>4. B = IF u.copied \cap (Translate(drawn, u.delta) \cap Pixel) = {} THEN {}
          ELSE Translate(drawn, u.delta) \cap Pixel
  BY <1>3 DEF Bogus
<1> HIDE DEF B
<1>5. B \in Region
  BY <1>4 DEF Region
<1>6. ASSUME NEW p \in u.copied, p \notin B PROVE p - u.delta \notin drawn
  <2>1. p \in Int /\ p \in Pixel /\ u.delta \in Int /\ drawn \in SUBSET Int
    BY <1>1, <1>2, PixelAssumption DEF Tracker, Region
  <2>2. p - u.delta \in drawn => p \in Translate(drawn, u.delta)
    BY <2>1, TranslateMember
  <2> QED BY <1>4, <1>6, <2>1, <2>2
<1>7. /\ v \in Tracker /\ InFrame(v) /\ v.video = {} /\ v.changed = u.changed \cup B
      /\ v.copied = u.copied /\ v.delta = u.delta
      /\ \A shown, seen \in Image : Linked(shown, seen) => Bridges(v, shown, fb)
  BY <1>2, <1>5, AddChangedType, AddChangedBridges
<1> HIDE DEF v
<1> HIDE DEF old
<1>8. /\ w \in Tracker /\ InFrame(w) /\ w.video = {} /\ w.changed = u.changed \cup B \cup old
      /\ w.copied = u.copied /\ w.delta = u.delta
      /\ \A shown, seen \in Image : Linked(shown, seen) => Bridges(w, shown, fb)
  BY <1>1, <1>7, AddChangedType, AddChangedBridges
<1>9. Pended(others) = Normalized(w)
  BY DEF Pended, u, B, v, w, old
<1> HIDE DEF w
<1>10. /\ Normalized(w) \in Tracker /\ InFrame(Normalized(w)) /\ Normalized(w).video = {}
       /\ Normalized(w).changed = w.changed /\ Normalized(w).copied = w.copied \ w.changed
       /\ Normalized(w).delta = w.delta
       /\ \A shown, seen \in Image : Linked(shown, seen) => Bridges(Normalized(w), shown, fb)
  BY <1>8, NormalizedType, NormalizedBridges
<1>11. \A p \in Normalized(w).copied : p - Normalized(w).delta \notin drawn
  BY <1>6, <1>8, <1>10
<1>12. remove => drawn \subseteq Normalized(w).changed
  BY <1>8, <1>10 DEF old
<1> HIDE DEF Linked
<1> QED BY <1>9, <1>10, <1>11, <1>12

(* After a write nothing is pending for the client.                        *)
LEMMA WriteFlushes ==
  ASSUME Inv, NEW others \in BOOLEAN, writing, WriteFramebufferUpdate(others)
  PROVE  /\ upd' \in Tracker /\ InFrame(upd') /\ upd'.video = {}
         /\ upd'.changed = {} /\ upd'.copied = {}
<1> DEFINE u == Pended(others)
           ui == Info(u, requested)
<1>1. requested = Pixel /\ Pixel \in Region
  BY DEF Inv, Formed, Region
<1>2. u \in Tracker /\ InFrame(u) /\ u.video = {}
  BY <1>1, PendedRight
<1> HIDE DEF u
<1>3. /\ ui.changed = u.changed /\ ui.copied = u.copied /\ ui.video = {}
  <2>1. u.changed \cap Pixel = u.changed /\ u.copied \cap Pixel = u.copied
    BY <1>2 DEF Tracker, Region
  <2>2. ui = Info(u, Pixel)
    BY <1>1
  <2> HIDE DEF ui
  <2>3. /\ ui.changed = u.changed \cap Pixel /\ ui.copied = u.copied \cap Pixel
        /\ ui.video = u.video \cap BoundingRect(Pixel)
    BY <1>1, <1>2, <2>2, InfoType
  <2> QED BY <1>2, <2>1, <2>3
<1> HIDE DEF ui
<1>4. PICK sends \in BOOLEAN :
        /\ ~sends => upd' = u /\ IsEmpty(ui)
        /\ sends => upd' = Subtract(u, ui.changed \cup ui.copied)
  <2> DEFINE draws == Draws(others, Drawn(others))
             nothing == IsEmpty(u) /\ ~draw
  <2>1. \/ upd' = u /\ ~(~nothing /\ (~IsEmpty(ui) \/ draws))
        \/ upd' = Subtract(u, ui.changed \cup ui.copied)
    BY DEF WriteFramebufferUpdate, Write, u, ui
  <2>2. nothing => IsEmpty(ui)
    BY <1>3 DEF IsEmpty
  <2> QED BY <2>1, <2>2
<1>5. ui.changed \cup ui.copied \in Region
  BY <1>2, <1>3 DEF Tracker, Region
<1>6. CASE sends
  <2> DEFINE sent == ui.changed \cup ui.copied
  <2>1. sent \in Region /\ upd' = Subtract(u, sent)
    BY <1>4, <1>5, <1>6
  <2>2. sent = u.changed \cup u.copied
    BY <1>3
  <2> HIDE DEF sent
  <2>3. /\ Subtract(u, sent) \in Tracker /\ InFrame(Subtract(u, sent)) /\ Subtract(u, sent).video = {}
        /\ Subtract(u, sent).changed = u.changed \ sent
        /\ Subtract(u, sent).copied = u.copied \ sent
    BY <1>2, <2>1, SubtractType
  <2> QED BY <2>1, <2>2, <2>3
<1>7. CASE ~sends
  BY <1>2, <1>3, <1>4, <1>7 DEF IsEmpty
<1> QED BY <1>6, <1>7

(* The pixels that the client shows after a write: those drawn into its    *)
(* cursor, those sent, those copied from outside the old cursor, and those *)
(* that were right.                                                        *)
LEMMA PaintedRight ==
  ASSUME Inv, NEW others \in BOOLEAN, requested = Pixel, NEW draws \in BOOLEAN,
         NEW rect \in Region, draws /\ ~local => rect = CursorRect,
         NEW now, now = Painted(Info(Pended(others), requested), rect, draws, others)
  PROVE  /\ now \in [Pixel -> Shown]
         /\ \A p \in Pixel : now[p].cursor =>
              (draws /\ p \in rect) \/ (p \in drawn /\ ~remove /\ cfb[p].cursor)
         /\ \A p \in Pixel : (local => ~now[p].cursor) => now[p].colour = fb[p]
<1> DEFINE u == Pended(others)
           ui == Info(u, requested)
<1>1. /\ u \in Tracker /\ InFrame(u) /\ \A p \in u.copied : p - u.delta \notin drawn
      /\ remove => drawn \subseteq u.changed
      /\ \A shown, seen \in Image : Linked(shown, seen) => Bridges(u, shown, fb)
  BY PendedRight
<1> HIDE DEF u
<1>2. ui.changed = u.changed /\ ui.copied = u.copied /\ ui.delta = u.delta
  <2>1. u.changed \cap Pixel = u.changed /\ u.copied \cap Pixel = u.copied /\ Pixel \in Region
    BY <1>1 DEF Tracker, Region
  <2> QED BY <1>1, <2>1, InfoType
<1> HIDE DEF ui
<1>3. /\ fb \in Image /\ cfb \in [Pixel -> Shown] /\ Rendered(others).under \in Image
      /\ \A p \in u.copied : p - u.delta \in Pixel
  BY <1>1, RenderedKept DEF Inv, Formed, TypeOK, Image, InFrame
<1>4. /\ DOMAIN now = Pixel
      /\ \A p \in Pixel : now[p] =
           IF draws /\ p \in rect THEN [colour |-> Rendered(others).under[p], cursor |-> TRUE]
           ELSE IF p \in u.changed THEN Plain(fb[p])
           ELSE IF p \in u.copied THEN cfb[p - u.delta]
           ELSE cfb[p]
  BY <1>2 DEF Painted, u, ui
<1>5. now = [p \in Pixel |-> now[p]]
  BY DEF Painted
<1>6. ASSUME NEW p \in Pixel PROVE now[p] \in Shown
  <2>1. CASE draws /\ p \in rect
    <3>1. now[p] = [colour |-> Rendered(others).under[p], cursor |-> TRUE]
      BY <1>4, <2>1
    <3>2. Rendered(others).under[p] \in Colour
      BY <1>3 DEF Image
    <3> QED BY <3>1, <3>2 DEF Shown
  <2>2. CASE ~(draws /\ p \in rect) /\ p \in u.changed
    <3>1. now[p] = Plain(fb[p])
      BY <1>4, <2>2
    <3>2. fb[p] \in Colour
      BY <1>3 DEF Image
    <3> QED BY <3>1, <3>2 DEF Shown, Plain
  <2>3. CASE ~(draws /\ p \in rect) /\ p \notin u.changed
    BY <1>3, <1>4, <2>3
  <2> QED BY <2>1, <2>2, <2>3
<1>7. \A p \in Pixel : cfb[p].cursor => p \in drawn
  BY DEF Inv, Tidy
<1>8. ASSUME NEW p \in Pixel, now[p].cursor
      PROVE  (draws /\ p \in rect) \/ (p \in drawn /\ ~remove /\ cfb[p].cursor)
  BY <1>1, <1>3, <1>4, <1>7, <1>8 DEF Plain
<1>9. ASSUME NEW p \in Pixel, local => ~now[p].cursor PROVE now[p].colour = fb[p]
  <2>1. PICK shown \in Image, seen \in Image : Linked(shown, seen)
    BY DEF Inv
  <2>2. CASE draws /\ p \in rect
    <3>1. now[p] = [colour |-> Rendered(others).under[p], cursor |-> TRUE]
      BY <1>4, <2>2
    <3>2. ~local /\ p \in CursorRect
      <4>1. now[p].cursor = TRUE
        BY <3>1
      <4>2. ~local
        BY <1>9, <4>1, Zenon
      <4> QED BY <2>2, <4>2
    <3>3. Rendered(others).under[p] = fb[p]
      BY <2>1, <3>2, RenderedRight
    <3> QED BY <3>1, <3>3
  <2>3. CASE ~(draws /\ p \in rect) /\ p \in u.changed
    BY <1>4, <2>3 DEF Plain
  <2>4. CASE ~(draws /\ p \in rect) /\ p \notin u.changed /\ p \in u.copied
    <3>1. now[p] = cfb[p - u.delta] /\ p - u.delta \in Pixel
      BY <1>3, <1>4, <2>4
    <3>2. cfb[p - u.delta].colour = shown[p - u.delta]
      BY <1>9, <2>1, <3>1 DEF Linked
    <3>3. shown[p - u.delta] = fb[p]
      BY <1>1, <2>1, <2>4 DEF Bridges
    <3> QED BY <3>1, <3>2, <3>3
  <2>5. CASE ~(draws /\ p \in rect) /\ p \notin u.changed /\ p \notin u.copied
    <3>1. now[p] = cfb[p]
      BY <1>4, <2>5
    <3>2. cfb[p].colour = shown[p]
      BY <1>9, <2>1, <3>1 DEF Linked
    <3>3. shown[p] = fb[p]
      BY <1>1, <2>1, <2>5 DEF Bridges
    <3> QED BY <3>1, <3>2, <3>3
  <2> QED BY <2>2, <2>3, <2>4, <2>5
<1> QED BY <1>5, <1>6, <1>8, <1>9

-----------------------------------------------------------------------------
(* Each action preserves the invariant.                                    *)

LEMMA InitInv == AsksForAll /\ Init => Inv
<1> SUFFICES ASSUME AsksForAll, Init PROVE Inv
  OBVIOUS
<1> DEFINE black == CHOOSE k \in Colour : TRUE
           left == CHOOSE p \in Pixel : \A q \in Pixel : p <= q
<1>1. black \in Colour /\ left \in Pixel
  BY RenderedCursorAssumption
<1>2. fb = [p \in Pixel |-> black] /\ cfb = [p \in Pixel |-> Plain(black)] /\ cursorPos = left
  BY DEF Init
<1> HIDE DEF black, left
<1>3. fb \in Image /\ cfb \in [Pixel -> Shown]
  BY <1>1, <1>2 DEF Image, Shown, Plain
<1>4. NewTracker(TRUE) \in Tracker /\ InFrame(NewTracker(TRUE)) /\ Pixel \in Region
  BY NewTrackerType DEF Region
<1>5. /\ cmp \in Tracker /\ InFrame(cmp) /\ cmp.video = {} /\ cmp.changed = {} /\ cmp.copied = {}
  BY <1>4 DEF Init, NewTracker
<1>6. upd \in Tracker /\ InFrame(upd) /\ upd.video = {} /\ upd.changed = Pixel
  <2>1. NewTracker(TRUE).video = {} /\ NewTracker(TRUE).changed = {}
    BY DEF NewTracker
  <2> QED BY <1>4, <2>1, AddChangedType DEF Init
<1>7. Formed
  <2>1. rendered = [rect |-> {}, under |-> fb] /\ {} \in Region
    BY DEF Init, Region
  <2>2. rendered \in [rect : Region, under : Image]
    BY <1>3, <2>1
  <2>3. {invalid, draw, remove, local, need, writing} \subseteq BOOLEAN /\ ~writing
        /\ requested = {} /\ drawn = {} /\ events = 0
    BY DEF Init
  <2>4. 0 \in 0..MaxEvents
    BY RenderedCursorAssumption
  <2> QED BY <1>1, <1>2, <1>3, <1>5, <1>6, <2>1, <2>2, <2>3, <2>4 DEF Formed, TypeOK, Image
<1>8. Tidy
  <2>1. ~Plain(black).cursor
    BY DEF Plain
  <2>2. \A p \in Pixel : cfb[p] = Plain(black)
    BY <1>2
  <2> QED BY <2>1, <2>2 DEF Init, Tidy
<1>9. Linked(fb, fb)
  <2>1. Plain(black).colour = black
    BY DEF Plain
  <2>2. \A p \in Pixel : cfb[p] = Plain(black) /\ fb[p] = black
    BY <1>2
  <2>3. Bridges(upd, fb, fb) /\ Bridges(cmp, fb, fb)
    BY <1>5, <1>6 DEF Bridges
  <2> QED BY <2>1, <2>2, <2>3 DEF Init, Linked
<1> QED BY <1>3, <1>7, <1>8, <1>9 DEF Inv

(* A write that leaves the client's screen right and its cursor on record. *)
LEMMA Written ==
  ASSUME Inv, NEW others \in BOOLEAN, WriteFramebufferUpdate(others),
         drawn' \in Region, draw' \in BOOLEAN, requested' \in {{}, Pixel}, cfb' \in [Pixel -> Shown],
         \A p \in Pixel : cfb'[p].cursor => p \in drawn',
         drawn' # {} => drawn' = CursorRect,
         \A p \in Pixel : (local => ~cfb'[p].cursor) => cfb'[p].colour = fb[p]
  PROVE  Inv'
<1>1. /\ writing /\ writing' = FALSE /\ remove' = FALSE
      /\ UNCHANGED <<fb, cursorPos, local, need, events>> /\ CheckUpdate(others)
  BY DEF WriteFramebufferUpdate, Write
<1>2. /\ upd' \in Tracker /\ InFrame(upd') /\ upd'.video = {} /\ upd'.changed = {} /\ upd'.copied = {}
      /\ cmp' \in Tracker /\ InFrame(cmp') /\ cmp'.video = {} /\ cmp'.changed = {} /\ cmp'.copied = {}
      /\ rendered' \in [rect : Region, under : Image] /\ invalid' \in BOOLEAN
  BY <1>1, WriteFlushes, CheckUpdateTypes
<1>3. /\ rendered' = Rendered(others)
      /\ ~invalid' => rendered'.rect = CursorRect
  BY <1>1, RenderedKept DEF CheckUpdate
<1>4. CursorRect' = CursorRect
  BY <1>1 DEF CursorRect
<1>5. Formed'
  <2>1. /\ fb' \in [Pixel -> Colour] /\ cursorPos' \in Pixel /\ events' \in 0..MaxEvents
        /\ local' \in BOOLEAN /\ need' \in BOOLEAN /\ remove' \in BOOLEAN /\ writing' \in BOOLEAN
    BY <1>1 DEF Inv, Formed, TypeOK
  <2>2. requested' \in Region
    BY DEF Region
  <2>3. TypeOK'
    BY <1>2, <2>1, <2>2 DEF TypeOK, Image
  <2> QED BY <1>1, <1>2, <2>3 DEF Formed
<1>6. Tidy'
  BY <1>1, <1>3, <1>4 DEF Inv, Tidy
<1>7. fb \in Image /\ fb' = fb /\ local' = local
  BY <1>1 DEF Inv, Formed, TypeOK, Image
<1>8. Bridges(upd', fb, fb) /\ Bridges(cmp', fb, fb)
  BY <1>2 DEF Bridges
<1>9. ~local => \A p \in CursorRect : rendered'.under[p] = fb[p]
  BY <1>3, RenderedRight DEF Inv
<1>10. \E shown, seen \in Image :
         /\ Bridges(upd', shown, seen) /\ Bridges(cmp', seen, fb')
         /\ \A p \in Pixel : (local' => ~cfb'[p].cursor) => cfb'[p].colour = shown[p]
         /\ ~local' /\ ~invalid' => \A p \in CursorRect' : rendered'.under[p] = seen[p]
  BY <1>4, <1>7, <1>8, <1>9
<1> QED BY <1>5, <1>6, <1>10 DEF Inv, Linked

LEMMA WriteStep ==
  ASSUME Inv, NEW others \in BOOLEAN, WriteFramebufferUpdate(others) PROVE Inv'
<1> DEFINE ui == Info(Pended(others), requested)
           rect == Drawn(others)
           draws == Draws(others, rect)
           nothing == IsEmpty(Pended(others)) /\ ~draw
           sends == ~nothing /\ (~IsEmpty(ui) \/ draws)
<1>1. /\ writing /\ requested = Pixel /\ writing' = FALSE /\ remove' = FALSE
      /\ UNCHANGED <<fb, cursorPos, local, need, events>> /\ CheckUpdate(others)
      /\ drawn' = IF nothing THEN Kept ELSE rect
      /\ \/ ~sends /\ draw' = (~nothing /\ draws) /\ UNCHANGED <<requested, cfb>>
         \/ sends /\ draw' = FALSE /\ cfb' = Painted(ui, rect, draws, others) /\ requested' = {}
  BY DEF WriteFramebufferUpdate, Write, Inv, Formed
<1>2. need => Rendered(others).rect = CursorRect
  BY RenderedKept
<1>3. ~local => need
  BY DEF Inv, Tidy
<1>4. drawn \in Region /\ Kept \in Region /\ CursorRect \in Region /\ CursorRect # {}
  BY CursorRectType DEF Inv, Formed, TypeOK, Kept, Region
<1>5. rect = IF need THEN CursorRect ELSE Kept
  <2>1. CursorRect \cap Pixel = CursorRect
    BY <1>4 DEF Region
  <2> QED BY <1>1, <1>2, <2>1, WholeBounds DEF Drawn
<1>6. draws \in BOOLEAN /\ nothing \in BOOLEAN
  BY DEF Draws, Inv, Formed, TypeOK
<1>7. \A p \in Pixel : cfb[p].cursor => p \in drawn
  BY DEF Inv, Tidy
<1>8. ~remove /\ drawn # {} => drawn = CursorRect
  BY DEF Inv, Tidy
<1>9. CASE sends
  <2> HIDE DEF rect, draws, nothing
  <2>1. cfb' = Painted(ui, rect, draws, others) /\ requested' = {} /\ draw' = FALSE
    BY <1>1, <1>9
  <2>2. rect \in Region /\ (draws /\ ~local => rect = CursorRect)
    BY <1>3, <1>4, <1>5
  <2>3. /\ cfb' \in [Pixel -> Shown]
        /\ \A p \in Pixel : cfb'[p].cursor => (draws /\ p \in rect) \/ (p \in drawn /\ ~remove /\ cfb[p].cursor)
        /\ \A p \in Pixel : (local => ~cfb'[p].cursor) => cfb'[p].colour = fb[p]
    BY <1>1, <1>6, <2>1, <2>2, PaintedRight
  <2>4. drawn' = rect
    BY <1>1, <1>9 DEF nothing
  <2>5. rect # {} => rect = CursorRect
    BY <1>5, <1>8 DEF Kept
  <2>6. ~remove /\ drawn # {} => drawn = rect
    BY <1>5, <1>8 DEF Kept
  <2>7. \A p \in Pixel : cfb'[p].cursor => p \in drawn'
    BY <2>3, <2>4, <2>6
  <2> QED BY <2>1, <2>2, <2>3, <2>4, <2>5, <2>7, Written
<1>10. CASE ~sends
  <2>1. /\ Pended(others) \in Tracker /\ Pended(others).video = {}
        /\ remove => drawn \subseteq Pended(others).changed
        /\ \A shown, seen \in Image : Linked(shown, seen) => Bridges(Pended(others), shown, fb)
    BY <1>1, PendedRight
  <2>2. nothing
    <3>1. ui.changed = Pended(others).changed /\ ui.copied = Pended(others).copied
      <4>1. Pended(others).changed \cap Pixel = Pended(others).changed
            /\ Pended(others).copied \cap Pixel = Pended(others).copied /\ Pixel \in Region
        BY <2>1 DEF Tracker, Region
      <4> HIDE DEF ui
      <4>2. ui = Info(Pended(others), Pixel)
        BY <1>1 DEF ui
      <4> QED BY <2>1, <4>1, <4>2, InfoType
    <3>2. IsEmpty(ui) => IsEmpty(Pended(others))
      BY <2>1, <3>1 DEF IsEmpty
    <3>3. draw => draws
      BY <1>4, <1>5 DEF Draws
    <3> QED BY <1>10, <3>2, <3>3
  <2>3. drawn' = Kept /\ cfb' = cfb /\ requested' = requested /\ draw' = FALSE
    BY <1>1, <1>10, <2>2
  <2>4. Pended(others).changed = {} /\ Pended(others).copied = {}
    BY <2>2 DEF IsEmpty
  <2>5. Kept = drawn
    BY <2>1, <2>4 DEF Kept
  <2>6. drawn # {} => drawn = CursorRect
    BY <1>8, <2>1, <2>4
  <2>7. \A p \in Pixel : (local => ~cfb[p].cursor) => cfb[p].colour = fb[p]
    <3>1. PICK shown \in Image, seen \in Image : Linked(shown, seen)
      BY DEF Inv
    <3>2. \A p \in Pixel : shown[p] = fb[p]
      BY <2>1, <2>4, <3>1 DEF Bridges
    <3> QED BY <3>1, <3>2 DEF Linked
  <2>8. cfb \in [Pixel -> Shown] /\ requested \in {{}, Pixel}
    BY DEF Inv, Formed, TypeOK
  <2> QED BY <1>4, <1>7, <2>3, <2>5, <2>6, <2>7, <2>8, Written
<1> QED BY <1>9, <1>10

LEMMA OtherClientStep ==
  ASSUME Inv, NEW others \in BOOLEAN, OtherClientWrites(others) PROVE Inv'
<1>1. /\ ~writing /\ CheckUpdate(others) /\ upd' = Fed(others)
      /\ UNCHANGED <<fb, cursorPos, requested, drawn, draw, remove, cfb, local, need, writing, events>>
  BY DEF OtherClientWrites
<1>2. /\ upd' \in Tracker /\ InFrame(upd') /\ upd'.video = {}
      /\ \A shown, seen \in Image : Linked(shown, seen) => Bridges(upd', shown, fb)
  BY <1>1, FedRight
<1>3. /\ cmp' \in Tracker /\ InFrame(cmp') /\ cmp'.video = {} /\ cmp'.changed = {} /\ cmp'.copied = {}
      /\ rendered' \in [rect : Region, under : Image] /\ invalid' \in BOOLEAN
  BY <1>1, CheckUpdateTypes
<1>4. rendered' = Rendered(others) /\ (~invalid' => rendered'.rect = CursorRect)
  BY <1>1, RenderedKept DEF CheckUpdate
<1>5. CursorRect' = CursorRect
  BY <1>1 DEF CursorRect
<1>6. Formed'
  <2>1. TypeOK'
    BY <1>1, <1>2, <1>3 DEF Inv, Formed, TypeOK, Image
  <2> QED BY <1>1, <1>2, <1>3, <2>1 DEF Inv, Formed
<1>7. Tidy'
  BY <1>1, <1>4, <1>5 DEF Inv, Tidy
<1>8. PICK shown \in Image, seen \in Image : Linked(shown, seen)
  BY DEF Inv
<1>9. fb \in Image /\ fb' = fb /\ local' = local /\ cfb' = cfb
  BY <1>1 DEF Inv, Formed, TypeOK, Image
<1>10. Bridges(upd', shown, fb) /\ Bridges(cmp', fb, fb)
  BY <1>2, <1>3, <1>8 DEF Bridges
<1>11. ~local => \A p \in CursorRect : rendered'.under[p] = fb[p]
  BY <1>4, <1>8, RenderedRight
<1>12. \A p \in Pixel : (local => ~cfb[p].cursor) => cfb[p].colour = shown[p]
  BY <1>8 DEF Linked
<1>13. \E a, b \in Image :
         /\ Bridges(upd', a, b) /\ Bridges(cmp', b, fb')
         /\ \A p \in Pixel : (local' => ~cfb'[p].cursor) => cfb'[p].colour = a[p]
         /\ ~local' /\ ~invalid' => \A p \in CursorRect' : rendered'.under[p] = b[p]
  BY <1>5, <1>9, <1>10, <1>11, <1>12
<1> QED BY <1>6, <1>7, <1>13 DEF Inv, Linked

(* What the display does reaches the server's tracker.                     *)
LEMMA DisplayStep ==
  ASSUME Inv, cmp' \in Tracker, InFrame(cmp'), cmp'.video = {}, fb' \in Image,
         events' \in 0..MaxEvents,
         UNCHANGED <<cursorPos, rendered, invalid, clientVars, need, writing, local>>,
         \A seen \in Image : Bridges(cmp, seen, fb) => Bridges(cmp', seen, fb')
  PROVE  Inv'
<1>1. UNCHANGED <<upd, requested, drawn, draw, remove, cfb>> /\ CursorRect' = CursorRect
  BY DEF clientVars, CursorRect
<1>2. Formed'
  <2>1. TypeOK'
    BY <1>1 DEF Inv, Formed, TypeOK, Image
  <2> QED BY <1>1, <2>1 DEF Inv, Formed
<1>3. Tidy'
  BY <1>1 DEF Inv, Tidy
<1>4. \E shown, seen \in Image :
         /\ Bridges(upd', shown, seen) /\ Bridges(cmp', seen, fb')
         /\ \A p \in Pixel : (local' => ~cfb'[p].cursor) => cfb'[p].colour = shown[p]
         /\ ~local' /\ ~invalid' => \A p \in CursorRect' : rendered'.under[p] = seen[p]
  <2>1. PICK shown \in Image, seen \in Image : Linked(shown, seen)
    BY DEF Inv
  <2> QED BY <1>1, <2>1 DEF Linked
<1> QED BY <1>2, <1>3, <1>4 DEF Inv, Linked

LEMMA DrawStep ==
  ASSUME Inv, NEW R \in Strip, NEW k \in Colour, Draw(R, k) PROVE Inv'
<1>1. R \in Region /\ cmp \in Tracker /\ InFrame(cmp) /\ cmp.video = {} /\ fb \in [Pixel -> Colour]
  BY DEF Strip, Inv, Formed, TypeOK
<1>2. cmp' = AddChanged(cmp, R)
  <2>1. R \cap Pixel = R
    BY <1>1 DEF Region
  <2> QED BY <2>1 DEF Draw, ClipChanged
<1>3. cmp' \in Tracker /\ InFrame(cmp') /\ cmp'.video = {}
  BY <1>1, <1>2, AddChangedType
<1>4. fb' \in Image /\ \A p \in Pixel \ R : fb'[p] = fb[p]
  BY <1>1 DEF Draw, Image
<1>5. ASSUME NEW seen \in Image, Bridges(cmp, seen, fb) PROVE Bridges(cmp', seen, fb')
  BY <1>1, <1>2, <1>4, <1>5, AddChangedBridges
<1>6. events' \in 0..MaxEvents
  BY RenderedCursorAssumption DEF Draw, Event, Inv, Formed, TypeOK
<1>7. UNCHANGED <<cursorPos, rendered, invalid, clientVars, need, writing, local>>
  BY DEF Draw, Event
<1> QED BY <1>3, <1>4, <1>5, <1>6, <1>7, DisplayStep

LEMMA CopyAreaStep ==
  ASSUME Inv, NEW dest \in Strip, NEW d \in Deltas, NEW k \in Colour, CopyArea(dest, d, k)
  PROVE  Inv'
<1>1. /\ dest \in Region /\ d \in Int
      /\ cmp \in Tracker /\ InFrame(cmp) /\ cmp.video = {} /\ fb \in [Pixel -> Colour]
  BY RenderedCursorAssumption DEF Strip, Inv, Formed, TypeOK
<1>2. cmp' = ClipCopied(cmp, dest, d)
  BY DEF CopyArea
<1>3. cmp' \in Tracker /\ InFrame(cmp') /\ cmp'.video = {}
  BY <1>1, <1>2, ClipType
<1>4. /\ fb' \in Image
      /\ \A p \in Pixel : fb'[p] = IF p \notin dest THEN fb[p]
                                   ELSE IF p - d \in Pixel THEN fb[p - d] ELSE k
  BY <1>1 DEF CopyArea, Image
<1>5. ASSUME NEW seen \in Image, Bridges(cmp, seen, fb) PROVE Bridges(cmp', seen, fb')
  BY <1>1, <1>2, <1>4, <1>5, ClipCopiedBridges
<1>6. events' \in 0..MaxEvents
  BY RenderedCursorAssumption DEF CopyArea, Event, Inv, Formed, TypeOK
<1>7. UNCHANGED <<cursorPos, rendered, invalid, clientVars, need, writing, local>>
  BY DEF CopyArea, Event
<1> QED BY <1>3, <1>4, <1>5, <1>6, <1>7, DisplayStep

(* Requests, pointers and time leave the two screens alone; a new position *)
(* makes the cursor stale.                                                 *)
LEMMA QuietStep ==
  ASSUME Inv, UNCHANGED <<fb, cmp, rendered, upd, drawn, cfb, local>>,
         cursorPos' \in Pixel, need' \in BOOLEAN, ~local => need',
         events' \in 0..MaxEvents, draw' \in BOOLEAN, writing' \in BOOLEAN,
         requested' \in {{}, Pixel}, writing' => requested' = Pixel,
         \/ UNCHANGED <<cursorPos, invalid, remove>>
         \/ invalid' = TRUE /\ remove' = TRUE
  PROVE  Inv'
<1>1. invalid' \in BOOLEAN /\ remove' \in BOOLEAN /\ requested' \in Region
  BY DEF Inv, Formed, TypeOK, Region
<1>2. Formed'
  <2>1. TypeOK'
    BY <1>1 DEF Inv, Formed, TypeOK
  <2> QED BY <2>1 DEF Inv, Formed
<1>3. \/ CursorRect' = CursorRect /\ UNCHANGED <<invalid, remove>>
      \/ invalid' = TRUE /\ remove' = TRUE
  BY DEF CursorRect
<1>4. Tidy'
  BY <1>3 DEF Inv, Tidy
<1>5. \E shown, seen \in Image :
         /\ Bridges(upd', shown, seen) /\ Bridges(cmp', seen, fb')
         /\ \A p \in Pixel : (local' => ~cfb'[p].cursor) => cfb'[p].colour = shown[p]
         /\ ~local' /\ ~invalid' => \A p \in CursorRect' : rendered'.under[p] = seen[p]
  <2>1. PICK shown \in Image, seen \in Image : Linked(shown, seen)
    BY DEF Inv
  <2> QED BY <1>3, <2>1 DEF Linked
<1> QED BY <1>2, <1>4, <1>5 DEF Inv, Linked

LEMMA NextStep == AsksForAll /\ Inv /\ [Next]_vars => Inv'
<1> SUFFICES ASSUME AsksForAll, Inv, [Next]_vars PROVE Inv'
  OBVIOUS
<1> USE DEF clientVars, serverVars
<1>1. /\ cursorPos \in Pixel /\ need \in BOOLEAN /\ (~local => need) /\ events \in 0..MaxEvents
      /\ draw \in BOOLEAN /\ writing \in BOOLEAN /\ requested \in {{}, Pixel}
      /\ (writing => requested = Pixel) /\ remove \in BOOLEAN /\ invalid \in BOOLEAN
  BY DEF Inv, Formed, TypeOK, Tidy
<1>2. ASSUME NEW R \in Asked, FramebufferUpdateRequest(R) PROVE Inv'
  <2>1. requested' = Pixel /\ writing' = TRUE
    BY <1>1, <1>2 DEF FramebufferUpdateRequest, AsksForAll
  <2> QED BY <1>1, <1>2, <2>1, QuietStep DEF FramebufferUpdateRequest
<1>3. CASE TryUpdate
  BY <1>1, <1>3, QuietStep DEF TryUpdate
<1>4. \A n : n \in Needs => n \in BOOLEAN /\ (~local => n = TRUE)
  BY DEF Needs
<1>5. events < MaxEvents => events + 1 \in 0..MaxEvents
  BY <1>1, RenderedCursorAssumption
<1>6. ASSUME NEW p \in Pixel, CursorChange(p) PROVE Inv'
  <2>1. need' \in BOOLEAN /\ (~local => need') /\ events' \in 0..MaxEvents
    BY <1>4, <1>5, <1>6 DEF CursorChange, Event
  <2>2. draw' \in BOOLEAN /\ writing' = writing
    BY <1>6 DEF CursorChange, Event
  <2> QED BY <1>1, <1>6, <2>1, <2>2, QuietStep DEF CursorChange, Event
<1>7. CASE NeedChanges
  <2>1. need' \in BOOLEAN /\ (~local => need') /\ events' \in 0..MaxEvents
    BY <1>4, <1>5, <1>7 DEF NeedChanges, Event
  <2> QED BY <1>1, <1>7, <2>1, QuietStep DEF NeedChanges, Event
<1>8. CASE UNCHANGED vars
  BY <1>1, <1>8, QuietStep DEF vars
<1> QED BY <1>2, <1>3, <1>6, <1>7, <1>8, WriteStep, OtherClientStep, DrawStep, CopyAreaStep DEF Next

-----------------------------------------------------------------------------
(* What follows for every execution.                                       *)

(* Wherever a client shows a cursor the server knows of it, however the    *)
(* screen was drawn on and scrolled and whoever else propagated changes.   *)
THEOREM NoCursorTrail == ASSUME AsksForAll PROVE Spec => []NoTrail
<1>1. AsksForAll /\ Spec => []Inv
  BY InitInv, NextStep, PTL DEF Spec
<1>2. Inv => NoTrail
  BY DEF Inv, Tidy, NoTrail
<1> QED BY <1>1, <1>2, PTL

(* A pixel that awaits no update is the frame buffer's, under the cursor   *)
(* too if the server always draws it.                                      *)
THEOREM ScreenRight == ASSUME AsksForAll PROVE Spec => []ShownRight
<1>1. AsksForAll /\ Spec => []Inv
  BY InitInv, NextStep, PTL DEF Spec
<1>2. Inv => ShownRight
  <2> SUFFICES ASSUME Inv PROVE ShownRight
    OBVIOUS
  <2>1. PICK shown \in Image, seen \in Image : Linked(shown, seen)
    BY DEF Inv
  <2>2. \A p \in Pixel \ Pending : shown[p] = seen[p] /\ seen[p] = fb[p]
    BY <2>1 DEF Linked, Bridges, Pending
  <2>3. \A p \in Pixel \ Pending : (local => ~cfb[p].cursor) => cfb[p].colour = fb[p]
    BY <2>1, <2>2 DEF Linked
  <2> QED BY <2>3 DEF Inv, Formed, ShownRight, RestIsRight, Background
<1> QED BY <1>1, <1>2, PTL
=============================================================================
