---------------------- MODULE FramebufferUpdateProofs ----------------------
(***************************************************************************)
(* Proofs about FramebufferUpdate, for any frame buffer, clients, colours  *)
(* and number of events.                                                   *)
(***************************************************************************)
EXTENDS FramebufferUpdate, UpdateTrackerProofs

Framed == InFrame(cmp) /\ \A c \in Client : InFrame(upd[c])

Formed == TypeOK /\ Framed

-----------------------------------------------------------------------------
(* Types.                                                                  *)

LEMMA ComparedType ==
  ASSUME NEW u \in Tracker, InFrame(u)
  PROVE  /\ Compared(u) \in Tracker
         /\ InFrame(Compared(u))
         /\ Compared(u).video = u.video
         /\ u.copied = {} => Compared(u).copied = {}
  <1>1. NewChanged(u) \in Region
    BY DEF NewChanged, Tracker, Region
  <1> QED
    BY <1>1 DEF Compared, Tracker, Region, InFrame

LEMMA CheckedType ==
  ASSUME cmp \in Tracker, InFrame(cmp)
  PROVE  /\ Checked \in Tracker
         /\ InFrame(Checked)
         /\ Checked.video = cmp.video
         /\ cmp.copied = {} => Checked.copied = {}
  <1>1. /\ Normalized(cmp) \in Tracker /\ InFrame(Normalized(cmp))
        /\ Normalized(cmp).video = cmp.video
        /\ cmp.copied = {} => Normalized(cmp).copied = {}
    BY NormalizedType
  <1>2. /\ Compared(Normalized(cmp)) \in Tracker
        /\ InFrame(Compared(Normalized(cmp)))
        /\ Compared(Normalized(cmp)).video = cmp.video
        /\ cmp.copied = {} => Compared(Normalized(cmp)).copied = {}
    BY <1>1, ComparedType
  <1> QED
    BY <1>1, <1>2, NormalizedType DEF Checked

LEMMA PropagatedType ==
  ASSUME NEW u \in Tracker, NEW v \in Tracker, InFrame(v)
  PROVE  /\ Propagated(u, Info(v, Pixel)) \in Tracker
         /\ InFrame(u) => InFrame(Propagated(u, Info(v, Pixel)))
         /\ Propagated(u, Info(v, Pixel)).video = v.video \cap BoundingRect(Pixel)
         /\ (u.copied = {} /\ v.copied = {})
               => Propagated(u, Info(v, Pixel)).copied = {}
  <1> DEFINE i == Info(v, Pixel)
             w == AddCopied(u, i.copied, i.delta)
             x == AddChanged(w, i.changed)
  <1>1. /\ i.changed \in Region /\ i.copied \in Region /\ i.video \in Region
        /\ i.delta \in Int
        /\ i.copied = v.copied
        /\ i.video = v.video \cap BoundingRect(Pixel)
        /\ \A p \in i.copied : p - i.delta \in Pixel
    <2>1. Pixel \in Region
      BY DEF Region
    <2>2. /\ i \in UpdateInfo
          /\ i.copied = v.copied \cap Pixel
          /\ i.delta = v.delta
          /\ i.video = v.video \cap BoundingRect(Pixel)
      BY <2>1, InfoType
    <2>3. v.copied \cap Pixel = v.copied
      BY DEF Tracker, Region
    <2> HIDE DEF i
    <2> QED
      BY <2>2, <2>3 DEF UpdateInfo, InFrame
  <1> HIDE DEF i
  <1>2. /\ w \in Tracker
        /\ InFrame(u) => InFrame(w)
        /\ (u.copied = {} /\ v.copied = {}) => w.copied = {}
    BY <1>1, AddCopiedType
  <1> HIDE DEF w
  <1>3. /\ x \in Tracker
        /\ InFrame(u) => InFrame(x)
        /\ x.copied = w.copied
    BY <1>1, <1>2, AddChangedType
  <1> HIDE DEF x
  <1>4. Propagated(u, i) = SetVideoArea(x, i.video)
    BY DEF Propagated, x, w
  <1>5. /\ Propagated(u, i) \in Tracker
        /\ InFrame(u) => InFrame(Propagated(u, i))
        /\ Propagated(u, i).video = i.video
        /\ Propagated(u, i).copied = x.copied
    <2>1. i.video \in Region
      BY <1>1
    <2>2. /\ SetVideoArea(x, i.video) \in Tracker
          /\ InFrame(x) => InFrame(SetVideoArea(x, i.video))
          /\ SetVideoArea(x, i.video).video = i.video
          /\ SetVideoArea(x, i.video).copied = x.copied
      BY <1>3, <2>1, SetVideoAreaType
    <2>3. InFrame(u) => InFrame(x)
      BY <1>2, <1>3
    <2> QED
      BY <1>4, <2>2, <2>3
  <1> QED
    BY <1>1, <1>2, <1>3, <1>5 DEF i

\* Tracker u of a client whose enable_copyrect() is b after checkUpdate().
FedFrom(u) == IF Idle THEN u ELSE Propagated(u, Info(Checked, Pixel))

LEMMA FedType ==
  ASSUME Formed, NEW c \in Client
  PROVE  /\ Fed(c) \in [Client -> Tracker]
         /\ \A d \in Client :
              /\ Fed(c)[d] = FedFrom(IF d = c THEN EnableCopyrect(upd[c], useCopyRect[c])
                                     ELSE upd[d])
              /\ InFrame(Fed(c)[d])
              /\ (cmp.video = {} /\ upd[d].video = {}) => Fed(c)[d].video = {}
              /\ (cmp.copied = {} /\ upd[d].copied = {}) => Fed(c)[d].copied = {}
  <1> DEFINE en == [upd EXCEPT ![c] = EnableCopyrect(upd[c], useCopyRect[c])]
  <1>1. /\ EnableCopyrect(upd[c], useCopyRect[c]) \in Tracker
        /\ InFrame(EnableCopyrect(upd[c], useCopyRect[c]))
        /\ EnableCopyrect(upd[c], useCopyRect[c]).video = upd[c].video
        /\ upd[c].copied = {} => EnableCopyrect(upd[c], useCopyRect[c]).copied = {}
    BY EnableCopyrectType DEF Formed, TypeOK, Framed
  <1>2. /\ en \in [Client -> Tracker]
        /\ \A d \in Client :
             /\ en[d] = IF d = c THEN EnableCopyrect(upd[c], useCopyRect[c]) ELSE upd[d]
             /\ InFrame(en[d])
             /\ en[d].video = upd[d].video
             /\ upd[d].copied = {} => en[d].copied = {}
    BY <1>1 DEF Formed, TypeOK, Framed
  <1> HIDE DEF en
  <1>3. Fed(c) = IF Idle THEN en
                 ELSE [d \in Client |-> Propagated(en[d], Info(Checked, Pixel))]
    BY DEF Fed, en
  <1>4. /\ Checked \in Tracker /\ InFrame(Checked) /\ Checked.video = cmp.video
        /\ cmp.copied = {} => Checked.copied = {}
    BY CheckedType DEF Formed, TypeOK, Framed
  <1>5. ASSUME NEW d \in Client
        PROVE  /\ Propagated(en[d], Info(Checked, Pixel)) \in Tracker
               /\ InFrame(Propagated(en[d], Info(Checked, Pixel)))
               /\ (cmp.video = {} /\ upd[d].video = {})
                     => Propagated(en[d], Info(Checked, Pixel)).video = {}
               /\ (cmp.copied = {} /\ upd[d].copied = {})
                     => Propagated(en[d], Info(Checked, Pixel)).copied = {}
    BY <1>2, <1>4, PropagatedType
  <1> QED
    BY <1>2, <1>3, <1>5 DEF FedFrom

LEMMA OfferType ==
  ASSUME Formed, NEW c \in Client
  PROVE  /\ Offer(c) \in Tracker
         /\ InFrame(Offer(c))
         /\ Sendable(c) \in UpdateInfo
         /\ (cmp.video = {} /\ upd[c].video = {}) => Offer(c).video = {}
         /\ (cmp.copied = {} /\ upd[c].copied = {}) => Offer(c).copied = {}
  <1>1. /\ Fed(c)[c] \in Tracker
        /\ InFrame(Fed(c)[c])
        /\ (cmp.video = {} /\ upd[c].video = {}) => Fed(c)[c].video = {}
        /\ (cmp.copied = {} /\ upd[c].copied = {}) => Fed(c)[c].copied = {}
    BY FedType
  <1>2. Fed(c)[c].video \in Region /\ {} \in Region
    BY <1>1 DEF Tracker, Region
  <1>3. /\ AddChanged(Fed(c)[c], Fed(c)[c].video) \in Tracker
        /\ InFrame(AddChanged(Fed(c)[c], Fed(c)[c].video))
        /\ AddChanged(Fed(c)[c], Fed(c)[c].video).copied = Fed(c)[c].copied
    BY <1>1, <1>2, AddChangedType
  <1>4. /\ VideoAsChanged(Fed(c)[c]) \in Tracker
        /\ InFrame(VideoAsChanged(Fed(c)[c]))
        /\ Fed(c)[c].video = {} => VideoAsChanged(Fed(c)[c]).video = {}
        /\ Fed(c)[c].copied = {} => VideoAsChanged(Fed(c)[c]).copied = {}
    BY <1>1, <1>2, <1>3, SetVideoAreaType DEF VideoAsChanged
  <1>5. requested[c] \in Region
    BY DEF Formed, TypeOK
  <1>6. Offer(c) \in Tracker /\ InFrame(Offer(c))
    BY <1>4, NormalizedType DEF Offer
  <1> QED
    BY <1>1, <1>4, <1>5, <1>6, NormalizedType, InfoType DEF Offer, Sendable

LEMMA RemainingType ==
  ASSUME Formed, NEW c \in Client
  PROVE  /\ Remaining(c) \in Tracker
         /\ InFrame(Remaining(c))
         /\ Remaining(c).video = Offer(c).video
         /\ Offer(c).copied = {} => Remaining(c).copied = {}
  BY OfferType, SubtractType DEF Remaining, UpdateInfo, Region

LEMMA PaintedType ==
  ASSUME Formed, NEW c \in Client
  PROVE  Painted(c) \in Image
  <1>1. \A p \in Sendable(c).copied : p - Sendable(c).delta \in Pixel
    BY OfferType, InfoType DEF Sendable, InFrame, Formed, TypeOK
  <1>2. fb \in Image /\ cfb[c] \in Image
    BY DEF Formed, TypeOK
  <1> QED
    BY <1>1, <1>2 DEF Painted, Image

\* checkUpdate() and the removal of what was sent keep the types.
LEMMA CheckUpdateType ==
  ASSUME Formed, CheckUpdate
  PROVE  /\ cmp' \in Tracker /\ InFrame(cmp')
         /\ oldFb' \in Image /\ seen' \in Image /\ firstCompare' \in BOOLEAN
         /\ cmp'.video = cmp.video
         /\ cmp.copied = {} => cmp'.copied = {}
  <1>1. Checked \in Tracker /\ Checked.video = cmp.video
    BY CheckedType DEF Formed, TypeOK, Framed
  <1>2. cmp \in Tracker /\ InFrame(cmp) /\ fb \in Image /\ oldFb \in Image /\ seen \in Image
        /\ firstCompare \in BOOLEAN
    BY DEF Formed, TypeOK, Framed
  <1>3. ComparedOld(Normalized(cmp)) \in Image
    BY <1>2 DEF ComparedOld, Image
  <1> QED
    BY <1>1, <1>2, <1>3, NormalizedType, ClearType, FramebufferAssumption DEF CheckUpdate

\* What one client's write leaves: its own tracker is v, the others' are fed.
LEMMA WriteFormed ==
  ASSUME Formed, NEW c \in Client, NEW v \in Tracker, InFrame(v), CheckUpdate,
         upd' = [Fed(c) EXCEPT ![c] = v]
  PROVE  upd' \in [Client -> Tracker] /\ \A d \in Client : InFrame(upd'[d])
  BY FedType

LEMMA FormedInit == Init => Formed
  <1> SUFFICES ASSUME Init PROVE Formed
    OBVIOUS
  <1>1. NewTracker(FALSE) \in Tracker /\ InFrame(NewTracker(FALSE))
    BY NewTrackerType
  <1>2. NewComparer \in Tracker /\ InFrame(NewComparer)
    BY NewTrackerType, AddChangedType DEF NewComparer, Region
  <1>3. PICK V \in VideoAreas : cmp = SetVideoArea(NewComparer, V)
    BY DEF Init
  <1>4. cmp \in Tracker /\ InFrame(cmp)
    BY <1>2, <1>3, SetVideoAreaType, FramebufferAssumption
  <1> QED
    BY <1>1, <1>4 DEF Init, Formed, TypeOK, Framed, Image, Region

LEMMA FormedStep == Formed /\ [Next]_vars => Formed'
  <1> SUFFICES ASSUME Formed, [Next]_vars PROVE Formed'
    OBVIOUS
  <1> USE DEF serverVars, clientVars, modeVars
  <1>0. Pixel \in Region
    BY DEF Region
  <1>1. ASSUME NEW c \in Client, WriteReturns(c) PROVE Formed'
    BY <1>1 DEF WriteReturns, Formed, TypeOK, Framed
  <1>2. ASSUME NEW c \in Client, WriteNothing(c) PROVE Formed'
    <2>1. /\ cmp' \in Tracker /\ InFrame(cmp')
          /\ oldFb' \in Image /\ seen' \in Image /\ firstCompare' \in BOOLEAN
      BY <1>2, CheckUpdateType DEF WriteNothing
    <2>2. upd' \in [Client -> Tracker] /\ \A d \in Client : InFrame(upd'[d])
      BY <1>2, WriteFormed, OfferType DEF WriteNothing
    <2> QED
      BY <1>2, <2>1, <2>2 DEF WriteNothing, Formed, TypeOK, Framed
  <1>3. ASSUME NEW c \in Client, WriteUpdate(c) PROVE Formed'
    <2>1. /\ cmp' \in Tracker /\ InFrame(cmp')
          /\ oldFb' \in Image /\ seen' \in Image /\ firstCompare' \in BOOLEAN
      BY <1>3, CheckUpdateType DEF WriteUpdate
    <2>2. upd' \in [Client -> Tracker] /\ \A d \in Client : InFrame(upd'[d])
      BY <1>3, WriteFormed, RemainingType DEF WriteUpdate
    <2>3. cfb' \in [Client -> Image]
      BY <1>3, PaintedType DEF WriteUpdate, Formed, TypeOK
    <2>4. counter' \in [Client -> Nat]
      <3>1. VideoOnly(c) => counter[c] - 1 \in Nat
        BY DEF VideoOnly, Formed, TypeOK
      <3> QED
        BY <1>3, <3>1, FramebufferAssumption DEF WriteUpdate, Formed, TypeOK
    <2>5. requested' \in [Client -> Region] /\ fullUpdate' \in [Client -> BOOLEAN]
      BY <1>3 DEF WriteUpdate, Formed, TypeOK, Region
    <2> QED
      BY <1>3, <2>1, <2>2, <2>3, <2>4, <2>5 DEF WriteUpdate, Formed, TypeOK, Framed
  <1>4. CASE TryUpdate
    BY <1>4 DEF TryUpdate, Formed, TypeOK, Framed
  <1>5. ASSUME NEW c \in Client, Messages(c) PROVE Formed'
    <2>1. PICK inc \in Requests \cup {{}}, non \in Requests \cup {{}},
               copyRect \in BOOLEAN, freeze \in Freezes :
                 ProcessMessages(c, inc, non, copyRect, freeze)
      BY <1>5 DEF Messages
    <2>2. inc \in Region /\ non \in Region /\ freeze \in BOOLEAN
      BY FramebufferAssumption DEF Region, Freezes
    <2>3. cmp' \in Tracker /\ InFrame(cmp')
      BY <2>1, <2>2, AddChangedType DEF ProcessMessages, Formed, TypeOK, Framed
    <2>4. upd' \in [Client -> Tracker] /\ \A d \in Client : InFrame(upd'[d])
      BY <2>1, <2>2, AddChangedType DEF ProcessMessages, Formed, TypeOK, Framed
    <2>5. requested' \in [Client -> Region]
      BY <2>1, <2>2 DEF ProcessMessages, Formed, TypeOK, Region
    <2>6. fullUpdate' \in [Client -> BOOLEAN] /\ useCopyRect' \in [Client -> BOOLEAN]
          /\ frozen' \in [Client -> BOOLEAN] /\ turn' \subseteq Client
      BY <2>1, <2>2 DEF ProcessMessages, Formed, TypeOK
    <2> QED
      BY <2>1, <2>3, <2>4, <2>5, <2>6 DEF ProcessMessages, Formed, TypeOK, Framed
  <1>6. ASSUME NEW R \in Strip, NEW k \in Colour, Draw(R, k) PROVE Formed'
    <2>1. R \in Region /\ 0 \in Int
      BY DEF Strip
    <2>2. cmp' \in Tracker /\ InFrame(cmp')
      BY <1>6, <2>1, ClipType DEF Draw, Formed, TypeOK, Framed
    <2>3. fb' \in Image
      BY <1>6 DEF Draw, Formed, TypeOK, Image
    <2> QED
      BY <1>6, <2>2, <2>3 DEF Draw, Event, Formed, TypeOK, Framed
  <1>7. ASSUME NEW dest \in Strip, NEW d \in Deltas, NEW k \in Colour,
               CopyArea(dest, d, k)
        PROVE  Formed'
    <2>1. dest \in Region /\ d \in Int
      BY FramebufferAssumption DEF Strip
    <2>2. cmp' \in Tracker /\ InFrame(cmp')
      BY <1>7, <2>1, ClipType DEF CopyArea, Formed, TypeOK, Framed
    <2>3. fb' \in Image
      BY <1>7 DEF CopyArea, Formed, TypeOK, Image
    <2> QED
      BY <1>7, <2>2, <2>3 DEF CopyArea, Event, Formed, TypeOK, Framed
  <1>8. ASSUME NEW image \in Image, NEW V \in VideoAreas, SetPixelBuffer(image, V)
        PROVE  Formed'
    <2>1. V \in Region
      BY FramebufferAssumption
    <2>2. cmp' \in Tracker /\ InFrame(cmp')
      BY <1>8, <1>0, <2>1, NewTrackerType, AddChangedType, SetVideoAreaType
      DEF SetPixelBuffer, NewComparer
    <2>3. ASSUME NEW d \in Client
          PROVE  /\ AddChanged(Clear(upd[d]), Pixel) \in Tracker
                 /\ InFrame(AddChanged(Clear(upd[d]), Pixel))
      BY <1>0, ClearType, AddChangedType DEF Formed, TypeOK
    <2>4. upd' \in [Client -> Tracker] /\ \A d \in Client : InFrame(upd'[d])
      BY <1>8, <2>3 DEF SetPixelBuffer, Formed, TypeOK, Framed
    <2> QED
      BY <1>8, <2>2, <2>4 DEF SetPixelBuffer, Event, Formed, TypeOK, Framed
  <1>9. ASSUME NEW V \in VideoAreas, ApplyVideoRectangle(V) PROVE Formed'
    <2>1. cmp' \in Tracker /\ InFrame(cmp')
      BY <1>9, SetVideoAreaType, FramebufferAssumption
      DEF ApplyVideoRectangle, Formed, TypeOK, Framed
    <2> QED
      BY <1>9, <2>1 DEF ApplyVideoRectangle, Event, Formed, TypeOK, Framed
  <1>10. ASSUME NEW c \in Client, NEW k \in Colour, Join(c, k) PROVE Formed'
    <2>1. /\ AddChanged(NewTracker(FALSE), Pixel) \in Tracker
          /\ InFrame(AddChanged(NewTracker(FALSE), Pixel))
      BY <1>0, NewTrackerType, AddChangedType
    <2>2. upd' \in [Client -> Tracker] /\ \A d \in Client : InFrame(upd'[d])
      BY <1>10, <2>1 DEF Join, Formed, TypeOK, Framed
    <2>3. cfb' \in [Client -> Image]
      BY <1>10 DEF Join, Formed, TypeOK, Image
    <2>4. /\ requested' \in [Client -> Region]
          /\ fullUpdate' \in [Client -> BOOLEAN]
          /\ counter' \in [Client -> Nat]
      BY <1>10 DEF Join, Formed, TypeOK, Region
    <2>5. /\ frozen' \in [Client -> BOOLEAN] /\ useCopyRect' \in [Client -> BOOLEAN]
          /\ normal' \subseteq Client /\ events' \in Nat
      BY <1>10 DEF Join, Event, Formed, TypeOK
    <2> QED
      BY <1>10, <2>2, <2>3, <2>4, <2>5 DEF Join, Formed, TypeOK, Framed
  <1>11. ASSUME NEW c \in Client, Leave(c) PROVE Formed'
    BY <1>11 DEF Leave, Event, Formed, TypeOK, Framed
  <1>12. CASE UNCHANGED vars
    BY <1>12 DEF vars, Formed, TypeOK, Framed
  <1> QED
    BY <1>1, <1>2, <1>3, <1>4, <1>5, <1>6, <1>7, <1>8, <1>9, <1>10, <1>11, <1>12 DEF Next

\* Every reachable state has the types of the code's fields; in particular no
\* pending copy, in the server's tracker or a client's, ever reads outside the
\* frame buffer.
THEOREM TrackersFormed == Spec => [](TypeOK /\ Framed)
  <1>1. Spec => []Formed
    BY FormedInit, FormedStep, PTL DEF Spec
  <1> QED
    BY <1>1, PTL DEF Formed

-----------------------------------------------------------------------------
(* Nothing is lost, when no video area is set and the clients either ask   *)
(* for the whole screen or the display never scrolls.                      *)

Plain == VideoAreas = {{}} /\ (Requests = {Pixel} \/ Deltas = {})

NoVideoSet == cmp.video = {} /\ \A c \in Client : upd[c].video = {}

WholeRequests == Requests = {Pixel} => \A c \in Client : requested[c] \in {{}, Pixel}

NothingCopied == Deltas = {} => cmp.copied = {} /\ \A c \in Client : upd[c].copied = {}

Sound ==
  /\ Formed
  /\ NoVideoSet /\ WholeRequests /\ NothingCopied
  /\ ServerBridged /\ ClientBridged /\ ComparesWithSeen

\* Comparing only takes out of a tracker what needs no update.
LEMMA ComparedBridges ==
  ASSUME NEW u \in Tracker, Bridges(u, seen, fb), InFrame(u),
         CompareFB, ComparesWithSeen
  PROVE  Bridges(Compared(u), seen, fb)
  <1>1. CASE firstCompare
    BY <1>1 DEF Compared
  <1>2. CASE ~firstCompare
    <2>1. oldFb = seen
      BY <1>2 DEF ComparesWithSeen
    <2>2. /\ Compared(u).changed = NewChanged(u)
          /\ Compared(u).copied = u.copied \ NewChanged(u)
          /\ Compared(u).delta = u.delta
      BY <1>2 DEF Compared, Tracker
    <2>3. ASSUME NEW p \in Pixel, p \notin NewChanged(u), p \in u.copied
          PROVE  p - u.delta \in Pixel /\ seen[p - u.delta] = fb[p]
      BY <2>1, <2>3 DEF NewChanged, CopiedOld, InFrame
    <2>4. ASSUME NEW p \in Pixel, p \notin NewChanged(u), p \notin u.copied
          PROVE  seen[p] = fb[p]
      BY <2>1, <2>4 DEF NewChanged, CopiedOld, Bridges
    <2> QED
      BY <2>2, <2>3, <2>4 DEF Bridges
  <1> QED
    BY <1>1, <1>2

LEMMA CheckedBridges ==
  ASSUME Sound
  PROVE  /\ Bridges(Normalized(cmp), seen, fb)
         /\ Bridges(Checked, seen, fb)
         /\ Checked \in Tracker /\ InFrame(Checked)
  <1>1. cmp \in Tracker /\ InFrame(cmp) /\ cmp.video = {} /\ Bridges(cmp, seen, fb)
    BY DEF Sound, Formed, TypeOK, Framed, NoVideoSet, ServerBridged
  <1> DEFINE n == Normalized(cmp)
  <1>2. n \in Tracker /\ InFrame(n) /\ n.video = {} /\ Bridges(n, seen, fb)
    BY <1>1, NormalizedType, NormalizedBridges
  <1>3. Checked \in Tracker /\ InFrame(Checked)
    BY <1>1, CheckedType
  <1> HIDE DEF n
  <1>4. CASE CompareFB
    <2>1. Compared(n) \in Tracker /\ Compared(n).video = {}
      BY <1>2, ComparedType
    <2>2. Bridges(Compared(n), seen, fb)
      BY <1>2, <1>4, ComparedBridges DEF Sound
    <2>3. Bridges(Normalized(Compared(n)), seen, fb)
      BY <2>1, <2>2, NormalizedBridges
    <2> QED
      BY <1>2, <1>3, <1>4, <2>3 DEF Checked, n
  <1>5. CASE ~CompareFB
    BY <1>2, <1>3, <1>5 DEF Checked, n
  <1> QED
    BY <1>4, <1>5

LEMMA IdleSame ==
  ASSUME Sound, Idle
  PROVE  seen = fb
  <1>1. Normalized(cmp) \in Tracker /\ Bridges(Normalized(cmp), seen, fb)
    BY CheckedBridges, NormalizedType DEF Sound, Formed, TypeOK
  <1>2. Normalized(cmp).changed = {} /\ Normalized(cmp).copied = {}
    BY <1>1 DEF Idle, IsEmpty, Info, Tracker, Region
  <1>3. \A p \in Pixel : seen[p] = fb[p]
    BY <1>1, <1>2 DEF Bridges
  <1> QED
    BY <1>3 DEF Sound, Formed, TypeOK, Image

\* Composition: a client's tracker that reached the last propagation reaches
\* the frame buffer once it was fed with the server's.
LEMMA PropagatedBridges ==
  ASSUME NEW u \in Tracker, InFrame(u), NEW v \in Tracker, InFrame(v),
         NEW old, NEW mid, NEW new,
         Bridges(u, old, mid), Bridges(v, mid, new)
  PROVE  Bridges(Propagated(u, Info(v, Pixel)), old, new)
  <1> DEFINE i == Info(v, Pixel)
  <1>1. /\ i.changed = v.changed /\ i.copied = v.copied /\ i.delta = v.delta
        /\ i.video \in Region
    <2>1. Pixel \in Region
      BY DEF Region
    <2>2. /\ i \in UpdateInfo
          /\ i.changed = v.changed \cap Pixel
          /\ i.copied = v.copied \cap Pixel
          /\ i.delta = v.delta
      BY <2>1, InfoType
    <2>3. v.changed \cap Pixel = v.changed /\ v.copied \cap Pixel = v.copied
      BY DEF Tracker, Region
    <2> HIDE DEF i
    <2> QED
      BY <2>2, <2>3 DEF UpdateInfo
  <1> HIDE DEF i
  <1>2. Propagated(u, i) = SetVideoArea(Feed(u, v), i.video)
    BY <1>1 DEF Propagated, Feed
  <1>3. Feed(u, v) \in Tracker /\ Bridges(Feed(u, v), old, new)
    BY FeedType, FeedBridges
  <1> QED
    BY <1>1, <1>2, <1>3, SetVideoAreaType DEF Bridges, i

LEMMA FedBridges ==
  ASSUME Sound, NEW c \in Client, NEW d \in normal
  PROVE  Bridges(Fed(c)[d], cfb[d], fb)
  <1> DEFINE u == IF d = c THEN EnableCopyrect(upd[c], useCopyRect[c]) ELSE upd[d]
  <1>1. d \in Client /\ upd[d] \in Tracker /\ InFrame(upd[d]) /\ useCopyRect[c] \in BOOLEAN
        /\ Bridges(upd[d], cfb[d], seen)
    BY DEF Sound, Formed, TypeOK, Framed, ClientBridged
  <1>2. u \in Tracker /\ InFrame(u) /\ Bridges(u, cfb[d], seen)
    BY <1>1, EnableCopyrectType, EnableCopyrectBridges
  <1>3. Fed(c)[d] = FedFrom(u)
    BY <1>1, FedType DEF Sound
  <1> HIDE DEF u
  <1>4. CASE Idle
    BY <1>2, <1>3, <1>4, IdleSame DEF FedFrom
  <1>5. CASE ~Idle
    BY <1>2, <1>3, <1>5, CheckedBridges, PropagatedBridges DEF FedFrom
  <1> QED
    BY <1>4, <1>5

LEMMA OfferBridges ==
  ASSUME Sound, NEW c \in normal
  PROVE  /\ Offer(c) \in Tracker /\ InFrame(Offer(c)) /\ Offer(c).video = {}
         /\ Bridges(Offer(c), cfb[c], fb)
  <1>1. c \in Client
    BY DEF Sound, Formed, TypeOK
  <1>2. Fed(c)[c] \in Tracker /\ Fed(c)[c].video = {} /\ Bridges(Fed(c)[c], cfb[c], fb)
    BY <1>1, FedType, FedBridges DEF Sound, NoVideoSet
  <1>3. /\ AddChanged(Fed(c)[c], {}) \in Tracker
        /\ Bridges(AddChanged(Fed(c)[c], {}), cfb[c], fb)
    BY <1>2, AddChangedType, AddChangedBridges DEF Region
  <1>4. /\ VideoAsChanged(Fed(c)[c]) \in Tracker
        /\ VideoAsChanged(Fed(c)[c]).video = {}
        /\ Bridges(VideoAsChanged(Fed(c)[c]), cfb[c], fb)
    BY <1>2, <1>3, SetVideoAreaType DEF VideoAsChanged, Bridges, Region
  <1> QED
    BY <1>1, <1>4, OfferType, NormalizedType, NormalizedBridges
    DEF Offer, Sound, NoVideoSet

\* What is left after the client drew the update still bridges the rest.
LEMMA PaintedBridges ==
  ASSUME Sound, Plain, NEW c \in normal, Ready(c)
  PROVE  Bridges(Remaining(c), Painted(c), fb)
  <1> DEFINE o == Offer(c)
             ui == Sendable(c)
  <1>1. c \in Client /\ requested[c] \in Region
    BY DEF Sound, Formed, TypeOK
  <1>2. /\ o \in Tracker /\ InFrame(o) /\ o.video = {} /\ Bridges(o, cfb[c], fb)
    BY OfferBridges
  <1>3. /\ ui.changed = o.changed \cap requested[c]
        /\ ui.copied = o.copied \cap requested[c]
        /\ ui.delta = o.delta /\ ui.video = {}
    BY <1>1, <1>2, InfoType DEF Sendable
  <1>4. ~WillSendVideo(c) /\ ~VideoOnly(c)
    BY <1>3 DEF WillSendVideo, VideoOnly
  <1>5. requested[c] = Pixel \/ o.copied = {}
    BY <1>1, OfferType DEF Plain, Sound, WholeRequests, NothingCopied, Ready
  <1>6. \A p \in Pixel : Painted(c)[p] = IF p \in ui.changed THEN fb[p]
                                         ELSE IF p \in ui.copied /\ p - ui.delta \in Pixel
                                         THEN cfb[c][p - ui.delta]
                                         ELSE cfb[c][p]
    BY <1>2, <1>3, <1>4 DEF Painted, InFrame
  <1>7. /\ Remaining(c).changed = o.changed \ requested[c]
        /\ Remaining(c).copied = o.copied \ requested[c]
        /\ Remaining(c).delta = o.delta
    <2>1. ui.changed \cup ui.copied \in Region
      BY <1>2, <1>3 DEF Tracker, Region
    <2>2. Remaining(c) = Subtract(o, ui.changed \cup ui.copied)
      BY <1>4 DEF Remaining
    <2>3. /\ Remaining(c).changed = o.changed \ (ui.changed \cup ui.copied)
          /\ Remaining(c).copied = o.copied \ (ui.changed \cup ui.copied)
          /\ Remaining(c).delta = o.delta
      <3> DEFINE sent == ui.changed \cup ui.copied
      <3> HIDE DEF o, ui, sent
      <3>1. sent \in Region /\ Remaining(c) = Subtract(o, sent)
        BY <2>1, <2>2 DEF sent
      <3>2. /\ Remaining(c).changed = o.changed \ sent
            /\ Remaining(c).copied = o.copied \ sent
            /\ Remaining(c).delta = o.delta
        BY <1>2, <3>1, SubtractType
      <3> QED
        BY <3>2 DEF sent
    <2>4. o.changed \cap o.copied = {}
      <3>1. VideoAsChanged(Fed(c)[c]) \in Tracker
        <4>1. Fed(c)[c] \in Tracker
          BY <1>1, FedType DEF Sound
        <4>2. Fed(c)[c].video \in Region /\ {} \in Region
          BY <4>1 DEF Tracker, Region
        <4> QED
          BY <4>1, <4>2, AddChangedType, SetVideoAreaType DEF VideoAsChanged
      <3> QED
        BY <3>1, NormalizedType DEF Offer
    <2> QED
      BY <1>3, <2>3, <2>4
  <1> HIDE DEF o, ui
  <1>8. ASSUME NEW p \in Pixel, p \notin Remaining(c).changed
        PROVE  IF p \in Remaining(c).copied
               THEN p - o.delta \in Pixel /\ Painted(c)[p - o.delta] = fb[p]
               ELSE Painted(c)[p] = fb[p]
    <2>1. CASE p \in o.changed
      BY <1>3, <1>5, <1>6, <1>7, <1>8, <2>1
    <2>2. CASE p \notin o.changed /\ p \in o.copied
      <3>1. requested[c] = Pixel
        BY <1>5, <2>2
      <3>2. p - o.delta \in Pixel /\ cfb[c][p - o.delta] = fb[p]
        BY <1>2, <2>2 DEF Bridges
      <3> QED
        BY <1>3, <1>6, <1>7, <2>2, <3>1, <3>2
    <2>3. CASE p \notin o.changed /\ p \notin o.copied
      <3>1. cfb[c][p] = fb[p]
        BY <1>2, <2>3 DEF Bridges
      <3> QED
        BY <1>3, <1>6, <1>7, <2>3, <3>1
    <2> QED
      BY <2>1, <2>2, <2>3
  <1> QED
    BY <1>7, <1>8 DEF Bridges

\* The server's side of a write.
LEMMA CheckUpdateSound ==
  ASSUME Sound, CheckUpdate, UNCHANGED fb
  PROVE  ServerBridged' /\ ComparesWithSeen' /\ seen' = fb
  <1>1. cmp \in Tracker /\ cmp.video = {}
    BY DEF Sound, Formed, TypeOK, NoVideoSet
  <1>2. CASE Idle
    <2>1. seen' = seen /\ seen = fb /\ cmp' = Normalized(cmp)
      BY <1>2, IdleSame DEF CheckUpdate
    <2>2. Bridges(cmp', seen', fb')
      BY <2>1, CheckedBridges
    <2> QED
      BY <1>2, <2>1, <2>2 DEF CheckUpdate, ServerBridged, ComparesWithSeen, Sound
  <1>3. CASE ~Idle
    <2>1. cmp' = Clear(Checked) /\ seen' = fb
      BY <1>3 DEF CheckUpdate
    <2>2. Bridges(cmp', seen', fb')
      BY <2>1, CheckedBridges, ClearType DEF Bridges
    <2>3. CompareFB => oldFb' = fb
      <3> SUFFICES ASSUME CompareFB PROVE oldFb' = fb
        OBVIOUS
      <3>1. oldFb' = ComparedOld(Normalized(cmp))
        BY <1>3 DEF CheckUpdate
      <3>2. CASE firstCompare
        BY <3>1, <3>2 DEF ComparedOld
      <3>3. CASE ~firstCompare
        <4>1. Bridges(Normalized(cmp), oldFb, fb)
          BY <3>3, CheckedBridges DEF Sound, ComparesWithSeen
        <4>2. \A p \in Pixel : oldFb'[p] = fb[p]
          BY <3>1, <3>3, <4>1 DEF ComparedOld, Bridges
        <4>3. fb \in Image /\ oldFb' = [p \in Pixel |-> oldFb'[p]]
          BY <3>1, <3>3 DEF ComparedOld, Sound, Formed, TypeOK
        <4> QED
          BY <4>2, <4>3 DEF Image
      <3> QED
        BY <3>2, <3>3
    <2> QED
      BY <2>1, <2>2, <2>3 DEF ServerBridged, ComparesWithSeen
  <1> QED
    BY <1>2, <1>3

\* The clients' side: v replaces the writer's tracker, the others are fed.
LEMMA WriteSound ==
  ASSUME Sound, NEW c \in normal, NEW v \in Tracker, CheckUpdate, UNCHANGED <<fb, normal>>,
         upd' = [Fed(c) EXCEPT ![c] = v],
         \A d \in normal \ {c} : cfb'[d] = cfb[d],
         Bridges(v, cfb'[c], fb), v.video = {},
         (Deltas = {}) => v.copied = {}
  PROVE  ClientBridged' /\ NoVideoSet' /\ NothingCopied'
  <1>1. c \in Client /\ normal \subseteq Client
    BY DEF Sound, Formed, TypeOK
  <1>2. /\ Fed(c) \in [Client -> Tracker]
        /\ \A d \in Client : /\ Fed(c)[d].video = {}
                             /\ (Deltas = {}) => Fed(c)[d].copied = {}
    BY <1>1, FedType DEF Sound, NoVideoSet, NothingCopied
  <1>3. \A d \in Client : upd'[d] = IF d = c THEN v ELSE Fed(c)[d]
    BY <1>1, <1>2
  <1>4. seen' = fb
    BY CheckUpdateSound
  <1>5. ASSUME NEW d \in normal PROVE Bridges(upd'[d], cfb'[d], seen')
    <2>1. CASE d = c
      BY <1>1, <1>3, <1>4, <2>1
    <2>2. CASE d # c
      BY <1>1, <1>3, <1>4, <2>2, FedBridges
    <2> QED
      BY <2>1, <2>2
  <1>6. /\ cmp'.video = {} /\ ((Deltas = {}) => cmp'.copied = {})
    BY CheckUpdateType DEF Sound, NoVideoSet, NothingCopied
  <1> QED
    BY <1>2, <1>3, <1>5, <1>6 DEF ClientBridged, NoVideoSet, NothingCopied

\* A clipped scroll of the frame buffer.
LEMMA CopyAreaSound ==
  ASSUME Sound, NEW dest \in Region, NEW d \in Int, NEW k \in Colour,
         CopyArea(dest, d, k)
  PROVE  ServerBridged'
  <1>1. cmp \in Tracker /\ InFrame(cmp) /\ Bridges(cmp, seen, fb)
    BY DEF Sound, Formed, TypeOK, Framed, ServerBridged
  <1>2. /\ cmp' = ClipCopied(cmp, dest, d) /\ seen' = seen
        /\ \A p \in Pixel : fb'[p] = IF p \notin dest THEN fb[p]
                                     ELSE IF p - d \in Pixel THEN fb[p - d] ELSE k
    BY DEF CopyArea
  <1>3. Bridges(ClipCopied(cmp, dest, d), seen, fb')
    BY <1>1, <1>2, ClipCopiedBridges
  <1> QED
    BY <1>2, <1>3 DEF ServerBridged

LEMMA SoundInit == Plain /\ Init => Sound
  <1> SUFFICES ASSUME Plain, Init PROVE Sound
    OBVIOUS
  <1>1. Formed
    BY FormedInit
  <1>2. NewComparer \in Tracker /\ NewComparer.copied = {}
    <2>1. NewTracker(TRUE) \in Tracker /\ Pixel \in Region /\ NewTracker(TRUE).copied = {}
      BY NewTrackerType DEF NewTracker, Region
    <2> QED
      BY <2>1, AddChangedType DEF NewComparer
  <1>3. cmp = SetVideoArea(NewComparer, {})
    BY DEF Init, Plain
  <1>4. cmp.video = {} /\ cmp.copied = {}
    BY <1>2, <1>3, SetVideoAreaType DEF Region
  <1>5. \A c \in Client : upd[c].video = {} /\ upd[c].copied = {}
    BY DEF Init, NewTracker
  <1>6. ServerBridged
    <2>1. NewTracker(TRUE) \in Tracker /\ Pixel \in Region
      BY NewTrackerType DEF Region
    <2>2. NewComparer.changed = NewTracker(TRUE).changed \cup Pixel
      BY <2>1, AddChangedType DEF NewComparer
    <2>3. cmp.changed = NewComparer.changed
      BY <1>2, <1>3, SetVideoAreaType DEF Region
    <2> QED
      BY <2>2, <2>3 DEF ServerBridged, Bridges
  <1> QED
    BY <1>1, <1>4, <1>5, <1>6
    DEF Init, Sound, NoVideoSet, WholeRequests, NothingCopied, ClientBridged, ComparesWithSeen

\* A step that leaves the clients' side, or the server's side, alone.
LEMMA ClientsKept ==
  ASSUME Sound, UNCHANGED <<upd, cfb, normal, seen>>
  PROVE  ClientBridged' /\ \A c \in Client : upd'[c].video = {}
  BY DEF Sound, ClientBridged, NoVideoSet

LEMMA SoundStep == Plain /\ Sound /\ [Next]_vars => Sound'
  <1> SUFFICES ASSUME Plain, Sound, [Next]_vars PROVE Sound'
    OBVIOUS
  <1> USE DEF serverVars, clientVars, modeVars
  <1>0. Formed' /\ Formed /\ Pixel \in Region
    BY FormedStep DEF Sound, Region
  <1>a. /\ cmp \in Tracker /\ cmp.video = {} /\ normal \subseteq Client
        /\ \A c \in Client : upd[c] \in Tracker /\ upd[c].video = {}
    BY <1>0 DEF Formed, TypeOK, Sound, NoVideoSet
  <1>1. ASSUME NEW c \in Client, WriteReturns(c) PROVE Sound'
    BY <1>0, <1>1 DEF WriteReturns, Sound, NoVideoSet, WholeRequests, NothingCopied,
         ServerBridged, ClientBridged, ComparesWithSeen
  <1>2. ASSUME NEW c \in Client, WriteNothing(c) PROVE Sound'
    <2>1. /\ c \in normal /\ CheckUpdate /\ UNCHANGED <<fb, normal, cfb, requested>>
          /\ upd' = [Fed(c) EXCEPT ![c] = Offer(c)]
      BY <1>2 DEF WriteNothing, Ready
    <2>2. ServerBridged' /\ ComparesWithSeen'
      BY <2>1, CheckUpdateSound
    <2>3. /\ Offer(c) \in Tracker /\ Offer(c).video = {} /\ Bridges(Offer(c), cfb[c], fb)
          /\ (Deltas = {}) => Offer(c).copied = {}
      BY <2>1, <1>0, OfferBridges, OfferType DEF Sound, NothingCopied
    <2>4. ClientBridged' /\ NoVideoSet' /\ NothingCopied'
      BY <2>1, <2>3, WriteSound
    <2> QED
      BY <1>0, <2>1, <2>2, <2>4 DEF Sound, WholeRequests
  <1>3. ASSUME NEW c \in Client, WriteUpdate(c) PROVE Sound'
    <2>1. /\ c \in normal /\ Ready(c) /\ CheckUpdate /\ UNCHANGED <<fb, normal>>
          /\ upd' = [Fed(c) EXCEPT ![c] = Remaining(c)]
          /\ cfb' = [cfb EXCEPT ![c] = Painted(c)]
          /\ requested' = [requested EXCEPT ![c] = {}]
      BY <1>3 DEF WriteUpdate, Ready
    <2>2. ServerBridged' /\ ComparesWithSeen'
      BY <2>1, CheckUpdateSound
    <2>3. cfb'[c] = Painted(c) /\ \A d \in normal \ {c} : cfb'[d] = cfb[d]
      BY <2>1, <1>0 DEF Formed, TypeOK
    <2>4. /\ Remaining(c) \in Tracker /\ Remaining(c).video = {}
          /\ (Deltas = {}) => Remaining(c).copied = {}
      BY <2>1, <1>0, OfferType, OfferBridges, RemainingType DEF Sound, NothingCopied
    <2>5. Bridges(Remaining(c), cfb'[c], fb)
      BY <2>1, <2>3, PaintedBridges
    <2>6. ClientBridged' /\ NoVideoSet' /\ NothingCopied'
      BY <2>1, <2>3, <2>4, <2>5, WriteSound
    <2>7. WholeRequests'
      BY <2>1, <1>0 DEF Sound, WholeRequests, Formed, TypeOK
    <2> QED
      BY <1>0, <2>2, <2>6, <2>7 DEF Sound
  <1>4. CASE TryUpdate
    BY <1>0, <1>4 DEF TryUpdate, Sound, NoVideoSet, WholeRequests, NothingCopied,
         ServerBridged, ClientBridged, ComparesWithSeen
  <1>5. ASSUME NEW c \in Client, Messages(c) PROVE Sound'
    <2>1. PICK inc \in Requests \cup {{}}, non \in Requests \cup {{}},
               copyRect \in BOOLEAN, freeze \in Freezes :
                 ProcessMessages(c, inc, non, copyRect, freeze)
      BY <1>5 DEF Messages
    <2>2. inc \in Region /\ non \in Region
      BY FramebufferAssumption DEF Region
    <2>3. /\ cmp' = AddChanged(cmp, non) /\ upd' = [upd EXCEPT ![c] = AddChanged(upd[c], non)]
          /\ requested' = [requested EXCEPT ![c] = requested[c] \cup inc \cup non]
          /\ UNCHANGED <<fb, oldFb, firstCompare, seen, cfb, normal>>
      BY <2>1 DEF ProcessMessages
    <2>4. ServerBridged' /\ cmp'.video = {} /\ cmp'.copied = cmp.copied
      BY <1>a, <2>2, <2>3, AddChangedType, AddChangedBridges DEF Sound, ServerBridged
    <2>5. ASSUME NEW d \in Client
          PROVE  /\ upd'[d].video = {} /\ upd'[d].copied = upd[d].copied
                 /\ d \in normal => Bridges(upd'[d], cfb[d], seen)
      <3>1. /\ AddChanged(upd[c], non).video = {}
            /\ AddChanged(upd[c], non).copied = upd[c].copied
            /\ c \in normal => Bridges(AddChanged(upd[c], non), cfb[c], seen)
        BY <1>a, <2>2, AddChangedType, AddChangedBridges DEF Sound, ClientBridged
      <3>2. upd'[d] = IF d = c THEN AddChanged(upd[c], non) ELSE upd[d]
        BY <2>3, <1>0 DEF Formed, TypeOK
      <3> QED
        BY <1>a, <3>1, <3>2 DEF Sound, ClientBridged
    <2>6. WholeRequests'
      <3>1. ASSUME Requests = {Pixel}, NEW d \in Client PROVE requested'[d] \in {{}, Pixel}
        <4>1. inc \in {{}, Pixel} /\ non \in {{}, Pixel} /\ requested[d] \in {{}, Pixel}
          BY <3>1 DEF Sound, WholeRequests
        <4> QED
          BY <2>3, <4>1, <1>0 DEF Formed, TypeOK
      <3> QED
        BY <3>1 DEF WholeRequests
    <2>7. ClientBridged' /\ ComparesWithSeen' /\ NoVideoSet' /\ NothingCopied'
      BY <2>3, <2>4, <2>5, <1>a
      DEF Sound, ClientBridged, ComparesWithSeen, NoVideoSet, NothingCopied
    <2> QED
      BY <1>0, <2>4, <2>6, <2>7 DEF Sound
  <1>6. ASSUME NEW R \in Strip, NEW k \in Colour, Draw(R, k) PROVE Sound'
    <2>1. R \in Region /\ R \cap Pixel = R
      BY DEF Strip, Region
    <2>2. /\ cmp' = AddChanged(cmp, R)
          /\ UNCHANGED <<upd, cfb, normal, seen, oldFb, firstCompare, requested>>
          /\ \A p \in Pixel \ R : fb'[p] = fb[p]
      BY <1>6, <2>1 DEF Draw, ClipChanged
    <2>3. ServerBridged' /\ cmp'.video = {} /\ cmp'.copied = cmp.copied
      BY <1>a, <2>1, <2>2, AddChangedType, AddChangedBridges DEF Sound, ServerBridged
    <2>4. ClientBridged' /\ NoVideoSet' /\ NothingCopied' /\ ComparesWithSeen' /\ WholeRequests'
      BY <2>2, <2>3 DEF Sound, ClientBridged, NoVideoSet, NothingCopied, ComparesWithSeen,
                        WholeRequests
    <2> QED
      BY <1>0, <2>3, <2>4 DEF Sound
  <1>7. ASSUME NEW dest \in Strip, NEW d \in Deltas, NEW k \in Colour,
               CopyArea(dest, d, k)
        PROVE  Sound'
    <2>1. dest \in Region /\ d \in Int /\ Deltas # {}
      BY FramebufferAssumption DEF Strip
    <2>2. ServerBridged'
      BY <1>7, <2>1, CopyAreaSound
    <2>3. UNCHANGED <<upd, cfb, normal, seen, oldFb, firstCompare, requested>>
      BY <1>7 DEF CopyArea
    <2>4. cmp'.video = {}
      BY <1>7, <1>0, <1>a, <2>1, ClipType DEF CopyArea, Formed, Framed
    <2>5. ClientBridged' /\ NoVideoSet' /\ NothingCopied' /\ ComparesWithSeen' /\ WholeRequests'
      BY <2>1, <2>3, <2>4 DEF Sound, ClientBridged, NoVideoSet, NothingCopied,
                              ComparesWithSeen, WholeRequests
    <2> QED
      BY <1>0, <2>2, <2>5 DEF Sound
  <1>8. ASSUME NEW image \in Image, NEW V \in VideoAreas, SetPixelBuffer(image, V)
        PROVE  Sound'
    <2>1. /\ cmp' = SetVideoArea(NewComparer, {}) /\ oldFb' = image /\ seen' = image
          /\ upd' = [c \in Client |-> IF c \in normal THEN AddChanged(Clear(upd[c]), Pixel)
                                      ELSE upd[c]]
          /\ UNCHANGED <<cfb, normal, requested>>
      BY <1>8 DEF SetPixelBuffer, Plain
    <2>2. /\ NewTracker(TRUE) \in Tracker /\ NewTracker(TRUE).copied = {} /\ {} \in Region
      BY NewTrackerType DEF NewTracker, Region
    <2>3. /\ NewComparer \in Tracker /\ NewComparer.copied = {}
          /\ Pixel \subseteq NewComparer.changed
      BY <1>0, <2>2, AddChangedType DEF NewComparer
    <2>4. cmp'.video = {} /\ cmp'.copied = {} /\ Pixel \subseteq cmp'.changed
      BY <2>1, <2>2, <2>3, SetVideoAreaType
    <2>5. ServerBridged'
      BY <2>4 DEF ServerBridged, Bridges
    <2>6. ASSUME NEW c \in Client
          PROVE  /\ upd'[c].video = {} /\ (upd[c].copied = {} => upd'[c].copied = {})
                 /\ c \in normal => Pixel \subseteq upd'[c].changed
      <3>1. /\ Clear(upd[c]) \in Tracker /\ Clear(upd[c]).video = {} /\ Clear(upd[c]).copied = {}
        BY <1>a, ClearType
      <3>2. /\ AddChanged(Clear(upd[c]), Pixel).video = {}
            /\ AddChanged(Clear(upd[c]), Pixel).copied = {}
            /\ Pixel \subseteq AddChanged(Clear(upd[c]), Pixel).changed
        BY <1>0, <3>1, AddChangedType
      <3> QED
        BY <1>a, <2>1, <3>2
    <2>7. ClientBridged' /\ NoVideoSet' /\ NothingCopied' /\ ComparesWithSeen' /\ WholeRequests'
      BY <1>a, <2>1, <2>4, <2>6 DEF Sound, ClientBridged, Bridges, NoVideoSet, NothingCopied,
                               ComparesWithSeen, WholeRequests
    <2> QED
      BY <1>0, <2>5, <2>7 DEF Sound
  <1>9. ASSUME NEW V \in VideoAreas, ApplyVideoRectangle(V) PROVE Sound'
    <2>1. /\ cmp' = SetVideoArea(cmp, {})
          /\ UNCHANGED <<fb, upd, cfb, normal, seen, oldFb, firstCompare, requested>>
      BY <1>9 DEF ApplyVideoRectangle, Plain
    <2>2. /\ cmp'.video = {} /\ cmp'.copied = cmp.copied /\ cmp'.changed = cmp.changed
          /\ cmp'.delta = cmp.delta
      BY <1>a, <2>1, SetVideoAreaType DEF Region
    <2>3. ServerBridged'
      BY <2>1, <2>2 DEF Sound, ServerBridged, Bridges
    <2>4. ClientBridged' /\ NoVideoSet' /\ NothingCopied' /\ ComparesWithSeen' /\ WholeRequests'
      BY <2>1, <2>2 DEF Sound, ClientBridged, NoVideoSet, NothingCopied, ComparesWithSeen,
                        WholeRequests
    <2> QED
      BY <1>0, <2>3, <2>4 DEF Sound
  <1>10. ASSUME NEW c \in Client, NEW k \in Colour, Join(c, k) PROVE Sound'
    <2>1. /\ upd' = [upd EXCEPT ![c] = AddChanged(NewTracker(FALSE), Pixel)]
          /\ requested' = [requested EXCEPT ![c] = {}]
          /\ normal' = normal \cup {c}
          /\ \A d \in normal : cfb'[d] = cfb[d]
          /\ UNCHANGED <<fb, cmp, oldFb, firstCompare, seen>>
      BY <1>10, <1>0 DEF Join, Formed, TypeOK
    <2>2. /\ AddChanged(NewTracker(FALSE), Pixel).video = {}
          /\ AddChanged(NewTracker(FALSE), Pixel).copied = {}
          /\ Pixel \subseteq AddChanged(NewTracker(FALSE), Pixel).changed
      BY DEF AddChanged, NewTracker
    <2>3. \A d \in Client : upd'[d] = IF d = c THEN AddChanged(NewTracker(FALSE), Pixel)
                                      ELSE upd[d]
      BY <1>0, <2>1 DEF Formed, TypeOK
    <2>4. ClientBridged'
      <3>1. ASSUME NEW d \in normal' PROVE Bridges(upd'[d], cfb'[d], seen')
        <4>1. CASE d = c
          BY <2>2, <2>3, <4>1 DEF Bridges
        <4>2. CASE d # c
          BY <1>a, <2>1, <2>3, <4>2 DEF Sound, ClientBridged
        <4> QED
          BY <4>1, <4>2
      <3> QED
        BY <3>1 DEF ClientBridged
    <2>5. WholeRequests'
      BY <1>0, <2>1 DEF Sound, WholeRequests, Formed, TypeOK
    <2>6. NoVideoSet' /\ NothingCopied' /\ ComparesWithSeen' /\ ServerBridged'
      BY <2>1, <2>2, <2>3 DEF Sound, NoVideoSet, NothingCopied, ComparesWithSeen, ServerBridged
    <2> QED
      BY <1>0, <2>4, <2>5, <2>6 DEF Sound
  <1>11. ASSUME NEW c \in Client, Leave(c) PROVE Sound'
    BY <1>0, <1>11 DEF Leave, Sound, NoVideoSet, WholeRequests, NothingCopied,
         ServerBridged, ClientBridged, ComparesWithSeen
  <1>12. CASE UNCHANGED vars
    BY <1>0, <1>12 DEF vars, Sound, NoVideoSet, WholeRequests, NothingCopied,
         ServerBridged, ClientBridged, ComparesWithSeen
  <1> QED
    BY <1>1, <1>2, <1>3, <1>4, <1>5, <1>6, <1>7, <1>8, <1>9, <1>10, <1>11, <1>12 DEF Next

\* Without a video area, and with clients that ask for the whole screen (or a
\* display that never scrolls), every client's tracker bridges what the client
\* shows and what the server last propagated.
THEOREM ClientTrackerSound == ASSUME Plain PROVE Spec => []ClientBridged
  <1>1. Plain /\ Spec => []Sound
    BY SoundInit, SoundStep, PTL DEF Spec
  <1> QED
    BY <1>1, PTL DEF Sound

\* Likewise the server's tracker bridges what it last propagated and the frame
\* buffer, so that nothing drawn is lost before checkUpdate() either.
THEOREM ServerTrackerSound == ASSUME Plain PROVE Spec => []ServerBridged
  <1>1. Plain /\ Spec => []Sound
    BY SoundInit, SoundStep, PTL DEF Spec
  <1> QED
    BY <1>1, PTL DEF Sound

\* And comparing never hides a change: the old image of the comparer is what
\* the clients were last told of.
THEOREM ComparesSound == ASSUME Plain PROVE Spec => []ComparesWithSeen
  <1>1. Plain /\ Spec => []Sound
    BY SoundInit, SoundStep, PTL DEF Spec
  <1> QED
    BY <1>1, PTL DEF Sound

\* Under the same conditions no pixel a client shows wrongly is ever forgotten.
THEOREM NothingLost == ASSUME Plain PROVE Spec => []NoStalePixel
  <1>1. Plain /\ Spec => []Sound
    BY SoundInit, SoundStep, PTL DEF Spec
  <1>2. Sound => NoStalePixel
    <2> SUFFICES ASSUME Sound, NEW c \in normal, NEW p \in Pixel, p \notin Pending(c)
                 PROVE  cfb[c][p] = fb[p]
      BY DEF NoStalePixel
    <2>1. cfb[c][p] = seen[p]
      BY DEF Sound, ClientBridged, Bridges, Pending
    <2>2. seen[p] = fb[p]
      BY DEF Sound, ServerBridged, Bridges, Pending
    <2> QED
      BY <2>1, <2>2
  <1> QED
    BY <1>1, <1>2, PTL
=============================================================================
