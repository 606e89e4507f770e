------------------------ MODULE UpdateTrackerProofs ------------------------
(***************************************************************************)
(* What the operations of a tracker preserve, for any pixels and colours:  *)
(* the lemmas the proofs about FramebufferUpdate rest on.                  *)
(***************************************************************************)
EXTENDS UpdateTracker, TLAPS

\* Every pending copy comes from inside the frame buffer.
InFrame(u) == \A p \in u.copied : p - u.delta \in Pixel

LEMMA TranslateMember ==
  ASSUME NEW R \in SUBSET Int, NEW d \in Int, NEW q \in Int
  PROVE  q \in Translate(R, d) <=> q - d \in R
  <1>1. ASSUME q \in Translate(R, d) PROVE q - d \in R
    <2>1. PICK p \in R : q = p + d
      BY <1>1 DEF Translate
    <2> QED
      BY <2>1
  <1>2. ASSUME q - d \in R PROVE q \in Translate(R, d)
    <2>1. q = (q - d) + d
      OBVIOUS
    <2> QED
      BY <1>2, <2>1 DEF Translate
  <1> QED
    BY <1>1, <1>2

LEMMA TranslateInt ==
  ASSUME NEW R \in SUBSET Int, NEW d \in Int
  PROVE  Translate(R, d) \subseteq Int
  BY DEF Translate

-----------------------------------------------------------------------------
(* Types.                                                                  *)

LEMMA NewTrackerType ==
  ASSUME NEW b \in BOOLEAN
  PROVE  NewTracker(b) \in Tracker /\ InFrame(NewTracker(b))
  BY DEF NewTracker, Tracker, Region, InFrame

LEMMA AddChangedType ==
  ASSUME NEW u \in Tracker, NEW R \in Region
  PROVE  /\ AddChanged(u, R) \in Tracker
         /\ InFrame(u) => InFrame(AddChanged(u, R))
         /\ AddChanged(u, R).changed = u.changed \cup R
         /\ AddChanged(u, R).copied = u.copied
         /\ AddChanged(u, R).delta = u.delta
         /\ AddChanged(u, R).video = u.video
         /\ AddChanged(u, R).copyOn = u.copyOn
  BY DEF AddChanged, Tracker, Region, InFrame

LEMMA SetVideoAreaType ==
  ASSUME NEW u \in Tracker, NEW V \in Region
  PROVE  /\ SetVideoArea(u, V) \in Tracker
         /\ InFrame(u) => InFrame(SetVideoArea(u, V))
         /\ SetVideoArea(u, V).changed = u.changed
         /\ SetVideoArea(u, V).copied = u.copied
         /\ SetVideoArea(u, V).delta = u.delta
         /\ SetVideoArea(u, V).video = V
  BY DEF SetVideoArea, Tracker, Region, InFrame

LEMMA EnableCopyrectType ==
  ASSUME NEW u \in Tracker, NEW b \in BOOLEAN
  PROVE  /\ EnableCopyrect(u, b) \in Tracker
         /\ InFrame(u) => InFrame(EnableCopyrect(u, b))
         /\ EnableCopyrect(u, b).video = u.video
         /\ u.copied = {} => EnableCopyrect(u, b).copied = {}
  BY DEF EnableCopyrect, Tracker, Region, InFrame

LEMMA ClearType ==
  ASSUME NEW u \in Tracker
  PROVE  /\ Clear(u) \in Tracker
         /\ InFrame(Clear(u))
         /\ Clear(u).changed = {} /\ Clear(u).copied = {}
         /\ Clear(u).video = u.video
  BY DEF Clear, Tracker, Region, InFrame

LEMMA SubtractType ==
  ASSUME NEW u \in Tracker, NEW R \in Region
  PROVE  /\ Subtract(u, R) \in Tracker
         /\ InFrame(u) => InFrame(Subtract(u, R))
         /\ Subtract(u, R).changed = u.changed \ R
         /\ Subtract(u, R).copied = u.copied \ R
         /\ Subtract(u, R).delta = u.delta
         /\ Subtract(u, R).video = u.video
  BY DEF Subtract, Tracker, Region, InFrame

LEMMA NormalizedType ==
  ASSUME NEW u \in Tracker
  PROVE  /\ Normalized(u) \in Tracker
         /\ InFrame(u) => InFrame(Normalized(u))
         /\ Normalized(u).changed = u.changed \ u.video
         /\ Normalized(u).copied = u.copied \ (u.changed \cup u.video)
         /\ Normalized(u).delta = u.delta
         /\ Normalized(u).video = u.video
  BY DEF Normalized, Tracker, Region, InFrame

\* A copy whose source lies in the frame keeps the tracker well formed.
LEMMA AddCopiedType ==
  ASSUME NEW u \in Tracker, NEW dest \in Region, NEW d \in Int
  PROVE  /\ AddCopied(u, dest, d) \in Tracker
         /\ AddCopied(u, dest, d).video = u.video
         /\ (u.copied = {} /\ dest = {}) => AddCopied(u, dest, d).copied = {}
         /\ (InFrame(u) /\ \A p \in dest : p - d \in Pixel)
              => InFrame(AddCopied(u, dest, d))
  <1> DEFINE src == Translate(dest, -d)
  <1>1. /\ u.changed \in Region /\ u.copied \in Region /\ u.delta \in Int
        /\ u.video \in Region /\ u.copyOn \in BOOLEAN
        /\ dest \subseteq Int /\ -d \in Int
    BY PixelAssumption DEF Tracker, Region
  <1>2. CASE ~u.copyOn \/ dest = {}
    BY <1>2, AddChangedType DEF AddCopied
  <1>3. CASE u.copyOn /\ dest # {} /\ src \cap u.copied = {}
    <2> DEFINE inv == Translate(src \cap u.changed, d)
    <2>1. inv \in Region
      <3> SUFFICES ASSUME NEW q \in inv PROVE q \in dest
        BY DEF Region
      <3>1. src \cap u.changed \in SUBSET Int /\ q \in Int
        BY <1>1, TranslateInt DEF Translate
      <3>2. q - d \in src
        BY <3>1, TranslateMember
      <3>3. (q - d) - (-d) \in dest
        BY <1>1, <3>1, <3>2, TranslateMember
      <3> QED
        BY <3>1, <3>3
    <2>2. AddCopied(u, dest, d) = ReplaceCopied(u, dest, d)
      BY <1>3 DEF AddCopied
    <2> HIDE DEF inv
    <2>3. CASE Area(u.copied) > Area(dest)
      BY <1>3, <2>2, <2>3, AddChangedType DEF ReplaceCopied
    <2>4. CASE ~(Area(u.copied) > Area(dest))
      <3>1. ReplaceCopied(u, dest, d) =
              [u EXCEPT !.changed = u.changed \cup inv \cup u.copied,
                        !.copied = dest, !.delta = d]
        BY <2>4 DEF ReplaceCopied, inv
      <3> QED
        BY <1>1, <1>3, <2>1, <2>2, <3>1 DEF Tracker, Region, InFrame
    <2> QED
      BY <2>3, <2>4
  <1>4. CASE u.copyOn /\ dest # {} /\ src \cap u.copied # {}
    <2> DEFINE overlap == src \cap u.copied
               moved == Translate(overlap, d)
               inv == Translate(overlap \cap u.changed, d)
    <2>1. ASSUME NEW S \in SUBSET overlap, NEW q \in Translate(S, d)
          PROVE  q \in dest /\ q - d \in S
      <3>1. S \in SUBSET Int /\ q \in Int
        BY <1>1, <2>1, TranslateInt, PixelAssumption DEF Region, Translate
      <3>2. q - d \in S /\ q - d \in src
        BY <3>1, <2>1, TranslateMember
      <3>3. (q - d) - (-d) \in dest
        BY <1>1, <3>1, <3>2, TranslateMember
      <3> QED
        BY <3>1, <3>2, <3>3
    <2>2. moved \in Region /\ inv \in Region
      BY <2>1 DEF Region
    <2>3. ASSUME InFrame(u), NEW q \in moved PROVE q - (u.delta + d) \in Pixel
      <3>1. q - d \in u.copied /\ q \in Int
        BY <2>1, <2>3, PixelAssumption DEF Region
      <3>2. (q - d) - u.delta \in Pixel
        BY <3>1, <2>3 DEF InFrame
      <3> QED
        BY <1>1, <3>1, <3>2
    <2>4. AddCopied(u, dest, d) =
            [u EXCEPT !.changed = u.changed \cup inv \cup ((dest \cup u.copied) \ moved),
                      !.copied = moved, !.delta = u.delta + d]
      BY <1>4 DEF AddCopied, ExtendCopied
    <2>5. u.copied # {}
      BY <1>4
    <2> HIDE DEF moved, inv
    <2>6. u.delta + d \in Int
      BY <1>1
    <2>7. /\ AddCopied(u, dest, d).copied = moved
          /\ AddCopied(u, dest, d).delta = u.delta + d
          /\ AddCopied(u, dest, d).video = u.video
      BY <2>4 DEF Tracker
    <2>8. AddCopied(u, dest, d) \in Tracker
      BY <1>1, <2>2, <2>4, <2>6 DEF Tracker, Region
    <2> QED
      BY <2>3, <2>5, <2>7, <2>8 DEF InFrame
  <1> QED
    BY <1>1, <1>2, <1>3, <1>4

LEMMA InfoType ==
  ASSUME NEW u \in Tracker, NEW R \in Region
  PROVE  /\ Info(u, R) \in UpdateInfo
         /\ Info(u, R).changed = u.changed \cap R
         /\ Info(u, R).copied = u.copied \cap R
         /\ Info(u, R).delta = u.delta
         /\ Info(u, R).video = u.video \cap BoundingRect(R)
  BY DEF Info, Tracker, UpdateInfo, Region

LEMMA ClipType ==
  ASSUME NEW u \in Tracker, InFrame(u), NEW dest \in Region, NEW d \in Int
  PROVE  /\ ClipChanged(u, dest) \in Tracker
         /\ InFrame(ClipChanged(u, dest))
         /\ ClipChanged(u, dest).video = u.video
         /\ ClipChanged(u, dest).copied = u.copied
         /\ ClipCopied(u, dest, d) \in Tracker
         /\ InFrame(ClipCopied(u, dest, d))
         /\ ClipCopied(u, dest, d).video = u.video
  <1> DEFINE kept == Translate(Translate(dest, -d) \cap Pixel, d)
             v == IF kept = {} THEN u ELSE AddCopied(u, kept, d)
  <1>1. dest \subseteq Int /\ dest \cap Pixel = dest /\ -d \in Int
    <2>1. dest \subseteq Pixel /\ Pixel \subseteq Int
      BY PixelAssumption DEF Region
    <2>2. dest \cap Pixel = dest
      BY <2>1
    <2> QED
      BY <2>1, <2>2
  <1>2. ASSUME NEW q \in kept PROVE q \in dest /\ q - d \in Pixel
    <2>1. Translate(dest, -d) \cap Pixel \in SUBSET Int /\ q \in Int
      BY <1>1, PixelAssumption, TranslateInt DEF Translate
    <2>2. q - d \in Translate(dest, -d) /\ q - d \in Pixel
      BY <2>1, TranslateMember
    <2>3. (q - d) - (-d) \in dest
      BY <1>1, <2>1, <2>2, TranslateMember
    <2> QED
      BY <2>1, <2>2, <2>3
  <1>3. kept \in Region /\ dest \ kept \in Region
    BY <1>2 DEF Region
  <1>4. \A q \in kept : q - d \in Pixel
    BY <1>2
  <1>5. ClipCopied(u, dest, d) = AddChanged(v, dest \ kept)
    BY <1>1 DEF ClipCopied
  <1> HIDE DEF kept
  <1>6. v \in Tracker /\ InFrame(v) /\ v.video = u.video
    BY <1>3, <1>4, AddCopiedType
  <1> HIDE DEF v
  <1>7. /\ ClipCopied(u, dest, d) \in Tracker
        /\ InFrame(ClipCopied(u, dest, d))
        /\ ClipCopied(u, dest, d).video = u.video
    BY <1>3, <1>5, <1>6, AddChangedType
  <1> QED
    BY <1>1, <1>7, AddChangedType DEF ClipChanged

-----------------------------------------------------------------------------
(* What a tracker promises (Bridges) survives its operations.              *)

\* Marking the region in which the new image differs keeps the promise.
LEMMA AddChangedBridges ==
  ASSUME NEW u \in Tracker, NEW R \in Region, NEW old, NEW new, NEW newer,
         Bridges(u, old, new), \A p \in Pixel \ R : newer[p] = new[p]
  PROVE  Bridges(AddChanged(u, R), old, newer)
  BY AddChangedType DEF Bridges

LEMMA NormalizedBridges ==
  ASSUME NEW u \in Tracker, NEW old, NEW new, u.video = {}, Bridges(u, old, new)
  PROVE  Bridges(Normalized(u), old, new)
  BY NormalizedType DEF Bridges

LEMMA EnableCopyrectBridges ==
  ASSUME NEW u \in Tracker, NEW b \in BOOLEAN, NEW old, NEW new, Bridges(u, old, new)
  PROVE  Bridges(EnableCopyrect(u, b), old, new)
  BY DEF Bridges, EnableCopyrect, Tracker

\* add_copied(): when the new image is the middle one with dest copied from d
\* away, the tracker that bridged the old and the middle one bridges the old
\* and the new one, whichever copy it decides to keep.
LEMMA AddCopiedBridges ==
  ASSUME NEW u \in Tracker, NEW dest \in Region, NEW d \in Int,
         NEW old, NEW mid, NEW new,
         InFrame(u), Bridges(u, old, mid),
         \A p \in dest : p - d \in Pixel,
         \A p \in Pixel : new[p] = IF p \in dest THEN mid[p - d] ELSE mid[p]
  PROVE  Bridges(AddCopied(u, dest, d), old, new)
  <1> DEFINE src == Translate(dest, -d)
  <1>1. /\ u.changed \in Region /\ u.copied \in Region /\ u.delta \in Int
        /\ dest \subseteq Int /\ -d \in Int /\ Pixel \subseteq Int
    BY PixelAssumption DEF Tracker, Region
  <1>2. CASE ~u.copyOn \/ dest = {}
    <2>1. Bridges(AddChanged(u, dest), old, new)
      BY AddChangedBridges
    <2>2. dest = {} => Bridges(u, old, new)
      BY DEF Bridges
    <2> QED
      BY <1>2, <2>1, <2>2 DEF AddCopied
  <1>3. CASE u.copyOn /\ dest # {} /\ src \cap u.copied = {}
    <2> DEFINE inv == Translate(src \cap u.changed, d)
    <2>1. CASE Area(u.copied) > Area(dest)
      BY <1>3, <2>1, AddChangedBridges DEF AddCopied, ReplaceCopied
    <2>2. CASE ~(Area(u.copied) > Area(dest))
      <3>1. AddCopied(u, dest, d) =
              [u EXCEPT !.changed = u.changed \cup inv \cup u.copied,
                        !.copied = dest, !.delta = d]
        BY <1>3, <2>2 DEF AddCopied, ReplaceCopied
      <3>2. ASSUME NEW p \in Pixel, p \notin u.changed, p \notin inv, p \notin u.copied,
                   p \in dest
            PROVE  old[p - d] = new[p]
        <4>1. p - d \in Pixel /\ p - d = p + (-d) /\ p \in Int
          BY <1>1, <3>2
        <4>2. p - d \in src
          BY <1>1, <4>1, <3>2 DEF Translate
        <4>3. p - d \notin u.changed
          <5>1. p = (p - d) + d
            BY <4>1
          <5> QED
            BY <4>2, <5>1, <3>2 DEF Translate
        <4>4. p - d \notin u.copied
          BY <4>2, <1>3
        <4> QED
          BY <4>1, <4>3, <4>4, <3>2 DEF Bridges
      <3> HIDE DEF inv
      <3>3. ASSUME NEW p \in Pixel, p \notin u.changed, p \notin inv, p \notin u.copied,
                   p \notin dest
            PROVE  old[p] = new[p]
        BY <3>3 DEF Bridges
      <3>4. /\ AddCopied(u, dest, d).changed = u.changed \cup inv \cup u.copied
            /\ AddCopied(u, dest, d).copied = dest
            /\ AddCopied(u, dest, d).delta = d
        BY <3>1 DEF Tracker
      <3> QED
        BY <3>2, <3>3, <3>4 DEF Bridges
    <2> QED
      BY <2>1, <2>2
  <1>4. CASE u.copyOn /\ dest # {} /\ src \cap u.copied # {}
    <2> DEFINE overlap == src \cap u.copied
               moved == Translate(overlap, d)
               inv == Translate(overlap \cap u.changed, d)
    <2>1. AddCopied(u, dest, d) =
            [u EXCEPT !.changed = u.changed \cup inv \cup ((dest \cup u.copied) \ moved),
                      !.copied = moved, !.delta = u.delta + d]
      BY <1>4 DEF AddCopied, ExtendCopied
    <2>2. ASSUME NEW p \in Pixel, p \in moved, p \notin inv
          PROVE  p - (u.delta + d) \in Pixel /\ old[p - (u.delta + d)] = new[p]
      <3>1. p \in Int /\ overlap \in SUBSET Int
        BY <1>1 DEF Region
      <3>2. p - d \in overlap
        BY <3>1, <2>2, TranslateMember
      <3>3. p - d \notin u.changed
        <4>1. p = (p - d) + d
          BY <3>1
        <4> QED
          BY <3>2, <4>1, <2>2 DEF Translate
      <3>4. p \in dest
        <4>1. p - d \in Int /\ p - d \in src
          BY <3>1, <3>2
        <4>2. (p - d) - (-d) \in dest
          BY <1>1, <4>1, TranslateMember
        <4> QED
          BY <3>1, <4>2
      <3>5. p - d \in Pixel /\ p - d \in u.copied
        BY <3>2, <3>4
      <3>6. (p - d) - u.delta \in Pixel /\ old[(p - d) - u.delta] = mid[p - d]
        BY <3>3, <3>5 DEF Bridges
      <3>7. (p - d) - u.delta = p - (u.delta + d)
        BY <1>1, <3>1
      <3> QED
        BY <3>4, <3>6, <3>7
    <2>3. ASSUME NEW p \in Pixel, p \notin u.changed, p \notin moved,
                 p \notin dest \cup u.copied
          PROVE  old[p] = new[p]
      BY <2>3 DEF Bridges
    <2>4. /\ AddCopied(u, dest, d).changed
               = u.changed \cup inv \cup ((dest \cup u.copied) \ moved)
          /\ AddCopied(u, dest, d).copied = moved
          /\ AddCopied(u, dest, d).delta = u.delta + d
      BY <2>1 DEF Tracker
    <2> HIDE DEF moved, inv
    <2> QED
      BY <2>2, <2>3, <2>4 DEF Bridges
  <1> QED
    BY <1>1, <1>2, <1>3, <1>4

\* What propagation does to a client's tracker u when the server's is v.
Feed(u, v) == AddChanged(AddCopied(u, v.copied, v.delta), v.changed)

LEMMA FeedType ==
  ASSUME NEW u \in Tracker, InFrame(u), NEW v \in Tracker, InFrame(v)
  PROVE  /\ Feed(u, v) \in Tracker /\ InFrame(Feed(u, v))
         /\ Feed(u, v).video = u.video
  <1> DEFINE w == AddCopied(u, v.copied, v.delta)
  <1>1. /\ v.changed \in Region /\ v.copied \in Region /\ v.delta \in Int
        /\ \A p \in v.copied : p - v.delta \in Pixel
    BY DEF Tracker, InFrame
  <1>2. w \in Tracker /\ InFrame(w) /\ w.video = u.video
    BY <1>1, AddCopiedType
  <1> HIDE DEF w
  <1>3. /\ AddChanged(w, v.changed) \in Tracker /\ InFrame(AddChanged(w, v.changed))
        /\ AddChanged(w, v.changed).video = w.video
    BY <1>1, <1>2, AddChangedType
  <1> QED
    BY <1>2, <1>3 DEF Feed, w

\* Composition: a tracker that reached the middle image reaches the new one
\* once it was fed with what brings the middle one up to date.
LEMMA FeedBridges ==
  ASSUME NEW u \in Tracker, InFrame(u), NEW v \in Tracker, InFrame(v),
         NEW old, NEW mid, NEW new,
         Bridges(u, old, mid), Bridges(v, mid, new)
  PROVE  Bridges(Feed(u, v), old, new)
  <1> DEFINE w == AddCopied(u, v.copied, v.delta)
             now == [p \in Pixel |-> IF p \in v.copied THEN mid[p - v.delta] ELSE mid[p]]
  <1>1. /\ v.changed \in Region /\ v.copied \in Region /\ v.delta \in Int
        /\ \A p \in v.copied : p - v.delta \in Pixel
    BY DEF Tracker, InFrame
  <1>2. w \in Tracker
    BY <1>1, AddCopiedType
  <1>3. Bridges(w, old, now)
    BY <1>1, AddCopiedBridges
  <1>4. \A p \in Pixel \ v.changed : new[p] = now[p]
    BY <1>1 DEF Bridges
  <1> HIDE DEF w, now
  <1>5. Bridges(AddChanged(w, v.changed), old, new)
    BY <1>1, <1>2, <1>3, <1>4, AddChangedBridges
  <1> QED
    BY <1>5 DEF Feed, w

\* A clipped scroll by d, in which k came in from outside the frame.
LEMMA ClipCopiedBridges ==
  ASSUME NEW u \in Tracker, InFrame(u), NEW dest \in Region, NEW d \in Int, NEW k,
         NEW old, NEW mid, NEW new, Bridges(u, old, mid),
         \A p \in Pixel : new[p] = IF p \notin dest THEN mid[p]
                                   ELSE IF p - d \in Pixel THEN mid[p - d] ELSE k
  PROVE  Bridges(ClipCopied(u, dest, d), old, new)
  <1> DEFINE kept == Translate(Translate(dest, -d) \cap Pixel, d)
             v == IF kept = {} THEN u ELSE AddCopied(u, kept, d)
             now == [p \in Pixel |-> IF p \in kept THEN mid[p - d] ELSE mid[p]]
  <1>2. dest \subseteq Int /\ dest \cap Pixel = dest /\ -d \in Int
    <2>1. dest \subseteq Pixel /\ Pixel \subseteq Int
      BY PixelAssumption DEF Region
    <2>2. dest \cap Pixel = dest
      BY <2>1
    <2> QED
      BY <2>1, <2>2
  <1>3. ASSUME NEW q \in Pixel PROVE q \in kept <=> q \in dest /\ q - d \in Pixel
    <2>1. q \in Int /\ q - d \in Int /\ Translate(dest, -d) \subseteq Int
      BY <1>2, PixelAssumption, TranslateInt
    <2>2. q \in kept <=> q - d \in Translate(dest, -d) \cap Pixel
      BY <2>1, TranslateMember
    <2>3. q - d \in Translate(dest, -d) <=> (q - d) - (-d) \in dest
      BY <1>2, <2>1, TranslateMember
    <2>4. (q - d) - (-d) = q
      BY <1>2, <2>1
    <2> QED
      BY <2>2, <2>3, <2>4
  <1>4. kept \subseteq dest
    <2> SUFFICES ASSUME NEW q \in kept PROVE q \in dest
      OBVIOUS
    <2>1. q \in Int /\ Translate(dest, -d) \cap Pixel \in SUBSET Int
      BY <1>2, PixelAssumption DEF Translate
    <2>2. q - d \in Translate(dest, -d) /\ q - d \in Int
      BY <2>1, TranslateMember
    <2>3. (q - d) - (-d) \in dest
      BY <1>2, <2>2, TranslateMember
    <2> QED
      BY <1>2, <2>1, <2>3
  <1>5. kept \in Region /\ dest \ kept \in Region /\ \A q \in kept : q - d \in Pixel
    BY <1>3, <1>4 DEF Region
  <1>6. ClipCopied(u, dest, d) = AddChanged(v, dest \ kept)
    BY <1>2 DEF ClipCopied
  <1> HIDE DEF kept
  <1>7. \A p \in Pixel : now[p] = IF p \in kept THEN mid[p - d] ELSE mid[p]
    OBVIOUS
  <1> HIDE DEF now
  <1>8. v \in Tracker /\ Bridges(v, old, now)
    <2>1. CASE kept = {}
      BY <1>7, <2>1 DEF Bridges
    <2>2. CASE kept # {}
      BY <1>5, <1>7, <2>2, AddCopiedType, AddCopiedBridges
    <2> QED
      BY <2>1, <2>2
  <1> HIDE DEF v
  <1>9. \A p \in Pixel \ (dest \ kept) : new[p] = now[p]
    BY <1>3, <1>7
  <1> QED
    BY <1>5, <1>6, <1>8, <1>9, AddChangedBridges
=============================================================================
