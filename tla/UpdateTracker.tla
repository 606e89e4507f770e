--------------------------- MODULE UpdateTracker ---------------------------
(***************************************************************************)
(* The change trackers of common/rfb: SimpleUpdateTracker, its             *)
(* ComparingUpdateTracker's use of it, and ClippingUpdateTracker, as pure  *)
(* operators.  A tracker says how to bring an image up to date: paint the  *)
(* pixels of `changed', and obtain those of `copied' from `delta' away.    *)
(*                                                                         *)
(* A region is a set of pixels and a pixel an integer: a strip of the      *)
(* screen.  Rectangles and bands do not matter to what a tracker promises, *)
(* and the order in which a copy is cut into rectangles is not modelled.   *)
(***************************************************************************)
EXTENDS Integers, FiniteSets

CONSTANT Pixel      \* the pixels of the frame buffer
ASSUME PixelAssumption == Pixel \subseteq Int

Region == SUBSET Pixel

Tracker == [changed : Region, copied : Region, delta : Int, video : Region,
            copyOn : BOOLEAN]

\* What getUpdateInfo() hands out.
UpdateInfo == [changed : Region, copied : Region, delta : Int, video : Region]

NewTracker(copyOn) ==
  [changed |-> {}, copied |-> {}, delta |-> 0, video |-> {}, copyOn |-> copyOn]

Translate(R, d) == {p + d : p \in R}

BoundingRect(R) == {p \in Pixel : \E a, b \in R : a <= p /\ p <= b}
Area(R) == Cardinality(BoundingRect(R))

-----------------------------------------------------------------------------
(* SimpleUpdateTracker.                                                    *)

AddChanged(u, R) == [u EXCEPT !.changed = @ \cup R]

SetVideoArea(u, V) == [u EXCEPT !.video = V]

EnableCopyrect(u, on) ==
  IF ~on /\ u.copyOn
  THEN [u EXCEPT !.changed = @ \cup u.copied, !.copied = {}, !.copyOn = on]
  ELSE [u EXCEPT !.copyOn = on]

\* The new copy is disjoint from the old one: the bigger of the two is kept.
ReplaceCopied(u, dest, d) ==
  LET src == Translate(dest, -d)
  IN IF Area(u.copied) > Area(dest)
     THEN AddChanged(u, dest)
     ELSE [u EXCEPT !.changed = @ \cup Translate(src \cap u.changed, d) \cup u.copied,
                    !.copied = dest,
                    !.delta = d]

\* A part of the new copy continues the old one, and only that part is kept.
ExtendCopied(u, dest, d) ==
  LET overlap == Translate(dest, -d) \cap u.copied
      moved   == Translate(overlap, d)
  IN [u EXCEPT !.changed = @ \cup Translate(overlap \cap u.changed, d)
                             \cup ((dest \cup u.copied) \ moved),
               !.copied = moved,
               !.delta = @ + d]

AddCopied(u, dest, d) ==
  IF ~u.copyOn THEN AddChanged(u, dest)
  ELSE IF dest = {} THEN u
  ELSE IF Translate(dest, -d) \cap u.copied = {} THEN ReplaceCopied(u, dest, d)
  ELSE ExtendCopied(u, dest, d)

Subtract(u, R) == [u EXCEPT !.changed = @ \ R, !.copied = @ \ R]

\* getUpdateInfo() first makes the three regions disjoint, in the tracker...
Normalized(u) ==
  LET ch == u.changed \ u.video
  IN [u EXCEPT !.changed = ch, !.copied = @ \ (ch \cup u.video)]

\* ...and then clips them.
Info(u, clip) ==
  [changed |-> u.changed \cap clip, copied |-> u.copied \cap clip,
   delta |-> u.delta, video |-> u.video \cap BoundingRect(clip)]

IsEmpty(x) == x.changed = {} /\ x.copied = {} /\ x.video = {}

Clear(u) == [u EXCEPT !.changed = {}, !.copied = {}]

-----------------------------------------------------------------------------
(* ClippingUpdateTracker, with the whole screen as its rectangle.          *)

ClipChanged(u, R) == AddChanged(u, R \cap Pixel)

ClipCopied(u, dest, d) ==
  LET clipdest == dest \cap Pixel
      kept == Translate(Translate(clipdest, -d) \cap Pixel, d)
      rest == clipdest \ kept
  IN AddChanged(IF kept = {} THEN u ELSE AddCopied(u, kept, d), rest)

-----------------------------------------------------------------------------
(* What a tracker promises of two images: where it has nothing pending the *)
(* old one already is the new one, and where it has a copy pending the     *)
(* copy makes it so.                                                       *)

Bridges(u, old, new) ==
  \A p \in Pixel \ u.changed :
    IF p \in u.copied
    THEN p - u.delta \in Pixel /\ old[p - u.delta] = new[p]
    ELSE old[p] = new[p]
=============================================================================
