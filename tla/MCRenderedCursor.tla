-------------------------- MODULE MCRenderedCursor --------------------------
(* Small instances of RenderedCursor for TLC. *)
EXTENDS RenderedCursor

ThreePixels == 0..2
ScrollBoth == {-1, 1}
OnlyScreen == {Pixel}
AnyStrip == Strip
=============================================================================
