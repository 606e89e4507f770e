------------------------ MODULE MCFramebufferUpdate ------------------------
(* Small instances of FramebufferUpdate for TLC. *)
EXTENDS FramebufferUpdate, TLC

CONSTANTS c1, c2

TwoPixels == 0..1
ThreePixels == 0..2
OnlyScreen == {Pixel}
AnyStrip == Strip
NoVideo == {{}}
LeftVideo == {{0}}
VideoOnOff == {{}, {0}}
ScrollBoth == {-1, 1}
NoScroll == {}
Symmetry == Permutations(Client)
=============================================================================
