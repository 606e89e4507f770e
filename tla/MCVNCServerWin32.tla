-------------------------- MODULE MCVNCServerWin32 --------------------------
(***************************************************************************)
(* Instances of VNCServerWin32.  The program's own callers are the tray    *)
(* icon's thread and the dialog's; the header promises the calls to any    *)
(* thread, so the instance has more callers.                               *)
(***************************************************************************)
EXTENDS VNCServerWin32
=============================================================================
