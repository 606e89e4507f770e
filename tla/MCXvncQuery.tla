----------------------------- MODULE MCXvncQuery -----------------------------
(***************************************************************************)
(* Instances of XvncQuery.  The second connection may arrive at another    *)
(* address, or at that of the first when it has left.                      *)
(***************************************************************************)
EXTENDS XvncQuery
=============================================================================
