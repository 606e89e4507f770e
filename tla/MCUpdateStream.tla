--------------------------- MODULE MCUpdateStream ---------------------------
(* Small instances of UpdateStream for TLC. *)
EXTENDS UpdateStream

CONSTANTS deep, low
Support(c, r) == [cursor |-> c, resize |-> r, rename |-> TRUE]
Supported == {Support(TRUE, TRUE), Support(FALSE, TRUE), Support(TRUE, FALSE)}
=============================================================================
