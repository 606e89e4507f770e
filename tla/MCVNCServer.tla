---------------------------- MODULE MCVNCServer ----------------------------
(* Small instances of VNCServer for TLC. *)
EXTENDS VNCServer, TLC

CONSTANTS s1, s2, s3, tabKey, ltabKey, shiftKey

AllTab == [k \in Key |-> tabKey]
SameKey == [k \in Key |-> k]
Symmetry == Permutations(Sock)
=============================================================================
