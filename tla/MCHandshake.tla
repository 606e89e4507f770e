---------------------------- MODULE MCHandshake ----------------------------
(***************************************************************************)
(* Every value of the parameters, and the viewers of the repository: the   *)
(* C++ one with and without its option for 3.3, the Java one; 3.7 stands   *)
(* for the viewers of an earlier release.                                  *)
(***************************************************************************)
EXTENDS Handshake

MCOffers == { <<>>, <<"None">>, <<"VncAuth">>, <<"None", "VncAuth">>, <<"VncAuth", "None">> }
MCServerMinors == {3, 8}
MCViewers ==
  { [java |-> FALSE, minor |-> m] : m \in {3, 7, 8} } \cup { [java |-> TRUE, minor |-> 8] }
=============================================================================
