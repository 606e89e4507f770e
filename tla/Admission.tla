----------------------------- MODULE Admission -----------------------------
(***************************************************************************)
(* What the handshake promises, without its messages: a viewer that may    *)
(* not come in is never admitted, the server admits at most once, and a    *)
(* viewer believes it is in session only after the server has admitted it. *)
(***************************************************************************)
VARIABLES
  entitled,  \* no password is asked of the viewer, or it knows the password
  admitted,  \* the server has let the viewer into the session
  viewer     \* what the viewer believes

vars == <<entitled, admitted, viewer>>

Init ==
  /\ entitled = FALSE
  /\ admitted = FALSE
  /\ viewer = "waiting"

Settle ==
  /\ ~entitled
  /\ entitled' = TRUE
  /\ UNCHANGED <<admitted, viewer>>

Admit ==
  /\ entitled
  /\ ~admitted
  /\ admitted' = TRUE
  /\ UNCHANGED <<entitled, viewer>>

Join ==
  /\ admitted
  /\ viewer = "waiting"
  /\ viewer' = "in"
  /\ UNCHANGED <<entitled, admitted>>

Leave ==
  /\ viewer # "gone"
  /\ viewer' = "gone"
  /\ UNCHANGED <<entitled, admitted>>

Next == Settle \/ Admit \/ Join \/ Leave

Spec == Init /\ [][Next]_vars
=============================================================================
