--------------------------- MODULE CommandService ---------------------------
(***************************************************************************)
(* What queueCommand() promises to a thread that waits: its command is     *)
(* performed once by the host thread, after the call began and before the  *)
(* call returns.                                                           *)
(***************************************************************************)
CONSTANT Callers

VARIABLE stage   \* where the command of a caller's present call is

Init == stage = [t \in Callers |-> "idle"]

Ask(t)    == stage[t] = "idle"  /\ stage' = [stage EXCEPT ![t] = "asked"]
Do(t)     == stage[t] = "asked" /\ stage' = [stage EXCEPT ![t] = "done"]
Return(t) == stage[t] = "done"  /\ stage' = [stage EXCEPT ![t] = "idle"]

Next == \E t \in Callers : Ask(t) \/ Do(t) \/ Return(t)

Spec == Init /\ [][Next]_stage
=============================================================================
