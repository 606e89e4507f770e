-------------------------- MODULE MCServerTimeouts --------------------------
(* Small instances of ServerTimeouts for TLC. *)
EXTENDS ServerTimeouts, TLC

CONSTANTS c1, c2, h1
OneHost == [c \in Client |-> h1]
Symmetry == Permutations(Client)

Off == [idle |-> 0, maxDisconnection |-> 0, maxConnection |-> 0, maxIdle |-> 0,
        threshold |-> 100, initialTimeout |-> 1, listening |-> TRUE]

Blacklisting == {[Off EXCEPT !.threshold = n] : n \in {0, 2}}
Idling == {[Off EXCEPT !.idle = 2]}
Exiting == {[Off EXCEPT !.maxConnection = 2], [Off EXCEPT !.maxIdle = 2, !.idle = 3],
            [Off EXCEPT !.maxDisconnection = 2, !.idle = 1]}
\* A time that overflows beside one that is capped, and a server without a
\* listening socket.
Untimely == {[Off EXCEPT !.idle = 3, !.maxIdle = 3],
             [Off EXCEPT !.idle = 2, !.maxIdle = 2, !.listening = FALSE]}
AllSettings == Blacklisting \cup Idling \cup Exiting \cup Untimely
UnusedOnly == {[Off EXCEPT !.maxDisconnection = 2]}
FarBothWays == {-3, 8}
=============================================================================
