------------------------------ MODULE Blacklist ------------------------------
(***************************************************************************)
(* The entry that rfb::Blacklist keeps for a host.  Times are seconds.     *)
(***************************************************************************)
EXTENDS Integers

CONSTANT Modulus   \* 2^32: a timeout is an unsigned int

ASSUME ModulusAssumption == Modulus \in Nat \ {0}

Entry == [marks : Nat, blockUntil : Nat, blockTimeout : 0..(Modulus - 1)]

NewEntry(initialTimeout) == [marks |-> 1, blockUntil |-> 0, blockTimeout |-> initialTimeout]

(* isBlackmarked() of a host with this entry.                              *)
IsBlackmarked(e, threshold, now) == e.marks >= threshold /\ now < e.blockUntil

(* The entry after the call: below the threshold one more mark, else the   *)
(* host is let in once and the next block is twice as long.                *)
Marked(e, threshold, now) ==
  IF e.marks < threshold THEN [e EXCEPT !.marks = @ + 1]
  ELSE IF now < e.blockUntil THEN e
  ELSE [e EXCEPT !.blockUntil = now + e.blockTimeout,
                 !.blockTimeout = (2 * @) % Modulus]
=============================================================================
