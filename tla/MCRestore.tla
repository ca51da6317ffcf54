------------------------------ MODULE MCRestore ------------------------------
(* Instances of Restore small enough for TLC. *)
EXTENDS Restore, TLC

CONSTANTS p1, p2, n1, n2

\* The hash of n1 is an id the sequence comes to; that of n2 is not.
Hashes == n1 :> 3 @@ n2 :> 4

\* One repository gives n1 an ID and leaves that of n2 to its hash; another has only n2, with an
\* ID; in the last, the ID of n2 is the hash of n1.
Trees == {n1 :> 1 @@ n2 :> NoID, n1 :> None @@ n2 :> 2, n1 :> NoID @@ n2 :> 3}
=============================================================================
