---------------------------- MODULE MCProposals ----------------------------
(* Instances of Proposals small enough for TLC. *)
EXTENDS Proposals, TLC

CONSTANTS author, manager, row, contacts, old, new

\* One-field edits: the editors of the front end send the fields they know.
MCPayloads == {row :> new, contacts :> new}
MCInitial  == [f \in Fields |-> old]
MCContacts == [e \in Entities \ Guarded |-> Users \ Managers]

Symmetric  == Permutations(Pids) \cup Permutations(Procs)
=============================================================================
