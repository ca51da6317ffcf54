----------------------------- MODULE MCContacts -----------------------------
(* Instances of Contacts small enough for TLC. *)
EXTENDS Contacts, TLC

CONSTANTS alice, bob, manager, home, away, admin, Existing

\* What an import leaves: the entities that exist are named home, with alice as contact.
MCName == [e \in Entities |-> IF e \in Existing THEN home ELSE None]
MCRows == {[id |-> 0, key |-> (IF e \in Resources THEN e ELSE home), slot |-> admin, user |-> alice] :
              e \in Existing}

Symmetric == Permutations(Procs) \cup Permutations(Requests) \cup Permutations(Edits)
=============================================================================
