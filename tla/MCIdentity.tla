------------------------------ MODULE MCIdentity ------------------------------
(* Instances of Identity small enough for TLC. *)
EXTENDS Identity, TLC

CONSTANTS p1, p2, a1, a2, a3, s1, s2, e1, e2

\* One person with two addresses at one provider, which may also give a CILogon id.
MCClaims == {[subject |-> s1, email |-> e1, cilogon |-> None],
             [subject |-> s1, email |-> e2, cilogon |-> e1]}
MCDev == e2 :> s2

Symmetric == Permutations(Procs) \cup Permutations({a2, a3})
=============================================================================
