------------------------------ MODULE MCSessions ------------------------------
(* Instances of Sessions small enough for TLC. *)
EXTENDS Sessions, TLC

CONSTANTS u1, u2, t1, a1, l1

MCFirst  == u1 :> {"administrator"} @@ u2 :> {"contact_reader"}
MCBefore == t1 :> u1
MCSent   == <<u1, a1>> :> l1

Symmetric == Permutations(Procs)
=============================================================================
