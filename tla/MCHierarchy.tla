----------------------------- MODULE MCHierarchy -----------------------------
(* Instances of Hierarchy small enough for TLC. *)
EXTENDS Hierarchy, TLC

CONSTANTS f1, s1, g1, g2, x1, c1, c2, n1, n2

MCKind == [e \in Entities |->
             CASE e = f1 -> "facility" [] e = s1 -> "site" [] e \in {g1, g2} -> "group"
               [] e = x1 -> "resource" [] OTHER -> "center"]
MCCenterId == [n \in Names |-> IF n = n1 THEN c1 ELSE c2]

Hung(p, c) == [name |-> n1, up |-> p, center |-> c, live |-> TRUE]

\* A facility with a site, a group and a resource in it, and the support center of the group.
MCRow == [e \in Entities |->
            CASE e = f1 -> Hung(None, None) [] e = s1 -> Hung(f1, None) [] e = g1 -> Hung(s1, n1)
              [] e = x1 -> Hung(g1, None) [] e = c1 -> Hung(None, None) [] OTHER -> None]

\* Requests rename groups and centers, and leave the other names alone.
MCNamesOf == [k \in Kinds |-> IF k \in {"group", "center"} THEN {n1, n2} ELSE {n1}]

Symmetric == Permutations(Procs)
=============================================================================
