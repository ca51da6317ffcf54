-------------------------------- MODULE MCVOs --------------------------------
(* Instances of VOs small enough for TLC. *)
EXTENDS VOs, TLC

CONSTANTS n1, n2, n3

\* n1 is below a VO that does not exist.
MCImported == n1 :> n3 @@ n2 :> NoParent @@ n3 :> None
=============================================================================
