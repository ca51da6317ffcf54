------------------------------- MODULE Offer -------------------------------
(***************************************************************************)
(* What a hand-off promises: somebody is offered a responsibility, the     *)
(* offer is open until it is taken or refused, and after that it is        *)
(* history. An offer on record as taken was carried out. Carrying it out   *)
(* and recording it are two steps, so an offer may be carried out and not  *)
(* yet, or never, be on record as taken.                                   *)
(***************************************************************************)
CONSTANT Offers

VARIABLES stage,   \* stage[o]: how far the record of o has got
          done     \* the offers that were carried out at least once

vars == <<stage, done>>

Init == stage = [o \in Offers |-> "absent"] /\ done = {}

Make(o) == /\ stage[o] = "absent"
           /\ stage' = [stage EXCEPT ![o] = "open"]
           /\ UNCHANGED done

CarryOut(o) == /\ stage[o] # "absent"
               /\ done' = done \cup {o}
               /\ UNCHANGED stage

Close(o) == /\ stage[o] = "open"
            /\ \E s \in (IF o \in done THEN {"taken", "refused"} ELSE {"refused"}) :
                  stage' = [stage EXCEPT ![o] = s]
            /\ UNCHANGED done

Next == \E o \in Offers : Make(o) \/ CarryOut(o) \/ Close(o)
Spec == Init /\ [][Next]_vars
=============================================================================
