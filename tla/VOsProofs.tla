------------------------------ MODULE VOsProofs ------------------------------
(***************************************************************************)
(* For any number of approvals and VOs: as long as approvals do not        *)
(* overlap, the walk over the parents keeps them free of cycles and a VO   *)
(* is only deleted when nothing refers to it.                              *)
(***************************************************************************)
EXTENDS VOs, TLAPS

-----------------------------------------------------------------------------
(* The inductive invariant *)

\* S holds the parent an approval proposes, and everything above its members but the VO it edits.
ClosedAbove(l, S) == l.parent \in S /\ \A n \in S \ {l.name} : vo[n] \in S

\* What an approval knows of the tables when it is alone: the walk follows the one way up from
\* the proposed parent, and where it has ended well the new parent closes no cycle; what it has
\* counted is still zero.
Known(p) ==
    LET l == loc[p] IN
    /\ At(p, "walk")     => \A S \in SUBSET Names : ClosedAbove(l, S) => l.up \in S
    /\ At(p, "write")    => \A S \in SUBSET Names : ClosedAbove(l, S) => l.name \notin S
    /\ At(p, "children") => ReferrersOf(l.name) = {}
    /\ At(p, "remove")   => ReferrersOf(l.name) = {} /\ ChildrenOf(l.name) = {}

Planned(p) ==
    /\ ~At(p, "idle") => loc[p].name \in Names
    /\ At(p, "parent") => loc[p].parent \in Names \ {loc[p].name}
    /\ At(p, "walk") => loc[p].name \in loc[p].seen
    /\ calm => Known(p)

PlansOK == \A p \in Procs : Planned(p)

\* No approval has overlapped another: at most one is running.
OneAtATime == calm => \A p, q \in Procs : At(p, "idle") \/ At(q, "idle") \/ p = q

Inv == TypeOK /\ PlansOK /\ OneAtATime /\ AcyclicAlone

-----------------------------------------------------------------------------
(* Initial states and steps *)

LEMMA InitInv == Init => Inv
    BY ConstantsOK, NullsOK
    DEF Init, Inv, TypeOK, Points, Local, NoLocal, Ops, Parents, PlansOK, Planned, Known, At,
        OneAtATime, AcyclicAlone, Acyclic

\* A step of approval p keeps the invariant if what it makes of the tables and of itself does.
LEMMA StepInv ==
    ASSUME Inv, NEW p \in Procs, NEW point \in Points, NEW l \in Local, Goto(p, point, l),
           vo' \in [Names -> Parents \cup {None}], refers' \in [Referrers -> SUBSET Names],
           begun' \in Nat, calm' \in BOOLEAN,
           calm' => calm /\ \A q \in Procs \ {p} : At(q, "idle"),
           calm' => ~Cyclic(vo'),
           Planned(p)'
    PROVE  Inv'
<1>1. /\ pc' \in [Procs -> Points] /\ loc' \in [Procs -> Local]
      /\ \A q \in Procs \ {p} : pc'[q] = pc[q] /\ loc'[q] = loc[q]
    BY DEF Inv, TypeOK, Goto
<1>2. TypeOK'
    BY <1>1 DEF TypeOK
<1>3. ASSUME NEW q \in Procs PROVE Planned(q)'
    <2>1. CASE q = p
        BY <2>1
    <2>2. CASE q # p
        <3>1. pc'[q] = pc[q] /\ loc'[q] = loc[q] /\ Planned(q)
            BY <1>1, <2>2 DEF Inv, PlansOK
        <3>2. calm' => Known(q)'
            BY <2>2, <3>1 DEF Known, At
        <3> QED  BY <3>1, <3>2 DEF Planned, At
    <2> QED  BY <2>1, <2>2
<1>4. OneAtATime'
    BY <1>1 DEF OneAtATime, At
<1>5. AcyclicAlone'
    BY DEF AcyclicAlone, Acyclic
<1> QED  BY <1>2, <1>3, <1>4, <1>5 DEF Inv, PlansOK

\* Whoever runs when nothing has overlapped runs alone.
LEMMA Lonely ==
    ASSUME Inv, NEW p \in Procs, ~At(p, "idle"), calm
    PROVE  \A q \in Procs \ {p} : At(q, "idle")
    BY DEF Inv, OneAtATime

\* An approval that ends without a write.
LEMMA FinishInv ==
    ASSUME Inv, NEW p \in Procs, ~At(p, "idle"), Finish(p), UNCHANGED <<vo, refers, begun, calm>>
    PROVE  Inv'
<1>1. NoLocal \in Local
    BY DEF NoLocal, Local, Ops, Parents
<1>2. Planned(p)'
    BY DEF Finish, Goto, Planned, Known, At, Inv, TypeOK
<1>3. calm' => calm /\ \A q \in Procs \ {p} : At(q, "idle")
    BY Lonely
<1> QED  BY <1>1, <1>2, <1>3, StepInv DEF Finish, Inv, TypeOK, AcyclicAlone, Acyclic, Points

\* An approval that goes on without a write.
LEMMA GotoInv ==
    ASSUME Inv, NEW p \in Procs, ~At(p, "idle"), NEW point \in Points, NEW l \in Local,
           Goto(p, point, l), UNCHANGED <<vo, refers, begun, calm>>, Planned(p)'
    PROVE  Inv'
<1>1. calm' => calm /\ \A q \in Procs \ {p} : At(q, "idle")
    BY Lonely
<1> QED  BY <1>1, StepInv DEF Inv, TypeOK, AcyclicAlone, Acyclic

\* An approval that begins.
LEMMA BeginInv ==
    ASSUME Inv, NEW p \in Procs, NEW point \in Points, NEW l \in Local, Begin(p, point, l),
           Planned(p)'
    PROVE  Inv'
<1>1. /\ Goto(p, point, l) /\ begun' = begun + 1 /\ calm' = (calm /\ Alone)
      /\ vo' = vo /\ refers' = refers
    BY DEF Begin
<1>2. /\ vo' \in [Names -> Parents \cup {None}] /\ refers' \in [Referrers -> SUBSET Names]
      /\ begun' \in Nat
    BY <1>1 DEF Inv, TypeOK
<1>3. calm' \in BOOLEAN /\ (calm' => calm /\ \A q \in Procs \ {p} : At(q, "idle"))
    BY <1>1, Zenon DEF Alone, At
<1>4. calm' => ~Cyclic(vo')
    BY <1>1, <1>3 DEF Inv, AcyclicAlone, Acyclic
<1> QED  BY <1>1, <1>2, <1>3, <1>4, StepInv

LEMMA CreateInv == ASSUME Inv, NEW p \in Procs, Create(p) PROVE Inv'
<1>1. PICK n \in Names : \E parent \in Parents \ {n} :
          Begin(p, IF parent = NoParent THEN "write" ELSE "parent",
                [NoLocal EXCEPT !.op = "create", !.name = n, !.parent = parent])
    BY DEF Create
<1>2. PICK parent \in Parents \ {n} :
          Begin(p, IF parent = NoParent THEN "write" ELSE "parent",
                [NoLocal EXCEPT !.op = "create", !.name = n, !.parent = parent])
    BY <1>1
<1> DEFINE l == [NoLocal EXCEPT !.op = "create", !.name = n, !.parent = parent]
           point == IF parent = NoParent THEN "write" ELSE "parent"
<1>3. l \in Local /\ l.name = n /\ l.parent = parent
    BY DEF NoLocal, Local, Ops, Parents
<1>4. point \in Points
    BY DEF Points
<1>5. pc'[p] = point /\ loc'[p] = l
    BY <1>2 DEF Begin, Goto, Inv, TypeOK
<1>6. Planned(p)'
    BY <1>3, <1>5, NullsOK DEF Planned, Known, ClosedAbove, At, Parents
<1> QED  BY <1>2, <1>3, <1>4, <1>6, BeginInv

LEMMA UpdateInv == ASSUME Inv, NEW p \in Procs, Update(p) PROVE Inv'
<1>1. PICK n \in Names, parent \in Parents :
          Begin(p, "read", [NoLocal EXCEPT !.op = "update", !.name = n, !.parent = parent])
    BY DEF Update
<1> DEFINE l == [NoLocal EXCEPT !.op = "update", !.name = n, !.parent = parent]
<1>2. l \in Local /\ l.name = n
    BY DEF NoLocal, Local, Ops, Parents
<1>3. pc'[p] = "read" /\ loc'[p] = l
    BY <1>1 DEF Begin, Goto, Inv, TypeOK
<1>4. Planned(p)'
    BY <1>2, <1>3 DEF Planned, Known, At
<1> QED  BY <1>1, <1>2, <1>4, BeginInv DEF Points

LEMMA DeleteInv == ASSUME Inv, NEW p \in Procs, Delete(p) PROVE Inv'
<1>1. PICK n \in Names : Begin(p, "resources", [NoLocal EXCEPT !.name = n])
    BY DEF Delete
<1> DEFINE l == [NoLocal EXCEPT !.name = n]
<1>2. l \in Local /\ l.name = n
    BY DEF NoLocal, Local, Ops, Parents
<1>3. pc'[p] = "resources" /\ loc'[p] = l
    BY <1>1 DEF Begin, Goto, Inv, TypeOK
<1>4. Planned(p)'
    BY <1>2, <1>3 DEF Planned, Known, At
<1> QED  BY <1>1, <1>2, <1>4, BeginInv DEF Points

\* A parent that stays, or none, closes no cycle.
LEMMA ReadCurrentInv == ASSUME Inv, NEW p \in Procs, ReadCurrent(p) PROVE Inv'
<1> DEFINE l == loc[p]
<1>1. /\ ~At(p, "idle") /\ l \in Local /\ l.name \in Names /\ l.parent \in Parents
      /\ UNCHANGED <<vo, refers, begun, calm>>
    BY DEF ReadCurrent, At, Inv, TypeOK, PlansOK, Planned, Local
<1>2. CASE Finish(p)
    BY <1>1, <1>2, FinishInv
<1>3. CASE /\ ~(l.parent = l.name /\ vo[l.name] # l.name) /\ vo[l.name] # None
           /\ l.parent \in {NoParent, vo[l.name]} /\ Goto(p, "write", l)
    <2>1. pc'[p] = "write" /\ loc'[p] = l
        BY <1>3 DEF Goto, Inv, TypeOK
    <2>2. ASSUME calm, NEW S \in SUBSET Names, ClosedAbove(l, S) PROVE l.name \notin S
        <3>1. l.parent # NoParent /\ l.parent = vo[l.name]
            BY <1>3, <2>2, NullsOK DEF ClosedAbove
        <3>2. \A n \in S : vo[n] \in S
            BY <2>2, <3>1 DEF ClosedAbove
        <3>3. ~Cyclic(vo)
            BY <2>2 DEF Inv, AcyclicAlone, Acyclic
        <3> QED  BY <3>2, <3>3 DEF Cyclic
    <2>3. Planned(p)'
        BY <1>1, <2>1, <2>2 DEF Planned, Known, At, ClosedAbove
    <2> QED  BY <1>1, <1>3, <2>3, GotoInv DEF Points
<1>4. CASE /\ ~(l.parent = l.name /\ vo[l.name] # l.name) /\ vo[l.name] # None
           /\ l.parent \notin {NoParent, vo[l.name]} /\ Goto(p, "parent", l)
    <2>1. pc'[p] = "parent" /\ loc'[p] = l
        BY <1>4 DEF Goto, Inv, TypeOK
    <2>2. l.parent \in Names \ {l.name}
        BY <1>1, <1>4 DEF Parents
    <2>3. Planned(p)'
        BY <1>1, <2>1, <2>2 DEF Planned, Known, At
    <2> QED  BY <1>1, <1>4, <2>3, GotoInv DEF Points
<1> QED  BY <1>2, <1>3, <1>4 DEF ReadCurrent

LEMMA ReadParentInv == ASSUME Inv, NEW p \in Procs, ReadParent(p) PROVE Inv'
<1> DEFINE l == loc[p]
           above == vo[l.parent]
           m == [l EXCEPT !.up = above, !.seen = {l.name, l.parent}]
<1>1. /\ ~At(p, "idle") /\ l \in Local /\ l.name \in Names /\ l.parent \in Names \ {l.name}
      /\ UNCHANGED <<vo, refers, begun, calm>>
    BY DEF ReadParent, At, Inv, TypeOK, PlansOK, Planned
<1>2. CASE Finish(p)
    BY <1>1, <1>2, FinishInv
<1>3. CASE above # None /\ Goto(p, "walk", m)
    <2>1. above \in Parents
        BY <1>1, <1>3 DEF Inv, TypeOK
    <2>2. /\ m \in Local /\ m.name = l.name /\ m.parent = l.parent /\ m.up = above
          /\ m.name \in m.seen
        BY <1>1, <2>1 DEF Local
    <2>3. pc'[p] = "walk" /\ loc'[p] = m
        BY <1>3 DEF Goto, Inv, TypeOK
    <2>4. ASSUME NEW S \in SUBSET Names, ClosedAbove(m, S) PROVE m.up \in S
        BY <1>1, <2>2, <2>4 DEF ClosedAbove
    <2> HIDE DEF m
    <2>5. Planned(p)'
        BY <1>1, <2>2, <2>3, <2>4 DEF Planned, Known, At, ClosedAbove
    <2> QED  BY <1>1, <1>3, <2>2, <2>5, GotoInv DEF Points
<1> QED  BY <1>2, <1>3 DEF ReadParent

\* Where the walk ends well, the way up from the new parent has left the live VOs without
\* passing the one that is edited.
LEMMA WalkInv == ASSUME Inv, NEW p \in Procs, Walk(p) PROVE Inv'
<1> DEFINE l == loc[p]
           m == [l EXCEPT !.seen = @ \cup {l.up}, !.up = vo[l.up]]
<1>1. /\ ~At(p, "idle") /\ l \in Local /\ l.name \in Names /\ l.name \in l.seen
      /\ l.up \in Parents /\ l.seen \subseteq Names
      /\ calm => \A S \in SUBSET Names : ClosedAbove(l, S) => l.up \in S
      /\ UNCHANGED <<vo, refers, begun, calm>>
    BY DEF Walk, At, Inv, TypeOK, PlansOK, Planned, Known, Local
<1>2. CASE Finish(p)
    BY <1>1, <1>2, FinishInv
<1>3. CASE (l.up = NoParent \/ vo[l.up] = None) /\ ~(l.up # NoParent /\ l.up \in l.seen)
           /\ Goto(p, "write", l)
    <2>1. pc'[p] = "write" /\ loc'[p] = l
        BY <1>3 DEF Goto, Inv, TypeOK
    <2>2. ASSUME calm, NEW S \in SUBSET Names PROVE ~ClosedAbove(l, S)
        <3>1. SUFFICES ASSUME ClosedAbove(l, S) PROVE FALSE
            OBVIOUS
        <3>2. l.up \in S /\ l.up \in Names
            BY <1>1, <2>2, <3>1
        <3>3. l.up # l.name /\ vo[l.up] = None
            BY <1>1, <1>3, <3>2, NullsOK
        <3> QED  BY <3>1, <3>2, <3>3, NullsOK DEF ClosedAbove, Parents
    <2>3. Planned(p)'
        BY <1>1, <2>1, <2>2 DEF Planned, Known, At, ClosedAbove
    <2> QED  BY <1>1, <1>3, <2>3, GotoInv DEF Points
<1>4. CASE /\ l.up # NoParent /\ vo[l.up] # None /\ l.up \notin l.seen /\ Goto(p, "walk", m)
    <2>1. l.up \in Names /\ vo[l.up] \in Parents
        BY <1>1, <1>4 DEF Inv, TypeOK, Parents
    <2>2. /\ m \in Local /\ m.name = l.name /\ m.parent = l.parent /\ m.up = vo[l.up]
          /\ m.name \in m.seen
        BY <1>1, <2>1 DEF Local
    <2>3. pc'[p] = "walk" /\ loc'[p] = m
        BY <1>4 DEF Goto, Inv, TypeOK
    <2>4. ASSUME calm, NEW S \in SUBSET Names, ClosedAbove(m, S) PROVE m.up \in S
        <3>1. ClosedAbove(l, S)
            BY <2>2, <2>4 DEF ClosedAbove
        <3>2. l.up \in S /\ l.up # l.name
            BY <1>1, <1>4, <2>4, <3>1
        <3> QED  BY <2>2, <3>1, <3>2 DEF ClosedAbove
    <2> HIDE DEF m
    <2>5. Planned(p)'
        BY <1>1, <2>2, <2>3, <2>4 DEF Planned, Known, At, ClosedAbove
    <2> QED  BY <1>1, <1>4, <2>2, <2>5, GotoInv DEF Points
<1> QED  BY <1>2, <1>3, <1>4 DEF Walk, Seen

LEMMA WriteInv == ASSUME Inv, NEW p \in Procs, Write(p) PROVE Inv'
<1> DEFINE l == loc[p]
<1>1. /\ ~At(p, "idle") /\ l \in Local /\ l.name \in Names /\ l.parent \in Parents
      /\ calm => \A S \in SUBSET Names : ClosedAbove(l, S) => l.name \notin S
      /\ UNCHANGED <<refers, begun, calm>> /\ Finish(p)
      /\ vo \in [Names -> Parents \cup {None}]
    BY DEF Write, At, Inv, TypeOK, PlansOK, Planned, Known, Local
<1>2. CASE vo' = vo
    BY <1>1, <1>2, FinishInv
<1>3. CASE vo' = [vo EXCEPT ![l.name] = l.parent]
    <2>1. vo' \in [Names -> Parents \cup {None}]
        BY <1>1, <1>3
    <2>2. ASSUME calm PROVE ~Cyclic(vo')
        <3>1. SUFFICES ASSUME NEW S \in SUBSET Names, S # {}, \A n \in S : vo'[n] \in S
                       PROVE FALSE
            BY DEF Cyclic
        <3>2. \A n \in S \ {l.name} : vo[n] \in S
            BY <1>1, <1>3, <3>1
        <3>3. CASE l.name \in S
            BY <1>1, <1>3, <2>2, <3>1, <3>2, <3>3 DEF ClosedAbove
        <3>4. CASE l.name \notin S
            BY <2>2, <3>1, <3>2, <3>4 DEF Inv, AcyclicAlone, Acyclic, Cyclic
        <3> QED  BY <3>3, <3>4
    <2>3. NoLocal \in Local
        BY DEF NoLocal, Local, Ops, Parents
    <2>4. Planned(p)'
        BY <1>1 DEF Finish, Goto, Planned, Known, At, Inv, TypeOK
    <2>5. calm' => calm /\ \A q \in Procs \ {p} : At(q, "idle")
        BY <1>1, Lonely
    <2> QED  BY <1>1, <2>1, <2>2, <2>3, <2>4, <2>5, StepInv DEF Finish, Inv, TypeOK, Points
<1> QED  BY <1>2, <1>3 DEF Write

LEMMA CountReferrersInv == ASSUME Inv, NEW p \in Procs, CountReferrers(p) PROVE Inv'
<1>1. /\ ~At(p, "idle") /\ loc[p] \in Local /\ loc[p].name \in Names
      /\ UNCHANGED <<vo, refers, begun, calm>>
    BY DEF CountReferrers, At, Inv, TypeOK, PlansOK, Planned
<1>2. CASE Finish(p)
    BY <1>1, <1>2, FinishInv
<1>3. CASE ReferrersOf(loc[p].name) = {} /\ Goto(p, "children", loc[p])
    <2>1. pc'[p] = "children" /\ loc'[p] = loc[p]
        BY <1>3 DEF Goto, Inv, TypeOK
    <2>2. Planned(p)'
        BY <1>1, <1>3, <2>1 DEF Planned, Known, At, ReferrersOf
    <2> QED  BY <1>1, <1>3, <2>2, GotoInv DEF Points
<1> QED  BY <1>2, <1>3 DEF CountReferrers

LEMMA CountChildrenInv == ASSUME Inv, NEW p \in Procs, CountChildren(p) PROVE Inv'
<1>1. /\ ~At(p, "idle") /\ loc[p] \in Local /\ loc[p].name \in Names
      /\ calm => ReferrersOf(loc[p].name) = {}
      /\ UNCHANGED <<vo, refers, begun, calm>>
    BY DEF CountChildren, At, Inv, TypeOK, PlansOK, Planned, Known
<1>2. CASE Finish(p)
    BY <1>1, <1>2, FinishInv
<1>3. CASE ChildrenOf(loc[p].name) = {} /\ Goto(p, "remove", loc[p])
    <2>1. pc'[p] = "remove" /\ loc'[p] = loc[p]
        BY <1>3 DEF Goto, Inv, TypeOK
    <2>2. Planned(p)'
        BY <1>1, <1>3, <2>1 DEF Planned, Known, At, ReferrersOf, ChildrenOf, Live
    <2> QED  BY <1>1, <1>3, <2>2, GotoInv DEF Points
<1> QED  BY <1>2, <1>3 DEF CountChildren

LEMMA RemoveInv == ASSUME Inv, NEW p \in Procs, Remove(p) PROVE Inv'
<1>1. /\ ~At(p, "idle") /\ loc[p].name \in Names /\ Finish(p)
      /\ vo' = [vo EXCEPT ![loc[p].name] = None] /\ UNCHANGED <<refers, begun, calm>>
    BY DEF Remove, At, Inv, PlansOK, Planned
<1>2. vo' \in [Names -> Parents \cup {None}]
    BY <1>1 DEF Inv, TypeOK
<1>3. ASSUME calm PROVE ~Cyclic(vo')
    <2>1. SUFFICES ASSUME NEW S \in SUBSET Names, S # {}, \A n \in S : vo'[n] \in S
                   PROVE FALSE
        BY DEF Cyclic
    <2>2. loc[p].name \notin S
        BY <1>1, <2>1, NullsOK DEF Inv, TypeOK, Parents
    <2>3. \A n \in S : vo[n] \in S
        BY <1>1, <2>1, <2>2 DEF Inv, TypeOK
    <2> QED  BY <1>3, <2>1, <2>3 DEF Inv, AcyclicAlone, Acyclic, Cyclic
<1>4. NoLocal \in Local
    BY DEF NoLocal, Local, Ops, Parents
<1>5. Planned(p)'
    BY <1>1 DEF Finish, Goto, Planned, Known, At, Inv, TypeOK
<1>6. calm' => calm /\ \A q \in Procs \ {p} : At(q, "idle")
    BY <1>1, Lonely
<1> QED  BY <1>1, <1>2, <1>3, <1>4, <1>5, <1>6, StepInv DEF Finish, Inv, TypeOK, Points

LEMMA ReferInv == ASSUME Inv, NEW r \in Referrers, Refer(r) PROVE Inv'
<1>1. PICK vs \in SUBSET Names : refers' = [refers EXCEPT ![r] = vs]
    BY DEF Refer
<1>2. /\ calm' = (calm /\ Alone) /\ UNCHANGED <<vo, pc, loc, begun>>
    BY DEF Refer
<1>3. TypeOK'
    BY <1>1, <1>2 DEF Inv, TypeOK
<1>4. ASSUME NEW p \in Procs PROVE Planned(p)'
    <2>1. calm' => pc[p] = "idle"
        BY <1>2 DEF Alone
    <2>2. calm' => Known(p)'
        BY <1>2, <2>1 DEF Known, At
    <2> QED  BY <1>2, <2>2 DEF Inv, PlansOK, Planned, At
<1>5. OneAtATime' /\ AcyclicAlone'
    BY <1>2 DEF Inv, OneAtATime, AcyclicAlone, Acyclic, At
<1> QED  BY <1>3, <1>4, <1>5 DEF Inv, PlansOK

LEMMA StutterInv == ASSUME Inv, UNCHANGED vars PROVE Inv'
<1>1. TypeOK'
    BY DEF vars, Inv, TypeOK
<1>2. ASSUME NEW p \in Procs PROVE Planned(p)'
    <2>1. Planned(p)
        BY DEF Inv, PlansOK
    <2> QED  BY <2>1 DEF vars, Planned, Known, At, ClosedAbove, ReferrersOf, ChildrenOf, Live
<1>3. OneAtATime' /\ AcyclicAlone'
    BY DEF vars, Inv, OneAtATime, AcyclicAlone, Acyclic, At
<1> QED  BY <1>1, <1>2, <1>3 DEF Inv, PlansOK

LEMMA NextInv == Inv /\ [Next]_vars => Inv'
<1> SUFFICES ASSUME Inv, [Next]_vars PROVE Inv'
    OBVIOUS
<1>1. CASE UNCHANGED vars
    BY <1>1, StutterInv
<1>2. ASSUME NEW p \in Procs, Arrive(p) PROVE Inv'
    BY <1>2, CreateInv, UpdateInv, DeleteInv DEF Arrive
<1>3. ASSUME NEW p \in Procs, Proceed(p) PROVE Inv'
    BY <1>3, ReadCurrentInv, ReadParentInv, WalkInv, WriteInv, CountReferrersInv,
       CountChildrenInv, RemoveInv DEF Proceed
<1>4. ASSUME NEW p \in Procs, Stop(p) PROVE Inv'
    BY <1>4, FinishInv DEF Stop
<1>5. ASSUME NEW r \in Referrers, Refer(r) PROVE Inv'
    BY <1>5, ReferInv
<1> QED  BY <1>1, <1>2, <1>3, <1>4, <1>5 DEF Next

-----------------------------------------------------------------------------
(* Theorems *)

\* The invariant holds in every reachable state, whatever the fairness.
THEOREM Invariance == Spec => []Inv
    BY InitInv, NextInv, PTL DEF Spec

\* The parents never form a cycle as long as no approval overlaps another, however many VOs
\* there are and however many of their parents are no VO: what checkVODoc promises.
THEOREM ParentsAcyclic == Spec => []AcyclicAlone
<1>1. Inv => AcyclicAlone
    BY DEF Inv
<1> QED  BY <1>1, Invariance, PTL

\* A deletion that overlaps nothing leaves no resource, project or VO that refers to the VO:
\* what deleteVO promises.
THEOREM DeletesUnused == Spec => DeletedUnused
<1> DEFINE Unused == \A n \in Names : calm' /\ vo[n] # None /\ vo'[n] = None =>
                         ReferrersOf(n) = {} /\ \A m \in Names : vo'[m] # n
<1>1. ASSUME Inv, [Next]_vars PROVE [Unused]_vars
    <2>1. SUFFICES ASSUME NEW n \in Names, calm', vo[n] # None, vo'[n] = None, Next
                   PROVE  ReferrersOf(n) = {} /\ \A m \in Names : vo'[m] # n
        BY <1>1 DEF vars
    <2>2. ASSUME NEW p \in Procs, Write(p) PROVE FALSE
        BY <1>1, <2>1, <2>2, NullsOK DEF Write, Inv, TypeOK, Local
    <2>3. ASSUME NEW p \in Procs, Remove(p)
          PROVE  ReferrersOf(n) = {} /\ \A m \in Names : vo'[m] # n
        <3>1. /\ n = loc[p].name /\ vo' = [vo EXCEPT ![n] = None]
            BY <1>1, <2>1, <2>3 DEF Remove, Inv, TypeOK
        <3>2. ReferrersOf(n) = {} /\ ChildrenOf(n) = {}
            BY <1>1, <2>1, <2>3, <3>1 DEF Remove, Inv, PlansOK, Planned, Known
        <3> QED  BY <1>1, <3>1, <3>2, NullsOK DEF ChildrenOf, Live, Inv, TypeOK, Parents
    <2>4. ASSUME NEW p \in Procs, Arrive(p) \/ (Proceed(p) /\ ~Write(p) /\ ~Remove(p)) \/ Stop(p)
          PROVE  vo' = vo
        BY <2>4 DEF Arrive, Create, Update, Delete, Begin, Proceed, ReadCurrent, ReadParent,
                    Walk, CountReferrers, CountChildren, Stop
    <2>5. ASSUME NEW r \in Referrers, Refer(r) PROVE vo' = vo
        BY <2>5 DEF Refer
    <2> QED  BY <2>1, <2>2, <2>3, <2>4, <2>5 DEF Next
<1> QED  BY <1>1, Invariance, PTL DEF Spec, DeletedUnused
=============================================================================
