--------------------------- MODULE HierarchyProofs ---------------------------
(***************************************************************************)
(* For every tree, any number of approvals and bundles of any length: the  *)
(* tables stay well typed, no two open transactions have written the same  *)
(* row, and what is deleted stays deleted. As long as no two approvals     *)
(* overlap, no live row is left under a deleted one, a create changes no   *)
(* live row, and a group keeps a support center that exists.               *)
(***************************************************************************)
EXTENDS Hierarchy, TLAPS

-----------------------------------------------------------------------------
(* The inductive invariant *)

\* What an approval has decided when it is about to write: a row of the kind it is about, and a
\* target of that kind.
Planned(l) ==
    /\ l.act \in Acts
    /\ l.kind \in Kinds
    /\ l.act \in {"insert", "update"} => l.new \in RowsOf(l.kind)
    /\ l.act = "repoint" => l.new \in RowsOf("center")
    /\ l.kind = "resource" /\ l.act # "insert" => l.target \in Of("resource")

PlansOK == \A w \in Procs :
    /\ pc[w] \in {"write", "wait"} => Planned(loc[w])
    /\ pc[w] = "wait" => loc[w].act # "insert"

\* Row locks: a row that one open transaction has written, no other has.
LocksExclusive ==
    \A v, w \in Procs : \A e \in Entities : v # w /\ tx[v][e] # None => tx[w][e] = None

\* No open transaction has written a row, other than a support center's, that is deleted.
Dead(e) == KindOf[e] # "center" /\ row[e] # None /\ e \notin LiveIn(row)
DeadUntouched == \A w \in Procs : \A e \in Entities : Dead(e) => tx[w][e] = None

Inv == TypeOK /\ PlansOK /\ LocksExclusive /\ DeadUntouched

-----------------------------------------------------------------------------
(* Look-ups *)

\* No row is NULL.
LEMMA RowsAreNotNull == ASSUME NEW k \in Kinds, NEW r \in RowsOf(k) PROVE r \in Row /\ r # None
    BY NullsOK DEF Row

\* What a transaction sees is well typed.
LEMMA ViewTyped == ASSUME TypeOK, NEW w \in Procs PROVE View(w) \in Tables
    BY DEF TypeOK, Tables, View

\* A kind hangs on nothing or on a kind.
LEMMA AboveKinds == ASSUME NEW k \in Kinds PROVE Above[k] \in Kinds \cup {None}
    BY DEF Above, Kinds

\* A WHERE clause matches live rows of the kind its statement is about.
LEMMA MatchedRows ==
    ASSUME NEW v \in Tables, NEW l, Planned(l), l.act # "insert", NEW e \in Matched(v, l)
    PROVE  /\ e \in LiveIn(v)
           /\ l.act = "repoint" => KindOf[e] = "group"
           /\ l.act # "repoint" => KindOf[e] = l.kind
<1>1. CASE l.act = "repoint"
    BY <1>1 DEF Matched, Of
<1>2. CASE l.act # "repoint" /\ l.kind = "resource"
    BY <1>2 DEF Matched, Planned, Of
<1>3. CASE l.act # "repoint" /\ l.kind # "resource"
    BY <1>3 DEF Matched, Named, Of
<1> QED  BY <1>1, <1>2, <1>3

\* What a statement makes of a row it matches has the row's type.
LEMMA ChangedTyped ==
    ASSUME NEW v \in Tables, NEW l, Planned(l), l.act # "insert", NEW e \in Matched(v, l)
    PROVE  Changed(v[e], l) \in RowsOf(KindOf[e])
<1>1. e \in Entities /\ v[e] # None /\ v[e].live /\ v[e] \in RowsOf(KindOf[e])
    BY MatchedRows DEF LiveIn, Tables
<1>2. CASE l.act = "update"
    BY <1>2, MatchedRows DEF Changed, Planned
<1>3. CASE l.act = "delete"
    BY <1>1, <1>3 DEF Changed, RowsOf
<1>4. CASE l.act = "repoint"
    <2>1. KindOf[e] = "group" /\ l.new.name \in Names
        BY <1>4, MatchedRows DEF Planned, RowsOf
    <2> QED  BY <1>1, <1>4, <2>1 DEF Changed, RowsOf
<1> QED  BY <1>2, <1>3, <1>4 DEF Planned, Acts

\* The parent a name resolves to is of the kind the foreign key asks for.
LEMMA HangersTyped ==
    ASSUME NEW w \in Procs, NEW k \in Kinds, NEW n PROVE Hangers(w, k, n) \subseteq HangsOn(k)
    BY DEF Hangers, HangsOn, Named

\* The row a payload describes has the type of its kind.
LEMMA ProposedTyped ==
    ASSUME NEW w \in Procs, NEW k \in Kinds, NEW r \in Proposed(w, k) PROVE r \in RowsOf(k)
<1>1. PICK n \in NamesOf[k] : \E p \in UNION {Hangers(w, k, m) : m \in Names} :
          \E c \in IF k = "group" THEN NamesOf["center"] \cup {None} ELSE {None} :
             r = [name |-> n, up |-> p, center |-> c, live |-> TRUE]
    BY DEF Proposed
<1>2. PICK p \in UNION {Hangers(w, k, m) : m \in Names} :
          \E c \in IF k = "group" THEN NamesOf["center"] \cup {None} ELSE {None} :
             r = [name |-> n, up |-> p, center |-> c, live |-> TRUE]
    BY <1>1
<1>3. PICK c \in IF k = "group" THEN NamesOf["center"] \cup {None} ELSE {None} :
             r = [name |-> n, up |-> p, center |-> c, live |-> TRUE]
    BY <1>2
<1>4. n \in Names /\ c \in Names \cup {None}
    BY ConstantsOK DEF Kinds
<1>5. p \in HangsOn(k)
    BY HangersTyped
<1> QED  BY <1>3, <1>4, <1>5 DEF RowsOf

-----------------------------------------------------------------------------
(* Initial states and steps *)

LEMMA InitInv == Init => Inv
    BY ConstantsOK, NullsOK DEF Init, Inv, TypeOK, Tables, Nothing, Points, Local, NoLocal,
       PlansOK, LocksExclusive, DeadUntouched

\* The next operation is planned with a row and a target of its kind.
LEMMA PlanStep ==
    ASSUME Inv, NEW w \in Procs, NEW k \in Kinds, NEW a \in {"insert", "update", "delete"},
           NEW t \in Names \cup Entities \cup {None}, NEW r \in RowsOf(k) \cup {None},
           r = None => a = "delete",
           k = "resource" /\ a # "insert" => t \in Of("resource"),
           Plan(w, a, k, t, r)
    PROVE  Inv'
<1> DEFINE l == [loc[w] EXCEPT !.ops = @ + 1, !.act = a, !.kind = k, !.target = t, !.new = r]
<1>1. /\ pc' = [pc EXCEPT ![w] = "write"] /\ loc' = [loc EXCEPT ![w] = l]
      /\ UNCHANGED <<row, tx, begun, alone>>
    BY DEF Plan, Goto
<1>2. r \in Row \cup {None}
    BY DEF Row
<1>3. loc \in [Procs -> Local] /\ pc \in [Procs -> Points]
    BY DEF Inv, TypeOK
<1>4. l \in Local
    <2>1. loc[w] \in Local
        BY <1>3
    <2>2. /\ loc[w].ops + 1 \in Nat /\ a \in Acts \cup {None} /\ k \in Kinds \cup {None}
          /\ loc[w].hit \in SUBSET Entities /\ loc[w].own \in SUBSET Entities
        BY <2>1 DEF Local, Acts
    <2> QED  BY <1>2, <2>1, <2>2 DEF Local
<1>5. l.act = a /\ l.kind = k /\ l.target = t /\ l.new = r
    BY <1>3 DEF Local
<1>6. Planned(l)
    BY <1>5 DEF Planned, Acts
<1>7. TypeOK'
    BY <1>1, <1>3, <1>4 DEF Inv, TypeOK, Points
<1>8. PlansOK'
    BY <1>1, <1>3, <1>6 DEF Inv, PlansOK
<1>9. LocksExclusive' /\ DeadUntouched'
    BY <1>1 DEF Inv, LocksExclusive, DeadUntouched, Dead, LiveIn
<1> QED  BY <1>7, <1>8, <1>9 DEF Inv

\* A transaction that writes rows no other has written, and no deleted one, keeps to the locks.
LEMMA WritesKeepLocks ==
    ASSUME Inv, NEW w \in Procs, NEW t \in Tables, tx' = [tx EXCEPT ![w] = t], row' = row,
           \A e \in Entities : t[e] # tx[w][e] => e \notin LockedFor(w) /\ ~Dead(e)
    PROVE  tx' \in [Procs -> Tables] /\ LocksExclusive' /\ DeadUntouched'
<1>1. tx \in [Procs -> Tables]
    BY DEF Inv, TypeOK
<1>2. tx' \in [Procs -> Tables] /\ tx'[w] = t /\ \A v \in Procs \ {w} : tx'[v] = tx[v]
    BY <1>1
<1>3. LocksExclusive'
    BY <1>2 DEF Inv, LocksExclusive, LockedFor
<1>4. DeadUntouched'
    BY <1>2 DEF Inv, DeadUntouched, Dead, LiveIn
<1> QED  BY <1>2, <1>3, <1>4

\* The end of a statement: nothing is planned any more.
LEMMA DoneTyped ==
    ASSUME Inv, NEW w \in Procs, NEW h \in SUBSET Entities, Done(w, h)
    PROVE  pc' \in [Procs -> Points] /\ loc' \in [Procs -> Local] /\ PlansOK'
<1> DEFINE l == [loc[w] EXCEPT !.act = None, !.kind = None, !.target = None, !.new = None,
                               !.hit = {}, !.own = @ \cup h]
<1>1. pc' = [pc EXCEPT ![w] = "next"] /\ loc' = [loc EXCEPT ![w] = l]
    BY DEF Done, Goto
<1>2. pc \in [Procs -> Points] /\ loc \in [Procs -> Local]
    BY DEF Inv, TypeOK
<1>3. l \in Local
    <2>1. loc[w] \in Local
        BY <1>2
    <2>2. loc[w].ops \in Nat /\ loc[w].own \cup h \in SUBSET Entities
        BY <2>1 DEF Local
    <2> QED  BY <2>1, <2>2 DEF Local
<1>4. pc' \in [Procs -> Points] /\ loc' \in [Procs -> Local]
    BY <1>1, <1>2, <1>3 DEF Points
<1>5. PlansOK'
    BY <1>1, <1>2 DEF Inv, PlansOK
<1> QED  BY <1>4, <1>5

\* A row that a transaction sees alive is not one that was deleted.
LEMMA SeenIsNotDead ==
    ASSUME Inv, NEW w \in Procs, NEW e \in Entities, View(w)[e] = None \/ e \in LiveIn(View(w))
    PROVE  ~Dead(e)
<1>1. SUFFICES ASSUME Dead(e) PROVE FALSE
    OBVIOUS
<1>2. View(w)[e] = row[e]
    BY <1>1 DEF Inv, DeadUntouched, View
<1> QED  BY <1>1, <1>2 DEF Dead, LiveIn

LEMMA InsertStep == ASSUME Inv, NEW w \in Procs, Insert(w) PROVE Inv'
<1> DEFINE l == loc[w]
<1>1. PICK e \in NewIds(w, l.kind, l.new.name) : tx' = [tx EXCEPT ![w][e] = l.new] /\ Done(w, {e})
    BY DEF Insert
<1>2. l.kind \in Kinds /\ l.new \in RowsOf(l.kind) /\ row' = row /\ begun' = begun /\ alone' = alone
    BY DEF Insert, Inv, PlansOK, Planned
<1>3. e \in Of(l.kind) /\ e \notin LockedFor(w) /\ (l.kind = "center" \/ View(w)[e] = None)
    <2>1. CASE l.kind = "center"
        <3>1. l.new.name \in Names
            BY <1>2 DEF RowsOf
        <3> QED  BY <2>1, <3>1, ConstantsOK DEF NewIds
    <2>2. CASE l.kind # "center"
        BY <2>2 DEF NewIds
    <2> QED  BY <2>1, <2>2
<1>4. e \in Entities /\ KindOf[e] = l.kind
    BY <1>3 DEF Of
<1> DEFINE t == [tx[w] EXCEPT ![e] = l.new]
<1>5. tx \in [Procs -> Tables]
    BY DEF Inv, TypeOK
<1>6. t \in Tables
    BY <1>2, <1>4, <1>5, RowsAreNotNull DEF Tables
<1>7. ~Dead(e)
    BY <1>3, <1>4, SeenIsNotDead DEF Dead
<1>8. tx' = [tx EXCEPT ![w] = t]
    BY <1>1, <1>5
<1>9. \A d \in Entities : t[d] # tx[w][d] => d = e
    BY <1>5 DEF Tables
<1>10. tx' \in [Procs -> Tables] /\ LocksExclusive' /\ DeadUntouched'
    <2> HIDE DEF t
    <2> QED  BY <1>2, <1>3, <1>6, <1>7, <1>8, <1>9, WritesKeepLocks
<1>11. pc' \in [Procs -> Points] /\ loc' \in [Procs -> Local] /\ PlansOK'
    BY <1>1, <1>4, DoneTyped
<1> QED  BY <1>2, <1>10, <1>11 DEF Inv, TypeOK

\* An update or delete of live rows that nobody else has written.
LEMMA PerformStep ==
    ASSUME Inv, NEW w \in Procs, pc[w] \in {"write", "wait"}, loc[w].act # "insert",
           NEW h \in SUBSET Matched(View(w), loc[w]), h \cap LockedFor(w) = {}, Perform(w, h),
           UNCHANGED <<row, begun, alone>>
    PROVE  Inv'
<1> DEFINE l == loc[w]
           v == View(w)
           t == [e \in Entities |-> IF e \in h THEN Changed(v[e], l) ELSE tx[w][e]]
<1>1. /\ tx' = [tx EXCEPT ![w] = t]
      /\ \/ /\ l.act = "update" /\ l.kind = "center"
            /\ Goto(w, "write", [l EXCEPT !.act = "repoint", !.hit = {}, !.own = @ \cup h])
         \/ Done(w, IF l.act = "update" THEN h ELSE {})
    BY DEF Perform
<1>2. Planned(l) /\ v \in Tables /\ l \in Local /\ tx \in [Procs -> Tables]
    BY ViewTyped DEF Inv, TypeOK, PlansOK
<1>3. \A e \in h : e \in LiveIn(v) /\ Changed(v[e], l) \in RowsOf(KindOf[e])
    <2> TAKE e \in h
    <2> HIDE DEF l, v
    <2>1. l.act # "insert" /\ e \in Matched(v, l)
        BY DEF l, v
    <2> QED  BY <1>2, <2>1, MatchedRows, ChangedTyped
<1>4. h \subseteq Entities
    BY <1>3 DEF LiveIn
<1>5. t \in Tables
    <2>1. \A e \in Entities : t[e] \in Row \cup {None} /\ (t[e] # None => t[e] \in RowsOf(KindOf[e]))
        <3> TAKE e \in Entities
        <3>1. CASE e \in h
            <4>1. KindOf[e] \in Kinds
                BY ConstantsOK
            <4>2. t[e] \in RowsOf(KindOf[e])
                BY <1>3, <3>1
            <4> HIDE DEF t
            <4> QED  BY <4>1, <4>2 DEF Row
        <3>2. CASE e \notin h
            <4>1. t[e] = tx[w][e]
                BY <3>2
            <4> HIDE DEF t
            <4> QED  BY <1>2, <4>1 DEF Tables
        <3> QED  BY <3>1, <3>2
    <2> QED  BY <2>1 DEF Tables
<1>6. \A e \in Entities : t[e] # tx[w][e] => e \notin LockedFor(w) /\ ~Dead(e)
    BY <1>3, SeenIsNotDead
<1>7. tx' \in [Procs -> Tables] /\ LocksExclusive' /\ DeadUntouched'
    <2> HIDE DEF t
    <2> QED  BY <1>1, <1>5, <1>6, WritesKeepLocks
<1>8. pc' \in [Procs -> Points] /\ loc' \in [Procs -> Local] /\ PlansOK'
    <2>1. CASE Done(w, IF l.act = "update" THEN h ELSE {})
        BY <1>4, <2>1, DoneTyped
    <2>2. CASE /\ l.act = "update" /\ l.kind = "center"
               /\ Goto(w, "write", [l EXCEPT !.act = "repoint", !.hit = {}, !.own = @ \cup h])
        <3> DEFINE m == [l EXCEPT !.act = "repoint", !.hit = {}, !.own = @ \cup h]
        <3>1. pc' = [pc EXCEPT ![w] = "write"] /\ loc' = [loc EXCEPT ![w] = m]
            BY <2>2 DEF Goto
        <3>2. pc \in [Procs -> Points] /\ loc \in [Procs -> Local]
            BY DEF Inv, TypeOK
        <3>3. m \in Local
            <4>1. "repoint" \in Acts \cup {None} /\ l.own \cup h \in SUBSET Entities
                BY <1>2, <1>4 DEF Acts, Local
            <4> QED  BY <1>2, <4>1 DEF Local
        <3>4. m.act = "repoint" /\ m.kind = "center" /\ m.new = l.new
            BY <1>2, <2>2 DEF Local
        <3>5. Planned(m)
            BY <1>2, <2>2, <3>4 DEF Planned, Acts
        <3> HIDE DEF m
        <3> QED  BY <3>1, <3>2, <3>3, <3>5 DEF Inv, PlansOK, Points
    <2> QED  BY <1>1, <2>1, <2>2
<1> QED  BY <1>7, <1>8 DEF Inv, TypeOK

LEMMA WriteStep == ASSUME Inv, NEW w \in Procs, Write(w) PROVE Inv'
<1> DEFINE h == Matched(View(w), loc[w])
<1>1. CASE h \cap LockedFor(w) = {}
    BY <1>1, PerformStep DEF Write
<1>2. CASE h \cap LockedFor(w) # {}
    <2> DEFINE l == [loc[w] EXCEPT !.hit = h]
    <2>1. /\ pc' = [pc EXCEPT ![w] = "wait"] /\ loc' = [loc EXCEPT ![w] = l]
          /\ UNCHANGED <<row, tx, begun, alone>> /\ loc[w].act # "insert"
        BY <1>2 DEF Write, Goto
    <2>2. Planned(loc[w]) /\ View(w) \in Tables /\ loc[w] \in Local /\ loc \in [Procs -> Local]
          /\ pc \in [Procs -> Points]
        BY ViewTyped DEF Write, Inv, TypeOK, PlansOK
    <2>3. h \in SUBSET Entities
        BY <2>1, <2>2, MatchedRows DEF LiveIn
    <2> HIDE DEF h
    <2>4. l \in Local /\ l.act = loc[w].act /\ l.kind = loc[w].kind /\ l.new = loc[w].new
          /\ l.target = loc[w].target
        BY <2>2, <2>3 DEF Local
    <2> HIDE DEF l
    <2>5. Planned(l) /\ l.act # "insert"
        BY <2>1, <2>2, <2>4 DEF Planned
    <2>6. TypeOK' /\ PlansOK'
        BY <2>1, <2>2, <2>4, <2>5 DEF Inv, TypeOK, PlansOK, Points
    <2>7. LocksExclusive' /\ DeadUntouched'
        BY <2>1 DEF Inv, LocksExclusive, DeadUntouched, Dead, LiveIn
    <2> QED  BY <2>6, <2>7 DEF Inv
<1> QED  BY <1>1, <1>2

LEMMA WriteAfterWaitStep == ASSUME Inv, NEW w \in Procs, WriteAfterWait(w) PROVE Inv'
<1> DEFINE h == loc[w].hit \cap Matched(View(w), loc[w])
<1>1. h \in SUBSET Matched(View(w), loc[w]) /\ h \cap LockedFor(w) = {} /\ Perform(w, h)
    BY DEF WriteAfterWait
<1>2. pc[w] = "wait" /\ loc[w].act # "insert" /\ UNCHANGED <<row, begun, alone>>
    BY DEF WriteAfterWait, Inv, PlansOK
<1> QED  BY <1>1, <1>2, PerformStep

-----------------------------------------------------------------------------
(* The operations *)

LEMMA PlanCreateStep == ASSUME Inv, NEW w \in Procs, PlanCreate(w) PROVE Inv'
<1>1. PICK k \in Kinds : \E r \in Proposed(w, k) : Plan(w, "insert", k, None, r)
    BY DEF PlanCreate
<1>2. PICK r \in Proposed(w, k) : Plan(w, "insert", k, None, r)
    BY <1>1
<1>3. r \in RowsOf(k) /\ r # None
    BY ProposedTyped, RowsAreNotNull
<1> QED  BY <1>2, <1>3, PlanStep

\* What names a target is a name, and of a resource its id.
LEMMA TargetsTyped ==
    ASSUME NEW k \in Kinds, NEW t \in Targets(k)
    PROVE  t \in Names \cup Entities \cup {None} /\ (k = "resource" => t \in Of("resource"))
    BY ConstantsOK DEF Targets, Of

LEMMA PlanUpdateStep == ASSUME Inv, NEW w \in Procs, PlanUpdate(w) PROVE Inv'
<1>1. PICK k \in Kinds : \E t \in Targets(k), r \in Proposed(w, k) : Plan(w, "update", k, t, r)
    BY DEF PlanUpdate
<1>2. PICK t \in Targets(k) : \E r \in Proposed(w, k) : Plan(w, "update", k, t, r)
    BY <1>1
<1>3. PICK r \in Proposed(w, k) : Plan(w, "update", k, t, r)
    BY <1>2
<1>4. r \in RowsOf(k) /\ r # None
    BY ProposedTyped, RowsAreNotNull
<1> QED  BY <1>3, <1>4, TargetsTyped, PlanStep

LEMMA PlanDeleteStep == ASSUME Inv, NEW w \in Procs, PlanDelete(w) PROVE Inv'
<1>1. PICK k \in Kinds : \E t \in Targets(k) : Plan(w, "delete", k, t, None)
    BY DEF PlanDelete
<1>2. PICK t \in Targets(k) : Plan(w, "delete", k, t, None)
    BY <1>1
<1> QED  BY <1>2, TargetsTyped, PlanStep

-----------------------------------------------------------------------------
(* The transaction *)

\* An approval with nothing planned.
LEMMA NoLocalTyped == NoLocal \in Local
    BY DEF NoLocal, Local

LEMMA BeginStep == ASSUME Inv, NEW w \in Procs, Begin(w) PROVE Inv'
<1>1. TypeOK'
    BY NoLocalTyped DEF Begin, Goto, Inv, TypeOK, Points
<1>2. PlansOK'
    BY DEF Begin, Goto, Inv, TypeOK, PlansOK
<1>3. LocksExclusive' /\ DeadUntouched'
    BY DEF Begin, Inv, LocksExclusive, DeadUntouched, Dead, LiveIn
<1> QED  BY <1>1, <1>2, <1>3 DEF Inv

\* A transaction that ends gives up its locks and its plans.
LEMMA EndStep ==
    ASSUME Inv, NEW w \in Procs, tx' = [tx EXCEPT ![w] = Nothing], Goto(w, "idle", NoLocal)
    PROVE  /\ tx' \in [Procs -> Tables] /\ pc' \in [Procs -> Points] /\ loc' \in [Procs -> Local]
           /\ PlansOK' /\ LocksExclusive'
<1>1. Nothing \in Tables
    BY DEF Nothing, Tables
<1>2. tx' \in [Procs -> Tables] /\ pc' \in [Procs -> Points] /\ loc' \in [Procs -> Local]
    BY <1>1, NoLocalTyped DEF Goto, Inv, TypeOK, Points
<1>3. PlansOK'
    BY DEF Goto, Inv, TypeOK, PlansOK
<1>4. LocksExclusive'
    BY DEF Inv, TypeOK, LocksExclusive, Nothing
<1> QED  BY <1>2, <1>3, <1>4

\* A commit changes no deleted row.
LEMMA CommitKeepsDead ==
    ASSUME Inv, NEW w \in Procs, Commit(w), NEW e \in Entities, Dead(e) PROVE row'[e] = row[e]
    BY DEF Inv, Commit, DeadUntouched, View

LEMMA CommitStep == ASSUME Inv, NEW w \in Procs, Commit(w) PROVE Inv'
<1>1. row' = View(w) /\ tx' = [tx EXCEPT ![w] = Nothing] /\ Goto(w, "idle", NoLocal)
      /\ begun' = begun /\ alone' = alone
    BY DEF Commit
<1>2. /\ tx' \in [Procs -> Tables] /\ pc' \in [Procs -> Points] /\ loc' \in [Procs -> Local]
      /\ PlansOK' /\ LocksExclusive'
    BY <1>1, EndStep
<1>3. row' \in Tables
    BY <1>1, ViewTyped DEF Inv
<1>4. DeadUntouched'
    <2>1. SUFFICES ASSUME NEW v \in Procs, NEW e \in Entities, Dead(e)' PROVE tx'[v][e] = None
        BY DEF DeadUntouched
    <2>2. CASE v = w
        BY <1>1, <2>2 DEF Inv, TypeOK, Nothing
    <2>3. CASE v # w
        <3>1. tx'[v] = tx[v]
            BY <1>1, <2>3
        <3>2. CASE tx[w][e] = None
            <4>1. row'[e] = row[e]
                BY <1>1, <3>2 DEF View
            <4>2. Dead(e)
                BY <2>1, <4>1 DEF Dead, LiveIn
            <4> QED  BY <3>1, <4>2 DEF Inv, DeadUntouched
        <3>3. CASE tx[w][e] # None
            BY <2>3, <3>1, <3>3 DEF Inv, LocksExclusive
        <3> QED  BY <3>2, <3>3
    <2> QED  BY <2>2, <2>3
<1> QED  BY <1>1, <1>2, <1>3, <1>4 DEF Inv, TypeOK

LEMMA AbortStep == ASSUME Inv, NEW w \in Procs, Abort(w) PROVE Inv'
<1>1. tx' = [tx EXCEPT ![w] = Nothing] /\ Goto(w, "idle", NoLocal) /\ UNCHANGED <<row, begun, alone>>
    BY DEF Abort
<1>2. /\ tx' \in [Procs -> Tables] /\ pc' \in [Procs -> Points] /\ loc' \in [Procs -> Local]
      /\ PlansOK' /\ LocksExclusive'
    BY <1>1, EndStep
<1>3. DeadUntouched'
    BY <1>1 DEF Inv, TypeOK, DeadUntouched, Dead, LiveIn, Nothing
<1> QED  BY <1>1, <1>2, <1>3 DEF Inv, TypeOK

-----------------------------------------------------------------------------
(* Theorems *)

LEMMA NextInv == Inv /\ [Next]_vars => Inv'
<1> SUFFICES ASSUME Inv, [Next]_vars PROVE Inv'
    OBVIOUS
<1>1. CASE UNCHANGED vars
    BY <1>1 DEF vars, Inv, TypeOK, PlansOK, LocksExclusive, DeadUntouched, Dead, LiveIn
<1>2. CASE Next
    <2>1. PICK w \in Procs : Begin(w) \/ Operation(w) \/ Statement(w) \/ Commit(w) \/ Abort(w)
        BY <1>2 DEF Next
    <2>2. CASE Operation(w)
        BY <2>2, PlanCreateStep, PlanUpdateStep, PlanDeleteStep DEF Operation
    <2>3. CASE Statement(w)
        BY <2>3, InsertStep, WriteStep, WriteAfterWaitStep DEF Statement
    <2> QED  BY <2>1, <2>2, <2>3, BeginStep, CommitStep, AbortStep
<1> QED  BY <1>1, <1>2

\* The invariant: types, plans that fit their kind, exclusive locks, untouched deleted rows.
THEOREM Invariance == Spec => []Inv
    BY InitInv, NextInv, PTL DEF Spec

\* Every reachable state is well typed: a row hangs on a row of the kind above its own.
THEOREM HierarchyTyped == Spec => []TypeOK
<1>1. Inv => TypeOK
    BY DEF Inv
<1> QED  BY <1>1, Invariance, PTL

\* No two approvals in flight have written the same row (row locks, WithTx).
THEOREM WritesAreExclusive == Spec => []LocksExclusive
<1>1. Inv => LocksExclusive
    BY DEF Inv
<1> QED  BY <1>1, Invariance, PTL

\* A deleted facility, site, group or resource is never written again (deleted_at IS NULL in the
\* updates of queries_browse.go, and its re-evaluation after a wait).
THEOREM DeletedStaysDeleted == Spec => DeadStayDead
<1>1. Inv /\ [Next]_vars =>
         [\A e \in Entities : KindOf[e] # "center" /\ row[e] # None /\ e \notin LiveIn(row) =>
             row'[e] = row[e]]_vars
    <2> SUFFICES ASSUME Inv, Next, NEW e \in Entities, Dead(e) PROVE row'[e] = row[e]
        BY DEF Dead
    <2>1. PICK w \in Procs : Begin(w) \/ Operation(w) \/ Statement(w) \/ Commit(w) \/ Abort(w)
        BY DEF Next
    <2>2. CASE Commit(w)
        BY <2>2, CommitKeepsDead
    <2>3. CASE Begin(w) \/ Abort(w)
        BY <2>3 DEF Begin, Abort
    <2>4. CASE Operation(w)
        BY <2>4 DEF Operation, PlanCreate, PlanUpdate, PlanDelete, Plan
    <2>5. CASE Statement(w)
        BY <2>5 DEF Statement, Insert, Write, WriteAfterWait
    <2> QED  BY <2>1, <2>2, <2>3, <2>4, <2>5
<1> QED  BY <1>1, Invariance, PTL DEF Spec, DeadStayDead

-----------------------------------------------------------------------------
(* Approvals that do not overlap *)

\* What an operation found before its first write is still so when it writes: the parent of the
\* row it writes is live, nothing live hangs on what it deletes, the id of a new center is free.
Safe(v, l) ==
    /\ l.act \in {"insert", "update"} =>
          l.new.live /\ (Above[l.kind] # None => l.new.up \in LiveIn(v))
    /\ l.act = "delete" =>
          \A e \in LiveIn(v) : Above[KindOf[e]] # None => v[e].up \notin Matched(v, l)
    /\ l.act = "insert" /\ l.kind = "center" => CenterId[l.new.name] \notin LiveIn(v)

\* Outside a transaction nothing is written.
IdleClean == \A w \in Procs : pc[w] = "idle" => tx[w] = Nothing

\* Only one approval is open, it waits for nobody, and what it sees has no orphans.
OneAtATime ==
    /\ \A v, w \in Procs : pc[v] # "idle" /\ pc[w] # "idle" => v = w
    /\ NoOrphans
    /\ \A w \in Procs : pc[w] # "idle" =>
          /\ pc[w] # "wait" /\ Orphanless(View(w))
          /\ pc[w] = "write" => Safe(View(w), loc[w])

AloneInv == IdleClean /\ (alone => OneAtATime)

LEMMA InitAlone == Init => AloneInv
    BY StartsWhole DEF Init, AloneInv, IdleClean, OneAtATime, NoOrphans

\* A transaction that has written nothing sees what is committed.
LEMMA CleanView == ASSUME Inv, NEW w \in Procs, tx[w] = Nothing PROVE View(w) = row
    BY DEF Inv, TypeOK, Tables, View, Nothing

LEMMA BeginAlone == ASSUME Inv, AloneInv, NEW w \in Procs, Begin(w) PROVE AloneInv'
<1>1. /\ pc[w] = "idle" /\ pc' = [pc EXCEPT ![w] = "next"] /\ UNCHANGED <<row, tx>>
      /\ alone' = (alone /\ \A v \in Procs \ {w} : pc[v] = "idle") /\ pc \in [Procs -> Points]
    BY DEF Begin, Goto, Inv, TypeOK
<1>2. IdleClean'
    BY <1>1 DEF AloneInv, IdleClean
<1>3. ASSUME alone' PROVE OneAtATime'
    <2>1. alone /\ \A v \in Procs \ {w} : pc'[v] = "idle"
        BY <1>1, <1>3
    <2>2. NoOrphans
        BY <2>1 DEF AloneInv, OneAtATime
    <2>3. View(w)' = row
        BY <1>1, CleanView DEF AloneInv, IdleClean, View
    <2>4. Orphanless(View(w)')
        BY <2>2, <2>3 DEF NoOrphans
    <2>5. Orphanless(View(w))'
        BY <2>4 DEF Orphanless, LiveIn
    <2>6. NoOrphans'
        BY <1>1, <2>2 DEF NoOrphans, Orphanless, LiveIn
    <2> QED  BY <1>1, <2>1, <2>5, <2>6 DEF OneAtATime
<1> QED  BY <1>2, <1>3 DEF AloneInv

\* A step inside a transaction keeps it so when the operation it plans is safe and what it
\* sees afterwards has no orphans.
LEMMA InsideAlone ==
    ASSUME Inv, AloneInv, NEW w \in Procs, pc[w] # "idle", row' = row, alone' = alone,
           pc' = [pc EXCEPT ![w] = pc'[w]], pc'[w] # "idle",
           \A v \in Procs \ {w} : tx'[v] = tx[v],
           alone => /\ pc'[w] # "wait" /\ Orphanless(View(w)')
                    /\ pc'[w] = "write" => Safe(View(w)', loc'[w])
    PROVE  AloneInv'
<1>1. pc \in [Procs -> Points]
    BY DEF Inv, TypeOK
<1>2. \A v \in Procs \ {w} : pc'[v] = pc[v]
    BY <1>1
<1>3. IdleClean'
    BY <1>2 DEF AloneInv, IdleClean
<1>4. ASSUME alone PROVE OneAtATime'
    <2>1. \A v \in Procs : pc'[v] # "idle" => v = w
        BY <1>2, <1>4 DEF AloneInv, OneAtATime
    <2>2. NoOrphans'
        BY <1>4 DEF AloneInv, OneAtATime, NoOrphans, Orphanless, LiveIn
    <2>3. Orphanless(View(w))' /\ (pc'[w] = "write" => Safe(View(w), loc[w])')
        BY <1>4 DEF Orphanless, Safe, LiveIn, Matched, Named
    <2> QED  BY <1>4, <2>1, <2>2, <2>3 DEF OneAtATime
<1> QED  BY <1>3, <1>4 DEF AloneInv

\* Planning an operation whose look-ups and guards passed.
LEMMA PlanAlone ==
    ASSUME Inv, AloneInv, NEW w \in Procs, NEW k \in Kinds,
           NEW a \in {"insert", "update", "delete"}, NEW t, NEW r, Plan(w, a, k, t, r),
           \A l \in Local : l.act = a /\ l.kind = k /\ l.target = t /\ l.new = r =>
               Safe(View(w), l),
           loc'[w] \in Local
    PROVE  AloneInv'
<1>1. loc[w] \in Local /\ pc \in [Procs -> Points] /\ loc \in [Procs -> Local]
    BY DEF Inv, TypeOK
<1>2. /\ pc[w] = "next" /\ pc' = [pc EXCEPT ![w] = "write"] /\ UNCHANGED <<row, tx, alone>>
    BY DEF Plan, Goto
<1>3. loc'[w].act = a /\ loc'[w].kind = k /\ loc'[w].target = t /\ loc'[w].new = r
    BY <1>1 DEF Plan, Goto, Local
<1>4. View(w)' = View(w)
    BY <1>2 DEF View
<1>5. Safe(View(w), loc'[w])
    BY <1>3
<1>6. alone => Orphanless(View(w))
    BY <1>2 DEF AloneInv, OneAtATime
<1>7. pc'[w] = "write" /\ pc' = [pc EXCEPT ![w] = pc'[w]]
    BY <1>1, <1>2
<1> QED  BY <1>2, <1>4, <1>5, <1>6, <1>7, InsideAlone

\* The parent of a row that is created or updated is live.
LEMMA ProposedSafe ==
    ASSUME NEW w \in Procs, NEW k \in Kinds, NEW r \in Proposed(w, k)
    PROVE  r.live /\ (Above[k] # None => r.up \in LiveIn(View(w)))
<1>1. PICK p \in UNION {Hangers(w, k, m) : m \in Names} : r.up = p /\ r.live
    BY DEF Proposed
<1>2. Above[k] # None => p \in LiveIn(View(w))
    BY DEF Hangers, Named
<1> QED  BY <1>1, <1>2

\* After a planning step the local variables are still well typed.
LEMMA PlansTyped ==
    ASSUME Inv, NEW w \in Procs, PlanCreate(w) \/ PlanUpdate(w) \/ PlanDelete(w)
    PROVE  loc'[w] \in Local
<1>1. TypeOK'
    BY PlanCreateStep, PlanUpdateStep, PlanDeleteStep DEF Inv
<1> QED  BY <1>1 DEF TypeOK

LEMMA PlanCreateAlone == ASSUME Inv, AloneInv, NEW w \in Procs, PlanCreate(w) PROVE AloneInv'
<1>1. PICK k \in Kinds : \E r \in Proposed(w, k) :
          (k = "center" => ~CenterRefused(w, r.name)) /\ Plan(w, "insert", k, None, r)
    BY DEF PlanCreate
<1>2. PICK r \in Proposed(w, k) :
          (k = "center" => ~CenterRefused(w, r.name)) /\ Plan(w, "insert", k, None, r)
    BY <1>1
<1>3. r.live /\ (Above[k] # None => r.up \in LiveIn(View(w)))
    BY ProposedSafe
<1>4. k = "center" => CenterId[r.name] \notin LiveIn(View(w))
    BY <1>2 DEF CenterRefused
<1>5. \A l \in Local : l.act = "insert" /\ l.kind = k /\ l.target = None /\ l.new = r =>
          Safe(View(w), l)
    BY <1>3, <1>4 DEF Safe
<1> QED  BY <1>2, <1>5, PlansTyped, PlanAlone

LEMMA PlanUpdateAlone == ASSUME Inv, AloneInv, NEW w \in Procs, PlanUpdate(w) PROVE AloneInv'
<1>1. PICK k \in Kinds : \E t \in Targets(k), r \in Proposed(w, k) : Plan(w, "update", k, t, r)
    BY DEF PlanUpdate
<1>2. PICK t \in Targets(k) : \E r \in Proposed(w, k) : Plan(w, "update", k, t, r)
    BY <1>1
<1>3. PICK r \in Proposed(w, k) : Plan(w, "update", k, t, r)
    BY <1>2
<1>4. r.live /\ (Above[k] # None => r.up \in LiveIn(View(w)))
    BY ProposedSafe
<1>5. \A l \in Local : l.act = "update" /\ l.kind = k /\ l.target = t /\ l.new = r =>
          Safe(View(w), l)
    BY <1>4 DEF Safe
<1> QED  BY <1>3, <1>5, PlansTyped, PlanAlone

\* The guard of a delete: what hangs on a row that the delete matches is found by the row's name.
LEMMA GuardFinds ==
    ASSUME Inv, NEW w \in Procs, NEW k \in Kinds, NEW t \in Targets(k), UsersOf(w, k, t) = {},
           NEW l \in Local, l.act = "delete", l.kind = k, l.target = t,
           NEW e \in LiveIn(View(w)), Above[KindOf[e]] # None
    PROVE  View(w)[e].up \notin Matched(View(w), l)
<1> DEFINE v == View(w)
<1>1. v \in Tables /\ e \in Entities /\ v[e] # None
    BY ViewTyped DEF Inv, LiveIn
<1>2. v[e] \in RowsOf(KindOf[e]) /\ KindOf[e] \in Kinds
    BY <1>1, ConstantsOK DEF Tables
<1>3. v[e].up \in Of(Above[KindOf[e]])
    BY <1>2 DEF RowsOf, HangsOn
<1>4. KindOf[v[e].up] = Above[KindOf[e]]
    BY <1>3 DEF Of
<1>5. Above[KindOf[e]] \notin {"center", "resource"}
    BY <1>2, NullsOK DEF Above, Kinds
<1>6. SUFFICES ASSUME v[e].up \in Matched(v, l) PROVE FALSE
    OBVIOUS
<1>7. CASE k = "resource"
    <2>1. KindOf[t] = "resource"
        BY <1>7 DEF Targets, Of
    <2>2. v[e].up = t
        BY <1>6, <1>7 DEF Matched
    <2> QED  BY <1>4, <1>5, <2>1, <2>2
<1>8. CASE k # "resource"
    <2>1. v[e].up \in Of(k) /\ v[v[e].up].name = t
        BY <1>6, <1>8 DEF Matched, Named
    <2>2. Above[KindOf[e]] = k /\ k # "center"
        BY <1>4, <1>5, <2>1 DEF Of
    <2> QED  BY <2>1, <2>2 DEF UsersOf
<1> QED  BY <1>7, <1>8

LEMMA PlanDeleteAlone == ASSUME Inv, AloneInv, NEW w \in Procs, PlanDelete(w) PROVE AloneInv'
<1>1. PICK k \in Kinds : \E t \in Targets(k) :
          UsersOf(w, k, t) = {} /\ Plan(w, "delete", k, t, None)
    BY DEF PlanDelete
<1>2. PICK t \in Targets(k) : UsersOf(w, k, t) = {} /\ Plan(w, "delete", k, t, None)
    BY <1>1
<1>3. \A l \in Local : l.act = "delete" /\ l.kind = k /\ l.target = t /\ l.new = None =>
          Safe(View(w), l)
    BY <1>2, GuardFinds DEF Safe
<1> QED  BY <1>2, <1>3, PlansTyped, PlanAlone

LEMMA InsertAlone == ASSUME Inv, AloneInv, NEW w \in Procs, Insert(w) PROVE AloneInv'
<1> DEFINE l == loc[w]
           v == View(w)
<1>1. PICK e \in NewIds(w, l.kind, l.new.name) : tx' = [tx EXCEPT ![w][e] = l.new] /\ Done(w, {e})
    BY DEF Insert
<1>2. pc[w] = "write" /\ l.act = "insert" /\ row' = row /\ alone' = alone
    BY DEF Insert
<1>3. l.kind \in Kinds /\ l.new \in RowsOf(l.kind) /\ l.new # None
    BY <1>2, RowsAreNotNull DEF Inv, PlansOK, Planned
<1>4. /\ tx \in [Procs -> Tables] /\ pc \in [Procs -> Points] /\ v \in Tables
    BY ViewTyped DEF Inv, TypeOK
<1>5. e \in Entities /\ KindOf[e] = l.kind /\ (l.kind = "center" \/ v[e] = None)
    <2>1. CASE l.kind = "center"
        <3>1. l.new.name \in Names
            BY <1>3 DEF RowsOf
        <3> QED  BY <2>1, <3>1, ConstantsOK DEF NewIds, Of
    <2>2. CASE l.kind # "center"
        BY <2>2 DEF NewIds, Of
    <2> QED  BY <2>1, <2>2
<1>6. /\ pc'[w] = "next" /\ pc' = [pc EXCEPT ![w] = pc'[w]]
      /\ \A u \in Procs \ {w} : tx'[u] = tx[u]
    BY <1>1, <1>4 DEF Done, Goto
<1>7. View(w)' = [v EXCEPT ![e] = l.new]
    <2>1. tx'[w] = [tx[w] EXCEPT ![e] = l.new] /\ tx[w] \in [Entities -> Row \cup {None}]
        BY <1>1, <1>4 DEF Tables
    <2> QED  BY <1>2, <1>3, <1>5, <2>1 DEF View
<1>8. ASSUME alone PROVE Orphanless(View(w)')
    <2>1. Orphanless(v) /\ Safe(v, l)
        BY <1>2, <1>8 DEF AloneInv, OneAtATime
    <2>2. v \in [Entities -> Row \cup {None}]
        BY <1>4 DEF Tables
    <2> DEFINE u == View(w)'
    <2>3. u[e] = l.new /\ \A d \in Entities \ {e} : u[d] = v[d]
        BY <1>5, <1>7, <2>2
    <2>4. l.new.live /\ (Above[l.kind] # None => l.new.up \in LiveIn(v))
        BY <1>2, <2>1 DEF Safe
    <2> HIDE DEF u, v
    <2>5. LiveIn(v) \subseteq LiveIn(u) /\ LiveIn(u) \subseteq LiveIn(v) \cup {e}
        BY <1>3, <1>5, <2>3, <2>4 DEF LiveIn
    <2>6. ASSUME NEW d \in LiveIn(u), Above[KindOf[d]] # None PROVE u[d].up \in LiveIn(u)
        <3>1. CASE d = e
            BY <1>5, <2>3, <2>4, <2>5, <2>6, <3>1
        <3>2. CASE d # e
            <4>1. d \in LiveIn(v) /\ u[d] = v[d]
                BY <2>3, <2>5, <3>2 DEF LiveIn
            <4> QED  BY <2>1, <2>5, <2>6, <4>1 DEF Orphanless
        <3> QED  BY <3>1, <3>2
    <2>7. Orphanless(u)
        BY <2>6 DEF Orphanless
    <2> QED  BY <2>7 DEF u
<1> QED  BY <1>2, <1>6, <1>8, InsideAlone

\* An update or delete of everything it matches leaves no orphan: an updated row is live and so is
\* its parent, nothing live hangs on a deleted one, and a repoint moves nothing.
LEMMA ChangeKeepsWhole ==
    ASSUME NEW v \in Tables, Orphanless(v), NEW l \in Local, Planned(l), l.act # "insert",
           Safe(v, l), NEW u,
           \A e \in Entities : u[e] = IF e \in Matched(v, l) THEN Changed(v[e], l) ELSE v[e]
    PROVE  Orphanless(u)
<1> DEFINE h == Matched(v, l)
<1>1. \A e \in h : e \in LiveIn(v) /\ u[e] = Changed(v[e], l)
    BY MatchedRows DEF LiveIn
<1>2. \A e \in Entities \ h : u[e] = v[e]
    OBVIOUS
<1>3. \A e \in LiveIn(v) : e \in Entities /\ v[e] # None /\ v[e].live /\ v[e] \in RowsOf(KindOf[e])
    BY DEF LiveIn, Tables
<1>4. \A e \in LiveIn(u) : e \in Entities /\ u[e] # None /\ u[e].live
    BY DEF LiveIn
<1>5. CASE l.act = "update"
    <2>1. /\ l.new \in RowsOf(l.kind) /\ l.new # None /\ l.new.live
          /\ Above[l.kind] # None => l.new.up \in LiveIn(v)
        BY <1>5, RowsAreNotNull DEF Safe, Planned
    <2>2. \A e \in h : u[e] = l.new /\ KindOf[e] = l.kind
        BY <1>1, <1>5, MatchedRows DEF Changed
    <2> HIDE DEF h
    <2>3. LiveIn(u) = LiveIn(v)
        BY <1>1, <1>2, <2>1, <2>2 DEF LiveIn
    <2> QED  BY <1>2, <1>3, <2>1, <2>2, <2>3 DEF Orphanless
<1>6. CASE l.act = "delete"
    <2>1. \A e \in h : ~u[e].live
        <3> TAKE e \in h
        <3>1. v[e] \in RowsOf(KindOf[e])
            BY <1>1, <1>3
        <3>2. ~[v[e] EXCEPT !.live = FALSE].live
            BY <3>1 DEF RowsOf
        <3> QED  BY <1>1, <1>6, <3>2 DEF Changed
    <2>2. \A e \in LiveIn(v) : Above[KindOf[e]] # None => v[e].up \notin h
        BY <1>6 DEF Safe
    <2> HIDE DEF h
    <2>3. LiveIn(u) = LiveIn(v) \ h
        BY <1>2, <2>1 DEF LiveIn
    <2> QED  BY <1>2, <1>3, <2>2, <2>3 DEF Orphanless
<1>7. CASE l.act = "repoint"
    <2>1. \A e \in h : u[e] # None /\ u[e].live /\ u[e].up = v[e].up
        <3> TAKE e \in h
        <3>1. v[e] \in RowsOf(KindOf[e]) /\ v[e].live /\ KindOf[e] \in Kinds
            BY <1>1, <1>3, ConstantsOK
        <3>2. u[e] = [v[e] EXCEPT !.center = l.new.name]
            BY <1>1, <1>7 DEF Changed
        <3>3. u[e].live /\ u[e].up = v[e].up
            BY <3>1, <3>2 DEF RowsOf
        <3>4. u[e] \in RowsOf(KindOf[e])
            BY <1>1, ChangedTyped
        <3> QED  BY <3>1, <3>3, <3>4, RowsAreNotNull
    <2> HIDE DEF h
    <2>2. LiveIn(u) = LiveIn(v)
        BY <1>1, <1>2, <2>1 DEF LiveIn
    <2> QED  BY <1>2, <1>3, <2>1, <2>2 DEF Orphanless
<1> QED  BY <1>5, <1>6, <1>7 DEF Planned, Acts

\* When approvals do not overlap no row is locked for the one that is open.
LEMMA NobodyWaits ==
    ASSUME Inv, AloneInv, alone, NEW w \in Procs, pc[w] # "idle" PROVE LockedFor(w) = {}
<1>1. \A v \in Procs \ {w} : pc[v] = "idle"
    BY DEF AloneInv, OneAtATime
<1>2. \A v \in Procs \ {w} : tx[v] = Nothing
    BY <1>1 DEF AloneInv, IdleClean
<1> QED  BY <1>2 DEF LockedFor, Nothing

LEMMA WriteAlone == ASSUME Inv, AloneInv, NEW w \in Procs, Write(w) PROVE AloneInv'
<1> DEFINE l == loc[w]
           v == View(w)
           h == Matched(v, l)
           t == [e \in Entities |-> IF e \in h THEN Changed(v[e], l) ELSE tx[w][e]]
<1>1. pc[w] = "write" /\ l.act # "insert" /\ row' = row /\ alone' = alone
    BY DEF Write
<1>2. /\ tx \in [Procs -> Tables] /\ pc \in [Procs -> Points] /\ loc \in [Procs -> Local]
      /\ l \in Local /\ v \in Tables /\ Planned(l)
    BY <1>1, ViewTyped DEF Inv, TypeOK, PlansOK
<1>3. CASE h \cap LockedFor(w) # {}
    <2>1. pc' = [pc EXCEPT ![w] = "wait"] /\ tx' = tx
        BY <1>3 DEF Write, Goto
    <2>2. ~alone
        BY <1>1, <1>3, NobodyWaits
    <2>3. pc'[w] = "wait" /\ pc' = [pc EXCEPT ![w] = pc'[w]]
        BY <1>2, <2>1
    <2> QED  BY <1>1, <2>1, <2>2, <2>3, InsideAlone
<1>4. CASE h \cap LockedFor(w) = {}
    <2>1. /\ tx' = [tx EXCEPT ![w] = t]
          /\ \/ Goto(w, "write", [l EXCEPT !.act = "repoint", !.hit = {}, !.own = @ \cup h])
             \/ Done(w, IF l.act = "update" THEN h ELSE {})
        BY <1>4 DEF Write, Perform
    <2>2. /\ pc'[w] \in {"write", "next"} /\ pc' = [pc EXCEPT ![w] = pc'[w]]
          /\ \A u \in Procs \ {w} : tx'[u] = tx[u]
        BY <1>2, <2>1 DEF Goto, Done
    <2>3. \A d \in Entities : View(w)'[d] = IF d \in h THEN Changed(v[d], l) ELSE v[d]
        <3> TAKE d \in Entities
        <3>1. tx'[w][d] = IF d \in h THEN Changed(v[d], l) ELSE tx[w][d]
            BY <1>2, <2>1
        <3>2. d \in h => Changed(v[d], l) # None
            <4>1. KindOf[d] \in Kinds
                BY ConstantsOK
            <4> HIDE DEF v, l
            <4>2. l.act # "insert"
                BY <1>1
            <4> QED  BY <1>2, <4>1, <4>2, ChangedTyped, RowsAreNotNull DEF h
        <3> QED  BY <1>1, <3>1, <3>2 DEF View
    <2>4. ASSUME alone PROVE Orphanless(View(w)')
        <3>1. Orphanless(v) /\ Safe(v, l)
            BY <1>1, <2>4 DEF AloneInv, OneAtATime
        <3> HIDE DEF v, l
        <3>2. \A d \in Entities :
                 View(w)'[d] = IF d \in Matched(v, l) THEN Changed(v[d], l) ELSE v[d]
            BY <2>3
        <3>3. l.act # "insert"
            BY <1>1
        <3> QED  BY <1>2, <3>1, <3>2, <3>3, ChangeKeepsWhole
    <2>5. pc'[w] = "write" => Safe(View(w)', loc'[w])
        <3>1. SUFFICES ASSUME pc'[w] = "write" PROVE loc'[w].act = "repoint"
            BY DEF Safe
        <3>2. ~Done(w, IF l.act = "update" THEN h ELSE {})
            BY <1>2, <3>1 DEF Done, Goto
        <3> QED  BY <1>2, <2>1, <3>2 DEF Goto, Local
    <2> QED  BY <1>1, <2>2, <2>4, <2>5, InsideAlone
<1> QED  BY <1>3, <1>4

\* A wait means that approvals have overlapped.
LEMMA WaitAlone == ASSUME Inv, AloneInv, NEW w \in Procs, WriteAfterWait(w) PROVE AloneInv'
<1>1. pc[w] = "wait" /\ row' = row /\ alone' = alone /\ pc \in [Procs -> Points]
      /\ tx \in [Procs -> Tables]
    BY DEF WriteAfterWait, Inv, TypeOK
<1>2. ~alone
    BY <1>1 DEF AloneInv, OneAtATime
<1>3. /\ pc'[w] \in {"write", "next"} /\ pc' = [pc EXCEPT ![w] = pc'[w]]
      /\ \A u \in Procs \ {w} : tx'[u] = tx[u]
    BY <1>1 DEF WriteAfterWait, Perform, Goto, Done
<1> QED  BY <1>1, <1>2, <1>3, InsideAlone

\* When the open approval ends, what it saw or what was there before is committed.
LEMMA EndAlone ==
    ASSUME Inv, AloneInv, NEW w \in Procs, pc[w] # "idle", alone' = alone,
           tx' = [tx EXCEPT ![w] = Nothing], Goto(w, "idle", NoLocal),
           row' = row \/ row' = View(w)
    PROVE  AloneInv'
<1>1. /\ pc' = [pc EXCEPT ![w] = "idle"] /\ pc \in [Procs -> Points] /\ tx \in [Procs -> Tables]
    BY DEF Goto, Inv, TypeOK
<1>2. IdleClean'
    BY <1>1 DEF AloneInv, IdleClean
<1>3. ASSUME alone PROVE OneAtATime'
    <2>1. Orphanless(row) /\ Orphanless(View(w))
        BY <1>3 DEF AloneInv, OneAtATime, NoOrphans
    <2>2. Orphanless(row')
        BY <2>1
    <2>3. NoOrphans'
        BY <2>2 DEF NoOrphans, Orphanless, LiveIn
    <2>4. \A v \in Procs : pc'[v] = "idle"
        BY <1>1, <1>3 DEF AloneInv, OneAtATime
    <2> QED  BY <2>3, <2>4 DEF OneAtATime
<1> QED  BY <1>2, <1>3 DEF AloneInv

LEMMA NextAlone == Inv /\ AloneInv /\ [Next]_vars => AloneInv'
<1> SUFFICES ASSUME Inv, AloneInv, [Next]_vars PROVE AloneInv'
    OBVIOUS
<1>1. CASE UNCHANGED vars
    <2>1. IdleClean'
        BY <1>1 DEF vars, AloneInv, IdleClean
    <2>2. NoOrphans' <=> NoOrphans
        BY <1>1 DEF vars, NoOrphans, Orphanless, LiveIn
    <2>3. ASSUME NEW w \in Procs
          PROVE  /\ Orphanless(View(w))' <=> Orphanless(View(w))
                 /\ Safe(View(w), loc[w])' <=> Safe(View(w), loc[w])
        <3>1. View(w)' = View(w) /\ loc'[w] = loc[w]
            BY <1>1 DEF vars, View
        <3>2. Orphanless(View(w))' <=> Orphanless(View(w))
            BY <3>1 DEF Orphanless, LiveIn
        <3>3. Safe(View(w), loc[w])' <=> Safe(View(w), loc[w])
            BY <3>1 DEF Safe, LiveIn, Matched, Named
        <3> QED  BY <3>2, <3>3
    <2>4. alone' => OneAtATime'
        BY <1>1, <2>2, <2>3 DEF vars, AloneInv, OneAtATime
    <2> QED  BY <2>1, <2>4 DEF AloneInv
<1>2. CASE Next
    <2>1. PICK w \in Procs : Begin(w) \/ Operation(w) \/ Statement(w) \/ Commit(w) \/ Abort(w)
        BY <1>2 DEF Next
    <2>2. CASE Operation(w)
        BY <2>2, PlanCreateAlone, PlanUpdateAlone, PlanDeleteAlone DEF Operation
    <2>3. CASE Statement(w)
        BY <2>3, InsertAlone, WriteAlone, WaitAlone DEF Statement
    <2>4. CASE Commit(w)
        BY <2>4, EndAlone DEF Commit
    <2>5. CASE Abort(w)
        BY <2>5, EndAlone DEF Abort
    <2> QED  BY <2>1, <2>2, <2>3, <2>4, <2>5, BeginAlone
<1> QED  BY <1>1, <1>2

THEOREM AloneInvariance == Spec => []AloneInv
    BY InitAlone, NextAlone, Invariance, PTL DEF Spec

\* As long as no two approvals overlap, no bundle leaves a live row under a deleted one: the
\* guards of the delete branches and the look-ups of parents are enough.
THEOREM GuardsSuffice == Spec => []NoOrphansAlone
<1>1. AloneInv => NoOrphansAlone
    BY DEF AloneInv, OneAtATime, NoOrphansAlone
<1> QED  BY <1>1, AloneInvariance, PTL

\* As long as no two approvals overlap, a create changes no live row, a support center's
\* included, whose id may be that of a center by another name.
THEOREM CreatesAreNew == Spec => CreateIsNew
<1>1. Inv /\ AloneInv /\ [Next]_vars =>
         [\A w \in Procs : pc[w] = "write" /\ loc[w].act = "insert" /\ alone =>
             \A e \in LiveIn(View(w)) : tx'[w][e] # None => tx'[w][e] = tx[w][e]]_vars
    <2> SUFFICES ASSUME Inv, AloneInv, Next, NEW w \in Procs, pc[w] = "write",
                        loc[w].act = "insert", alone, NEW e \in LiveIn(View(w)),
                        tx'[w][e] # None
                 PROVE  tx'[w][e] = tx[w][e]
        OBVIOUS
    <2>1. tx \in [Procs -> Tables] /\ e \in Entities /\ View(w)[e] # None
        BY DEF Inv, TypeOK, LiveIn
    <2>2. PICK v \in Procs : Begin(v) \/ Operation(v) \/ Statement(v) \/ Commit(v) \/ Abort(v)
        BY DEF Next
    <2>3. CASE Begin(v) \/ Operation(v)
        BY <2>3 DEF Begin, Operation, PlanCreate, PlanUpdate, PlanDelete, Plan
    <2>4. CASE Commit(v) \/ Abort(v)
        BY <2>1, <2>4 DEF Commit, Abort, Nothing
    <2>5. CASE Write(v) \/ WriteAfterWait(v)
        <3>1. v # w
            BY <2>5 DEF Write, WriteAfterWait
        <3> QED  BY <2>1, <2>5, <3>1 DEF Write, WriteAfterWait, Perform
    <2>6. CASE Insert(v)
        <3>1. CASE v # w
            BY <2>1, <2>6, <3>1 DEF Insert
        <3>2. CASE v = w
            <4>1. PICK d \in NewIds(w, loc[w].kind, loc[w].new.name) :
                      tx' = [tx EXCEPT ![w][d] = loc[w].new]
                BY <2>6, <3>2 DEF Insert
            <4>2. Safe(View(w), loc[w])
                BY DEF AloneInv, OneAtATime
            <4>3. d \notin LiveIn(View(w))
                <5>1. CASE loc[w].kind = "center"
                    BY <4>2, <5>1 DEF NewIds, Safe
                <5>2. CASE loc[w].kind # "center"
                    BY <5>2 DEF NewIds, LiveIn
                <5> QED  BY <5>1, <5>2
            <4>4. e # d
                BY <4>3
            <4> QED  BY <2>1, <4>1, <4>4 DEF Tables
        <3> QED  BY <3>1, <3>2
    <2> QED  BY <2>2, <2>3, <2>4, <2>5, <2>6 DEF Statement
<1> QED  BY <1>1, Invariance, AloneInvariance, PTL DEF Spec, CreateIsNew

-----------------------------------------------------------------------------
(* The support centers that groups name *)

\* Between the rename of a support center and the statement that carries its groups along.
Renaming(l, p) == p = "write" /\ l.act = "repoint"

\* Of a transaction with local variables l at point p that sees v where r is committed: a group
\* that it has not set, and whose center existed, has one that exists, or else the next statement
\* will give it the new name of its center, which does exist; and no group names a center that
\* the next statement deletes.
Carried(r, v, l, p) ==
    /\ \A g \in (LiveIn(r) \cap LiveIn(v) \cap Of("group")) \ l.own :
          Resolves(r, g) => Resolves(v, g) \/ (Renaming(l, p) /\ v[g].center = l.target)
    /\ Renaming(l, p) => Named(v, "center", l.new.name) # {}
    /\ p = "write" /\ l.act = "delete" /\ l.kind = "center" =>
          \A g \in LiveIn(v) \cap Of("group") : v[g].center # l.target

CarriedInv ==
    alone => \A w \in Procs : pc[w] # "idle" => Carried(row, View(w), loc[w], pc[w])

\* The center of a group is looked up by name alone: a state of the tables that keeps the group
\* and has as many of the names keeps it resolved.
LEMMA ResolvesStays ==
    ASSUME NEW v, NEW u, NEW g, u[g].center = v[g].center, Resolves(v, g),
           v[g].center # None =>
               (Named(v, "center", v[g].center) # {} => Named(u, "center", v[g].center) # {})
    PROVE  Resolves(u, g)
    BY DEF Resolves

\* A statement that ends with nothing planned carries on when it resolves every group that was
\* resolved, or was about to be.
LEMMA CarriedAfter ==
    ASSUME NEW r, NEW v, NEW l, NEW p, Carried(r, v, l, p), NEW u, NEW m,
           \A g \in (LiveIn(u) \cap Of("group")) \ m.own :
               /\ g \in LiveIn(v) /\ g \notin l.own
               /\ Resolves(v, g) => Resolves(u, g)
               /\ Renaming(l, p) /\ v[g].center = l.target => Resolves(u, g)
    PROVE  Carried(r, u, m, "next")
<1>1. ASSUME NEW g \in (LiveIn(r) \cap LiveIn(u) \cap Of("group")) \ m.own, Resolves(r, g)
      PROVE  Resolves(u, g)
    <2>1. g \in (LiveIn(r) \cap LiveIn(v) \cap Of("group")) \ l.own
        BY <1>1
    <2>2. Resolves(v, g) \/ (Renaming(l, p) /\ v[g].center = l.target)
        BY <1>1, <2>1 DEF Carried
    <2> QED  BY <1>1, <2>2
<1> QED  BY <1>1 DEF Carried, Renaming

LEMMA InitCarried == Init => CarriedInv
    BY DEF Init, CarriedInv

LEMMA BeginCarried == ASSUME Inv, AloneInv, NEW w \in Procs, Begin(w) PROVE CarriedInv'
<1>1. /\ pc[w] = "idle" /\ pc' = [pc EXCEPT ![w] = "next"] /\ UNCHANGED <<row, tx>>
      /\ alone' = (alone /\ \A v \in Procs \ {w} : pc[v] = "idle") /\ pc \in [Procs -> Points]
    BY DEF Begin, Goto, Inv, TypeOK
<1>2. SUFFICES ASSUME alone', NEW v \in Procs, pc'[v] # "idle"
               PROVE  Carried(row, View(v), loc[v], pc[v])'
    BY DEF CarriedInv
<1>3. v = w /\ pc'[w] = "next"
    BY <1>1, <1>2
<1>4. View(w)' = row
    BY <1>1, CleanView DEF AloneInv, IdleClean, View
<1>5. Carried(row', View(w)', loc'[w], pc'[w])
    BY <1>1, <1>3, <1>4 DEF Carried, Renaming
<1> QED  BY <1>3, <1>5 DEF Carried, Renaming, Resolves, Named, LiveIn

\* A step inside the only open transaction.
LEMMA InsideCarried ==
    ASSUME Inv, AloneInv, NEW w \in Procs, pc[w] # "idle", row' = row, alone' = alone,
           pc' = [pc EXCEPT ![w] = pc'[w]],
           alone => Carried(row, View(w)', loc'[w], pc'[w])
    PROVE  CarriedInv'
<1>1. SUFFICES ASSUME alone, NEW v \in Procs, pc'[v] # "idle"
               PROVE  Carried(row, View(v), loc[v], pc[v])'
    BY DEF CarriedInv
<1>2. v = w
    BY <1>1 DEF AloneInv, OneAtATime, Inv, TypeOK
<1>3. Carried(row', View(w)', loc'[w], pc'[w])
    BY <1>1
<1> QED  BY <1>2, <1>3 DEF Carried, Renaming, Resolves, Named, LiveIn

\* Planning an operation writes nothing; a delete of a center found no group that names it.
LEMMA PlanCarried ==
    ASSUME Inv, AloneInv, CarriedInv, NEW w \in Procs, NEW k \in Kinds,
           NEW a \in {"insert", "update", "delete"}, NEW t, NEW r, Plan(w, a, k, t, r),
           a = "delete" => UsersOf(w, k, t) = {}
    PROVE  CarriedInv'
<1>1. loc[w] \in Local /\ pc \in [Procs -> Points] /\ loc \in [Procs -> Local]
    BY DEF Inv, TypeOK
<1>2. /\ pc[w] = "next" /\ pc' = [pc EXCEPT ![w] = "write"] /\ UNCHANGED <<row, tx, alone>>
    BY DEF Plan, Goto
<1>3. /\ loc'[w].act = a /\ loc'[w].kind = k /\ loc'[w].target = t /\ loc'[w].new = r
      /\ loc'[w].own = loc[w].own
    BY <1>1 DEF Plan, Goto, Local
<1>4. View(w)' = View(w)
    BY <1>2 DEF View
<1>5. pc'[w] = "write" /\ pc' = [pc EXCEPT ![w] = pc'[w]]
    BY <1>1, <1>2
<1>6. ASSUME alone PROVE Carried(row, View(w), loc'[w], "write")
    <2>1. Carried(row, View(w), loc[w], "next")
        BY <1>2, <1>6 DEF CarriedInv
    <2>2. a = "delete" /\ k = "center" =>
              \A g \in LiveIn(View(w)) \cap Of("group") : View(w)[g].center # t
        BY DEF UsersOf
    <2> QED  BY <1>3, <2>1, <2>2 DEF Carried, Renaming
<1> QED  BY <1>2, <1>4, <1>5, <1>6, InsideCarried

LEMMA OperationCarried ==
    ASSUME Inv, AloneInv, CarriedInv, NEW w \in Procs, Operation(w) PROVE CarriedInv'
<1>1. CASE PlanCreate(w)
    <2>1. PICK k \in Kinds : \E r \in Proposed(w, k) : Plan(w, "insert", k, None, r)
        BY <1>1 DEF PlanCreate
    <2> QED  BY <2>1, PlanCarried
<1>2. CASE PlanUpdate(w)
    <2>1. PICK k \in Kinds : \E t \in Targets(k), r \in Proposed(w, k) :
              Plan(w, "update", k, t, r)
        BY <1>2 DEF PlanUpdate
    <2> QED  BY <2>1, PlanCarried
<1>3. CASE PlanDelete(w)
    <2>1. PICK k \in Kinds : \E t \in Targets(k) :
              UsersOf(w, k, t) = {} /\ Plan(w, "delete", k, t, None)
        BY <1>3 DEF PlanDelete
    <2> QED  BY <2>1, PlanCarried
<1> QED  BY <1>1, <1>2, <1>3 DEF Operation

\* What the end of a statement leaves in the local variables.
LEMMA DoneLeaves ==
    ASSUME Inv, NEW w \in Procs, NEW h, Done(w, h)
    PROVE  /\ pc'[w] = "next" /\ pc' = [pc EXCEPT ![w] = pc'[w]]
           /\ loc'[w].own = loc[w].own \cup h
<1>1. pc \in [Procs -> Points] /\ loc \in [Procs -> Local] /\ loc[w] \in Local
    BY DEF Inv, TypeOK
<1> QED  BY <1>1 DEF Done, Goto, Local

LEMMA InsertCarried ==
    ASSUME Inv, AloneInv, CarriedInv, NEW w \in Procs, Insert(w) PROVE CarriedInv'
<1> DEFINE l == loc[w]
           v == View(w)
<1>1. PICK e \in NewIds(w, l.kind, l.new.name) : tx' = [tx EXCEPT ![w][e] = l.new] /\ Done(w, {e})
    BY DEF Insert
<1>2. pc[w] = "write" /\ l.act = "insert" /\ row' = row /\ alone' = alone
    BY DEF Insert
<1>3. l.new # None /\ tx \in [Procs -> Tables] /\ v \in Tables
    BY <1>2, ViewTyped, RowsAreNotNull DEF Inv, PlansOK, Planned, TypeOK
<1>4. /\ pc'[w] = "next" /\ pc' = [pc EXCEPT ![w] = pc'[w]] /\ loc'[w].own = l.own \cup {e}
    BY <1>1, DoneLeaves
<1>5. ASSUME alone PROVE Carried(row, View(w)', loc'[w], "next")
    <2>1. Safe(v, l) /\ Carried(row, v, l, "write")
        BY <1>2, <1>5 DEF AloneInv, OneAtATime, CarriedInv
    <2>2. e \notin LiveIn(v)
        BY <1>2, <2>1 DEF NewIds, Safe, LiveIn
    <2> DEFINE u == View(w)'
               m == loc'[w]
    <2>3. \A d \in Entities \ {e} : u[d] = v[d]
        BY <1>1, <1>2, <1>3 DEF View, Tables
    <2>4. m.own = l.own \cup {e} /\ l.act = "insert"
        BY <1>2, <1>4
    <2> HIDE DEF u, v, l, m
    <2>5. \A n : Named(v, "center", n) \subseteq Named(u, "center", n)
        BY <2>2, <2>3 DEF Named, LiveIn
    <2>6. ASSUME NEW g \in (LiveIn(u) \cap Of("group")) \ m.own
          PROVE  /\ g \in LiveIn(v) /\ g \notin l.own
                 /\ Resolves(v, g) => Resolves(u, g)
                 /\ ~Renaming(l, "write")
        <3>1. g \in LiveIn(v) /\ u[g] = v[g] /\ g \notin l.own
            BY <2>3, <2>4, <2>6 DEF LiveIn
        <3>2. Resolves(v, g) => Resolves(u, g)
            BY <2>5, <3>1 DEF Resolves
        <3> QED  BY <2>4, <3>1, <3>2 DEF Renaming
    <2>7. Carried(row, u, m, "next")
        BY <2>1, <2>6, CarriedAfter
    <2> QED  BY <2>7 DEF u, m
<1> QED  BY <1>2, <1>4, <1>5, InsideCarried

\* u is v after a statement that has set every row it matches.
Follows(u, v, l) ==
    \A e \in Entities : u[e] = IF e \in Matched(v, l) THEN Changed(v[e], l) ELSE v[e]

\* Its live rows were live before, and a deleted one is not among them.
LEMMA FollowsLive ==
    ASSUME NEW v \in Tables, NEW l, Planned(l), l.act # "insert", NEW u, Follows(u, v, l),
           NEW e \in LiveIn(u)
    PROVE  e \in LiveIn(v) /\ (l.act = "delete" => e \notin Matched(v, l))
<1>1. e \in Entities /\ u[e] # None /\ u[e].live
    BY DEF LiveIn
<1>2. e \notin Matched(v, l) => e \in LiveIn(v)
    BY <1>1 DEF Follows, LiveIn
<1>3. ASSUME e \in Matched(v, l), l.act = "delete" PROVE FALSE
    <2>1. e \in LiveIn(v) /\ u[e] = [v[e] EXCEPT !.live = FALSE]
        BY <1>1, <1>3, MatchedRows DEF Follows, Changed
    <2>2. v[e] \in RowsOf(KindOf[e])
        BY <2>1 DEF LiveIn, Tables
    <2> QED  BY <1>1, <2>1, <2>2 DEF RowsOf
<1> QED  BY <1>2, <1>3, MatchedRows

\* Only the statement that is about a support center of that name can take the name away.
LEMMA CentersByName ==
    ASSUME NEW v \in Tables, NEW l, Planned(l), l.act # "insert", NEW u, Follows(u, v, l),
           NEW n, Named(v, "center", n) # {}
    PROVE  \/ Named(u, "center", n) # {}
           \/ l.act # "repoint" /\ l.kind = "center" /\ n = l.target
<1>1. PICK c \in Entities : c \in LiveIn(v) /\ KindOf[c] = "center" /\ v[c].name = n
    BY DEF Named, Of, LiveIn
<1>2. CASE c \notin Matched(v, l)
    <2>1. u[c] = v[c]
        BY <1>2 DEF Follows
    <2>2. c \in Named(u, "center", n)
        BY <1>1, <2>1 DEF Named, Of, LiveIn
    <2> QED  BY <2>2
<1>3. CASE c \in Matched(v, l)
    <2>1. l.act # "repoint" /\ l.kind = "center"
        BY <1>1, <1>3, MatchedRows
    <2>2. c \in Named(v, "center", l.target)
        BY <1>3, <2>1 DEF Matched
    <2> QED  BY <1>1, <2>1, <2>2 DEF Named
<1> QED  BY <1>2, <1>3

\* A support center that is renamed has its new name.
LEMMA RenamedIsThere ==
    ASSUME NEW v \in Tables, NEW l, Planned(l), l.act = "update", l.kind = "center", Safe(v, l),
           NEW u, Follows(u, v, l), Matched(v, l) # {}
    PROVE  Named(u, "center", l.new.name) # {}
<1>1. PICK c : c \in Matched(v, l)
    OBVIOUS
<1>2. c \in LiveIn(v) /\ KindOf[c] = "center" /\ c \in Entities
    BY <1>1, MatchedRows DEF LiveIn
<1>3. u[c] = l.new
    BY <1>1, <1>2 DEF Follows, Changed
<1>4. l.new.live /\ l.new # None
    BY RowsAreNotNull DEF Safe, Planned
<1>5. c \in Named(u, "center", l.new.name)
    BY <1>2, <1>3, <1>4 DEF Named, Of, LiveIn
<1> QED  BY <1>5

\* An update or delete that is not the rename of a center carries on.
LEMMA ChangeCarries ==
    ASSUME NEW v \in Tables, NEW l \in Local, Planned(l), l.act # "insert", Safe(v, l), NEW r,
           Carried(r, v, l, "write"), NEW u, Follows(u, v, l),
           l.act = "update" /\ l.kind = "center" => l.new.name = l.target, NEW m,
           m.own = l.own \cup (IF l.act = "update" THEN Matched(v, l) ELSE {})
    PROVE  Carried(r, u, m, "next")
<1>1. SUFFICES ASSUME NEW g \in (LiveIn(u) \cap Of("group")) \ m.own
               PROVE  /\ g \in LiveIn(v) /\ g \notin l.own
                      /\ Resolves(v, g) => Resolves(u, g)
                      /\ Renaming(l, "write") /\ v[g].center = l.target => Resolves(u, g)
    BY CarriedAfter
<1>2. g \in LiveIn(v) /\ g \notin l.own /\ (l.act = "delete" => g \notin Matched(v, l))
    BY FollowsLive
<1>3. g \in Entities /\ KindOf[g] = "group"
    BY DEF Of
<1>4. CASE g \notin Matched(v, l)
    <2>1. u[g] = v[g]
        BY <1>3, <1>4 DEF Follows
    <2>2. ~(Renaming(l, "write") /\ v[g].center = l.target)
        BY <1>2, <1>4 DEF Renaming, Matched
    <2>3. ASSUME Named(v, "center", v[g].center) # {} PROVE Named(u, "center", v[g].center) # {}
        <3>1. CASE l.act = "update" /\ l.kind = "center" /\ v[g].center = l.target
            <4>1. Matched(v, l) = Named(v, "center", l.target)
                BY <3>1 DEF Matched
            <4> QED  BY <2>3, <3>1, <4>1, RenamedIsThere
        <3>2. CASE l.act = "delete" /\ l.kind = "center" /\ v[g].center = l.target
            BY <1>2, <1>3, <3>2 DEF Carried
        <3>3. CASE ~(l.act # "repoint" /\ l.kind = "center" /\ v[g].center = l.target)
            BY <2>3, <3>3, CentersByName
        <3> QED  BY <3>1, <3>2, <3>3 DEF Planned, Acts
    <2> QED  BY <1>2, <2>1, <2>2, <2>3 DEF Resolves
<1>5. CASE g \in Matched(v, l)
    <2>1. l.act = "repoint"
        BY <1>2, <1>5 DEF Planned, Acts
    <2>2. u[g].center = l.new.name
        <3>1. v[g] \in RowsOf("group")
            BY <1>2, <1>3 DEF Tables, LiveIn
        <3>2. u[g] = [v[g] EXCEPT !.center = l.new.name]
            BY <1>3, <1>5, <2>1 DEF Follows, Changed
        <3> QED  BY <3>1, <3>2 DEF RowsOf
    <2>3. Named(v, "center", l.new.name) # {}
        BY <2>1 DEF Carried, Renaming
    <2>4. Named(u, "center", l.new.name) # {}
        BY <2>1, <2>3, CentersByName
    <2> QED  BY <1>2, <2>2, <2>4 DEF Resolves
<1> QED  BY <1>4, <1>5

\* The rename of a center that exists leaves its groups to the next statement.
LEMMA RenameCarries ==
    ASSUME NEW v \in Tables, NEW l \in Local, Planned(l), l.act = "update", l.kind = "center",
           Safe(v, l), NEW r, Carried(r, v, l, "write"), NEW u, Follows(u, v, l),
           Matched(v, l) # {}, NEW m, m.act = "repoint", m.target = l.target, m.new = l.new,
           m.own = l.own \cup Matched(v, l)
    PROVE  Carried(r, u, m, "write")
<1>1. Renaming(m, "write") /\ ~Renaming(l, "write")
    BY DEF Renaming
<1>2. Named(u, "center", m.new.name) # {}
    BY RenamedIsThere
<1>3. ASSUME NEW g \in (LiveIn(r) \cap LiveIn(u) \cap Of("group")) \ m.own, Resolves(r, g)
      PROVE  Resolves(u, g) \/ u[g].center = m.target
    <2>1. g \in LiveIn(v)
        BY <1>3, FollowsLive
    <2>2. Resolves(v, g)
        BY <1>1, <1>3, <2>1 DEF Carried
    <2>3. u[g] = v[g]
        BY <1>3 DEF Follows, Of
    <2>4. Named(v, "center", v[g].center) # {} /\ v[g].center # m.target =>
              Named(u, "center", v[g].center) # {}
        BY CentersByName
    <2> QED  BY <2>2, <2>3, <2>4 DEF Resolves
<1> QED  BY <1>1, <1>2, <1>3 DEF Carried

LEMMA WriteCarried ==
    ASSUME Inv, AloneInv, CarriedInv, NEW w \in Procs, Write(w) PROVE CarriedInv'
<1> DEFINE l == loc[w]
           v == View(w)
           h == Matched(v, l)
           u == View(w)'
           m == loc'[w]
<1>1. pc[w] = "write" /\ l.act # "insert" /\ row' = row /\ alone' = alone
    BY DEF Write
<1>2. /\ tx \in [Procs -> Tables] /\ pc \in [Procs -> Points] /\ loc \in [Procs -> Local]
      /\ l \in Local /\ v \in Tables /\ Planned(l)
    BY <1>1, ViewTyped DEF Inv, TypeOK, PlansOK
<1>3. pc' = [pc EXCEPT ![w] = pc'[w]]
    <2>1. \E p : pc' = [pc EXCEPT ![w] = p]
        BY <1>1 DEF Write, Perform, Done, Goto
    <2> QED  BY <1>2, <2>1
<1>4. ASSUME alone PROVE Carried(row, u, m, pc'[w])
    <2>1. Safe(v, l) /\ Carried(row, v, l, "write")
        BY <1>1, <1>4 DEF AloneInv, OneAtATime, CarriedInv
    <2>2. h \cap LockedFor(w) = {}
        BY <1>1, <1>4, NobodyWaits
    <2>3. Perform(w, h)
        BY <2>2 DEF Write
    <2>4. Follows(u, v, l)
        <3>1. SUFFICES ASSUME NEW d \in Entities
                       PROVE  u[d] = IF d \in h THEN Changed(v[d], l) ELSE v[d]
            BY DEF Follows
        <3>2. tx'[w][d] = IF d \in h THEN Changed(v[d], l) ELSE tx[w][d]
            BY <1>2, <2>3 DEF Perform
        <3>3. d \in h => Changed(v[d], l) # None
            <4>1. KindOf[d] \in Kinds
                BY ConstantsOK
            <4> HIDE DEF v, l
            <4>2. l.act # "insert"
                BY <1>1
            <4> QED  BY <1>2, <4>1, <4>2, ChangedTyped, RowsAreNotNull DEF h
        <3> QED  BY <1>1, <3>2, <3>3 DEF View
    <2>5. CASE l.act = "update" /\ l.kind = "center" /\ l.new.name # l.target
        <3>1. Goto(w, "write", [l EXCEPT !.act = "repoint", !.hit = {}, !.own = @ \cup h])
              /\ h # {}
            BY <2>3, <2>5 DEF Perform
        <3>2. /\ pc'[w] = "write" /\ m.act = "repoint" /\ m.target = l.target /\ m.new = l.new
              /\ m.own = l.own \cup h
            BY <1>2, <3>1 DEF Goto, Local
        <3> HIDE DEF u, v, l, m
        <3>3. Carried(row, u, m, "write")
            BY <1>2, <2>1, <2>4, <2>5, <3>1, <3>2, RenameCarries DEF h
        <3> QED  BY <3>2, <3>3
    <2>6. CASE ~(l.act = "update" /\ l.kind = "center" /\ l.new.name # l.target)
        <3>1. Done(w, IF l.act = "update" THEN h ELSE {})
            BY <2>3, <2>6 DEF Perform
        <3>2. pc'[w] = "next" /\ m.own = l.own \cup (IF l.act = "update" THEN h ELSE {})
            BY <3>1, DoneLeaves
        <3> HIDE DEF u, v, l, m
        <3>3. l.act # "insert"
            BY <1>1
        <3>4. Carried(row, u, m, "next")
            BY <1>2, <2>1, <2>4, <2>6, <3>2, <3>3, ChangeCarries DEF h
        <3> QED  BY <3>2, <3>4
    <2> QED  BY <2>5, <2>6
<1> QED  BY <1>1, <1>3, <1>4, InsideCarried

\* A wait means that approvals have overlapped.
LEMMA WaitCarried ==
    ASSUME Inv, AloneInv, CarriedInv, NEW w \in Procs, WriteAfterWait(w) PROVE CarriedInv'
<1>1. pc[w] = "wait" /\ alone' = alone
    BY DEF WriteAfterWait
<1> QED  BY <1>1 DEF AloneInv, OneAtATime, CarriedInv

\* When the only open approval ends, none is open.
LEMMA EndCarried ==
    ASSUME Inv, AloneInv, NEW w \in Procs, pc[w] # "idle", alone' = alone,
           Goto(w, "idle", NoLocal)
    PROVE  CarriedInv'
<1>1. pc' = [pc EXCEPT ![w] = "idle"] /\ pc \in [Procs -> Points]
    BY DEF Goto, Inv, TypeOK
<1>2. alone => \A v \in Procs : pc'[v] = "idle"
    BY <1>1 DEF AloneInv, OneAtATime
<1> QED  BY <1>2 DEF CarriedInv

LEMMA NextCarried == Inv /\ AloneInv /\ CarriedInv /\ [Next]_vars => CarriedInv'
<1> SUFFICES ASSUME Inv, AloneInv, CarriedInv, [Next]_vars PROVE CarriedInv'
    OBVIOUS
<1>1. CASE UNCHANGED vars
    <2>1. SUFFICES ASSUME alone, NEW w \in Procs, pc[w] # "idle"
                   PROVE  Carried(row, View(w), loc[w], pc[w])'
        BY <1>1 DEF CarriedInv, vars
    <2>2. Carried(row, View(w), loc[w], pc[w])
        BY <2>1 DEF CarriedInv
    <2>3. Carried(row', View(w)', loc'[w], pc'[w])
        <3>1. View(w)' = View(w)
            BY <1>1 DEF vars, View
        <3> QED  BY <1>1, <2>2, <3>1 DEF vars
    <2> QED  BY <2>3 DEF Carried, Renaming, Resolves, Named, LiveIn
<1>2. CASE Next
    <2>1. PICK w \in Procs : Begin(w) \/ Operation(w) \/ Statement(w) \/ Commit(w) \/ Abort(w)
        BY <1>2 DEF Next
    <2>2. CASE Statement(w)
        BY <2>2, InsertCarried, WriteCarried, WaitCarried DEF Statement
    <2>3. CASE Commit(w)
        BY <2>3, EndCarried DEF Commit
    <2>4. CASE Abort(w)
        BY <2>4, EndCarried DEF Abort
    <2> QED  BY <2>1, <2>2, <2>3, <2>4, BeginCarried, OperationCarried
<1> QED  BY <1>1, <1>2

THEOREM CarriedInvariance == Spec => []CarriedInv
    BY InitCarried, NextCarried, Invariance, AloneInvariance, PTL DEF Spec

\* As long as no two approvals overlap, no bundle leaves a group without the support center it
\* had: the guard of the center's delete and RepointResourceGroupSupportCenter are enough.
THEOREM CentersStay == Spec => CentersKept
<1>1. Inv /\ AloneInv /\ CarriedInv /\ [Next]_vars =>
         [\A w \in Procs : pc[w] # "idle" /\ pc'[w] = "idle" /\ alone =>
             \A g \in (LiveIn(row) \cap LiveIn(row') \cap Of("group")) \ loc[w].own :
                 Resolves(row, g) => Resolves(row', g)]_vars
    <2> SUFFICES ASSUME Inv, AloneInv, CarriedInv, Next, NEW w \in Procs, pc[w] # "idle",
                        pc'[w] = "idle", alone,
                        NEW g \in (LiveIn(row) \cap LiveIn(row') \cap Of("group")) \ loc[w].own,
                        Resolves(row, g)
                 PROVE  Resolves(row', g)
        OBVIOUS
    <2>1. pc \in [Procs -> Points]
        BY DEF Inv, TypeOK
    <2>2. PICK v \in Procs : Begin(v) \/ Operation(v) \/ Statement(v) \/ Commit(v) \/ Abort(v)
        BY DEF Next
    <2>3. CASE Begin(v) \/ Abort(v)
        BY <2>3 DEF Begin, Abort
    <2>4. CASE Operation(v) \/ Statement(v)
        BY <2>4 DEF Operation, PlanCreate, PlanUpdate, PlanDelete, Plan, Statement, Insert,
                    Write, WriteAfterWait
    <2>5. CASE Commit(v)
        <3>1. v = w
            BY <2>1, <2>5 DEF Commit, Goto
        <3>2. row' = View(w) /\ pc[w] = "next"
            BY <2>5, <3>1 DEF Commit
        <3>3. Carried(row, View(w), loc[w], "next")
            BY <3>2 DEF CarriedInv
        <3>4. g \in (LiveIn(row) \cap LiveIn(View(w)) \cap Of("group")) \ loc[w].own
            BY <3>2
        <3>5. Resolves(View(w), g)
            BY <3>3, <3>4 DEF Carried, Renaming
        <3> QED  BY <3>2, <3>5
    <2> QED  BY <2>2, <2>3, <2>4, <2>5
<1> QED  BY <1>1, Invariance, AloneInvariance, CarriedInvariance, PTL DEF Spec, CentersKept
==============================================================================
