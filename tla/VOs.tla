--------------------------------- MODULE VOs ---------------------------------
(***************************************************************************)
(* Virtual organizations: the approvals that create, edit and delete them  *)
(* (internal/handlers/vos.go over internal/db/queries_vo_edit.go), beside  *)
(* the resources that allow a VO and the projects a VO sponsors.           *)
(*                                                                         *)
(* A process is the apply transaction of one approval, at READ COMMITTED:  *)
(* every statement sees what is committed at that moment. A VO's approval  *)
(* reads as often as its checks ask and writes once, at the end, so the    *)
(* write and the commit are one step here; the stale-base guard that       *)
(* precedes both is in module Proposals.                                   *)
(***************************************************************************)
EXTENDS Naturals, FiniteSets

CONSTANTS
    Procs,
    Names,         \* names of VOs
    Referrers,     \* resources and projects
    Imported,      \* the VOs at the start, each with its parent: not every parent is a VO
    MaxRequests,   \* bound: no approval starts beyond it
    None, NoParent

Ops    == {"create", "update", "delete"}
Points == {"idle", "read", "parent", "walk", "write", "resources", "children", "remove"}

\* Of a VO's document the model keeps the name in the ParentVO block, if there is one.
Parents == Names \cup {NoParent}

\* Some names lie on ways up that never leave them.
Cyclic(f) == \E S \in SUBSET Names :
    S # {} /\ \A n \in S : f[n] \in S

ASSUME ConstantsOK == /\ Imported \in [Names -> Parents \cup {None}] /\ ~Cyclic(Imported)
                      /\ MaxRequests \in Nat
ASSUME NullsOK == None \notin Parents /\ NoParent \notin Names

VARIABLES
    vo,          \* the parent of the live VO of each name, None where none is live
    refers,      \* the VOs each resource allows, and the VO that sponsors each project
    pc, loc,     \* the next statement of each approval and its local variables
    begun,       \* how many approvals have started
    calm         \* ghost: no approval has overlapped another so far

vars == <<vo, refers, pc, loc, begun, calm>>

-----------------------------------------------------------------------------
\* parent is the one proposed, up the parent of the VO the walk has come to, seen the names it
\* has passed.
Local == [op : Ops, name : Names \cup {None}, parent : Parents, up : Parents, seen : SUBSET Names]

NoLocal == [op |-> "delete", name |-> None, parent |-> NoParent, up |-> NoParent, seen |-> {}]

Live           == {n \in Names : vo[n] # None}
ReferrersOf(n) == {r \in Referrers : n \in refers[r]}

Init ==
    /\ vo = Imported
    /\ refers = [r \in Referrers |-> {}]
    /\ pc = [p \in Procs |-> "idle"]
    /\ loc = [p \in Procs |-> NoLocal]
    /\ begun = 0 /\ calm = TRUE

At(p, point)      == pc[p] = point
Goto(p, point, l) == pc' = [pc EXCEPT ![p] = point] /\ loc' = [loc EXCEPT ![p] = l]
Finish(p)         == Goto(p, "idle", NoLocal)
Alone             == \A q \in Procs : pc[q] = "idle"

Begin(p, point, l) ==
    /\ At(p, "idle") /\ begun < MaxRequests
    /\ begun' = begun + 1 /\ calm' = (calm /\ Alone)
    /\ Goto(p, point, l)
    /\ UNCHANGED <<vo, refers>>

-----------------------------------------------------------------------------
(* Create and update. A definition marked "slip" is a mistake this code could have made;      *)
(* PROJECT.json puts it in the place of the definition that follows it to show that the       *)
(* property it names would notice.                                                            *)

\* A document without a parent needs no look at the others. One that is its own parent is
\* refused at once.
Create(p) ==
    \E n \in Names : \E parent \in Parents \ {n} :
        Begin(p, IF parent = NoParent THEN "write" ELSE "parent",
              [NoLocal EXCEPT !.op = "create", !.name = n, !.parent = parent])

Update(p) ==
    \E n \in Names, parent \in Parents :
        Begin(p, "read", [NoLocal EXCEPT !.op = "update", !.name = n, !.parent = parent])

\* GetVO of the target. A parent the edit leaves as it was is not looked up: it may be no VO.
ReadCurrent(p) ==
    LET l == loc[p] IN
    /\ At(p, "read")
    /\ IF vo[l.name] = None \/ (l.parent = l.name /\ vo[l.name] # l.name) THEN Finish(p)
       ELSE Goto(p, IF l.parent \in {NoParent, vo[l.name]} THEN "write" ELSE "parent", l)
    /\ UNCHANGED <<vo, refers, begun, calm>>

ReadParent(p) ==
    LET l == loc[p]
        above == vo[l.parent]
    IN  /\ At(p, "parent")
        /\ IF above = None THEN Finish(p)
           ELSE Goto(p, "walk", [l EXCEPT !.up = above, !.seen = {l.name, l.parent}])
        /\ UNCHANGED <<vo, refers, begun, calm>>

\* slip: the walk only looks out for the VO that is edited.
SeenOnlyIt(l) == {l.name}

\* slip: the walk only looks out for the VOs above.
SeenAbove(l) == l.seen \ {l.name}

Seen(l) == l.seen

\* One turn of the walk. It ends well at the top and at a parent that is no VO, and with an
\* error at a VO it has passed.
Walk(p) ==
    LET l == loc[p] IN
    /\ At(p, "walk")
    /\ IF l.up # NoParent /\ l.up \in Seen(l) THEN Finish(p)
       ELSE IF l.up = NoParent \/ vo[l.up] = None THEN Goto(p, "write", l)
       ELSE Goto(p, "walk", [l EXCEPT !.seen = @ \cup {l.up}, !.up = vo[l.up]])
    /\ UNCHANGED <<vo, refers, begun, calm>>

\* InsertVO refuses a name that is live, UpdateVOFields one that is not.
Write(p) ==
    LET l == loc[p] IN
    /\ At(p, "write")
    /\ vo' = IF l.name \in Live <=> l.op = "update" THEN [vo EXCEPT ![l.name] = l.parent] ELSE vo
    /\ Finish(p)
    /\ UNCHANGED <<refers, begun, calm>>

-----------------------------------------------------------------------------
(* Delete *)

Delete(p) == \E n \in Names : Begin(p, "resources", [NoLocal EXCEPT !.name = n])

\* ResourceNamesAllowingVO and ProjectNamesSponsoredByVO. A problem is an error in the end,
\* whatever else is found.
CountReferrers(p) ==
    /\ At(p, "resources")
    /\ IF ReferrersOf(loc[p].name) = {} THEN Goto(p, "children", loc[p]) ELSE Finish(p)
    /\ UNCHANGED <<vo, refers, begun, calm>>

\* slip: only a VO that is at the top itself is looked up among the parents.
ChildrenOfTop(n) == IF vo[n] = NoParent THEN {m \in Live : vo[m] = n} ELSE {}

ChildrenOf(n) == {m \in Live : vo[m] = n}

CountChildren(p) ==
    /\ At(p, "children")
    /\ IF ChildrenOf(loc[p].name) = {} THEN Goto(p, "remove", loc[p]) ELSE Finish(p)
    /\ UNCHANGED <<vo, refers, begun, calm>>

\* SoftDeleteVOByName; nothing happens if no such VO is live.
Remove(p) ==
    /\ At(p, "remove")
    /\ vo' = [vo EXCEPT ![loc[p].name] = None]
    /\ Finish(p)
    /\ UNCHANGED <<refers, begun, calm>>

\* An approval of a resource or a project, in one statement. Nobody asks whether the VOs exist.
Refer(r) ==
    /\ \E vs \in SUBSET Names : refers' = [refers EXCEPT ![r] = vs]
    /\ calm' = (calm /\ Alone)
    /\ UNCHANGED <<vo, pc, loc, begun>>

\* Any error (a contact nobody knows, a failed statement) and a crash: the transaction rolls back.
Stop(p) ==
    /\ ~At(p, "idle") /\ Finish(p)
    /\ UNCHANGED <<vo, refers, begun, calm>>

-----------------------------------------------------------------------------

Arrive(p)  == Create(p) \/ Update(p) \/ Delete(p)
Proceed(p) == ReadCurrent(p) \/ ReadParent(p) \/ Walk(p) \/ Write(p)
              \/ CountReferrers(p) \/ CountChildren(p) \/ Remove(p)

Next == \/ \E p \in Procs : Arrive(p) \/ Proceed(p) \/ Stop(p)
        \/ \E r \in Referrers : Refer(r)

\* Whoever sent a request waits for it: the handler's goroutine runs on, and Postgres answers.
Fairness == \A p \in Procs : WF_vars(Proceed(p))
Spec == Init /\ [][Next]_vars /\ Fairness

-----------------------------------------------------------------------------
(* Properties *)

\* Types.
TypeOK ==
    /\ vo \in [Names -> Parents \cup {None}]
    /\ refers \in [Referrers -> SUBSET Names]
    /\ pc \in [Procs -> Points]
    /\ loc \in [Procs -> Local]
    /\ begun \in Nat /\ calm \in BOOLEAN

\* Going up from parent to parent always ends ("must name a real, different VO and not create a
\* cycle": checkVODoc).
Acyclic == ~Cyclic(vo)

\* So it is as long as no approval overlaps another, also with parents that are no VO and are
\* created later, below what is below them.
AcyclicAlone == calm => Acyclic

\* As long as no approval overlaps another, a VO is only deleted when no resource, project or
\* other VO refers to it (deleteVO: "Each of those would be left pointing at a VO that no longer
\* exists").
DeletedUnused ==
    [][\A n \in Names : calm' /\ vo[n] # None /\ vo'[n] = None =>
           ReferrersOf(n) = {} /\ \A m \in Names : vo'[m] # n]_vars

\* The walk ends, also over a cycle that overlapping approvals have made and while others go on
\* changing the parents (checkVODoc keeps the names it has seen).
WalkEnds == \A p \in Procs : At(p, "walk") ~> ~At(p, "walk")
=============================================================================
