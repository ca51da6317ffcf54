------------------------------ MODULE Hierarchy ------------------------------
(***************************************************************************)
(* What an approved change request does to the tree of facilities, sites,  *)
(* resource groups and resources and to the support centers that groups    *)
(* name: the apply functions of internal/handlers/proposals.go and         *)
(* support_centers.go, with their look-ups, delete guards and renames.     *)
(*                                                                         *)
(* A process is one approval in flight. It applies the operations of a     *)
(* bundle (a plain proposal is a bundle of one) in a READ COMMITTED        *)
(* transaction: a statement sees what is committed when it begins and what *)
(* the transaction wrote, and a row that one transaction has written keeps *)
(* the others waiting.                                                     *)
(***************************************************************************)
EXTENDS Naturals, FiniteSets

CONSTANTS
    Procs,
    Entities,       \* row ids of every kind
    KindOf,         \* the kind of each
    Names,
    CenterId,       \* GenID: the id a support center of that name is created with
    InitialRow,     \* the rows that exist at the start
    None,           \* no such row, SQL NULL
    NamesOf,        \* bound: the names change requests give to each kind
    MaxOps,         \* bound: the operations of a bundle
    MaxRequests     \* bound: no approval starts beyond it

-----------------------------------------------------------------------------
(* Rows *)

Kinds == {"facility", "site", "group", "resource", "center"}
Of(k) == {e \in Entities : KindOf[e] = k}

\* The kind of the rows that a kind's rows hang on.
Above == [k \in Kinds |-> CASE k = "site" -> "facility" [] k = "group" -> "site"
                            [] k = "resource" -> "group" [] OTHER -> None]

\* What the foreign key of a kind's table admits.
HangsOn(k) == IF Above[k] = None THEN {None} ELSE Of(Above[k])

\* A row: its name, the id it hangs on, the name of its support center, deleted_at IS NULL.
RowsOf(k) == [name : Names, up : HangsOn(k), center : Names \cup {None}, live : BOOLEAN]
Row       == UNION {RowsOf(k) : k \in Kinds}
Tables    == {t \in [Entities -> Row \cup {None}] :
                 \A e \in Entities : t[e] # None => t[e] \in RowsOf(KindOf[e])}

ASSUME ConstantsOK ==
    /\ KindOf \in [Entities -> Kinds]
    /\ CenterId \in [Names -> Of("center")]
    /\ InitialRow \in [Entities -> Row \cup {None}]
    /\ \A e \in Entities : InitialRow[e] # None => InitialRow[e] \in RowsOf(KindOf[e])
    /\ NamesOf \in [Kinds -> SUBSET Names]
    /\ MaxOps \in Nat /\ MaxRequests \in Nat

LiveIn(v) == {e \in Entities : v[e] # None /\ v[e].live}

\* No live row of v hangs on a deleted one.
Orphanless(v) == \A e \in LiveIn(v) : Above[KindOf[e]] # None => v[e].up \in LiveIn(v)

ASSUME StartsWhole == Orphanless(InitialRow)
ASSUME NullsOK == None \notin Entities \cup Names \cup Row \cup Kinds

VARIABLES
    row,      \* row[e]: what is committed
    tx,       \* tx[w][e]: what the open transaction of w has written, None if nothing
    pc, loc,  \* the next statement of each approval, and its local variables
    begun,    \* how many approvals have started
    alone     \* ghost: no two of them have overlapped so far

vars == <<row, tx, pc, loc, begun, alone>>

-----------------------------------------------------------------------------
(* The local variables of an approval *)

Points == {"idle", "next", "write", "wait"}
Acts   == {"insert", "update", "delete", "repoint"}

\* ops: operations begun; then the statement to send: what it does, the kind it is about, the
\* name or id it looks for, the row it writes; hit: the rows it waits for; own: ghost, the
\* rows that operations of this request have set.
Local == [ops : Nat, act : Acts \cup {None}, kind : Kinds \cup {None},
          target : Names \cup Entities \cup {None}, new : Row \cup {None},
          hit : SUBSET Entities, own : SUBSET Entities]

NoLocal == [ops |-> 0, act |-> None, kind |-> None, target |-> None, new |-> None,
            hit |-> {}, own |-> {}]

Nothing == [e \in Entities |-> None]

\* What a statement of w sees.
View(w) == [e \in Entities |-> IF tx[w][e] = None THEN row[e] ELSE tx[w][e]]

Named(v, k, n) == {e \in LiveIn(v) \cap Of(k) : v[e].name = n}

\* Rows and names that other open transactions keep w waiting for.
LockedFor(w)        == {e \in Entities : \E v \in Procs \ {w} : tx[v][e] # None}
NameBusy(w, k, n)   == \E e \in LockedFor(w) \cap Of(k) : \E v \in Procs \ {w} :
                          /\ tx[v][e] # None
                          /\ tx[v][e].name = n \/ (row[e] # None /\ row[e].name = n)

-----------------------------------------------------------------------------
(* Steps of an approval. A definition marked "slip" is a mistake this code could have  *)
(* made; PROJECT.json puts it in the place of the definition that follows it to show   *)
(* that the property it names would notice.                                            *)

Init ==
    /\ row = InitialRow
    /\ tx = [w \in Procs |-> Nothing]
    /\ pc = [w \in Procs |-> "idle"]
    /\ loc = [w \in Procs |-> NoLocal]
    /\ begun = 0
    /\ alone = TRUE

Goto(w, p, l) == pc' = [pc EXCEPT ![w] = p] /\ loc' = [loc EXCEPT ![w] = l]

\* ApproveProposal opens the transaction.
Begin(w) ==
    /\ pc[w] = "idle" /\ begun < MaxRequests
    /\ begun' = begun + 1
    /\ alone' = (alone /\ \A v \in Procs \ {w} : pc[v] = "idle")
    /\ Goto(w, "next", NoLocal)
    /\ UNCHANGED <<row, tx>>

(* --- what an operation reads before it writes ------------------------------ *)

\* The next operation of the bundle, up to its first write.
Plan(w, a, k, t, r) ==
    /\ pc[w] = "next" /\ loc[w].ops < MaxOps
    /\ Goto(w, "write", [loc[w] EXCEPT !.ops = @ + 1, !.act = a, !.kind = k, !.target = t,
                                       !.new = r])
    /\ UNCHANGED <<row, tx, begun, alone>>

\* slip: a parent that is not found is left NULL.
HangersOrNull(w, k, n) ==
    IF Above[k] = None \/ Named(View(w), Above[k], n) = {} THEN {None}
                                                           ELSE Named(View(w), Above[k], n)

\* FacilityIDByName, SiteIDByName, ResourceGroupIDByName: not found is an error.
Hangers(w, k, n) == IF Above[k] = None THEN {None} ELSE Named(View(w), Above[k], n)

\* The row a payload describes. Whether its support center exists is not looked at.
Proposed(w, k) ==
    {[name |-> n, up |-> p, center |-> c, live |-> TRUE] :
        n \in NamesOf[k], p \in UNION {Hangers(w, k, m) : m \in Names},
        c \in IF k = "group" THEN NamesOf["center"] \cup {None} ELSE {None}}

\* slip: only the id is looked up.
CenterRefusedById(w, n) ==
    \E e \in LiveIn(View(w)) : e = CenterId[n] /\ View(w)[e].name # n

\* A new support center: its id may be taken by a live one of another name (one that was
\* renamed), and its name by another live one.
CenterRefused(w, n) == CenterId[n] \in LiveIn(View(w)) \/ Named(View(w), "center", n) # {}

PlanCreate(w) ==
    \E k \in Kinds : \E r \in Proposed(w, k) :
        /\ k = "center" => ~CenterRefused(w, r.name)
        /\ Plan(w, "insert", k, None, r)

\* A resource is updated and deleted by its id, everything else by its name.
Targets(k) == IF k = "resource" THEN Of(k) ELSE NamesOf[k]

PlanUpdate(w) ==
    \E k \in Kinds : \E t \in Targets(k), r \in Proposed(w, k) : Plan(w, "update", k, t, r)

\* slip: the guard reads outside the transaction.
UsersOutside(w, k, t) ==
    IF k = "center" THEN {g \in LiveIn(row) \cap Of("group") : row[g].center = t}
    ELSE {e \in LiveIn(row) : /\ Above[KindOf[e]] = k
                              /\ row[row[e].up].name = t}

\* The live rows that hang on a row of that name (dead or alive) or name it.
UsersOf(w, k, t) ==
    LET v == View(w) IN
    IF k = "center" THEN {g \in LiveIn(v) \cap Of("group") : v[g].center = t}
    ELSE {e \in LiveIn(v) : Above[KindOf[e]] = k /\ v[v[e].up].name = t}

PlanDelete(w) ==
    \E k \in Kinds : \E t \in Targets(k) :
        /\ UsersOf(w, k, t) = {}
        /\ Plan(w, "delete", k, t, None)

(* --- writes ---------------------------------------------------------------- *)

\* The end of a statement that set the rows of h.
Done(w, h) ==
    Goto(w, "next", [loc[w] EXCEPT !.act = None, !.kind = None, !.target = None, !.new = None,
                                   !.hit = {}, !.own = @ \cup h])

\* The unique indexes: nobody else is about to give or free the name, and no live row has it.
NameFree(w, k, n, mine) == ~NameBusy(w, k, n) /\ Named(View(w), k, n) \subseteq mine

\* A new id that no transaction has used, or the id of the center's name, whose row is
\* overwritten whatever it is (ON CONFLICT (id) DO UPDATE).
NewIds(w, k, n) ==
    IF k = "center" THEN {CenterId[n]} \ LockedFor(w)
    ELSE {e \in Of(k) \ LockedFor(w) : View(w)[e] = None}

Insert(w) ==
    LET l == loc[w] IN
    /\ pc[w] = "write" /\ l.act = "insert"
    /\ \E e \in NewIds(w, l.kind, l.new.name) :
          /\ NameFree(w, l.kind, l.new.name, {e})
          /\ tx' = [tx EXCEPT ![w][e] = l.new]
          /\ Done(w, {e})
    /\ UNCHANGED <<row, begun, alone>>

\* slip: no AND deleted_at IS NULL.
MatchedAny(v, l) ==
    IF l.act = "repoint" THEN {g \in LiveIn(v) \cap Of("group") : v[g].center = l.target}
    ELSE IF l.kind = "resource" THEN {e \in {l.target} : v[e] # None}
    ELSE {e \in Of(l.kind) : v[e] # None /\ v[e].name = l.target}

\* slip: the groups that have the new name already.
MatchedNew(v, l) ==
    IF l.act = "repoint" THEN {g \in LiveIn(v) \cap Of("group") : v[g].center = l.new.name}
    ELSE IF l.kind = "resource" THEN LiveIn(v) \cap {l.target}
    ELSE Named(v, l.kind, l.target)

\* The rows a WHERE clause matches.
Matched(v, l) ==
    IF l.act = "repoint" THEN {g \in LiveIn(v) \cap Of("group") : v[g].center = l.target}
    ELSE IF l.kind = "resource" THEN LiveIn(v) \cap {l.target}
    ELSE Named(v, l.kind, l.target)

\* What a statement makes of a row.
Changed(r, l) ==
    IF l.act = "update" THEN l.new
    ELSE IF l.act = "delete" THEN [r EXCEPT !.live = FALSE]
    ELSE [r EXCEPT !.center = l.new.name]

\* An update or delete of the rows of h, possibly none. Only a support center's update asks
\* for one; its rename goes on to the groups.
Perform(w, h) ==
    LET l == loc[w] IN
    /\ tx' = [tx EXCEPT ![w] = [e \in Entities |-> IF e \in h THEN Changed(View(w)[e], l)
                                                               ELSE tx[w][e]]]
    /\ l.act = "update" /\ h # {} => NameFree(w, l.kind, l.new.name, h)
    /\ l.act = "update" /\ l.kind = "center" => h # {}
    /\ IF l.act = "update" /\ l.kind = "center" /\ l.new.name # l.target
         THEN Goto(w, "write", [l EXCEPT !.act = "repoint", !.hit = {}, !.own = @ \cup h])
         ELSE Done(w, IF l.act = "update" THEN h ELSE {})

\* A statement that meets a row another transaction has written waits for that one to end,
\* and then looks at those rows again; it does not look for others.
Write(w) ==
    LET h == Matched(View(w), loc[w]) IN
    /\ pc[w] = "write" /\ loc[w].act # "insert"
    /\ IF h \cap LockedFor(w) = {}
         THEN Perform(w, h)
         ELSE Goto(w, "wait", [loc[w] EXCEPT !.hit = h]) /\ UNCHANGED tx
    /\ UNCHANGED <<row, begun, alone>>

WriteAfterWait(w) ==
    /\ pc[w] = "wait"
    /\ loc[w].hit \cap LockedFor(w) = {}
    /\ Perform(w, loc[w].hit \cap Matched(View(w), loc[w]))
    /\ UNCHANGED <<row, begun, alone>>

\* The bundle has no more operations; one without any is an error.
Commit(w) ==
    /\ pc[w] = "next" /\ loc[w].ops > 0
    /\ row' = View(w)
    /\ tx' = [tx EXCEPT ![w] = Nothing]
    /\ Goto(w, "idle", NoLocal)
    /\ UNCHANGED <<begun, alone>>

\* Any error: an unknown parent, a guard, a name taken, a deadlock, a lost connection.
Abort(w) ==
    /\ pc[w] # "idle"
    /\ tx' = [tx EXCEPT ![w] = Nothing]
    /\ Goto(w, "idle", NoLocal)
    /\ UNCHANGED <<row, begun, alone>>

Operation(w) == PlanCreate(w) \/ PlanUpdate(w) \/ PlanDelete(w)
Statement(w) == Insert(w) \/ Write(w) \/ WriteAfterWait(w)

Next == \E w \in Procs : Begin(w) \/ Operation(w) \/ Statement(w) \/ Commit(w) \/ Abort(w)
Spec == Init /\ [][Next]_vars

-----------------------------------------------------------------------------
(* Properties *)

\* Types: rows hang on rows of the kind above theirs, in the tables and in every transaction.
TypeOK ==
    /\ row \in Tables
    /\ tx \in [Procs -> Tables]
    /\ pc \in [Procs -> Points]
    /\ loc \in [Procs -> Local]
    /\ begun \in Nat
    /\ alone \in BOOLEAN

\* No live row hangs on a deleted one ("must not be deleted out from under them": the guards
\* of the delete branches).
NoOrphans == Orphanless(row)

\* So it is as long as approvals do not overlap, whatever bundles they apply.
NoOrphansAlone == alone => NoOrphans

\* A deleted facility, site, group or resource stays as it was, however approvals overlap
\* (deleted_at IS NULL in every update, re-evaluated after a wait).
DeadStayDead ==
    [][\A e \in Entities : KindOf[e] # "center" /\ row[e] # None /\ e \notin LiveIn(row) =>
          row'[e] = row[e]]_vars

\* Without overlap, a group whose support center exists keeps one that exists, unless a change
\* request sets it to something else: a center in use is not deleted, and a rename carries
\* its groups along (RepointResourceGroupSupportCenter).
Resolves(v, g) == v[g].center = None \/ Named(v, "center", v[g].center) # {}
CentersKept ==
    [][\A w \in Procs : pc[w] # "idle" /\ pc'[w] = "idle" /\ alone =>
          \A g \in (LiveIn(row) \cap LiveIn(row') \cap Of("group")) \ loc[w].own :
              Resolves(row, g) => Resolves(row', g)]_vars

\* Without overlap, creating an entity never changes a live one (InsertSupportCenter: "a live
\* one with the same name is an error").
CreateIsNew ==
    [][\A w \in Procs : pc[w] = "write" /\ loc[w].act = "insert" /\ alone =>
          \A e \in LiveIn(View(w)) : tx'[w][e] # None => tx'[w][e] = tx[w][e]]_vars
=============================================================================
