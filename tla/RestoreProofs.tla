---------------------------- MODULE RestoreProofs ----------------------------
(***************************************************************************)
(* For any number of requests, names, ids and repositories: an import that *)
(* overlaps nothing leaves what its repository says, also when it follows  *)
(* one that was cut short, and a backup brings back the ids; no id drawn   *)
(* after it is one that a file has given or that was drawn before.         *)
(***************************************************************************)
EXTENDS Restore, WellFoundedInduction, TLAPS

-----------------------------------------------------------------------------
(* The greatest of some numbers *)

Below == {ss \in Nat \X Nat : ss[1] < ss[2]}

LEMMA BelowWellFounded == IsWellFoundedOn(Below, Nat)
<1>1. OpToRel(<, Nat) = Below
    BY DEF OpToRel, Below
<1> QED  BY <1>1, NatLessThanWellFounded

LEMMA Least ==
    ASSUME NEW T, T \subseteq Nat, T # {}
    PROVE  \E x \in T : \A y \in T : x <= y
<1>1. PICK x \in T : \A y \in T : <<y, x>> \notin Below
    BY BelowWellFounded, WFMin
<1>2. ASSUME NEW y \in T PROVE x <= y
    <2>1. x \in Nat /\ y \in Nat
        OBVIOUS
    <2>2. ~(y < x)
        BY <1>1, <2>1 DEF Below
    <2> QED  BY <2>1, <2>2
<1> QED  BY <1>2

LEMMA Greatest ==
    ASSUME NEW T, NEW n \in Nat, T \subseteq 0..n, T # {}
    PROVE  Max(T) \in T /\ \A y \in T : Max(T) >= y
<1>1. PICK B : B = {k \in Nat : \A x \in T : x <= k}
    OBVIOUS
<1>2. n \in B /\ B \subseteq Nat
    BY <1>1
<1>3. PICK b \in B : \A k \in B : b <= k
    BY <1>2, Least
<1>4. b \in T
    <2> SUFFICES ASSUME b \notin T PROVE FALSE
        OBVIOUS
    <2>1. b \in Nat
        BY <1>1
    <2>2. \A x \in T : x \in Nat /\ x <= b - 1
        BY <1>1, <1>3, <2>1
    <2>3. b - 1 \in Nat
        <3>1. PICK x \in T : TRUE
            OBVIOUS
        <3> QED  BY <2>1, <2>2, <3>1
    <2> QED  BY <1>1, <1>3, <2>2, <2>3
<1>5. \E x \in T : \A y \in T : x >= y
    BY <1>1, <1>3, <1>4
<1> QED  BY <1>5 DEF Max

-----------------------------------------------------------------------------
(* The inductive invariant *)

Importing == {"truncate", "group", "resources", "docs"}
Approving == {"draw", "insert", "update"}

\* What the locals of a request hold at each statement.
RequestKnows(point, l) ==
    /\ point \in {"idle"} \cup Importing \cup Approving
    /\ point = "idle" => l = NoLocal
    /\ point \in Importing => l.import /\ l.repo \in Repo
    /\ point = "resources" => l.group # 0 /\ l.todo \subseteq Contents(l.repo)
    /\ point \in Approving => ~l.import /\ l.group # 0 /\ l.name \in Names
    /\ point = "draw" => ~l.drawn
    /\ point \in {"insert", "update"} => l.id \in Ids

\* What an approval assigned is an ID.
GivenExplicit == given \subseteq Explicit(rows)

\* UNIQUE (name) where the row is not deleted.
NamesOnce == \A i, j \in Live(rows) : rows[i].name = rows[j].name => i = j

\* Foreign keys: no rows without the group above them.
NothingUngrouped == group = 0 => \A i \in Ids : rows[i] = None

\* What the backup is to keep is in it, under its id.
BackupHolds == \A i \in Ids : saved[i] # None => backup # None /\ backup[saved[i]] = i

Inv == /\ TypeOK /\ GivenExplicit /\ NamesOnce /\ NothingUngrouped /\ BackupHolds
       /\ \A p \in Procs : RequestKnows(pc[p], loc[p])
-----------------------------------------------------------------------------
(* One request moves *)

RowsOK == /\ rows \in [Ids -> Row \cup {None}] /\ pinned \subseteq given /\ given \subseteq Ids
          /\ GivenExplicit /\ NamesOnce /\ NothingUngrouped

RestTyped == /\ seq \in 1..(MaxID + 1) /\ group \in 0..made /\ made \in Nat
             /\ docs \in Repo \cup {None} /\ begun \in Nat
             /\ calm \in BOOLEAN /\ whole \in BOOLEAN

LEMMA Here ==
    ASSUME Inv, NEW p \in Procs
    PROVE  loc[p] \in Local /\ pc[p] \in Points /\ RequestKnows(pc[p], loc[p])
    BY DEF Inv, TypeOK

LEMMA Moved ==
    ASSUME Inv, NEW p \in Procs, NEW point \in Points, NEW l \in Local, Goto(p, point, l)
    PROVE  /\ pc' \in [Procs -> Points] /\ loc' \in [Procs -> Local]
           /\ pc'[p] = point /\ loc'[p] = l
           /\ \A q \in Procs \ {p} : pc'[q] = pc[q] /\ loc'[q] = loc[q]
    BY DEF Goto, Inv, TypeOK

LEMMA MovedInv ==
    ASSUME Inv, NEW p \in Procs, NEW point \in Points, NEW l \in Local, Goto(p, point, l),
           RequestKnows(point, l), RowsOK', RestTyped', UNCHANGED <<saved, backup>>
    PROVE  Inv'
<1>1. \A q \in Procs : RequestKnows(pc'[q], loc'[q])
    BY Moved DEF Inv
<1>2. TypeOK'
    BY Moved DEF Inv, TypeOK, RowsOK, RestTyped
<1>3. BackupHolds'
    BY DEF Inv, BackupHolds
<1> QED  BY <1>1, <1>2, <1>3 DEF Inv, RowsOK

LEMMA RowsStay == ASSUME Inv, UNCHANGED <<rows, given, pinned, group>> PROVE RowsOK'
    BY DEF Inv, TypeOK, RowsOK, GivenExplicit, Explicit, NamesOnce, Live, NothingUngrouped

\* A row is written: a new one, or one that keeps its id and whether the file has it.
LEMMA RowWritten ==
    ASSUME Inv, NEW i \in Ids, NEW x \in Row, rows' = [rows EXCEPT ![i] = x], group' # 0,
           rows[i] = None \/ x.explicit = rows[i].explicit,
           x.live => \A j \in Live(rows) \ {i} : rows[j].name # x.name,
           UNCHANGED <<given, pinned>>
              \/ (x.explicit /\ given' = given \cup {i} /\ pinned' \subseteq pinned \cup {i})
    PROVE  RowsOK'
<1>1. rows'[i] = x /\ x # None /\ \A j \in Ids \ {i} : rows'[j] = rows[j]
    BY NullsOK DEF Inv, TypeOK
<1>2. rows' \in [Ids -> Row \cup {None}]
    BY DEF Inv, TypeOK
<1>3. pinned' \subseteq given' /\ given' \subseteq Ids
    BY DEF Inv, TypeOK
<1>4. GivenExplicit'
    BY <1>1 DEF Inv, GivenExplicit, Explicit
<1>5. NamesOnce'
    BY <1>1 DEF Inv, NamesOnce, Live
<1>6. NothingUngrouped'
    BY DEF NothingUngrouped
<1> QED  BY <1>2, <1>3, <1>4, <1>5, <1>6 DEF RowsOK

LEMMA LocalTyped ==
    /\ NoLocal \in Local
    /\ RequestKnows("idle", NoLocal)
    BY DEF NoLocal, Local, RequestKnows, Importing, Approving

LEMMA FinishInv ==
    ASSUME Inv, NEW p \in Procs, Finish(p), RowsOK', RestTyped', UNCHANGED <<saved, backup>>
    PROVE  Inv'
    BY MovedInv, LocalTyped DEF Finish, Points

-----------------------------------------------------------------------------
(* Imports *)

LEMMA RepoTyped ==
    ASSUME NEW a \in Repo, NEW n \in Contents(a)
    PROVE  n \in Names /\ ResolveID(a, n) \in Ids /\ Loaded(a, n) \in Row
    BY ConstantsOK DEF Repo, Contents, ResolveID, Loaded, Row

LEMMA RestoreInv == ASSUME Inv, NEW p \in Procs, Restore(p) PROVE Inv'
<1>1. PICK a \in Available, point \in {"truncate", "group"} :
          /\ Begin(p, point, [NoLocal EXCEPT !.import = TRUE, !.repo = a])
          /\ whole' = FALSE /\ UNCHANGED <<db, backup, given, pinned, saved>>
    BY DEF Restore
<1>2. a \in Repo
    BY ConstantsOK DEF Available, Inv, TypeOK
<1>3. PICK l : l = [NoLocal EXCEPT !.import = TRUE, !.repo = a]
    OBVIOUS
<1>4. l \in Local /\ RequestKnows(point, l) /\ point \in Points
    BY <1>2, <1>3 DEF NoLocal, Local, RequestKnows, Importing, Approving, Points
<1>5. Goto(p, point, l) /\ begun' = begun + 1
    BY <1>1, <1>3 DEF Begin
<1>6. calm' \in BOOLEAN
    BY <1>1, Zenon DEF Begin
<1>7. RestTyped'
    <2>1. whole' \in BOOLEAN
        BY <1>1
    <2>2. UNCHANGED <<seq, group, made, docs>>
        BY <1>1 DEF db
    <2> QED  BY <1>5, <1>6, <2>1, <2>2 DEF Inv, TypeOK, RestTyped
<1>8. RowsOK'
    BY <1>1, RowsStay DEF db
<1> QED  BY <1>1, <1>4, <1>5, <1>7, <1>8, MovedInv

LEMMA TruncateInv == ASSUME Inv, NEW p \in Procs, TruncateTopology(p) PROVE Inv'
<1>1. PICK l \in Local : l = loc[p]
    BY Here
<1>2. RequestKnows("group", l)
    BY <1>1, Here DEF TruncateTopology, At, RequestKnows, Importing, Approving
<1>3. RowsOK'
    BY DEF TruncateTopology, RowsOK, GivenExplicit, NamesOnce, Live, NothingUngrouped
<1>4. RestTyped'
    BY DEF TruncateTopology, Inv, TypeOK, RestTyped
<1> QED  BY <1>1, <1>2, <1>3, <1>4, MovedInv DEF TruncateTopology, Points

LEMMA InsertGroupInv == ASSUME Inv, NEW p \in Procs, InsertGroup(p) PROVE Inv'
<1>1. PICK l \in Local : l = loc[p]
    BY Here
<1>2. l.import /\ l.repo \in Repo
    BY <1>1, Here DEF InsertGroup, At, RequestKnows, Importing
<1>3. CASE group # 0
    <2>1. Finish(p) /\ UNCHANGED <<rows, group, made, docs, backup, begun, given, pinned, saved,
                                   whole, calm, seq>>
        BY <1>3 DEF InsertGroup, ghosts
    <2>2. RowsOK' /\ RestTyped'
        BY <2>1, RowsStay DEF Inv, TypeOK, RestTyped
    <2> QED  BY <2>1, <2>2, FinishInv
<1>4. CASE group = 0
    <2>1. PICK g \in Nat, c \in SUBSET Names : g = made + 1 /\ c = Contents(l.repo)
        <3>1. made + 1 \in Nat
            BY DEF Inv, TypeOK
        <3>2. Contents(l.repo) \in SUBSET Names
            BY DEF Contents
        <3> QED  BY <3>1, <3>2
    <2>2. PICK m : m = [l EXCEPT !.group = g, !.todo = c]
        OBVIOUS
    <2>3. /\ Goto(p, "resources", m) /\ group' = g /\ made' = g
          /\ UNCHANGED <<rows, docs, backup, begun, given, pinned, saved, whole, calm, seq>>
        BY <1>1, <1>4, <2>1, <2>2 DEF InsertGroup, ghosts
    <2>4. /\ m \in Local /\ m.import /\ m.repo = l.repo /\ m.group = g /\ m.todo = c
        BY <1>2, <2>2 DEF Local
    <2>5. g # 0
        BY <2>1 DEF Inv, TypeOK
    <2>6. RequestKnows("resources", m)
        BY <1>2, <2>1, <2>4, <2>5 DEF RequestKnows, Importing, Approving
    <2>7. RowsOK'
        BY <2>3, <2>5 DEF Inv, TypeOK, RowsOK, GivenExplicit, Explicit, NamesOnce, Live, NothingUngrouped
    <2>8. RestTyped'
        BY <2>1, <2>3 DEF Inv, TypeOK, RestTyped
    <2> QED  BY <2>3, <2>4, <2>6, <2>7, <2>8, MovedInv DEF Points
<1> QED  BY <1>3, <1>4

LEMMA UpsertResourceInv == ASSUME Inv, NEW p \in Procs, UpsertResource(p) PROVE Inv'
<1>1. PICK l \in Local : l = loc[p]
    BY Here
<1>2. l.import /\ l.repo \in Repo /\ l.group # 0 /\ l.todo \subseteq Contents(l.repo)
    BY <1>1, Here DEF UpsertResource, At, RequestKnows, Importing
<1>3. UNCHANGED <<group, made, docs, backup, begun, given, pinned, saved, whole, calm, seq>>
    BY DEF UpsertResource, ghosts
<1>4. RestTyped'
    BY <1>3 DEF Inv, TypeOK, RestTyped
<1>5. CASE Finish(p) /\ UNCHANGED rows
    BY <1>3, <1>4, <1>5, RowsStay, FinishInv
<1>6. ASSUME NEW n \in l.todo, Insertable(ResolveID(l.repo, n), n, l.group),
             rows' = [rows EXCEPT ![ResolveID(l.repo, n)] = Loaded(l.repo, n)],
             Goto(p, "resources", [l EXCEPT !.todo = @ \ {n}])
      PROVE  Inv'
    <2>1. PICK i \in Ids, x \in Row : i = ResolveID(l.repo, n) /\ x = Loaded(l.repo, n)
        BY <1>2, RepoTyped
    <2>2. rows[i] = None /\ Named(n) = {} /\ l.group = group /\ x.name = n
        BY <1>6, <2>1 DEF Insertable, Loaded
    <2>3. \A j \in Live(rows) \ {i} : rows[j].name # x.name
        BY <2>2 DEF Named
    <2>4. RowsOK'
        BY <1>2, <1>3, <1>6, <2>1, <2>2, <2>3, RowWritten
    <2>5. PICK m : m = [l EXCEPT !.todo = l.todo \ {n}]
        OBVIOUS
    <2>6. m \in Local /\ m.import /\ m.repo = l.repo /\ m.group = l.group /\ m.todo = l.todo \ {n}
        BY <1>2, <2>5 DEF Local
    <2>7. RequestKnows("resources", m)
        BY <1>2, <2>6 DEF RequestKnows, Importing, Approving
    <2> QED  BY <1>3, <1>4, <1>6, <2>4, <2>5, <2>6, <2>7, MovedInv DEF Points
<1> QED  BY <1>1, <1>5, <1>6 DEF UpsertResource

LEMMA ResyncedAhead ==
    ASSUME Inv
    PROVE  Resynced \in 1..(MaxID + 1) /\ \A i \in Explicit(rows) : i < Resynced
<1>1. Explicit(rows) \subseteq 1..MaxID
    BY DEF Explicit, Ids
<1>2. PICK T : T = {0} \cup Explicit(rows)
    OBVIOUS
<1>3. T \subseteq 0..MaxID /\ T # {} /\ MaxID \in Nat
    BY <1>1, <1>2, ConstantsOK
<1>4. Max(T) \in T /\ \A y \in T : Max(T) >= y
    BY <1>3, Greatest
<1> QED  BY <1>1, <1>2, <1>3, <1>4 DEF Resynced

LEMMA ResyncInv == ASSUME Inv, NEW p \in Procs, Resync(p) PROVE Inv'
<1>1. PICK l \in Local : l = loc[p]
    BY Here
<1>2. RequestKnows("docs", l)
    BY <1>1, Here DEF Resync, At, RequestKnows, Importing, Approving
<1>3. /\ Goto(p, "docs", l) /\ seq' = Resynced
      /\ UNCHANGED <<rows, group, made, docs, backup, begun, given, pinned, saved, whole, calm>>
    BY <1>1 DEF Resync, ghosts
<1>4. RowsOK' /\ RestTyped'
    BY <1>3, ResyncedAhead, RowsStay DEF Inv, TypeOK, RestTyped
<1> QED  BY <1>2, <1>3, <1>4, MovedInv DEF Points

LEMMA ImportDocsInv == ASSUME Inv, NEW p \in Procs, ImportDocs(p) PROVE Inv'
<1>1. loc[p].repo \in Repo
    BY Here DEF ImportDocs, At, RequestKnows, Importing
<1>2. RowsOK' /\ RestTyped'
    BY <1>1, RowsStay DEF ImportDocs, Inv, TypeOK, RestTyped
<1> QED  BY <1>2, FinishInv DEF ImportDocs

\* A file's name leads to one row.
LEMMA FiledIs ==
    ASSUME Inv, NEW n \in Names
    PROVE  /\ Filed(n) \in Ids \cup {NoID, None}
           /\ \A i \in Named(n) : rows[i].explicit => Filed(n) = i
<1>1. CASE Named(n) = {}
    BY <1>1 DEF Filed
<1>2. CASE Named(n) # {}
    <2>1. PICK i : i = CHOOSE j \in Named(n) : TRUE
        OBVIOUS
    <2>2. i \in Named(n)
        BY <1>2, <2>1
    <2>3. \A j \in Named(n) : j = i
        BY <2>2 DEF Named, Inv, NamesOnce
    <2>4. i \in Ids
        BY <2>2 DEF Named, Live
    <2> QED  BY <1>2, <2>1, <2>3, <2>4 DEF Filed, Written
<1> QED  BY <1>1, <1>2

LEMMA ExportInv == ASSUME Inv, Export PROVE Inv'
<1>1. /\ backup' = [n \in Names |-> Filed(n)]
      /\ saved' = [i \in Ids |-> IF i \in Live(rows) \cap (given \cup Explicit(rows))
                                 THEN rows[i].name ELSE None]
      /\ UNCHANGED <<rows, seq, group, made, docs, pc, loc, begun, given, pinned, calm, whole>>
    BY DEF Export, db
<1>2. backup' \in Repo
    BY <1>1, FiledIs DEF Repo
<1>3. \A i \in Live(rows) : rows[i] \in Row /\ rows[i].name \in Names
    BY DEF Live, Inv, TypeOK, Row
<1>4. saved' \in [Ids -> Names \cup {None}]
    BY <1>1, <1>3
<1>5. TypeOK'
    BY <1>1, <1>2, <1>4 DEF Inv, TypeOK
<1>6. BackupHolds'
    <2>1. ASSUME NEW i \in Ids, saved'[i] # None
          PROVE  backup'[saved'[i]] = i
        <3>1. i \in Live(rows) /\ i \in Explicit(rows) /\ saved'[i] = rows[i].name
            BY <1>1, <2>1 DEF Inv, GivenExplicit
        <3>2. PICK n \in Names : n = rows[i].name
            BY <1>3, <3>1
        <3>3. Filed(n) = i
            BY <3>1, <3>2, FiledIs DEF Named, Explicit
        <3> QED  BY <1>1, <3>1, <3>2, <3>3
    <2>2. backup' # None
        BY <1>2, NullsOK
    <2> QED  BY <2>1, <2>2 DEF BackupHolds
<1>7. RowsOK'
    BY <1>1, RowsStay
<1> QED  BY <1>1, <1>5, <1>6, <1>7 DEF Inv, RowsOK

-----------------------------------------------------------------------------
(* Approvals *)

LEMMA CreateInv == ASSUME Inv, NEW p \in Procs, Create(p) PROVE Inv'
<1>1. PICK n \in Names, id \in Ids \cup {NoID} :
          /\ group # 0
          /\ Begin(p, IF id = NoID THEN "draw" ELSE "insert",
                   [NoLocal EXCEPT !.group = group, !.name = n, !.id = id])
          /\ UNCHANGED <<db, backup, ghosts>>
    BY DEF Create
<1>2. PICK l : l = [NoLocal EXCEPT !.group = group, !.name = n, !.id = id]
    OBVIOUS
<1>3. PICK point : point = IF id = NoID THEN "draw" ELSE "insert"
    OBVIOUS
<1>4. group \in Nat
    BY DEF Inv, TypeOK
<1>5. l \in Local /\ RequestKnows(point, l) /\ point \in Points
    BY <1>1, <1>2, <1>3, <1>4, NullsOK DEF NoLocal, Local, RequestKnows, Importing, Approving, Points
<1>6. Goto(p, point, l) /\ begun' = begun + 1
    BY <1>1, <1>2, <1>3 DEF Begin
<1>7. calm' \in BOOLEAN
    BY <1>1, Zenon DEF Begin
<1>8. UNCHANGED <<rows, seq, group, made, docs, backup, given, pinned, saved, whole>>
    BY <1>1 DEF db, ghosts
<1>9. RowsOK' /\ RestTyped'
    BY <1>6, <1>7, <1>8, RowsStay DEF Inv, TypeOK, RestTyped
<1> QED  BY <1>5, <1>6, <1>8, <1>9, MovedInv

LEMMA UpdateInv == ASSUME Inv, NEW p \in Procs, Update(p) PROVE Inv'
<1>1. PICK i \in Live(rows), n \in Names :
          /\ group # 0
          /\ Begin(p, "update", [NoLocal EXCEPT !.group = group, !.name = n, !.id = i])
          /\ UNCHANGED <<db, backup, ghosts>>
    BY DEF Update
<1>2. PICK l : l = [NoLocal EXCEPT !.group = group, !.name = n, !.id = i]
    OBVIOUS
<1>3. group \in Nat /\ i \in Ids
    BY DEF Inv, TypeOK, Live
<1>4. l \in Local /\ RequestKnows("update", l)
    BY <1>1, <1>2, <1>3 DEF NoLocal, Local, RequestKnows, Importing, Approving
<1>5. Goto(p, "update", l) /\ begun' = begun + 1
    BY <1>1, <1>2 DEF Begin
<1>6. calm' \in BOOLEAN
    BY <1>1, Zenon DEF Begin
<1>7. UNCHANGED <<rows, seq, group, made, docs, backup, given, pinned, saved, whole>>
    BY <1>1 DEF db, ghosts
<1>8. RowsOK' /\ RestTyped'
    BY <1>5, <1>6, <1>7, RowsStay DEF Inv, TypeOK, RestTyped
<1> QED  BY <1>4, <1>5, <1>7, <1>8, MovedInv DEF Points

LEMMA DrawInv == ASSUME Inv, NEW p \in Procs, Draw(p) PROVE Inv'
<1>1. PICK l \in Local : l = loc[p]
    BY Here
<1>2. ~l.import /\ l.group # 0 /\ l.name \in Names
    BY <1>1, Here DEF Draw, At, RequestKnows, Approving
<1>3. PICK i \in Ids : i = seq
    BY DEF Draw, NextID
<1>4. PICK m : m = [l EXCEPT !.id = i, !.drawn = TRUE]
    OBVIOUS
<1>5. m \in Local /\ ~m.import /\ m.group = l.group /\ m.name = l.name /\ m.id = i
    BY <1>2, <1>4 DEF Local
<1>6. RequestKnows("insert", m)
    BY <1>2, <1>5 DEF RequestKnows, Importing, Approving
<1>7. /\ Goto(p, "insert", m) /\ seq' = i + 1
      /\ UNCHANGED <<rows, group, made, docs, backup, begun, given, pinned, saved, whole, calm>>
    BY <1>1, <1>3, <1>4 DEF Draw, NextID, ghosts
<1>8. i + 1 \in 1..(MaxID + 1)
    BY ConstantsOK DEF Ids
<1>9. RowsOK' /\ RestTyped'
    BY <1>7, <1>8, RowsStay DEF Inv, TypeOK, RestTyped
<1> QED  BY <1>5, <1>6, <1>7, <1>9, MovedInv DEF Points

LEMMA InsertInv == ASSUME Inv, NEW p \in Procs, Insert(p) PROVE Inv'
<1>1. PICK l \in Local : l = loc[p]
    BY Here
<1>2. l.group # 0 /\ l.name \in Names /\ l.id \in Ids
    BY <1>1, Here DEF Insert, At, RequestKnows, Approving
<1>3. /\ Finish(p)
      /\ UNCHANGED <<seq, group, made, docs, backup, begun, saved, calm, whole>>
    BY DEF Insert
<1>4. RestTyped'
    BY <1>3 DEF Inv, TypeOK, RestTyped
<1>5. CASE Insertable(l.id, l.name, l.group)
    <2>1. PICK i \in Ids, x \in Row : i = l.id /\ x = Created(l)
        BY <1>2 DEF Created, Row
    <2>2. rows[i] = None /\ Named(l.name) = {} /\ l.group = group
        BY <1>5, <2>1 DEF Insertable
    <2>3. x.name = l.name /\ x.explicit
        BY <2>1 DEF Created
    <2>4. /\ rows' = [rows EXCEPT ![i] = x] /\ given' = given \cup {i}
          /\ pinned' \subseteq pinned \cup {i}
        BY <1>1, <1>5, <2>1 DEF Insert
    <2>5. \A j \in Live(rows) \ {i} : rows[j].name # x.name
        BY <2>2, <2>3 DEF Named
    <2>6. RowsOK'
        BY <1>2, <1>3, <2>2, <2>3, <2>4, <2>5, RowWritten
    <2> QED  BY <1>3, <1>4, <2>6, FinishInv
<1>6. CASE ~Insertable(l.id, l.name, l.group)
    <2>1. UNCHANGED <<rows, given, pinned>>
        BY <1>1, <1>6 DEF Insert
    <2> QED  BY <1>3, <1>4, <2>1, RowsStay, FinishInv
<1> QED  BY <1>5, <1>6

LEMMA RowTyped ==
    ASSUME NEW x \in Row, NEW n \in Names
    PROVE  /\ [x EXCEPT !.name = n] \in Row /\ [x EXCEPT !.name = n].name = n
           /\ [x EXCEPT !.name = n].explicit = x.explicit
           /\ [x EXCEPT !.live = FALSE] \in Row /\ ~[x EXCEPT !.live = FALSE].live
           /\ [x EXCEPT !.live = FALSE].explicit = x.explicit
    BY DEF Row

LEMMA UpdateFieldsInv == ASSUME Inv, NEW p \in Procs, UpdateResourceFields(p) PROVE Inv'
<1>1. PICK l \in Local : l = loc[p]
    BY Here
<1>2. l.group # 0 /\ l.name \in Names /\ l.id \in Ids
    BY <1>1, Here DEF UpdateResourceFields, At, RequestKnows, Approving
<1>3. /\ Finish(p)
      /\ UNCHANGED <<seq, group, made, docs, backup, begun, given, pinned, saved, whole, calm>>
    BY DEF UpdateResourceFields, ghosts
<1>4. RestTyped'
    BY <1>3 DEF Inv, TypeOK, RestTyped
<1>5. CASE l.id \in Live(rows) /\ l.group = group /\ Named(l.name) \subseteq {l.id}
    <2>1. PICK i \in Ids, n \in Names : i = l.id /\ n = l.name
        BY <1>2
    <2>2. rows[i] \in Row
        BY <1>5, <2>1 DEF Live, Inv, TypeOK
    <2>3. PICK x \in Row : x = [rows[i] EXCEPT !.name = n] /\ x.name = n /\ x.explicit = rows[i].explicit
        BY <2>2, RowTyped
    <2>4. rows' = [rows EXCEPT ![i] = x]
        BY <1>1, <1>5, <2>1, <2>3 DEF UpdateResourceFields
    <2>5. \A j \in Live(rows) \ {i} : rows[j].name # x.name
        BY <1>5, <2>1, <2>3 DEF Named
    <2>6. RowsOK'
        BY <1>2, <1>3, <1>5, <2>3, <2>4, <2>5, RowWritten
    <2> QED  BY <1>3, <1>4, <2>6, FinishInv
<1>6. CASE ~(l.id \in Live(rows) /\ l.group = group /\ Named(l.name) \subseteq {l.id})
    <2>1. rows' = rows
        BY <1>1, <1>6 DEF UpdateResourceFields
    <2> QED  BY <1>3, <1>4, <2>1, RowsStay, FinishInv
<1> QED  BY <1>5, <1>6

LEMMA DeleteInv == ASSUME Inv, Delete PROVE Inv'
<1>1. PICK i \in Live(rows) : rows' = [rows EXCEPT ![i].live = FALSE]
    BY DEF Delete
<1>2. i \in Ids /\ rows[i] \in Row
    BY DEF Live, Inv, TypeOK
<1>3. PICK x \in Row : x = [rows[i] EXCEPT !.live = FALSE] /\ ~x.live /\ x.explicit = rows[i].explicit
    <2>1. PICK n \in Names : n = rows[i].name
        BY <1>2 DEF Row
    <2> QED  BY <1>2, RowTyped
<1>4. rows' = [rows EXCEPT ![i] = x]
    BY <1>1, <1>3
<1>5. UNCHANGED <<seq, group, made, docs, backup, pc, loc, begun, given, pinned, saved, whole>>
    BY DEF Delete, ghosts
<1>6. calm' \in BOOLEAN
    BY Zenon DEF Delete
<1>7. group' # 0
    BY <1>2, <1>5, NullsOK DEF Inv, NothingUngrouped
<1>8. RowsOK'
    BY <1>2, <1>3, <1>4, <1>5, <1>7, RowWritten
<1>9. TypeOK'
    BY <1>5, <1>6, <1>8 DEF Inv, TypeOK, RowsOK
<1> QED  BY <1>5, <1>8, <1>9 DEF Inv, RowsOK, BackupHolds

LEMMA StopInv == ASSUME Inv, NEW p \in Procs, Stop(p) PROVE Inv'
<1>1. /\ Finish(p)
      /\ UNCHANGED <<rows, seq, group, made, docs, backup, begun, given, pinned, saved, whole, calm>>
    BY DEF Stop, db, ghosts
<1>2. RowsOK' /\ RestTyped'
    BY <1>1, RowsStay DEF Inv, TypeOK, RestTyped
<1> QED  BY <1>1, <1>2, FinishInv

LEMMA InitInv == Init => Inv
<1> SUFFICES ASSUME Init PROVE Inv
    OBVIOUS
<1>1. TypeOK
    BY LocalTyped, ConstantsOK DEF Init, TypeOK, Points
<1>2. GivenExplicit /\ NamesOnce /\ NothingUngrouped /\ BackupHolds
    BY DEF Init, GivenExplicit, NamesOnce, Live, NothingUngrouped, BackupHolds
<1> QED  BY <1>1, <1>2, LocalTyped DEF Init, Inv

LEMMA NextInv == Inv /\ [Next]_vars => Inv'
<1> SUFFICES ASSUME Inv, [Next]_vars PROVE Inv'
    OBVIOUS
<1>1. CASE UNCHANGED vars
    <2>1. UNCHANGED <<rows, seq, group, made, docs, backup, begun, given, pinned, saved, whole, calm, pc, loc>>
        BY <1>1 DEF vars
    <2>2. RowsOK'
        BY <2>1, RowsStay
    <2> QED  BY <2>1, <2>2 DEF Inv, RowsOK, TypeOK, BackupHolds
<1>2. ASSUME NEW p \in Procs, Import(p) PROVE Inv'
    BY <1>2, RestoreInv, TruncateInv, InsertGroupInv, UpsertResourceInv, ResyncInv, ImportDocsInv
       DEF Import
<1>3. ASSUME NEW p \in Procs, Approve(p) PROVE Inv'
    BY <1>3, CreateInv, DrawInv, InsertInv, UpdateInv, UpdateFieldsInv DEF Approve
<1> QED  BY <1>1, <1>2, <1>3, StopInv, ExportInv, DeleteInv DEF Next

-----------------------------------------------------------------------------
(* While no import overlaps anything *)

\* An import is alone, and the last one has not come to its end.
ImportAlone ==
    \A p \in Procs : pc[p] \in Importing => ~whole /\ \A q \in Procs \ {p} : pc[q] = "idle"

\* The rows are those it has inserted.
InsertedSoFar(p) ==
    LET l == loc[p]
        done == Contents(l.repo) \ IF pc[p] = "docs" THEN {} ELSE l.todo IN
    /\ \A n \in done : rows[ResolveID(l.repo, n)] = Loaded(l.repo, n)
    /\ \A i \in Ids : rows[i] # None => \E n \in done : ResolveID(l.repo, n) = i

\* The sequence has passed every ID, but for those in free.
SeqBehind(free) == \A i \in Explicit(rows) : i < seq \/ i \in free

\* What an approval has drawn lies behind the sequence, is no ID but one a proposal named, and is
\* not what another has drawn.
DrawnApart ==
    \A p \in Procs : At(p, "insert") /\ loc[p].drawn =>
        /\ loc[p].id < seq
        /\ loc[p].id \in Explicit(rows) => loc[p].id \in pinned
        /\ \A q \in Procs \ {p} : At(q, "insert") /\ loc[q].drawn => loc[q].id # loc[p].id

CalmState ==
    /\ ImportAlone
    /\ \A p \in Procs : pc[p] \in {"resources", "docs"} => InsertedSoFar(p)
    /\ \A p \in Procs : At(p, "docs") => SeqBehind({})
    /\ whole => SeqBehind(pinned) /\ DrawnApart

CalmInv == calm => CalmState


LEMMA CalmInit == Init => CalmInv
    BY NullsOK DEF Init, CalmInv, CalmState, ImportAlone, Importing, SeqBehind, Explicit, DrawnApart, At

\* An import moves, starts or stops.
LEMMA AtImport ==
    ASSUME Inv, NEW p \in Procs, NEW point \in {"idle"} \cup Importing, NEW l \in Local,
           Goto(p, point, l), \A q \in Procs \ {p} : pc[q] = "idle", ~whole',
           point \in {"resources", "docs"} => InsertedSoFar(p)',
           point = "docs" => SeqBehind({})'
    PROVE  CalmState'
<1>1. point \in Points
    BY DEF Points, Importing
<1>2. pc'[p] = point /\ \A q \in Procs \ {p} : pc'[q] = "idle"
    BY <1>1, Moved
<1>3. ImportAlone'
    BY <1>2 DEF ImportAlone, Importing
<1>4. \A q \in Procs : pc'[q] \in {"resources", "docs"} => InsertedSoFar(q)'
    BY <1>2
<1>5. \A q \in Procs : At(q, "docs")' => SeqBehind({})'
    BY <1>2 DEF At
<1> QED  BY <1>3, <1>4, <1>5 DEF CalmState

\* No import is there.
LEMMA NoImport ==
    ASSUME \A q \in Procs : pc'[q] \notin Importing, whole' => SeqBehind(pinned)' /\ DrawnApart'
    PROVE  CalmState'
    BY DEF CalmState, ImportAlone, Importing, At

LEMMA RestoreCalm == ASSUME Inv, NEW p \in Procs, Restore(p), calm' PROVE calm /\ CalmState'
<1>1. PICK a \in Available, point \in {"truncate", "group"} :
          /\ Begin(p, point, [NoLocal EXCEPT !.import = TRUE, !.repo = a])
          /\ whole' = FALSE
    BY DEF Restore
<1>2. a \in Repo
    BY ConstantsOK DEF Available, Inv, TypeOK
<1>3. PICK l : l = [NoLocal EXCEPT !.import = TRUE, !.repo = a]
    OBVIOUS
<1>4. l \in Local /\ l.import
    BY <1>2, <1>3 DEF NoLocal, Local
<1>5. Goto(p, point, l)
    BY <1>1, <1>3 DEF Begin
<1>6. calm /\ \A q \in Busy : ~l.import /\ ~loc[q].import
    BY <1>1, <1>3, Zenon DEF Begin
<1>7. \A q \in Procs : pc[q] = "idle"
    BY <1>4, <1>6 DEF Busy
<1> QED  BY <1>1, <1>4, <1>5, <1>6, <1>7, AtImport DEF Importing

\* A request of an import: it is alone.
LEMMA TruncateCalm == ASSUME Inv, CalmState, NEW p \in Procs, TruncateTopology(p) PROVE CalmState'
<1>1. PICK l \in Local : l = loc[p]
    BY Here
<1>2. ~whole /\ \A q \in Procs \ {p} : pc[q] = "idle"
    BY DEF CalmState, ImportAlone, TruncateTopology, At, Importing
<1> QED  BY <1>1, <1>2, AtImport DEF TruncateTopology, Importing

LEMMA InsertGroupCalm == ASSUME Inv, Inv', CalmState, NEW p \in Procs, InsertGroup(p) PROVE CalmState'
<1>1. ~whole /\ \A q \in Procs \ {p} : pc[q] = "idle"
    BY DEF CalmState, ImportAlone, InsertGroup, At, Importing
<1>2. UNCHANGED <<rows, whole>>
    BY DEF InsertGroup, ghosts
<1>3. CASE group # 0
    BY <1>1, <1>2, <1>3, LocalTyped, AtImport DEF InsertGroup, Finish
<1>4. CASE group = 0
    <2>1. PICK m : m = [loc[p] EXCEPT !.group = made + 1, !.todo = Contents(loc[p].repo)]
        OBVIOUS
    <2>2. Goto(p, "resources", m)
        BY <1>4, <2>1 DEF InsertGroup
    <2>3. pc'[p] = "resources" /\ loc'[p] = m
        BY <2>2 DEF Goto, Inv, TypeOK
    <2>4. m \in Local
        BY <2>3, Here DEF Inv, TypeOK
    <2>5. m.todo = Contents(m.repo)
        BY <2>1, Here DEF Local
    <2>6. \A i \in Ids : rows'[i] = None
        BY <1>2, <1>4 DEF Inv, NothingUngrouped
    <2>7. InsertedSoFar(p)'
        BY <2>3, <2>5, <2>6 DEF InsertedSoFar
    <2> QED  BY <1>1, <1>2, <2>2, <2>4, <2>7, AtImport DEF Importing
<1> QED  BY <1>3, <1>4

LEMMA UpsertResourceCalm == ASSUME Inv, CalmState, NEW p \in Procs, UpsertResource(p) PROVE CalmState'
<1>1. ~whole /\ \A q \in Procs \ {p} : pc[q] = "idle"
    BY DEF CalmState, ImportAlone, UpsertResource, At, Importing
<1>2. UNCHANGED whole
    BY DEF UpsertResource, ghosts
<1>3. CASE Finish(p)
    BY <1>1, <1>2, <1>3, LocalTyped, AtImport DEF Finish
<1>4. PICK l \in Local : l = loc[p]
    BY Here
<1>5. l.repo \in Repo /\ l.todo \subseteq Contents(l.repo)
    BY <1>4, Here DEF UpsertResource, At, RequestKnows, Importing
<1>6. ASSUME NEW n \in l.todo, Insertable(ResolveID(l.repo, n), n, l.group),
             rows' = [rows EXCEPT ![ResolveID(l.repo, n)] = Loaded(l.repo, n)],
             Goto(p, "resources", [l EXCEPT !.todo = @ \ {n}])
      PROVE  CalmState'
    <2>1. PICK i \in Ids, x \in Row : i = ResolveID(l.repo, n) /\ x = Loaded(l.repo, n)
        BY <1>5, RepoTyped
    <2>2. rows[i] = None
        BY <1>6, <2>1 DEF Insertable
    <2>3. /\ rows'[i] = x /\ x # None /\ \A j \in Ids \ {i} : rows'[j] = rows[j]
        BY <1>6, <2>1, NullsOK DEF Inv, TypeOK
    <2>4. PICK m : m = [l EXCEPT !.todo = l.todo \ {n}]
        OBVIOUS
    <2>5. m \in Local /\ m.repo = l.repo /\ m.todo = l.todo \ {n}
        BY <2>4 DEF Local
    <2>6. Goto(p, "resources", m)
        BY <1>6, <2>4
    <2>7. pc'[p] = "resources" /\ loc'[p] = m
        BY <2>6 DEF Goto, Inv, TypeOK
    <2>8. /\ \A k \in Contents(l.repo) \ l.todo : rows[ResolveID(l.repo, k)] = Loaded(l.repo, k)
          /\ \A j \in Ids : rows[j] # None =>
                 \E k \in Contents(l.repo) \ l.todo : ResolveID(l.repo, k) = j
        BY <1>4, <2>1 DEF CalmState, InsertedSoFar, UpsertResource, At
    <2>9. \A k \in Contents(l.repo) \ l.todo :
              ResolveID(l.repo, k) \in Ids /\ ResolveID(l.repo, k) # i
        BY <1>5, <2>2, <2>8, NullsOK, RepoTyped
    <2>10. n \in Contents(l.repo)
        BY <1>5
    <2>11. /\ \A k \in Contents(l.repo) \ (l.todo \ {n}) : rows'[ResolveID(l.repo, k)] = Loaded(l.repo, k)
           /\ \A j \in Ids : rows'[j] # None =>
                  \E k \in Contents(l.repo) \ (l.todo \ {n}) : ResolveID(l.repo, k) = j
        BY <2>1, <2>3, <2>8, <2>9, <2>10
    <2>12. InsertedSoFar(p)'
        BY <2>5, <2>7, <2>11 DEF InsertedSoFar
    <2> QED  BY <1>1, <1>2, <2>5, <2>6, <2>12, AtImport DEF Importing
<1> QED  BY <1>3, <1>4, <1>6 DEF UpsertResource

LEMMA ResyncCalm == ASSUME Inv, CalmState, NEW p \in Procs, Resync(p) PROVE CalmState'
<1>1. ~whole /\ \A q \in Procs \ {p} : pc[q] = "idle"
    BY DEF CalmState, ImportAlone, Resync, At, Importing
<1>2. PICK l \in Local : l = loc[p]
    BY Here
<1>3. /\ Goto(p, "docs", l) /\ seq' = Resynced /\ UNCHANGED <<rows, whole>> /\ l.todo = {}
    BY <1>2 DEF Resync, ghosts
<1>4. pc'[p] = "docs" /\ loc'[p] = l
    BY <1>3 DEF Goto, Inv, TypeOK
<1>5. SeqBehind({})'
    BY <1>3, ResyncedAhead DEF SeqBehind, Explicit
<1>6. InsertedSoFar(p)'
    <2>1. /\ \A k \in Contents(l.repo) : rows[ResolveID(l.repo, k)] = Loaded(l.repo, k)
          /\ \A j \in Ids : rows[j] # None => \E k \in Contents(l.repo) : ResolveID(l.repo, k) = j
        BY <1>2, <1>3 DEF CalmState, InsertedSoFar, Resync, At
    <2> QED  BY <1>3, <1>4, <2>1 DEF InsertedSoFar
<1> QED  BY <1>1, <1>3, <1>5, <1>6, AtImport DEF Importing

LEMMA ImportDocsCalm == ASSUME Inv, CalmState, NEW p \in Procs, ImportDocs(p) PROVE CalmState'
<1>1. \A q \in Procs \ {p} : pc[q] = "idle"
    BY DEF CalmState, ImportAlone, ImportDocs, At, Importing
<1>2. \A q \in Procs : pc'[q] = "idle"
    BY <1>1 DEF ImportDocs, Finish, Goto, Inv, TypeOK
<1>3. SeqBehind({}) /\ UNCHANGED <<rows, seq, pinned>>
    BY DEF CalmState, ImportDocs, At
<1>4. SeqBehind(pinned)' /\ DrawnApart'
    BY <1>2, <1>3 DEF SeqBehind, Explicit, DrawnApart, At
<1> QED  BY <1>2, <1>4, NoImport DEF Importing

\* A request that starts an approval: no import is there.
LEMMA BeginCalm ==
    ASSUME Inv, NEW p \in Procs, NEW point \in Approving, NEW l \in Local, ~l.import, ~l.drawn,
           Begin(p, point, l), UNCHANGED <<rows, seq, pinned, whole>>, calm'
    PROVE  calm /\ (CalmState => CalmState')
<1>1. calm /\ \A q \in Busy : ~loc[q].import
    BY Zenon DEF Begin
<1>2. \A q \in Procs : pc[q] \notin Importing
    BY <1>1, Here DEF Busy, RequestKnows, Importing
<1>3. point \in Points /\ Goto(p, point, l)
    BY DEF Begin, Points, Approving
<1>4. /\ pc'[p] = point /\ loc'[p] = l
      /\ \A q \in Procs \ {p} : pc'[q] = pc[q] /\ loc'[q] = loc[q]
    BY <1>3, Moved
<1>5. \A q \in Procs : pc'[q] \notin Importing
    BY <1>2, <1>4 DEF Importing, Approving
<1>6. ASSUME CalmState, whole' PROVE SeqBehind(pinned)' /\ DrawnApart'
    <2>1. SeqBehind(pinned) /\ DrawnApart
        BY <1>6 DEF CalmState
    <2>2. SeqBehind(pinned)'
        BY <2>1 DEF SeqBehind, Explicit
    <2>3. DrawnApart'
        BY <2>1, <1>4 DEF DrawnApart, Explicit, At
    <2> QED  BY <2>2, <2>3
<1> QED  BY <1>1, <1>5, <1>6, NoImport

LEMMA CreateCalm ==
    ASSUME Inv, NEW p \in Procs, Create(p) \/ Update(p), calm'
    PROVE  calm /\ (CalmState => CalmState')
<1>1. PICK n \in Names, i \in Ids \cup {NoID}, point \in Approving :
          /\ Begin(p, point, [NoLocal EXCEPT !.group = group, !.name = n, !.id = i])
          /\ UNCHANGED <<db, backup, ghosts>>
    BY DEF Create, Update, Approving, Live
<1>2. PICK l : l = [NoLocal EXCEPT !.group = group, !.name = n, !.id = i]
    OBVIOUS
<1>3. l \in Local /\ ~l.import /\ ~l.drawn
    <2>1. group \in Nat
        BY DEF Inv, TypeOK
    <2> QED  BY <1>2, <2>1 DEF NoLocal, Local
<1>4. UNCHANGED <<rows, seq, pinned, whole>>
    BY <1>1 DEF db, ghosts
<1> QED  BY <1>1, <1>2, <1>3, <1>4, BeginCalm

\* A request of an approval: no import is there.
LEMMA NoneImports ==
    ASSUME Inv, CalmState, NEW p \in Procs, pc[p] \in Approving,
           NEW point \in {"idle"} \cup Approving, NEW l \in Local, Goto(p, point, l)
    PROVE  \A q \in Procs : pc'[q] \notin Importing
<1>1. \A q \in Procs : pc[q] \notin Importing
    BY DEF CalmState, ImportAlone, Importing, Approving
<1>2. point \in Points
    BY DEF Points, Approving
<1> QED  BY <1>1, <1>2, Moved DEF Importing, Approving

LEMMA DrawCalm == ASSUME Inv, CalmState, NEW p \in Procs, Draw(p) PROVE CalmState'
<1>1. PICK l \in Local : l = loc[p]
    BY Here
<1>2. PICK i \in Ids : i = seq
    BY DEF Draw, NextID
<1>3. PICK m : m = [l EXCEPT !.id = i, !.drawn = TRUE]
    OBVIOUS
<1>4. m \in Local /\ m.id = i /\ m.drawn
    BY <1>3 DEF Local
<1>5. /\ Goto(p, "insert", m) /\ seq' = seq + 1 /\ UNCHANGED <<rows, pinned, whole>> /\ pc[p] = "draw"
    BY <1>1, <1>2, <1>3 DEF Draw, NextID, ghosts, At
<1>6. /\ pc'[p] = "insert" /\ loc'[p] = m
      /\ \A q \in Procs \ {p} : pc'[q] = pc[q] /\ loc'[q] = loc[q]
    BY <1>4, <1>5, Moved DEF Points
<1>7. \A q \in Procs : pc'[q] \notin Importing
    BY <1>4, <1>5, NoneImports DEF Approving
<1>8. ASSUME whole' PROVE SeqBehind(pinned)' /\ DrawnApart'
    <2>1. SeqBehind(pinned) /\ DrawnApart
        BY <1>5, <1>8 DEF CalmState
    <2>2. seq \in Nat /\ \A j \in Ids : j \in Nat
        BY DEF Inv, TypeOK, Ids
    <2>3. Explicit(rows)' = Explicit(rows) /\ Explicit(rows) \subseteq Ids
        BY <1>5 DEF Explicit
    <2>4. SeqBehind(pinned)'
        BY <1>5, <2>1, <2>2, <2>3 DEF SeqBehind
    <2>5. i \in Explicit(rows) => i \in pinned
        BY <1>2, <2>1, <2>2 DEF SeqBehind
    <2>6. \A q \in Procs \ {p} : pc[q] = "insert" /\ loc[q].drawn =>
              /\ loc[q].id \in Ids /\ loc[q].id < seq
              /\ loc[q].id \in Explicit(rows) => loc[q].id \in pinned
              /\ \A o \in Procs \ {q} : pc[o] = "insert" /\ loc[o].drawn => loc[o].id # loc[q].id
        BY <2>1, Here DEF DrawnApart, At, RequestKnows, Approving
    <2>7. \A q \in Procs \ {p} : pc[q] = "insert" /\ loc[q].drawn =>
              loc[q].id # i /\ loc[q].id < seq + 1
        BY <1>2, <2>2, <2>6
    <2>8. DrawnApart'
        <3> SUFFICES ASSUME NEW q \in Procs, pc'[q] = "insert", loc'[q].drawn
                     PROVE  /\ loc'[q].id < seq'
                            /\ loc'[q].id \in Explicit(rows) => loc'[q].id \in pinned
                            /\ \A o \in Procs \ {q} : pc'[o] = "insert" /\ loc'[o].drawn =>
                                   loc'[o].id # loc'[q].id
            BY <1>5, <2>3 DEF DrawnApart, At
        <3>1. CASE q = p
            BY <1>2, <1>4, <1>5, <1>6, <2>2, <2>5, <2>7, <3>1
        <3>2. CASE q # p
            BY <1>4, <1>5, <1>6, <2>6, <2>7, <3>2
        <3> QED  BY <3>1, <3>2
    <2> QED  BY <2>4, <2>8
<1> QED  BY <1>7, <1>8, NoImport

LEMMA InsertCalm == ASSUME Inv, CalmState, NEW p \in Procs, Insert(p) PROVE CalmState'
<1>1. PICK l \in Local : l = loc[p]
    BY Here
<1>2. l.id \in Ids /\ pc[p] = "insert"
    BY <1>1, Here DEF Insert, At, RequestKnows, Approving
<1>3. Finish(p) /\ UNCHANGED <<seq, whole>>
    BY DEF Insert
<1>4. pc'[p] = "idle" /\ \A q \in Procs \ {p} : pc'[q] = pc[q] /\ loc'[q] = loc[q]
    BY <1>3, LocalTyped, Moved DEF Finish, Points
<1>5. \A q \in Procs : pc'[q] \notin Importing
    BY <1>2, <1>3, LocalTyped, NoneImports DEF Approving, Finish
<1>6. Explicit(rows)' \subseteq Explicit(rows) \cup {l.id} /\ pinned \subseteq pinned'
    BY <1>1 DEF Insert, Explicit, Inv, TypeOK
<1>7. ~l.drawn /\ l.id \in Explicit(rows)' => l.id \in Explicit(rows) \/ l.id \in pinned'
    BY <1>1 DEF Insert, Explicit
<1>8. ASSUME whole' PROVE SeqBehind(pinned)' /\ DrawnApart'
    <2>1. SeqBehind(pinned) /\ DrawnApart
        BY <1>3, <1>8 DEF CalmState
    <2>2. l.drawn => l.id < seq
        BY <1>1, <1>2, <2>1 DEF DrawnApart, At
    <2>3. SeqBehind(pinned)'
        BY <1>3, <1>6, <1>7, <2>1, <2>2 DEF SeqBehind
    <2>4. DrawnApart'
        <3> SUFFICES ASSUME NEW q \in Procs \ {p}, pc[q] = "insert", loc[q].drawn
                     PROVE  /\ loc[q].id < seq
                            /\ loc[q].id \in Explicit(rows)' => loc[q].id \in pinned'
                            /\ \A o \in Procs \ {p, q} : pc[o] = "insert" /\ loc[o].drawn =>
                                   loc[o].id # loc[q].id
            BY <1>3, <1>4 DEF DrawnApart, At
        <3>1. /\ loc[q].id < seq
              /\ loc[q].id \in Explicit(rows) => loc[q].id \in pinned
              /\ \A o \in Procs \ {q} : pc[o] = "insert" /\ loc[o].drawn => loc[o].id # loc[q].id
            BY <2>1 DEF DrawnApart, At
        <3>2. l.drawn => loc[q].id # l.id
            BY <1>1, <1>2, <3>1
        <3> QED  BY <1>6, <1>7, <3>1, <3>2
    <2> QED  BY <2>3, <2>4
<1> QED  BY <1>5, <1>8, NoImport

\* One that finishes, or stops, and leaves what it was about to write.
LEMMA LeaveCalm ==
    ASSUME Inv, CalmState, NEW p \in Procs, pc[p] \in Approving, Finish(p),
           Explicit(rows)' = Explicit(rows), UNCHANGED <<seq, pinned, whole>>
    PROVE  CalmState'
<1>1. pc'[p] = "idle" /\ \A q \in Procs \ {p} : pc'[q] = pc[q] /\ loc'[q] = loc[q]
    BY LocalTyped, Moved DEF Finish, Points
<1>2. \A q \in Procs : pc'[q] \notin Importing
    BY LocalTyped, NoneImports DEF Approving, Finish
<1>3. ASSUME whole' PROVE SeqBehind(pinned)' /\ DrawnApart'
    <2>1. SeqBehind(pinned) /\ DrawnApart
        BY <1>3 DEF CalmState
    <2>2. SeqBehind(pinned)'
        BY <2>1 DEF SeqBehind
    <2>3. DrawnApart'
        BY <1>1, <2>1 DEF DrawnApart, At
    <2> QED  BY <2>2, <2>3
<1> QED  BY <1>2, <1>3, NoImport

LEMMA UpdateFieldsCalm ==
    ASSUME Inv, CalmState, NEW p \in Procs, UpdateResourceFields(p)
    PROVE  CalmState'
<1>1. PICK i \in Ids, n \in Names : i = loc[p].id /\ n = loc[p].name
    BY Here DEF UpdateResourceFields, At, RequestKnows, Approving
<1>2. rows' = rows \/ (i \in Live(rows) /\ rows' = [rows EXCEPT ![i].name = n])
    BY <1>1 DEF UpdateResourceFields
<1>3. Explicit(rows)' = Explicit(rows)
    <2>1. CASE rows' = rows
        BY <2>1 DEF Explicit
    <2>2. CASE i \in Live(rows) /\ rows' = [rows EXCEPT ![i].name = n]
        <3>1. rows[i] \in Row
            BY <2>2 DEF Live, Inv, TypeOK
        <3>2. PICK x \in Row : x = [rows[i] EXCEPT !.name = n] /\ x.explicit = rows[i].explicit
            BY <3>1, RowTyped
        <3>3. rows' = [rows EXCEPT ![i] = x] /\ x # None
            BY <2>2, <3>2, NullsOK
        <3> QED  BY <2>2, <3>2, <3>3 DEF Explicit, Live, Inv, TypeOK
    <2> QED  BY <1>2, <2>1, <2>2
<1> QED  BY <1>3, LeaveCalm DEF UpdateResourceFields, At, Approving, ghosts

LEMMA StopCalm == ASSUME Inv, CalmState, NEW p \in Procs, Stop(p) PROVE CalmState'
<1>1. Finish(p) /\ UNCHANGED <<rows, seq, pinned, whole>> /\ pc[p] # "idle"
    BY DEF Stop, db, ghosts, Busy
<1>2. CASE pc[p] \in Importing
    <2>1. ~whole /\ \A q \in Procs \ {p} : pc[q] = "idle"
        BY <1>2 DEF CalmState, ImportAlone
    <2> QED  BY <1>1, <2>1, LocalTyped, AtImport DEF Finish
<1>3. CASE pc[p] \in Approving
    BY <1>1, <1>3, LeaveCalm DEF Explicit
<1> QED  BY <1>1, <1>2, <1>3, Here DEF RequestKnows

\* What no request does.
LEMMA ExportCalm ==
    ASSUME CalmState, UNCHANGED <<rows, seq, pc, loc, pinned, whole>>
    PROVE  CalmState'
    BY DEF CalmState, ImportAlone, InsertedSoFar, SeqBehind, Explicit, DrawnApart, At

LEMMA DeleteCalm == ASSUME Inv, Delete, calm' PROVE calm /\ (CalmState => CalmState')
<1>1. calm /\ \A q \in Busy : ~loc[q].import
    BY Zenon DEF Delete
<1>2. UNCHANGED <<seq, pc, loc, pinned, whole>>
    BY DEF Delete, ghosts
<1>3. \A q \in Procs : pc'[q] \notin Importing
    BY <1>1, <1>2, Here DEF Busy, RequestKnows, Importing
<1>4. Explicit(rows)' = Explicit(rows)
    <2>1. PICK i \in Live(rows) : rows' = [rows EXCEPT ![i].live = FALSE]
        BY DEF Delete
    <2>2. rows[i] \in Row
        BY DEF Live, Inv, TypeOK
    <2>3. PICK n \in Names : n = rows[i].name
        BY <2>2 DEF Row
    <2>4. PICK x \in Row : x = [rows[i] EXCEPT !.live = FALSE] /\ x.explicit = rows[i].explicit
        BY <2>2, RowTyped
    <2>5. rows' = [rows EXCEPT ![i] = x] /\ x # None
        BY <2>1, <2>4, NullsOK
    <2> QED  BY <2>4, <2>5 DEF Explicit, Live, Inv, TypeOK
<1>5. CalmState /\ whole' => SeqBehind(pinned)' /\ DrawnApart'
    BY <1>2, <1>4 DEF CalmState, SeqBehind, DrawnApart, At
<1> QED  BY <1>1, <1>3, <1>5, NoImport

\* Whatever begins or overlaps an import, calm does not come back.
LEMMA CalmStep ==
    ASSUME Inv, [Next]_vars, calm'
    PROVE  calm
<1>1. ASSUME NEW p \in Procs, Import(p) /\ ~Restore(p) PROVE calm
    BY <1>1 DEF Import, TruncateTopology, InsertGroup, UpsertResource, Resync, ImportDocs
<1>2. ASSUME NEW p \in Procs, Draw(p) \/ Insert(p) \/ UpdateResourceFields(p) \/ Stop(p) PROVE calm
    BY <1>2 DEF Draw, Insert, UpdateResourceFields, Stop
<1>3. CASE Export \/ UNCHANGED vars
    BY <1>3 DEF Export, vars
<1> QED  BY <1>1, <1>2, <1>3, RestoreCalm, CreateCalm, DeleteCalm DEF Next, Approve

LEMMA CalmNext == Inv /\ CalmInv /\ [Next]_vars => CalmInv'
<1> SUFFICES ASSUME Inv, CalmInv, [Next]_vars, calm' PROVE CalmState'
    BY DEF CalmInv
<1>1. CalmState /\ Inv'
    BY CalmStep, NextInv DEF CalmInv
<1>2. ASSUME NEW p \in Procs, Import(p) PROVE CalmState'
    BY <1>1, <1>2, RestoreCalm, TruncateCalm, InsertGroupCalm, UpsertResourceCalm, ResyncCalm,
       ImportDocsCalm DEF Import
<1>3. ASSUME NEW p \in Procs, Approve(p) PROVE CalmState'
    BY <1>1, <1>3, CreateCalm, DrawCalm, InsertCalm, UpdateFieldsCalm DEF Approve
<1>4. CASE Export \/ UNCHANGED vars
    BY <1>1, <1>4, ExportCalm DEF Export, db, vars
<1> QED  BY <1>1, <1>2, <1>3, <1>4, StopCalm, DeleteCalm DEF Next

LEMMA InvCorrect == Spec => [](Inv /\ CalmInv)
    BY InitInv, NextInv, CalmInit, CalmNext, PTL DEF Spec

-----------------------------------------------------------------------------
(* Theorems *)

\* Every reachable state is well typed.
THEOREM RestoreTyped == Spec => []TypeOK
<1>1. Inv => TypeOK
    BY DEF Inv
<1> QED  BY <1>1, InvCorrect, PTL

\* No two live resources have one name, an approval's id is one that files keep, no resource is
\* there without its group, and the backup has what it is to keep under its id (InsertResource,
\* UpdateResourceFromProposal, TruncateTopology, ExportRepoToDir), also while imports overlap
\* approvals, fail or are cut off.
THEOREM TablesConsistent == Spec => [](NamesOnce /\ GivenExplicit /\ NothingUngrouped /\ BackupHolds)
<1>1. Inv => NamesOnce /\ GivenExplicit /\ NothingUngrouped /\ BackupHolds
    BY DEF Inv
<1> QED  BY <1>1, InvCorrect, PTL

\* As long as imports overlap nothing and the last one came to its end, an id drawn from the
\* sequence is one that neither a file nor the sequence has given
\* (ResyncAppCreatedResourceIDSeq, NextAppCreatedResourceID).
THEOREM MintedAlwaysFree == Spec => []MintedIsFree
<1>1. CalmInv => MintedIsFree
    BY DEF CalmInv, CalmState, DrawnApart, MintedIsFree
<1> QED  BY <1>1, InvCorrect, PTL

\* Who ends an import, and that nobody else is there.
LEMMA WhoEnds ==
    ASSUME Inv, CalmState, [Next]_vars, NEW p \in Procs, pc[p] = "docs", whole'
    PROVE  ImportDocs(p)
<1>1. ~whole /\ \A q \in Procs \ {p} : pc[q] = "idle"
    BY DEF CalmState, ImportAlone, Importing
<1>2. ASSUME UNCHANGED whole PROVE FALSE
    BY <1>1, <1>2
<1>3. ASSUME NEW q \in Procs, Import(q) \/ Approve(q) \/ Stop(q)
      PROVE  UNCHANGED whole \/ ~whole' \/ ImportDocs(q)
    BY <1>3 DEF Import, Restore, TruncateTopology, InsertGroup, UpsertResource, Resync, Approve,
       Create, Draw, Insert, Update, UpdateResourceFields, Stop, ghosts
<1>4. Export \/ Delete \/ UNCHANGED vars => UNCHANGED whole
    BY DEF Export, Delete, vars, ghosts
<1>5. PICK q \in Procs : ImportDocs(q)
    BY <1>2, <1>3, <1>4 DEF Next
<1> QED  BY <1>1, <1>5 DEF ImportDocs, At

\* An import that comes to its end, with nothing beside it, leaves what its repository says and
\* nothing else; one from the backup brings back each resource under the id it was given
\* (ImportFromGitHub, runImportTree, ExportRepoToDir).
THEOREM RestoresArchives == Spec => RestoredIsArchive
<1>1. ASSUME Inv, CalmInv, [Next]_vars, NEW p \in Procs, calm, At(p, "docs"), whole'
      PROVE  /\ rows = RowsOf(loc[p].repo) /\ docs' = loc[p].repo
             /\ loc[p].repo = backup =>
                  \A i \in Ids : saved[i] # None => rows[i] # None /\ rows[i].name = saved[i]
    <2>1. PICK l \in Local : l = loc[p]
        BY <1>1, Here
    <2>2. l.repo \in Repo /\ pc[p] = "docs"
        BY <1>1, <2>1, Here DEF At, RequestKnows, Importing
    <2>3. docs' = l.repo
        BY <1>1, <2>1, <2>2, WhoEnds DEF CalmInv, ImportDocs
    <2>4. /\ \A n \in Contents(l.repo) : rows[ResolveID(l.repo, n)] = Loaded(l.repo, n)
          /\ \A i \in Ids : rows[i] # None => \E n \in Contents(l.repo) : ResolveID(l.repo, n) = i
        BY <1>1, <2>1, <2>2 DEF CalmInv, CalmState, InsertedSoFar
    <2>5. \A n \in Contents(l.repo) : ResolveID(l.repo, n) \in Ids /\ Loaded(l.repo, n) # None
        BY <2>2, RepoTyped, NullsOK
    <2>6. ASSUME NEW i \in Ids PROVE rows[i] = RowsOf(l.repo)[i]
        <3>1. CASE \E n \in Contents(l.repo) : ResolveID(l.repo, n) = i
            <4>1. PICK n : n = CHOOSE m \in Contents(l.repo) : ResolveID(l.repo, m) = i
                OBVIOUS
            <4>2. n \in Contents(l.repo) /\ ResolveID(l.repo, n) = i
                BY <3>1, <4>1
            <4> QED  BY <2>4, <3>1, <4>1, <4>2 DEF RowsOf
        <3>2. CASE ~\E n \in Contents(l.repo) : ResolveID(l.repo, n) = i
            BY <2>4, <3>2 DEF RowsOf
        <3> QED  BY <3>1, <3>2
    <2>7. rows = RowsOf(l.repo)
        BY <1>1, <2>6 DEF RowsOf, Inv, TypeOK
    <2>8. ASSUME l.repo = backup, NEW i \in Ids, saved[i] # None
          PROVE  rows[i] # None /\ rows[i].name = saved[i]
        <3>1. PICK n \in Names : n = saved[i]
            BY <1>1, <2>8 DEF Inv, TypeOK
        <3>2. l.repo[n] = i
            BY <1>1, <2>8, <3>1 DEF Inv, BackupHolds
        <3>3. i # None /\ i # NoID
            BY NullsOK
        <3>4. n \in Contents(l.repo) /\ ResolveID(l.repo, n) = i
            BY <3>2, <3>3 DEF Contents, ResolveID
        <3>5. rows[i] = Loaded(l.repo, n) /\ rows[i] # None
            BY <2>4, <2>5, <3>4
        <3> QED  BY <3>1, <3>5 DEF Loaded
    <2> QED  BY <2>1, <2>3, <2>7, <2>8
<1>2. Inv /\ CalmInv /\ [Next]_vars =>
          \A p \in Procs : calm /\ At(p, "docs") /\ whole' =>
              /\ rows = RowsOf(loc[p].repo) /\ docs' = loc[p].repo
              /\ loc[p].repo = backup =>
                   \A i \in Ids : saved[i] # None => rows[i] # None /\ rows[i].name = saved[i]
    BY <1>1
<1> QED  BY <1>2, InvCorrect, PTL DEF Spec, RestoredIsArchive
=============================================================================
