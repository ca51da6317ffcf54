------------------------------- MODULE Restore -------------------------------
(***************************************************************************)
(* The import of a topology repository (internal/topology/persist.go):     *)
(* an administrator's import from GitHub, which first empties the tables,  *)
(* and the command import-tree, which does not; beside approvals that      *)
(* create, rename and delete resources, and the export of a backup. The    *)
(* model follows the rows and the ids of the resources, the sequence new   *)
(* ids are drawn from, and whether the rest has been loaded.               *)
(*                                                                         *)
(* An import is no transaction: each statement commits by itself, and an   *)
(* error or a crash leaves what has been done. An approval is a            *)
(* transaction that writes once, at its end, except that nextval is never  *)
(* rolled back. One resource group stands for the rows above resources.    *)
(***************************************************************************)
EXTENDS Naturals, FiniteSetsExt

CONSTANTS
    Procs,         \* requests and commands that run
    Names,         \* names of resources
    MaxID,         \* bound: nothing is drawn from the sequence beyond it
    GenID,         \* the id the hash of each name gives
    Repos,         \* the repositories there are to import: the ID of each resource
    MaxRequests,   \* bound: nothing starts beyond it
    Faults,        \* statements fail and processes crash
    None, NoID     \* no such resource; a resource without an ID in its file

Ids    == 1..MaxID
Repo   == [Names -> Ids \cup {NoID, None}]
Row    == [name : Names, explicit : BOOLEAN, live : BOOLEAN]
Points == {"idle", "truncate", "group", "resources", "resync", "docs", "draw", "insert", "update"}

ASSUME ConstantsOK == /\ MaxID \in Nat /\ MaxRequests \in Nat /\ Faults \in BOOLEAN
                      /\ GenID \in [Names -> Ids] /\ Repos \subseteq Repo
ASSUME NullsOK == None \notin Names \cup Row \cup Repo \cup Ids \cup {NoID} /\ NoID \notin Ids

VARIABLES
    rows,        \* resources: the row of each topology_id, deleted ones included
    seq,         \* resources_app_created_id_seq: what nextval returns next
    group,       \* which of the groups made so far is there, 0 if none is
    made,        \* how many groups have been made
    docs,        \* the repository whose VOs, projects and the like are loaded
    backup,      \* the repository exported last
    pc, loc,     \* the next statement of each process and its local variables
    begun,       \* how many processes have started
    given,       \* ghost: the ids approvals have assigned
    pinned,      \* ghost: those of them that the proposal named
    saved,       \* ghost: the names whose ids the backup is to keep
    calm,        \* ghost: no import has overlapped anything so far
    whole        \* ghost: the last import has come to its end

vars == <<rows, seq, group, made, docs, backup, pc, loc, begun, given, pinned, saved, calm, whole>>
db   == <<rows, seq, group, made, docs>>
ghosts == <<given, pinned, saved, whole>>

-----------------------------------------------------------------------------
\* An import has its repository, the group it made and the resources still to insert; an
\* approval the group it read, the name and id it writes and whether it drew that id.
Local == [import : BOOLEAN, repo : Repo \cup {None}, todo : SUBSET Names, group : Nat,
          name : Names \cup {None}, id : Ids \cup {NoID}, drawn : BOOLEAN]

NoLocal == [import |-> FALSE, repo |-> None, todo |-> {}, group |-> 0,
            name |-> None, id |-> NoID, drawn |-> FALSE]

Live(rs)     == {i \in Ids : rs[i] # None /\ rs[i].live}
Explicit(rs) == {i \in Ids : rs[i] # None /\ rs[i].explicit}
Named(n)     == {i \in Live(rows) : rows[i].name = n}
Contents(a)  == {n \in Names : a[n] # None}

Init ==
    /\ rows = [i \in Ids |-> None] /\ saved = rows
    /\ seq = 1 /\ group = 0 /\ made = 0 /\ docs = None /\ backup = None
    /\ pc = [p \in Procs |-> "idle"] /\ loc = [p \in Procs |-> NoLocal]
    /\ begun = 0 /\ given = {} /\ pinned = {} /\ calm = TRUE /\ whole = TRUE

At(p, point)      == pc[p] = point
Goto(p, point, l) == pc' = [pc EXCEPT ![p] = point] /\ loc' = [loc EXCEPT ![p] = l]
Finish(p)         == Goto(p, "idle", NoLocal)
Busy              == {p \in Procs : pc[p] # "idle"}

\* A new request; loc tells whether it is an import.
Begin(p, point, l) ==
    /\ At(p, "idle") /\ begun < MaxRequests
    /\ begun' = begun + 1
    /\ calm' = (calm /\ \A q \in Busy : ~l.import /\ ~loc[q].import)
    /\ Goto(p, point, l)

-----------------------------------------------------------------------------
(* Imports. A definition marked "slip" is a mistake this code could have made; PROJECT.json   *)
(* puts it in the place of the definition that follows it to show that the property it names  *)
(* would notice.                                                                              *)

\* The id of resource n of repository a.
ResolveID(a, n) == IF a[n] = NoID THEN GenID[n] ELSE a[n]

\* What can be downloaded, or was exported and is at hand.
Available == Repos \cup ({backup} \ {None})

\* ImportFromGitHub, after the download, and runImportTree.
Restore(p) ==
    \E a \in Available, point \in {"truncate", "group"} :
        /\ Begin(p, point, [NoLocal EXCEPT !.import = TRUE, !.repo = a])
        /\ whole' = FALSE
        /\ UNCHANGED <<db, backup, given, pinned, saved>>

TruncateTopology(p) ==
    /\ At(p, "truncate")
    /\ rows' = [i \in Ids |-> None] /\ group' = 0 /\ docs' = None
    /\ given' = {} /\ pinned' = {}
    /\ Goto(p, "group", loc[p])
    /\ UNCHANGED <<seq, made, backup, begun, saved, calm, whole>>

\* The rows above the resources; one that is there already is an error.
InsertGroup(p) ==
    /\ At(p, "group")
    /\ IF group # 0 THEN Finish(p) /\ UNCHANGED <<group, made>>
       ELSE /\ group' = made + 1 /\ made' = made + 1
            /\ Goto(p, "resources",
                    [loc[p] EXCEPT !.group = made + 1, !.todo = Contents(loc[p].repo)])
    /\ UNCHANGED <<rows, seq, docs, backup, begun, ghosts, calm>>

\* What the constraints of the table say to a new row: its id is taken by no row, its name by
\* no live one, and its group exists.
Insertable(id, n, g) == rows[id] = None /\ Named(n) = {} /\ g = group

\* The row of resource n of repository a.
Loaded(a, n) == [name |-> n, explicit |-> a[n] # NoID, live |-> TRUE]

\* One resource, in the order of a Go map; with its services and contacts, and the downtimes.
UpsertResource(p) ==
    LET l == loc[p] IN
    /\ At(p, "resources") /\ l.todo # {}
    /\ \E n \in l.todo :
        LET id == ResolveID(l.repo, n) IN
        IF ~Insertable(id, n, l.group) THEN Finish(p) /\ UNCHANGED rows
        ELSE /\ rows' = [rows EXCEPT ![id] = Loaded(l.repo, n)]
             /\ Goto(p, "resources", [l EXCEPT !.todo = @ \ {n}])
    /\ UNCHANGED <<seq, group, made, docs, backup, begun, ghosts, calm>>

Resynced == 1 + Max({0} \cup Explicit(rows))

\* ResyncAppCreatedResourceIDSeq, when all resources are in.
Resync(p) ==
    /\ At(p, "resources") /\ loc[p].todo = {}
    /\ seq' = Resynced
    /\ Goto(p, "docs", loc[p])
    /\ UNCHANGED <<rows, group, made, docs, backup, begun, ghosts, calm>>

\* ImportVOs, ImportReportingGroups, ImportProjects, ImportCampusGrids.
ImportDocs(p) ==
    /\ At(p, "docs")
    /\ docs' = loc[p].repo /\ whole' = TRUE
    /\ Finish(p)
    /\ UNCHANGED <<rows, seq, group, made, backup, begun, given, pinned, saved, calm>>

\* slip: no ID is written, as for a resource whose id is the hash of its name.
WrittenNever(i) == NoID

\* idPtr.
Written(i) == IF rows[i].explicit THEN i ELSE NoID

\* What the file of a resource says of its id. No two live resources have one name.
Filed(n) == IF Named(n) = {} THEN None ELSE Written(CHOOSE i \in Named(n) : TRUE)

\* ExportRepoToDir.
Export ==
    /\ Live(rows) # {}
    /\ backup' = [n \in Names |-> Filed(n)]
    /\ saved' = [i \in Ids |-> IF i \in Live(rows) \cap (given \cup Explicit(rows))
                              THEN rows[i].name ELSE None]
    /\ UNCHANGED <<db, pc, loc, begun, given, pinned, calm, whole>>

-----------------------------------------------------------------------------
(* Approvals *)

\* CreateResourceFromProposal for a group that is there; a proposal may name the ID.
Create(p) ==
    \E n \in Names, id \in Ids \cup {NoID} :
        /\ group # 0
        /\ Begin(p, IF id = NoID THEN "draw" ELSE "insert",
                 [NoLocal EXCEPT !.group = group, !.name = n, !.id = id])
        /\ UNCHANGED <<db, backup, ghosts>>

\* slip: the next id is looked up among the resources, where nobody sees what others draw.
NextByMax == 1 + Max({0} \cup Explicit(rows))

NextID == seq

\* NextAppCreatedResourceID.
Draw(p) ==
    /\ At(p, "draw") /\ NextID \in Ids
    /\ seq' = seq + 1
    /\ Goto(p, "insert", [loc[p] EXCEPT !.id = NextID, !.drawn = TRUE])
    /\ UNCHANGED <<rows, group, made, docs, backup, begun, ghosts, calm>>

Created(l) == [name |-> l.name, explicit |-> TRUE, live |-> TRUE]

\* InsertResource, and the commit.
Insert(p) ==
    LET l == loc[p] IN
    /\ At(p, "insert")
    /\ IF Insertable(l.id, l.name, l.group)
       THEN /\ rows' = [rows EXCEPT ![l.id] = Created(l)]
            /\ given' = given \cup {l.id}
            /\ pinned' = IF l.drawn THEN pinned ELSE pinned \cup {l.id}
       ELSE UNCHANGED <<rows, given, pinned>>
    /\ Finish(p)
    /\ UNCHANGED <<seq, group, made, docs, backup, begun, saved, calm, whole>>

\* UpdateResourceFromProposal: a resource is found by its id and may get another name.
Update(p) ==
    \E i \in Live(rows), n \in Names :
        /\ group # 0
        /\ Begin(p, "update", [NoLocal EXCEPT !.group = group, !.name = n, !.id = i])
        /\ UNCHANGED <<db, backup, ghosts>>

UpdateResourceFields(p) ==
    LET l == loc[p] IN
    /\ At(p, "update")
    /\ rows' = IF l.id \in Live(rows) /\ l.group = group /\ Named(l.name) \subseteq {l.id}
               THEN [rows EXCEPT ![l.id].name = l.name] ELSE rows
    /\ Finish(p)
    /\ UNCHANGED <<seq, group, made, docs, backup, begun, ghosts, calm>>

\* SoftDeleteResource, in one statement. The row keeps its id.
Delete ==
    /\ \E i \in Live(rows) : rows' = [rows EXCEPT ![i].live = FALSE]
    /\ calm' = (calm /\ \A q \in Busy : ~loc[q].import)
    /\ UNCHANGED <<seq, group, made, docs, backup, pc, loc, begun, ghosts>>

\* Any error, and a crash.
Stop(p) ==
    /\ Faults /\ p \in Busy /\ Finish(p)
    /\ UNCHANGED <<db, backup, begun, ghosts, calm>>

-----------------------------------------------------------------------------

Import(p)  == Restore(p) \/ TruncateTopology(p) \/ InsertGroup(p) \/ UpsertResource(p)
              \/ Resync(p) \/ ImportDocs(p)
Approve(p) == Create(p) \/ Draw(p) \/ Insert(p) \/ Update(p) \/ UpdateResourceFields(p)

Next == \/ \E p \in Procs : Import(p) \/ Approve(p) \/ Stop(p)
        \/ Export \/ Delete

Spec == Init /\ [][Next]_vars

-----------------------------------------------------------------------------
(* Properties *)

\* Types.
TypeOK ==
    /\ rows \in [Ids -> Row \cup {None}] /\ saved \in [Ids -> Names \cup {None}]
    /\ seq \in 1..(MaxID + 1) /\ group \in 0..made /\ made \in Nat
    /\ docs \in Repo \cup {None} /\ backup \in Repo \cup {None}
    /\ pc \in [Procs -> Points] /\ loc \in [Procs -> Local]
    /\ begun \in Nat /\ pinned \subseteq given /\ given \subseteq Ids
    /\ calm \in BOOLEAN /\ whole \in BOOLEAN

\* The rows an import of a is to leave.
RowsOf(a) == [i \in Ids |->
    IF \E n \in Contents(a) : ResolveID(a, n) = i
    THEN Loaded(a, CHOOSE n \in Contents(a) : ResolveID(a, n) = i)
    ELSE None]

\* An import that comes to its end, with nothing beside it, leaves what its repository says and
\* nothing else, also when it follows one that was cut short; and one from the backup brings
\* back under its id each resource that an approval had given that id or a file an ID: it
\* "survives a backup/restore round-trip" (CreateResourceFromProposal), however often the
\* resource was renamed.
RestoredIsArchive ==
    [][\A p \in Procs : calm /\ At(p, "docs") /\ whole' =>
           /\ rows = RowsOf(loc[p].repo) /\ docs' = loc[p].repo
           /\ loc[p].repo = backup => 
                \A i \in Ids : saved[i] # None => rows[i] # None /\ rows[i].name = saved[i]]_vars

\* As long as imports overlap nothing and the last one came to its end, an id drawn from the
\* sequence is not one a file has given (ResyncAppCreatedResourceIDSeq: "or every app-created
\* resource keeps drawing from a sequence stuck near 1"), nor one given by the sequence before,
\* to a deleted resource or to an approval that is still running. A proposal can still have
\* named it, and the hash of a name can be it: then the approval fails, and the next one draws
\* another.
MintedIsFree ==
    \A p \in Procs : calm /\ whole /\ At(p, "insert") /\ loc[p].drawn =>
        /\ loc[p].id \in Explicit(rows) => loc[p].id \in pinned
        /\ \A q \in Procs \ {p} : At(q, "insert") /\ loc[q].drawn => loc[q].id # loc[p].id
=============================================================================
