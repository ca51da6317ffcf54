------------------------------- MODULE History -------------------------------
(***************************************************************************)
(* The replay of a repository's git history into change proposals that are *)
(* already applied (internal/githistory, the command import-history),      *)
(* while people go on committing. A run lists the commits, follows every   *)
(* entity through its renames, and then writes one row per commit that     *)
(* changed something. It may stop at a limit, fail or crash; the next run  *)
(* skips the commits that have a row.                                      *)
(*                                                                         *)
(* The model has one kind of entity, whose name is its path. What git      *)
(* tells of a commit is the changed paths; of two versions of a file it    *)
(* keeps whether they differ in something the importer models. Resources,  *)
(* which a row names by their id, and the authors are left out.            *)
(***************************************************************************)
EXTENDS Naturals, Sequences

CONSTANTS
    Procs,        \* runs of import-history
    Paths,
    MaxCommits,   \* bound: nobody commits beyond it
    MaxRuns,      \* bound: no run starts beyond it
    Faults,       \* runs fail and crash
    None

ASSUME ConstantsOK == MaxCommits \in Nat /\ MaxRuns \in Nat /\ Faults \in BOOLEAN

Entities == 1..MaxCommits     \* by the commit that has added them
Operation == [A |-> "create", M |-> "update", R |-> "update", C |-> "update", D |-> "delete"]

\* A changed path of a commit: add, modify, rename, copy or delete, as diff-tree shows it.
\* Ghost: which entity it really is.
Change == [commit : Entities, status : DOMAIN Operation, old : Paths \cup {None},
           new : Paths \cup {None}, quiet : BOOLEAN, entity : Entities]

\* A change_proposals row that a run has written. Ghosts: the newest commit the run had
\* listed, and from which commit on it had skipped none.
Row == [changes : SUBSET [op : {"create", "update", "delete"}, target : Paths \cup {None},
                          entity : Entities],
        head : Entities, from : 1..(MaxCommits + 1)]

ASSUME NullsOK == None \notin Paths \cup Entities \cup Row

VARIABLES
    history,      \* the changed paths of the first-parent commits, oldest first
    owner,        \* ghost: the entity each path of the newest commit holds
    rows,         \* change_proposals with a source_commit_sha, by commit
    pc, loc,      \* the next step of each run and its local variables
    runs,         \* how many runs have started
    listed        \* ghost: the commits that a run which came to its end had listed

vars == <<history, owner, rows, pc, loc, runs, listed>>

-----------------------------------------------------------------------------
\* head and since delimit the commits a run has listed, plan is what it has still to write,
\* limit how much it may write, 0 without a limit.
NoLocal == [head |-> 0, since |-> 1, limit |-> 0, plan |-> {}]

Newest  == IF history = <<>> THEN 0 ELSE history[Len(history)].commit
Commits == 1..Newest

Init ==
    /\ history = <<>> /\ owner = [p \in Paths |-> None]
    /\ rows = [k \in 1..MaxCommits |-> None]
    /\ pc = [r \in Procs |-> "idle"] /\ loc = [r \in Procs |-> NoLocal]
    /\ runs = 0 /\ listed = {}

At(r, point) == pc[r] = point
Goto(r, point, l) == pc' = [pc EXCEPT ![r] = point] /\ loc' = [loc EXCEPT ![r] = l]
Finish(r)         == Goto(r, "idle", NoLocal)

-----------------------------------------------------------------------------
(* What people commit *)

Next1 == Newest + 1

Push(changes, held) ==
    /\ Next1 <= MaxCommits
    /\ history' = history \o changes /\ owner' = held
    /\ UNCHANGED <<rows, pc, loc, runs, listed>>

Changed(s, p, q, quiet, e) ==
    [commit |-> Next1, status |-> s, old |-> p, new |-> q, quiet |-> quiet, entity |-> e]

Add(p) ==
    /\ owner[p] = None
    /\ Push(<<Changed("A", None, p, FALSE, Next1)>>, [owner EXCEPT ![p] = Next1])

Modify(p) ==
    /\ owner[p] # None
    /\ \E quiet \in BOOLEAN : Push(<<Changed("M", p, p, quiet, owner[p])>>, owner)

Rename(p, q) ==
    /\ owner[p] # None /\ owner[q] = None
    /\ Push(<<Changed("R", p, q, FALSE, owner[p])>>,
            [owner EXCEPT ![p] = None, ![q] = owner[p]])

\* Without --find-copies-harder git sees a copy only of a file the commit modifies as well.
Copy(p, q) ==
    /\ owner[p] # None /\ owner[q] = None
    /\ LET m == Changed("M", p, p, FALSE, owner[p])
           c == Changed("C", p, q, FALSE, Next1)
       IN  \E changes \in {<<m, c>>, <<c, m>>} : Push(changes, [owner EXCEPT ![q] = Next1])

Delete(p) ==
    /\ owner[p] # None
    /\ Push(<<Changed("D", p, None, FALSE, owner[p])>>, [owner EXCEPT ![p] = None])

-----------------------------------------------------------------------------
(* PathIdentity. A definition marked "slip" is a mistake this code could have made;           *)
(* PROJECT.json puts it in the place of the definition that follows it to show that the       *)
(* property it names would notice.                                                            *)

\* final has an entry for every identity.
NewPathIdentity == [current |-> [p \in Paths |-> 0], final |-> <<>>]

Vacated(current, p) == IF p = None THEN current ELSE [current EXCEPT ![p] = 0]

\* The identity a change belongs to, 0 for a new one: by its path before the change.
Known(reg, ch) ==
    CASE ch.status = "A" -> 0
      [] ch.status = "M" -> reg.current[ch.new]
      [] OTHER           -> reg.current[ch.old]

Identity(reg, ch) == IF Known(reg, ch) = 0 THEN Len(reg.final) + 1 ELSE Known(reg, ch)

\* A delete leaves the final name as it was, "" if there is none yet.
Touch(reg, ch) ==
    LET known == Known(reg, ch)
        id    == Identity(reg, ch)
        left  == IF known = 0 \/ ch.status \in {"A", "M"} THEN reg.current
                 ELSE Vacated(reg.current, ch.old)
        final == IF known = 0 THEN Append(reg.final, None) ELSE reg.final
    IN  [current |-> IF ch.status = "D" THEN left ELSE [left EXCEPT ![ch.new] = id],
         final   |-> IF ch.status = "D" THEN final ELSE [final EXCEPT ![id] = ch.new]]

-----------------------------------------------------------------------------
(* A run *)

\* slip: a run goes on after the newest commit that has a row.
AlreadyUpToNewest == {k \in Commits : \E j \in Commits : j >= k /\ rows[j] # None}

\* ListImportedCommitSHAs.
Already == {k \in Commits : rows[k] # None}

\* Pass 1 over the changed paths of some commits: the registry after each of them.
PassOne(walk) ==
    LET after[n \in 0..Len(history)] ==
            IF n = 0 THEN NewPathIdentity
            ELSE IF history[n].commit \in walk THEN Touch(after[n - 1], history[n])
            ELSE after[n - 1]
    IN  after

\* slip: one pass, which names an entity as it is called so far.
FinalNameSoFar(after, n) == after[n].final[Identity(after[n - 1], history[n])]

\* The name of the n-th changed path, when the whole walk has been seen.
FinalName(after, n) == after[Len(history)].final[Identity(after[n - 1], history[n])]

\* A file that was edited without a change to what the importer keeps of it.
Same(ch) == ch.status = "M" /\ ch.quiet

\* decomposeChangedPath: what a changed path comes to in the row of its commit. A file that
\* moved has changed, whatever its contents.
Decompose(after, n) ==
    [op |-> Operation[history[n].status], target |-> FinalName(after, n),
     entity |-> history[n].entity]

\* Ghost: from which commit on a walk has missed none.
Unbroken(walk, head) ==
    CHOOSE f \in 1..(head + 1) : f..head \subseteq walk /\ f - 1 \notin walk

\* The rows to write: one for each commit that comes to something. Ghosts: the newest commit
\* the run has listed, and from which on it had skipped none.
Planned(l, already) ==
    LET walk   == (l.since..l.head) \ already
        after  == PassOne(walk)
        RowOf(k) == [commit |-> k,
                   changes |-> {Decompose(after, n) : n \in {m \in DOMAIN history :
                                    history[m].commit = k /\ ~Same(history[m])}},
                   head |-> l.head, from |-> Unbroken(walk, l.head)]
    IN  {row \in {RowOf(k) : k \in walk} : row.changes # {}}

\* ListCommits.
Start(r) ==
    /\ At(r, "idle") /\ runs < MaxRuns /\ history # <<>>
    /\ runs' = runs + 1
    /\ \E since \in Commits, limit \in 0..1 :
        Goto(r, "list", [NoLocal EXCEPT !.head = Newest, !.since = since, !.limit = limit])
    /\ UNCHANGED <<history, owner, rows, listed>>

\* The rows there are, and pass 1, which only asks git.
List(r) ==
    /\ At(r, "list")
    /\ Goto(r, "write", [loc[r] EXCEPT !.plan = Planned(loc[r], Already)])
    /\ UNCHANGED <<history, owner, rows, runs, listed>>

\* writeCommitProposal, the oldest commit left. The unique index refuses a second row of a
\* commit, and the run fails.
Write(r) ==
    LET l == loc[r] IN
    /\ At(r, "write")
    /\ \E row \in l.plan :
        /\ \A other \in l.plan : row.commit <= other.commit
        /\ IF rows[row.commit] # None THEN Finish(r) /\ UNCHANGED rows
           ELSE /\ rows' = [rows EXCEPT ![row.commit] =
                               [changes |-> row.changes, head |-> row.head, from |-> row.from]]
                /\ IF l.limit = 1 THEN Finish(r)
                   ELSE Goto(r, "write", [l EXCEPT !.plan = @ \ {row}])
    /\ UNCHANGED <<history, owner, runs, listed>>

Complete(r) ==
    /\ At(r, "write") /\ loc[r].plan = {}
    /\ listed' = listed \cup (loc[r].since..loc[r].head)
    /\ Finish(r)
    /\ UNCHANGED <<history, owner, rows, runs>>

\* A statement or git fails, or the run crashes.
Stop(r) ==
    /\ Faults /\ ~At(r, "idle") /\ Finish(r)
    /\ UNCHANGED <<history, owner, rows, runs, listed>>

-----------------------------------------------------------------------------

Commit == \E p \in Paths : \/ Add(p) \/ Modify(p) \/ Delete(p)
                           \/ \E q \in Paths : Rename(p, q) \/ Copy(p, q)
Run(r) == Start(r) \/ List(r) \/ Write(r) \/ Complete(r) \/ Stop(r)

Next == Commit \/ \E r \in Procs : Run(r)
Spec == Init /\ [][Next]_vars

-----------------------------------------------------------------------------
(* Properties *)

\* The last change of an entity, up to a commit, that left it with a name.
Named(e, h)  == {n \in DOMAIN history : /\ history[n].commit <= h /\ history[n].entity = e
                                        /\ history[n].status # "D"}
Naming(e, h) == history[CHOOSE n \in Named(e, h) : \A m \in Named(e, h) : m <= n]

\* The entities whose file a commit between two has copied.
Copied(k, h) ==
    {history[n].entity : n \in {i \in DOMAIN history :
        /\ history[i].status = "M" /\ history[i].commit \in k..h
        /\ \E m \in DOMAIN history : /\ history[m].commit = history[i].commit
                                     /\ history[m].status = "C"
                                     /\ history[m].old = history[i].new}}

\* Whatever runs were cut short and whatever ran beside them: a commit that a run has listed and
\* that changed something has its row once such a run is through ("a re-run of the history
\* importer can skip commits it already wrote instead of needing a separate checkpoint file").
HistoryReplayed ==
    \A n \in DOMAIN history :
        history[n].commit \in listed /\ ~Same(history[n]) => rows[history[n].commit] # None

\* A row names each entity as it was called at the newest commit its run had listed ("so a
\* pre-rename historical row still shows up under the name the entity has today"), or last if
\* that was deleted. It is so for a row with no older one in the way: if the run skipped a later
\* commit (import-history with a later "since" first) it has missed renames. Nor is it so for a
\* file that was copied since; and a deletion alone may come without a name, when the run has
\* not seen the commit that gave it, or its file was copied.
RowsNameLast ==
    \A k \in Commits : rows[k] # None /\ rows[k].from <= k =>
        \A c \in rows[k].changes :
            /\ c.entity \notin Copied(k, rows[k].head) /\ c.target # None =>
                  c.target = Naming(c.entity, rows[k].head).new
            /\ c.target = None =>
                  /\ c.op = "delete"
                  /\ \/ Naming(c.entity, rows[k].head).commit < rows[k].from
                     \/ c.entity \in Copied(rows[k].from, rows[k].head)
=============================================================================
