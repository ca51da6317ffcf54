----------------------------- MODULE Proposals -----------------------------
(***************************************************************************)
(* The change-proposal workflow: CreateProposal, ReviseProposal,           *)
(* SubmitProposal, WithdrawProposal, RejectProposal and ApproveProposal of *)
(* internal/handlers/proposals.go over the tables of migration 004, with   *)
(* the stale-base guard of internal/handlers/proposal_stale.go.            *)
(*                                                                         *)
(* A process is one HTTP handler in flight. Every statement or transaction *)
(* a handler sends to Postgres is one step of its process, so any number   *)
(* of handlers interleave exactly where the code lets them. Postgres runs  *)
(* at READ COMMITTED: a statement reads what was committed when it began,  *)
(* a write waits for the row (or unique-index entry) another open          *)
(* transaction holds and then goes on with the row as it is.               *)
(***************************************************************************)
EXTENDS Naturals, FiniteSets

CONSTANTS
    Procs,          \* handlers that may be in flight at once
    Users,
    Managers,       \* users whose effective role is manager or administrator
    Pids,           \* proposal ids (gen_random_uuid())
    Entities,       \* live entities, by the key a proposal targets them with
    Guarded,        \* entities of the kinds entityUpdatedAt and snapshotEntity know
    Upserted,       \* entities whose create is never refused: a project's upserts, a
                    \* downtime's adds a row, of which live keeps the newest
    ResourceContacts, \* ResourceContacts[e]: contacts who may decide downtime e
    Invites,        \* onboarding invites
    Fields,         \* the fields of an entity's state
    Values,
    Blank,          \* what a field that was never mentioned decodes to
    Payloads,       \* request payloads: values for some of the fields
    InitialState,   \* what the entities that exist at the start hold
    Existing,       \* the entities that exist at the start
    NoRow, None,    \* no live row; SQL NULL
    Audited,        \* the actions whose audit rows are kept
    MaxRevisions,   \* bound: a proposal with so many revisions is not revised again
    MaxApplies      \* bound: no approval starts once so many applies have committed

-----------------------------------------------------------------------------
(* Rows of the tables *)

States   == [Fields -> Values]
Ops      == {"create", "update", "delete"}
Statuses == {"draft", "pending", "rejected", "applied", "withdrawn"}
Actions  == {"create", "revise", "submit", "withdraw", "reject", "approve"}

Row      == [state : States, stamp : Nat]
Proposal == [op : Ops, target : Entities, base : States \cup {NoRow},
             baseStamp : Nat \cup {None}, state : States, status : Statuses,
             creator : Users, reviewer : Users \cup {None}]
Revision == [no : Nat, state : States, by : Users]

ASSUME ConstantsOK ==
    /\ Managers \subseteq Users
    /\ Guarded \subseteq Entities /\ Upserted \subseteq Entities
    /\ Existing \subseteq Entities
    /\ ResourceContacts \in [Entities \ Guarded -> SUBSET Users]
    /\ Blank \in Values
    /\ Payloads \subseteq UNION {[S -> Values] : S \in SUBSET Fields}
    /\ InitialState \in States
    /\ MaxRevisions \in Nat /\ MaxApplies \in Nat

ASSUME NullsOK ==
    /\ None \notin Users \cup Nat \cup Pids \cup Entities \cup Procs
    /\ None \notin Ops \cup Statuses \cup Actions
    /\ NoRow \notin States \cup Row \cup Proposal

VARIABLES
    live,       \* live[e]: the row of e with the stamp of its updated_at, or NoRow
    lock,       \* lock[e]: the open transaction holding e's row or index entry
    clock,      \* stamps handed out: one per transaction that wrote an entity
    prop,       \* change_proposals
    revs,       \* change_proposal_revisions, committed rows, by proposal
    links,      \* proposal_pending_invites, by proposal
    accepted,   \* invites whose used_at is set
    audit,      \* which audit_log rows exist, as <<action, proposal>>
    commits,    \* ghost: how many apply transactions of each proposal committed
    pc, req     \* the next statement of each handler, and its local variables

tables == <<live, lock, clock, prop, revs, links, accepted, audit, commits>>
vars   == <<live, lock, clock, prop, revs, links, accepted, audit, commits, pc, req>>

-----------------------------------------------------------------------------
(* The local variables of a handler *)

Points  == {"idle", "stamp", "insert", "link",        \* CreateProposal
            "number", "revision", "head",             \* ReviseProposal
            "count", "check", "write", "commit",      \* ApproveProposal
            "status", "audit"}

Request == [user : Users \cup {None}, pid : Pids \cup {None}, op : Ops \cup {None},
            target : Entities \cup {None}, base : States \cup {NoRow},
            baseStamp : Nat \cup {None}, state : States, status : Statuses \cup {None},
            invites : SUBSET Invites, no : Nat, action : Actions \cup {None}]

Undecoded == [f \in Fields |-> Blank]

NoRequest == [user |-> None, pid |-> None, op |-> None, target |-> None, base |-> NoRow,
              baseStamp |-> None, state |-> Undecoded, status |-> None,
              invites |-> {}, no |-> 0, action |-> None]

Proposed == {p \in Pids : prop[p] # NoRow}

\* entityUpdatedAt: NULL for the kinds it does not know and for a missing row.
EntityUpdatedAt(e) ==
    IF e \in Guarded /\ live[e] # NoRow THEN live[e].stamp ELSE None

\* snapshotEntity: the state in the proposal's own shape, on the same terms.
SnapshotEntity(e) ==
    IF e \in Guarded /\ live[e] # NoRow THEN live[e].state ELSE NoRow

\* A payload nothing is merged under: what it leaves out decodes to the zero value.
Decoded(payload) ==
    [f \in Fields |-> IF f \in DOMAIN payload THEN payload[f] ELSE Blank]

\* mergeProposedState: the payload's fields over the base, every other field kept.
MergeProposedState(base, payload) ==
    [f \in Fields |-> IF f \in DOMAIN payload THEN payload[f] ELSE base[f]]

\* The proposed_state a payload becomes: an update is merged over what it edits, a
\* create stands alone, a delete carries nothing the code ever reads.
StateFor(op, base, payload) ==
    IF op = "delete" THEN Undecoded
    ELSE IF op = "update" /\ base # NoRow THEN MergeProposedState(base, payload)
    ELSE Decoded(payload)

\* canDecideProposal: managers decide anything, a resource's contacts its downtimes.
CanDecide(u, e) == \/ u \in Managers
                   \/ e \notin Guarded /\ u \in ResourceContacts[e]

-----------------------------------------------------------------------------
(* Steps of a handler. A definition marked "slip" is a mistake this code could have *)
(* made; PROJECT.json puts it in the place of the definition that follows it to     *)
(* show that the property it names would notice.                                    *)

Init ==
    /\ live     = [e \in Entities |-> IF e \in Existing
                                        THEN [state |-> InitialState, stamp |-> 0]
                                        ELSE NoRow]
    /\ lock     = [e \in Entities |-> None]
    /\ clock    = 0
    /\ prop     = [p \in Pids |-> NoRow]
    /\ revs     = [p \in Pids |-> {}]
    /\ links    = [p \in Pids |-> {}]
    /\ accepted = {}
    /\ audit    = {}
    /\ commits  = [p \in Pids |-> 0]
    /\ pc       = [w \in Procs |-> "idle"]
    /\ req      = [w \in Procs |-> NoRequest]

\* w goes on to the statement "next" with local variables r.
Continue(w, next, r) == /\ pc'  = [pc  EXCEPT ![w] = next]
                        /\ req' = [req EXCEPT ![w] = r]

\* w has answered its request, with success or with an error.
Finish(w) == Continue(w, "idle", NoRequest)

-----------------------------------------------------------------------------
(* CreateProposal *)

\* Pids stands for an inexhaustible supply of UUIDs: no request for a proposal
\* starts that would find none left.
RoomForProposal ==
    Cardinality(Proposed) + Cardinality({w \in Procs : pc[w] \in {"stamp", "insert"}})
        < Cardinality(Pids)

NewRequest(u, op, e, base, payload, status, invs) ==
    [NoRequest EXCEPT !.user = u, !.op = op, !.target = e, !.base = base,
                      !.state = StateFor(op, base, payload), !.status = status,
                      !.invites = invs, !.action = "create"]

\* The request for something new reads nothing before its insert.
CreateNew(w) ==
    /\ pc[w] = "idle" /\ RoomForProposal
    /\ \E u \in Users, e \in Entities, payload \in Payloads,
          status \in {"draft", "pending"}, invs \in SUBSET Invites :
          Continue(w, "insert", NewRequest(u, "create", e, NoRow, payload, status, invs))
    /\ UNCHANGED tables

\* The request to change something begins by snapshotting it.
CreateBranch(w) ==
    /\ pc[w] = "idle" /\ RoomForProposal
    /\ \E u \in Users, op \in {"update", "delete"}, e \in Entities, payload \in Payloads,
          status \in {"draft", "pending"}, invs \in SUBSET Invites :
          Continue(w, "stamp",
                   NewRequest(u, op, e, SnapshotEntity(e), payload, status, invs))
    /\ UNCHANGED tables

\* ... and then, in a statement of its own, reads when that was last changed.
CreateStamp(w) ==
    /\ pc[w] = "stamp"
    /\ Continue(w, "insert",
                [req[w] EXCEPT !.baseStamp = EntityUpdatedAt(req[w].target)])
    /\ UNCHANGED tables

\* One transaction: the proposal and its first revision.
CreateInsert(w) ==
    LET r == req[w] IN
    /\ pc[w] = "insert"
    /\ \E p \in Pids \ Proposed :
          /\ prop' = [prop EXCEPT ![p] =
                [op |-> r.op, target |-> r.target, base |-> r.base,
                 baseStamp |-> r.baseStamp, state |-> r.state, status |-> r.status,
                 creator |-> r.user, reviewer |-> None]]
          /\ revs' = [revs EXCEPT ![p] = {[no |-> 1, state |-> r.state, by |-> r.user]}]
          /\ Continue(w, IF r.invites = {} THEN "audit" ELSE "link",
                      [r EXCEPT !.pid = p])
    /\ UNCHANGED <<live, lock, clock, links, accepted, audit, commits>>

\* AddProposalPendingInvites: a statement per invite, outside that transaction.
CreateLink(w) ==
    LET r == req[w] IN
    /\ pc[w] = "link"
    /\ \E i \in r.invites :
          /\ links' = [links EXCEPT ![r.pid] = @ \cup {i}]
          /\ Continue(w, IF r.invites = {i} THEN "audit" ELSE "link",
                      [r EXCEPT !.invites = @ \ {i}])
    /\ UNCHANGED <<live, lock, clock, prop, revs, accepted, audit, commits>>

-----------------------------------------------------------------------------
(* ReviseProposal *)

\* GetProposal, the checks, and the merge over the proposal as it was read.
ReviseRead(w) ==
    /\ pc[w] = "idle"
    /\ \E u \in Users, p \in Proposed, payload \in Payloads :
          /\ u = prop[p].creator \/ u \in Managers
          /\ prop[p].status \notin {"applied", "rejected"}
          /\ Cardinality(revs[p]) < MaxRevisions
          /\ Continue(w, "number",
                [NoRequest EXCEPT !.user = u, !.pid = p, !.action = "revise",
                   !.state = StateFor(prop[p].op, prop[p].state, payload)])
    /\ UNCHANGED tables

Numbers(p) == {r.no : r \in revs[p]}

\* COALESCE(MAX(revision_no), 0), over the committed rows.
LastNo(p) == IF revs[p] = {} THEN 0
             ELSE CHOOSE n \in Numbers(p) : \A m \in Numbers(p) : m <= n

ReviseNumber(w) ==
    /\ pc[w] = "number"
    /\ Continue(w, "revision", [req[w] EXCEPT !.no = LastNo(req[w].pid) + 1])
    /\ UNCHANGED tables

\* slip: no unique index, so MAX + 1 may be given out twice (RevisionLogOK).
NumberUnchecked(w) == req[w].no = 0

\* UNIQUE (proposal_id, revision_no): the insert waits for an open transaction that
\* inserted the same number, and fails if that number is committed.
NumberHeld(w)  == \E v \in Procs \ {w} : /\ pc[v] = "head"
                                         /\ req[v].pid = req[w].pid
                                         /\ req[v].no = req[w].no
NumberTaken(w) == req[w].no \in Numbers(req[w].pid)

ReviseInsert(w) ==
    /\ pc[w] = "revision"
    /\ ~NumberHeld(w)
    /\ IF NumberTaken(w) THEN Finish(w) ELSE Continue(w, "head", req[w])
    /\ UNCHANGED tables

\* slip: the log keeps the state being replaced (LiveIsRecorded, ImplementsRevisionLog).
OldRevision(r) == [no |-> r.no, state |-> prop[r.pid].state, by |-> r.user]

NewRevision(r) == [no |-> r.no, state |-> r.state, by |-> r.user]

\* The head is updated and the transaction commits, the new revision with it.
ReviseHead(w) ==
    LET r == req[w] IN
    /\ pc[w] = "head"
    /\ revs' = [revs EXCEPT ![r.pid] = @ \cup {NewRevision(r)}]
    /\ prop' = [prop EXCEPT ![r.pid].state = r.state]
    /\ Continue(w, "audit", r)
    /\ UNCHANGED <<live, lock, clock, links, accepted, audit, commits>>

-----------------------------------------------------------------------------
(* SubmitProposal, WithdrawProposal, RejectProposal *)

\* slip: a status no reader of the table knows (TypeOK).
UnknownTarget(action) == IF action = "withdraw" THEN "withdrawn" ELSE "closed"

Target(action) == CASE action = "submit"   -> "pending"
                    [] action = "withdraw" -> "withdrawn"
                    [] action = "reject"   -> "rejected"

\* transition reads the proposal to see who may do this, not what status it is in.
TransitionRead(w) ==
    /\ pc[w] = "idle"
    /\ \E u \in Users, p \in Proposed, action \in {"submit", "withdraw", "reject"} :
          /\ IF action = "reject" THEN CanDecide(u, prop[p].target)
                                  ELSE u = prop[p].creator
          /\ Continue(w, "status",
                [NoRequest EXCEPT !.user = u, !.pid = p, !.status = Target(action),
                                  !.action = action])
    /\ UNCHANGED tables

\* slip: COALESCE keeps the reviewer of an earlier decision (DecisionNamesDecider).
KeptReviewer(r) ==
    IF r.action \in {"reject", "approve"} THEN r.user ELSE prop[r.pid].reviewer

\* assigned_reviewer: who decides a proposal, NULL when its creator moves it.
Reviewer(r) == IF r.action \in {"reject", "approve"} THEN r.user ELSE None

\* UpdateProposalStatus: unconditional, and the reviewer with it.
WriteStatus(w) ==
    LET r == req[w] IN
    /\ pc[w] = "status"
    /\ prop' = [prop EXCEPT ![r.pid].status = r.status, ![r.pid].reviewer = Reviewer(r)]
    /\ Continue(w, "audit", r)
    /\ UNCHANGED <<live, lock, clock, revs, links, accepted, audit, commits>>

-----------------------------------------------------------------------------
(* ApproveProposal *)

\* slip: the proposal is applied as it was first filed (AppliesHead).
FirstApproval(u, p) ==
    [NoRequest EXCEPT
        !.user = u, !.pid = p, !.op = prop[p].op, !.target = prop[p].target,
        !.base = prop[p].base, !.baseStamp = prop[p].baseStamp,
        !.state = (CHOOSE r \in revs[p] : r.no = 1).state,
        !.status = "applied", !.action = "approve"]

\* GetProposal: everything the handler later applies is the row as it is read here.
Approval(u, p) ==
    [NoRequest EXCEPT
        !.user = u, !.pid = p, !.op = prop[p].op, !.target = prop[p].target,
        !.base = prop[p].base, !.baseStamp = prop[p].baseStamp,
        !.state = prop[p].state, !.status = "applied", !.action = "approve"]

ApproveRead(w) ==
    /\ pc[w] = "idle"
    /\ clock < MaxApplies
    /\ \E u \in Users, p \in Proposed :
          /\ commits[p] < MaxApplies
          /\ CanDecide(u, prop[p].target)
          /\ prop[p].status = "pending"
          /\ Continue(w, "count", Approval(u, p))
    /\ UNCHANGED tables

\* slip: the invites are counted and the count is ignored (InvitesGateApply).
InvitesIgnored(p) == p \in Pids

\* CountUnacceptedProposalInvites = 0
AllInvitesAccepted(p) == links[p] \subseteq accepted

\* slip: the status is written before the apply transaction (AppliedWasCommitted).
StatusBeforeApply(w) ==
    /\ pc[w] = "count"
    /\ IF AllInvitesAccepted(req[w].pid) THEN Continue(w, "status", req[w]) ELSE Finish(w)
    /\ UNCHANGED tables

ApproveCount(w) ==
    /\ pc[w] = "count"
    /\ IF AllInvitesAccepted(req[w].pid) THEN Continue(w, "check", req[w]) ELSE Finish(w)
    /\ UNCHANGED tables

\* slip: only the disappearance of the entity is noticed (NoSilentOverwrite).
GoneBase(r) == /\ r.op # "create" /\ r.baseStamp # None
               /\ EntityUpdatedAt(r.target) = None

\* The stale-base guard, inside the apply transaction but only reading. A proposal
\* with no base_updated_at (a create, a kind without one, a target that did not
\* exist when the proposal was made) is not checked.
StaleBase(r) == /\ r.op # "create" /\ r.baseStamp # None
                /\ EntityUpdatedAt(r.target) # r.baseStamp

\* slip: an apply that was refused is logged as an approval (AuditIsTrue).
RefusalLogged(w) ==
    /\ pc[w] = "check"
    /\ Continue(w, IF StaleBase(req[w]) THEN "audit" ELSE "write", req[w])
    /\ UNCHANGED tables

ApplyCheck(w) ==
    /\ pc[w] = "check"
    /\ IF StaleBase(req[w]) THEN Finish(w) ELSE Continue(w, "write", req[w])
    /\ UNCHANGED tables

\* A create runs into the partial unique index on live names, if its kind has one.
NameTaken(r)  == r.op = "create" /\ live[r.target] # NoRow /\ r.target \notin Upserted

\* An UPDATE that finds no live row changes nothing and is no error (the kinds that do
\* count the rows fail instead: Abort).
Matches(r)    == r.op = "create" \/ live[r.target] # NoRow

\* The write waits for whoever holds the row and then meets it as it is now.
ApplyWrite(w) ==
    LET r == req[w] IN
    /\ pc[w] = "write"
    /\ lock[r.target] = None
    /\ \/ /\ NameTaken(r)
          /\ Finish(w)
          /\ UNCHANGED lock
       \/ /\ ~NameTaken(r)
          /\ Continue(w, "commit", r)
          /\ lock' = [lock EXCEPT ![r.target] = IF Matches(r) THEN w ELSE None]
    /\ UNCHANGED <<live, clock, prop, revs, links, accepted, audit, commits>>

\* slip: the UPDATE does not set updated_at (GuardedAppliesOnce).
AppliedUnstamped(r) ==
    IF r.op = "delete" THEN NoRow
    ELSE [state |-> r.state,
          stamp |-> IF live[r.target] = NoRow THEN clock + 1 ELSE live[r.target].stamp]

\* The row an apply leaves: an update or a create the whole proposed state, a delete none.
Applied(r) == IF r.op = "delete" THEN NoRow ELSE [state |-> r.state, stamp |-> clock + 1]

\* updated_at is the transaction's NOW(), abstracted to a stamp no other has.
ApplyCommit(w) ==
    LET r == req[w] IN
    /\ pc[w] = "commit"
    /\ IF lock[r.target] = w
       THEN /\ live'  = [live EXCEPT ![r.target] = Applied(r)]
            /\ clock' = clock + 1
            /\ lock'  = [lock EXCEPT ![r.target] = None]
       ELSE UNCHANGED <<live, clock, lock>>
    /\ commits' = [commits EXCEPT ![r.pid] = @ + 1]
    /\ Continue(w, "status", r)
    /\ UNCHANGED <<prop, revs, links, accepted, audit>>

-----------------------------------------------------------------------------
(* What every handler may meet *)

AppendAudit(w) ==
    /\ pc[w] = "audit"
    /\ audit' = audit \cup ({<<req[w].action, req[w].pid>>} \cap (Audited \X Pids))
    /\ Finish(w)
    /\ UNCHANGED <<live, lock, clock, prop, revs, links, accepted, commits>>

\* slip: a return path without the deferred Rollback (RequestsFinish).
NoRollback(w) == lock' = [e \in Entities |-> lock[e]]

\* The rows a dying transaction gives back.
Rollback(w) == lock' = [e \in Entities |-> IF lock[e] = w THEN None ELSE lock[e]]

\* The request dies before its next statement: a statement failed, a check of the
\* payload refused it, the client went away (every statement runs under the
\* request's context) or the server stopped. Its transaction is rolled back, what it
\* committed stays. At "audit" this is also the audit row that h.audit could not write.
Abort(w) ==
    /\ pc[w] # "idle"
    /\ Rollback(w)
    /\ Finish(w)
    /\ UNCHANGED <<live, clock, prop, revs, links, accepted, audit, commits>>

\* AcceptInvite sets used_at, whichever proposals the invite is linked to.
AcceptInvite(i) ==
    /\ i \notin accepted
    /\ accepted' = accepted \cup {i}
    /\ UNCHANGED <<live, lock, clock, prop, revs, links, audit, commits, pc, req>>

-----------------------------------------------------------------------------
(* The specification *)

Arrive(w) == CreateNew(w) \/ CreateBranch(w) \/ ReviseRead(w) \/ TransitionRead(w)
             \/ ApproveRead(w)

Proceed(w) == \/ CreateStamp(w) \/ CreateInsert(w) \/ CreateLink(w)
              \/ ReviseNumber(w) \/ ReviseInsert(w) \/ ReviseHead(w)
              \/ ApproveCount(w) \/ ApplyCheck(w) \/ ApplyWrite(w) \/ ApplyCommit(w)
              \/ WriteStatus(w) \/ AppendAudit(w)

Next == \/ \E w \in Procs : Arrive(w) \/ Proceed(w) \/ Abort(w)
        \/ \E i \in Invites : AcceptInvite(i)

Spec == Init /\ [][Next]_vars

\* A handler whose next statement the database can run gets it run: goroutines are
\* scheduled and Postgres answers. A statement that waits for another transaction is
\* queued behind it, so one that could run again and again does not wait for ever.
\* Nobody is obliged to send a request, nor to fail.
FairSpec == Spec /\ \A w \in Procs : /\ WF_vars(Proceed(w))
                                    /\ SF_vars(ReviseInsert(w)) /\ SF_vars(ApplyWrite(w))

-----------------------------------------------------------------------------
(* Properties *)

TypeOK ==
    /\ live \in [Entities -> Row \cup {NoRow}]
    /\ lock \in [Entities -> Procs \cup {None}]
    /\ clock \in Nat
    /\ prop \in [Pids -> Proposal \cup {NoRow}]
    /\ revs \in [Pids -> SUBSET Revision]
    /\ links \in [Pids -> SUBSET Invites]
    /\ accepted \subseteq Invites
    /\ audit \subseteq Actions \X Pids
    /\ commits \in [Pids -> Nat]
    /\ pc \in [Procs -> Points]
    /\ req \in [Procs -> Request]

\* The revision log of a proposal has no gap and no duplicate number, and its head is
\* the newest revision, however many editors save at the same time (AddRevision takes
\* MAX + 1 without a lock; UNIQUE (proposal_id, revision_no) is all that orders it).
RevisionLogOK ==
    \A p \in Proposed :
        /\ Numbers(p) = 1 .. LastNo(p)
        /\ \A r, s \in revs[p] : r.no = s.no => r = s
        /\ \A r \in revs[p] : r.no = LastNo(p) => r.state = prop[p].state

\* "Create/edit/delete never touch live tables directly" (migration 004): whatever
\* state is live was there from the start or is on record as a revision of a proposal
\* for that very entity -- the audit trail can always explain it.
LiveIsRecorded ==
    \A e \in Entities : live[e] # NoRow =>
        \/ live[e].state = InitialState
        \/ \E p \in Proposed : /\ prop[p].target = e
                              /\ \E r \in revs[p] : r.state = live[e].state

\* A proposal shown as applied has been applied: the status is only written by a
\* handler whose transaction committed, whatever else was written to it since.
AppliedWasCommitted ==
    \A p \in Proposed : prop[p].status = "applied" => commits[p] > 0

\* A decided proposal names the user who decided it, one who was allowed to, and an
\* undecided one names nobody.
DecisionNamesDecider ==
    \A p \in Proposed :
        IF prop[p].status \in {"applied", "rejected"}
        THEN prop[p].reviewer \in Users /\ CanDecide(prop[p].reviewer, prop[p].target)
        ELSE prop[p].reviewer = None

\* The audit log never claims an approval that did not happen.
AuditIsTrue == \A p \in Pids : <<"approve", p>> \in audit => commits[p] > 0

-----------------------------------------------------------------------------
(* What holds of approvals when they do not overlap other requests, and fails when *)
(* they do. Commits(w): the apply transaction of w commits in this step.           *)

Commits(w) == pc[w] = "commit" /\ pc'[w] = "status"

HasBase(r) == r.op # "create" /\ r.baseStamp # None

\* The guard of proposal_stale.go "against a proposal silently overwriting a change
\* made to the same entity while it was pending": a row that an approval changes is as
\* it was when the proposal was made from it.
NoSilentOverwrite ==
    [][\A w \in Procs : LET e == req[w].target IN
           Commits(w) /\ HasBase(req[w]) /\ lock[e] = w =>
               \/ live[e].state = req[w].base
               \/ live'[e] # NoRow /\ live'[e].state = live[e].state]_vars

\* "Approval applies the head revision to the live tables" (DESIGN.md): not one that
\* was superseded while the approval ran.
AppliesHead ==
    [][\A w \in Procs : Commits(w) => req[w].state = prop[req[w].pid].state]_vars

\* "A proposal cannot be approved while any linked invite is still unaccepted"
\* (migration 010): at the commit every invite linked by then is accepted.
InvitesGateApply ==
    [][\A w \in Procs : Commits(w) => links[req[w].pid] \subseteq accepted]_vars

\* A change that was made from a known state of its entity goes live at most once, even
\* though its proposal can be submitted and approved again after it was applied.
GuardedAppliesOnce ==
    \A p \in Proposed : HasBase(prop[p]) => commits[p] <= 1

\* Every request that came in is answered: waits for row locks and for the unique index
\* on revision numbers end, because each holder's own statements go on or roll back.
RequestsFinish == \A w \in Procs : pc[w] # "idle" ~> pc[w] = "idle"

-----------------------------------------------------------------------------
(* The abstract specification the revision log implements *)

RevisionAt(p, i) == (CHOOSE r \in revs[p] : r.no = i).state

LogOf(p)  == [i \in 1 .. LastNo(p) |-> RevisionAt(p, i)]
HeadOf(p) == IF prop[p] = NoRow THEN <<>> ELSE <<prop[p].state>>

Log == INSTANCE RevisionLog WITH log  <- [p \in Pids |-> LogOf(p)],
                                 head <- [p \in Pids |-> HeadOf(p)]

\* AddRevision and CreateProposal, for all their statements, open transactions and
\* failures, behave as one append to the log of one proposal.
ImplementsRevisionLog == Log!Spec
=============================================================================
