# Verification of topology-v2

TLA+ models, TLC runs and TLAPS proofs for the topology service: a Go HTTP API over
Postgres that keeps the OSG topology (facilities, sites, resource groups, resources,
downtimes, projects, virtual organizations, support centers) and changes it only through
proposals that somebody reviews.

## 1. The system

| component | state | operations | what makes it hard |
|---|---|---|---|
| Change proposals (`handlers/proposals.go`, `db/queries_proposals.go`) | `change_proposals`, `change_proposal_revisions`, `proposal_pending_invites`, `audit_log`, the live tables | create, revise, submit, withdraw, reject, approve | every handler is several statements on a connection pool; only some of them share a transaction; READ COMMITTED; any statement may be the last one |
| Stale-base guard (`handlers/proposal_stale.go`) | `base_updated_at` | compared with the row's `updated_at` before an apply | check and write are two statements |
| Snapshots, merging, schema (`handlers/proposal_snapshots.go`, `proposalschema/`) | none | snapshot, merge, validate, upgrade | a field a form does not know must survive |
| Hierarchy and bundles (`proposals.go`, `db/queries_topology.go`, `topology/persist.go`) | facility, site, group, resource rows | apply one or an ordered list of operations, delete guards, renames | count-then-delete, references by name |
| Contacts and replacements (`handlers/replacements.go`, `db/queries_contacts.go`, `db/queries_replacements.go`) | contact slots, replacement requests | replace, request, decide, withdraw, repoint on rename | several statements, no transaction; races with proposals |
| Identity and login (`handlers/auth.go`, `invites.go`, `db/queries_auth.go`) | `users`, `identities`, `invites`, contact ids, usernames | OIDC and development login, onboarding, linking, issuing and using invites, provisioning contacts | every statement a transaction of its own; several errors discarded; first-login races |
| Sessions, roles, middleware (`auth.go`, `middleware.go`, `admin_settings.go`) | `user_roles`, `sessions` | sign in and out, expiry, the checks in front of every route, role changes | three reads, then the handler; roles taken away meanwhile |
| E-mail verification (`email_verify.go`) | `email_verifications` | request, confirm | single use, the newest link only, expiry |
| Virtual organizations (`handlers/vos.go`, `topology/vos.go`, `db/queries_vo_edit.go`) | `virtual_organizations`, what resources and projects say of them | create, update, delete, the walk up the parents | check-then-write; a walk over data that changes |
| Import, export, restore (`topology/persist.go`, `admin_restore.go`) | the whole topology, `resources_app_created_id_seq` | truncate and import, export, giving ids | not one transaction; ids from files, from hashes and from a sequence |
| History import (`githistory/`) | proposals of the past | list, follow renames, write one row per commit | resumable; the history grows; two passes over it |
| Feeds, browsing, front end (`xmlapi/`, `browse.go`, `frontend/`) | none | reads | none |

Components meet in the database: there is no in-memory state shared between requests
beyond configuration. A proposal's apply calls into the entity, contact and downtime
queries with a `Queries` bound to its transaction (`db.WithTx`); an invite accepted in
`auth.go` opens a proposal's gate; a contact list written by an apply decides who may
approve a downtime. `PROJECT.json` lists every component with its status, and every hazard
with the line where it bites.

What correctness means, component by component: *proposals* — the log is complete and in
order, nothing goes live that is not on record, a decision names an entitled decider, no
change is lost or applied twice; *hierarchy* — no live child of a deleted parent;
*contacts* — a slot has one holder, the one the last decision chose; *identity* — a login opens
the account that owns the identity and no other, a person has one account; *sessions* — nobody
is served without a session and a role for it, and only administrators make administrators;
*VOs* — going up the parents ends, nothing that is in use is deleted; *import* — ids are
unique and survive a round trip, an import cut short is repaired by the next; *history* — every
commit that changed something has one row, under the names of today.

## 2. Modules

- `Proposals.tla` — the workflow. A process is one HTTP handler in flight; `pc[w]` is its
  next statement and `req[w]` its local variables. One action per statement or, where the
  code opens a transaction that nobody can see inside of, per transaction.
- `RevisionLog.tla` — what the proposal store promises: an append-only log per proposal and
  a head that is its last entry.
- `MCProposals.tla` and the `Proposals*.cfg` files — finite instances.
- `ProposalsProofs.tla` — types, the revision log, and that `Proposals` implements `RevisionLog`,
  for all values of the constants; live state, status, reviewer and audit log, likewise; and the
  properties that overlap can break, each from the absence of the overlap that breaks it.
- `Contacts.tla` — contact slots, the requests and invites that hand one over, and the
  proposals that rewrite slots and rename, create or delete what they hang on. Handlers are
  processes as above; only an apply runs in a transaction.
- `Offer.tla` — what a hand-off promises: an offer is open until taken or refused, then
  history, and on record as taken only if it was carried out.
- `MCContacts.tla` and the `Contacts*.cfg` files — finite instances.
- `ContactsProofs.tla` — types, entitlement, history and both refinements of `Offer`; and, where
  requests do not meet in one slot or one rename, the three properties of `ContactsSeq`.
- `Hierarchy.tla` — the rows of facilities, sites, groups, resources and support centers,
  what hangs on what, and the bundles that create, update and delete them. A process is an
  approval inside its transaction.
- `MCHierarchy.tla` and the `Hierarchy*.cfg` files — finite instances.
- `HierarchyProofs.tla` — types, locks, deleted rows, the delete guards and the support centers
  of groups, for any tree.
- `VOs.tla`, `MCVOs.tla`, `VOsConc.cfg` — the approvals that create, edit and delete VOs, with
  the statements of their checks.
- `VOsProofs.tla` — acyclic parents and the delete guard, for any number of VOs.
- `Identity.tla`, `MCIdentity.tla`, `IdentityConc.cfg` — accounts, identities, invites, contact
  ids and usernames: a login up to the point where the account is known.
- `IdentityProofs.tla` — all five properties of `Identity`, for any number of everything.
- `Sessions.tla`, `MCSessions.tla`, `SessionsConc.cfg` — from there on: roles, sessions, the
  middleware, role changes and e-mail verification.
- `SessionsProofs.tla` — all four properties of `Sessions`, for any number of everything.
- `Restore.tla`, `MCRestore.tla`, `RestoreConc.cfg` — the imports, the export and the ids of
  resources, beside approvals.
- `RestoreProofs.tla` — both properties of `Restore`, for any number of everything.
- `History.tla`, `MCHistory.tla`, `HistoryConc.cfg` — the replay of a git history.
- `HistoryProofs.tla` — both properties of `History`, for any history, paths and runs.

`Identity` ends where `Sessions` begins (`SignIn` and `Login`); the invite a login may carry is
offered in `Contacts` and gates approvals in `Proposals`. `VOs` and `Restore` take the workflow
before an apply from `Proposals` in the same way as `Hierarchy`. In the newer modules a
definition marked "slip" is not part of the model: it is a mistake the code could have made,
which `PROJECT.json` puts in the place of the definition after it to show that a property
would notice.

`Proposals` and `Contacts` share `entity_contacts`, `resource_contacts` and the entities' rows in the
database. `Proposals` looks at one row and every statement around it; `Contacts` looks at the
slots and takes an approval as begin (guard, lock, soft-delete), repoint and commit. An
operation that both would describe in full is described in full by one of them. `Hierarchy`
takes the other side of an approval: nothing of the workflow before it, but several
operations in one transaction, and the rows that refer to each other.

### State of `Proposals`

| model | code |
|---|---|
| `live[e]` | the live row of an entity with a stamp for `updated_at`, `NoRow` if deleted or never made |
| `lock[e]` | the open transaction that has written the row, or its unique-index entry |
| `clock` | the last stamp given out: `NOW()` of a transaction, abstracted to a number no other transaction has |
| `prop[p]`, `revs[p]`, `links[p]` | `change_proposals`, `change_proposal_revisions`, `proposal_pending_invites` |
| `accepted` | invites with `used_at` |
| `audit` | audit rows, of the actions in `Audited` |
| `commits[p]` | ghost: how many apply transactions of `p` committed |

### Actions of `Proposals`

| action | code | note |
|---|---|---|
| `CreateNew`, `CreateBranch` | `CreateProposal` up to its first statement | an update or delete begins with `snapshotEntity` |
| `CreateStamp` | `entityUpdatedAt` | a statement of its own |
| `CreateInsert` | `db.CreateProposal` | one transaction, head and revision 1 |
| `CreateLink` | `AddProposalPendingInvites` | one statement per invite, in no transaction |
| `ReviseRead` | `ReviseProposal` up to `AddRevision` | merges over the head it read |
| `ReviseNumber`, `ReviseInsert`, `ReviseHead` | `db.AddRevision` | number, insert (may wait or fail in the unique index), head and commit |
| `TransitionRead`, `WriteStatus` | `transition` | the second also ends an approval |
| `ApproveRead`, `ApproveCount` | `ApproveProposal` before its transaction | |
| `ApplyCheck`, `ApplyWrite`, `ApplyCommit` | `applyProposal` inside `WithTx` | the guard, the write that may wait for a lock, the commit |
| `AppendAudit` | `h.audit` | |
| `Abort` | any early error return, cancelled request, or server stop | rolls back the open transaction and forgets the handler |
| `AcceptInvite` | `MarkInviteUsed` | accepting itself belongs to the identity component |

### What `Proposals` abstracts

An entity's state is a few fields with a few values. The kinds differ only where the
workflow can tell: `Guarded` (the kinds `entityUpdatedAt` knows), `Upserted` (a project's
create replaces a live row of that name; a downtime's always adds a row, of which `live`
keeps the newest) and `ResourceContacts` (who may decide a downtime; fixed, since this
module does not change contacts). A proposal for something new names the entity it will
create, so the id a resource is given and `UpdateProposalTargetName` are left out; each
proposal writes one row, so bundles, the contacts and services beside the row, renames and
delete guards are left out. Validation and parsing errors are instances of `Abort`, which
may happen before any statement and has their effect: nothing more is written. A create, a
kind without a stamp, and a target that did not exist at creation leave `base_updated_at`
NULL, and the guard skips it, as in the code.

### State of `Contacts`

| model | code |
|---|---|
| `name[e]`, `stamp[e]` | the name of a live facility, site, group or resource, and its `updated_at` counted in updates |
| `rows` | active rows of `resource_contacts` (key: the resource's id) and `entity_contacts` (key: the parent's name) |
| `nextRow` | `gen_random_uuid()`; an apply gives all its rows one id, which a slot makes unique |
| `reqs`, `invs` | `contact_replacements`; `invites` of kind `role_claim` and `replacement_request` |
| `edits` | proposals for updates, with the contacts and the stamp they were made from |
| `done` | ghost: requests and invites whose effect was written |

### Actions of `Contacts`

| action | code | note |
|---|---|---|
| `FileRequest`, `FileInsert` | `CreateContactReplacement`, `fileReplacement` | `GetContactSlot` returns one of the holders there may be |
| `AcceptInvite`, `FileFromInvite`, `MarkInviteUsed` | `AcceptInvite` of `auth.go` | a claim replaces the slot, a replacement invite files a request; the mark is the last statement |
| `Approve`, `Reject`, `Withdraw` | `DecideReplacement`, `WithdrawReplacement` up to their first write | |
| `Resolve`, `Clear`, `ClearAfterWait`, `Insert` | `ReplaceContactSlot` | look-up of a resource by name, soft-delete (which may wait for an apply), insert, each its own statement |
| `Record` | `DecideContactReplacement` | only if still pending; its zero-row case is not an error |
| `CreateInvite` | `CreateInvite` | places are not checked |
| `FileEdit` | `CreateProposal` of an update | |
| `ApplyUpdate`, `Repoint`, `ApplyCommit` | `ApproveProposal` of an update: up to `ReplaceEntityContacts`' delete; `RepointEntityNameReferences`; the commit | a resource's apply has no repoint |
| `ApplyCreate`, `ApplyDelete` | approvals of a create and a delete | one step: nothing of them is seen before the commit |
| `Abort` | as above | |

### What `Contacts` abstracts

A contact is always a user (rows that only name a contact id have no holder to displace and
none of the code compares them), and a list gives one user or none per slot: a resource's list
has that shape, a parent's is checked by `requireResolvedContacts`. An instance has one kind of
parent, since facilities, sites and groups meet only in the hierarchy. The stale-base check,
the row lock and the unique name are taken together at `ApplyUpdate`: what happens between
them is what `Proposals` is about. The contact rows an apply deleted are held until it
commits, and a soft-delete that meets one waits and then deletes what it matched at the
start, as a READ COMMITTED `UPDATE` does. An expired invite is one that nobody accepts any more.
Children guards of deletes belong to the hierarchy. `MaxRows` keeps requests that insert from
starting, never one under way.

Two things follow from the code and are modelled as they are. A deleted parent's
contact rows stay, so an entity created later with its name inherits them; and a resource's
rename repoints nothing, so a request filed for its old name finds no resource when it is
approved, or finds another one that took the name. `ResourceSlotSingle` is therefore stated of
resources, whose key is never reused, and `RequestFollowsRename` of parents.

### State of `Hierarchy`

| model | code |
|---|---|
| `row[e]` | the committed row of `facilities`, `sites`, `resource_groups`, `resources` or `support_centers`: name, parent id, a group's `support_center`, `deleted_at IS NULL` |
| `tx[w]` | what the open transaction of `w` has written over it; those rows are locked |
| `loc[w]` | the operation of the bundle that is under way: its statement, its target, the row it writes |
| `begun`, `alone` | bound and ghost: how many approvals started, and whether two have ever overlapped |

### Actions of `Hierarchy`

| action | code | note |
|---|---|---|
| `Begin`, `Commit`, `Abort` | `WithTx` around `applyProposal` | any error of any operation undoes them all |
| `PlanCreate`, `PlanUpdate`, `PlanDelete` | an operation of `applyBundleProposal` up to its first write | `FacilityIDByName` and its like, the id and name checks of a new support center, the children guards |
| `Insert` | `InsertFacility`, `InsertSite`, `InsertResourceGroup`, `InsertResource`, `InsertSupportCenter` | waits for whoever holds the name; a center's row is overwritten on its id |
| `Write`, `WriteAfterWait` | `Update…Fields`, `SoftDelete…`, `RepointResourceGroupSupportCenter` | by name, a resource by id; waits for row locks and then re-evaluates what it matched |

### What `Hierarchy` abstracts

The operations of a bundle are chosen one by one as it runs, which gives the same behaviours as
choosing them all first. A plain proposal is a bundle of one; its stale-base guard, which only
ever refuses, is left to `Proposals`, and so are all other refusals that are not about these rows
(validation, contacts, the institution of a facility): `Abort` has their effect. Contacts are
in `Contacts`; services belong to one resource and go with it. The checks an operation makes
before its first write are taken in one step; between them and the write anything can happen.
A write on a foreign key locks no more than the parent's key, which neither a rename nor a
soft-delete touches, so it does not make them wait. Projects and VOs refer to nothing here.

### State and actions of `Identity`

`account[a]`, `identity[s]`, `invite[i]` and `row` are the rows of `users`, `identities`,
`invites` and of the contact tables; an account keeps its contact id, its username and whether it
is provisioned. `calm` is a ghost: nothing has overlapped, failed or been cut off so far.

| action | code | note |
|---|---|---|
| `OIDCCallback`, `DevLogin`, `FindIdentity` | the two logins up to `FindUserByIdentity` | what the provider says is one of `Claims` |
| `GetInvite`, `ByCILogon`, `ByEmail`, `CreateUser` | `onboardIdentity` | look-ups in the order of the code; an error is taken for not found |
| `LinkIdentity`, `Mint`, `MarkInviteUsed` | `linkIdentity`, `SetLegacyContactIDIfMissing`, and the use of the invite | a unique identity; the last two errors are discarded |
| `Stamp`, `ReadName`, `SetName`, `SignIn` | `loginUser`, `EnsureUsername` | one statement per candidate |
| `CreateInvite`, `Provision`, `Issue`, `AcceptInvite`, `Expire` | `invites.go`, `ProvisionContactUser` | |
| `AddContact`, `Upsert`, `InsertRow`, `Backfill`, `Vivify`, `Relink` | the vivification of contacts in `queries_contacts.go`, `backfill-contacts` | |
| `SetUsername` | `AdminSetUsername` | |
| `Stop` | any error that is not discarded, and a crash | |

The signed state cookie, the exchange with the provider and the hash of an e-mail address are
taken as they are: `Claims` is what comes out of them, a contact id is a value. All accounts have
one display name, so that they compete for the same usernames. Another provider's address is
never asked for again once an identity has one, as in the code.

### State and actions of `Sessions`

`role[u]`, `session[t]` and `mail[u, a]` are the rows of `user_roles`, `sessions` and
`email_verifications`. `loc[p]` holds what the middleware has read; its fields `bearer` and
`held` are ghosts (whose session was open when the request arrived, and the roles this user
has had since), as are `issued` and `opened`.

| action | code |
|---|---|
| `Login`, `DevLogin`, `Grant`, `ReadRoles`, `Default`, `CreateSession` | `loginUser` from the roles on, `createSession` |
| `Logout`, `Expire`, `ExpireLink` | `Logout`, `expires_at` |
| `Arrive`, `GetSession`, `GetUser`, `GetRoles`, `RequireRole` | `RequireAuth`, `OptionalAuth`, `RequireRole`, a statement each |
| `Show`, `SetUserRole`, `RequestEmail`, `ConfirmEmail` | the handlers behind them |
| `Stop` | answered, failed, or cut off |

Routes that differ only in what they show are one route; every mode of admission (public,
signed in, administrator or manager, administrator) has one. Sending mail is left out, so a link
is simply out. A user's status is fixed: nothing in the code changes it.

### State and actions of `VOs`

`vo[n]` is the parent in the document of the live VO of name `n`, `refers[r]` the VOs a resource
allows or the one that sponsors a project.

| action | code |
|---|---|
| `Create`, `Update`, `ReadCurrent`, `ReadParent`, `Walk` | `createVO`, `updateVO`, `checkVODoc`: one turn of the walk a step |
| `Write` | `InsertVO`, `UpdateVOFields` and the commit |
| `Delete`, `CountReferrers`, `CountChildren`, `Remove` | `deleteVO` |
| `Refer` | an approval that writes a resource's allowed VOs or a project's sponsor |
| `Stop` | any error: the transaction rolls back |

A VO's other fields, contacts and reporting groups are left out; a VO cannot be renamed.

### State and actions of `Restore`

`rows[i]` is the row of topology id `i`, deleted ones included, `seq` the sequence, `group` the
rows above resources taken as one, `docs` the rest of the tables. The ghosts `given`, `pinned`
and `saved` remember which ids approvals gave, which of them a proposal named, and which the
backup is to keep; `calm` that no import has overlapped anything, `whole` that the last one
came to its end.

| action | code |
|---|---|
| `Restore`, `TruncateTopology`, `InsertGroup`, `UpsertResource`, `Resync`, `ImportDocs` | `ImportFromGitHub`, `import-tree`, `ImportRepo`, each step committed by itself |
| `Export` | `ExportRepoToDir`, with `idPtr` |
| `Create`, `Draw`, `Insert`, `Update`, `UpdateResourceFields`, `Delete` | approvals of resources, `NextAppCreatedResourceID`, `ResolveID` |
| `Stop` | an error or a crash, after which what was done stays |

Reading and writing YAML and the download are left out: a repository is the ID each resource
has in its file, or none.

### State and actions of `History`

`history` holds the changed paths of the first-parent commits in the order in which pass 1 meets
them, each with the number of its commit, as `diff-tree` shows them; `rows[k]` is the proposal
written for commit `k`. `owner`, the `entity` of a change, `listed`, and the `head` and `from` of
a row (the newest commit its run had listed, and from which on it had skipped none) are ghosts:
what really happened, to compare with what the importer makes of it.

| action | code |
|---|---|
| `Add`, `Modify`, `Rename`, `Copy`, `Delete` | people, external |
| `Start`, `List` | `ListCommits`, `ListImportedCommitSHAs`, pass 1 (`Touch`, `PassOne`) and the decomposition of pass 2 (`Planned`, `Decompose`, `FinalName`) |
| `Write`, `Complete` | `writeCommitProposal`, one row in one transaction; the limit |
| `Stop` | an error or a crash of the run |

One kind of entity whose name is its path; authors, classification of paths and contents are left
out, except whether an edit changed anything the importer models (`quiet`). The registry of
`PathIdentity` is `current` and `final`; an absent key of the Go map is 0. `PassOne` has the
registry after each changed path, so that the identity a path had when pass 1 met it can be
asked for its name once the walk is over.

## 3. Runs

### `MCProposals`

Two fields (`row`, `contacts`) with an old and a new value; payloads
mention one field, so that merging matters.

| run | instance | shows |
|---|---|---|
| `ProposalsConc` | 2 handlers, 1 proposal, 1 guarded entity, author and manager, 3 revisions, 2 applies | `TypeOK`, `RevisionLogOK`, `LiveIsRecorded`, `AppliedWasCommitted`, `DecisionNamesDecider`, and `ImplementsRevisionLog`: the store refines `RevisionLog` |
| `ProposalsSeq` | 1 handler, 2 proposals for one project (the kind with most to go wrong: it has a stamp, and its create replaces a live row), 1 invite | `AuditIsTrue`, `GuardedAppliesOnce`, and `NoSilentOverwrite`, `AppliesHead`, `InvitesGateApply` — which hold as long as requests do not overlap, whatever their order and wherever they die |
| `ProposalsLive` | 2 handlers, 1 downtime decided by its contact | `RequestsFinish` |

Bounds. `MaxRevisions` stops a proposal from being revised again, `MaxApplies` stops
approvals from starting; both are guards of the request, never of a step in the middle of
one, so no handler is stuck because of them. Two handlers are enough for every race listed:
each is between a pair of statement sequences, and a third handler only repeats one of the
roles. Two applies let a row be written, and written again over the first; three revisions
let two editors collide on a number and then a third edit follow. Proposals and handlers
are symmetric where no liveness is checked. Deadlock is checked everywhere: a request can always
arrive or a proposal be moved.

### `MCContacts`

| run | instance | shows |
|---|---|---|
| `ContactsConc` | 2 handlers, 2 users (one a manager), 1 site, 2 names, 1 slot, a request, an invite, an edit, 1 further row | `DeciderEntitled`, `DecidedIsHistory`, and that requests and invites implement `Offer` (`RequestsAreOffers`, `InvitesAreOffers`) |
| `ContactsSeq` | 1 handler, 2 users, a site and a resource to be created, a request, an invite, an edit, 2 further rows | `ResourceSlotSingle`, `RequestFollowsRename`, `ApprovedHolds`, which hold while requests do not overlap, wherever one dies |
| `ContactsIncumbent` | 1 handler, 3 users, 2 requests | violation: an incumbent of record who was already replaced displaces the new holder |

Bounds. The races of this part are between two of: a decision and another decision, an accept
and another accept, a hand-off and a rename, so two handlers, one request, one invite and
one edit suffice; a second slot would add nothing because slots do
not interact. Two users, one of them a manager, make incumbent, requester and decider equal or
different in every way; displacing somebody by a stale incumbent needs three. One further row
in `ContactsConc` still lets two handlers that both started before it was written insert
one each. These configurations set `CHECK_DEADLOCK FALSE`, because requests, invites, edits
and rows are used up in the end and then nothing is left to do.

### `MCHierarchy`

| run | instance | shows |
|---|---|---|
| `HierarchyConc` | 2 approvals of bundles of 2 operations, a row of each kind with a further group and center to be created, 2 names for groups and centers | `TypeOK`, `DeadStayDead` under overlap; `NoOrphansAlone`, `CentersKept`, `CreateIsNew` while approvals do not overlap |

Bounds. Two operations are what it takes for one to depend on what another of its bundle wrote;
two approvals give both every overlap of two transactions and, when they follow each other, a
delete and what comes after it in another request. The other kinds of the tree need no second row: their
code differs in the tables only, and two groups already let a resource be moved, a name be
reused and a guard be passed by one group and not by the other. `MaxRequests` keeps approvals from
starting; when they are used up nothing is left to do, hence `CHECK_DEADLOCK FALSE`.

### The other modules

| run | instance | shows |
|---|---|---|
| `IdentityConc` | 2 requests at once, 3 in all; 3 accounts, 2 identities, 2 contact ids, 1 invite, 2 usernames, a person with two addresses and a CILogon id, development logins, failing statements | `LoginIsOwners`, `RowsNameBearer`, whatever overlaps or fails; `InviteAttachesOnceCalm`, `OneAccountPerPerson`, `UsernameKept` as long as nothing does |
| `SessionsConc` | 2 requests at once, 3 in all; an administrator, a contact reader, a session and a link that are out, 1 more of each; failing statements | `ServedIsEntitled`, `GrantedByAdministrator`, `LinksOpenOnce`, `VerifiedByNewest`, whatever overlaps or fails |
| `VOsConc` | 2 approvals at once, 3 in all; 3 names, 1 resource or project, a VO below a parent that does not exist | `AcyclicAlone`, `DeletedUnused` while approvals do not overlap; `WalkEnds` in any case |
| `RestoreConc` | 2 imports or approvals at once, 3 in all; 2 names, 4 ids, 3 repositories and the backup | `RestoredIsArchive`, `MintedIsFree`, also after an import that was cut short |
| `HistoryConc` | 2 runs, every history of up to 4 commits on 2 paths | `HistoryReplayed`, `RowsNameLast` |

Bounds. Each of them stops requests, runs or commits from starting, never one under way, except
`MaxID`, where the sequence ends. Three requests are two that race and one before or after them:
the login that finds what a race has left, the second restore after one that died, the VO whose
cycle the walk meets. In `Identity` two identities and two contact ids let one person come
under another identity and with another address, three accounts let each of them get one of its
own, and two usernames let a name be taken. In `Sessions` each role counts for what it is
compared with, so two users with different roles, and the roles requests ask to change
(`Asked`), give each outcome of each gate. Three VOs are the shortest cycle that is more than
a pair; a name that is imported as a parent without being a VO makes the walk end in the third
way it can. In `Restore` the four ids make the sequence meet an id from a file, an id from the
hash of a live name and an id a proposal named. Four commits are an entity that is added,
renamed, deleted and replaced, or copied and changed again. `RestoreConc` and `HistoryConc` set
`CHECK_DEADLOCK FALSE`, because nothing may be left to do; in the others users go on being
renamed and signed out, and resources and projects being approved.

### Fairness

`FairSpec` of `Proposals` gives each handler weak fairness on its next statement (goroutines are
scheduled, Postgres answers) and strong fairness on the two statements that wait for another
transaction, since Postgres queues the waiters of a lock. Nothing makes a request arrive, a
user act or a failure happen.

`Spec` of `VOs` gives each approval weak fairness on its next statement, for the same reason.
`WalkEnds` needs nothing else: the walk takes no lock, and ends because the names it has seen
only grow. The other modules state safety only.

## 4. Findings

`ContactsIncumbent` is a disagreement between what the repository says and what it does, and
needs no overlap at all: `DecideReplacement` lets the incumbent recorded at filing decide,
whoever holds the slot by then, where migration 008 speaks of a person handing off "their own
responsibility".

The following the models show as well, by what the properties have to exclude. They are
limits of the code that the repository mostly does not deny, listed as hazards with their lines:

- Two approvals that overlap pass the stale-base guard on the same state, and one overwrites
  the other; an approval applies the head it read although a revision came in between.
  `NoSilentOverwrite` and `AppliesHead` hold for requests that do not overlap.
- Submit, withdraw and reject do not ask for the status they start from, so a decided proposal
  can be reopened and approved again. `GuardedAppliesOnce` shows that the stale-base guard then
  refuses it when it was made from a known state; a create or a proposal for a downtime has no
  such protection.
- A hand-off of a contact leaves the entity's `updated_at` as it was, so an edit made before it
  takes the slot back.
- Delete guards, of entities and of VOs, and the walk up a VO's parents are checks before the
  write that lock nothing: two approvals that overlap can leave orphans, dangling
  references or a cycle (`NoOrphansAlone`, `DeletedUnused` and `AcyclicAlone` say what holds
  without overlap, `WalkEnds` that a cycle hangs nobody).
- An invite's mark is written after its effect, and a login discards its error: used twice at
  once, or when the mark fails, it attaches two identities (`InviteAttachesOnceCalm`). Two
  overlapping first logins of one person give two accounts (`OneAccountPerPerson`), and two
  logins of one account can rename it after `EnsureUsername` had named it (`UsernameKept`).
- The roles a request has read hold for the request: who loses a role while it is under way is
  still served by it. `ServedIsEntitled` bounds this to the request itself.
- A resource without an ID in its file gets the hash of its name, so after a rename and a
  restore it has another id; the backup writes the ids of the others (`RestoredIsArchive`). An
  id the sequence draws can be the hash of a name or one a proposal named: the approval fails
  and the next one draws another (`MintedIsFree`).
- The history import treats a copy as a rename, and a run over commits older than some that
  have rows already starts its registry without the newer ones: `RowsNameLast` excludes the names
  of both. A deletion has no name at all when the commit that gave it has its row from an
  earlier run, or when the file had been copied: `RowsNameLast` says that there is no other reason.

## 5. Proofs

Assumptions are `ConstantsOK` and `NullsOK` of each module, on the types of the constants
and the distinctness of NULL, and the three named below (`StartsWhole`, `LinksApart` and
`StartOK`); nothing is assumed about their size. Three kinds of theorem follow: what holds
whatever overlaps or fails (`Spec => []P`); what the model itself states for behaviours
without overlap or failure, by its ghosts `alone` and `calm` (again `Spec => []P`); and what
one particular overlap breaks (`Spec /\ []Apart => []P`). In the last kind `Apart` is a state
predicate that names just that overlap, so that the theorem says both what the code ensures and
where it stops doing so.

`ProposalsProofs` proves `Spec => []TypeOK` and `Spec => []RevisionLogOK`. Neither is
inductive. `TypeOK` lets a handler be at the statement that inserts a proposal with no user
in its local variables, or that numbers a revision of a proposal that does not exist; `LocalOK`
says for each statement which locals are set and which proposals exist. `RevisionLogOK`
needs `InFlightOK`: the number held by an open revision transaction is one more than the
last committed one and no two open transactions hold the same — which is what the
unique index gives, and the proof uses `NumberTaken` and `NumberHeld` exactly there. `Inv` is
the conjunction; one lemma per action, one step per conjunct the action can disturb.

It ends with `Spec => ImplementsRevisionLog`: under the refinement mapping
(`LogOf`, `HeadOf`: the committed revisions as a sequence, the head the proposal row holds)
every step is a step of the abstract log or leaves it alone. Two actions append —
`CreateInsert` and `ReviseHead` — and `NewEntry` shows that what they append follows the last
entry, which is where `Inv` is needed: without `InFlightOK` the revision a commit makes
visible could repeat or skip a number. Every other action is quiet (`QuietMaps`).

The next part adds `HandlersOK`: what a handler in the middle of an approval or a
decision remembers (that its payload is on record as a revision, that its user was
entitled, that it committed if it is past the commit). With it `LiveIsRecorded`,
`AppliedWasCommitted`, `DecisionNamesDecider` and `AuditIsTrue` are inductive together.

The last part is about the four properties of `ProposalsSeq`, which overlap can break. Each is
proved from the absence of one overlap, everything else being free to overlap, fail and be cut off:

| theorem | from | which says that |
|---|---|---|
| `GuardedOnceApart`: `GuardedAppliesOnce` | `AppliesApart` | no two approvals of one entity are past the stale-base guard at once |
| `OverwriteApart`: `NoSilentOverwrite` | `AppliesApart`, `SnapshotsApart` | and nothing commits between the two reads of a request that branches from the entity |
| `HeadApart`: `AppliesHead` | `HeadsApart` | no revision is saved while its proposal is being approved |
| `GateApart`: `InvitesGateApply` | `LinksApart` | no invite is linked to a proposal whose invites an approval has counted |

`OnceInv` carries the first two. `Landed`: past the guard the entity is as old as the proposal
remembers it, and whoever is to commit has its row; `Spent`: a proposal that went live has
left its entity gone or newer than that, so the guard refuses it from then on, however often
it is submitted again. `AppliesApart` is used once, where a commit must not age the entity of another that
is past the guard. `BaseInv` adds that an entity as old as its copy still is what the copy says.
`OneAtATimeIsEnough` and `OneHandlerIsEnough` derive the hypotheses from requests that do not
overlap, and those from a single handler: what `ProposalsSeq` checks on two proposals holds
for any number of them.

`ContactsProofs` proves the types and all four properties of `ContactsConc`, from `ConstantsOK` and
`NullsOK` of `Contacts`. The invariant adds `HandlersOK` to the types and to `DeciderEntitled`:
`LocalOK` says what a handler holds at each statement (a handler about to record an approval
has carried it out, its user was entitled when it was read), and `Repointable` says that what
an open apply is to rename is still pending or unused. The first is stable because the
requester and the incumbent of a request never change and `done` only grows (`Keeps`,
`LocalStays`); the second because `Record` and `MarkInviteUsed` wait for the row locks in
`Moving` (`LockedStays`). `HistoryIsKept` rests on the second: without it a commit could
rename a request that was decided in between. The refinements map `Insert` to `CarryOut`,
`Record` to `Close` and `FileInsert` to `Make` of the request and, for a replacement invite, to
`CarryOut` of the invite at once, which is why requests and invites are assumed to be
disjoint; marking an invite that another accept has marked is a stutter.

The three properties of `ContactsSeq` need `StartOK` besides: active names are unique (the partial
indexes of migration 003), and a resource's contact rows at the start refer to it (the foreign
key) and are one per slot, as every list of an apply is. `NamesInv` (two open applies never
hold one row or one name) and `RowsInv` (a resource's rows belong to one that existed) hold
whatever overlaps. Then:

| theorem | from | which says that |
|---|---|---|
| `SlotsSingleApart`: `ResourceSlotSingle` | `SlotsApart` | no two replacements insert into one slot at once, and none waits or inserts while an apply holds the resource |
| `RequestsFollowApart`: `RequestFollowsRename` | `RequestsApart` | no request about a parent is filed while a rename of it is between its repoint and its commit |
| `ApprovedHoldsApart`: `ApprovedHolds` | `GrantsApart` | while an approval is under way, nobody else changes the rows of its slot, the entity or name they hang on, or the place its request names |

`SlotEmpty` and `AllHeld` make the first inductive: who is about to insert has left the slot empty,
and an apply about to commit holds every row it replaces. `MovedOK` makes the second: an apply
past its repoint holds every pending request about its parent. `GrantAt` makes the third: an
approval knows the one key its slot's rows hang on until it has inserted, what it waits to delete
is all the slot holds, and from the insert to the record the requester alone holds the slot.
Other handlers may be anywhere meanwhile, in other slots or at other statements of the same
request. `OneByOneIsEnough` and `OneHandlerIsSerial` lead back to one handler, as above. TLC
checked each invariant with two handlers (`NamesInv`, `RowsInv` as they are, `SingleInv`, `FollowInv` and `GrantInv` in the states or steps
the hypothesis admits) before they were proved; without its hypothesis it finds each of them
violated within nine states.

`HierarchyProofs` assumes `ConstantsOK`, `NullsOK` and `StartsWhole` (the tree has no orphans
to begin with) and goes in two stages. `Inv` holds however approvals overlap: `Planned` says
that an operation about to write has a row and a target of its kind, without which `TypeOK`
is not inductive; `LocksExclusive` that no two open transactions have written one row; and
`DeadUntouched` that none has written a deleted row. The last needs the second:
when a commit deletes a row, no other transaction may already hold a new version of it.
`DeadStayDead` follows. `AloneInv` adds what holds while approvals do not overlap: nobody
waits, what the open transaction sees has no orphans (not only what is committed, since
the operations of a bundle build on each other), and `Safe`, that what an operation
found before its first write is still so when it writes — which is exactly what overlap
breaks. `GuardFinds` is the heart of it: the guard joins on the name
of the parent and not on its id, and still finds all that hangs on the row the delete will match.

`CentersKept` compares the two ends of a request, so its invariant `Carried` says where a request
stands in between: a group that it has not set and whose center existed has one in what the
request sees, or, between the rename of a center and the statement that repoints its groups,
still names the old one while the new name is there; and no group names a center that is about
to be deleted. Only the statement about a center of that name can take a name away
(`CentersByName`), which leaves the three cases the proof turns on: delete, where the guard found no
group; update without a rename; and rename, which `RepointResourceGroupSupportCenter` completes.

`VOsProofs` proves `AcyclicAlone` and `DeletedUnused` for any set of names. A cycle is a set of
names no way up leaves, which keeps the proof first-order. The inductive invariant says, for
an approval that is alone (`Known`): every set that holds the proposed parent and all above its
members, the edited VO's own parent aside, also holds where the walk has come, and once the walk
has ended well none of them holds the edited VO. So a set that the write would close was
closed before it, and there was none.

`SessionsProofs` proves all four properties of `SessionsConc`. Besides the types the invariant
has `LinksOK` (a link is out for one address at most, and was honoured once if that address is
verified and never if it is not), and what a request knows at each statement: `LoginKnows`,
`MiddlewareKnows` (the user it read is its `bearer`, the roles it read are among `held`),
`HandlerKnows` (past the gate `held` has a role for it); `BearersSession` and `HeldSince` tie
the ghosts to the tables: while a session is valid its user is the bearer of whoever
came with it, and the roles of the moment are among those held since. `SetRoles` is the action that could break the last
for requests of others, and the one place where `held` grows. `LinksApart` is assumed
beside the types: the links that are out at the start differ, as random tokens do.

`IdentityProofs` proves the five properties of `IdentityConc`, first the two that hold however
requests overlap and fail, `LoginIsOwners` and `RowsNameBearer`. The invariant adds the foreign keys (`TablesOK`)
and what a request holds at each statement: `LoginKnows` and `ContactKnows`, and `OwnerKnown`,
that from the moment its identity is found or linked a provider's login holds the owner. The
argument is in three facts that no step undoes: accounts stay and keep the contact id they
have, identities stay linked as they are, invites stay with their target (`AccountsStay`,
`IdentitiesStay`, `InvitesStay`); from these `KnowsOn` carries what every other request holds
over any step, and `RowsOn` the rows. `Minted` is where the second property would break if a new
address could replace an id.

The other three hold for calm behaviours. `CalmInv` says what the tables still hold of what
the one request under way has read (`CalmKnows`: its link invite is unused, the e-mail it did not
find is nobody's, the account it is to name has no name), that an invite which attached an identity
is used or is about to be (`InviteSpent`, `ViaOnce`), and that the account of a person known
by e-mail bears that e-mail or is about to (`PersonKnown`). `OneBearer` is part of it but
needs no calm: the unique index on contact ids keeps it whatever overlaps (`ContactIdsUnique`).

`RestoreProofs` proves both properties of `RestoreConc`. `TablesConsistent` holds whatever overlaps,
fails or is cut off: names of live resources are unique, ids that approvals gave are ones files keep, no
resource is there without its group, and the backup has what it is to keep under its id. `CalmInv`
adds that an import is alone, that the rows are those it has inserted so far
(`InsertedSoFar`: this is why an import after one that was cut short ends right), and that once it
has resynchronized the sequence every id lies behind it, save those a proposal named afterwards
(`SeqBehind`). That the resynchronization reaches a greatest id needs the greatest element
of a set of numbers, which `Greatest` takes from well-foundedness (`WFMin`).

`HistoryProofs` proves both properties of `HistoryConc`, for any paths, histories and runs. That a
commit has its row (`Replayed`) is the smaller part: a run past its list has, for each commit it
listed, a row in the table or one still planned (`Covered`), and no step takes rows away. What a
row says (`NamedAsLast`) is about what pass 1 computes over the whole walk, and the proof follows
the walk. It does so without an induction rule: `AllAlong` says that what holds at the start of a
range and at the successor of each place where it holds does so all along it, from the existence
of a least counterexample (`Least`, by well-foundedness), and takes the places as a set.
`PassExists` and `PassOneIs` get from it that the recursion in `PassOne` has a solution, so that
it is one.

- `Touches`, `TouchOK` and `TouchKeepsNames` are what one call of `Touch` does; `PassOK`,
  `PassKeepsNames` and `PassRests` what that makes of the registry between two places of the walk.
- `Legal` is a history that git can show: some sequence of holders of the paths fits it
  (`Follows`), the commits are in order, and a copy comes with a change of its original. People
  committing keep it so (`CommitRecorded`).
- `Knows` is the heart: once pass 1 has met an entity it has one identity for it, on the path that
  really holds it, which is its last name and the identity's (`RegistryOK`), or, after a deletion,
  on no path and still under that name, or under none if the deletion is all it has seen. It holds
  from the entity's first changed path on (`KnowsFirst`), and each further one keeps it unless it
  copies the entity's file or was skipped (`KnowsNext`, `KnowsOn`). So at the end of the walk the
  identity of any change has the entity's last name (`NamedLast`).
- `Sighted` is the converse, for deletions without a name: if the walk has met the commit that
  last named the entity and nothing was copied since, the path that is deleted has an identity
  (`Nameless`).
- `DecomposedOK` puts the two together for one changed path, `PlannedOK` for all rows of a run.

The inductive invariant `IInv` is `TypeOK`, `Recorded` (the history is legal), `RowOK` of every
row planned or written, `Covered` for runs that write, and `HistoryReplayed`. The last is
inductive only with `Covered`, and `RowsNameLast` only with `RowOK` of what is still planned. Rows
are about the history up to the head of their run, so commits that come later must leave that part
alone: `Onward` says that a step only appends changes of newer commits, and `RowStays` and
`CoveredStays` carry both over any step. TLC finds each conjunct of `IInv` to hold on the instance
of `HistoryConc` as well.

Only model-checked: `RequestsFinish` of `ProposalsLive` and `WalkEnds` of `VOsConc`, since
liveness under fairness is outside what the prover handles. `TypeOK` is proved in every module
that states it; the runs of `Proposals` and `Hierarchy` check it as well.

## 6. State of the work

Done: the proposal workflow with its abstract log, contacts and replacements with their
abstract offer, the hierarchy with its bundles, VOs, identity, sessions and e-mail
verification, import, export and restore, the history import; and proofs of every safety and
action property that a passing run checks. `HandsOffOwnSlot` is violated (4), and two liveness
properties stay with TLC. What could be added, in this order: the contacts and reporting groups of
a VO, services and institutions beside resources, and the kinds of paths the history import tells apart.

### Not modelled

Feeds, browsing and the read-only API change nothing and keep nothing; what is shown to whom is
in `Sessions`. The front end keeps no state beyond its forms. Reading and writing YAML, the XML
of the feeds and the encryption and conversion helpers are functions on data whose content no
property tells apart. Start-up, flags and migrations run alone. The OIDC settings are
configuration rows, written one by one and read by each login. The key-wise merge of
services is one field in `Proposals`, and no schema has a second version for the upgrade chain
to do anything. A downtime's number is a Unix time that nothing asks to be unique.
