------------------------------ MODULE Contacts ------------------------------
(***************************************************************************)
(* Who is the contact: slots (a contact type with a rank) of resources and *)
(* of the parents they inherit from, the requests and invites that hand a  *)
(* slot over (internal/handlers/replacements.go, invites.go, AcceptInvite  *)
(* of auth.go), and the proposals that rewrite the same slots and rename   *)
(* what they hang on (the apply functions of internal/handlers/proposals.go*)
(* and internal/topology/persist.go).                                      *)
(*                                                                         *)
(* A process is one HTTP handler in flight, as in module Proposals. Nothing*)
(* here but the apply of a proposal runs in a transaction: every other     *)
(* statement commits on its own. A resource's rows hang on its immutable   *)
(* id (resource_contacts), a parent's on its name (entity_contacts).       *)
(***************************************************************************)
EXTENDS Naturals, FiniteSets

CONSTANTS
    Procs, Users, Managers,
    Parents,        \* groups, sites or facilities: entities of one such kind
    Resources,
    Names, Slots,
    Requests,       \* ids of contact_replacements rows
    Invites,        \* ids of role_claim and replacement_request invites
    Edits,          \* ids of proposals that update an entity
    InitialName,    \* the entities that exist at the start, with their names
    InitialRows,    \* and their contacts
    FirstRow,       \* the first row id the program hands out
    None,           \* SQL NULL, no such row, an entity that is not live yet
    Gone,           \* an entity that was deleted
    MaxRows         \* bound: no request that may insert a row starts beyond it

-----------------------------------------------------------------------------
(* Rows of the tables *)

Entities  == Parents \cup Resources
KindOf(e) == IF e \in Resources THEN "resource" ELSE "parent"

Kinds    == {KindOf(e) : e \in Entities}
Keys     == Names \cup Resources
Place    == [kind : Kinds, name : Names, slot : Slots]

\* A row of resource_contacts or entity_contacts whose deleted_at is NULL. One apply
\* inserts at most one row per slot, so an id with a slot is unique.
Row     == [id : Nat, key : Keys, slot : Slots, user : Users]
Request == [place : Place, incumbent : Users, requester : Users, about : SUBSET Entities,
            status : {"pending", "approved", "rejected", "withdrawn"},
            decidedBy : Users \cup {None}]
Invite  == [kind : {"role_claim", "replacement_request"}, place : Place,
            usedBy : Users \cup {None}]
Edit    == [ent : Entities, name : Names, list : [Slots -> Users \cup {None}],
            base : SUBSET Row, stamp : Nat, open : BOOLEAN]

ASSUME ConstantsOK ==
    /\ Managers \subseteq Users
    /\ Parents \cap Resources = {} /\ Names \cap Resources = {}
    /\ Requests \cap Invites = {}
    /\ InitialName \in [Entities -> Names \cup {None}]
    /\ InitialRows \subseteq Row /\ FirstRow \in Nat
    /\ \A r \in InitialRows : r.id < FirstRow
    /\ MaxRows \in Nat

\* Active names are unique (the partial indexes of migration 003); a contact of a resource
\* refers to it, and comes from lists keyed by type and rank (ContactLists).
ASSUME StartOK ==
    /\ \A e, f \in Entities :
          KindOf(e) = KindOf(f) /\ InitialName[e] = InitialName[f] /\ InitialName[e] # None => e = f
    /\ \A x, y \in InitialRows : x.key \in Resources =>
          /\ InitialName[x.key] # None
          /\ x.key = y.key /\ x.slot = y.slot => x = y

ASSUME NullsOK ==
    /\ None \notin Users \cup Names \cup Requests \cup Invites \cup Edits \cup Keys \cup Place
    /\ None \notin Request \cup Invite \cup Edit
    /\ None \notin {"approved", "rejected", "withdrawn"}
    /\ Gone \notin Names \cup {None}

VARIABLES
    name,     \* name[e]: the name of a live entity, None before it exists, Gone after
    stamp,    \* stamp[e]: its updated_at, as the number of updates it has had
    rows,     \* the active contact rows
    nextRow,  \* gen_random_uuid() for the next row
    reqs,     \* contact_replacements
    invs,     \* invites
    edits,    \* change_proposals that update an entity
    done,     \* ghost: the requests and invites whose effect was written
    pc, loc   \* the next statement of each handler, and its local variables

tables == <<name, stamp, rows, nextRow, reqs, invs, edits, done>>
vars   == <<name, stamp, rows, nextRow, reqs, invs, edits, done, pc, loc>>

-----------------------------------------------------------------------------
(* The local variables of a handler *)

Points == {"idle", "slot", "file",                           \* fileReplacement
           "resolve", "clear", "wait", "insert",             \* ReplaceContactSlot
           "record", "mark",                                 \* the end of a hand-off
           "repoint", "commit"}                              \* an apply

Local == [user : Users \cup {None}, taker : Users \cup {None}, place : Place \cup {None},
          key : Keys \cup {None}, holder : Users \cup {None},
          outcome : {None, "approved", "rejected", "withdrawn"},
          request : Requests \cup {None}, invite : Invites \cup {None},
          edit : Edits \cup {None}, old : SUBSET Row, moved : SUBSET (Requests \cup Invites)]

NoLocal == [user |-> None, taker |-> None, place |-> None, key |-> None, holder |-> None,
            outcome |-> None, request |-> None, invite |-> None, edit |-> None,
            old |-> {}, moved |-> {}]

Live        == {e \in Entities : name[e] \in Names}
Named(k, n) == {e \in Live : KindOf(e) = k /\ name[e] = n}

\* What the rows of an entity of that name hang on.
KeysOf(k, n) == IF k = "parent" THEN {n} ELSE Named(k, n)
KeyOf(e)     == IF e \in Resources THEN e ELSE name[e]

\* GetContactSlot reads one of these rows.
HoldersOf(pl) == {r.user : r \in {x \in rows : /\ x.key \in KeysOf(pl.kind, pl.name)
                                               /\ x.slot = pl.slot}}

Pending == {r \in Requests : reqs[r] # None /\ reqs[r].status = "pending"}
Unused  == {i \in Invites : invs[i] # None /\ invs[i].usedBy = None}

\* The transactions that are open, and what their rows keep others waiting for.
Applying    == {w \in Procs : pc[w] \in {"repoint", "commit"}}
Locked      == UNION {loc[w].old : w \in Applying}
Moving      == UNION {loc[w].moved : w \in Applying}
Busy(e)     == \E w \in Applying : edits[loc[w].edit].ent = e
Taken(k, n) == \/ Named(k, n) # {}
               \/ \E w \in Applying : /\ edits[loc[w].edit].name = n
                                      /\ KindOf(edits[loc[w].edit].ent) = k

-----------------------------------------------------------------------------
(* Steps of a handler. A definition marked "slip" is a mistake this code could have   *)
(* made; PROJECT.json puts it in the place of the definition that follows it to show  *)
(* that the property it names would notice.                                           *)

Init ==
    /\ name = InitialName
    /\ stamp = [e \in Entities |-> 0]
    /\ rows = InitialRows
    /\ nextRow = FirstRow
    /\ reqs = [r \in Requests |-> None]
    /\ invs = [i \in Invites |-> None]
    /\ edits = [d \in Edits |-> None]
    /\ done = {}
    /\ pc = [w \in Procs |-> "idle"]
    /\ loc = [w \in Procs |-> NoLocal]

Goto(w, p, l) == pc' = [pc EXCEPT ![w] = p] /\ loc' = [loc EXCEPT ![w] = l]
Finish(w)     == Goto(w, "idle", NoLocal)
Room          == nextRow <= MaxRows

(* --- fileReplacement ------------------------------------------------------ *)

\* GetContactSlot: whoever asks must find a holder, and one who is somebody else.
FindIncumbent(w, l) ==
    \E h \in HoldersOf(l.place) \ {l.taker} : Goto(w, "file", [l EXCEPT !.holder = h])

\* CreateContactReplacement, for a place any user may name.
FileRequest(w) ==
    /\ pc[w] = "idle"
    /\ \E u \in Users, pl \in Place :
          FindIncumbent(w, [NoLocal EXCEPT !.user = u, !.taker = u, !.place = pl])
    /\ UNCHANGED tables

\* slip: a request that could not be filed does not stop the accept.
FileOrNot(w) ==
    /\ pc[w] = "slot"
    /\ FindIncumbent(w, loc[w]) \/ Goto(w, "mark", loc[w])
    /\ UNCHANGED tables

\* The same read for a replacement_request invite; a refusal ends the accept.
FileFromInvite(w) ==
    /\ pc[w] = "slot"
    /\ \/ FindIncumbent(w, loc[w])
       \/ /\ \/ HoldersOf(loc[w].place) = {}
             \/ loc[w].taker \in HoldersOf(loc[w].place)
          /\ Finish(w)
    /\ UNCHANGED tables

FileInsert(w) ==
    /\ pc[w] = "file"
    /\ \E r \in Requests :
          /\ reqs[r] = None
          /\ reqs' = [reqs EXCEPT ![r] =
                [place |-> loc[w].place, incumbent |-> loc[w].holder,
                 requester |-> loc[w].taker,
                 about |-> Named(loc[w].place.kind, loc[w].place.name),
                 status |-> "pending", decidedBy |-> None]]
    /\ IF loc[w].invite = None
         THEN Finish(w) /\ UNCHANGED done
         ELSE Goto(w, "mark", loc[w]) /\ done' = done \cup {loc[w].invite}
    /\ UNCHANGED <<name, stamp, rows, nextRow, invs, edits>>

(* --- ReplaceContactSlot --------------------------------------------------- *)

\* Where the replacement of a place begins: a resource is first looked up by name.
TakeOver(w, l) ==
    IF l.place.kind = "resource" THEN Goto(w, "resolve", l)
                                 ELSE Goto(w, "clear", [l EXCEPT !.key = l.place.name])

Resolve(w) ==
    /\ pc[w] = "resolve"
    /\ \/ \E e \in Named("resource", loc[w].place.name) :
             Goto(w, "clear", [loc[w] EXCEPT !.key = e])
       \/ Named("resource", loc[w].place.name) = {} /\ Finish(w)
    /\ UNCHANGED tables

\* slip: every kind's contacts are looked for under the entity's name.
IncumbentsByName(w) == {r \in rows : r.key = loc[w].place.name /\ r.slot = loc[w].place.slot}

\* The rows the soft-delete matches when it begins.
Incumbents(w) == {r \in rows : r.key = loc[w].key /\ r.slot = loc[w].place.slot}

\* The soft-delete. If an apply has deleted one of the rows and has not committed, the
\* statement waits, and rows that apply inserts are not among those it matched.
Clear(w) ==
    /\ pc[w] = "clear"
    /\ IF Incumbents(w) \cap Locked = {}
         THEN rows' = rows \ Incumbents(w) /\ Goto(w, "insert", loc[w])
         ELSE Goto(w, "wait", [loc[w] EXCEPT !.old = Incumbents(w)]) /\ UNCHANGED rows
    /\ UNCHANGED <<name, stamp, nextRow, reqs, invs, edits, done>>

ClearAfterWait(w) ==
    /\ pc[w] = "wait"
    /\ loc[w].old \cap Locked = {}
    /\ rows' = rows \ loc[w].old
    /\ Goto(w, "insert", [loc[w] EXCEPT !.old = {}])
    /\ UNCHANGED <<name, stamp, nextRow, reqs, invs, edits, done>>

\* AddResourceContact or AddEntityContact, whatever has become of the entity.
Insert(w) ==
    /\ pc[w] = "insert"
    /\ rows' = rows \cup {[id |-> nextRow, key |-> loc[w].key,
                           slot |-> loc[w].place.slot, user |-> loc[w].taker]}
    /\ nextRow' = nextRow + 1
    /\ IF loc[w].invite = None
         THEN Goto(w, "record", loc[w]) /\ done' = done \cup {loc[w].request}
         ELSE Goto(w, "mark", loc[w]) /\ done' = done \cup {loc[w].invite}
    /\ UNCHANGED <<name, stamp, reqs, invs, edits>>

(* --- DecideReplacement, WithdrawReplacement ------------------------------- *)

Decider(u, r) == u = reqs[r].incumbent \/ u \in Managers

\* slip: the slot goes to the user who approves.
DecisionForDecider(r, u, o) ==
    [NoLocal EXCEPT !.user = u, !.request = r, !.outcome = o,
                    !.place = reqs[r].place, !.taker = u]

DecisionOn(r, u, o) ==
    [NoLocal EXCEPT !.user = u, !.request = r, !.outcome = o,
                    !.place = reqs[r].place, !.taker = reqs[r].requester]

Approve(w) ==
    /\ pc[w] = "idle" /\ Room
    /\ \E r \in Pending, u \in Users :
          Decider(u, r) /\ TakeOver(w, DecisionOn(r, u, "approved"))
    /\ UNCHANGED tables

Reject(w) ==
    /\ pc[w] = "idle"
    /\ \E r \in Pending, u \in Users :
          Decider(u, r) /\ Goto(w, "record", DecisionOn(r, u, "rejected"))
    /\ UNCHANGED tables

\* slip: nobody compares the user with the requester.
WithdrawAny(w) ==
    /\ pc[w] = "idle"
    /\ \E r \in {x \in Requests : reqs[x] # None}, u \in Users :
          Goto(w, "record", DecisionOn(r, u, "withdrawn"))
    /\ UNCHANGED tables

\* The requester may withdraw; the handler does not look at the status.
Withdraw(w) ==
    /\ pc[w] = "idle"
    /\ \E r \in {x \in Requests : reqs[x] # None} :
          Goto(w, "record", DecisionOn(r, reqs[r].requester, "withdrawn"))
    /\ UNCHANGED tables

\* slip: no AND status = 'pending'.
RecordAny(w) ==
    /\ pc[w] = "record"
    /\ loc[w].request \notin Moving
    /\ reqs' = [reqs EXCEPT ![loc[w].request].status = loc[w].outcome,
                            ![loc[w].request].decidedBy = loc[w].user]
    /\ Finish(w)
    /\ UNCHANGED <<name, stamp, rows, nextRow, invs, edits, done>>

\* DecideContactReplacement: the row if it is still pending, and a good answer anyway.
Record(w) ==
    LET r == loc[w].request IN
    /\ pc[w] = "record"
    /\ r \notin Moving
    /\ reqs' = IF r \in Pending
                 THEN [reqs EXCEPT ![r].status = loc[w].outcome, ![r].decidedBy = loc[w].user]
                 ELSE reqs
    /\ Finish(w)
    /\ UNCHANGED <<name, stamp, rows, nextRow, invs, edits, done>>

(* --- CreateInvite, AcceptInvite ------------------------------------------- *)

\* Any user may offer any place, one that does not exist included.
CreateInvite(w) ==
    /\ pc[w] = "idle"
    /\ \E i \in Invites, k \in {"role_claim", "replacement_request"}, pl \in Place :
          /\ invs[i] = None
          /\ invs' = [invs EXCEPT ![i] = [kind |-> k, place |-> pl, usedBy |-> None]]
    /\ UNCHANGED <<name, stamp, rows, nextRow, reqs, edits, done, pc, loc>>

\* An invite that was used or has expired ends the request here.
AcceptInvite(w) ==
    /\ pc[w] = "idle" /\ Room
    /\ \E i \in Unused, u \in Users :
          LET l == [NoLocal EXCEPT !.user = u, !.taker = u, !.invite = i,
                                   !.place = invs[i].place]
          IN IF invs[i].kind = "role_claim" THEN TakeOver(w, l) ELSE Goto(w, "slot", l)
    /\ UNCHANGED tables

\* MarkInviteUsed, whether or not it was used meanwhile.
MarkInviteUsed(w) ==
    /\ pc[w] = "mark"
    /\ loc[w].invite \notin Moving
    /\ invs' = [invs EXCEPT ![loc[w].invite].usedBy = loc[w].user]
    /\ Finish(w)
    /\ UNCHANGED <<name, stamp, rows, nextRow, reqs, edits, done>>

(* --- proposals ------------------------------------------------------------ *)

\* The rows a contact list inserts. The list has one entry per slot: a resource's by its
\* shape, a parent's because requireResolvedContacts refuses a fourth of a type.
Listed(key, list) ==
    {[id |-> nextRow, key |-> key, slot |-> s, user |-> list[s]] :
        s \in {x \in Slots : list[x] # None}}

ListsOf == [Slots -> Users \cup {None}]

\* CreateProposal for an update: base_version shows the contacts, base_updated_at dates
\* the entity's row. The editor may send any list and any name.
FileEdit(w) ==
    /\ pc[w] = "idle"
    /\ \E d \in Edits, e \in Live, n \in Names, list \in ListsOf :
          /\ edits[d] = None
          /\ edits' = [edits EXCEPT ![d] =
                [ent |-> e, name |-> n, list |-> list, stamp |-> stamp[e], open |-> TRUE,
                 base |-> {r \in rows : r.key = KeyOf(e)}]]
    /\ UNCHANGED <<name, stamp, rows, nextRow, reqs, invs, done, pc, loc>>

\* An approval up to the soft-delete of every contact of the target. The stale-base
\* guard, the entity's row lock and the unique name are taken with it.
ApplyUpdate(w) ==
    /\ pc[w] = "idle" /\ Room
    /\ \E d \in Edits :
          /\ edits[d] # None /\ edits[d].open
          /\ LET e == edits[d].ent IN
             /\ e \in Live /\ ~Busy(e) /\ stamp[e] = edits[d].stamp
             /\ edits[d].name = name[e] \/ ~Taken(KindOf(e), edits[d].name)
             /\ Goto(w, IF e \in Parents THEN "repoint" ELSE "commit",
                     [NoLocal EXCEPT !.edit = d, !.old = {r \in rows : r.key = KeyOf(e)}])
    /\ UNCHANGED tables

Target(w) == edits[loc[w].edit].ent

\* slip: decided requests are repointed with the rest.
RepointAll(w) ==
    /\ pc[w] = "repoint"
    /\ Goto(w, "commit", [loc[w] EXCEPT !.moved =
               {r \in Requests : reqs[r] # None /\ reqs[r].place.kind = "parent"
                                   /\ reqs[r].place.name = name[Target(w)]}])
    /\ UNCHANGED tables

\* slip: only the invites are repointed.
RepointInvites(w) ==
    /\ pc[w] = "repoint"
    /\ Goto(w, "commit", [loc[w] EXCEPT !.moved =
               {i \in Unused : /\ invs[i].place.kind = "parent"
                               /\ invs[i].place.name = name[Target(w)]}])
    /\ UNCHANGED tables

\* RepointEntityNameReferences, for parents only; a resource's apply has no such call.
Repoint(w) ==
    /\ pc[w] = "repoint"
    /\ LET meant(pl) == pl.kind = "parent" /\ pl.name = name[Target(w)] IN
       Goto(w, "commit", [loc[w] EXCEPT !.moved =
               {r \in Pending : meant(reqs[r].place)} \cup {i \in Unused : meant(invs[i].place)}])
    /\ UNCHANGED tables

ApplyCommit(w) ==
    LET d == loc[w].edit
        e == Target(w)
        n == edits[d].name
    IN
    /\ pc[w] = "commit"
    /\ name' = [name EXCEPT ![e] = n]
    /\ stamp' = [stamp EXCEPT ![e] = @ + 1]
    /\ rows' = (rows \ loc[w].old) \cup Listed(IF e \in Parents THEN n ELSE e, edits[d].list)
    /\ nextRow' = nextRow + 1
    /\ reqs' = [r \in Requests |-> IF r \in loc[w].moved
                                     THEN [reqs[r] EXCEPT !.place.name = n] ELSE reqs[r]]
    /\ invs' = [i \in Invites |-> IF i \in loc[w].moved
                                    THEN [invs[i] EXCEPT !.place.name = n] ELSE invs[i]]
    /\ edits' = [edits EXCEPT ![d].open = FALSE]
    /\ Finish(w)
    /\ UNCHANGED done

\* A create, in one transaction that nothing sees inside of; ReplaceEntityContacts then
\* clears the rows of the empty target name, that is none.
ApplyCreate(w) ==
    /\ pc[w] = "idle" /\ Room
    /\ \E e \in Entities, n \in Names, list \in ListsOf :
          /\ name[e] = None /\ ~Taken(KindOf(e), n)
          /\ name' = [name EXCEPT ![e] = n]
          /\ rows' = rows \cup Listed(IF e \in Parents THEN n ELSE e, list)
    /\ nextRow' = nextRow + 1
    /\ UNCHANGED <<stamp, reqs, invs, edits, done, pc, loc>>

\* A delete (of an entity without children) leaves its contacts where they are.
ApplyDelete(w) ==
    /\ pc[w] = "idle"
    /\ \E e \in Live : ~Busy(e) /\ name' = [name EXCEPT ![e] = Gone]
    /\ UNCHANGED <<stamp, rows, nextRow, reqs, invs, edits, done, pc, loc>>

\* An error return, a cancelled request or a stop of the server: an open transaction is
\* rolled back, what was committed stays.
Abort(w) == pc[w] # "idle" /\ Finish(w) /\ UNCHANGED tables

Hand(w) == \/ FileRequest(w) \/ FileFromInvite(w) \/ FileInsert(w)
           \/ Resolve(w) \/ Clear(w) \/ ClearAfterWait(w) \/ Insert(w)
           \/ Approve(w) \/ Reject(w) \/ Withdraw(w) \/ Record(w)
           \/ CreateInvite(w) \/ AcceptInvite(w) \/ MarkInviteUsed(w)

Edited(w) == \/ FileEdit(w) \/ ApplyUpdate(w) \/ Repoint(w) \/ ApplyCommit(w)
             \/ ApplyCreate(w) \/ ApplyDelete(w)

Next == \E w \in Procs : Hand(w) \/ Edited(w) \/ Abort(w)
Spec == Init /\ [][Next]_vars

-----------------------------------------------------------------------------
(* Properties *)

\* Types: every table holds rows of its shape and every handler locals of theirs.
TypeOK ==
    /\ name \in [Entities -> Names \cup {None, Gone}]
    /\ stamp \in [Entities -> Nat]
    /\ rows \subseteq Row /\ nextRow \in Nat
    /\ reqs \in [Requests -> Request \cup {None}]
    /\ invs \in [Invites -> Invite \cup {None}]
    /\ edits \in [Edits -> Edit \cup {None}]
    /\ done \subseteq Requests \cup Invites
    /\ pc \in [Procs -> Points]
    /\ loc \in [Procs -> Local]

\* A recorded decision was made by somebody who may make it: the incumbent of record or a
\* manager approves and rejects, the requester withdraws (DecideReplacement,
\* WithdrawReplacement), however many decide at once.
DeciderEntitled ==
    \A r \in Requests : reqs[r] # None =>
        CASE reqs[r].status = "pending"   -> reqs[r].decidedBy = None
          [] reqs[r].status = "withdrawn" -> reqs[r].decidedBy = reqs[r].requester
          [] OTHER -> Decider(reqs[r].decidedBy, r)

\* Decided requests are history: no decision, rename or repoint touches one again
\* (the WHERE status = 'pending' of both updates), however they overlap.
DecidedIsHistory ==
    [][\A r \in Requests : reqs[r] # None /\ r \notin Pending => reqs'[r] = reqs[r]]_vars

\* How far a request has got, as an offer.
RequestStage == [r \in Requests |->
    IF reqs[r] = None THEN "absent"
    ELSE CASE reqs[r].status = "pending"  -> "open"
           [] reqs[r].status = "approved" -> "taken"
           [] OTHER -> "refused"]
RequestOffers == INSTANCE Offer WITH
    Offers <- Requests, stage <- RequestStage, done <- done \cap Requests

\* A request is pending until decided, stays as decided, and one on record as approved
\* did move the slot to its requester (ReplaceContactSlot before DecideContactReplacement).
RequestsAreOffers == RequestOffers!Spec

\* How far an invite has got.
InviteStage == [i \in Invites |->
    IF invs[i] = None THEN "absent" ELSE IF invs[i].usedBy = None THEN "open" ELSE "taken"]
InviteOffers == INSTANCE Offer WITH
    Offers <- Invites, stage <- InviteStage, done <- done \cap Invites

\* An invite once used stays used, and one on record as used had its effect
\* (the claim's slot was taken, or a request filed, before MarkInviteUsed).
InvitesAreOffers == InviteOffers!Spec

\* Without overlap, a slot of a resource has at most one holder, whatever is handed over,
\* edited, renamed or deleted and wherever a request dies ("so a slot has a single holder").
ResourceSlotSingle ==
    \A x, y \in rows : x.key \in Resources /\ x.key = y.key /\ x.slot = y.slot => x = y

\* Without overlap, a pending request for a parent names it by the name it has now
\* (RepointEntityNameReferences: a snapshot of the name goes stale on rename otherwise).
RequestFollowsRename ==
    \A r \in Pending : \A e \in reqs[r].about \cap Live :
        e \in Parents => name[e] = reqs[r].place.name

\* Without overlap, when an approval goes on record its requester holds the slot and nobody
\* else does, whatever a request that died had left there (migration 008: "On approval the
\* slot is repointed to the requester").
ApprovedHolds ==
    [][\A r \in Pending :
          reqs'[r] # None /\ reqs'[r].status = "approved" =>
              HoldersOf(reqs[r].place) = {reqs[r].requester}]_vars

\* Migration 008: a request is approved by "the incumbent being replaced (a person may hand
\* off their own responsibility)" or by a manager: whoever is displaced by an approval of
\* somebody who is no manager is that somebody.
HandsOffOwnSlot ==
    [][\A w \in Procs :
          loc[w].request # None /\ loc[w].user \notin Managers
              /\ pc[w] \in {"clear", "wait"} /\ pc'[w] = "insert" =>
              \A x \in rows \ rows' : x.user = loc[w].user]_vars
=============================================================================
