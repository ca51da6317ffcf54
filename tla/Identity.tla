------------------------------- MODULE Identity -------------------------------
(***************************************************************************)
(* Accounts, the federated identities that open them, the invite links     *)
(* that attach identities, and the contact ids and usernames of accounts:  *)
(* internal/handlers/auth.go and invites.go over internal/db/              *)
(* queries_auth.go. What a login does once the account is known (roles and *)
(* the session) is in module Sessions.                                     *)
(*                                                                         *)
(* A process is one request. Each of its statements is a transaction of    *)
(* its own, so other requests run between any two of them.                 *)
(***************************************************************************)
EXTENDS Naturals, FiniteSets

CONSTANTS
    Procs, Accounts, Invites,
    Subjects,     \* federated identities: (issuer, subject) pairs
    Ids,          \* contact ids: hashes of e-mail addresses, and CILogon ids
    Claims,       \* what providers say of who signs in: subject, e-mail hash, CILogon id
    DevSubject,   \* the identity of each e-mail that signs in without a provider
    Production,   \* cfg.IsProduction()
    Faults,       \* whether statements whose error the code discards may fail
    Imported,     \* contact ids on rows that an older import left without an account
    First,        \* an account that exists at the start
    MaxName,      \* bound: the candidates for a username (200 in the code)
    MaxRequests,  \* bound: no request starts beyond it
    None

Links  == {"account_link", "contact_onboard"}
Kinds  == Links \cup {"role_claim", "replacement_request"}
Flows  == {"oidc", "dev", "issue", "accept", "contact", "backfill"}
Ways   == {"invite", "cilogon", "email", "new", "dev"}
Points == {"idle", "find", "invite", "byCILogon", "byEmail", "create", "attach", "mint", "use",
           "stamp", "readName", "setName", "signin", "provision", "issue", "upsert", "row",
           "vivify", "relink"}

\* username 0 is NULL: n is the n-th candidate for a display name that all of them share.
Account  == [contact : Ids \cup {None}, username : 0..MaxName, provisioned : BOOLEAN]
\* how and via are ghosts: what the identity was attached for, and the invite it came with.
Identity == [account : Accounts, email : Ids \cup {None}, how : Ways, via : Invites \cup {None}]
Invite   == [kind : Kinds, target : Accounts \cup {None}, used : BOOLEAN, expired : BOOLEAN]
ContactRow == Ids \X (Accounts \cup {None})

ASSUME ConstantsOK ==
    /\ Claims \subseteq [subject : Subjects, email : Ids \cup {None}, cilogon : Ids \cup {None}]
    /\ DOMAIN DevSubject \subseteq Ids
    /\ \A e \in DOMAIN DevSubject : DevSubject[e] \in Subjects
    /\ Production \in BOOLEAN /\ Faults \in BOOLEAN
    /\ Imported \subseteq Ids /\ First \in Accounts /\ MaxName \in Nat
    /\ MaxRequests \in Nat
ASSUME NullsOK == None \notin Accounts \cup Invites \cup Ids \cup Account \cup Identity \cup Invite

VARIABLES
    account, identity, invite,   \* tables by key, None where there is no row
    row,                         \* contact rows: the contact id and the account linked to it
    pc, loc,                     \* the next statement of each request and its local variables
    begun,                       \* how many requests have started
    calm                         \* ghost: nothing has overlapped, failed or been cut off so far

vars == <<account, identity, invite, row, pc, loc, begun, calm>>

-----------------------------------------------------------------------------
(* Local variables *)

\* link: the invite in the URL; inv: that invite once found usable; own: DevLogin creates the
\* account itself.
Local == [flow : Flows, subject : Subjects \cup {None}, email : Ids \cup {None},
          cilogon : Ids \cup {None}, link : Invites \cup {None}, inv : Invites \cup {None},
          account : Accounts \cup {None}, how : Ways, kind : Kinds, next : 0..MaxName,
          own : BOOLEAN]

NoLocal == [flow |-> "oidc", subject |-> None, email |-> None, cilogon |-> None, link |-> None,
            inv |-> None, account |-> None, how |-> "new", kind |-> "role_claim", next |-> 0,
            own |-> FALSE]

Bearers(i) == {a \in Accounts : account[a] # None /\ account[a].contact = i}
Named(n)   == {a \in Accounts : account[a] # None /\ account[a].username = n}
Fresh      == {a \in Accounts : account[a] = None}
Issued     == {i \in Invites : invite[i] # None}

NewAccount == [contact |-> None, username |-> 0, provisioned |-> FALSE]
Stub(i)    == [contact |-> i, username |-> 0, provisioned |-> TRUE]

Init ==
    /\ account = [a \in Accounts |-> IF a = First THEN NewAccount ELSE None]
    /\ identity = [s \in Subjects |-> None]
    /\ invite = [i \in Invites |-> None]
    /\ row = Imported \X {None}
    /\ pc = [p \in Procs |-> "idle"]
    /\ loc = [p \in Procs |-> NoLocal]
    /\ begun = 0 /\ calm = TRUE

Goto(p, point, l) == pc' = [pc EXCEPT ![p] = point] /\ loc' = [loc EXCEPT ![p] = l]
Finish(p)         == Goto(p, "idle", NoLocal)

\* A discarded error: the request goes on as if nothing had been found or had to be done.
Lost(p, point, l) == Faults /\ calm' = FALSE /\ Goto(p, point, l)

Begin(p, point, l) ==
    /\ pc[p] = "idle" /\ begun < MaxRequests
    /\ begun' = begun + 1
    /\ calm' = (calm /\ \A q \in Procs : pc[q] = "idle")
    /\ Goto(p, point, l)
    /\ UNCHANGED <<account, identity, invite, row>>

At(p, point) == pc[p] = point

-----------------------------------------------------------------------------
(* Signing in. A definition marked "slip" is a mistake this code could have made;      *)
(* PROJECT.json puts it in the place of the definition that follows it to show that    *)
(* the property it names would notice.                                                 *)

\* The invite that the signed state cookie brings back, if the login began with one.
Carried == Issued \cup {None}

\* What the token endpoint and userinfo say of who signs in.
Asserted == Claims

OIDCCallback(p) ==
    \E c \in Asserted, i \in Carried :
        Begin(p, "find", [NoLocal EXCEPT !.subject = c.subject, !.email = c.email,
                                         !.cilogon = c.cilogon, !.link = i])

DevLogin(p) ==
    /\ ~Production
    /\ \E e \in DOMAIN DevSubject, i \in Carried :
          Begin(p, "find", [NoLocal EXCEPT !.flow = "dev", !.subject = DevSubject[e],
                                           !.email = e, !.link = i])

\* Where onboarding starts: with the invite, if the request carries one.
Onboard(l) == IF l.link # None THEN "invite" ELSE IF l.flow = "dev" THEN "create" ELSE "byCILogon"

FindIdentity(p) ==
    LET l  == loc[p]
        id == identity[l.subject]
        on == [l EXCEPT !.own = l.link = None /\ l.flow = "dev"]
    IN  /\ At(p, "find")
        /\ \/ /\ id # None
              /\ Goto(p, IF id.email # None THEN "mint" ELSE "stamp",
                      [l EXCEPT !.account = id.account, !.email = id.email])
              /\ UNCHANGED calm
           \/ id = None /\ Goto(p, Onboard(l), on) /\ UNCHANGED calm
           \/ id # None /\ Lost(p, Onboard(l), on)
        /\ UNCHANGED <<account, identity, invite, row, begun>>

Usable(i) == ~invite[i].used /\ ~invite[i].expired

Attaches(i) == Usable(i) /\ invite[i].kind \in Links /\ invite[i].target # None

\* A link invite gives the account; any other usable one is kept for later.
GetInvite(p) ==
    LET l == loc[p]
        i == l.link
        l2 == [l EXCEPT !.inv = i, !.kind = invite[i].kind]
    IN  /\ At(p, "invite")
        /\ \/ /\ Attaches(i)
              /\ Goto(p, "attach", [l2 EXCEPT !.account = invite[i].target, !.how = "invite"])
              /\ UNCHANGED calm
           \/ Usable(i) /\ ~Attaches(i) /\ Goto(p, "byCILogon", l2) /\ UNCHANGED calm
           \/ ~Usable(i) /\ Goto(p, "byCILogon", l) /\ UNCHANGED calm
           \/ Usable(i) /\ Lost(p, "byCILogon", l)
        /\ UNCHANGED <<account, identity, invite, row, begun>>

\* Nobody is recognized: a role_claim invite opens a new account, DevLogin always does.
Unrecognized(p, l) ==
    IF l.inv # None /\ l.kind = "role_claim" THEN Goto(p, "create", l)
    ELSE IF l.flow = "dev" THEN Goto(p, "create", [l EXCEPT !.own = TRUE])
    ELSE Finish(p)

\* FindUserByLegacyContactID. An error is taken for not found.
Recognize(p, i, way) ==
    /\ i # None
    /\ \E a \in Bearers(i) : Goto(p, "attach", [loc[p] EXCEPT !.account = a, !.how = way])
    /\ UNCHANGED calm

Overlook(i) == \/ (i = None \/ Bearers(i) = {}) /\ UNCHANGED calm
               \/ i # None /\ Bearers(i) # {} /\ Faults /\ calm' = FALSE

ByCILogon(p) ==
    /\ At(p, "byCILogon")
    /\ \/ Recognize(p, loc[p].cilogon, "cilogon")
       \/ Overlook(loc[p].cilogon) /\ Goto(p, "byEmail", loc[p])
    /\ UNCHANGED <<account, identity, invite, row, begun>>

\* slip: the e-mail is not looked up.
NotByEmail(p) ==
    /\ At(p, "byEmail")
    /\ Unrecognized(p, loc[p])
    /\ UNCHANGED <<account, identity, invite, row, calm, begun>>

ByEmail(p) ==
    /\ At(p, "byEmail")
    /\ \/ Recognize(p, loc[p].email, "email")
       \/ Overlook(loc[p].email) /\ Unrecognized(p, loc[p])
    /\ UNCHANGED <<account, identity, invite, row, begun>>

CreateUser(p) ==
    /\ At(p, "create")
    /\ \E a \in Fresh :
          /\ account' = [account EXCEPT ![a] = NewAccount]
          /\ Goto(p, "attach", [loc[p] EXCEPT !.account = a,
                                              !.how = IF loc[p].own THEN "dev" ELSE "new"])
    /\ UNCHANGED <<identity, invite, row, calm, begun>>

\* After the identity is attached: a link invite has been used up.
Attached(l) == IF l.how = "invite" THEN "use" ELSE "stamp"

\* slip: an identity that is linked elsewhere opens the account all the same.
LinkRefusedIgnored(p, l) == Goto(p, "stamp", l)

\* An identity that is already linked is an error, which DevLogin overcomes with an account of
\* its own, and then ignores.
LinkRefused(p, l) ==
    IF l.flow # "dev" THEN Finish(p)
    ELSE IF l.own THEN Goto(p, "stamp", l)
    ELSE Goto(p, "create", [l EXCEPT !.own = TRUE, !.inv = None])

\* CreateIdentity, UNIQUE (issuer, subject).
LinkIdentity(p) ==
    LET l == loc[p] IN
    /\ At(p, "attach")
    /\ \/ /\ identity[l.subject] = None
          /\ identity' = [identity EXCEPT ![l.subject] =
                 [account |-> l.account, email |-> l.email, how |-> l.how,
                  via |-> IF l.how = "invite" THEN l.inv ELSE None]]
          /\ Goto(p, IF l.email # None THEN "mint" ELSE Attached(l), l)
       \/ identity[l.subject] # None /\ LinkRefused(p, l) /\ UNCHANGED identity
    /\ UNCHANGED <<account, invite, row, calm, begun>>

\* slip: the id follows the last e-mail.
IdFollowsEmail(a, i) ==
    IF Bearers(i) \ {a} = {} THEN [account EXCEPT ![a].contact = i] ELSE account

\* SetLegacyContactIDIfMissing: nothing happens to an account that has an id, or over one that
\* somebody else has.
Minted(a, i) ==
    IF account[a].contact = None /\ Bearers(i) = {} THEN [account EXCEPT ![a].contact = i]
                                                    ELSE account

Mint(p) ==
    LET l == loc[p] IN
    /\ At(p, "mint")
    /\ \/ /\ account' = Minted(l.account, l.email)
          /\ Goto(p, Attached(l), l) /\ UNCHANGED calm
       \/ Lost(p, Attached(l), l) /\ UNCHANGED account
    /\ UNCHANGED <<identity, invite, row, begun>>

\* slip: only the acceptance of an invite uses it up.
UsedBy(i, l) == [invite EXCEPT ![i].used = @ \/ l.flow = "accept"]

Used(i, l) == [invite EXCEPT ![i].used = TRUE]

\* MarkInviteUsed, whose error a login discards.
MarkInviteUsed(p) ==
    LET l == loc[p] IN
    /\ At(p, "use")
    /\ \/ /\ invite' = Used(l.inv, l) /\ UNCHANGED calm
          /\ IF l.flow = "accept" THEN Finish(p) ELSE Goto(p, "stamp", l)
       \/ l.flow # "accept" /\ Lost(p, "stamp", l) /\ UNCHANGED invite
    /\ UNCHANGED <<account, identity, row, begun>>

\* UpdateUserLastLogin: the account is claimed.
Stamp(p) ==
    LET l == loc[p] IN
    /\ At(p, "stamp")
    /\ \/ /\ account' = [account EXCEPT ![l.account].provisioned = FALSE]
          /\ Goto(p, "readName", l) /\ UNCHANGED calm
       \/ Lost(p, "readName", l) /\ UNCHANGED account
    /\ UNCHANGED <<identity, invite, row, begun>>

\* slip: the username is derived at every login.
Unnamed(a) == TRUE

NeedsName(a) == account[a].username = 0

\* EnsureUsername: the account's username, and if it has none the first candidate that is free.
ReadName(p) ==
    LET l == loc[p] IN
    /\ At(p, "readName")
    /\ \/ ~NeedsName(l.account) /\ Goto(p, "signin", l) /\ UNCHANGED calm
       \/ NeedsName(l.account) /\ MaxName > 0 /\ Goto(p, "setName", [l EXCEPT !.next = 1])
          /\ UNCHANGED calm
       \/ Lost(p, "signin", l)
    /\ UNCHANGED <<account, identity, invite, row, begun>>

\* The update does not ask again whether the account still has no username.
SetName(p) ==
    LET l == loc[p] IN
    /\ At(p, "setName")
    /\ \/ /\ Named(l.next) = {}
          /\ account' = [account EXCEPT ![l.account].username = l.next]
          /\ Goto(p, "signin", l) /\ UNCHANGED calm
       \/ /\ Named(l.next) # {} /\ UNCHANGED <<account, calm>>
          /\ IF l.next < MaxName THEN Goto(p, "setName", [l EXCEPT !.next = @ + 1])
                                 ELSE Goto(p, "signin", l)
       \/ Lost(p, "signin", l) /\ UNCHANGED account
    /\ UNCHANGED <<identity, invite, row, begun>>

\* The login goes on to the roles and the session of the account (Sessions).
SignIn(p) ==
    /\ At(p, "signin") /\ Finish(p)
    /\ UNCHANGED <<account, identity, invite, row, calm, begun>>

-----------------------------------------------------------------------------
(* Invites *)

CreateInvite(p) ==
    \/ \E a \in Accounts \ Fresh :
          Begin(p, "issue", [NoLocal EXCEPT !.flow = "issue", !.kind = "account_link", !.account = a])
    \/ \E e \in Ids :
          Begin(p, "provision", [NoLocal EXCEPT !.flow = "issue", !.kind = "contact_onboard",
                                                !.email = e])
    \/ \E k \in Kinds \ Links : Begin(p, "issue", [NoLocal EXCEPT !.flow = "issue", !.kind = k])

\* The account of a new contact; a contact id that is taken is an error.
Provision(p) ==
    LET l == loc[p] IN
    /\ At(p, "provision")
    /\ \/ /\ Bearers(l.email) = {}
          /\ \E a \in Fresh : /\ account' = [account EXCEPT ![a] = Stub(l.email)]
                              /\ Goto(p, "issue", [l EXCEPT !.account = a])
       \/ Bearers(l.email) # {} /\ Finish(p) /\ UNCHANGED account
    /\ UNCHANGED <<identity, invite, row, calm, begun>>

Issue(p) ==
    LET l == loc[p] IN
    /\ At(p, "issue")
    /\ \E i \in Invites \ Issued :
          invite' = [invite EXCEPT ![i] = [kind |-> l.kind, target |-> l.account,
                                           used |-> FALSE, expired |-> FALSE]]
    /\ Finish(p)
    /\ UNCHANGED <<account, identity, row, calm, begun>>

\* AcceptInvite of somebody signed in. What the invite offers is in module Contacts.
AcceptInvite(p) ==
    \E i \in Issued, a \in Accounts \ Fresh :
        /\ Usable(i)
        /\ Begin(p, "use", [NoLocal EXCEPT !.flow = "accept", !.inv = i, !.account = a])

Expire == /\ \E i \in Issued : ~invite[i].expired /\ invite' = [invite EXCEPT ![i].expired = TRUE]
          /\ UNCHANGED <<account, identity, row, pc, loc, calm, begun>>

-----------------------------------------------------------------------------
(* Contacts *)

\* A contact is added to an entity: an account for its id, then the row that links it.
AddContact(p) ==
    \E i \in Ids : Begin(p, "upsert", [NoLocal EXCEPT !.flow = "contact", !.email = i])

\* UpsertProvisionedContactUser, whose error is discarded.
Upsert(p) ==
    LET l == loc[p] IN
    /\ At(p, "upsert")
    /\ \/ /\ \E a \in Bearers(l.email) : Goto(p, "row", [l EXCEPT !.account = a])
          /\ UNCHANGED <<account, calm>>
       \/ /\ Bearers(l.email) = {} /\ UNCHANGED calm
          /\ \E a \in Fresh : /\ account' = [account EXCEPT ![a] = Stub(l.email)]
                              /\ Goto(p, "row", [l EXCEPT !.account = a])
       \/ Lost(p, "row", l) /\ UNCHANGED account
    /\ UNCHANGED <<identity, invite, row, begun>>

InsertRow(p) ==
    /\ At(p, "row")
    /\ row' = row \cup {<<loc[p].email, loc[p].account>>}
    /\ Finish(p)
    /\ UNCHANGED <<account, identity, invite, calm, begun>>

\* backfill-contacts: accounts for the contact ids on rows, then the rows are linked.
Backfill(p) == Begin(p, "vivify", [NoLocal EXCEPT !.flow = "backfill"])

Unknown == {i \in Ids : Bearers(i) = {} /\ \E r \in row : r[1] = i}

Vivify(p) ==
    /\ At(p, "vivify")
    /\ \E stub \in [Fresh -> Unknown \cup {None}] :
          /\ \A i \in Unknown : \E a \in Fresh : \A b \in Fresh : stub[b] = i <=> b = a
          /\ account' = [a \in Accounts |-> IF a \in Fresh /\ stub[a] # None THEN Stub(stub[a])
                                                                        ELSE account[a]]
    /\ Goto(p, "relink", loc[p])
    /\ UNCHANGED <<identity, invite, row, calm, begun>>

Linked(r) == IF r[2] = None THEN {<<r[1], a>> : a \in Bearers(r[1])} ELSE {r}

Relink(p) ==
    /\ At(p, "relink")
    /\ row' = UNION {IF Linked(r) = {} THEN {r} ELSE Linked(r) : r \in row}
    /\ Finish(p)
    /\ UNCHANGED <<account, identity, invite, calm, begun>>

\* SetUsername: an administrator renames an account, in one statement.
SetUsername ==
    /\ \E a \in Accounts \ Fresh, n \in 1..MaxName :
          Named(n) \ {a} = {} /\ account' = [account EXCEPT ![a].username = n]
    /\ calm' = (calm /\ \A q \in Procs : pc[q] = "idle")
    /\ UNCHANGED <<identity, invite, row, pc, loc, begun>>

-----------------------------------------------------------------------------

\* Any other error, and a crash: the request ends where it is.
Stop(p) ==
    /\ ~At(p, "idle") /\ Finish(p)
    /\ calm' = FALSE
    /\ UNCHANGED <<account, identity, invite, row, begun>>

Arrive(p)  == OIDCCallback(p) \/ DevLogin(p) \/ CreateInvite(p) \/ AcceptInvite(p)
              \/ AddContact(p) \/ Backfill(p)
Recall(p)  == FindIdentity(p) \/ GetInvite(p) \/ ByCILogon(p) \/ ByEmail(p)
Join(p)    == CreateUser(p) \/ LinkIdentity(p) \/ Mint(p) \/ MarkInviteUsed(p)
LoginUser(p) == Stamp(p) \/ ReadName(p) \/ SetName(p) \/ SignIn(p)
Invitation(p) == Provision(p) \/ Issue(p)
Contact(p) == Upsert(p) \/ InsertRow(p) \/ Vivify(p) \/ Relink(p)

Next ==
    \/ \E p \in Procs : Arrive(p) \/ Recall(p) \/ Join(p) \/ LoginUser(p) \/ Invitation(p)
                        \/ Contact(p) \/ Stop(p)
    \/ Expire \/ SetUsername
Spec == Init /\ [][Next]_vars

-----------------------------------------------------------------------------
(* Properties *)

\* Types.
TypeOK ==
    /\ account \in [Accounts -> Account \cup {None}]
    /\ identity \in [Subjects -> Identity \cup {None}]
    /\ invite \in [Invites -> Invite \cup {None}]
    /\ row \subseteq ContactRow
    /\ pc \in [Procs -> Points]
    /\ loc \in [Procs -> Local]
    /\ begun \in Nat /\ calm \in BOOLEAN

\* Whoever signs in through the provider is signed in to the account that owns the identity,
\* whatever else was linked, invited or cut off meanwhile (OIDCCallback, linkIdentity).
LoginIsOwners ==
    \A p \in Procs :
        loc[p].flow = "oidc" /\ pc[p] \in {"use", "stamp", "readName", "setName", "signin"} =>
            /\ identity[loc[p].subject] # None
            /\ identity[loc[p].subject].account = loc[p].account

\* A contact row is linked to the account that bears its contact id, also when that account
\* gets other identities and e-mail addresses later (UpsertProvisionedContactUser, the
\* backfill and SetLegacyContactIDIfMissing).
RowsNameBearer ==
    \A r \in row : r[2] # None => account[r[2]] # None /\ account[r[2]].contact = r[1]

\* An invite link attaches one identity ("Invites: single-use", migration 002).
AttachedBy(i) == {s \in Subjects : identity[s] # None /\ identity[s].via = i}
InviteAttachesOnce == \A i \in Invites : Cardinality(AttachedBy(i)) <= 1

\* So it is while no request overlaps another, fails or is cut off.
InviteAttachesOnceCalm == calm => InviteAttachesOnce

\* Under the same condition a person who is known by e-mail gets no second account: the account
\* an identity opened or was matched with is the one that bears the identity's e-mail
\* ("recognized as the same person on their first real login, not duplicated into a second
\* account": onboardIdentity).
OneAccountPerPerson ==
    calm /\ (\A p \in Procs : pc[p] = "idle") => \A s \in Subjects :
        identity[s] # None /\ identity[s].email # None /\ identity[s].how \in {"email", "new"} =>
            Bearers(identity[s].email) = {identity[s].account}

\* Under the same condition logging in never changes a username ("idempotent thereafter":
\* loginUser); only an administrator does.
UsernameKept ==
    [][\A a \in Accounts :
          calm' /\ account[a] # None /\ account[a].username # 0
             /\ account'[a].username # account[a].username => \A p \in Procs : pc[p] = "idle"]_vars
=============================================================================
