------------------------------- MODULE Sessions -------------------------------
(***************************************************************************)
(* Roles, sessions and what a request may do with them: the end of a login *)
(* (internal/handlers/auth.go), the middleware every route passes          *)
(* (middleware.go), role changes (admin_settings.go) and the verification  *)
(* of e-mail addresses (email_verify.go).                                  *)
(*                                                                         *)
(* A process is one request, a step is one statement. The middleware reads *)
(* the session, the user and the roles in three statements, and the        *)
(* handler acts on what they returned, whatever has changed since.         *)
(***************************************************************************)
EXTENDS Naturals, FiniteSets

CONSTANTS
    Procs, Users, Tokens, Addresses,
    Links,         \* tokens of verification links
    First,         \* the roles of each user at the start
    Before,        \* who is signed in at the start, by token
    Sent,          \* the links that are out at the start, by user and address
    Disabled,      \* the users whose status is not active
    Production,    \* cfg.IsProduction()
    Faults,        \* whether statements whose error the code discards may fail
    Asked,         \* bound: the roles that requests ask to be given or taken away
    MaxRequests,   \* bound: no request starts beyond it
    None

Roles == {"administrator", "manager", "user", "contact_reader"}
Rank  == [r \in Roles |-> CASE r = "administrator" -> 3 [] r = "manager" -> 2
                            [] r = "user" -> 1 [] r = "contact_reader" -> 0]

\* What a request asks for: contact data on a public page, the audit log, a change of roles,
\* an e-mail verification. (Pages of one's own change nothing here and show nobody else.)
Guarded == {"audit", "setRole"}
Routes  == Guarded \cup {"contacts", "requestEmail", "confirmEmail"}
Points  == {"idle", "session", "user", "roles", "gate", "serve", "answer",
            "grant", "readRoles", "default", "create"}

Session == [user : Users, role : Roles, expired : BOOLEAN]
Mail    == [link : Links, verified : BOOLEAN, expired : BOOLEAN]

ASSUME ConstantsOK ==
    /\ DOMAIN Before \subseteq Tokens /\ \A t \in DOMAIN Before : Before[t] \in Users
    /\ DOMAIN Sent \subseteq Users \X Addresses /\ \A k \in DOMAIN Sent : Sent[k] \in Links
    /\ First \in [Users -> SUBSET Roles] /\ Disabled \subseteq Users /\ Asked \subseteq Roles
    /\ Production \in BOOLEAN /\ Faults \in BOOLEAN /\ MaxRequests \in Nat
\* Links are random.
ASSUME LinksApart == \A j, k \in DOMAIN Sent : Sent[j] = Sent[k] => j = k
ASSUME NullsOK == None \notin Users \cup Tokens \cup Links \cup Session \cup Mail

VARIABLES
    role,       \* the roles of each user
    session,    \* the session rows by token
    mail,       \* the verification of each address of each user
    issued,     \* ghost: the tokens and the links that were ever handed out
    opened,     \* ghost: how many times each link was honoured
    pc, loc,    \* the next statement of each request and its local variables
    begun       \* how many requests have started

vars == <<role, session, mail, issued, opened, pc, loc, begun>>

-----------------------------------------------------------------------------
(* roles is what the middleware read. bearer and held are ghosts: the user whose session was  *)
(* open when the request arrived, and the roles that this user has had since.                 *)
Local == [route : Routes, token : Tokens \cup {None}, user : Users \cup {None},
          roles : SUBSET Roles, grant : Roles, bearer : Users \cup {None}, held : SUBSET Roles]

NoLocal == [route |-> "contacts", token |-> None, user |-> None, roles |-> {}, grant |-> "user",
            bearer |-> None, held |-> {}]

\* EffectiveRole: the most privileged of a set of roles; contact_reader is no privilege.
EffectiveRole(rs) ==
    IF \A r \in rs : Rank[r] = 0 THEN "user"
    ELSE CHOOSE r \in rs : \A s \in rs : Rank[s] <= Rank[r]

HasContactReader(rs) == rs \cap {"contact_reader", "manager", "administrator"} # {}

Init ==
    /\ role = First
    /\ session = [t \in Tokens |->
                    IF t \notin DOMAIN Before THEN None
                    ELSE [user |-> Before[t], role |-> EffectiveRole(role[Before[t]]), expired |-> FALSE]]
    /\ mail = [k \in Users \X Addresses |->
                 IF k \in DOMAIN Sent THEN [link |-> Sent[k], verified |-> FALSE, expired |-> FALSE]
                                      ELSE None]
    /\ issued = DOMAIN Before \cup {Sent[k] : k \in DOMAIN Sent}
    /\ opened = [l \in Links |-> 0]
    /\ pc = [p \in Procs |-> "idle"]
    /\ loc = [p \in Procs |-> NoLocal]
    /\ begun = 0

At(p, point)      == pc[p] = point
Goto(p, point, l) == pc' = [pc EXCEPT ![p] = point] /\ loc' = [loc EXCEPT ![p] = l]
Finish(p)         == Goto(p, "idle", NoLocal)

Open(t)    == session[t] # None /\ ~session[t].expired

\* The roles of users change: every request in flight for one of them remembers what was held.
SetRoles(u, rs, p, point, l) ==
    /\ role' = [role EXCEPT ![u] = rs]
    /\ pc' = [pc EXCEPT ![p] = point]
    /\ loc' = [q \in Procs |->
           LET k == IF q = p THEN l ELSE loc[q] IN
           IF k.bearer = u THEN [k EXCEPT !.held = @ \cup rs] ELSE k]

-----------------------------------------------------------------------------
(* The end of a login. A definition marked "slip" is a mistake this code could have made;     *)
(* PROJECT.json puts it in the place of the definition that follows it to show that the       *)
(* property it names would notice.                                                            *)

Begin(p, point, l) ==
    /\ At(p, "idle") /\ begun < MaxRequests
    /\ begun' = begun + 1
    /\ Goto(p, point, l)
    /\ UNCHANGED <<role, session, mail, issued, opened>>

\* OIDCCallback once the account is known; an account made for a role_claim invite is first
\* given the role user.
Login(p) ==
    \E u \in Users : \E point \in {"readRoles", "grant"} :
        Begin(p, point, [NoLocal EXCEPT !.user = u])

\* DevLogin gives whatever role was asked for.
DevLogin(p) ==
    /\ ~Production
    /\ \E u \in Users, r \in Asked : Begin(p, "grant", [NoLocal EXCEPT !.user = u, !.grant = r])

\* AddUserRole, whose error a login discards.
Grant(p) ==
    LET l == loc[p] IN
    /\ At(p, "grant")
    /\ \/ SetRoles(l.user, role[l.user] \cup {l.grant}, p, "readRoles", l)
       \/ Faults /\ Goto(p, "readRoles", l) /\ UNCHANGED role
    /\ UNCHANGED <<session, mail, issued, opened, begun>>

\* GetUserRoles; an error is taken for no roles.
ReadRoles(p) ==
    LET l == loc[p] IN
    /\ At(p, "readRoles")
    /\ \/ /\ role[l.user] # {}
          /\ Goto(p, "create", [l EXCEPT !.roles = role[l.user]])
       \/ (role[l.user] = {} \/ Faults) /\ Goto(p, "default", [l EXCEPT !.roles = {"user"}])
    /\ UNCHANGED <<role, session, mail, issued, opened, begun>>

Default(p) ==
    LET l == loc[p] IN
    /\ At(p, "default")
    /\ \/ SetRoles(l.user, role[l.user] \cup {"user"}, p, "create", l)
       \/ Faults /\ Goto(p, "create", l) /\ UNCHANGED role
    /\ UNCHANGED <<session, mail, issued, opened, begun>>

\* createSession: a random token, and the role of the moment.
CreateSession(p) ==
    LET l == loc[p] IN
    /\ At(p, "create")
    /\ \E t \in Tokens \ issued :
          /\ session' = [session EXCEPT ![t] = [user |-> l.user, expired |-> FALSE,
                                                role |-> EffectiveRole(l.roles)]]
          /\ issued' = issued \cup {t}
    /\ Finish(p)
    /\ UNCHANGED <<role, mail, opened, begun>>

\* Logout is a public route: it deletes the session of the cookie, if there is one.
Logout(t) ==
    /\ session' = [session EXCEPT ![t] = None]
    /\ UNCHANGED <<role, mail, issued, opened, pc, loc, begun>>

Expire(t) ==
    /\ Open(t)
    /\ session' = [session EXCEPT ![t].expired = TRUE]
    /\ UNCHANGED <<role, mail, issued, opened, pc, loc, begun>>

-----------------------------------------------------------------------------
(* The middleware *)

\* A request with the cookie of a session that was opened once.
Arrive(p) ==
    \E t \in Tokens \cap issued, r \in Routes :
        Begin(p, "session",
              IF Open(t) THEN [NoLocal EXCEPT !.route = r, !.token = t, !.bearer = session[t].user,
                                              !.held = role[session[t].user]]
                         ELSE [NoLocal EXCEPT !.route = r, !.token = t])

\* RequireAuth refuses who is not signed in; OptionalAuth serves a public page to anyone.
Unauthenticated(p) ==
    IF loc[p].route = "contacts" THEN Goto(p, "serve", loc[p]) ELSE Finish(p)

\* slip: an expired session is as good as any.
AnySession(t) == session[t] # None

ValidSession(t) == session[t] # None /\ ~session[t].expired

GetSession(p) ==
    LET l == loc[p] IN
    /\ At(p, "session")
    /\ \/ ValidSession(l.token) /\ Goto(p, "user", [l EXCEPT !.user = session[l.token].user])
       \/ (~ValidSession(l.token) \/ Faults) /\ Unauthenticated(p)
    /\ UNCHANGED <<role, session, mail, issued, opened, begun>>

GetUser(p) ==
    LET l == loc[p] IN
    /\ At(p, "user")
    /\ \/ l.user \notin Disabled /\ Goto(p, "roles", l)
       \/ (l.user \in Disabled \/ Faults) /\ Unauthenticated(p)
    /\ UNCHANGED <<role, session, mail, issued, opened, begun>>

CurrentRoles(l) == role[l.user]

\* RequireAuth gives somebody without roles the role user, and fails where OptionalAuth goes on
\* with none.
GetRoles(p) ==
    LET l  == loc[p]
        rs == CurrentRoles(l)
    IN  /\ At(p, "roles")
        /\ \/ l.route = "contacts" /\ Goto(p, "serve", [l EXCEPT !.roles = rs])
           \/ l.route = "contacts" /\ Faults /\ Goto(p, "serve", l)
           \/ l.route # "contacts" /\ Goto(p, IF l.route \in Guarded THEN "gate" ELSE "serve",
                                              [l EXCEPT !.roles = IF rs = {} THEN {"user"} ELSE rs])
        /\ UNCHANGED <<role, session, mail, issued, opened, begun>>

\* slip: a manager may do what an administrator may.
AllowedWide(route) == {"manager"}

Allowed(route) == IF route = "audit" THEN {"manager", "administrator"} ELSE {"administrator"}

\* RequireRole.
RequireRole(p) ==
    LET l == loc[p]
        eff == EffectiveRole(l.roles)
    IN  /\ At(p, "gate")
        /\ IF eff # "administrator" /\ eff \notin Allowed(l.route)
           THEN Finish(p) ELSE Goto(p, "serve", l)
        /\ UNCHANGED <<role, session, mail, issued, opened, begun>>

-----------------------------------------------------------------------------
(* Handlers *)

\* Pages that change nothing.
Show(p) ==
    /\ At(p, "serve") /\ loc[p].route \in {"contacts", "audit"}
    /\ Goto(p, "answer", loc[p])
    /\ UNCHANGED <<role, session, mail, issued, opened, begun>>

Grantable == Asked \cap Roles

\* SetUserRoleHandler: one role of anybody, oneself included, is added or removed.
SetUserRole(p) ==
    /\ At(p, "serve") /\ loc[p].route = "setRole"
    /\ \E u \in Users, r \in Grantable : \E rs \in {role[u] \cup {r}, role[u] \ {r}} :
          SetRoles(u, rs, p, "answer", loc[p])
    /\ UNCHANGED <<session, mail, issued, opened, begun>>

\* slip: an address that was verified stays so when a new link is asked for.
Reissued(k, l) ==
    [mail EXCEPT ![k] = [link |-> l, expired |-> FALSE, verified |-> mail[k] # None /\ mail[k].verified]]

\* UpsertEmailVerification.
Requested(k, l) == [mail EXCEPT ![k] = [link |-> l, verified |-> FALSE, expired |-> FALSE]]

RequestEmail(p) ==
    /\ At(p, "serve") /\ loc[p].route = "requestEmail"
    /\ \E a \in Addresses, l \in Links \ issued :
          mail' = Requested(<<loc[p].user, a>>, l) /\ issued' = issued \cup {l}
    /\ Finish(p)
    /\ UNCHANGED <<role, session, opened, begun>>

\* slip: a link may be opened again.
AnyMatch(k, l) == mail[k] # None /\ mail[k].link = l /\ ~mail[k].expired

Matching(k, l) == mail[k] # None /\ mail[k].link = l /\ ~mail[k].verified /\ ~mail[k].expired

\* ConfirmEmailVerification, by anybody who is signed in and has the link.
ConfirmEmail(p) ==
    /\ At(p, "serve") /\ loc[p].route = "confirmEmail"
    /\ \E l \in Links \cap issued :
          LET found == {k \in DOMAIN mail : Matching(k, l)} IN
          /\ mail' = [k \in DOMAIN mail |-> IF k \in found THEN [mail[k] EXCEPT !.verified = TRUE]
                                                           ELSE mail[k]]
          /\ opened' = [opened EXCEPT ![l] = @ + Cardinality(found)]
    /\ Finish(p)
    /\ UNCHANGED <<role, session, issued, begun>>

ExpireLink(k) ==
    /\ mail[k] # None /\ ~mail[k].expired
    /\ mail' = [mail EXCEPT ![k].expired = TRUE]
    /\ UNCHANGED <<role, session, issued, opened, pc, loc, begun>>

\* The request is answered, fails or is cut off.
Stop(p) ==
    /\ ~At(p, "idle") /\ Finish(p)
    /\ UNCHANGED <<role, session, mail, issued, opened, begun>>

SignIn(p)  == Login(p) \/ DevLogin(p) \/ Grant(p) \/ ReadRoles(p) \/ Default(p) \/ CreateSession(p)
Admit(p)   == Arrive(p) \/ GetSession(p) \/ GetUser(p) \/ GetRoles(p) \/ RequireRole(p)
Serve(p)   == Show(p) \/ SetUserRole(p) \/ RequestEmail(p) \/ ConfirmEmail(p)

Next ==
    \/ \E p \in Procs : SignIn(p) \/ Admit(p) \/ Serve(p) \/ Stop(p)
    \/ \E t \in Tokens : Logout(t) \/ Expire(t)
    \/ \E u \in Users, a \in Addresses : ExpireLink(<<u, a>>)
Spec == Init /\ [][Next]_vars

-----------------------------------------------------------------------------
(* Properties *)

\* Types.
TypeOK ==
    /\ role \in [Users -> SUBSET Roles]
    /\ session \in [Tokens -> Session \cup {None}]
    /\ mail \in [Users \X Addresses -> Mail \cup {None}]
    /\ issued \subseteq Tokens \cup Links
    /\ opened \in [Links -> Nat]
    /\ pc \in [Procs -> Points]
    /\ loc \in [Procs -> Local]
    /\ begun \in Nat

\* Roles one of which somebody needs to be shown or to do what a request just did.
Entitling(l) == IF l.route = "setRole" THEN {"administrator"}
                ELSE IF l.route = "audit" THEN {"administrator", "manager"}
                ELSE {"administrator", "manager", "contact_reader"}
Privileged(l) == l.route \in Guarded \/ (l.route = "contacts" /\ HasContactReader(l.roles))

\* Whoever was served contact data, the audit log or a role change came with a session that was
\* open when the request arrived, and has had a role for it at some time since: neither a
\* session that expired or was left, nor a role that was taken away before, still serves
\* (RequireAuth, OptionalAuth, RequireRole).
ServedIsEntitled ==
    \A p \in Procs : At(p, "answer") /\ Privileged(loc[p]) =>
        loc[p].bearer = loc[p].user /\ loc[p].held \cap Entitling(loc[p]) # {}

\* Nobody gains a role but the default one except from somebody who was an administrator since
\* the request arrived, or from a development login outside production: no interleaving of
\* logins, revocations and grants makes an administrator of anybody else (SetUserRoleHandler,
\* loginUser).
GrantedByAdministrator ==
    [][\A u \in Users :
          \/ role'[u] \ role[u] \subseteq {"user"}
          \/ \E p \in Procs : /\ At(p, "serve") /\ loc[p].route = "setRole"
                              /\ "administrator" \in loc[p].held
          \/ /\ ~Production
             /\ \E p \in Procs : /\ At(p, "grant") /\ loc[p].user = u
                                  /\ role'[u] = role[u] \cup {loc[p].grant}]_vars

\* A verification link is honoured once ("a single-use link": migration 009), however many
\* requests open it at once.
LinksOpenOnce == \A l \in Links : opened[l] <= 1

\* An address is verified only by the newest link that was sent to it: asking again makes the
\* user confirm again (UpsertEmailVerification).
VerifiedByNewest == \A k \in DOMAIN mail : mail[k] # None /\ mail[k].verified => opened[mail[k].link] = 1
=============================================================================
