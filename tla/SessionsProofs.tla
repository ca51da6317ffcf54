---------------------------- MODULE SessionsProofs ----------------------------
(***************************************************************************)
(* For any number of requests, users, sessions and links: whoever is       *)
(* served was entitled to it since the request arrived, only              *)
(* administrators give roles away, and a verification link works once.     *)
(***************************************************************************)
EXTENDS Sessions, FiniteSetTheorems, TLAPS

-----------------------------------------------------------------------------
(* The inductive invariant *)

\* The links of addresses: each was handed out, no two addresses have one, and a link was
\* honoured exactly if its address is verified.
LinksOK ==
    /\ \A k \in DOMAIN mail : mail[k] # None =>
          /\ mail[k].link \in issued
          /\ opened[mail[k].link] = IF mail[k].verified THEN 1 ELSE 0
    /\ \A j, k \in DOMAIN mail :
          mail[j] # None /\ mail[k] # None /\ mail[j].link = mail[k].link => j = k
    /\ \A l \in Links : opened[l] <= 1 /\ (l \notin issued => opened[l] = 0)

\* What a login knows: whom it signs in, and in production it gives the role user and no other.
LoginKnows(point, l) ==
    /\ point \in {"grant", "readRoles", "default", "create"} => l.user \in Users
    /\ point = "grant" /\ Production => l.grant = "user"

\* What the middleware knows: the session it looks up is the bearer's as long as it is open,
\* and the roles it read are some that the bearer has had.
MiddlewareKnows(point, l) ==
    /\ point \in {"session", "user", "roles"} => l.roles = {}
    /\ point \in {"user", "roles", "gate"} => l.user \in Users /\ l.bearer = l.user
    /\ point = "gate" => l.route \in Guarded /\ l.roles \ {"user"} \subseteq l.held

\* What a handler may rely on.
Entitled(l) == l.bearer = l.user /\ l.held \cap Entitling(l) # {}
HandlerKnows(point, l) ==
    /\ point \in {"serve", "answer"} /\ Privileged(l) => Entitled(l)
    /\ point = "serve" /\ l.route # "contacts" => l.user \in Users

\* Of these the tables can only disturb two.
BearersSession(point, l) ==
    point = "session" => /\ l.token \in Tokens \cap issued
                         /\ ValidSession(l.token) => l.bearer = session[l.token].user
HeldSince(l) == l.bearer # None => role[l.bearer] \subseteq l.held

RequestKnows(point, l) ==
    /\ LoginKnows(point, l) /\ MiddlewareKnows(point, l) /\ HandlerKnows(point, l)
    /\ BearersSession(point, l) /\ HeldSince(l)

RequestOK(p) == RequestKnows(pc[p], loc[p])

Inv == TypeOK /\ LinksOK /\ \A p \in Procs : RequestOK(p)

-----------------------------------------------------------------------------
(* Roles *)

\* The effective role of somebody is one of the four, and more than user only if it is held.
LEMMA EffectiveRoleHeld ==
    ASSUME NEW rs \in SUBSET Roles
    PROVE  /\ EffectiveRole(rs) \in Roles
           /\ EffectiveRole(rs) \in {"administrator", "manager"} => EffectiveRole(rs) \in rs
<1>1. /\ Rank["administrator"] = 3 /\ Rank["manager"] = 2
      /\ Rank["user"] = 1 /\ Rank["contact_reader"] = 0
    BY DEF Rank, Roles
<1>2. CASE \A r \in rs : Rank[r] = 0
    BY <1>2 DEF EffectiveRole, Roles
<1>3. CASE \E r \in rs : Rank[r] # 0
    <2>1. \E r \in rs : \A s \in rs : Rank[s] <= Rank[r]
        <3>1. CASE "administrator" \in rs
            BY <1>1, <3>1 DEF Roles
        <3>2. CASE "administrator" \notin rs /\ "manager" \in rs
            BY <1>1, <3>2 DEF Roles
        <3>3. CASE "administrator" \notin rs /\ "manager" \notin rs
            BY <1>1, <1>3, <3>3 DEF Roles
        <3> QED  BY <3>1, <3>2, <3>3
    <2>2. EffectiveRole(rs) \in rs
        BY <1>3, <2>1 DEF EffectiveRole
    <2> QED  BY <2>2
<1> QED  BY <1>2, <1>3

\* What the gates of RequireRole let through is a role that entitles.
LEMMA GateEntitles ==
    ASSUME NEW l \in Local, l.route \in Guarded, l.bearer = l.user,
           l.roles \ {"user"} \subseteq l.held,
           EffectiveRole(l.roles) = "administrator" \/ EffectiveRole(l.roles) \in Allowed(l.route)
    PROVE  Entitled(l)
<1>1. l.roles \in SUBSET Roles
    BY DEF Local
<1>2. EffectiveRole(l.roles) \in {"administrator", "manager"}
    BY DEF Allowed
<1>3. EffectiveRole(l.roles) \in l.held
    BY <1>1, <1>2, EffectiveRoleHeld
<1> QED  BY <1>3 DEF Entitled, Entitling, Allowed, Guarded

-----------------------------------------------------------------------------
(* Initial states and steps *)

LEMMA NoLocalTyped == NoLocal \in Local
    BY DEF NoLocal, Local, Routes, Guarded, Roles

\* An idle request knows nothing.
LEMMA IdleKnows == RequestKnows("idle", NoLocal)
    BY NullsOK DEF NoLocal, RequestKnows, LoginKnows, MiddlewareKnows, HandlerKnows, BearersSession,
        HeldSince

LEMMA InitInv == Init => Inv
<1> SUFFICES ASSUME Init PROVE Inv
    OBVIOUS
<1>1. \A u \in Users : EffectiveRole(role[u]) \in Roles
    BY EffectiveRoleHeld, ConstantsOK DEF Init
<1>2. session \in [Tokens -> Session \cup {None}]
    BY <1>1, ConstantsOK DEF Init, Session
<1>3. mail \in [Users \X Addresses -> Mail \cup {None}]
    BY ConstantsOK DEF Init, Mail
<1>4. issued \subseteq Tokens \cup Links
    BY ConstantsOK DEF Init
<1>5. TypeOK
    BY <1>2, <1>3, <1>4, NoLocalTyped, ConstantsOK DEF Init, TypeOK, Points
<1>6. LinksOK
    <2>1. ASSUME NEW k \in DOMAIN mail, mail[k] # None
          PROVE  k \in DOMAIN Sent /\ mail[k].link = Sent[k] /\ ~mail[k].verified
        BY <2>1 DEF Init
    <2> QED  BY <2>1, ConstantsOK, LinksApart DEF Init, LinksOK
<1>7. \A p \in Procs : RequestOK(p)
    BY IdleKnows DEF Init, RequestOK
<1> QED  BY <1>5, <1>6, <1>7 DEF Inv

\* Sessions that are open stay as they are, or end.
Ending == \A t \in Tokens \cap issued :
    ValidSession(t)' => ValidSession(t) /\ session'[t].user = session[t].user

\* Under such a step, what a request knows stays true.
LEMMA KnowsOn ==
    ASSUME NEW point \in Points, NEW l \in Local, RequestKnows(point, l),
           role' = role, issued \subseteq issued', Ending
    PROVE  RequestKnows(point, l)'
<1>1. BearersSession(point, l)'
    BY DEF RequestKnows, BearersSession, Ending
<1> QED  BY <1>1 DEF RequestKnows, LoginKnows, MiddlewareKnows, HandlerKnows, HeldSince

\* A step that changes no roles: each request is where it was or where it knows what it should.
LEMMA StepInv ==
    ASSUME Inv, role' = role, issued \subseteq issued', Ending,
           pc' \in [Procs -> Points], loc' \in [Procs -> Local],
           session' \in [Tokens -> Session \cup {None}],
           mail' \in [Users \X Addresses -> Mail \cup {None}],
           issued' \subseteq Tokens \cup Links, opened' \in [Links -> Nat], begun' \in Nat,
           LinksOK', \A q \in Procs : RequestKnows(pc'[q], loc'[q])
    PROVE  Inv'
<1>1. role' \in [Users -> SUBSET Roles]
    BY DEF Inv, TypeOK
<1>2. TypeOK'
    BY <1>1 DEF TypeOK
<1>3. ASSUME NEW q \in Procs PROVE RequestOK(q)'
    <2>1. PICK point \in Points, l \in Local : point = pc'[q] /\ l = loc'[q]
        OBVIOUS
    <2>2. RequestKnows(point, l)'
        BY <2>1, KnowsOn
    <2> QED  BY <2>1, <2>2 DEF RequestOK
<1> QED  BY <1>2, <1>3 DEF Inv

\* Where one request goes.
LEMMA GotoKnows ==
    ASSUME Inv, NEW p \in Procs, NEW point \in Points, NEW l \in Local, Goto(p, point, l),
           RequestKnows(point, l)
    PROVE  /\ pc' \in [Procs -> Points] /\ loc' \in [Procs -> Local]
           /\ \A q \in Procs : RequestKnows(pc'[q], loc'[q])
<1>1. /\ pc' \in [Procs -> Points] /\ loc' \in [Procs -> Local]
      /\ pc'[p] = point /\ loc'[p] = l
      /\ \A q \in Procs \ {p} : pc'[q] = pc[q] /\ loc'[q] = loc[q]
    BY DEF Inv, TypeOK, Goto
<1>2. \A q \in Procs : RequestKnows(pc[q], loc[q])
    BY DEF Inv, RequestOK
<1> QED  BY <1>1, <1>2

\* A step that changes no table.
LEMMA GotoInv ==
    ASSUME Inv, NEW p \in Procs, NEW point \in Points, NEW l \in Local, Goto(p, point, l),
           UNCHANGED <<role, session, mail, issued, opened>>, begun' \in Nat,
           RequestKnows(point, l)
    PROVE  Inv'
<1>1. Ending
    BY DEF Ending, ValidSession
<1>2. LinksOK'
    BY DEF Inv, LinksOK
<1> QED  BY <1>1, <1>2, GotoKnows, StepInv DEF Inv, TypeOK

\* One that ends the request and changes no table.
LEMMA FinishInv ==
    ASSUME Inv, NEW p \in Procs, Finish(p),
           UNCHANGED <<role, session, mail, issued, opened, begun>>
    PROVE  Inv'
    BY IdleKnows, GotoInv, NoLocalTyped DEF Finish, Points, Inv, TypeOK

LEMMA BeginInv ==
    ASSUME Inv, NEW p \in Procs, NEW point \in Points, NEW l \in Local, Begin(p, point, l),
           RequestKnows(point, l)
    PROVE  Inv'
    BY GotoInv DEF Begin, Inv, TypeOK

\* A change of roles: what is held grows with what there is to hold.
LEMMA SetRolesInv ==
    ASSUME Inv, NEW p \in Procs, NEW u \in Users, NEW rs \in SUBSET Roles,
           NEW point \in Points, NEW l \in Local, SetRoles(u, rs, p, point, l),
           UNCHANGED <<session, mail, issued, opened, begun>>, RequestKnows(point, l)
    PROVE  Inv'
<1> DEFINE At1(q) == IF q = p THEN point ELSE pc[q]
           Had(q) == IF q = p THEN l ELSE loc[q]
           Has(q) == IF Had(q).bearer = u THEN [Had(q) EXCEPT !.held = @ \cup rs] ELSE Had(q)
<1>1. ASSUME NEW q \in Procs
      PROVE  /\ At1(q) \in Points /\ Had(q) \in Local /\ RequestKnows(At1(q), Had(q))
             /\ pc'[q] = At1(q) /\ loc'[q] = Has(q)
    BY DEF Inv, TypeOK, SetRoles, RequestOK
<1>2. role' = [role EXCEPT ![u] = rs] /\ role' \in [Users -> SUBSET Roles]
    BY DEF Inv, TypeOK, SetRoles
<1>3. ASSUME NEW q \in Procs
      PROVE  /\ Has(q) \in Local /\ Had(q).held \subseteq Has(q).held
             /\ Had(q).bearer = u => rs \subseteq Has(q).held
             /\ \A f \in {"route", "token", "user", "roles", "grant", "bearer"} : Has(q)[f] = Had(q)[f]
    BY <1>1 DEF Local
<1> HIDE DEF At1, Had, Has
<1>4. pc' \in [Procs -> Points] /\ loc' \in [Procs -> Local]
    BY <1>1, <1>3 DEF Inv, TypeOK, SetRoles
<1>5. TypeOK'
    BY <1>2, <1>4 DEF Inv, TypeOK
<1>6. LinksOK'
    BY DEF Inv, LinksOK
<1>7. ASSUME NEW q \in Procs PROVE RequestOK(q)'
    <2>1. PICK pt \in Points, k \in Local, m \in Local : pt = At1(q) /\ k = Had(q) /\ m = Has(q)
        BY <1>1, <1>3
    <2>2. /\ k.held \subseteq m.held
          /\ k.bearer = u => rs \subseteq m.held
          /\ m.route = k.route /\ m.token = k.token /\ m.user = k.user /\ m.roles = k.roles
          /\ m.grant = k.grant /\ m.bearer = k.bearer
        BY <1>3, <2>1
    <2>3. RequestKnows(pt, k)
        BY <1>1, <2>1
    <2>4. LoginKnows(pt, m) /\ MiddlewareKnows(pt, m)
        BY <2>2, <2>3 DEF RequestKnows, LoginKnows, MiddlewareKnows
    <2>5. HandlerKnows(pt, m)
        BY <2>2, <2>3 DEF RequestKnows, HandlerKnows, Entitled, Privileged, Entitling
    <2>6. BearersSession(pt, m)'
        BY <2>2, <2>3 DEF RequestKnows, BearersSession, ValidSession
    <2>7. m.bearer # None => role'[m.bearer] \subseteq m.held
        BY <1>2, <2>2, <2>3 DEF RequestKnows, HeldSince, Inv, TypeOK, Local
    <2> QED  BY <1>1, <2>1, <2>4, <2>5, <2>6, <2>7
             DEF RequestOK, RequestKnows, LoginKnows, MiddlewareKnows, HandlerKnows, Entitled, HeldSince
<1> QED  BY <1>5, <1>6, <1>7 DEF Inv

-----------------------------------------------------------------------------
(* Logins *)

\* The request of a process, and what it knows.
LEMMA Here ==
    ASSUME Inv, NEW p \in Procs
    PROVE  loc[p] \in Local /\ pc[p] \in Points /\ RequestKnows(pc[p], loc[p])
    BY DEF Inv, TypeOK, RequestOK

LEMMA LoginInv == ASSUME Inv, NEW p \in Procs, Login(p) PROVE Inv'
<1>1. PICK u \in Users, point \in {"readRoles", "grant"} :
          Begin(p, point, [NoLocal EXCEPT !.user = u])
    BY DEF Login
<1>2. [NoLocal EXCEPT !.user = u] \in Local
    BY NoLocalTyped DEF Local
<1>3. RequestKnows(point, [NoLocal EXCEPT !.user = u])
    BY NullsOK DEF NoLocal, RequestKnows, LoginKnows, MiddlewareKnows, HandlerKnows, BearersSession,
        HeldSince
<1> QED  BY <1>1, <1>2, <1>3, BeginInv DEF Points

LEMMA DevLoginInv == ASSUME Inv, NEW p \in Procs, DevLogin(p) PROVE Inv'
<1>1. ~Production
    BY DEF DevLogin
<1>2. PICK u \in Users, r \in Asked : Begin(p, "grant", [NoLocal EXCEPT !.user = u, !.grant = r])
    BY DEF DevLogin
<1>3. [NoLocal EXCEPT !.user = u, !.grant = r] \in Local
    BY NoLocalTyped, ConstantsOK DEF Local
<1>4. RequestKnows("grant", [NoLocal EXCEPT !.user = u, !.grant = r])
    BY <1>1, NullsOK DEF NoLocal, RequestKnows, LoginKnows, MiddlewareKnows, HandlerKnows,
        BearersSession, HeldSince
<1> QED  BY <1>2, <1>3, <1>4, BeginInv DEF Points

\* At the statements of a login nothing but who it is matters.
LEMMA LoginGoesOn ==
    ASSUME NEW l \in Local, NEW point \in {"readRoles", "default", "create"}, l.user \in Users, HeldSince(l)
    PROVE  RequestKnows(point, l)
    BY DEF RequestKnows, LoginKnows, MiddlewareKnows, HandlerKnows, BearersSession

LEMMA GrantInv == ASSUME Inv, NEW p \in Procs, Grant(p) PROVE Inv'
<1>1. PICK l \in Local : l = loc[p]
    BY Here
<1>2. l.user \in Users /\ HeldSince(l)
    BY <1>1, Here DEF Grant, At, RequestKnows, LoginKnows
<1>3. RequestKnows("readRoles", l)
    BY <1>2, LoginGoesOn
<1>4. CASE SetRoles(l.user, role[l.user] \cup {l.grant}, p, "readRoles", l)
    <2>1. role[l.user] \cup {l.grant} \in SUBSET Roles
        BY <1>2 DEF Inv, TypeOK, Local
    <2> QED  BY <1>1, <1>2, <1>3, <1>4, <2>1, SetRolesInv DEF Grant, Points
<1>5. CASE Goto(p, "readRoles", l) /\ UNCHANGED role
    BY <1>1, <1>3, <1>5, GotoInv DEF Grant, Points, Inv, TypeOK
<1> QED  BY <1>1, <1>4, <1>5 DEF Grant

LEMMA ReadRolesInv == ASSUME Inv, NEW p \in Procs, ReadRoles(p) PROVE Inv'
<1>1. PICK l \in Local : l = loc[p]
    BY Here
<1>2. l.user \in Users /\ HeldSince(l)
    BY <1>1, Here DEF ReadRoles, At, RequestKnows, LoginKnows
<1>3. ASSUME NEW rs \in SUBSET Roles, NEW point \in {"default", "create"},
             Goto(p, point, [l EXCEPT !.roles = rs])
      PROVE  Inv'
    <2>1. [l EXCEPT !.roles = rs] \in Local /\ RequestKnows(point, [l EXCEPT !.roles = rs])
        <3>1. [l EXCEPT !.roles = rs] \in Local
            BY DEF Local
        <3>2. PICK m \in Local : m = [l EXCEPT !.roles = rs]
            BY <3>1
        <3>3. m.user = l.user /\ m.bearer = l.bearer /\ m.held = l.held
            BY <3>2 DEF Local
        <3>4. RequestKnows(point, m)
            BY <1>2, <3>3, LoginGoesOn DEF HeldSince
        <3> QED  BY <3>2, <3>4
    <2> QED  BY <1>3, <2>1, GotoInv DEF ReadRoles, Points, Inv, TypeOK
<1>4. role[l.user] \in SUBSET Roles /\ {"user"} \in SUBSET Roles
    BY <1>2 DEF Inv, TypeOK, Roles
<1> QED  BY <1>1, <1>3, <1>4 DEF ReadRoles

LEMMA DefaultInv == ASSUME Inv, NEW p \in Procs, Default(p) PROVE Inv'
<1>1. PICK l \in Local : l = loc[p]
    BY Here
<1>2. l.user \in Users /\ HeldSince(l)
    BY <1>1, Here DEF Default, At, RequestKnows, LoginKnows
<1>3. RequestKnows("create", l)
    BY <1>2, LoginGoesOn
<1>4. CASE SetRoles(l.user, role[l.user] \cup {"user"}, p, "create", l)
    <2>1. role[l.user] \cup {"user"} \in SUBSET Roles
        BY <1>2 DEF Inv, TypeOK, Roles
    <2> QED  BY <1>1, <1>2, <1>3, <1>4, <2>1, SetRolesInv DEF Default, Points
<1>5. CASE Goto(p, "create", l) /\ UNCHANGED role
    BY <1>1, <1>3, <1>5, GotoInv DEF Default, Points, Inv, TypeOK
<1> QED  BY <1>1, <1>4, <1>5 DEF Default

\* A new session has a token that nobody was given before.
LEMMA CreateSessionInv == ASSUME Inv, NEW p \in Procs, CreateSession(p) PROVE Inv'
<1>1. PICK l \in Local : l = loc[p]
    BY Here
<1>2. l.user \in Users /\ EffectiveRole(l.roles) \in Roles
    BY <1>1, Here, EffectiveRoleHeld DEF CreateSession, At, RequestKnows, LoginKnows, Local
<1>3. PICK t \in Tokens \ issued :
          /\ session' = [session EXCEPT ![t] = [user |-> l.user, expired |-> FALSE,
                                                role |-> EffectiveRole(l.roles)]]
          /\ issued' = issued \cup {t}
    BY <1>1 DEF CreateSession
<1>4. session' \in [Tokens -> Session \cup {None}]
    BY <1>2, <1>3 DEF Inv, TypeOK, Session
<1>5. Ending
    BY <1>3 DEF Ending, ValidSession, Inv, TypeOK
<1>6. LinksOK'
    BY <1>3 DEF CreateSession, Inv, LinksOK
<1>7. Finish(p) /\ UNCHANGED <<role, mail, opened, begun>>
    BY DEF CreateSession
<1>8. /\ pc' \in [Procs -> Points] /\ loc' \in [Procs -> Local]
      /\ \A q \in Procs : RequestKnows(pc'[q], loc'[q])
    BY <1>7, GotoKnows, IdleKnows, NoLocalTyped DEF Finish, Points
<1> QED  BY <1>3, <1>4, <1>5, <1>6, <1>7, <1>8, StepInv DEF Inv, TypeOK

\* A session ends: a logout, or its time is up.
LEMMA EndingInv ==
    ASSUME Inv, UNCHANGED <<role, mail, issued, opened, pc, loc, begun>>, Ending,
           session' \in [Tokens -> Session \cup {None}]
    PROVE  Inv'
<1>1. LinksOK'
    BY DEF Inv, LinksOK
<1>2. \A q \in Procs : RequestKnows(pc'[q], loc'[q])
    BY DEF Inv, RequestOK
<1> QED  BY <1>1, <1>2, StepInv DEF Inv, TypeOK

LEMMA LogoutInv == ASSUME Inv, NEW t \in Tokens, Logout(t) PROVE Inv'
<1>1. session' \in [Tokens -> Session \cup {None}] /\ Ending
    BY DEF Logout, Inv, TypeOK, Ending, ValidSession
<1> QED  BY <1>1, EndingInv DEF Logout

LEMMA ExpireInv == ASSUME Inv, NEW t \in Tokens, Expire(t) PROVE Inv'
<1>1. session[t] \in Session /\ session' = [session EXCEPT ![t] = [session[t] EXCEPT !.expired = TRUE]]
    BY DEF Expire, Open, Inv, TypeOK
<1>2. [session[t] EXCEPT !.expired = TRUE] \in Session
      /\ [session[t] EXCEPT !.expired = TRUE].expired
    BY <1>1 DEF Session
<1>3. session' \in [Tokens -> Session \cup {None}] /\ Ending
    BY <1>1, <1>2 DEF Inv, TypeOK, Ending, ValidSession
<1> QED  BY <1>3, EndingInv DEF Expire

-----------------------------------------------------------------------------
(* The middleware *)

LEMMA ArriveInv == ASSUME Inv, NEW p \in Procs, Arrive(p) PROVE Inv'
<1>1. PICK t \in Tokens \cap issued, r \in Routes :
          Begin(p, "session",
              IF Open(t) THEN [NoLocal EXCEPT !.route = r, !.token = t, !.bearer = session[t].user,
                                              !.held = role[session[t].user]]
                         ELSE [NoLocal EXCEPT !.route = r, !.token = t])
    BY DEF Arrive
<1>2. CASE Open(t)
    <2>1. session[t].user \in Users /\ role[session[t].user] \in SUBSET Roles
        BY <1>2 DEF Open, Inv, TypeOK, Session
    <2>2. PICK u \in Users, rs \in SUBSET Roles : u = session[t].user /\ rs = role[u]
        BY <2>1
    <2> DEFINE l == [NoLocal EXCEPT !.route = r, !.token = t, !.bearer = u, !.held = rs]
    <2>3. l \in Local
        BY NoLocalTyped DEF Local
    <2>4. RequestKnows("session", l)
        BY <2>2 DEF NoLocal, RequestKnows, LoginKnows, MiddlewareKnows, HandlerKnows, BearersSession,
            HeldSince
    <2>5. Begin(p, "session", l)
        BY <1>1, <1>2, <2>2
    <2> HIDE DEF l
    <2> QED  BY <2>3, <2>4, <2>5, BeginInv DEF Points
<1>3. CASE ~Open(t)
    <2> DEFINE l == [NoLocal EXCEPT !.route = r, !.token = t]
    <2>1. l \in Local
        BY NoLocalTyped DEF Local
    <2>2. RequestKnows("session", l)
        BY <1>3, NullsOK DEF NoLocal, RequestKnows, LoginKnows, MiddlewareKnows, HandlerKnows,
            BearersSession, HeldSince, Open, ValidSession
    <2>3. Begin(p, "session", l)
        BY <1>1, <1>3
    <2> HIDE DEF l
    <2> QED  BY <2>1, <2>2, <2>3, BeginInv DEF Points
<1> QED  BY <1>2, <1>3

\* Whoever turns out not to be signed in gets a public page, as a person without roles.
LEMMA UnauthenticatedInv ==
    ASSUME Inv, NEW p \in Procs, pc[p] \in {"session", "user"}, Unauthenticated(p),
           UNCHANGED <<role, session, mail, issued, opened, begun>>
    PROVE  Inv'
<1>1. PICK l \in Local : l = loc[p]
    BY Here
<1>2. CASE l.route = "contacts"
    <2>1. l.roles = {} /\ HeldSince(l)
        BY <1>1, Here DEF RequestKnows, MiddlewareKnows
    <2>2. RequestKnows("serve", l)
        BY <1>2, <2>1 DEF RequestKnows, LoginKnows, MiddlewareKnows, HandlerKnows, BearersSession,
            Privileged, HasContactReader, Guarded
    <2> QED  BY <1>1, <1>2, <2>2, GotoInv DEF Unauthenticated, Points, Inv, TypeOK
<1>3. CASE l.route # "contacts"
    BY <1>1, <1>3, FinishInv DEF Unauthenticated
<1> QED  BY <1>2, <1>3

LEMMA GetSessionInv == ASSUME Inv, NEW p \in Procs, GetSession(p) PROVE Inv'
<1>1. PICK l \in Local : l = loc[p]
    BY Here
<1>2. RequestKnows("session", l)
    BY <1>1, Here DEF GetSession, At
<1>3. CASE ValidSession(l.token) /\ Goto(p, "user", [l EXCEPT !.user = session[l.token].user])
    <2>1. l.bearer = session[l.token].user /\ l.bearer \in Users /\ l.roles = {} /\ HeldSince(l)
        BY <1>2, <1>3 DEF RequestKnows, BearersSession, MiddlewareKnows, ValidSession, Inv, TypeOK, Session
    <2>2. [l EXCEPT !.user = l.bearer] \in Local
        BY <2>1 DEF Local
    <2>3. PICK m \in Local : m = [l EXCEPT !.user = l.bearer]
        BY <2>2
    <2>4. m.user = l.bearer /\ m.bearer = l.bearer /\ m.held = l.held /\ m.roles = l.roles
        BY <2>3 DEF Local
    <2>5. RequestKnows("user", m)
        BY <2>1, <2>4 DEF RequestKnows, LoginKnows, MiddlewareKnows, HandlerKnows, BearersSession,
            HeldSince
    <2>6. Goto(p, "user", m)
        BY <1>3, <2>1, <2>3
    <2> QED  BY <2>5, <2>6, GotoInv DEF GetSession, Points, Inv, TypeOK
<1>4. CASE Unauthenticated(p)
    BY <1>4, UnauthenticatedInv DEF GetSession, At
<1> QED  BY <1>1, <1>3, <1>4 DEF GetSession

LEMMA GetUserInv == ASSUME Inv, NEW p \in Procs, GetUser(p) PROVE Inv'
<1>1. PICK l \in Local : l = loc[p]
    BY Here
<1>2. CASE Goto(p, "roles", l)
    <2>1. RequestKnows("user", l)
        BY <1>1, Here DEF GetUser, At
    <2>2. RequestKnows("roles", l)
        BY <2>1 DEF RequestKnows, LoginKnows, MiddlewareKnows, HandlerKnows, BearersSession
    <2> QED  BY <1>2, <2>2, GotoInv DEF GetUser, Points, Inv, TypeOK
<1>3. CASE Unauthenticated(p)
    BY <1>3, UnauthenticatedInv DEF GetUser, At
<1> QED  BY <1>1, <1>2, <1>3 DEF GetUser

LEMMA GetRolesInv == ASSUME Inv, NEW p \in Procs, GetRoles(p) PROVE Inv'
<1>1. PICK l \in Local : l = loc[p]
    BY Here
<1>2. /\ l.user \in Users /\ l.bearer = l.user /\ l.roles = {} /\ HeldSince(l)
      /\ role[l.user] \in SUBSET Roles /\ role[l.user] \subseteq l.held
    BY <1>1, Here, NullsOK DEF GetRoles, At, RequestKnows, MiddlewareKnows, HeldSince, Inv, TypeOK
\* Whatever it read, it goes on with roles that are held, but for the default one.
<1>3. ASSUME NEW rs \in SUBSET Roles, rs \ {"user"} \subseteq l.held,
             NEW point \in {"gate", "serve"}, point = "gate" <=> l.route \in Guarded,
             Goto(p, point, [l EXCEPT !.roles = rs])
      PROVE  Inv'
    <2>1. [l EXCEPT !.roles = rs] \in Local
        BY DEF Local
    <2>2. PICK m \in Local : m = [l EXCEPT !.roles = rs]
        BY <2>1
    <2>3. m.user = l.user /\ m.bearer = l.bearer /\ m.held = l.held /\ m.roles = rs /\ m.route = l.route
        BY <2>2 DEF Local
    <2>4. HandlerKnows(point, m)
        BY <1>2, <1>3, <2>3
        DEF HandlerKnows, Privileged, HasContactReader, Entitled, Entitling, Guarded
    <2>5. RequestKnows(point, m)
        BY <1>2, <1>3, <2>3, <2>4 DEF RequestKnows, LoginKnows, MiddlewareKnows, BearersSession, HeldSince
    <2>6. Goto(p, point, m)
        BY <1>3, <2>2
    <2> QED  BY <2>5, <2>6, GotoInv DEF GetRoles, Points, Inv, TypeOK
<1>4. CASE l.route = "contacts" /\ Goto(p, "serve", [l EXCEPT !.roles = role[l.user]])
    BY <1>2, <1>3, <1>4 DEF Guarded
<1>5. CASE l.route = "contacts" /\ Goto(p, "serve", l)
    <2>1. [l EXCEPT !.roles = {}] = l
        BY <1>2 DEF Local
    <2> QED  BY <1>3, <1>5, <2>1 DEF Guarded
<1>6. CASE /\ l.route # "contacts"
           /\ Goto(p, IF l.route \in Guarded THEN "gate" ELSE "serve",
                   [l EXCEPT !.roles = IF role[l.user] = {} THEN {"user"} ELSE role[l.user]])
    <2>1. PICK rs \in SUBSET Roles : /\ rs = IF role[l.user] = {} THEN {"user"} ELSE role[l.user]
                                     /\ rs \ {"user"} \subseteq l.held
        BY <1>2 DEF Roles
    <2>2. PICK point \in {"gate", "serve"} : /\ point = IF l.route \in Guarded THEN "gate" ELSE "serve"
                                             /\ point = "gate" <=> l.route \in Guarded
        OBVIOUS
    <2> QED  BY <1>3, <1>6, <2>1, <2>2
<1> QED  BY <1>1, <1>4, <1>5, <1>6 DEF GetRoles, CurrentRoles

LEMMA RequireRoleInv == ASSUME Inv, NEW p \in Procs, RequireRole(p) PROVE Inv'
<1>1. PICK l \in Local : l = loc[p]
    BY Here
<1>2. RequestKnows("gate", l) /\ l.bearer = l.user /\ l.user \in Users
    BY <1>1, Here DEF RequireRole, At, RequestKnows, MiddlewareKnows
<1>3. CASE Finish(p)
    BY <1>3, FinishInv DEF RequireRole
<1>4. CASE /\ Goto(p, "serve", l)
           /\ EffectiveRole(l.roles) = "administrator" \/ EffectiveRole(l.roles) \in Allowed(l.route)
    <2>1. Entitled(l)
        BY <1>2, <1>4, GateEntitles DEF RequestKnows, MiddlewareKnows
    <2>2. RequestKnows("serve", l)
        BY <1>2, <2>1 DEF RequestKnows, LoginKnows, MiddlewareKnows, HandlerKnows, BearersSession
    <2> QED  BY <1>4, <2>2, GotoInv DEF RequireRole, Points, Inv, TypeOK
<1> QED  BY <1>1, <1>3, <1>4 DEF RequireRole

-----------------------------------------------------------------------------
(* Handlers *)

LEMMA AnswerKnows ==
    ASSUME NEW l \in Local, RequestKnows("serve", l)
    PROVE  RequestKnows("answer", l)
    BY DEF RequestKnows, LoginKnows, MiddlewareKnows, HandlerKnows, BearersSession

LEMMA ShowInv == ASSUME Inv, NEW p \in Procs, Show(p) PROVE Inv'
<1>1. PICK l \in Local : l = loc[p]
    BY Here
<1>2. RequestKnows("answer", l)
    BY <1>1, Here, AnswerKnows DEF Show, At
<1> QED  BY <1>1, <1>2, GotoInv DEF Show, Points, Inv, TypeOK

LEMMA SetUserRoleInv == ASSUME Inv, NEW p \in Procs, SetUserRole(p) PROVE Inv'
<1>1. PICK l \in Local : l = loc[p]
    BY Here
<1>2. RequestKnows("answer", l)
    BY <1>1, Here, AnswerKnows DEF SetUserRole, At
<1>3. PICK u \in Users, r \in Grantable : \E rs \in {role[u] \cup {r}, role[u] \ {r}} :
          SetRoles(u, rs, p, "answer", l)
    BY <1>1 DEF SetUserRole
<1>4. PICK rs \in SUBSET Roles : SetRoles(u, rs, p, "answer", l)
    BY <1>3 DEF Grantable, Inv, TypeOK
<1> QED  BY <1>2, <1>4, SetRolesInv DEF SetUserRole, Points

\* A step that changes no sessions and ends the request.
LEMMA EmailInv ==
    ASSUME Inv, NEW p \in Procs, Finish(p), UNCHANGED <<role, session, begun>>,
           issued \subseteq issued', issued' \subseteq Tokens \cup Links,
           mail' \in [Users \X Addresses -> Mail \cup {None}], opened' \in [Links -> Nat], LinksOK'
    PROVE  Inv'
<1>1. Ending
    BY DEF Ending, ValidSession
<1> QED  BY <1>1, IdleKnows, GotoKnows, StepInv, NoLocalTyped DEF Finish, Points, Inv, TypeOK

\* A new link is one that nobody was sent before.
LEMMA RequestEmailInv == ASSUME Inv, NEW p \in Procs, RequestEmail(p) PROVE Inv'
<1>1. PICK m \in Local : m = loc[p]
    BY Here
<1>2. m.user \in Users
    BY <1>1, Here DEF RequestEmail, At, RequestKnows, HandlerKnows
<1>3. PICK a \in Addresses, l \in Links \ issued :
          mail' = Requested(<<m.user, a>>, l) /\ issued' = issued \cup {l}
    BY <1>1 DEF RequestEmail
<1>4. PICK k \in Users \X Addresses : k = <<m.user, a>>
    BY <1>2
<1>5. mail' = [mail EXCEPT ![k] = [link |-> l, verified |-> FALSE, expired |-> FALSE]]
    BY <1>3, <1>4 DEF Requested
<1>6. mail' \in [Users \X Addresses -> Mail \cup {None}]
    BY <1>5 DEF Inv, TypeOK, Mail
<1>7. /\ mail'[k].link = l /\ mail'[k].verified = FALSE
      /\ \A j \in (Users \X Addresses) \ {k} : mail'[j] = mail[j]
      /\ DOMAIN mail = Users \X Addresses /\ DOMAIN mail' = Users \X Addresses
    BY <1>5 DEF Inv, TypeOK
<1>8. opened' = opened /\ opened[l] = 0
    BY <1>3 DEF RequestEmail, Inv, LinksOK
<1>9. LinksOK'
    <2>1. LinksOK
        BY DEF Inv
    <2>2. \A j \in (Users \X Addresses) \ {k} : mail[j] # None => mail[j].link # l
        BY <1>3, <1>7, <2>1 DEF LinksOK
    <2> QED  BY <1>3, <1>7, <1>8, <2>1, <2>2 DEF LinksOK
<1> QED  BY <1>3, <1>6, <1>8, <1>9, EmailInv DEF RequestEmail, Inv, TypeOK

\* At most one address has a link, and it opens it only if it is not verified yet.
LEMMA ConfirmEmailInv == ASSUME Inv, NEW p \in Procs, ConfirmEmail(p) PROVE Inv'
<1> DEFINE found(l) == {k \in DOMAIN mail : Matching(k, l)}
<1>1. PICK l \in Links \cap issued :
          /\ mail' = [k \in DOMAIN mail |-> IF k \in found(l) THEN [mail[k] EXCEPT !.verified = TRUE]
                                                              ELSE mail[k]]
          /\ opened' = [opened EXCEPT ![l] = @ + Cardinality(found(l))]
    BY DEF ConfirmEmail
<1>2. LinksOK /\ DOMAIN mail = Users \X Addresses
    BY DEF Inv, TypeOK
<1>3. \A k \in found(l) : /\ mail[k] \in Mail /\ mail[k] # None /\ mail[k].link = l
                          /\ ~mail[k].verified /\ opened[l] = 0
    BY <1>2 DEF Matching, LinksOK, Inv, TypeOK
<1>4. CASE found(l) = {}
    <2> HIDE DEF found
    <2>1. Cardinality(found(l)) = 0
        BY <1>4, FS_EmptySet
    <2>2. opened' = opened
        BY <1>1, <2>1 DEF Inv, TypeOK
    <2>3. mail' = mail
        BY <1>1, <1>4 DEF Inv, TypeOK
    <2>4. issued' = issued
        BY DEF ConfirmEmail
    <2>5. LinksOK'
        BY <1>2, <2>2, <2>3, <2>4 DEF LinksOK
    <2> QED  BY <2>2, <2>3, <2>4, <2>5, EmailInv DEF ConfirmEmail, Inv, TypeOK
<1>5. CASE \E k \in found(l) : TRUE
    <2>1. PICK k \in found(l) : TRUE
        BY <1>5
    <2>2. found(l) = {k}
        BY <1>2, <1>3, <2>1 DEF LinksOK
    <2>3. Cardinality(found(l)) = 1
        BY <2>2, FS_Singleton
    <2>4. opened' = [opened EXCEPT ![l] = 1]
        <3>1. opened[l] = 0
            BY <1>3, <2>1
        <3> HIDE DEF found
        <3> QED  BY <1>1, <2>3, <3>1
    <2> DEFINE new == [mail[k] EXCEPT !.verified = TRUE]
    <2>5. new \in Mail /\ new.link = l /\ new.verified = TRUE /\ new # None
        BY <1>3, <2>1, NullsOK DEF Mail
    <2>6. mail' = [mail EXCEPT ![k] = new]
        BY <1>1, <1>2, <2>2 DEF Inv, TypeOK
    <2> HIDE DEF new, found
    <2>7. k \in Users \X Addresses /\ mail[k] # None /\ mail[k].link = l
        BY <1>2, <1>3, <2>1 DEF found
    <2>8. /\ mail'[k] = new
          /\ \A j \in (Users \X Addresses) \ {k} : mail'[j] = mail[j]
          /\ DOMAIN mail' = Users \X Addresses
          /\ mail' \in [Users \X Addresses -> Mail \cup {None}]
        BY <2>5, <2>6, <2>7 DEF Inv, TypeOK
    <2>9. /\ opened' \in [Links -> Nat] /\ opened'[l] = 1
          /\ \A i \in Links \ {l} : opened'[i] = opened[i]
        BY <2>4 DEF Inv, TypeOK
    <2>10. \A j \in (Users \X Addresses) \ {k} : mail[j] # None => mail[j].link # l
        BY <1>2, <2>7 DEF LinksOK
    <2>11. issued' = issued
        BY DEF ConfirmEmail
    <2>12. \A j \in Users \X Addresses : mail[j] # None => mail[j].link \in Links
        BY DEF Inv, TypeOK, Mail
    <2>13. LinksOK'
        <3>1. ASSUME NEW j \in DOMAIN mail', mail'[j] # None
              PROVE  /\ mail'[j].link \in issued'
                     /\ opened'[mail'[j].link] = IF mail'[j].verified THEN 1 ELSE 0
            <4>1. CASE j = k
                <5>1. mail'[j].link = l /\ mail'[j].verified = TRUE
                    BY <2>5, <2>8, <4>1
                <5> QED  BY <1>1, <2>9, <2>11, <5>1
            <4>2. CASE j # k
                <5>1. mail'[j] = mail[j] /\ mail[j].link \in Links \ {l}
                    BY <2>8, <2>10, <2>12, <3>1, <4>2
                <5>2. /\ mail[j].link \in issued
                      /\ opened[mail[j].link] = IF mail[j].verified THEN 1 ELSE 0
                    BY <1>2, <2>8, <3>1, <5>1 DEF LinksOK
                <5> QED  BY <2>9, <2>11, <5>1, <5>2
            <4> QED  BY <4>1, <4>2
        <3>2. \A i, j \in DOMAIN mail' :
                 mail'[i] # None /\ mail'[j] # None /\ mail'[i].link = mail'[j].link => i = j
            BY <1>2, <2>5, <2>8, <2>10 DEF LinksOK
        <3>3. \A i \in Links : opened'[i] <= 1 /\ (i \notin issued' => opened'[i] = 0)
            BY <1>1, <1>2, <2>9, <2>11 DEF LinksOK
        <3> QED  BY <3>1, <3>2, <3>3 DEF LinksOK
    <2> QED  BY <2>8, <2>9, <2>11, <2>13, EmailInv DEF ConfirmEmail, Inv, TypeOK
<1> QED  BY <1>4, <1>5

LEMMA ExpireLinkInv == ASSUME Inv, NEW k \in Users \X Addresses, ExpireLink(k) PROVE Inv'
<1> DEFINE new == [mail[k] EXCEPT !.expired = TRUE]
<1>1. mail[k] \in Mail /\ mail[k] # None /\ mail' = [mail EXCEPT ![k] = new]
    BY DEF ExpireLink, Inv, TypeOK
<1>2. new \in Mail /\ new.link = mail[k].link /\ new.verified = mail[k].verified
    BY <1>1 DEF Mail
<1> HIDE DEF new
<1>3. /\ mail' \in [Users \X Addresses -> Mail \cup {None}]
      /\ DOMAIN mail' = DOMAIN mail
      /\ \A j \in DOMAIN mail : mail'[j] # None =>
            mail[j] # None /\ mail'[j].link = mail[j].link /\ mail'[j].verified = mail[j].verified
    BY <1>1, <1>2 DEF Inv, TypeOK
<1>4. LinksOK'
    BY <1>3 DEF ExpireLink, Inv, LinksOK
<1>5. Ending
    BY DEF ExpireLink, Ending, ValidSession
<1>6. \A q \in Procs : RequestKnows(pc'[q], loc'[q])
    BY DEF ExpireLink, Inv, RequestOK
<1> QED  BY <1>3, <1>4, <1>5, <1>6, StepInv DEF ExpireLink, Inv, TypeOK

-----------------------------------------------------------------------------
(* Theorems *)

LEMMA NextInv == Inv /\ [Next]_vars => Inv'
<1> SUFFICES ASSUME Inv, [Next]_vars PROVE Inv'
    OBVIOUS
<1>1. ASSUME NEW p \in Procs, SignIn(p) PROVE Inv'
    BY <1>1, LoginInv, DevLoginInv, GrantInv, ReadRolesInv, DefaultInv, CreateSessionInv DEF SignIn
<1>2. ASSUME NEW p \in Procs, Admit(p) PROVE Inv'
    BY <1>2, ArriveInv, GetSessionInv, GetUserInv, GetRolesInv, RequireRoleInv DEF Admit
<1>3. ASSUME NEW p \in Procs, Serve(p) PROVE Inv'
    BY <1>3, ShowInv, SetUserRoleInv, RequestEmailInv, ConfirmEmailInv DEF Serve
<1>4. ASSUME NEW p \in Procs, Stop(p) PROVE Inv'
    BY <1>4, FinishInv DEF Stop
<1>5. ASSUME NEW t \in Tokens, Logout(t) \/ Expire(t) PROVE Inv'
    BY <1>5, LogoutInv, ExpireInv
<1>6. ASSUME NEW u \in Users, NEW a \in Addresses, ExpireLink(<<u, a>>) PROVE Inv'
    BY <1>6, ExpireLinkInv
<1>7. CASE UNCHANGED vars
    BY <1>7 DEF vars, Inv, TypeOK, LinksOK, RequestOK, RequestKnows, LoginKnows, MiddlewareKnows,
        HandlerKnows, BearersSession, ValidSession, HeldSince
<1> QED  BY <1>1, <1>2, <1>3, <1>4, <1>5, <1>6, <1>7 DEF Next

\* Types, what is known at each statement of each request, and which links are out, hold
\* in every reachable state, whatever interleaves, expires or fails.
THEOREM Invariance == Spec => []Inv
    BY InitInv, NextInv, PTL DEF Spec

\* Every reachable state is well typed.
THEOREM SessionsTyped == Spec => []TypeOK
<1>1. Inv => TypeOK
    BY DEF Inv
<1> QED  BY <1>1, Invariance, PTL

\* Whoever is served contact data, the audit log or a change of roles has had a role for it
\* since the request arrived with an open session (RequireAuth, OptionalAuth, RequireRole).
THEOREM AlwaysEntitled == Spec => []ServedIsEntitled
<1>1. Inv => ServedIsEntitled
    BY DEF Inv, RequestOK, RequestKnows, HandlerKnows, Entitled, ServedIsEntitled, At
<1> QED  BY <1>1, Invariance, PTL

\* A verification link is honoured at most once (ConfirmEmailVerification).
THEOREM LinksAlwaysOpenOnce == Spec => []LinksOpenOnce
<1>1. Inv => LinksOpenOnce
    BY DEF Inv, LinksOK, LinksOpenOnce
<1> QED  BY <1>1, Invariance, PTL

\* An address is verified by its newest link only (UpsertEmailVerification).
THEOREM AlwaysVerifiedByNewest == Spec => []VerifiedByNewest
<1>1. Inv => VerifiedByNewest
    BY DEF Inv, LinksOK, VerifiedByNewest
<1> QED  BY <1>1, Invariance, PTL

\* Nobody gains a role but user from anybody who was not an administrator since the request
\* arrived (SetUserRoleHandler), development logins outside production aside.
THEOREM OnlyAdministratorsGrant == Spec => GrantedByAdministrator
<1> DEFINE Justified(u) ==
          \/ role'[u] \ role[u] \subseteq {"user"}
          \/ \E p \in Procs : /\ At(p, "serve") /\ loc[p].route = "setRole"
                              /\ "administrator" \in loc[p].held
          \/ /\ ~Production
             /\ \E p \in Procs : /\ At(p, "grant") /\ loc[p].user = u
                                  /\ role'[u] = role[u] \cup {loc[p].grant}
<1>1. ASSUME Inv, [Next]_vars, NEW u \in Users PROVE Justified(u)
    <2>1. CASE role' = role
        BY <2>1
    <2>2. ASSUME NEW p \in Procs, SetUserRole(p) PROVE Justified(u)
        <3>1. loc[p].route = "setRole" /\ At(p, "serve") /\ HandlerKnows("serve", loc[p])
            BY <1>1, <2>2, Here DEF SetUserRole, RequestKnows, At
        <3>2. "administrator" \in loc[p].held
            BY <3>1 DEF HandlerKnows, Privileged, Guarded, Entitled, Entitling
        <3> QED  BY <3>1, <3>2
    <2>3. ASSUME NEW p \in Procs, Grant(p) PROVE Justified(u)
        <3>1. At(p, "grant") /\ loc[p].user \in Users /\ (Production => loc[p].grant = "user")
            BY <1>1, <2>3, Here DEF Grant, RequestKnows, LoginKnows, At
        <3>2. role' = role \/ role' = [role EXCEPT ![loc[p].user] = role[loc[p].user] \cup {loc[p].grant}]
            BY <2>3 DEF Grant, SetRoles
        <3>3. CASE u = loc[p].user /\ role'[u] = role[u] \cup {loc[p].grant}
            BY <3>1, <3>3
        <3>4. CASE role'[u] = role[u]
            BY <3>4
        <3> QED  BY <1>1, <3>1, <3>2, <3>3, <3>4 DEF Inv, TypeOK
    <2>4. ASSUME NEW p \in Procs, Default(p) PROVE Justified(u)
        <3>1. loc[p].user \in Users
            BY <1>1, <2>4, Here DEF Default, RequestKnows, LoginKnows, At
        <3>2. role' = role \/ role' = [role EXCEPT ![loc[p].user] = role[loc[p].user] \cup {"user"}]
            BY <2>4 DEF Default, SetRoles
        <3>3. role'[u] \subseteq role[u] \cup {"user"}
            BY <1>1, <3>1, <3>2 DEF Inv, TypeOK
        <3> QED  BY <3>3
    <2>5. CASE /\ role' # role
               /\ \A p \in Procs : ~SetUserRole(p) /\ ~Grant(p) /\ ~Default(p)
        BY <1>1, <2>5 DEF Next, vars, SignIn, Admit, Serve, Stop, Login, DevLogin, Begin, ReadRoles,
            CreateSession, Logout, Expire, Arrive, GetSession, GetUser, GetRoles, RequireRole, Show,
            RequestEmail, ConfirmEmail, ExpireLink
    <2> HIDE DEF Justified
    <2> QED  BY <2>1, <2>2, <2>3, <2>4, <2>5
<1>2. Inv /\ [Next]_vars => [\A u \in Users : Justified(u)]_vars
    BY <1>1
<1> QED  BY <1>2, Invariance, PTL DEF Spec, GrantedByAdministrator
=============================================================================
