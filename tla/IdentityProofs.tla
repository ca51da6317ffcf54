---------------------------- MODULE IdentityProofs ----------------------------
(***************************************************************************)
(* For any number of requests, accounts, identities, invites and contact   *)
(* rows, however requests overlap and wherever they fail: a login through  *)
(* the provider opens the account that owns the identity, a contact row    *)
(* names the account that bears its contact id, and no contact id has two  *)
(* bearers.                                                                *)
(*                                                                         *)
(* The second half is about calm behaviours, where nothing has overlapped, *)
(* failed or been cut off: an invite attaches one identity, a person has   *)
(* one account, and a username is kept.                                    *)
(***************************************************************************)
EXTENDS Identity, FiniteSetTheorems, TLAPS

-----------------------------------------------------------------------------
(* The inductive invariant *)

\* Foreign keys.
TablesOK ==
    /\ \A s \in Subjects : identity[s] # None => account[identity[s].account] # None
    /\ \A i \in Issued : invite[i].target # None => account[invite[i].target] # None

\* What the locals of a login hold at each statement.
LoginKnows(point, l) ==
    /\ point \in {"find", "invite", "byCILogon", "byEmail", "create", "attach"} => l.subject \in Subjects
    /\ point = "find" => l.how = "new" /\ (l.link # None => l.link \in Issued)
    /\ point = "invite" => l.link \in Issued
    /\ point \in {"attach", "mint", "use", "stamp", "readName", "setName", "signin"} =>
          l.account \in Accounts \ Fresh
    /\ (point \in {"attach", "mint"} /\ l.how = "invite") \/ point = "use" => l.inv \in Issued

\* What the locals of an invitation and of a new contact hold.
ContactKnows(point, l) ==
    /\ point = "issue" /\ l.account # None => l.account \in Accounts \ Fresh
    /\ point \in {"provision", "upsert", "row"} => l.email \in Ids
    /\ point = "upsert" => l.account = None
    /\ point = "row" /\ l.account # None => l.account \in Bearers(l.email)

\* From the moment the identity is found or linked, a login through the provider holds its owner.
Owned(l) == /\ l.subject \in Subjects /\ identity[l.subject] # None
            /\ identity[l.subject].account = l.account
OwnerKnown(point, l) ==
    l.flow = "oidc" /\ point \in {"mint", "use", "stamp", "readName", "setName", "signin"} => Owned(l)

RequestKnows(point, l) == LoginKnows(point, l) /\ ContactKnows(point, l) /\ OwnerKnown(point, l)

RequestOK(p) == RequestKnows(pc[p], loc[p])

Inv == TypeOK /\ TablesOK /\ RowsNameBearer /\ \A p \in Procs : RequestOK(p)

\* What no step undoes: accounts stay and keep the contact id they have, identities stay
\* linked as they are, invites stay.
AccountsStay == \A a \in Accounts \ Fresh :
    /\ account'[a] # None
    /\ account[a].contact # None => account'[a].contact = account[a].contact
IdentitiesStay == \A s \in Subjects : identity[s] # None => identity'[s] = identity[s]
InvitesStay == \A i \in Issued :
    invite'[i] # None /\ invite'[i].target = invite[i].target

-----------------------------------------------------------------------------
(* Initial states *)

LEMMA NoLocalTyped == NoLocal \in Local
    BY ConstantsOK DEF NoLocal, Local, Flows, Ways, Kinds, Links

LEMMA NewTyped == NewAccount \in Account /\ \A i \in Ids : Stub(i) \in Account
    BY ConstantsOK DEF NewAccount, Stub, Account

LEMMA IdleKnows == RequestKnows("idle", NoLocal)
    BY DEF RequestKnows, LoginKnows, ContactKnows, OwnerKnown

LEMMA InitInv == Init => Inv
<1> SUFFICES ASSUME Init PROVE Inv
    OBVIOUS
<1>1. TypeOK
    BY NoLocalTyped, NewTyped, ConstantsOK DEF Init, TypeOK, Points, ContactRow
<1>2. TablesOK
    BY DEF Init, TablesOK, Issued
<1>3. RowsNameBearer
    BY DEF Init, RowsNameBearer
<1>4. \A p \in Procs : RequestOK(p)
    BY IdleKnows DEF Init, RequestOK
<1> QED  BY <1>1, <1>2, <1>3, <1>4 DEF Inv

-----------------------------------------------------------------------------
(* Steps *)

\* What a request knows stays true.
LEMMA KnowsOn ==
    ASSUME Inv, NEW point \in Points, NEW l \in Local, RequestKnows(point, l),
           AccountsStay, IdentitiesStay, InvitesStay
    PROVE  RequestKnows(point, l)'
<1>1. \A a \in Accounts \ Fresh : a \in (Accounts \ Fresh)'
    BY DEF AccountsStay, Fresh
<1>2. \A i \in Issued : i \in Issued'
    BY DEF InvitesStay, Issued
<1>3. \A i \in Ids : \A a \in Bearers(i) : a \in Bearers(i)'
    BY NullsOK DEF AccountsStay, Bearers, Fresh
<1>4. Owned(l) => Owned(l)'
    BY DEF IdentitiesStay, Owned
<1>5. LoginKnows(point, l)'
    BY <1>1, <1>2 DEF RequestKnows, LoginKnows
<1>6. ContactKnows(point, l)'
    BY <1>1, <1>3 DEF RequestKnows, ContactKnows
<1>7. OwnerKnown(point, l)'
    BY <1>4 DEF RequestKnows, OwnerKnown
<1> QED  BY <1>5, <1>6, <1>7 DEF RequestKnows

\* So do the foreign keys and the contact rows, but for what a step adds.
LEMMA TablesOn ==
    ASSUME Inv, AccountsStay, InvitesStay,
           \A s \in Subjects : identity'[s] # None =>
               identity'[s] = identity[s] \/ account'[identity'[s].account] # None,
           \A i \in Issued' : i \in Issued \/ invite'[i].target = None
                              \/ account'[invite'[i].target] # None
    PROVE  TablesOK'
<1>1. ASSUME NEW s \in Subjects, identity'[s] # None, identity'[s] = identity[s]
      PROVE  account'[identity'[s].account] # None
    <2>1. identity[s] \in Identity
        BY <1>1 DEF Inv, TypeOK
    <2>2. identity[s].account \in Accounts \ Fresh
        BY <1>1, <2>1 DEF Inv, TablesOK, Fresh, Identity
    <2> QED  BY <1>1, <2>2 DEF AccountsStay
<1>2. ASSUME NEW i \in Issued, invite'[i].target # None
      PROVE  account'[invite'[i].target] # None
    <2>1. invite[i] \in Invite /\ invite'[i].target = invite[i].target
        BY DEF Inv, TypeOK, Issued, InvitesStay
    <2>2. invite[i].target \in Accounts \ Fresh
        BY <1>2, <2>1 DEF Inv, TablesOK, Fresh, Invite
    <2> QED  BY <2>1, <2>2 DEF AccountsStay
<1> QED  BY <1>1, <1>2 DEF TablesOK, Issued

LEMMA RowsOn ==
    ASSUME Inv, AccountsStay,
           \A r \in row' : r \in row \/ r[2] = None
                           \/ (account'[r[2]] # None /\ account'[r[2]].contact = r[1])
    PROVE  RowsNameBearer'
<1>1. ASSUME NEW r \in row, r[2] # None
      PROVE  account'[r[2]] # None /\ account'[r[2]].contact = r[1]
    <2>1. r[1] \in Ids /\ r[2] \in Accounts
        BY <1>1 DEF Inv, TypeOK, ContactRow
    <2>2. account[r[2]] # None /\ account[r[2]].contact = r[1]
        BY <1>1 DEF Inv, RowsNameBearer
    <2> QED  BY <2>1, <2>2, NullsOK DEF AccountsStay, Fresh
<1> QED  BY <1>1 DEF RowsNameBearer

\* Types of a step's tables.
TablesTyped ==
    /\ account \in [Accounts -> Account \cup {None}]
    /\ identity \in [Subjects -> Identity \cup {None}]
    /\ invite \in [Invites -> Invite \cup {None}]
    /\ row \subseteq ContactRow
    /\ begun \in Nat /\ calm \in BOOLEAN

\* A step of request p.
LEMMA StepInv ==
    ASSUME Inv, NEW p \in Procs, NEW point \in Points, NEW l \in Local, Goto(p, point, l),
           AccountsStay, IdentitiesStay, InvitesStay, TablesTyped', TablesOK', RowsNameBearer',
           RequestKnows(point, l)'
    PROVE  Inv'
<1>1. /\ pc' \in [Procs -> Points] /\ loc' \in [Procs -> Local]
      /\ pc'[p] = point /\ loc'[p] = l
      /\ \A q \in Procs \ {p} : pc'[q] = pc[q] /\ loc'[q] = loc[q]
    BY DEF Inv, TypeOK, Goto
<1>2. TypeOK'
    BY <1>1 DEF TypeOK, TablesTyped
<1>3. ASSUME NEW q \in Procs PROVE RequestOK(q)'
    <2>1. PICK pt \in Points, m \in Local : pt = pc'[q] /\ m = loc'[q]
        BY <1>1
    <2>2. CASE q = p
        BY <1>1, <2>1, <2>2 DEF RequestOK
    <2>3. CASE q # p
        <3>1. RequestKnows(pt, m)
            BY <1>1, <2>1, <2>3 DEF Inv, RequestOK
        <3>2. RequestKnows(pt, m)'
            BY <3>1, KnowsOn
        <3> QED  BY <2>1, <3>2 DEF RequestOK
    <2> QED  BY <2>2, <2>3
<1> QED  BY <1>2, <1>3 DEF Inv

\* One that changes no table.
LEMMA GotoInv ==
    ASSUME Inv, NEW p \in Procs, NEW point \in Points, NEW l \in Local, Goto(p, point, l),
           UNCHANGED <<account, identity, invite, row>>, begun' \in Nat, calm' \in BOOLEAN,
           RequestKnows(point, l)
    PROVE  Inv'
<1>1. AccountsStay /\ IdentitiesStay /\ InvitesStay
    BY DEF AccountsStay, IdentitiesStay, InvitesStay, Fresh, Issued
<1>2. TablesTyped' /\ TablesOK' /\ RowsNameBearer'
    BY DEF Inv, TypeOK, TablesTyped, TablesOK, RowsNameBearer, Issued
<1>3. RequestKnows(point, l)'
    BY <1>1, KnowsOn
<1> QED  BY <1>1, <1>2, <1>3, StepInv

LEMMA FinishInv ==
    ASSUME Inv, NEW p \in Procs, Finish(p), UNCHANGED <<account, identity, invite, row>>,
           begun' \in Nat, calm' \in BOOLEAN
    PROVE  Inv'
    BY IdleKnows, NoLocalTyped, GotoInv DEF Finish, Points

LEMMA BeginInv ==
    ASSUME Inv, NEW p \in Procs, NEW point \in Points, NEW l \in Local, Begin(p, point, l),
           RequestKnows(point, l)
    PROVE  Inv'
<1>1. calm' \in BOOLEAN
    BY Zenon DEF Begin
<1>2. begun' \in Nat
    BY DEF Begin, Inv, TypeOK
<1> QED  BY <1>1, <1>2, GotoInv DEF Begin

\* One that moves no request.
LEMMA StillInv ==
    ASSUME Inv, UNCHANGED <<pc, loc>>, AccountsStay, IdentitiesStay, InvitesStay,
           TablesTyped', TablesOK', RowsNameBearer'
    PROVE  Inv'
<1>1. TypeOK'
    BY DEF Inv, TypeOK, TablesTyped
<1>2. ASSUME NEW q \in Procs PROVE RequestOK(q)'
    <2>1. PICK pt \in Points, m \in Local : pt = pc[q] /\ m = loc[q]
        BY DEF Inv, TypeOK
    <2>2. RequestKnows(pt, m)
        BY <2>1 DEF Inv, RequestOK
    <2>3. RequestKnows(pt, m)'
        BY <2>2, KnowsOn
    <2> QED  BY <2>1, <2>3 DEF RequestOK
<1> QED  BY <1>1, <1>2 DEF Inv

\* One that writes one account: a new one, or one whose contact id stays or was missing.
LEMMA OneAccount ==
    ASSUME Inv, NEW a \in Accounts, NEW x \in Account, account' = [account EXCEPT ![a] = x],
           a \in Fresh \/ account[a].contact \in {None, x.contact},
           UNCHANGED <<identity, invite, row>>, begun' \in Nat, calm' \in BOOLEAN
    PROVE  /\ AccountsStay /\ IdentitiesStay /\ InvitesStay
           /\ TablesTyped' /\ TablesOK' /\ RowsNameBearer'
<1>1. AccountsStay
    BY NullsOK DEF AccountsStay, Fresh, Inv, TypeOK
<1>2. IdentitiesStay /\ InvitesStay
    BY DEF IdentitiesStay, InvitesStay, Issued
<1>3. TablesTyped'
    BY DEF Inv, TypeOK, TablesTyped
<1>4. TablesOK'
    BY <1>1, <1>2, TablesOn DEF Issued
<1>5. RowsNameBearer'
    <2>1. \A r \in row' : r \in row
        OBVIOUS
    <2> QED  BY <1>1, <2>1, RowsOn
<1> QED  BY <1>1, <1>2, <1>3, <1>4, <1>5

LEMMA NewAccountInv ==
    ASSUME Inv, NEW p \in Procs, NEW point \in Points, NEW l \in Local, Goto(p, point, l),
           NEW a \in Fresh, NEW x \in Account, account' = [account EXCEPT ![a] = x],
           UNCHANGED <<identity, invite, row>>, begun' \in Nat, calm' \in BOOLEAN,
           RequestKnows(point, l)'
    PROVE  Inv'
<1>1. a \in Accounts
    BY DEF Fresh
<1> QED  BY <1>1, OneAccount, StepInv

LEMMA OldAccountInv ==
    ASSUME Inv, NEW p \in Procs, NEW point \in Points, NEW l \in Local, Goto(p, point, l),
           NEW a \in Accounts, NEW x \in Account, account' = [account EXCEPT ![a] = x],
           account[a].contact \in {None, x.contact},
           UNCHANGED <<identity, invite, row>>, begun' \in Nat, calm' \in BOOLEAN,
           RequestKnows(point, l)
    PROVE  Inv'
<1>1. RequestKnows(point, l)'
    BY OneAccount, KnowsOn
<1> QED  BY <1>1, OneAccount, StepInv

-----------------------------------------------------------------------------
(* Recognizing who signs in *)

\* The request of a process, and what it knows.
LEMMA Here ==
    ASSUME Inv, NEW p \in Procs
    PROVE  loc[p] \in Local /\ pc[p] \in Points /\ RequestKnows(pc[p], loc[p])
    BY DEF Inv, TypeOK, RequestOK

LEMMA OIDCCallbackInv == ASSUME Inv, NEW p \in Procs, OIDCCallback(p) PROVE Inv'
<1>1. PICK c \in Claims, i \in Issued \cup {None} :
          Begin(p, "find", [NoLocal EXCEPT !.subject = c.subject, !.email = c.email,
                                           !.cilogon = c.cilogon, !.link = i])
    BY DEF OIDCCallback, Asserted, Carried
<1>2. c.subject \in Subjects /\ c.email \in Ids \cup {None} /\ c.cilogon \in Ids \cup {None}
    BY ConstantsOK
<1>3. PICK s \in Subjects, e \in Ids \cup {None}, k \in Ids \cup {None} :
          s = c.subject /\ e = c.email /\ k = c.cilogon
    BY <1>2
<1>4. [NoLocal EXCEPT !.subject = s, !.email = e, !.cilogon = k, !.link = i] \in Local
    BY NoLocalTyped DEF Local, Issued
<1>5. RequestKnows("find", [NoLocal EXCEPT !.subject = s, !.email = e, !.cilogon = k, !.link = i])
    BY DEF NoLocal, RequestKnows, LoginKnows, ContactKnows, OwnerKnown
<1> QED  BY <1>1, <1>3, <1>4, <1>5, BeginInv DEF Points

LEMMA DevLoginInv == ASSUME Inv, NEW p \in Procs, DevLogin(p) PROVE Inv'
<1>1. PICK e \in DOMAIN DevSubject, i \in Issued \cup {None} :
          Begin(p, "find", [NoLocal EXCEPT !.flow = "dev", !.subject = DevSubject[e],
                                           !.email = e, !.link = i])
    BY DEF DevLogin, Carried
<1>2. PICK s \in Subjects : s = DevSubject[e]
    BY ConstantsOK
<1>3. e \in Ids
    BY ConstantsOK
<1>4. [NoLocal EXCEPT !.flow = "dev", !.subject = s, !.email = e, !.link = i] \in Local
    BY <1>3, NoLocalTyped DEF Local, Issued, Flows
<1>5. RequestKnows("find", [NoLocal EXCEPT !.flow = "dev", !.subject = s, !.email = e, !.link = i])
    BY DEF NoLocal, RequestKnows, LoginKnows, ContactKnows, OwnerKnown
<1> QED  BY <1>1, <1>2, <1>4, <1>5, BeginInv DEF Points

LEMMA FindIdentityInv == ASSUME Inv, NEW p \in Procs, FindIdentity(p) PROVE Inv'
<1>1. PICK l \in Local : l = loc[p]
    BY Here
<1>2. /\ l.subject \in Subjects /\ l.how = "new" /\ (l.link # None => l.link \in Issued)
      /\ UNCHANGED <<account, identity, invite, row, begun>>
    BY <1>1, Here DEF FindIdentity, At, RequestKnows, LoginKnows
<1>3. calm' \in BOOLEAN /\ begun' \in Nat
    BY <1>1 DEF FindIdentity, Lost, Inv, TypeOK
<1>4. ASSUME identity[l.subject] # None, NEW point \in {"mint", "stamp"},
             Goto(p, point, [l EXCEPT !.account = identity[l.subject].account,
                                      !.email = identity[l.subject].email])
      PROVE  Inv'
    <2>1. identity[l.subject] \in Identity
        BY <1>2, <1>4 DEF Inv, TypeOK
    <2>2. PICK a \in Accounts, e \in Ids \cup {None} :
              a = identity[l.subject].account /\ e = identity[l.subject].email
        BY <2>1 DEF Identity
    <2>3. a \in Accounts \ Fresh
        BY <1>2, <1>4, <2>2 DEF Inv, TablesOK, Fresh
    <2>4. [l EXCEPT !.account = a, !.email = e] \in Local
        BY DEF Local
    <2>5. PICK m \in Local : m = [l EXCEPT !.account = a, !.email = e]
        BY <2>4
    <2>6. m.account = a /\ m.subject = l.subject /\ m.how = "new"
        BY <1>2, <2>5 DEF Local
    <2>7. RequestKnows(point, m)
        BY <1>2, <1>4, <2>2, <2>3, <2>6 DEF RequestKnows, LoginKnows, ContactKnows, OwnerKnown, Owned
    <2>8. Goto(p, point, m)
        BY <1>4, <2>2, <2>5
    <2> QED  BY <1>2, <1>3, <2>7, <2>8, GotoInv DEF Points
<1>5. ASSUME NEW b \in BOOLEAN, Goto(p, Onboard(l), [l EXCEPT !.own = b])
      PROVE  Inv'
    <2>1. [l EXCEPT !.own = b] \in Local
        BY DEF Local
    <2>2. PICK m \in Local : m = [l EXCEPT !.own = b]
        BY <2>1
    <2>3. m.subject = l.subject /\ m.link = l.link
        BY <2>2 DEF Local
    <2>4. PICK point \in {"invite", "create", "byCILogon"} :
              point = Onboard(l) /\ (point = "invite" => l.link # None)
        BY DEF Onboard
    <2>5. RequestKnows(point, m)
        BY <1>2, <2>3, <2>4 DEF RequestKnows, LoginKnows, ContactKnows, OwnerKnown
    <2>6. Goto(p, point, m)
        BY <1>5, <2>2, <2>4
    <2> QED  BY <1>2, <1>3, <2>5, <2>6, GotoInv DEF Points
<1>6. PICK b \in BOOLEAN : b = (l.link = None /\ l.flow = "dev")
    OBVIOUS
<1>7. \/ /\ identity[l.subject] # None
         /\ Goto(p, IF identity[l.subject].email # None THEN "mint" ELSE "stamp",
                 [l EXCEPT !.account = identity[l.subject].account,
                           !.email = identity[l.subject].email])
      \/ Goto(p, Onboard(l), [l EXCEPT !.own = b])
    BY <1>1, <1>6 DEF FindIdentity, Lost
<1> QED  BY <1>4, <1>5, <1>7

LEMMA GetInviteInv == ASSUME Inv, NEW p \in Procs, GetInvite(p) PROVE Inv'
<1>1. PICK l \in Local : l = loc[p]
    BY Here
<1>2. /\ l.subject \in Subjects /\ l.link \in Issued
      /\ UNCHANGED <<account, identity, invite, row, begun>>
    BY <1>1, Here DEF GetInvite, At, RequestKnows, LoginKnows
<1>3. calm' \in BOOLEAN /\ begun' \in Nat
    BY <1>1 DEF GetInvite, Lost, Inv, TypeOK
<1>4. PICK i \in Issued : i = l.link
    BY <1>2
<1>5. i \in Invites /\ invite[i] \in Invite
    BY DEF Issued, Inv, TypeOK
<1>6. PICK k \in Kinds : k = invite[i].kind
    BY <1>5 DEF Invite
<1>7. [l EXCEPT !.inv = i, !.kind = k] \in Local
    BY <1>5 DEF Local
<1>8. PICK n \in Local : n = [l EXCEPT !.inv = i, !.kind = k]
    BY <1>7
<1>9. n.subject = l.subject /\ n.inv = i
    BY <1>8 DEF Local
<1>10. CASE Goto(p, "attach", [n EXCEPT !.account = invite[i].target, !.how = "invite"])
            /\ Attaches(i)
    <2>1. PICK a \in Accounts : a = invite[i].target
        BY <1>5, <1>10 DEF Invite, Attaches
    <2>2. a \in Accounts \ Fresh
        BY <1>10, <2>1 DEF Inv, TablesOK, Fresh, Attaches
    <2>3. [n EXCEPT !.account = a, !.how = "invite"] \in Local
        BY DEF Local, Ways
    <2>4. PICK m \in Local : m = [n EXCEPT !.account = a, !.how = "invite"]
        BY <2>3
    <2>5. m.account = a /\ m.subject = n.subject /\ m.inv = n.inv
        BY <2>4 DEF Local
    <2>6. RequestKnows("attach", m)
        BY <1>2, <1>9, <2>2, <2>5 DEF RequestKnows, LoginKnows, ContactKnows, OwnerKnown
    <2>7. Goto(p, "attach", m)
        BY <1>10, <2>1, <2>4
    <2> QED  BY <1>2, <1>3, <2>6, <2>7, GotoInv DEF Points
<1>11. CASE Goto(p, "byCILogon", n)
    <2>1. RequestKnows("byCILogon", n)
        BY <1>2, <1>9 DEF RequestKnows, LoginKnows, ContactKnows, OwnerKnown
    <2> QED  BY <1>2, <1>3, <1>11, <2>1, GotoInv DEF Points
<1>12. CASE Goto(p, "byCILogon", l)
    <2>1. RequestKnows("byCILogon", l)
        BY <1>2 DEF RequestKnows, LoginKnows, ContactKnows, OwnerKnown
    <2> QED  BY <1>2, <1>3, <1>12, <2>1, GotoInv DEF Points
<1> QED  BY <1>1, <1>4, <1>6, <1>8, <1>10, <1>11, <1>12 DEF GetInvite, Lost

LEMMA RecognizeInv ==
    ASSUME Inv, NEW p \in Procs, NEW i, NEW way \in {"cilogon", "email"}, Recognize(p, i, way),
           loc[p].subject \in Subjects, UNCHANGED <<account, identity, invite, row, begun>>
    PROVE  Inv'
<1>1. PICK l \in Local : l = loc[p]
    BY Here
<1>2. PICK a \in Bearers(i) : Goto(p, "attach", [l EXCEPT !.account = a, !.how = way])
    BY <1>1 DEF Recognize
<1>3. a \in Accounts \ Fresh
    BY DEF Bearers, Fresh
<1>4. [l EXCEPT !.account = a, !.how = way] \in Local
    BY <1>3 DEF Local, Ways
<1>5. PICK m \in Local : m = [l EXCEPT !.account = a, !.how = way]
    BY <1>4
<1>6. m.account = a /\ m.how = way /\ m.subject = l.subject
    BY <1>5 DEF Local
<1>7. RequestKnows("attach", m)
    BY <1>1, <1>3, <1>6 DEF RequestKnows, LoginKnows, ContactKnows, OwnerKnown
<1>8. Goto(p, "attach", m)
    BY <1>2, <1>5
<1>9. calm' \in BOOLEAN /\ begun' \in Nat
    BY DEF Recognize, Inv, TypeOK
<1> QED  BY <1>7, <1>8, <1>9, GotoInv DEF Points

LEMMA ByCILogonInv == ASSUME Inv, NEW p \in Procs, ByCILogon(p) PROVE Inv'
<1>1. loc[p].subject \in Subjects /\ UNCHANGED <<account, identity, invite, row, begun>>
    BY Here DEF ByCILogon, At, RequestKnows, LoginKnows
<1>2. CASE Recognize(p, loc[p].cilogon, "cilogon")
    BY <1>1, <1>2, RecognizeInv
<1>3. CASE Overlook(loc[p].cilogon) /\ Goto(p, "byEmail", loc[p])
    <2>1. RequestKnows("byEmail", loc[p])
        BY <1>1 DEF RequestKnows, LoginKnows, ContactKnows, OwnerKnown
    <2>2. calm' \in BOOLEAN /\ begun' \in Nat
        BY <1>1, <1>3 DEF Overlook, Inv, TypeOK
    <2> QED  BY <1>1, <1>3, <2>1, <2>2, Here, GotoInv DEF Points
<1> QED  BY <1>2, <1>3 DEF ByCILogon

LEMMA ByEmailInv == ASSUME Inv, NEW p \in Procs, ByEmail(p) PROVE Inv'
<1>1. PICK l \in Local : l = loc[p]
    BY Here
<1>2. l.subject \in Subjects /\ UNCHANGED <<account, identity, invite, row, begun>>
    BY <1>1, Here DEF ByEmail, At, RequestKnows, LoginKnows
<1>3. CASE Recognize(p, l.email, "email")
    BY <1>1, <1>2, <1>3, RecognizeInv
<1>4. CASE Overlook(l.email) /\ Unrecognized(p, l)
    <2>1. calm' \in BOOLEAN /\ begun' \in Nat
        BY <1>2, <1>4 DEF Overlook, Inv, TypeOK
    <2>2. CASE Finish(p)
        BY <1>2, <2>1, <2>2, FinishInv
    <2>3. ASSUME NEW m \in Local, m.subject = l.subject, Goto(p, "create", m) PROVE Inv'
        <3>1. RequestKnows("create", m)
            BY <1>2, <2>3 DEF RequestKnows, LoginKnows, ContactKnows, OwnerKnown
        <3> QED  BY <1>2, <2>1, <2>3, <3>1, GotoInv DEF Points
    <2>4. [l EXCEPT !.own = TRUE] \in Local /\ [l EXCEPT !.own = TRUE].subject = l.subject
        BY DEF Local
    <2> QED  BY <1>4, <2>2, <2>3, <2>4 DEF Unrecognized
<1> QED  BY <1>1, <1>3, <1>4 DEF ByEmail

-----------------------------------------------------------------------------
(* Attaching the identity *)

LEMMA CreateUserInv == ASSUME Inv, NEW p \in Procs, CreateUser(p) PROVE Inv'
<1>1. PICK l \in Local : l = loc[p]
    BY Here
<1>2. l.subject \in Subjects
    BY <1>1, Here DEF CreateUser, At, RequestKnows, LoginKnows
<1>3. PICK h \in {"dev", "new"} : h = IF l.own THEN "dev" ELSE "new"
    OBVIOUS
<1>4. PICK a \in Fresh : /\ account' = [account EXCEPT ![a] = NewAccount]
                         /\ Goto(p, "attach", [l EXCEPT !.account = a, !.how = h])
    BY <1>1, <1>3 DEF CreateUser
<1>5. a \in Accounts
    BY DEF Fresh
<1>6. [l EXCEPT !.account = a, !.how = h] \in Local
    BY <1>5 DEF Local, Ways
<1>7. PICK m \in Local : m = [l EXCEPT !.account = a, !.how = h]
    BY <1>6
<1>8. m.account = a /\ m.how = h /\ m.subject = l.subject
    BY <1>7 DEF Local
<1>9. account'[a] # None
    BY <1>4, <1>5, NewTyped, NullsOK DEF Inv, TypeOK
<1>10. RequestKnows("attach", m)'
    BY <1>2, <1>5, <1>8, <1>9 DEF RequestKnows, LoginKnows, ContactKnows, OwnerKnown, Fresh
<1>11. /\ Goto(p, "attach", m) /\ UNCHANGED <<identity, invite, row>>
       /\ begun' \in Nat /\ calm' \in BOOLEAN
    BY <1>4, <1>7 DEF CreateUser, Inv, TypeOK
<1> QED  BY <1>4, <1>10, <1>11, NewTyped, NewAccountInv DEF Points

\* Where a login goes from here, its account known and its identity linked.
LEMMA GoesOn ==
    ASSUME NEW l \in Local, l.account \in Accounts \ Fresh, l.flow = "oidc" => Owned(l),
           l.how = "invite" => l.inv \in Issued, NEW point \in {"mint", Attached(l)}
    PROVE  point \in Points /\ RequestKnows(point, l)
<1>1. point \in {"mint", "stamp", "use"} /\ (point = "use" => l.how = "invite")
    BY DEF Attached
<1> QED  BY <1>1 DEF Points, RequestKnows, LoginKnows, ContactKnows, OwnerKnown

LEMMA LinkIdentityInv == ASSUME Inv, NEW p \in Procs, LinkIdentity(p) PROVE Inv'
<1>1. PICK l \in Local : l = loc[p]
    BY Here
<1>2. /\ l.subject \in Subjects /\ l.account \in Accounts \ Fresh
      /\ l.how = "invite" => l.inv \in Issued
    BY <1>1, Here DEF LinkIdentity, At, RequestKnows, LoginKnows
<1>3. UNCHANGED <<account, invite, row, begun, calm>> /\ begun' \in Nat /\ calm' \in BOOLEAN
    BY DEF LinkIdentity, Inv, TypeOK
<1>4. CASE identity[l.subject] # None /\ LinkRefused(p, l) /\ UNCHANGED identity
    <2>1. CASE Finish(p)
        BY <1>3, <1>4, <2>1, FinishInv
    <2>2. CASE Goto(p, "stamp", l) /\ l.flow = "dev"
        <3>1. RequestKnows("stamp", l)
            BY <1>2, <2>2 DEF RequestKnows, LoginKnows, ContactKnows, OwnerKnown
        <3> QED  BY <1>3, <1>4, <2>2, <3>1, GotoInv DEF Points
    <2>3. CASE Goto(p, "create", [l EXCEPT !.own = TRUE, !.inv = None])
        <3>0. [l EXCEPT !.own = TRUE, !.inv = None] \in Local
            BY DEF Local
        <3>1. PICK m \in Local : m = [l EXCEPT !.own = TRUE, !.inv = None]
            BY <3>0
        <3>3. m.subject = l.subject
            BY <3>1 DEF Local
        <3>2. RequestKnows("create", m)
            BY <1>2, <3>3 DEF RequestKnows, LoginKnows, ContactKnows, OwnerKnown
        <3> QED  BY <1>3, <1>4, <2>3, <3>1, <3>2, GotoInv DEF Points
    <2> QED  BY <1>4, <2>1, <2>2, <2>3 DEF LinkRefused
<1>5. ASSUME identity[l.subject] = None, NEW d \in Identity, d.account = l.account,
             identity' = [identity EXCEPT ![l.subject] = d],
             NEW point \in {"mint", Attached(l)}, Goto(p, point, l)
      PROVE  Inv'
    <2>1. /\ identity' \in [Subjects -> Identity \cup {None}]
          /\ identity'[l.subject] = d
          /\ \A s \in Subjects \ {l.subject} : identity'[s] = identity[s]
        BY <1>2, <1>5 DEF Inv, TypeOK
    <2>2. AccountsStay /\ IdentitiesStay /\ InvitesStay
        BY <1>3, <1>5, <2>1 DEF AccountsStay, IdentitiesStay, InvitesStay, Fresh, Issued
    <2>3. TablesTyped' /\ RowsNameBearer'
        BY <1>3, <2>1 DEF Inv, TypeOK, TablesTyped, RowsNameBearer
    <2>4. TablesOK'
        BY <1>2, <1>3, <1>5, <2>1 DEF Inv, TablesOK, Fresh, Issued
    <2>5. l.flow = "oidc" => Owned(l)'
        BY <1>2, <1>5, <2>1, NullsOK DEF Owned
    <2>6. point \in Points
        BY DEF Points, Attached
    <2>7. RequestKnows(point, l)'
        <3>1. point = "use" => l.how = "invite"
            BY DEF Attached
        <3>2. LoginKnows(point, l)'
            BY <1>2, <1>3, <3>1 DEF LoginKnows, Fresh, Issued, Attached
        <3>3. ContactKnows(point, l)'
            BY DEF ContactKnows, Attached
        <3>4. OwnerKnown(point, l)'
            BY <2>5 DEF OwnerKnown
        <3> QED  BY <3>2, <3>3, <3>4 DEF RequestKnows
    <2> QED  BY <1>5, <2>2, <2>3, <2>4, <2>6, <2>7, StepInv
<1>6. [account |-> l.account, email |-> l.email, how |-> l.how,
       via |-> IF l.how = "invite" THEN l.inv ELSE None] \in Identity
    BY <1>2 DEF Identity, Local, Issued
<1>7. PICK d \in Identity :
          d = [account |-> l.account, email |-> l.email, how |-> l.how,
               via |-> IF l.how = "invite" THEN l.inv ELSE None]
    BY <1>6
<1>8. d.account = l.account
    BY <1>7
<1>9. PICK point \in {"mint", Attached(l)} : point = IF l.email # None THEN "mint" ELSE Attached(l)
    OBVIOUS
<1> QED  BY <1>1, <1>4, <1>5, <1>7, <1>8, <1>9 DEF LinkIdentity

\* The account of a login and what holds it, at any statement after the identity is linked.
LEMMA SignedIn ==
    ASSUME Inv, NEW p \in Procs, pc[p] \in {"mint", "stamp", "readName", "setName", "signin"}
    PROVE  /\ loc[p].account \in Accounts \ Fresh
           /\ account[loc[p].account] \in Account
           /\ loc[p].flow = "oidc" => Owned(loc[p])
<1>1. loc[p].account \in Accounts \ Fresh /\ (loc[p].flow = "oidc" => Owned(loc[p]))
    BY Here DEF RequestKnows, LoginKnows, OwnerKnown
<1> QED  BY <1>1 DEF Inv, TypeOK, Fresh

\* A login that goes on from one statement to a later one with what it has.
LEMMA LaterKnows ==
    ASSUME NEW l \in Local, NEW point \in {"stamp", "readName", "setName", "signin"},
           l.account \in Accounts \ Fresh, l.flow = "oidc" => Owned(l)
    PROVE  point \in Points /\ RequestKnows(point, l)
    BY DEF Points, RequestKnows, LoginKnows, ContactKnows, OwnerKnown

LEMMA MintInv == ASSUME Inv, NEW p \in Procs, Mint(p) PROVE Inv'
<1>1. PICK l \in Local : l = loc[p]
    BY Here
<1>2. /\ l.account \in Accounts \ Fresh /\ account[l.account] \in Account
      /\ l.flow = "oidc" => Owned(l)
      /\ l.how = "invite" => l.inv \in Issued
    BY <1>1, Here, SignedIn DEF Mint, At, RequestKnows, LoginKnows
<1>3. PICK point \in {"mint", Attached(l)} : point = Attached(l)
    OBVIOUS
<1>4. point \in Points /\ RequestKnows(point, l)
    BY <1>2, GoesOn
<1>5. /\ Goto(p, point, l) /\ UNCHANGED <<identity, invite, row>>
      /\ begun' \in Nat /\ calm' \in BOOLEAN
    BY <1>1, <1>3 DEF Mint, Lost, Inv, TypeOK
<1>6. CASE UNCHANGED account
    BY <1>4, <1>5, <1>6, GotoInv
<1>7. CASE account[l.account].contact = None
           /\ account' = [account EXCEPT ![l.account].contact = l.email]
    <2>1. [account[l.account] EXCEPT !.contact = l.email] \in Account
        BY <1>2 DEF Account, Local
    <2>2. account' = [account EXCEPT ![l.account] = [account[l.account] EXCEPT !.contact = l.email]]
        BY <1>7
    <2>3. l.account \in Accounts
        BY <1>2
    <2> QED  BY <1>4, <1>5, <1>7, <2>1, <2>2, <2>3, OldAccountInv
<1> QED  BY <1>1, <1>6, <1>7 DEF Mint, Minted

\* A mark on an invite changes nothing else of it.
LEMMA UsedTyped ==
    ASSUME NEW x \in Invite
    PROVE  /\ [x EXCEPT !.used = TRUE] \in Invite /\ [x EXCEPT !.used = TRUE].target = x.target
           /\ [x EXCEPT !.expired = TRUE] \in Invite /\ [x EXCEPT !.expired = TRUE].target = x.target
    BY DEF Invite

LEMMA MarkInviteUsedInv == ASSUME Inv, NEW p \in Procs, MarkInviteUsed(p) PROVE Inv'
<1>1. PICK l \in Local : l = loc[p]
    BY Here
<1>2. /\ l.account \in Accounts \ Fresh /\ l.inv \in Issued
      /\ l.flow = "oidc" => Owned(l)
    BY <1>1, Here DEF MarkInviteUsed, At, RequestKnows, LoginKnows, OwnerKnown
<1>3. UNCHANGED <<account, identity, row>> /\ begun' \in Nat /\ calm' \in BOOLEAN
    BY <1>1 DEF MarkInviteUsed, Lost, Inv, TypeOK
<1>4. "stamp" \in Points /\ RequestKnows("stamp", l)
    BY <1>2, LaterKnows
<1>5. CASE UNCHANGED invite /\ Goto(p, "stamp", l)
    BY <1>3, <1>4, <1>5, GotoInv
<1>6. CASE invite' = Used(l.inv, l)
    <2>1. invite[l.inv] \in Invite /\ l.inv \in Invites
        BY <1>2 DEF Inv, TypeOK, Issued
    <2>2. PICK x \in Invite : /\ x = [invite[l.inv] EXCEPT !.used = TRUE]
                              /\ x.target = invite[l.inv].target
        BY <2>1, UsedTyped
    <2>3. invite' = [invite EXCEPT ![l.inv] = x]
        BY <1>6, <2>2 DEF Used
    <2>4. InvitesStay
        BY <2>1, <2>2, <2>3, NullsOK DEF InvitesStay, Issued, Inv, TypeOK
    <2>5. AccountsStay /\ IdentitiesStay
        BY <1>3 DEF AccountsStay, IdentitiesStay, Fresh
    <2>6. TablesTyped' /\ RowsNameBearer'
        BY <1>3, <2>3 DEF Inv, TypeOK, TablesTyped, RowsNameBearer
    <2>7. Issued' = Issued
        BY <2>1, <2>2, <2>3, NullsOK DEF Issued, Inv, TypeOK
    <2>8. TablesOK'
        BY <1>3, <2>4, <2>7 DEF TablesOK, Inv, InvitesStay
    <2>9. CASE Finish(p)
        <3>1. RequestKnows("idle", NoLocal)'
            BY DEF RequestKnows, LoginKnows, ContactKnows, OwnerKnown
        <3> QED  BY <2>4, <2>5, <2>6, <2>8, <2>9, <3>1, NoLocalTyped, StepInv DEF Finish, Points
    <2>10. CASE Goto(p, "stamp", l)
        <3>1. RequestKnows("stamp", l)'
            BY <1>4, <2>4, <2>5, KnowsOn
        <3> QED  BY <1>4, <2>4, <2>5, <2>6, <2>8, <2>10, <3>1, StepInv
    <2> QED  BY <1>1, <1>6, <2>9, <2>10 DEF MarkInviteUsed, Lost
<1> QED  BY <1>1, <1>5, <1>6 DEF MarkInviteUsed, Lost

-----------------------------------------------------------------------------
(* Logging in *)

\* Neither claiming an account nor naming it touches its contact id.
LEMMA ContactKept ==
    ASSUME NEW x \in Account, NEW n \in 0..MaxName
    PROVE  /\ [x EXCEPT !.provisioned = FALSE] \in Account
           /\ [x EXCEPT !.provisioned = FALSE].contact = x.contact
           /\ [x EXCEPT !.username = n] \in Account
           /\ [x EXCEPT !.username = n].contact = x.contact
    BY DEF Account

LEMMA StampInv == ASSUME Inv, NEW p \in Procs, Stamp(p) PROVE Inv'
<1>1. PICK l \in Local : l = loc[p]
    BY Here
<1>2. /\ l.account \in Accounts \ Fresh /\ account[l.account] \in Account
      /\ l.flow = "oidc" => Owned(l)
    BY <1>1, SignedIn DEF Stamp, At
<1>3. "readName" \in Points /\ RequestKnows("readName", l)
    BY <1>2, LaterKnows
<1>4. /\ Goto(p, "readName", l) /\ UNCHANGED <<identity, invite, row>>
      /\ begun' \in Nat /\ calm' \in BOOLEAN
    BY <1>1 DEF Stamp, Lost, Inv, TypeOK
<1>5. CASE UNCHANGED account
    BY <1>3, <1>4, <1>5, GotoInv
<1>6. CASE account' = [account EXCEPT ![l.account].provisioned = FALSE]
    <2>1. PICK x \in Account : /\ x = [account[l.account] EXCEPT !.provisioned = FALSE]
                               /\ x.contact = account[l.account].contact
        BY <1>2, ContactKept DEF Account
    <2>2. account' = [account EXCEPT ![l.account] = x]
        BY <1>6, <2>1
    <2>3. l.account \in Accounts
        BY <1>2
    <2> QED  BY <1>3, <1>4, <2>1, <2>2, <2>3, OldAccountInv
<1> QED  BY <1>1, <1>5, <1>6 DEF Stamp

LEMMA ReadNameInv == ASSUME Inv, NEW p \in Procs, ReadName(p) PROVE Inv'
<1>1. PICK l \in Local : l = loc[p]
    BY Here
<1>2. l.account \in Accounts \ Fresh /\ (l.flow = "oidc" => Owned(l))
    BY <1>1, SignedIn DEF ReadName, At
<1>3. UNCHANGED <<account, identity, invite, row>> /\ begun' \in Nat /\ calm' \in BOOLEAN
    BY <1>1 DEF ReadName, Lost, Inv, TypeOK
<1>4. CASE Goto(p, "signin", l)
    <2>1. "signin" \in Points /\ RequestKnows("signin", l)
        BY <1>2, LaterKnows
    <2> QED  BY <1>3, <1>4, <2>1, GotoInv
<1>5. CASE MaxName > 0 /\ Goto(p, "setName", [l EXCEPT !.next = 1])
    <2>1. 1 \in 0..MaxName
        BY <1>5, ConstantsOK
    <2>2. [l EXCEPT !.next = 1] \in Local
        BY <2>1 DEF Local
    <2>3. PICK m \in Local : m = [l EXCEPT !.next = 1]
        BY <2>2
    <2>4. m.account = l.account /\ m.flow = l.flow /\ m.subject = l.subject
        BY <2>3 DEF Local
    <2>5. "setName" \in Points /\ RequestKnows("setName", m)
        BY <1>2, <2>4, LaterKnows DEF Owned
    <2> QED  BY <1>3, <1>5, <2>3, <2>5, GotoInv
<1> QED  BY <1>1, <1>4, <1>5 DEF ReadName, Lost

LEMMA SetNameInv == ASSUME Inv, NEW p \in Procs, SetName(p) PROVE Inv'
<1>1. PICK l \in Local : l = loc[p]
    BY Here
<1>2. /\ l.account \in Accounts \ Fresh /\ account[l.account] \in Account
      /\ l.flow = "oidc" => Owned(l)
    BY <1>1, SignedIn DEF SetName, At
<1>3. UNCHANGED <<identity, invite, row>> /\ begun' \in Nat /\ calm' \in BOOLEAN
    BY <1>1 DEF SetName, Lost, Inv, TypeOK
<1>4. "signin" \in Points /\ RequestKnows("signin", l)
    BY <1>2, LaterKnows
<1>5. CASE UNCHANGED account /\ Goto(p, "signin", l)
    BY <1>3, <1>4, <1>5, GotoInv
<1>6. CASE UNCHANGED account /\ l.next < MaxName /\ Goto(p, "setName", [l EXCEPT !.next = l.next + 1])
    <2>1. l.next + 1 \in 0..MaxName
        BY <1>6, ConstantsOK DEF Local
    <2>2. PICK n \in 0..MaxName : n = l.next + 1
        BY <2>1
    <2>3. [l EXCEPT !.next = n] \in Local
        BY DEF Local
    <2>4. PICK m \in Local : m = [l EXCEPT !.next = n]
        BY <2>3
    <2>5. m.account = l.account /\ m.flow = l.flow /\ m.subject = l.subject
        BY <2>4 DEF Local
    <2>6. "setName" \in Points /\ RequestKnows("setName", m)
        BY <1>2, <2>5, LaterKnows DEF Owned
    <2>7. Goto(p, "setName", m)
        BY <1>6, <2>2, <2>4
    <2> QED  BY <1>3, <1>6, <2>6, <2>7, GotoInv
<1>7. CASE account' = [account EXCEPT ![l.account].username = l.next] /\ Goto(p, "signin", l)
    <2>1. PICK x \in Account : /\ x = [account[l.account] EXCEPT !.username = l.next]
                               /\ x.contact = account[l.account].contact
        BY <1>2, ContactKept DEF Local
    <2>2. account' = [account EXCEPT ![l.account] = x]
        BY <1>7, <2>1
    <2>3. l.account \in Accounts
        BY <1>2
    <2> QED  BY <1>3, <1>4, <1>7, <2>1, <2>2, <2>3, OldAccountInv
<1> QED  BY <1>1, <1>5, <1>6, <1>7 DEF SetName, Lost

LEMMA SignInInv == ASSUME Inv, NEW p \in Procs, SignIn(p) PROVE Inv'
    BY FinishInv DEF SignIn, Inv, TypeOK

-----------------------------------------------------------------------------
(* Invites *)

LEMMA CreateInviteInv == ASSUME Inv, NEW p \in Procs, CreateInvite(p) PROVE Inv'
<1>1. ASSUME NEW a \in Accounts \ Fresh,
             Begin(p, "issue", [NoLocal EXCEPT !.flow = "issue", !.kind = "account_link", !.account = a])
      PROVE  Inv'
    <2>1. [NoLocal EXCEPT !.flow = "issue", !.kind = "account_link", !.account = a] \in Local
        BY NoLocalTyped DEF Local, Flows, Kinds, Links
    <2>2. RequestKnows("issue", [NoLocal EXCEPT !.flow = "issue", !.kind = "account_link", !.account = a])
        BY DEF NoLocal, RequestKnows, LoginKnows, ContactKnows, OwnerKnown
    <2> QED  BY <1>1, <2>1, <2>2, BeginInv DEF Points
<1>2. ASSUME NEW e \in Ids,
             Begin(p, "provision", [NoLocal EXCEPT !.flow = "issue", !.kind = "contact_onboard", !.email = e])
      PROVE  Inv'
    <2>1. [NoLocal EXCEPT !.flow = "issue", !.kind = "contact_onboard", !.email = e] \in Local
        BY NoLocalTyped DEF Local, Flows, Kinds, Links
    <2>2. RequestKnows("provision", [NoLocal EXCEPT !.flow = "issue", !.kind = "contact_onboard", !.email = e])
        BY DEF NoLocal, RequestKnows, LoginKnows, ContactKnows, OwnerKnown
    <2> QED  BY <1>2, <2>1, <2>2, BeginInv DEF Points
<1>3. ASSUME NEW k \in Kinds \ Links, Begin(p, "issue", [NoLocal EXCEPT !.flow = "issue", !.kind = k])
      PROVE  Inv'
    <2>1. [NoLocal EXCEPT !.flow = "issue", !.kind = k] \in Local
        BY NoLocalTyped DEF Local, Flows
    <2>2. RequestKnows("issue", [NoLocal EXCEPT !.flow = "issue", !.kind = k])
        BY DEF NoLocal, RequestKnows, LoginKnows, ContactKnows, OwnerKnown
    <2> QED  BY <1>3, <2>1, <2>2, BeginInv DEF Points
<1> QED  BY <1>1, <1>2, <1>3 DEF CreateInvite

\* A request that makes the account of contact id i goes on with it.
LEMMA StubInv ==
    ASSUME Inv, NEW p \in Procs, NEW l \in Local, l.email \in Ids, NEW a \in Fresh,
           NEW point \in {"issue", "row"}, account' = [account EXCEPT ![a] = Stub(l.email)],
           Goto(p, point, [l EXCEPT !.account = a]),
           UNCHANGED <<identity, invite, row>>, begun' \in Nat, calm' \in BOOLEAN
    PROVE  Inv'
<1>1. a \in Accounts /\ Stub(l.email) \in Account /\ Stub(l.email).contact = l.email
    BY NewTyped DEF Fresh, Stub
<1>2. [l EXCEPT !.account = a] \in Local
    BY <1>1 DEF Local
<1>3. PICK m \in Local : m = [l EXCEPT !.account = a]
    BY <1>2
<1>4. m.account = a /\ m.email = l.email
    BY <1>3 DEF Local
<1>5. account'[a] = Stub(l.email) /\ account'[a] # None
    BY <1>1, NullsOK DEF Inv, TypeOK
<1>6. RequestKnows(point, m)'
    BY <1>1, <1>4, <1>5 DEF RequestKnows, LoginKnows, ContactKnows, OwnerKnown, Fresh, Bearers
<1>7. Goto(p, point, m) /\ point \in Points
    BY <1>3 DEF Points
<1>8. PICK x \in Account : account' = [account EXCEPT ![a] = x]
    BY <1>1
<1> QED  BY <1>6, <1>7, <1>8, NewAccountInv

LEMMA ProvisionInv == ASSUME Inv, NEW p \in Procs, Provision(p) PROVE Inv'
<1>1. PICK l \in Local : l = loc[p]
    BY Here
<1>2. l.email \in Ids
    BY <1>1, Here DEF Provision, At, RequestKnows, ContactKnows
<1>3. UNCHANGED <<identity, invite, row>> /\ begun' \in Nat /\ calm' \in BOOLEAN
    BY DEF Provision, Inv, TypeOK
<1>4. CASE Finish(p) /\ UNCHANGED account
    BY <1>3, <1>4, FinishInv
<1>5. ASSUME NEW a \in Fresh, account' = [account EXCEPT ![a] = Stub(l.email)],
             Goto(p, "issue", [l EXCEPT !.account = a])
      PROVE  Inv'
    BY <1>2, <1>3, <1>5, StubInv
<1> QED  BY <1>1, <1>4, <1>5 DEF Provision

LEMMA IssueInv == ASSUME Inv, NEW p \in Procs, Issue(p) PROVE Inv'
<1>1. PICK l \in Local : l = loc[p]
    BY Here
<1>2. l.account # None => l.account \in Accounts \ Fresh
    BY <1>1, Here DEF Issue, At, RequestKnows, ContactKnows
<1>3. PICK x \in Invite :
          x = [kind |-> l.kind, target |-> l.account, used |-> FALSE, expired |-> FALSE]
    BY DEF Local, Invite
<1>4. PICK i \in Invites \ Issued : invite' = [invite EXCEPT ![i] = x]
    BY <1>1, <1>3 DEF Issue
<1>5. /\ Finish(p) /\ UNCHANGED <<account, identity, row>>
      /\ begun' \in Nat /\ calm' \in BOOLEAN
    BY DEF Issue, Inv, TypeOK
<1>6. invite'[i] = x /\ x.target = l.account /\ \A j \in Invites \ {i} : invite'[j] = invite[j]
    BY <1>3, <1>4 DEF Inv, TypeOK
<1>7. AccountsStay /\ IdentitiesStay /\ InvitesStay
    BY <1>4, <1>5, <1>6 DEF AccountsStay, IdentitiesStay, InvitesStay, Fresh, Issued
<1>8. TablesTyped' /\ RowsNameBearer'
    BY <1>4, <1>5 DEF Inv, TypeOK, TablesTyped, RowsNameBearer
<1>9. \A j \in Issued' : j \in Issued \/ j = i
    BY <1>6 DEF Issued
<1>10. TablesOK'
    <2>1. invite'[i].target = None \/ account'[invite'[i].target] # None
        BY <1>2, <1>5, <1>6 DEF Fresh
    <2> QED  BY <1>5, <1>7, <1>9, <2>1, TablesOn
<1>11. RequestKnows("idle", NoLocal)'
    BY DEF RequestKnows, LoginKnows, ContactKnows, OwnerKnown
<1> QED  BY <1>5, <1>7, <1>8, <1>10, <1>11, NoLocalTyped, StepInv DEF Finish, Points

LEMMA AcceptInviteInv == ASSUME Inv, NEW p \in Procs, AcceptInvite(p) PROVE Inv'
<1>1. PICK i \in Issued, a \in Accounts \ Fresh :
          Begin(p, "use", [NoLocal EXCEPT !.flow = "accept", !.inv = i, !.account = a])
    BY DEF AcceptInvite
<1>2. [NoLocal EXCEPT !.flow = "accept", !.inv = i, !.account = a] \in Local
    BY NoLocalTyped DEF Local, Flows, Issued
<1>3. RequestKnows("use", [NoLocal EXCEPT !.flow = "accept", !.inv = i, !.account = a])
    BY DEF NoLocal, RequestKnows, LoginKnows, ContactKnows, OwnerKnown
<1> QED  BY <1>1, <1>2, <1>3, BeginInv DEF Points

LEMMA ExpireInv == ASSUME Inv, Expire PROVE Inv'
<1>1. PICK i \in Issued : invite' = [invite EXCEPT ![i].expired = TRUE]
    BY DEF Expire
<1>2. invite[i] \in Invite /\ i \in Invites
    BY DEF Inv, TypeOK, Issued
<1>3. PICK x \in Invite : /\ x = [invite[i] EXCEPT !.expired = TRUE]
                          /\ x.target = invite[i].target
    BY <1>2, UsedTyped
<1>4. invite' = [invite EXCEPT ![i] = x]
    BY <1>1, <1>3
<1>5. UNCHANGED <<account, identity, row, pc, loc, calm, begun>>
    BY DEF Expire
<1>6. InvitesStay /\ Issued' = Issued
    BY <1>2, <1>3, <1>4, NullsOK DEF InvitesStay, Issued, Inv, TypeOK
<1>7. AccountsStay /\ IdentitiesStay
    BY <1>5 DEF AccountsStay, IdentitiesStay, Fresh
<1>8. TablesTyped' /\ RowsNameBearer'
    BY <1>4, <1>5 DEF Inv, TypeOK, TablesTyped, RowsNameBearer
<1>9. TablesOK'
    BY <1>5, <1>6 DEF TablesOK, Inv, InvitesStay
<1> QED  BY <1>5, <1>6, <1>7, <1>8, <1>9, StillInv

-----------------------------------------------------------------------------
(* Contacts *)

LEMMA AddContactInv == ASSUME Inv, NEW p \in Procs, AddContact(p) PROVE Inv'
<1>1. PICK i \in Ids : Begin(p, "upsert", [NoLocal EXCEPT !.flow = "contact", !.email = i])
    BY DEF AddContact
<1>2. [NoLocal EXCEPT !.flow = "contact", !.email = i] \in Local
    BY NoLocalTyped DEF Local, Flows
<1>3. RequestKnows("upsert", [NoLocal EXCEPT !.flow = "contact", !.email = i])
    BY DEF NoLocal, RequestKnows, LoginKnows, ContactKnows, OwnerKnown
<1> QED  BY <1>1, <1>2, <1>3, BeginInv DEF Points

LEMMA UpsertInv == ASSUME Inv, NEW p \in Procs, Upsert(p) PROVE Inv'
<1>1. PICK l \in Local : l = loc[p]
    BY Here
<1>2. l.email \in Ids
    BY <1>1, Here DEF Upsert, At, RequestKnows, ContactKnows
<1>3. UNCHANGED <<identity, invite, row>> /\ begun' \in Nat /\ calm' \in BOOLEAN
    BY <1>1 DEF Upsert, Lost, Inv, TypeOK
<1>4. ASSUME NEW a \in Bearers(l.email), UNCHANGED account, Goto(p, "row", [l EXCEPT !.account = a])
      PROVE  Inv'
    <2>1. a \in Accounts
        BY DEF Bearers
    <2>2. [l EXCEPT !.account = a] \in Local
        BY <2>1 DEF Local
    <2>3. PICK m \in Local : m = [l EXCEPT !.account = a]
        BY <2>2
    <2>4. m.account = a /\ m.email = l.email
        BY <2>3 DEF Local
    <2>5. RequestKnows("row", m)
        BY <1>2, <2>4 DEF RequestKnows, LoginKnows, ContactKnows, OwnerKnown
    <2>6. Goto(p, "row", m)
        BY <1>4, <2>3
    <2> QED  BY <1>3, <1>4, <2>5, <2>6, GotoInv DEF Points
<1>5. ASSUME NEW a \in Fresh, account' = [account EXCEPT ![a] = Stub(l.email)],
             Goto(p, "row", [l EXCEPT !.account = a])
      PROVE  Inv'
    BY <1>2, <1>3, <1>5, StubInv
<1>6. CASE UNCHANGED account /\ Goto(p, "row", l)
    <2>1. l.account = None
        BY <1>1, Here DEF Upsert, At, RequestKnows, ContactKnows
    <2>2. RequestKnows("row", l)
        BY <1>2, <2>1 DEF RequestKnows, LoginKnows, ContactKnows, OwnerKnown
    <2> QED  BY <1>3, <1>6, <2>2, GotoInv DEF Points
<1> QED  BY <1>1, <1>4, <1>5, <1>6 DEF Upsert, Lost

\* A step that adds contact rows, each without an account or with the one that bears its id.
LEMMA MoreRows ==
    ASSUME Inv, NEW p \in Procs, Finish(p), UNCHANGED <<account, identity, invite, calm, begun>>,
           row' \subseteq ContactRow,
           \A r \in row' : r \in row \/ r[2] = None \/ r[2] \in Bearers(r[1])
    PROVE  Inv'
<1>1. AccountsStay /\ IdentitiesStay /\ InvitesStay
    BY DEF AccountsStay, IdentitiesStay, InvitesStay, Fresh, Issued
<1>2. TablesTyped' /\ TablesOK'
    BY DEF Inv, TypeOK, TablesTyped, TablesOK, Issued
<1>3. RowsNameBearer'
    BY <1>1, RowsOn DEF Bearers
<1>4. RequestKnows("idle", NoLocal)'
    BY DEF RequestKnows, LoginKnows, ContactKnows, OwnerKnown
<1> QED  BY <1>1, <1>2, <1>3, <1>4, NoLocalTyped, StepInv DEF Finish, Points

LEMMA InsertRowInv == ASSUME Inv, NEW p \in Procs, InsertRow(p) PROVE Inv'
<1>1. PICK l \in Local : l = loc[p]
    BY Here
<1>2. l.email \in Ids /\ (l.account # None => l.account \in Bearers(l.email))
    BY <1>1, Here DEF InsertRow, At, RequestKnows, ContactKnows
<1>3. row' = row \cup {<<l.email, l.account>>}
    BY <1>1 DEF InsertRow
<1>4. <<l.email, l.account>> \in ContactRow
    BY <1>2 DEF ContactRow, Local
<1>5. row' \subseteq ContactRow
    BY <1>3, <1>4 DEF Inv, TypeOK
<1>6. \A r \in row' : r \in row \/ r[2] = None \/ r[2] \in Bearers(r[1])
    BY <1>2, <1>3
<1> QED  BY <1>5, <1>6, MoreRows DEF InsertRow

LEMMA BackfillInv == ASSUME Inv, NEW p \in Procs, Backfill(p) PROVE Inv'
<1>1. Begin(p, "vivify", [NoLocal EXCEPT !.flow = "backfill"])
    BY DEF Backfill
<1>2. [NoLocal EXCEPT !.flow = "backfill"] \in Local
    BY NoLocalTyped DEF Local, Flows
<1>3. RequestKnows("vivify", [NoLocal EXCEPT !.flow = "backfill"])
    BY DEF NoLocal, RequestKnows, LoginKnows, ContactKnows, OwnerKnown
<1> QED  BY <1>1, <1>2, <1>3, BeginInv DEF Points

LEMMA VivifyInv == ASSUME Inv, NEW p \in Procs, Vivify(p) PROVE Inv'
<1>1. PICK stub \in [Fresh -> Unknown \cup {None}] :
          account' = [a \in Accounts |-> IF a \in Fresh /\ stub[a] # None THEN Stub(stub[a])
                                                                        ELSE account[a]]
    BY DEF Vivify
<1>2. Goto(p, "relink", loc[p]) /\ UNCHANGED <<identity, invite, row, calm, begun>>
    BY DEF Vivify
<1>3. \A a \in Accounts \ Fresh : account'[a] = account[a]
    BY <1>1
<1>4. AccountsStay
    BY <1>3 DEF AccountsStay, Fresh
<1>5. IdentitiesStay /\ InvitesStay
    BY <1>2 DEF IdentitiesStay, InvitesStay, Issued
<1>6. account' \in [Accounts -> Account \cup {None}]
    <2>1. \A a \in Fresh : stub[a] # None => Stub(stub[a]) \in Account
        BY NewTyped DEF Unknown
    <2> QED  BY <1>1, <2>1 DEF Inv, TypeOK
<1>7. TablesTyped'
    BY <1>2, <1>6 DEF Inv, TypeOK, TablesTyped
<1>8. TablesOK'
    BY <1>2, <1>4, <1>5, TablesOn DEF Issued
<1>9. RowsNameBearer'
    <2>1. \A r \in row' : r \in row
        BY <1>2
    <2> QED  BY <1>4, <2>1, RowsOn
<1>10. PICK l \in Local : l = loc[p]
    BY Here
<1>11. RequestKnows("relink", l)'
    BY DEF RequestKnows, LoginKnows, ContactKnows, OwnerKnown
<1> QED  BY <1>2, <1>4, <1>5, <1>7, <1>8, <1>9, <1>10, <1>11, StepInv DEF Points

LEMMA RelinkInv == ASSUME Inv, NEW p \in Procs, Relink(p) PROVE Inv'
<1>1. row' = UNION {IF Linked(r) = {} THEN {r} ELSE Linked(r) : r \in row}
    BY DEF Relink
<1>2. ASSUME NEW n \in row'
      PROVE  n \in ContactRow /\ (n \in row \/ n[2] \in Bearers(n[1]))
    <2>1. PICK r \in row : n = r \/ n \in Linked(r)
        BY <1>1
    <2>2. r \in ContactRow
        BY DEF Inv, TypeOK
    <2>3. CASE n = r
        BY <2>2, <2>3
    <2>4. CASE n # r
        <3>1. PICK a \in Bearers(r[1]) : n = <<r[1], a>>
            BY <2>1, <2>4 DEF Linked
        <3>2. a \in Accounts /\ r[1] \in Ids
            BY <2>2 DEF Bearers, ContactRow
        <3> QED  BY <3>1, <3>2 DEF ContactRow
    <2> QED  BY <2>3, <2>4
<1> QED  BY <1>2, MoreRows DEF Relink

-----------------------------------------------------------------------------
(* Everything else *)

LEMMA SetUsernameInv == ASSUME Inv, SetUsername PROVE Inv'
<1>1. PICK a \in Accounts \ Fresh, n \in 1..MaxName : account' = [account EXCEPT ![a].username = n]
    BY DEF SetUsername
<1>2. account[a] \in Account /\ a \in Accounts
    BY DEF Inv, TypeOK, Fresh
<1>3. n \in 0..MaxName
    BY ConstantsOK
<1>4. PICK x \in Account : x = [account[a] EXCEPT !.username = n] /\ x.contact = account[a].contact
    BY <1>2, <1>3, ContactKept
<1>5. account' = [account EXCEPT ![a] = x]
    BY <1>1, <1>4
<1>6. UNCHANGED <<identity, invite, row, pc, loc, begun>> /\ begun' \in Nat
    BY DEF SetUsername, Inv, TypeOK
<1>7. calm' \in BOOLEAN
    BY Zenon DEF SetUsername
<1> QED  BY <1>2, <1>4, <1>5, <1>6, <1>7, OneAccount, StillInv

LEMMA StopInv == ASSUME Inv, NEW p \in Procs, Stop(p) PROVE Inv'
<1>1. /\ Finish(p) /\ UNCHANGED <<account, identity, invite, row>>
      /\ begun' \in Nat /\ calm' \in BOOLEAN
    BY DEF Stop, Inv, TypeOK
<1> QED  BY <1>1, FinishInv

LEMMA NextInv == Inv /\ [Next]_vars => Inv'
<1> SUFFICES ASSUME Inv, [Next]_vars PROVE Inv'
    OBVIOUS
<1>1. CASE UNCHANGED vars
    <2>1. UNCHANGED <<pc, loc>> /\ AccountsStay /\ IdentitiesStay /\ InvitesStay
        BY <1>1 DEF vars, AccountsStay, IdentitiesStay, InvitesStay, Fresh, Issued
    <2>2. TablesTyped' /\ TablesOK' /\ RowsNameBearer'
        BY <1>1 DEF vars, Inv, TypeOK, TablesTyped, TablesOK, RowsNameBearer, Issued
    <2> QED  BY <2>1, <2>2, StillInv
<1>2. ASSUME NEW p \in Procs, Arrive(p) PROVE Inv'
    BY <1>2, OIDCCallbackInv, DevLoginInv, CreateInviteInv, AcceptInviteInv, AddContactInv, BackfillInv
       DEF Arrive
<1>3. ASSUME NEW p \in Procs, Recall(p) PROVE Inv'
    BY <1>3, FindIdentityInv, GetInviteInv, ByCILogonInv, ByEmailInv DEF Recall
<1>4. ASSUME NEW p \in Procs, Join(p) PROVE Inv'
    BY <1>4, CreateUserInv, LinkIdentityInv, MintInv, MarkInviteUsedInv DEF Join
<1>5. ASSUME NEW p \in Procs, LoginUser(p) PROVE Inv'
    BY <1>5, StampInv, ReadNameInv, SetNameInv, SignInInv DEF LoginUser
<1>6. ASSUME NEW p \in Procs, Invitation(p) \/ Contact(p) \/ Stop(p) PROVE Inv'
    BY <1>6, ProvisionInv, IssueInv, UpsertInv, InsertRowInv, VivifyInv, RelinkInv, StopInv
       DEF Invitation, Contact
<1> QED  BY <1>1, <1>2, <1>3, <1>4, <1>5, <1>6, ExpireInv, SetUsernameInv DEF Next

-----------------------------------------------------------------------------
(* Theorems *)

\* Types, foreign keys, what each request knows at its statement, and the contact rows, in every
\* reachable state, whatever overlaps, fails or is cut off.
THEOREM Invariance == Spec => []Inv
    BY InitInv, NextInv, PTL DEF Spec

\* Every reachable state is well typed.
THEOREM IdentityTyped == Spec => []TypeOK
<1>1. Inv => TypeOK
    BY DEF Inv
<1> QED  BY <1>1, Invariance, PTL

\* A login through the provider opens the account that owns the identity (OIDCCallback,
\* linkIdentity).
THEOREM LoginsAreOwners == Spec => []LoginIsOwners
<1>1. Inv => LoginIsOwners
    BY DEF Inv, RequestOK, RequestKnows, OwnerKnown, Owned, LoginIsOwners
<1> QED  BY <1>1, Invariance, PTL

\* A contact row is linked to the account that bears its contact id
\* (UpsertProvisionedContactUser, the backfill, SetLegacyContactIDIfMissing).
THEOREM RowsAlwaysNameBearer == Spec => []RowsNameBearer
<1>1. Inv => RowsNameBearer
    BY DEF Inv
<1> QED  BY <1>1, Invariance, PTL

-----------------------------------------------------------------------------
(* While nothing overlaps, fails or is cut off *)

\* One request at a time.
Alone == calm => \A p, q \in Procs : pc[p] # "idle" /\ pc[q] # "idle" => p = q

\* A contact id belongs to one account, whatever overlaps.
OneBearer == \A i \in Ids : \A a, b \in Bearers(i) : a = b

\* What the tables still hold of what a login read before: the link invite is unused, the
\* e-mail it did not find is nobody's, the one it found is the account's, the account it
\* names has no name.
CalmKnows(point, l) ==
    /\ point = "attach" /\ l.how = "invite" => ~invite[l.inv].used
    /\ point = "create" /\ ~l.own /\ l.email # None => Bearers(l.email) = {}
    /\ point = "attach" /\ l.how = "new" /\ l.email # None =>
           Bearers(l.email) = {} /\ account[l.account].contact = None
    /\ point = "attach" /\ l.how = "email" => l.account \in Bearers(l.email)
    /\ point = "setName" => account[l.account].username = 0

\* An invite that attached an identity is used, or the login that attached it is about to
\* use it.
UsingUp(p, i) == pc[p] \in {"mint", "use"} /\ loc[p].how = "invite" /\ loc[p].inv = i

InviteSpent ==
    \A s \in Subjects : identity[s] # None /\ identity[s].via # None =>
        /\ identity[s].via \in Issued
        /\ \/ invite[identity[s].via].used
           \/ \E p \in Procs : UsingUp(p, identity[s].via)

ViaOnce ==
    \A s, t \in Subjects :
        identity[s] # None /\ identity[t] # None /\ identity[s].via # None
            /\ identity[s].via = identity[t].via => s = t

\* The account of a person who is known by e-mail bears that e-mail, or the login that opened
\* it is about to write it there.
Minting(p, s) ==
    /\ pc[p] = "mint"
    /\ loc[p].email = identity[s].email /\ loc[p].account = identity[s].account
    /\ Bearers(identity[s].email) = {} /\ account[identity[s].account].contact = None

PersonKnown ==
    \A s \in Subjects :
        identity[s] # None /\ identity[s].email # None /\ identity[s].how \in {"email", "new"} =>
            \/ Bearers(identity[s].email) = {identity[s].account}
            \/ \E p \in Procs : Minting(p, s)

CalmState == /\ \A p \in Procs : CalmKnows(pc[p], loc[p])
             /\ InviteSpent /\ ViaOnce /\ PersonKnown

CalmInv == Alone /\ OneBearer /\ (calm => CalmState)

-----------------------------------------------------------------------------
(* What one step may do, by what can be seen of it *)

Moves(p) == Arrive(p) \/ Recall(p) \/ Join(p) \/ LoginUser(p) \/ Invitation(p) \/ Contact(p)

\* A request starts, or goes on from where it is.
LEMMA MovesGo ==
    ASSUME NEW p \in Procs, Moves(p)
    PROVE  \/ \E point, l : Begin(p, point, l)
           \/ pc[p] # "idle" /\ (\E point, l : Goto(p, point, l)) /\ (calm' => calm)
<1>1. CASE Arrive(p)
    BY <1>1 DEF Arrive, OIDCCallback, DevLogin, CreateInvite, AcceptInvite, AddContact, Backfill
<1>2. CASE FindIdentity(p) \/ GetInvite(p)
    BY <1>2 DEF FindIdentity, GetInvite, At, Lost
<1>3. CASE ByCILogon(p) \/ ByEmail(p)
    BY <1>3 DEF ByCILogon, ByEmail, Recognize, Overlook, Unrecognized, Finish, At
<1>4. CASE CreateUser(p) \/ LinkIdentity(p)
    BY <1>4 DEF CreateUser, LinkIdentity, LinkRefused, Finish, At
<1>5. CASE Mint(p) \/ MarkInviteUsed(p)
    BY <1>5 DEF Mint, MarkInviteUsed, Lost, Finish, At
<1>6. CASE LoginUser(p)
    BY <1>6 DEF LoginUser, Stamp, ReadName, SetName, SignIn, Lost, Finish, At
<1>7. CASE Invitation(p)
    BY <1>7 DEF Invitation, Provision, Issue, Finish, At
<1>8. CASE Contact(p)
    BY <1>8 DEF Contact, Upsert, InsertRow, Vivify, Relink, Lost, Finish, At
<1> QED  BY <1>1, <1>2, <1>3, <1>4, <1>5, <1>6, <1>7, <1>8 DEF Moves, Recall, Join

\* A step that leaves things calm found them calm, and is either one of a request that is
\* alone or none of a request.
LEMMA CalmStep ==
    ASSUME Inv, Alone, [Next]_vars, calm'
    PROVE  /\ calm
           /\ \/ UNCHANGED vars
              \/ Expire
              \/ SetUsername /\ \A q \in Procs : pc[q] = "idle"
              \/ \E p \in Procs : Moves(p) /\ \A q \in Procs \ {p} : pc[q] = "idle" /\ pc'[q] = "idle"
<1>1. CASE UNCHANGED vars
    BY <1>1 DEF vars
<1>2. CASE Expire
    BY <1>2 DEF Expire
<1>3. CASE SetUsername
    <2>1. calm /\ \A q \in Procs : pc[q] = "idle"
        BY <1>3, Zenon DEF SetUsername
    <2> QED  BY <1>3, <2>1
<1>4. ASSUME NEW p \in Procs, Stop(p) PROVE FALSE
    BY <1>4 DEF Stop
<1>5. ASSUME NEW p \in Procs, Moves(p)
      PROVE  calm /\ \A q \in Procs \ {p} : pc[q] = "idle" /\ pc'[q] = "idle"
    <2>1. CASE \E point, l : Begin(p, point, l)
        <3>1. PICK point, l : Begin(p, point, l)
            BY <2>1
        <3>2. calm /\ \A q \in Procs : pc[q] = "idle"
            BY <3>1, Zenon DEF Begin
        <3>3. Goto(p, point, l)
            BY <3>1 DEF Begin
        <3> QED  BY <3>2, <3>3 DEF Goto, Inv, TypeOK
    <2>2. CASE pc[p] # "idle" /\ (\E point, l : Goto(p, point, l)) /\ (calm' => calm)
        <3>1. calm /\ \A q \in Procs \ {p} : pc[q] = "idle"
            BY <2>2 DEF Alone
        <3> QED  BY <2>2, <3>1 DEF Goto, Inv, TypeOK
    <2> QED  BY <1>5, <2>1, <2>2, MovesGo
<1> QED  BY <1>1, <1>2, <1>3, <1>4, <1>5 DEF Next, Moves

LEMMA AloneNext == ASSUME Inv, Alone, [Next]_vars PROVE Alone'
<1> SUFFICES ASSUME calm', NEW p \in Procs, NEW q \in Procs, pc'[p] # "idle", pc'[q] # "idle"
             PROVE  p = q
    BY DEF Alone
<1>1. CASE UNCHANGED pc
    BY <1>1, CalmStep DEF Alone
<1> QED  BY <1>1, CalmStep DEF Expire, SetUsername, vars

\* An id goes to at most one account, and never to another.
LEMMA BearersStep ==
    ASSUME Inv, [Next]_vars, NEW i \in Ids
    PROVE  \/ Bearers(i)' = Bearers(i)
           \/ Bearers(i) = {} /\ \E a \in Accounts : Bearers(i)' = {a}
<1>1. CASE account' = account
    BY <1>1 DEF Bearers
<1>2. ASSUME NEW a \in Accounts, NEW x, account' = [account EXCEPT ![a] = x], x # None,
             \/ account[a] = None /\ x.contact = None
             \/ account[a] # None /\ x.contact = account[a].contact
             \/ account[a] = None /\ Bearers(x.contact) = {}
             \/ account[a] # None /\ account[a].contact = None /\ Bearers(x.contact) = {}
      PROVE  \/ Bearers(i)' = Bearers(i)
             \/ Bearers(i) = {} /\ \E b \in Accounts : Bearers(i)' = {b}
    <2>1. account'[a] = x /\ \A b \in Accounts \ {a} : account'[b] = account[b]
        BY <1>2 DEF Inv, TypeOK
    <2>2. i # None
        BY NullsOK
    <2>3. CASE x.contact # i
        <3>1. account[a] # None => account[a].contact # i
            BY <1>2, <2>2, <2>3 DEF Bearers
        <3>2. Bearers(i)' = Bearers(i)
            BY <2>1, <2>3, <3>1 DEF Bearers
        <3> QED  BY <3>2
    <2>4. CASE x.contact = i
        <3>1. CASE account[a] # None /\ account[a].contact = i
            <4>1. Bearers(i)' = Bearers(i)
                BY <1>2, <2>1, <2>4, <3>1 DEF Bearers
            <4> QED  BY <4>1
        <3>2. CASE ~(account[a] # None /\ account[a].contact = i)
            <4>1. Bearers(i) = {}
                BY <1>2, <2>2, <2>4, <3>2
            <4>2. Bearers(i)' = {a}
                BY <1>2, <2>1, <2>4, <4>1 DEF Bearers
            <4> QED  BY <4>1, <4>2
        <3> QED  BY <3>1, <3>2
    <2> QED  BY <2>3, <2>4
<1>3. ASSUME NEW p \in Procs, CreateUser(p)
      PROVE  \E a \in Fresh : account' = [account EXCEPT ![a] = NewAccount]
    BY <1>3 DEF CreateUser
<1>4. ASSUME NEW a \in Fresh, account' = [account EXCEPT ![a] = NewAccount]
      PROVE  \/ Bearers(i)' = Bearers(i)
             \/ Bearers(i) = {} /\ \E b \in Accounts : Bearers(i)' = {b}
    <2>1. NewAccount # None /\ NewAccount.contact = None /\ a \in Accounts /\ account[a] = None
        BY NewTyped, NullsOK DEF NewAccount, Fresh
    <2> QED  BY <1>2, <1>4, <2>1
<1>5. ASSUME NEW a \in Fresh, NEW j \in Ids, Bearers(j) = {},
             account' = [account EXCEPT ![a] = Stub(j)]
      PROVE  \/ Bearers(i)' = Bearers(i)
             \/ Bearers(i) = {} /\ \E b \in Accounts : Bearers(i)' = {b}
    <2>1. Stub(j) # None /\ Stub(j).contact = j /\ a \in Accounts /\ account[a] = None
        BY NewTyped, NullsOK DEF Stub, Fresh
    <2> QED  BY <1>2, <1>5, <2>1
<1>6. ASSUME NEW p \in Procs, Mint(p)
      PROVE  \/ Bearers(i)' = Bearers(i)
             \/ Bearers(i) = {} /\ \E b \in Accounts : Bearers(i)' = {b}
    <2>1. PICK l : l = loc[p]
        OBVIOUS
    <2>2. account' = account \/ account' = Minted(l.account, l.email)
        BY <1>6, <2>1 DEF Mint
    <2>3. l.account \in Accounts /\ account[l.account] \in Account /\ account[l.account] # None
        BY <1>6, <2>1, SignedIn DEF Mint, At, Fresh
    <2>4. CASE account[l.account].contact = None /\ Bearers(l.email) = {} /\ account' # account
        <3>1. PICK x : x = [account[l.account] EXCEPT !.contact = l.email]
            OBVIOUS
        <3>2. account' = [account EXCEPT ![l.account] = x]
            BY <2>2, <2>3, <2>4, <3>1 DEF Minted, Inv, TypeOK
        <3>3. x.contact = l.email
            BY <2>3, <3>1 DEF Account
        <3>4. x # None
            <4>1. l.email \in Ids \cup {None}
                BY <2>1, Here DEF Local
            <4>2. x \in Account
                BY <2>3, <3>1, <4>1 DEF Account
            <4> QED  BY <4>2, NullsOK
        <3> QED  BY <1>2, <2>3, <2>4, <3>2, <3>3, <3>4
    <2> QED  BY <1>1, <2>2, <2>4 DEF Minted
<1>7. ASSUME NEW a \in Accounts \ Fresh, NEW x \in Account, x.contact = account[a].contact,
             account' = [account EXCEPT ![a] = x]
      PROVE  \/ Bearers(i)' = Bearers(i)
             \/ Bearers(i) = {} /\ \E b \in Accounts : Bearers(i)' = {b}
    <2>1. x # None /\ account[a] # None /\ a \in Accounts
        BY NullsOK DEF Fresh
    <2> QED  BY <1>2, <1>7, <2>1
<1>8. ASSUME NEW p \in Procs, Vivify(p)
      PROVE  \/ Bearers(i)' = Bearers(i)
             \/ Bearers(i) = {} /\ \E b \in Accounts : Bearers(i)' = {b}
    <2>1. PICK stub \in [Fresh -> Unknown \cup {None}] :
              /\ \A j \in Unknown : \E a \in Fresh : \A b \in Fresh : stub[b] = j <=> b = a
              /\ account' = [a \in Accounts |-> IF a \in Fresh /\ stub[a] # None
                                                  THEN Stub(stub[a]) ELSE account[a]]
        BY <1>8 DEF Vivify
    <2>2. \A a \in Fresh : a \in Accounts /\ account[a] = None
        BY DEF Fresh
    <2>3. i # None /\ \A j \in Ids : Stub(j).contact = j /\ Stub(j) # None
        BY NewTyped, NullsOK DEF Stub
    <2>4. \A a \in Accounts : (account'[a] # None /\ account'[a].contact = i) <=>
              \/ a \in Fresh /\ stub[a] = i
              \/ a \notin Fresh /\ account[a] # None /\ account[a].contact = i
        BY <2>1, <2>2, <2>3 DEF Unknown
    <2>5. CASE i \in Unknown
        <3>1. Bearers(i) = {}
            BY <2>5 DEF Unknown
        <3>2. PICK a \in Fresh : \A b \in Fresh : stub[b] = i <=> b = a
            BY <2>1, <2>5
        <3>3. Bearers(i)' = {a}
            BY <2>2, <2>4, <3>1, <3>2 DEF Bearers
        <3> QED  BY <2>2, <3>1, <3>3
    <2>6. CASE i \notin Unknown
        <3>1. \A a \in Fresh : stub[a] # i
            BY <2>1, <2>3, <2>6
        <3>2. Bearers(i)' = Bearers(i)
            BY <2>2, <2>4, <3>1 DEF Bearers
        <3> QED  BY <3>2
    <2> QED  BY <2>5, <2>6
<1>9. ASSUME NEW p \in Procs, Stamp(p) \/ SetName(p)
      PROVE  \/ account' = account
             \/ \E a \in Accounts \ Fresh, x \in Account :
                    x.contact = account[a].contact /\ account' = [account EXCEPT ![a] = x]
    <2>1. PICK l \in Local : l = loc[p]
        BY Here
    <2>2. l.account \in Accounts \ Fresh /\ account[l.account] \in Account /\ l.next \in 0..MaxName
        BY <1>9, <2>1, SignedIn DEF Stamp, SetName, At, Local
    <2>3. /\ [account[l.account] EXCEPT !.provisioned = FALSE] \in Account
          /\ [account[l.account] EXCEPT !.provisioned = FALSE].contact = account[l.account].contact
          /\ [account[l.account] EXCEPT !.username = l.next] \in Account
          /\ [account[l.account] EXCEPT !.username = l.next].contact = account[l.account].contact
        BY <2>2, ContactKept
    <2>4. \/ account' = account
          \/ account' = [account EXCEPT ![l.account] = [account[l.account] EXCEPT !.provisioned = FALSE]]
          \/ account' = [account EXCEPT ![l.account] = [account[l.account] EXCEPT !.username = l.next]]
        BY <1>9, <2>1, <2>2 DEF Stamp, SetName, Inv, TypeOK
    <2> QED  BY <2>2, <2>3, <2>4
<1>10. ASSUME SetUsername
       PROVE  \E a \in Accounts \ Fresh, x \in Account :
                  x.contact = account[a].contact /\ account' = [account EXCEPT ![a] = x]
    <2>1. PICK a \in Accounts \ Fresh, n \in 1..MaxName : account' = [account EXCEPT ![a].username = n]
        BY <1>10 DEF SetUsername
    <2>2. account[a] \in Account /\ n \in 0..MaxName
        BY ConstantsOK DEF Inv, TypeOK, Fresh
    <2>3. /\ [account[a] EXCEPT !.username = n] \in Account
          /\ [account[a] EXCEPT !.username = n].contact = account[a].contact
        BY <2>2, ContactKept
    <2>4. account' = [account EXCEPT ![a] = [account[a] EXCEPT !.username = n]]
        BY <2>1
    <2> QED  BY <2>3, <2>4
<1>11. ASSUME NEW p \in Procs, Provision(p) \/ Upsert(p)
       PROVE  \/ account' = account
              \/ \E a \in Fresh, j \in Ids : Bearers(j) = {} /\ account' = [account EXCEPT ![a] = Stub(j)]
    <2>1. loc[p].email \in Ids
        BY <1>11, Here DEF Provision, Upsert, At, RequestKnows, ContactKnows
    <2> QED  BY <1>11, <2>1 DEF Provision, Upsert
<1>12. ASSUME NEW p \in Procs, Arrive(p) \/ Recall(p) PROVE account' = account
    BY <1>12 DEF Arrive, OIDCCallback, DevLogin, CreateInvite, AcceptInvite, AddContact, Backfill,
       Begin, Recall, FindIdentity, GetInvite, ByCILogon, ByEmail
<1>13. ASSUME NEW p \in Procs, LinkIdentity(p) \/ MarkInviteUsed(p) \/ ReadName(p) \/ SignIn(p)
                               \/ Issue(p) \/ InsertRow(p) \/ Relink(p) \/ Stop(p)
       PROVE  account' = account
    BY <1>13 DEF LinkIdentity, MarkInviteUsed, ReadName, SignIn, Issue, InsertRow, Relink, Stop
<1>14. CASE Expire \/ UNCHANGED vars
    BY <1>1, <1>14 DEF Expire, vars
<1>15. ASSUME NEW p \in Procs, Join(p) \/ LoginUser(p)
       PROVE  \/ Bearers(i)' = Bearers(i)
              \/ Bearers(i) = {} /\ \E b \in Accounts : Bearers(i)' = {b}
    BY <1>1, <1>3, <1>4, <1>6, <1>7, <1>9, <1>13, <1>15 DEF Join, LoginUser
<1>16. ASSUME NEW p \in Procs, Invitation(p) \/ Contact(p)
       PROVE  \/ Bearers(i)' = Bearers(i)
              \/ Bearers(i) = {} /\ \E b \in Accounts : Bearers(i)' = {b}
    BY <1>1, <1>5, <1>8, <1>11, <1>13, <1>16 DEF Invitation, Contact
<1> QED  BY <1>1, <1>7, <1>10, <1>12, <1>13, <1>14, <1>15, <1>16 DEF Next

LEMMA OneBearerNext == ASSUME Inv, OneBearer, [Next]_vars PROVE OneBearer'
    BY BearersStep DEF OneBearer

\* A used invite stays used.
LEMMA UsedStays ==
    ASSUME Inv, [Next]_vars, NEW i \in Issued, invite[i].used
    PROVE  i \in Issued' /\ invite'[i].used
<1>1. CASE invite' = invite
    BY <1>1 DEF Issued
<1>2. invite[i] \in Invite /\ i \in Invites
    BY DEF Inv, TypeOK, Issued
<1>3. ASSUME NEW j \in Issued, NEW x \in Invite, invite' = [invite EXCEPT ![j] = x],
             x.used = TRUE \/ x.used = invite[j].used
      PROVE  i \in Issued' /\ invite'[i].used
    <2>1. i # j => invite'[i] = invite[i]
        BY <1>2, <1>3 DEF Inv, TypeOK
    <2>2. i = j => invite'[i] = x
        BY <1>2, <1>3 DEF Inv, TypeOK
    <2> QED  BY <1>2, <1>3, <2>1, <2>2, NullsOK DEF Issued
<1>4. ASSUME NEW p \in Procs, MarkInviteUsed(p)
      PROVE  i \in Issued' /\ invite'[i].used
    <2>1. PICK l \in Local : l = loc[p]
        BY Here
    <2>2. l.inv \in Issued
        BY <1>4, <2>1, Here DEF MarkInviteUsed, At, RequestKnows, LoginKnows
    <2>3. invite[l.inv] \in Invite
        BY <2>2 DEF Inv, TypeOK, Issued
    <2>4. PICK x \in Invite : x = [invite[l.inv] EXCEPT !.used = TRUE] /\ x.used = TRUE
        <3>1. [invite[l.inv] EXCEPT !.used = TRUE] \in Invite
            BY <2>3 DEF Invite
        <3>2. [invite[l.inv] EXCEPT !.used = TRUE].used = TRUE
            BY <2>3 DEF Invite
        <3> QED  BY <3>1, <3>2
    <2>5. invite' = [invite EXCEPT ![l.inv] = x] \/ invite' = invite
        BY <1>4, <2>1, <2>4 DEF MarkInviteUsed, Used
    <2> QED  BY <1>1, <1>3, <2>2, <2>4, <2>5
<1>5. CASE Expire
    <2>1. PICK j \in Issued : invite' = [invite EXCEPT ![j].expired = TRUE]
        BY <1>5 DEF Expire
    <2>2. invite[j] \in Invite
        BY DEF Inv, TypeOK, Issued
    <2>3. PICK x \in Invite : x = [invite[j] EXCEPT !.expired = TRUE] /\ x.used = invite[j].used
        <3>1. [invite[j] EXCEPT !.expired = TRUE] \in Invite
            BY <2>2 DEF Invite
        <3>2. [invite[j] EXCEPT !.expired = TRUE].used = invite[j].used
            BY <2>2 DEF Invite
        <3> QED  BY <3>1, <3>2
    <2>4. invite' = [invite EXCEPT ![j] = x]
        BY <2>1, <2>3
    <2> QED  BY <1>3, <2>3, <2>4
<1>6. ASSUME NEW p \in Procs, Issue(p)
      PROVE  i \in Issued' /\ invite'[i].used
    <2>1. PICK j \in Invites \ Issued : \E x : invite' = [invite EXCEPT ![j] = x]
        BY <1>6 DEF Issue
    <2>2. invite'[i] = invite[i]
        BY <1>2, <2>1 DEF Inv, TypeOK
    <2> QED  BY <1>2, <2>2 DEF Issued
<1>7. ASSUME NEW p \in Procs, Arrive(p) \/ Recall(p) PROVE invite' = invite
    BY <1>7 DEF Arrive, OIDCCallback, DevLogin, CreateInvite, AcceptInvite, AddContact, Backfill,
       Begin, Recall, FindIdentity, GetInvite, ByCILogon, ByEmail
<1>8. ASSUME NEW p \in Procs, CreateUser(p) \/ LinkIdentity(p) \/ Mint(p) \/ LoginUser(p)
      PROVE  invite' = invite
    BY <1>8 DEF CreateUser, LinkIdentity, Mint, LoginUser, Stamp, ReadName, SetName, SignIn
<1>9. ASSUME NEW p \in Procs, Provision(p) \/ Contact(p) \/ Stop(p)
      PROVE  invite' = invite
    BY <1>9 DEF Provision, Contact, Upsert, InsertRow, Vivify, Relink, Stop
<1>10. CASE SetUsername \/ UNCHANGED vars
    BY <1>1, <1>10 DEF SetUsername, vars
<1> QED  BY <1>1, <1>4, <1>5, <1>6, <1>7, <1>8, <1>9, <1>10 DEF Next, Join, Invitation

\* What a step at a given statement is; who links identities.
LEMMA WhichStep ==
    ASSUME NEW p \in Procs, Moves(p)
    PROVE  /\ pc[p] = "mint" => Mint(p)
           /\ pc[p] = "use" => MarkInviteUsed(p)
           /\ LinkIdentity(p) \/ identity' = identity
<1>1. CASE Arrive(p)
    BY <1>1 DEF Arrive, OIDCCallback, DevLogin, CreateInvite, AcceptInvite, AddContact, Backfill, Begin
<1>2. CASE Recall(p)
    BY <1>2 DEF Recall, FindIdentity, GetInvite, ByCILogon, ByEmail, At
<1>3. CASE Join(p)
    BY <1>3 DEF Join, CreateUser, LinkIdentity, Mint, MarkInviteUsed, At
<1>4. CASE LoginUser(p)
    BY <1>4 DEF LoginUser, Stamp, ReadName, SetName, SignIn, At
<1>5. CASE Invitation(p)
    BY <1>5 DEF Invitation, Provision, Issue, At
<1>6. CASE Contact(p)
    BY <1>6 DEF Contact, Upsert, InsertRow, Vivify, Relink, At
<1> QED  BY <1>1, <1>2, <1>3, <1>4, <1>5, <1>6 DEF Moves

\* How a login gets to the statements that rely on what was read before.
LEMMA HowItGotHere ==
    ASSUME Inv, NEW p \in Procs, Moves(p), calm'
    PROVE  /\ pc'[p] = "attach" => GetInvite(p) \/ ByCILogon(p) \/ ByEmail(p) \/ CreateUser(p)
           /\ pc'[p] = "create" => FindIdentity(p) \/ ByEmail(p) \/ LinkIdentity(p)
           /\ pc'[p] = "setName" => ReadName(p) \/ SetName(p)
<1>1. \A point, l : Goto(p, point, l) => pc'[p] = point
    BY DEF Goto, Inv, TypeOK
<1>2. CASE Arrive(p)
    BY <1>1, <1>2 DEF Arrive, OIDCCallback, DevLogin, CreateInvite, AcceptInvite, AddContact, Backfill, Begin
<1>3. CASE FindIdentity(p)
    BY <1>1, <1>3 DEF FindIdentity, Onboard, Lost
<1>4. CASE GetInvite(p)
    BY <1>1, <1>4 DEF GetInvite, Lost
<1>5. CASE ByCILogon(p)
    BY <1>1, <1>5 DEF ByCILogon, Recognize
<1>6. CASE ByEmail(p)
    BY <1>1, <1>6 DEF ByEmail, Recognize, Unrecognized, Finish
<1>7. CASE CreateUser(p)
    BY <1>1, <1>7 DEF CreateUser
<1>8. CASE LinkIdentity(p)
    BY <1>1, <1>8 DEF LinkIdentity, LinkRefused, Attached, Finish
<1>9. CASE Mint(p) \/ MarkInviteUsed(p)
    BY <1>1, <1>9 DEF Mint, MarkInviteUsed, Attached, Lost, Finish
<1>10. CASE LoginUser(p)
    BY <1>1, <1>10 DEF LoginUser, Stamp, ReadName, SetName, SignIn, Lost, Finish
<1>11. CASE Invitation(p)
    BY <1>1, <1>11 DEF Invitation, Provision, Issue, Finish
<1>12. CASE Contact(p)
    BY <1>1, <1>12 DEF Contact, Upsert, InsertRow, Vivify, Relink, Lost, Finish
<1> QED  BY <1>2, <1>3, <1>4, <1>5, <1>6, <1>7, <1>8, <1>9, <1>10, <1>11, <1>12 DEF Moves, Recall, Join

-----------------------------------------------------------------------------
(* What was read still holds *)

\* So it does for the request that moves.
LEMMA CalmKnowsNext ==
    ASSUME Inv, CalmState, NEW p \in Procs, Moves(p), calm'
    PROVE  CalmKnows(pc[p], loc[p])'
<1>1. \A point, l : Goto(p, point, l) => pc'[p] = point /\ loc'[p] = l
    BY DEF Goto, Inv, TypeOK
<1>0. \A point, m : ~Lost(p, point, m)
    BY Zenon DEF Lost
<1>2. PICK l \in Local : l = loc[p]
    BY Here
<1>3. CalmKnows(pc[p], l) /\ RequestKnows(pc[p], l)
    BY <1>2, Here DEF CalmState
<1>4. CASE pc'[p] = "attach"
    <2>1. CASE GetInvite(p)
        <3>1. l.link \in Issued
            BY <1>2, <1>3, <2>1 DEF GetInvite, At, RequestKnows, LoginKnows
        <3>2. invite[l.link] \in Invite /\ l.link \in Invites
            BY <3>1 DEF Inv, TypeOK, Issued
        <3>3. PICK k \in Kinds : k = invite[l.link].kind
            BY <3>2 DEF Invite
        <3>6. /\ Attaches(loc[p].link) /\ invite' = invite
              /\ Goto(p, "attach", [loc[p] EXCEPT !.inv = loc[p].link, !.kind = invite[loc[p].link].kind,
                                       !.account = invite[loc[p].link].target, !.how = "invite"])
            <4>1. \A m : ~Goto(p, "byCILogon", m)
                BY <1>1, <1>4
            <4>2. ~Lost(p, "byCILogon", loc[p])
                BY <1>0
            <4> QED  BY <4>1, <4>2, <2>1 DEF GetInvite
        <3>4. /\ Attaches(l.link) /\ invite' = invite
              /\ loc'[p] = [l EXCEPT !.inv = l.link, !.kind = k, !.account = invite[l.link].target,
                                     !.how = "invite"]
            BY <1>1, <1>2, <3>3, <3>6
        <3>5. loc'[p].inv = l.link /\ loc'[p].how = "invite"
            BY <3>4 DEF Local
        <3> QED  BY <1>4, <3>4, <3>5 DEF CalmKnows, Attaches, Usable
    <2>2. CASE ByCILogon(p)
        <3>1. PICK a : Goto(p, "attach", [loc[p] EXCEPT !.account = a, !.how = "cilogon"])
            <4>1. ~Goto(p, "byEmail", loc[p])
                BY <1>1, <1>4
            <4> QED  BY <4>1, <2>2 DEF ByCILogon, Recognize
        <3>2. loc'[p] = [l EXCEPT !.account = a, !.how = "cilogon"]
            BY <1>1, <1>2, <3>1
        <3>3. loc'[p].how = "cilogon"
            BY <3>2 DEF Local
        <3> QED  BY <1>4, <3>3 DEF CalmKnows
    <2>3. CASE ByEmail(p)
        <3>1. PICK a \in Bearers(loc[p].email) :
                  Goto(p, "attach", [loc[p] EXCEPT !.account = a, !.how = "email"])
            <4>1. ~Unrecognized(p, loc[p])
                BY <1>1, <1>4 DEF Unrecognized, Finish
            <4> QED  BY <2>3, <4>1 DEF ByEmail, Recognize
        <3>2. loc'[p] = [l EXCEPT !.account = a, !.how = "email"]
            BY <1>1, <1>2, <3>1
        <3>3. loc'[p].how = "email" /\ loc'[p].account = a /\ loc'[p].email = l.email
            BY <3>2 DEF Local
        <3>4. account' = account
            BY <2>3 DEF ByEmail
        <3> QED  BY <1>2, <1>4, <3>1, <3>3, <3>4 DEF CalmKnows, Bearers
    <2>4. CASE CreateUser(p)
        <3>0. PICK a \in Fresh :
                  /\ account' = [account EXCEPT ![a] = NewAccount]
                  /\ Goto(p, "attach", [loc[p] EXCEPT !.account = a,
                                                      !.how = IF loc[p].own THEN "dev" ELSE "new"])
            BY <2>4 DEF CreateUser
        <3>1. loc'[p] = [l EXCEPT !.account = a, !.how = IF l.own THEN "dev" ELSE "new"]
            BY <1>1, <1>2, <3>0
        <3>2. /\ loc'[p].account = a /\ loc'[p].email = l.email
              /\ loc'[p].how = IF l.own THEN "dev" ELSE "new"
            BY <3>1 DEF Local
        <3>3. CASE l.own
            BY <1>4, <3>2, <3>3 DEF CalmKnows
        <3>4. CASE ~l.own
            <4>1. l.email # None => Bearers(l.email) = {}
                BY <1>2, <1>3, <2>4, <3>4 DEF CreateUser, At, CalmKnows
            <4>2. a \in Accounts /\ account'[a] = NewAccount /\ NewAccount.contact = None
                BY <3>0 DEF Fresh, Inv, TypeOK, NewAccount
            <4>3. l.email # None => Bearers(l.email)' = {}
                BY <3>0, <4>1, <4>2 DEF Bearers, Inv, TypeOK
            <4> QED  BY <1>4, <3>2, <3>4, <4>2, <4>3 DEF CalmKnows
        <3> QED  BY <3>3, <3>4
    <2> QED  BY <1>4, <2>1, <2>2, <2>3, <2>4, HowItGotHere
<1>5. CASE pc'[p] = "create"
    <2>1. CASE FindIdentity(p)
        <3>0. Goto(p, Onboard(loc[p]), [loc[p] EXCEPT !.own = loc[p].link = None /\ loc[p].flow = "dev"])
            <4>1. \A m : ~Goto(p, "mint", m) /\ ~Goto(p, "stamp", m)
                BY <1>1, <1>5
            <4>2. \A m : ~Lost(p, Onboard(loc[p]), m)
                BY <1>0
            <4> QED  BY <4>1, <4>2, <2>1 DEF FindIdentity
        <3>1. loc'[p] = [l EXCEPT !.own = l.link = None /\ l.flow = "dev"] /\ Onboard(l) = "create"
            BY <1>1, <1>2, <1>5, <3>0
        <3>2. l.link = None /\ l.flow = "dev"
            BY <3>1 DEF Onboard
        <3>3. loc'[p].own
            BY <3>1, <3>2 DEF Local
        <3> QED  BY <1>5, <3>3 DEF CalmKnows
    <2>2. CASE ByEmail(p)
        <3>1. (l.email = None \/ Bearers(l.email) = {}) /\ account' = account
            BY <1>1, <1>2, <1>5, <2>2 DEF ByEmail, Recognize, Overlook
        <3>2. loc'[p] = l \/ loc'[p] = [l EXCEPT !.own = TRUE]
            <4>1. Unrecognized(p, loc[p])
                BY <1>1, <1>5, <2>2 DEF ByEmail, Recognize
            <4>2. Goto(p, "create", l) \/ Goto(p, "create", [l EXCEPT !.own = TRUE])
                BY <1>1, <1>2, <1>5, <4>1 DEF Unrecognized, Finish
            <4> QED  BY <1>1, <4>2
        <3>3. loc'[p].email = l.email
            BY <3>2 DEF Local
        <3> QED  BY <1>5, <3>1, <3>3 DEF CalmKnows, Bearers
    <2>3. CASE LinkIdentity(p)
        <3>1. loc'[p] = [l EXCEPT !.own = TRUE, !.inv = None]
            BY <1>1, <1>2, <1>5, <2>3 DEF LinkIdentity, LinkRefused, Attached, Finish
        <3>2. loc'[p].own
            BY <3>1 DEF Local
        <3> QED  BY <1>5, <3>2 DEF CalmKnows
    <2> QED  BY <1>5, <2>1, <2>2, <2>3, HowItGotHere
<1>6. CASE pc'[p] = "setName"
    <2>1. CASE ReadName(p)
        <3>0. /\ NeedsName(loc[p].account) /\ account' = account
              /\ Goto(p, "setName", [loc[p] EXCEPT !.next = 1])
            <4>1. ~Goto(p, "signin", loc[p])
                BY <1>1, <1>6
            <4>2. ~Lost(p, "signin", loc[p])
                BY <1>0
            <4> QED  BY <4>1, <4>2, <2>1 DEF ReadName
        <3>1. NeedsName(l.account) /\ loc'[p] = [l EXCEPT !.next = 1] /\ account' = account
            BY <1>1, <1>2, <3>0
        <3>2. loc'[p].account = l.account
            BY <3>1 DEF Local
        <3> QED  BY <1>6, <3>1, <3>2 DEF CalmKnows, NeedsName
    <2>2. CASE SetName(p)
        <3>0. account' = account /\ Goto(p, "setName", [loc[p] EXCEPT !.next = @ + 1])
            <4>1. ~Goto(p, "signin", loc[p])
                BY <1>1, <1>6
            <4>2. ~Lost(p, "signin", loc[p])
                BY <1>0
            <4> QED  BY <4>1, <4>2, <2>2 DEF SetName
        <3>1. loc'[p] = [l EXCEPT !.next = @ + 1] /\ account' = account
            BY <1>1, <1>2, <3>0
        <3>2. loc'[p].account = l.account
            BY <3>1 DEF Local
        <3>3. account[l.account].username = 0
            BY <1>3, <2>2 DEF SetName, At, CalmKnows
        <3> QED  BY <1>6, <3>1, <3>2, <3>3 DEF CalmKnows
    <2> QED  BY <1>6, <2>1, <2>2, HowItGotHere
<1> QED  BY <1>4, <1>5, <1>6 DEF CalmKnows

\* An identity is linked: to whom, and what comes next.
LEMMA Linking ==
    ASSUME Inv, NEW p \in Procs, LinkIdentity(p), NEW s \in Subjects, identity'[s] # identity[s]
    PROVE  /\ identity[s] = None /\ pc[p] = "attach"
           /\ identity'[s].account = loc[p].account /\ identity'[s].email = loc[p].email
           /\ identity'[s].how = loc[p].how
           /\ identity'[s].via # None => loc[p].how = "invite" /\ identity'[s].via = loc[p].inv
           /\ loc'[p] = loc[p] /\ pc'[p] = IF loc[p].email # None THEN "mint" ELSE Attached(loc[p])
           /\ UNCHANGED <<account, invite>>
           /\ \A t \in Subjects \ {s} : identity'[t] = identity[t]
<1>1. PICK l \in Local : l = loc[p]
    BY Here
<1>2. PICK v : v = IF l.how = "invite" THEN l.inv ELSE None
    OBVIOUS
<1>3. /\ identity' = [identity EXCEPT ![l.subject] =
             [account |-> l.account, email |-> l.email, how |-> l.how, via |-> v]]
      /\ Goto(p, IF l.email # None THEN "mint" ELSE Attached(l), l)
      /\ pc[p] = "attach" /\ identity[l.subject] = None /\ UNCHANGED <<account, invite>>
    BY <1>1, <1>2 DEF LinkIdentity, At
<1>4. s = l.subject
    BY <1>3 DEF Inv, TypeOK
<1>5. identity'[s] = [account |-> l.account, email |-> l.email, how |-> l.how, via |-> v]
    BY <1>3, <1>4 DEF Inv, TypeOK
<1>6. loc'[p] = l /\ pc'[p] = IF l.email # None THEN "mint" ELSE Attached(l)
    BY <1>3 DEF Goto, Inv, TypeOK
<1>7. \A t \in Subjects \ {s} : identity'[t] = identity[t]
    BY <1>3, <1>4 DEF Inv, TypeOK
<1>8. identity'[s].via # None => l.how = "invite" /\ identity'[s].via = l.inv
    BY <1>2, <1>5
<1> QED  BY <1>1, <1>3, <1>4, <1>5, <1>6, <1>7, <1>8

\* The contact id is written.
LEMMA MintStep ==
    ASSUME Inv, NEW p \in Procs, Mint(p), calm'
    PROVE  /\ account' = Minted(loc[p].account, loc[p].email)
           /\ loc'[p] = loc[p] /\ pc'[p] = Attached(loc[p])
<1>1. ~Lost(p, Attached(loc[p]), loc[p])
    BY Zenon DEF Lost
<1> QED  BY <1>1 DEF Mint, Goto, Inv, TypeOK

LEMMA UseStep ==
    ASSUME Inv, NEW p \in Procs, MarkInviteUsed(p), calm'
    PROVE  loc[p].inv \in Issued /\ loc[p].inv \in Issued' /\ invite'[loc[p].inv].used
<1>1. PICK i \in Issued : i = loc[p].inv
    BY Here DEF MarkInviteUsed, At, RequestKnows, LoginKnows
<1>0. ~Lost(p, "stamp", loc[p])
    BY Zenon DEF Lost
<1>2. invite' = [invite EXCEPT ![i].used = TRUE]
    BY <1>0, <1>1 DEF MarkInviteUsed, Used
<1>3. invite[i] \in Invite /\ i \in Invites
    BY DEF Inv, TypeOK, Issued
<1>4. invite'[i] = [invite[i] EXCEPT !.used = TRUE]
    BY <1>2, <1>3 DEF Inv, TypeOK
<1>5. invite'[i].used
    BY <1>3, <1>4 DEF Invite
<1>6. [invite[i] EXCEPT !.used = TRUE] \in Invite
    BY <1>3, UsedTyped
<1>7. i \in Issued'
    BY <1>3, <1>4, <1>6, NullsOK DEF Issued
<1> QED  BY <1>1, <1>5, <1>7

-----------------------------------------------------------------------------
(* The tables *)

\* A request that moves takes the state of the tables with it.
LEMMA SpentNext ==
    ASSUME Inv, CalmState, [Next]_vars, NEW p \in Procs, Moves(p), calm',
           \A q \in Procs \ {p} : pc[q] = "idle"
    PROVE  InviteSpent'
<1> SUFFICES ASSUME NEW s \in Subjects, identity'[s] # None, identity'[s].via # None
             PROVE  /\ identity'[s].via \in Issued'
                    /\ invite'[identity'[s].via].used \/ UsingUp(p, identity[s].via)'
    BY DEF InviteSpent, UsingUp
<1>1. ASSUME identity'[s] = identity[s], NEW i, i = identity[s].via
      PROVE  /\ i \in Issued'
             /\ invite'[i].used \/ (pc'[p] \in {"mint", "use"} /\ loc'[p].how = "invite" /\ loc'[p].inv = i)
    <2>1. i \in Issued /\ (invite[i].used \/ \E q \in Procs : UsingUp(q, i))
        BY <1>1 DEF CalmState, InviteSpent
    <2>2. CASE invite[i].used
        BY <2>1, <2>2, UsedStays
    <2>3. ASSUME NEW q \in Procs, UsingUp(q, i)
          PROVE  /\ i \in Issued'
                 /\ invite'[i].used \/ (pc'[p] \in {"mint", "use"} /\ loc'[p].how = "invite" /\ loc'[p].inv = i)
        <3>1. q = p
            BY <2>3 DEF UsingUp
        <3>2. CASE pc[p] = "mint"
            <4>1. /\ account' = Minted(loc[p].account, loc[p].email)
                  /\ loc'[p] = loc[p] /\ pc'[p] = Attached(loc[p])
                BY <3>2, WhichStep, MintStep
            <4>2. i \in Issued'
                BY <2>1, <3>2, WhichStep DEF Mint, Issued
            <4> QED  BY <2>3, <3>1, <4>1, <4>2 DEF UsingUp, Attached
        <3>3. CASE pc[p] = "use"
            BY <2>3, <3>1, <3>3, WhichStep, UseStep DEF UsingUp
        <3> QED  BY <2>3, <3>1, <3>2, <3>3 DEF UsingUp
    <2> QED  BY <2>1, <2>2, <2>3
<1>2. CASE identity'[s] # identity[s]
    <2>1. LinkIdentity(p)
        BY <1>2, WhichStep
    <2>2. /\ loc[p].how = "invite" /\ identity'[s].via = loc[p].inv
          /\ loc'[p] = loc[p] /\ pc'[p] \in {"mint", "use"}
          /\ pc[p] = "attach" /\ invite' = invite
        BY <1>2, <2>1, Linking DEF Attached
    <2>3. loc[p].inv \in Issued
        BY <2>2, Here DEF RequestKnows, LoginKnows
    <2> QED  BY <2>2, <2>3 DEF UsingUp, Issued
<1> QED  BY <1>1, <1>2 DEF UsingUp

LEMMA ViaOnceNext ==
    ASSUME Inv, CalmState, NEW p \in Procs, Moves(p), \A q \in Procs \ {p} : pc[q] = "idle"
    PROVE  ViaOnce'
<1>1. CASE identity' = identity
    BY <1>1 DEF CalmState, ViaOnce
<1>2. ASSUME LinkIdentity(p), NEW s \in Subjects, NEW t \in Subjects, identity'[s] # identity[s],
             identity'[s].via # None, s # t, identity[t] # None, identity[t].via = identity'[s].via
      PROVE  FALSE
    <2>1. /\ pc[p] = "attach" /\ loc[p].how = "invite" /\ identity'[s].via = loc[p].inv
        BY <1>2, Linking
    <2>2. ~invite[loc[p].inv].used
        BY <2>1 DEF CalmState, CalmKnows
    <2>3. \A q \in Procs : ~UsingUp(q, loc[p].inv)
        BY <2>1 DEF UsingUp
    <2> QED  BY <1>2, <2>1, <2>2, <2>3 DEF CalmState, InviteSpent
<1>3. ASSUME LinkIdentity(p), NEW s \in Subjects, NEW t \in Subjects, identity'[s] # None,
             identity'[t] # None, identity'[s].via # None, identity'[s].via = identity'[t].via
      PROVE  s = t
    <2>1. CASE identity'[s] = identity[s] /\ identity'[t] = identity[t]
        BY <1>3, <2>1 DEF CalmState, ViaOnce
    <2>2. ASSUME identity'[s] # identity[s], s # t PROVE FALSE
        <3>1. identity'[t] = identity[t]
            BY <1>3, <2>2, Linking
        <3> QED  BY <1>2, <1>3, <2>2, <3>1
    <2>3. ASSUME identity'[t] # identity[t], s # t PROVE FALSE
        <3>1. identity'[s] = identity[s]
            BY <1>3, <2>3, Linking
        <3> QED  BY <1>2, <1>3, <2>3, <3>1
    <2> QED  BY <2>1, <2>2, <2>3
<1> QED  BY <1>1, <1>3, WhichStep DEF ViaOnce

LEMMA KnownNext ==
    ASSUME Inv, OneBearer, CalmState, [Next]_vars, NEW p \in Procs, Moves(p), calm',
           \A q \in Procs \ {p} : pc[q] = "idle"
    PROVE  PersonKnown'
<1> SUFFICES ASSUME NEW s \in Subjects, identity'[s] # None, identity'[s].email # None,
                    identity'[s].how \in {"email", "new"}
             PROVE  \/ Bearers(identity[s].email)' = {identity'[s].account}
                    \/ Minting(p, s)'
    BY DEF PersonKnown
<1>0. /\ identity' \in [Subjects -> Identity \cup {None}]
      /\ identity'[s].email \in Ids /\ identity'[s].account \in Accounts
    BY NextInv DEF Inv, TypeOK, Identity
<1>1. PICK i \in Ids, a \in Accounts : i = identity'[s].email /\ a = identity'[s].account
    BY <1>0
<1>2. CASE identity'[s] = identity[s]
    <2>1. Bearers(i) = {a} \/ \E q \in Procs : Minting(q, s)
        BY <1>1, <1>2 DEF CalmState, PersonKnown
    <2>2. CASE Bearers(i) = {a}
        <3>1. Bearers(i)' = {a}
            BY <2>2, BearersStep
        <3> QED  BY <1>1, <3>1 DEF Bearers
    <2>3. CASE \E q \in Procs : Minting(q, s)
        <3>1. Minting(p, s)
            BY <2>3 DEF Minting
        <3>2. /\ loc[p].email = i /\ loc[p].account = a
              /\ Bearers(i) = {} /\ account[a].contact = None /\ pc[p] = "mint"
            BY <1>1, <1>2, <3>1 DEF Minting
        <3>3. account' = [account EXCEPT ![a].contact = i]
            BY <3>2, WhichStep, MintStep DEF Minted
        <3>4. a \in Accounts \ Fresh /\ account[a] \in Account
            BY <3>2, SignedIn
        <3>5. PICK x : x = [account[a] EXCEPT !.contact = i]
            OBVIOUS
        <3>6. x \in Account /\ x.contact = i
            BY <3>4, <3>5 DEF Account
        <3>7. account' = [account EXCEPT ![a] = x] /\ x # None
            BY <3>3, <3>5, <3>6, NullsOK
        <3>8. Bearers(i)' = {a}
            BY <3>2, <3>4, <3>6, <3>7 DEF Bearers, Inv, TypeOK
        <3> QED  BY <1>1, <3>8 DEF Bearers
    <2> QED  BY <2>1, <2>2, <2>3
<1>3. CASE identity'[s] # identity[s]
    <2>1. LinkIdentity(p)
        BY <1>3, WhichStep
    <2>2. /\ pc[p] = "attach" /\ account' = account /\ loc'[p] = loc[p]
          /\ i = loc[p].email /\ a = loc[p].account /\ loc[p].how \in {"email", "new"}
          /\ pc'[p] = "mint"
        BY <1>0, <1>1, <1>3, <2>1, NullsOK, Linking
    <2>3. CalmKnows("attach", loc[p])
        BY <2>2 DEF CalmState
    <2>4. CASE loc[p].how = "email"
        <3>1. Bearers(i) = {a}
            BY <2>2, <2>3, <2>4 DEF CalmKnows, OneBearer
        <3> QED  BY <1>1, <2>2, <3>1 DEF Bearers
    <2>5. CASE loc[p].how = "new"
        <3>1. Bearers(i) = {} /\ account[a].contact = None
            BY <2>2, <2>3, <2>5, NullsOK DEF CalmKnows
        <3> QED  BY <1>1, <2>2, <3>1 DEF Minting, Bearers
    <2> QED  BY <2>2, <2>4, <2>5
<1> QED  BY <1>2, <1>3

\* What happens to no request: a link expires, an administrator renames an account.
LEMMA ElsewhereNext ==
    ASSUME Inv, CalmState, [Next]_vars,
           UNCHANGED vars \/ Expire \/ (SetUsername /\ \A q \in Procs : pc[q] = "idle")
    PROVE  CalmState'
<1>1. UNCHANGED <<pc, loc, identity>>
    BY DEF vars, Expire, SetUsername
<1>2. \A s \in Subjects : identity[s] # None => identity[s] \in Identity
    BY DEF Inv, TypeOK
<1>3. ViaOnce'
    BY <1>1 DEF CalmState, ViaOnce
<1>4. CASE UNCHANGED vars
    BY <1>4 DEF vars, CalmState, CalmKnows, InviteSpent, UsingUp, ViaOnce, PersonKnown, Minting,
       Bearers, Issued
<1>5. CASE Expire
    <2>1. account' = account
        BY <1>5 DEF Expire
    <2>2. PersonKnown'
        BY <1>1, <2>1 DEF CalmState, PersonKnown, Minting, Bearers
    <2>3. PICK i \in Issued : invite' = [invite EXCEPT ![i].expired = TRUE]
        BY <1>5 DEF Expire
    <2>4. \A j \in Issued : invite[j] \in Invite /\ j \in Invites
        BY DEF Inv, TypeOK, Issued
    <2>5. ASSUME NEW j \in Issued PROVE j \in Issued' /\ invite'[j].used = invite[j].used
        <3>1. CASE j # i
            BY <2>3, <2>4, <3>1 DEF Issued, Inv, TypeOK
        <3>2. CASE j = i
            <4>1. invite'[j] = [invite[j] EXCEPT !.expired = TRUE]
                BY <2>3, <2>4, <3>2 DEF Inv, TypeOK
            <4>2. invite'[j].used = invite[j].used
                BY <2>4, <4>1 DEF Invite
            <4>3. invite'[j] \in Invite
                BY <2>4, <4>1, UsedTyped
            <4> QED  BY <2>4, <4>2, <4>3, NullsOK DEF Issued
        <3> QED  BY <3>1, <3>2
    <2>6. InviteSpent'
        BY <1>1, <2>5 DEF CalmState, InviteSpent, UsingUp
    <2>7. ASSUME NEW p \in Procs PROVE CalmKnows(pc[p], loc[p])'
        <3>1. pc[p] = "attach" /\ loc[p].how = "invite" => loc[p].inv \in Issued
            BY Here DEF RequestKnows, LoginKnows
        <3>2. CalmKnows(pc[p], loc[p])
            BY DEF CalmState
        <3> QED  BY <1>1, <2>1, <2>5, <3>1, <3>2 DEF CalmKnows, Bearers
    <2> QED  BY <1>3, <2>2, <2>6, <2>7 DEF CalmState
<1>6. CASE SetUsername /\ \A q \in Procs : pc[q] = "idle"
    <2>1. invite' = invite
        BY <1>6 DEF SetUsername
    <2>2. InviteSpent'
        BY <1>1, <2>1 DEF CalmState, InviteSpent, UsingUp, Issued
    <2>3. \A p \in Procs : CalmKnows(pc[p], loc[p])'
        BY <1>1, <1>6 DEF CalmKnows
    <2>4. ASSUME NEW s \in Subjects, identity[s] # None, identity[s].email # None,
                 identity[s].how \in {"email", "new"}
          PROVE  Bearers(identity[s].email)' = {identity'[s].account}
        <3>1. PICK i, a : i \in Ids /\ i = identity[s].email /\ a = identity[s].account
            BY <1>2, <2>4 DEF Identity
        <3>2. Bearers(i) = {a}
            BY <1>6, <2>4, <3>1 DEF CalmState, PersonKnown, Minting
        <3>3. Bearers(i)' = {a}
            BY <3>1, <3>2, BearersStep
        <3> QED  BY <1>1, <3>1, <3>3 DEF Bearers
    <2> QED  BY <1>1, <1>3, <2>2, <2>3, <2>4 DEF CalmState, PersonKnown
<1> QED  BY <1>4, <1>5, <1>6

LEMMA CalmStateNext ==
    ASSUME Inv, CalmInv, [Next]_vars, calm'
    PROVE  CalmState'
<1>1. calm /\ CalmState
    BY CalmStep DEF CalmInv
<1>2. CASE UNCHANGED vars \/ Expire \/ (SetUsername /\ \A q \in Procs : pc[q] = "idle")
    BY <1>1, <1>2, ElsewhereNext
<1>3. ASSUME NEW p \in Procs, Moves(p), \A q \in Procs \ {p} : pc[q] = "idle" /\ pc'[q] = "idle"
      PROVE  CalmState'
    <2>1. InviteSpent' /\ ViaOnce' /\ PersonKnown'
        BY <1>1, <1>3, SpentNext, ViaOnceNext, KnownNext DEF CalmInv
    <2>2. CalmKnows(pc[p], loc[p])'
        BY <1>1, <1>3, CalmKnowsNext
    <2>3. \A q \in Procs \ {p} : CalmKnows(pc[q], loc[q])'
        BY <1>3 DEF CalmKnows
    <2> QED  BY <2>1, <2>2, <2>3 DEF CalmState
<1> QED  BY <1>2, <1>3, CalmStep DEF CalmInv

LEMMA CalmInit == Init => CalmInv
<1> SUFFICES ASSUME Init PROVE CalmInv
    OBVIOUS
<1>1. Alone
    BY DEF Init, Alone
<1>2. OneBearer
    <2>1. \A i \in Ids : Bearers(i) = {}
        BY NullsOK, NewTyped DEF Init, Bearers, NewAccount
    <2> QED  BY <2>1 DEF OneBearer
<1>3. CalmState
    BY DEF Init, CalmState, CalmKnows, InviteSpent, ViaOnce, PersonKnown
<1> QED  BY <1>1, <1>2, <1>3 DEF CalmInv

LEMMA CalmNext == Inv /\ CalmInv /\ [Next]_vars => CalmInv'
<1> SUFFICES ASSUME Inv, CalmInv, [Next]_vars PROVE CalmInv'
    OBVIOUS
<1>1. Alone'
    BY AloneNext DEF CalmInv
<1>2. OneBearer'
    BY OneBearerNext DEF CalmInv
<1>3. calm' => CalmState'
    BY CalmStateNext
<1> QED  BY <1>1, <1>2, <1>3 DEF CalmInv

LEMMA CalmCorrect == Spec => [](Inv /\ CalmInv)
    BY InitInv, NextInv, CalmInit, CalmNext, PTL DEF Spec

\* A request that is alone gives a username only to an account that has none.
LEMMA NameKept ==
    ASSUME Inv, CalmState, NEW p \in Procs, Moves(p), NEW a \in Accounts,
           account[a] # None, account[a].username # 0
    PROVE  account'[a].username = account[a].username
<1>1. CASE account' = account
    BY <1>1
<1>2. account[a] \in Account /\ a \notin Fresh
    BY DEF Inv, TypeOK, Fresh
<1>3. ASSUME NEW b \in Accounts, NEW x, account' = [account EXCEPT ![b] = x],
             b = a => x.username = account[a].username
      PROVE  account'[a].username = account[a].username
    BY <1>3 DEF Inv, TypeOK
<1>4. CASE CreateUser(p)
    <2>1. PICK b \in Fresh : account' = [account EXCEPT ![b] = NewAccount]
        BY <1>4 DEF CreateUser
    <2> QED  BY <1>2, <1>3, <2>1 DEF Fresh
<1>5. CASE Mint(p) \/ Stamp(p) \/ SetName(p)
    <2>1. PICK l \in Local : l = loc[p]
        BY Here
    <2>2. l.account \in Accounts \ Fresh /\ account[l.account] \in Account
        BY <1>5, <2>1, SignedIn DEF Mint, Stamp, SetName, At
    <2>3. /\ [account[a] EXCEPT !.contact = l.email].username = account[a].username
          /\ [account[a] EXCEPT !.provisioned = FALSE].username = account[a].username
        BY <1>2 DEF Account
    <2>4. SetName(p) => account[l.account].username = 0
        BY <2>1 DEF CalmState, CalmKnows, SetName, At
    <2>5. \/ account' = account
          \/ account' = [account EXCEPT ![l.account] = [account[l.account] EXCEPT !.contact = l.email]]
          \/ account' = [account EXCEPT ![l.account] = [account[l.account] EXCEPT !.provisioned = FALSE]]
          \/ /\ account' = [account EXCEPT ![l.account] = [account[l.account] EXCEPT !.username = l.next]]
             /\ SetName(p)
        BY <1>5, <2>1, <2>2 DEF Mint, Minted, Stamp, SetName, Inv, TypeOK
    <2> QED  BY <1>1, <1>3, <2>2, <2>3, <2>4, <2>5
<1>6. CASE Provision(p) \/ Upsert(p)
    <2>1. \/ account' = account
          \/ \E b \in Fresh : account' = [account EXCEPT ![b] = Stub(loc[p].email)]
        BY <1>6 DEF Provision, Upsert
    <2> QED  BY <1>1, <1>2, <1>3, <2>1 DEF Fresh
<1>7. CASE Vivify(p)
    BY <1>2, <1>7 DEF Vivify
<1>8. CASE Arrive(p) \/ Recall(p)
    BY <1>1, <1>8 DEF Arrive, OIDCCallback, DevLogin, CreateInvite, AcceptInvite, AddContact, Backfill,
       Begin, Recall, FindIdentity, GetInvite, ByCILogon, ByEmail
<1>9. CASE LinkIdentity(p) \/ MarkInviteUsed(p) \/ ReadName(p) \/ SignIn(p) \/ Issue(p)
           \/ InsertRow(p) \/ Relink(p)
    BY <1>1, <1>9 DEF LinkIdentity, MarkInviteUsed, ReadName, SignIn, Issue, InsertRow, Relink
<1> QED  BY <1>4, <1>5, <1>6, <1>7, <1>8, <1>9 DEF Moves, Join, LoginUser, Invitation, Contact

-----------------------------------------------------------------------------

\* A contact id belongs to at most one account, whatever overlaps, fails or is cut off
\* (SetLegacyContactIDIfMissing, UpsertProvisionedContactUser, CreateProvisionedUser, the
\* backfill).
THEOREM ContactIdsUnique == Spec => []OneBearer
<1>1. CalmInv => OneBearer
    BY DEF CalmInv
<1> QED  BY <1>1, CalmCorrect, PTL

\* While no request overlaps another, fails or is cut off, an invite link attaches one identity:
\* whoever linked an identity with it uses it up before anybody else finds it (getUsableInvite,
\* CreateIdentity, MarkInviteUsed).
THEOREM InvitesAttachOnce == Spec => []InviteAttachesOnceCalm
<1>1. Inv /\ CalmInv => InviteAttachesOnceCalm
    <2> SUFFICES ASSUME CalmInv, calm, NEW i \in Invites PROVE Cardinality(AttachedBy(i)) <= 1
        BY DEF InviteAttachesOnceCalm, InviteAttachesOnce
    <2>1. \A s, t \in AttachedBy(i) : s = t
        BY NullsOK DEF CalmInv, CalmState, ViaOnce, AttachedBy
    <2>2. CASE AttachedBy(i) = {}
        BY <2>2, FS_EmptySet
    <2>3. CASE AttachedBy(i) # {}
        <3>1. PICK s \in AttachedBy(i) : TRUE
            BY <2>3
        <3>2. AttachedBy(i) = {s}
            BY <2>1, <3>1
        <3>3. Cardinality(AttachedBy(i)) = 1
            BY <3>2, FS_Singleton, Zenon
        <3> QED  BY <3>3
    <2> QED  BY <2>2, <2>3
<1> QED  BY <1>1, CalmCorrect, PTL

\* Under the same condition a person who is known by e-mail gets no second account
\* (onboardIdentity, FindUserByLegacyContactID).
THEOREM PeopleHaveOneAccount == Spec => []OneAccountPerPerson
<1>1. Inv /\ CalmInv => OneAccountPerPerson
    BY DEF CalmInv, CalmState, PersonKnown, Minting, OneAccountPerPerson
<1> QED  BY <1>1, CalmCorrect, PTL

\* Under the same condition no login changes a username (EnsureUsername).
THEOREM UsernamesKept == Spec => UsernameKept
<1>1. ASSUME Inv, CalmInv, [Next]_vars, calm', NEW a \in Accounts, account[a] # None,
             account[a].username # 0, account'[a].username # account[a].username
      PROVE  \A p \in Procs : pc[p] = "idle"
    <2>1. calm /\ CalmState
        BY <1>1, CalmStep DEF CalmInv
    <2>2. account' # account
        BY <1>1
    <2>3. ~UNCHANGED vars /\ ~Expire
        BY <2>2 DEF vars, Expire
    <2>4. \A p \in Procs : ~Moves(p)
        BY <1>1, <2>1, NameKept
    <2> QED  BY <1>1, <2>3, <2>4, CalmStep DEF CalmInv
<1>2. Inv /\ CalmInv /\ [Next]_vars =>
          \A a \in Accounts :
              calm' /\ account[a] # None /\ account[a].username # 0
                 /\ account'[a].username # account[a].username => \A p \in Procs : pc[p] = "idle"
    BY <1>1
<1> QED  BY <1>2, CalmCorrect, PTL DEF Spec, UsernameKept
=============================================================================
