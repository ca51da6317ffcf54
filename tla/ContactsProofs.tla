--------------------------- MODULE ContactsProofs ---------------------------
(***************************************************************************)
(* Proofs about Contacts, for every number of handlers, users, entities,   *)
(* requests, invites and edits: types, who decides, that decided requests  *)
(* are history, and that requests and invites implement offers.            *)
(*                                                                         *)
(* The second half is about what overlap can spoil: that a resource's slot *)
(* has one holder, that a pending request follows a rename, and that an    *)
(* approval on record means what it says are each proved from the absence  *)
(* of the overlap that would break them.                                   *)
(***************************************************************************)
EXTENDS Contacts, TLAPS

-----------------------------------------------------------------------------
(* The inductive invariant *)

ForRequest(l) == l.request \in Requests /\ reqs[l.request] # None
ForInvite(l)  == l.invite \in Invites /\ invs[l.invite] # None

Entitled(l) == IF l.outcome = "withdrawn" THEN l.user = reqs[l.request].requester
                                          ELSE Decider(l.user, l.request)

\* What a handler about to send a statement holds in the locals the statement uses.
LocalOK(p, l) ==
    /\ p \notin {"idle", "repoint", "commit"} => l.user \in Users
    /\ p \in {"slot", "file", "resolve", "clear", "wait", "insert"} =>
          l.taker \in Users /\ l.place \in Place
    /\ p = "slot" => ForInvite(l)
    /\ p = "file" => l.holder \in Users /\ (l.invite # None => ForInvite(l))
    /\ p \in {"clear", "wait", "insert"} => l.key \in Keys
    /\ p \in {"resolve", "clear", "wait", "insert"} =>
          /\ l.invite = None => ForRequest(l) /\ l.outcome = "approved" /\ Entitled(l)
          /\ l.invite # None => ForInvite(l)
    /\ p = "record" => /\ ForRequest(l) /\ l.outcome # None /\ Entitled(l)
                       /\ l.outcome = "approved" => l.request \in done
    /\ p = "mark" => ForInvite(l) /\ l.invite \in done
    /\ p \in {"repoint", "commit"} => l.edit \in Edits /\ edits[l.edit] # None

\* What an open apply is about to repoint is still pending or unused: its locks see to it.
Repointable(p, l) == p \in {"repoint", "commit"} => l.moved \subseteq Pending \cup Unused

HandlersOK == \A w \in Procs : LocalOK(pc[w], loc[w]) /\ Repointable(pc[w], loc[w])

Inv == TypeOK /\ HandlersOK /\ DeciderEntitled

-----------------------------------------------------------------------------
(* What every step keeps *)

\* Rows of requests, invites and edits are never removed, nor is who asked and from whom.
Keeps ==
    /\ \A r \in Requests : reqs[r] # None =>
          /\ reqs'[r] # None
          /\ reqs'[r].requester = reqs[r].requester /\ reqs'[r].incumbent = reqs[r].incumbent
    /\ \A i \in Invites : invs[i] # None => invs'[i] # None
    /\ \A d \in Edits : edits[d] # None => edits'[d] # None
    /\ done \subseteq done'

\* Under that, what a handler holds stays good while it waits.
LEMMA LocalStays ==
    ASSUME Keeps, NEW p, NEW l, LocalOK(p, l)
    PROVE  LocalOK(p, l)'
  <1>1. ForRequest(l) => ForRequest(l)' /\ (Entitled(l) => Entitled(l)')
    BY DEF Keeps, ForRequest, Entitled, Decider
  <1>2. ForInvite(l) => ForInvite(l)'
    BY DEF Keeps, ForInvite
  <1>3. QED
    BY <1>1, <1>2 DEF LocalOK, Keeps

LEMMA NoLocalType == NoLocal \in Local /\ LocalOK("idle", NoLocal)
  BY DEF NoLocal, Local, LocalOK

\* What the open applies of the others are to repoint stays as it is.
OthersKeep(w) ==
    \A v \in Procs \ {w} : \A q, k : q = pc[v] /\ k = loc[v] => Repointable(q, k)'

\* A step of w preserves HandlersOK if it leaves w with good locals and takes nothing
\* another open apply is to repoint.
LEMMA StepHandlers ==
    ASSUME Inv, NEW w \in Procs, NEW p \in Points, NEW l \in Local, Goto(w, p, l),
           Keeps, LocalOK(p, l)', Repointable(p, l)',
           OthersKeep(w)
    PROVE  pc' \in [Procs -> Points] /\ loc' \in [Procs -> Local] /\ HandlersOK'
  <1>1. pc' \in [Procs -> Points] /\ loc' \in [Procs -> Local]
    BY DEF Inv, TypeOK, Goto
  <1>2. pc'[w] = p /\ loc'[w] = l
    BY DEF Inv, TypeOK, Goto
  <1>3. ASSUME NEW v \in Procs, v # w
        PROVE  LocalOK(pc[v], loc[v])' /\ Repointable(pc[v], loc[v])'
    <2>1. PICK q, k : q = pc[v] /\ k = loc[v]
      OBVIOUS
    <2>2. pc'[v] = q /\ loc'[v] = k
      BY <1>3, <2>1 DEF Goto, Inv, TypeOK
    <2>3. LocalOK(q, k)'
      BY <2>1, LocalStays DEF Inv, HandlersOK
    <2>4. Repointable(q, k)'
      BY <1>3, <2>1 DEF OthersKeep
    <2>5. QED
      BY <2>2, <2>3, <2>4
      DEF LocalOK, Repointable, ForRequest, ForInvite, Entitled, Decider, Pending, Unused
  <1>4. LocalOK(pc[w], loc[w])' /\ Repointable(pc[w], loc[w])'
    BY <1>2
    DEF LocalOK, Repointable, ForRequest, ForInvite, Entitled, Decider, Pending, Unused
  <1>5. QED
    BY <1>1, <1>3, <1>4 DEF HandlersOK

\* The same for a step that moves no handler.
LEMMA TablesStep ==
    ASSUME Inv, Keeps, UNCHANGED <<pc, loc>>, Pending \subseteq Pending', Unused \subseteq Unused'
    PROVE  HandlersOK'
  <1>1. ASSUME NEW v \in Procs PROVE LocalOK(pc[v], loc[v])' /\ Repointable(pc[v], loc[v])'
    <2>1. PICK q, k : q = pc[v] /\ k = loc[v]
      OBVIOUS
    <2>2. pc'[v] = q /\ loc'[v] = k
      BY <2>1
    <2>3. LocalOK(q, k)'
      BY <2>1, LocalStays DEF Inv, HandlersOK
    <2>4. Repointable(q, k)'
      BY <2>1 DEF Inv, HandlersOK, Repointable
    <2>5. QED
      BY <2>2, <2>3, <2>4
      DEF LocalOK, Repointable, ForRequest, ForInvite, Entitled, Decider, Pending, Unused
  <1>2. QED
    BY <1>1 DEF HandlersOK

\* A step that only moves w.
LEMMA QuietStep ==
    ASSUME Inv, NEW w \in Procs, NEW p \in Points, NEW l \in Local, Goto(w, p, l),
           UNCHANGED tables, LocalOK(p, l), Repointable(p, l)
    PROVE  Inv'
  <1>1. Keeps
    BY DEF Keeps, tables
  <1>2. LocalOK(p, l)'
    BY <1>1, LocalStays
  <1>3. Repointable(p, l)'
    BY DEF Repointable, Pending, Unused, tables
  <1>4. OthersKeep(w)
    BY DEF Inv, HandlersOK, Repointable, Pending, Unused, tables, OthersKeep
  <1>5. pc' \in [Procs -> Points] /\ loc' \in [Procs -> Local] /\ HandlersOK'
    BY <1>1, <1>2, <1>3, <1>4, StepHandlers
  <1>6. TypeOK' /\ DeciderEntitled'
    BY <1>5 DEF Inv, TypeOK, DeciderEntitled, Decider, tables
  <1>7. QED
    BY <1>5, <1>6 DEF Inv

\* The end of a request, and its abort.
LEMMA FinishStep ==
    ASSUME Inv, NEW w \in Procs, Finish(w), UNCHANGED tables
    PROVE  Inv'
  <1>1. Repointable("idle", NoLocal) /\ "idle" \in Points
    BY DEF Repointable, Points
  <1>2. QED
    BY <1>1, NoLocalType, QuietStep DEF Finish

\* What a handler holds, as its own fact.
LEMMA HandlerHas ==
    ASSUME Inv, NEW w \in Procs
    PROVE  pc[w] \in Points /\ loc[w] \in Local /\ LocalOK(pc[w], loc[w])
  BY DEF Inv, TypeOK, HandlersOK

LEMMA PlaceKeys == ASSUME NEW pl \in Place PROVE pl.name \in Keys /\ pl.name \in Names /\ pl.slot \in Slots
  BY DEF Place, Keys

\* The beginning of a replacement.
LEMMA TakeOverStep ==
    ASSUME Inv, NEW w \in Procs, NEW l \in Local, LocalOK("resolve", l), TakeOver(w, l),
           UNCHANGED tables
    PROVE  Inv'
  <1>1. CASE l.place.kind = "resource"
    <2>1. Goto(w, "resolve", l)
      BY <1>1 DEF TakeOver
    <2>2. Repointable("resolve", l) /\ "resolve" \in Points
      BY DEF Repointable, Points
    <2>3. QED
      BY <2>1, <2>2, QuietStep
  <1>2. CASE l.place.kind # "resource"
    <2> DEFINE k == [l EXCEPT !.key = l.place.name]
    <2>1. Goto(w, "clear", k)
      BY <1>2 DEF TakeOver
    <2>2. l.place \in Place /\ l.place.name \in Keys
      BY PlaceKeys DEF LocalOK
    <2>3. k \in Local /\ LocalOK("clear", k)
      BY <2>2 DEF LocalOK, Local, ForRequest, ForInvite, Entitled, Decider
    <2>4. Repointable("clear", k) /\ "clear" \in Points
      BY DEF Repointable, Points
    <2>5. QED
      BY <2>1, <2>3, <2>4, QuietStep
  <1>3. QED
    BY <1>1, <1>2

-----------------------------------------------------------------------------
(* Actions that read and move on *)

LEMMA InitInv == Init => Inv
  <1> SUFFICES ASSUME Init PROVE Inv
    OBVIOUS
  <1>1. TypeOK
    BY ConstantsOK, NoLocalType DEF Init, TypeOK, Points
  <1>2. HandlersOK
    BY NoLocalType DEF Init, HandlersOK, LocalOK, Repointable
  <1>3. DeciderEntitled
    BY DEF Init, DeciderEntitled
  <1>4. QED
    BY <1>1, <1>2, <1>3 DEF Inv

LEMMA HoldersAreUsers == ASSUME Inv, NEW pl PROVE HoldersOf(pl) \subseteq Users
  BY DEF Inv, TypeOK, HoldersOf, Row

\* GetContactSlot, for whoever may hold l.
LEMMA FindStep ==
    ASSUME Inv, NEW w \in Procs, NEW l \in Local, FindIncumbent(w, l), UNCHANGED tables,
           l.user \in Users, l.taker \in Users, l.place \in Place,
           l.invite # None => ForInvite(l)
    PROVE  Inv'
  <1>1. PICK h \in HoldersOf(l.place) \ {l.taker} : Goto(w, "file", [l EXCEPT !.holder = h])
    BY DEF FindIncumbent
  <1> DEFINE k == [l EXCEPT !.holder = h]
  <1>2. h \in Users
    BY <1>1, HoldersAreUsers
  <1>3. k \in Local /\ LocalOK("file", k)
    BY <1>2 DEF Local, LocalOK, ForInvite
  <1>4. Repointable("file", k) /\ "file" \in Points
    BY DEF Repointable, Points
  <1>5. QED
    BY <1>1, <1>3, <1>4, QuietStep

LEMMA FileRequestInv == ASSUME Inv, NEW w \in Procs, FileRequest(w) PROVE Inv'
  <1>1. PICK u \in Users, pl \in Place :
           FindIncumbent(w, [NoLocal EXCEPT !.user = u, !.taker = u, !.place = pl])
    BY DEF FileRequest
  <1> DEFINE l == [NoLocal EXCEPT !.user = u, !.taker = u, !.place = pl]
  <1>2. /\ l \in Local /\ l.user \in Users /\ l.taker \in Users /\ l.place \in Place
        /\ l.invite = None
    BY DEF NoLocal, Local
  <1>3. UNCHANGED tables
    BY DEF FileRequest
  <1>4. QED
    BY <1>1, <1>2, <1>3, FindStep

LEMMA FileFromInviteInv == ASSUME Inv, NEW w \in Procs, FileFromInvite(w) PROVE Inv'
  <1>1. UNCHANGED tables /\ (FindIncumbent(w, loc[w]) \/ Finish(w))
    BY DEF FileFromInvite
  <1>2. loc[w] \in Local /\ loc[w].user \in Users /\ loc[w].taker \in Users
        /\ loc[w].place \in Place /\ ForInvite(loc[w])
    BY HandlerHas DEF FileFromInvite, LocalOK
  <1>3. QED
    BY <1>1, <1>2, FindStep, FinishStep

LEMMA ResolveInv == ASSUME Inv, NEW w \in Procs, Resolve(w) PROVE Inv'
  <1>1. UNCHANGED tables
    BY DEF Resolve
  <1>2. ASSUME NEW e \in Named("resource", loc[w].place.name),
               Goto(w, "clear", [loc[w] EXCEPT !.key = e])
        PROVE  Inv'
    <2> DEFINE k == [loc[w] EXCEPT !.key = e]
    <2>1. e \in Keys
      BY DEF Named, Live, KindOf, Entities, Keys
    <2>2. PICK l : l = loc[w]
      OBVIOUS
    <2>3. l \in Local /\ LocalOK("resolve", l)
      BY <2>2, HandlerHas DEF Resolve
    <2>4. k \in Local /\ LocalOK("clear", k)
      BY <2>1, <2>2, <2>3 DEF LocalOK, Local, ForRequest, ForInvite, Entitled, Decider
    <2>5. Repointable("clear", k) /\ "clear" \in Points
      BY DEF Repointable, Points
    <2>6. QED
      BY <1>1, <1>2, <2>4, <2>5, QuietStep
  <1>3. QED
    BY <1>1, <1>2, FinishStep DEF Resolve

\* What DecideReplacement and WithdrawReplacement read of the request they are about.
LEMMA DecisionHas ==
    ASSUME Inv, NEW r \in Requests, reqs[r] # None, NEW u \in Users,
           NEW o \in {"approved", "rejected", "withdrawn"},
           IF o = "withdrawn" THEN u = reqs[r].requester ELSE Decider(u, r)
    PROVE  /\ DecisionOn(r, u, o) \in Local
           /\ o # "approved" => LocalOK("record", DecisionOn(r, u, o))
           /\ o = "approved" => LocalOK("resolve", DecisionOn(r, u, o))
  <1>1. reqs[r] \in Request
    BY DEF Inv, TypeOK
  <1>2. reqs[r].place \in Place /\ reqs[r].requester \in Users
    BY <1>1 DEF Request
  <1>3. DecisionOn(r, u, o) \in Local
    BY <1>2 DEF DecisionOn, Local, NoLocal
  <1>4. r # None /\ o # None
    BY NullsOK
  <1>5. QED
    BY <1>2, <1>3, <1>4 DEF LocalOK, ForRequest, Entitled, DecisionOn, NoLocal

LEMMA ApproveInv == ASSUME Inv, NEW w \in Procs, Approve(w) PROVE Inv'
  <1>1. PICK r \in Pending, u \in Users :
           Decider(u, r) /\ TakeOver(w, DecisionOn(r, u, "approved"))
    BY DEF Approve
  <1>2. r \in Requests /\ reqs[r] # None /\ UNCHANGED tables
    BY DEF Pending, Approve
  <1>3. QED
    BY <1>1, <1>2, DecisionHas, TakeOverStep

LEMMA RejectInv == ASSUME Inv, NEW w \in Procs, Reject(w) PROVE Inv'
  <1>1. PICK r \in Pending, u \in Users :
           Decider(u, r) /\ Goto(w, "record", DecisionOn(r, u, "rejected"))
    BY DEF Reject
  <1> DEFINE l == DecisionOn(r, u, "rejected")
  <1>2. r \in Requests /\ reqs[r] # None /\ UNCHANGED tables
    BY DEF Pending, Reject
  <1>3. l \in Local /\ LocalOK("record", l)
    BY <1>1, <1>2, DecisionHas
  <1>4. Repointable("record", l) /\ "record" \in Points
    BY DEF Repointable, Points
  <1>5. QED
    BY <1>1, <1>2, <1>3, <1>4, QuietStep

LEMMA WithdrawInv == ASSUME Inv, NEW w \in Procs, Withdraw(w) PROVE Inv'
  <1>1. PICK r \in Requests :
           reqs[r] # None /\ Goto(w, "record", DecisionOn(r, reqs[r].requester, "withdrawn"))
    BY DEF Withdraw
  <1> DEFINE l == DecisionOn(r, reqs[r].requester, "withdrawn")
  <1>2. reqs[r].requester \in Users /\ UNCHANGED tables
    BY <1>1 DEF Withdraw, Inv, TypeOK, Request
  <1>3. l \in Local /\ LocalOK("record", l)
    BY <1>1, <1>2, DecisionHas
  <1>4. Repointable("record", l) /\ "record" \in Points
    BY DEF Repointable, Points
  <1>5. QED
    BY <1>1, <1>2, <1>3, <1>4, QuietStep

LEMMA AcceptInviteInv == ASSUME Inv, NEW w \in Procs, AcceptInvite(w) PROVE Inv'
  <1> DEFINE L(i, u) == [NoLocal EXCEPT !.user = u, !.taker = u, !.invite = i,
                                        !.place = invs[i].place]
  <1>1. PICK i \in Unused, u \in Users :
           IF invs[i].kind = "role_claim" THEN TakeOver(w, L(i, u)) ELSE Goto(w, "slot", L(i, u))
    BY DEF AcceptInvite
  <1>2. i \in Invites /\ invs[i] # None /\ UNCHANGED tables /\ i # None
    BY NullsOK DEF Unused, AcceptInvite
  <1>3. invs[i].place \in Place
    BY <1>2 DEF Inv, TypeOK, Invite
  <1>4. L(i, u) \in Local /\ LocalOK("slot", L(i, u)) /\ LocalOK("resolve", L(i, u))
    BY <1>2, <1>3 DEF Local, NoLocal, LocalOK, ForInvite
  <1>5. Repointable("slot", L(i, u)) /\ "slot" \in Points
    BY DEF Repointable, Points
  <1>6. QED
    BY <1>1, <1>2, <1>4, <1>5, QuietStep, TakeOverStep

LEMMA ApplyUpdateInv == ASSUME Inv, NEW w \in Procs, ApplyUpdate(w) PROVE Inv'
  <1> DEFINE L(d) == [NoLocal EXCEPT !.edit = d, !.old = {r \in rows : r.key = KeyOf(edits[d].ent)}]
  <1>1. PICK d \in Edits :
           /\ edits[d] # None
           /\ Goto(w, IF edits[d].ent \in Parents THEN "repoint" ELSE "commit", L(d))
    BY DEF ApplyUpdate
  <1>2. UNCHANGED tables
    BY DEF ApplyUpdate
  <1>3. PICK p : p = IF edits[d].ent \in Parents THEN "repoint" ELSE "commit"
    OBVIOUS
  <1>4. L(d) \in Local
    BY DEF Inv, TypeOK, Local, NoLocal
  <1>5. LocalOK(p, L(d)) /\ Repointable(p, L(d)) /\ p \in Points
    BY <1>1, <1>3 DEF LocalOK, Repointable, Points, NoLocal
  <1>6. Goto(w, p, L(d))
    BY <1>1, <1>3
  <1>7. QED
    BY <1>2, <1>4, <1>5, <1>6, QuietStep

LEMMA RepointInv == ASSUME Inv, NEW w \in Procs, Repoint(w) PROVE Inv'
  <1> DEFINE meant(pl) == pl.kind = "parent" /\ pl.name = name[Target(w)]
             M == {r \in Pending : meant(reqs[r].place)} \cup {i \in Unused : meant(invs[i].place)}
             k == [loc[w] EXCEPT !.moved = M]
  <1>1. Goto(w, "commit", k) /\ UNCHANGED tables
    BY DEF Repoint
  <1>2. M \subseteq Pending \cup Unused /\ M \subseteq Requests \cup Invites
    BY DEF Pending, Unused
  <1>3. PICK l : l = loc[w]
    OBVIOUS
  <1>4. l \in Local /\ LocalOK("repoint", l)
    BY <1>3, HandlerHas DEF Repoint
  <1>5. PICK m : m = M
    OBVIOUS
  <1>6. [l EXCEPT !.moved = m] \in Local
    BY <1>2, <1>4, <1>5 DEF Local
  <1>7. [l EXCEPT !.moved = m].edit = l.edit /\ [l EXCEPT !.moved = m].moved = m
    BY <1>4 DEF Local
  <1>8. LocalOK("commit", [l EXCEPT !.moved = m]) /\ Repointable("commit", [l EXCEPT !.moved = m])
    BY <1>2, <1>4, <1>5, <1>7 DEF LocalOK, Repointable
  <1>9. "commit" \in Points
    BY DEF Points
  <1>10. QED
    BY <1>1, <1>3, <1>5, <1>6, <1>8, <1>9, QuietStep

LEMMA AbortInv == ASSUME Inv, NEW w \in Procs, Abort(w) PROVE Inv'
  BY FinishStep DEF Abort

-----------------------------------------------------------------------------
(* Actions that write *)

\* A step that moves w and closes nothing.
LEMMA WriteStep ==
    ASSUME Inv, NEW w \in Procs, NEW p \in Points, NEW l \in Local, Goto(w, p, l),
           Keeps, LocalOK(p, l)', p \notin {"repoint", "commit"},
           Pending \subseteq Pending', Unused \subseteq Unused'
    PROVE  pc' \in [Procs -> Points] /\ loc' \in [Procs -> Local] /\ HandlersOK'
  <1>1. Repointable(p, l)'
    BY DEF Repointable
  <1>2. OthersKeep(w)
    BY DEF Inv, HandlersOK, Repointable, OthersKeep
  <1>3. QED
    BY <1>1, <1>2, StepHandlers

LEMMA IdleIsOK == NoLocal \in Local /\ LocalOK("idle", NoLocal)' /\ "idle" \in Points
  BY NoLocalType DEF LocalOK, Points

LEMMA FileInsertInv == ASSUME Inv, NEW w \in Procs, FileInsert(w) PROVE Inv'
  <1>1. PICK l : l = loc[w]
    OBVIOUS
  <1>2. l \in Local /\ LocalOK("file", l)
    BY <1>1, HandlerHas DEF FileInsert
  <1> DEFINE new == [place |-> l.place, incumbent |-> l.holder, requester |-> l.taker,
                     about |-> Named(l.place.kind, l.place.name),
                     status |-> "pending", decidedBy |-> None]
  <1>3. PICK r \in Requests : reqs[r] = None /\ reqs' = [reqs EXCEPT ![r] = new]
    BY <1>1 DEF FileInsert
  <1>4. /\ UNCHANGED <<name, stamp, rows, nextRow, invs, edits>>
        /\ \/ l.invite = None /\ Finish(w) /\ done' = done
           \/ l.invite # None /\ Goto(w, "mark", l) /\ done' = done \cup {l.invite}
    BY <1>1 DEF FileInsert
  <1>5. new \in Request /\ new.status = "pending" /\ new.decidedBy = None
    BY <1>2 DEF LocalOK, Request, Named, Live
  <1>6. reqs \in [Requests -> Request \cup {None}] /\ new # None
    BY <1>5, NullsOK DEF Inv, TypeOK
  <1>7. Keeps
    BY <1>3, <1>4, <1>6 DEF Keeps
  <1>8. Pending \subseteq Pending' /\ Unused \subseteq Unused'
    BY <1>3, <1>4, <1>6 DEF Pending, Unused
  <1>9. pc' \in [Procs -> Points] /\ loc' \in [Procs -> Local] /\ HandlersOK'
    <2>1. CASE Finish(w)
      BY <1>7, <1>8, <2>1, IdleIsOK, WriteStep DEF Finish
    <2>2. CASE l.invite # None /\ Goto(w, "mark", l) /\ done' = done \cup {l.invite}
      <3>1. LocalOK("mark", l)' /\ "mark" \in Points
        BY <1>2, <1>4, <2>2 DEF LocalOK, ForInvite, Points
      <3>2. QED
        BY <1>2, <1>7, <1>8, <2>2, <3>1, WriteStep
    <2>3. QED
      BY <1>4, <2>1, <2>2
  <1>10. TypeOK'
    BY <1>2, <1>3, <1>4, <1>5, <1>9 DEF Inv, TypeOK, LocalOK, ForInvite
  <1>11. DeciderEntitled'
    <2>1. ASSUME NEW q \in Requests, q # r PROVE reqs'[q] = reqs[q]
      BY <1>3, <1>6, <2>1
    <2>2. reqs'[r] = new
      BY <1>3, <1>6
    <2>3. QED
      BY <1>5, <2>1, <2>2 DEF Inv, DeciderEntitled, Decider
  <1>12. QED
    BY <1>9, <1>10, <1>11 DEF Inv

\* The soft-delete and the insert touch neither requests nor invites.
LEMMA RowsStep ==
    ASSUME Inv, NEW w \in Procs, NEW p \in Points, NEW l \in Local, Goto(w, p, l),
           UNCHANGED <<name, stamp, reqs, invs, edits>>, rows' \subseteq Row, nextRow' \in Nat,
           done \subseteq done', done' \subseteq Requests \cup Invites,
           LocalOK(p, l)', p \notin {"repoint", "commit"}
    PROVE  Inv'
  <1>1. Keeps /\ Pending \subseteq Pending' /\ Unused \subseteq Unused'
    BY DEF Keeps, Pending, Unused
  <1>2. pc' \in [Procs -> Points] /\ loc' \in [Procs -> Local] /\ HandlersOK'
    BY <1>1, WriteStep
  <1>3. TypeOK' /\ DeciderEntitled'
    BY <1>2 DEF Inv, TypeOK, DeciderEntitled, Decider
  <1>4. QED
    BY <1>2, <1>3 DEF Inv

LEMMA ClearInv == ASSUME Inv, NEW w \in Procs, Clear(w) PROVE Inv'
  <1>1. PICK l : l = loc[w]
    OBVIOUS
  <1>2. l \in Local /\ LocalOK("clear", l)
    BY <1>1, HandlerHas DEF Clear
  <1>3. PICK k \in Local, p \in {"insert", "wait"} :
           Goto(w, p, k) /\ \E old \in SUBSET Row : k = l \/ k = [l EXCEPT !.old = old]
    <2>1. Incumbents(w) \subseteq Row
      BY DEF Incumbents, Inv, TypeOK
    <2>2. [l EXCEPT !.old = Incumbents(w)] \in Local
      BY <1>2, <2>1 DEF Local
    <2>3. QED
      BY <1>1, <1>2, <2>1, <2>2 DEF Clear
  <1>4. LocalOK(p, k)
    BY <1>2, <1>3 DEF LocalOK, Local, ForRequest, ForInvite, Entitled, Decider
  <1>5. /\ UNCHANGED <<name, stamp, nextRow, reqs, invs, edits, done>> /\ rows' \subseteq rows
        /\ rows' \subseteq Row /\ nextRow' \in Nat /\ done' \subseteq Requests \cup Invites
    BY DEF Clear, Inv, TypeOK
  <1>6. LocalOK(p, k)'
    BY <1>4, <1>5, LocalStays DEF Keeps
  <1>7. QED
    BY <1>3, <1>5, <1>6, RowsStep DEF Points

LEMMA ClearAfterWaitInv == ASSUME Inv, NEW w \in Procs, ClearAfterWait(w) PROVE Inv'
  <1>1. PICK l : l = loc[w]
    OBVIOUS
  <1>2. l \in Local /\ LocalOK("wait", l)
    BY <1>1, HandlerHas DEF ClearAfterWait
  <1> DEFINE k == [l EXCEPT !.old = {}]
  <1>3. k \in Local /\ LocalOK("insert", k) /\ Goto(w, "insert", k)
    BY <1>1, <1>2
    DEF ClearAfterWait, LocalOK, Local, ForRequest, ForInvite, Entitled, Decider
  <1>4. /\ UNCHANGED <<name, stamp, nextRow, reqs, invs, edits, done>> /\ rows' \subseteq rows
        /\ rows' \subseteq Row /\ nextRow' \in Nat /\ done' \subseteq Requests \cup Invites
    BY DEF ClearAfterWait, Inv, TypeOK
  <1>5. LocalOK("insert", k)'
    BY <1>3, <1>4, LocalStays DEF Keeps
  <1>6. QED
    BY <1>3, <1>4, <1>5, RowsStep DEF Points

LEMMA InsertInv == ASSUME Inv, NEW w \in Procs, Insert(w) PROVE Inv'
  <1>1. PICK l : l = loc[w]
    OBVIOUS
  <1>2. l \in Local /\ LocalOK("insert", l)
    BY <1>1, HandlerHas DEF Insert
  <1>3. /\ UNCHANGED <<name, stamp, reqs, invs, edits>> /\ nextRow' = nextRow + 1
        /\ rows' = rows \cup {[id |-> nextRow, key |-> l.key, slot |-> l.place.slot,
                               user |-> l.taker]}
        /\ \/ l.invite = None /\ Goto(w, "record", l) /\ done' = done \cup {l.request}
           \/ l.invite # None /\ Goto(w, "mark", l) /\ done' = done \cup {l.invite}
    BY <1>1 DEF Insert
  <1>4. l.place.slot \in Slots /\ l.key \in Keys /\ l.taker \in Users
    BY <1>2, PlaceKeys DEF LocalOK
  <1>5. rows' \subseteq Row /\ nextRow' \in Nat
    BY <1>3, <1>4 DEF Inv, TypeOK, Row
  <1>6. done' \subseteq Requests \cup Invites /\ done \subseteq done'
    BY <1>2, <1>3 DEF Inv, TypeOK, LocalOK, ForRequest, ForInvite
  <1>7. CASE l.invite = None /\ Goto(w, "record", l) /\ done' = done \cup {l.request}
    <2>1. LocalOK("record", l)'
      BY <1>2, <1>3, <1>7, NullsOK DEF LocalOK, ForRequest, Entitled, Decider
    <2>2. QED
      BY <1>2, <1>3, <1>5, <1>6, <1>7, <2>1, RowsStep DEF Points
  <1>8. CASE l.invite # None /\ Goto(w, "mark", l) /\ done' = done \cup {l.invite}
    <2>1. LocalOK("mark", l)'
      BY <1>2, <1>3, <1>8 DEF LocalOK, ForInvite
    <2>2. QED
      BY <1>2, <1>3, <1>5, <1>6, <1>8, <2>1, RowsStep DEF Points
  <1>9. QED
    BY <1>3, <1>7, <1>8

\* An open apply of another handler keeps what it is to repoint from being decided or used.
LEMMA LockedStays ==
    ASSUME Inv, NEW w \in Procs, pc[w] \notin {"repoint", "commit"}, NEW x, x \notin Moving,
           (Pending \cup Unused) \ {x} \subseteq Pending' \cup Unused'
    PROVE  OthersKeep(w)
  <1>1. ASSUME NEW v \in Procs, NEW q, NEW k, q = pc[v], k = loc[v],
               q \in {"repoint", "commit"}
        PROVE  k.moved \subseteq Pending' \cup Unused'
    <2>1. \A y \in k.moved : y \in Moving
      BY <1>1 DEF Moving, Applying
    <2>2. k.moved \subseteq Pending \cup Unused
      BY <1>1 DEF Inv, HandlersOK, Repointable
    <2>3. QED
      BY <2>1, <2>2
  <1>2. QED
    BY <1>1 DEF Repointable, OthersKeep

\* What Record writes, when it writes.
LEMMA RecordStep ==
    ASSUME Inv, NEW w \in Procs, Record(w), NEW l, l = loc[w], l.request \in Pending
    PROVE  /\ l \in Local /\ LocalOK("record", l) /\ l.request \in Requests
           /\ reqs[l.request] \in Request /\ reqs'[l.request] \in Request
           /\ reqs'[l.request] = [reqs[l.request] EXCEPT !.status = l.outcome,
                                                         !.decidedBy = l.user]
           /\ \A q \in Requests : q # l.request => reqs'[q] = reqs[q]
           /\ reqs' \in [Requests -> Request \cup {None}]
  <1> DEFINE r == l.request
             new == [reqs[r] EXCEPT !.status = l.outcome, !.decidedBy = l.user]
  <1>1. l \in Local /\ LocalOK("record", l)
    BY HandlerHas DEF Record
  <1>2. r \in Requests /\ reqs[r] \in Request
    BY DEF Pending, Inv, TypeOK
  <1>3. l.user \in Users /\ l.outcome \in {"approved", "rejected", "withdrawn"}
    BY <1>1 DEF LocalOK, Local
  <1>4. new \in Request
    BY <1>2, <1>3 DEF Request
  <1>5. reqs' = [reqs EXCEPT ![r] = new]
    BY <1>2 DEF Record, Inv, TypeOK
  <1>6. QED
    BY <1>1, <1>2, <1>4, <1>5 DEF Inv, TypeOK

LEMMA RecordInv == ASSUME Inv, NEW w \in Procs, Record(w) PROVE Inv'
  <1>1. PICK l : l = loc[w]
    OBVIOUS
  <1> DEFINE r == l.request
  <1>2. /\ UNCHANGED <<name, stamp, rows, nextRow, invs, edits, done>> /\ Finish(w)
        /\ r \notin Moving /\ pc[w] = "record" /\ (r \notin Pending => reqs' = reqs)
    BY <1>1 DEF Record
  <1>3. CASE r \notin Pending
    BY <1>2, <1>3, FinishStep DEF tables
  <1>4. CASE r \in Pending
    <2>1. /\ l \in Local /\ LocalOK("record", l) /\ r \in Requests
          /\ reqs[r] \in Request /\ reqs'[r] \in Request
          /\ reqs'[r] = [reqs[r] EXCEPT !.status = l.outcome, !.decidedBy = l.user]
          /\ \A q \in Requests : q # r => reqs'[q] = reqs[q]
          /\ reqs' \in [Requests -> Request \cup {None}]
      BY <1>1, <1>4, RecordStep
    <2>2. /\ reqs'[r].requester = reqs[r].requester
          /\ reqs'[r].incumbent = reqs[r].incumbent
          /\ reqs'[r].status = l.outcome /\ reqs'[r].decidedBy = l.user
      BY <2>1 DEF Request
    <2>3. Keeps
      BY <1>2, <2>1, <2>2, NullsOK DEF Keeps
    <2>4. (Pending \cup Unused) \ {r} \subseteq Pending' \cup Unused'
      BY <1>2, <2>1 DEF Pending, Unused
    <2>5. OthersKeep(w)
      BY <1>2, <2>4, LockedStays
    <2>6. Repointable("idle", NoLocal)'
      BY DEF Repointable
    <2>7. pc' \in [Procs -> Points] /\ loc' \in [Procs -> Local] /\ HandlersOK'
      BY <1>2, <2>3, <2>5, <2>6, IdleIsOK, StepHandlers DEF Finish
    <2>8. TypeOK'
      BY <1>2, <2>1, <2>7 DEF Inv, TypeOK
    <2>9. DeciderEntitled'
      <3>1. Entitled(l) /\ l.outcome \in {"approved", "rejected", "withdrawn"}
        BY <2>1 DEF LocalOK, Local
      <3>2. IF reqs'[r].status = "withdrawn" THEN reqs'[r].decidedBy = reqs'[r].requester
              ELSE Decider(reqs[r].decidedBy, r)'
        BY <2>2, <3>1 DEF Entitled, Decider
      <3>3. ASSUME NEW q \in Requests, reqs'[q] # None
            PROVE  CASE reqs'[q].status = "pending"   -> reqs'[q].decidedBy = None
                     [] reqs'[q].status = "withdrawn" -> reqs'[q].decidedBy = reqs'[q].requester
                     [] OTHER -> Decider(reqs[q].decidedBy, q)'
        <4>1. CASE q = r
          BY <2>2, <3>1, <3>2, <4>1 DEF Decider
        <4>2. CASE q # r
          BY <2>1, <3>3, <4>2 DEF Inv, DeciderEntitled, Decider
        <4>3. QED
          BY <4>1, <4>2
      <3>4. QED
        BY <3>3 DEF DeciderEntitled, Decider
    <2>10. QED
      BY <2>7, <2>8, <2>9 DEF Inv
  <1>5. QED
    BY <1>3, <1>4

LEMMA MarkInviteUsedInv == ASSUME Inv, NEW w \in Procs, MarkInviteUsed(w) PROVE Inv'
  <1>1. PICK l : l = loc[w]
    OBVIOUS
  <1> DEFINE i == l.invite
             new == [invs[i] EXCEPT !.usedBy = l.user]
  <1>2. /\ UNCHANGED <<name, stamp, rows, nextRow, reqs, edits, done>> /\ Finish(w)
        /\ i \notin Moving /\ pc[w] = "mark"
    BY <1>1 DEF MarkInviteUsed
  <1>3. l \in Local /\ LocalOK("mark", l)
    BY <1>1, HandlerHas DEF MarkInviteUsed
  <1>4. i \in Invites /\ invs[i] \in Invite /\ l.user \in Users
    BY <1>3 DEF LocalOK, ForInvite, Inv, TypeOK
  <1>5. invs' = [invs EXCEPT ![i] = new]
    BY <1>1, <1>4 DEF MarkInviteUsed, Inv, TypeOK
  <1>6. new \in Invite /\ new # None
    BY <1>4, NullsOK DEF Invite
  <1>7. invs' \in [Invites -> Invite \cup {None}] /\ Keeps
    BY <1>2, <1>5, <1>6 DEF Inv, TypeOK, Keeps
  <1>8. (Pending \cup Unused) \ {i} \subseteq Pending' \cup Unused'
    BY <1>2, <1>5 DEF Pending, Unused, Inv, TypeOK
  <1>9. OthersKeep(w)
    BY <1>2, <1>8, LockedStays
  <1>10. Repointable("idle", NoLocal)'
    BY DEF Repointable
  <1>11. pc' \in [Procs -> Points] /\ loc' \in [Procs -> Local] /\ HandlersOK'
    BY <1>2, <1>7, <1>9, <1>10, IdleIsOK, StepHandlers DEF Finish
  <1>12. TypeOK' /\ DeciderEntitled'
    BY <1>2, <1>7, <1>11 DEF Inv, TypeOK, DeciderEntitled, Decider
  <1>13. QED
    BY <1>11, <1>12 DEF Inv

LEMMA CreateInviteInv == ASSUME Inv, NEW w \in Procs, CreateInvite(w) PROVE Inv'
  <1>1. PICK i \in Invites, k \in {"role_claim", "replacement_request"}, pl \in Place :
           /\ invs[i] = None
           /\ invs' = [invs EXCEPT ![i] = [kind |-> k, place |-> pl, usedBy |-> None]]
    BY DEF CreateInvite
  <1>2. UNCHANGED <<name, stamp, rows, nextRow, reqs, edits, done, pc, loc>>
    BY DEF CreateInvite
  <1>3. [kind |-> k, place |-> pl, usedBy |-> None] \in Invite
    BY DEF Invite
  <1>4. invs' \in [Invites -> Invite \cup {None}] /\ Keeps
    BY <1>1, <1>2, <1>3, NullsOK DEF Inv, TypeOK, Keeps
  <1>5. Pending \subseteq Pending' /\ Unused \subseteq Unused'
    BY <1>1, <1>2 DEF Pending, Unused, Inv, TypeOK
  <1>6. HandlersOK'
    BY <1>2, <1>4, <1>5, TablesStep
  <1>7. TypeOK' /\ DeciderEntitled'
    BY <1>2, <1>4 DEF Inv, TypeOK, DeciderEntitled, Decider
  <1>8. QED
    BY <1>6, <1>7 DEF Inv

-----------------------------------------------------------------------------
(* Proposals *)

LEMMA ListedRows ==
    ASSUME Inv, NEW key \in Keys, NEW list \in ListsOf
    PROVE  Listed(key, list) \subseteq Row
  BY DEF Inv, TypeOK, Listed, ListsOf, Row

\* A step that changes no handler, no request and no invite.
LEMMA EntityStep ==
    ASSUME Inv, UNCHANGED <<reqs, invs, done, pc, loc>>,
           name' \in [Entities -> Names \cup {None, Gone}], stamp' \in [Entities -> Nat],
           rows' \subseteq Row, nextRow' \in Nat, edits' \in [Edits -> Edit \cup {None}],
           \A d \in Edits : edits[d] # None => edits'[d] # None
    PROVE  Inv'
  <1>1. Keeps /\ Pending \subseteq Pending' /\ Unused \subseteq Unused'
    BY DEF Keeps, Pending, Unused
  <1>2. HandlersOK'
    BY <1>1, TablesStep
  <1>3. TypeOK' /\ DeciderEntitled'
    BY DEF Inv, TypeOK, DeciderEntitled, Decider
  <1>4. QED
    BY <1>2, <1>3 DEF Inv

LEMMA FileEditInv == ASSUME Inv, NEW w \in Procs, FileEdit(w) PROVE Inv'
  <1> DEFINE New(e, n, list) ==
               [ent |-> e, name |-> n, list |-> list, stamp |-> stamp[e], open |-> TRUE,
                base |-> {r \in rows : r.key = KeyOf(e)}]
  <1>1. PICK d \in Edits, e \in Live, n \in Names, list \in ListsOf :
           edits[d] = None /\ edits' = [edits EXCEPT ![d] = New(e, n, list)]
    BY DEF FileEdit
  <1>2. UNCHANGED <<name, stamp, rows, nextRow, reqs, invs, done, pc, loc>>
    BY DEF FileEdit
  <1>3. New(e, n, list) \in Edit
    BY DEF Edit, Inv, TypeOK, Live, ListsOf
  <1>4. edits' \in [Edits -> Edit \cup {None}]
    BY <1>1, <1>3 DEF Inv, TypeOK
  <1>5. \A c \in Edits : edits[c] # None => edits'[c] # None
    BY <1>1 DEF Inv, TypeOK
  <1>6. QED
    BY <1>2, <1>4, <1>5, EntityStep DEF Inv, TypeOK

LEMMA ApplyCreateInv == ASSUME Inv, NEW w \in Procs, ApplyCreate(w) PROVE Inv'
  <1>1. PICK e \in Entities, n \in Names, list \in ListsOf :
           /\ name' = [name EXCEPT ![e] = n]
           /\ rows' = rows \cup Listed(IF e \in Parents THEN n ELSE e, list)
    BY DEF ApplyCreate
  <1>2. UNCHANGED <<stamp, reqs, invs, edits, done, pc, loc>> /\ nextRow' = nextRow + 1
    BY DEF ApplyCreate
  <1>3. (IF e \in Parents THEN n ELSE e) \in Keys
    BY DEF Entities, Keys
  <1>4. rows' \subseteq Row
    BY <1>1, <1>3, ListedRows DEF Inv, TypeOK
  <1>5. name' \in [Entities -> Names \cup {None, Gone}]
    BY <1>1 DEF Inv, TypeOK
  <1>6. QED
    BY <1>2, <1>4, <1>5, EntityStep DEF Inv, TypeOK

LEMMA ApplyDeleteInv == ASSUME Inv, NEW w \in Procs, ApplyDelete(w) PROVE Inv'
  <1>1. name' \in [Entities -> Names \cup {None, Gone}]
    BY DEF ApplyDelete, Inv, TypeOK
  <1>2. UNCHANGED <<stamp, rows, nextRow, reqs, invs, edits, done, pc, loc>>
    BY DEF ApplyDelete
  <1>3. QED
    BY <1>1, <1>2, EntityStep DEF Inv, TypeOK

\* A commit renames what pending requests and unused invites speak of, and nothing else of
\* either: its moved set holds no others.
RequestRenamed(r, l, n) ==
    \/ r \notin l.moved /\ reqs'[r] = reqs[r]
    \/ /\ r \in Pending /\ reqs[r] \in Request
       /\ reqs'[r] = [reqs[r] EXCEPT !.place = [reqs[r].place EXCEPT !.name = n]]
       /\ reqs'[r] \in Request

InviteRenamed(i, l, n) ==
    \/ i \notin l.moved /\ invs'[i] = invs[i]
    \/ /\ i \in Unused /\ invs[i] \in Invite
       /\ invs'[i] = [invs[i] EXCEPT !.place = [invs[i].place EXCEPT !.name = n]]
       /\ invs'[i] \in Invite

LEMMA CommitStep ==
    ASSUME Inv, NEW w \in Procs, ApplyCommit(w), NEW l, l = loc[w], NEW n,
           n = edits[l.edit].name
    PROVE  /\ l \in Local /\ l.edit \in Edits /\ edits[l.edit] \in Edit /\ n \in Names
           /\ \A r \in Requests : RequestRenamed(r, l, n)
           /\ \A i \in Invites : InviteRenamed(i, l, n)
           /\ reqs' = [r \in Requests |-> reqs'[r]] /\ invs' = [i \in Invites |-> invs'[i]]
  <1>1. l \in Local /\ LocalOK("commit", l) /\ Repointable("commit", l)
    BY HandlerHas DEF ApplyCommit, Inv, HandlersOK
  <1>2. l.edit \in Edits /\ edits[l.edit] \in Edit /\ n \in Names
    BY <1>1 DEF LocalOK, Inv, TypeOK, Edit
  <1>3. l.moved \cap Requests \subseteq Pending /\ l.moved \cap Invites \subseteq Unused
    BY <1>1, ConstantsOK DEF Repointable, Pending, Unused
  <1>4. /\ reqs' = [r \in Requests |-> IF r \in l.moved
                                     THEN [reqs[r] EXCEPT !.place.name = n] ELSE reqs[r]]
        /\ invs' = [i \in Invites |-> IF i \in l.moved
                                    THEN [invs[i] EXCEPT !.place.name = n] ELSE invs[i]]
    BY DEF ApplyCommit
  <1>5. ASSUME NEW r \in Requests PROVE RequestRenamed(r, l, n)
    <2>1. CASE r \in l.moved
      <3>1. r \in Pending /\ reqs[r] \in Request
        BY <1>3, <2>1 DEF Pending, Inv, TypeOK
      <3>2. reqs'[r] = [reqs[r] EXCEPT !.place = [reqs[r].place EXCEPT !.name = n]]
        BY <1>4, <2>1
      <3>3. [reqs[r].place EXCEPT !.name = n] \in Place
        BY <1>2, <3>1 DEF Request, Place
      <3>4. reqs'[r] \in Request
        BY <3>1, <3>2, <3>3 DEF Request
      <3>5. QED
        BY <3>1, <3>2, <3>4 DEF RequestRenamed
    <2>2. CASE r \notin l.moved
      BY <1>4, <2>2 DEF RequestRenamed
    <2>3. QED
      BY <2>1, <2>2
  <1>6. ASSUME NEW i \in Invites PROVE InviteRenamed(i, l, n)
    <2>1. CASE i \in l.moved
      <3>1. i \in Unused /\ invs[i] \in Invite
        BY <1>3, <2>1 DEF Unused, Inv, TypeOK
      <3>2. invs'[i] = [invs[i] EXCEPT !.place = [invs[i].place EXCEPT !.name = n]]
        BY <1>4, <2>1
      <3>3. [invs[i].place EXCEPT !.name = n] \in Place
        BY <1>2, <3>1 DEF Invite, Place
      <3>4. invs'[i] \in Invite
        BY <3>1, <3>2, <3>3 DEF Invite
      <3>5. QED
        BY <3>1, <3>2, <3>4 DEF InviteRenamed
    <2>2. CASE i \notin l.moved
      BY <1>4, <2>2 DEF InviteRenamed
    <2>3. QED
      BY <2>1, <2>2
  <1>7. reqs' = [r \in Requests |-> reqs'[r]] /\ invs' = [i \in Invites |-> invs'[i]]
    BY <1>4
  <1>8. QED
    BY <1>1, <1>2, <1>3, <1>5, <1>6, <1>7

LEMMA ApplyCommitInv == ASSUME Inv, NEW w \in Procs, ApplyCommit(w) PROVE Inv'
  <1>1. PICK l, n : l = loc[w] /\ n = edits[l.edit].name
    OBVIOUS
  <1> DEFINE d == l.edit
             e == edits[d].ent
  <1>2. /\ l \in Local /\ d \in Edits /\ edits[d] \in Edit /\ n \in Names
        /\ \A r \in Requests : RequestRenamed(r, l, n)
        /\ \A i \in Invites : InviteRenamed(i, l, n)
        /\ reqs' = [r \in Requests |-> reqs'[r]] /\ invs' = [i \in Invites |-> invs'[i]]
    BY <1>1, CommitStep
  <1>3. /\ name' = [name EXCEPT ![e] = n] /\ stamp' = [stamp EXCEPT ![e] = @ + 1]
        /\ rows' = (rows \ l.old) \cup Listed(IF e \in Parents THEN n ELSE e, edits[d].list)
        /\ nextRow' = nextRow + 1 /\ edits' = [edits EXCEPT ![d].open = FALSE]
        /\ done' = done /\ Finish(w)
    BY <1>1 DEF ApplyCommit, Target
  <1>4. e \in Entities /\ edits[d].list \in ListsOf
    BY <1>2 DEF Edit, ListsOf
  <1>5. ASSUME NEW r \in Requests, reqs[r] # None
        PROVE  /\ reqs'[r] # None /\ reqs'[r].requester = reqs[r].requester
               /\ reqs'[r].incumbent = reqs[r].incumbent
               /\ reqs'[r].status = reqs[r].status /\ reqs'[r].decidedBy = reqs[r].decidedBy
    BY <1>2, <1>5, NullsOK DEF RequestRenamed, Request
  <1>6. ASSUME NEW i \in Invites, invs[i] # None
        PROVE  invs'[i] # None /\ invs'[i].usedBy = invs[i].usedBy
    BY <1>2, <1>6, NullsOK DEF InviteRenamed, Invite
  <1>7. [edits[d] EXCEPT !.open = FALSE] \in Edit
    BY <1>2 DEF Edit
  <1>8. edits' \in [Edits -> Edit \cup {None}] /\ \A c \in Edits : edits[c] # None => edits'[c] # None
    BY <1>2, <1>3, <1>7, NullsOK DEF Inv, TypeOK
  <1>9. Keeps
    BY <1>3, <1>5, <1>6, <1>8 DEF Keeps
  <1>10. Pending \subseteq Pending' /\ Unused \subseteq Unused'
    BY <1>5, <1>6 DEF Pending, Unused
  <1>11. pc' \in [Procs -> Points] /\ loc' \in [Procs -> Local] /\ HandlersOK'
    BY <1>3, <1>9, <1>10, IdleIsOK, WriteStep DEF Finish
  <1>12. TypeOK'
    <2>1. reqs' \in [Requests -> Request \cup {None}] /\ invs' \in [Invites -> Invite \cup {None}]
      BY <1>2 DEF Inv, TypeOK, RequestRenamed, InviteRenamed
    <2>2. (IF e \in Parents THEN n ELSE e) \in Keys
      BY <1>2, <1>4 DEF Entities, Keys
    <2>3. rows' \subseteq Row /\ nextRow' \in Nat
      BY <1>3, <1>4, <2>2, ListedRows DEF Inv, TypeOK
    <2>4. name' \in [Entities -> Names \cup {None, Gone}] /\ stamp' \in [Entities -> Nat]
      BY <1>2, <1>3, <1>4 DEF Inv, TypeOK
    <2>5. QED
      BY <1>3, <1>8, <1>11, <2>1, <2>3, <2>4 DEF Inv, TypeOK
  <1>13. DeciderEntitled'
    <2>1. ASSUME NEW q \in Requests, reqs'[q] # None
          PROVE  CASE reqs'[q].status = "pending"   -> reqs'[q].decidedBy = None
                   [] reqs'[q].status = "withdrawn" -> reqs'[q].decidedBy = reqs'[q].requester
                   [] OTHER -> Decider(reqs[q].decidedBy, q)'
      <3>1. reqs[q] # None
        BY <1>2, <2>1 DEF RequestRenamed, Pending
      <3>2. QED
        BY <1>5, <3>1 DEF Inv, DeciderEntitled, Decider
    <2>2. QED
      BY <2>1 DEF DeciderEntitled, Decider
  <1>14. QED
    BY <1>11, <1>12, <1>13 DEF Inv

-----------------------------------------------------------------------------
(* Invariance *)

LEMMA NextInv == Inv /\ [Next]_vars => Inv'
  <1> SUFFICES ASSUME Inv, [Next]_vars PROVE Inv'
    OBVIOUS
  <1>1. CASE UNCHANGED vars
    <2>1. UNCHANGED <<reqs, invs, done, pc, loc, name, stamp, rows, nextRow, edits>>
      BY <1>1 DEF vars
    <2>2. QED
      BY <2>1, EntityStep DEF Inv, TypeOK
  <1>2. ASSUME NEW w \in Procs, Hand(w) PROVE Inv'
    BY <1>2, FileRequestInv, FileFromInviteInv, FileInsertInv, ResolveInv, ClearInv,
       ClearAfterWaitInv, InsertInv, ApproveInv, RejectInv, WithdrawInv, RecordInv,
       CreateInviteInv, AcceptInviteInv, MarkInviteUsedInv
    DEF Hand
  <1>3. ASSUME NEW w \in Procs, Edited(w) PROVE Inv'
    BY <1>3, FileEditInv, ApplyUpdateInv, RepointInv, ApplyCommitInv, ApplyCreateInv,
       ApplyDeleteInv
    DEF Edited
  <1>4. QED
    BY <1>1, <1>2, <1>3, AbortInv DEF Next

LEMMA Invariance == Spec => []Inv
  BY InitInv, NextInv, PTL DEF Spec

\* Types hold in every reachable state.
THEOREM ContactsTyped == Spec => []TypeOK
  <1>1. Inv => TypeOK
    BY DEF Inv
  <1>2. QED
    BY <1>1, Invariance, PTL

\* However many decide a request at once, the decision on record was made by somebody
\* entitled to make it (DecideReplacement, WithdrawReplacement).
THEOREM DecidersAreEntitled == Spec => []DeciderEntitled
  <1>1. Inv => DeciderEntitled
    BY DEF Inv
  <1>2. QED
    BY <1>1, Invariance, PTL

-----------------------------------------------------------------------------
(* What a step does to a request or an invite *)

\* The steps that change neither reqs nor done.
LEMMA RequestsAlone ==
    ASSUME Inv, [Next]_vars
    PROVE  \/ UNCHANGED <<reqs, done>>
           \/ \E w \in Procs : FileInsert(w) \/ Insert(w) \/ Record(w) \/ ApplyCommit(w)
  BY DEF Next, Hand, Edited, Abort, vars, tables, FileRequest, FileFromInvite, Resolve, Clear,
         ClearAfterWait, Approve, Reject, Withdraw, CreateInvite, AcceptInvite,
         MarkInviteUsed, FileEdit, ApplyUpdate, Repoint, ApplyCreate, ApplyDelete

\* The steps that change neither invs nor done.
LEMMA InvitesAlone ==
    ASSUME Inv, [Next]_vars
    PROVE  \/ UNCHANGED <<invs, done>>
           \/ \E w \in Procs : \/ FileInsert(w) \/ Insert(w) \/ CreateInvite(w)
                               \/ MarkInviteUsed(w) \/ ApplyCommit(w)
  BY DEF Next, Hand, Edited, Abort, vars, tables, FileRequest, FileFromInvite, Resolve, Clear,
         ClearAfterWait, Approve, Reject, Withdraw, Record, AcceptInvite,
         FileEdit, ApplyUpdate, Repoint, ApplyCreate, ApplyDelete

\* A decided request is history for every step, the repoint of a rename included: what an
\* open apply holds is pending, and its row lock keeps it so.
THEOREM HistoryIsKept == Spec => DecidedIsHistory
  <1>1. ASSUME Inv, [Next]_vars, NEW r \in Requests, reqs[r] # None, r \notin Pending
        PROVE  reqs'[r] = reqs[r]
    <2>1. ASSUME NEW w \in Procs, FileInsert(w) PROVE reqs'[r] = reqs[r]
      BY <1>1, <2>1 DEF FileInsert, Inv, TypeOK
    <2>2. ASSUME NEW w \in Procs, Record(w) PROVE reqs'[r] = reqs[r]
      BY <1>1, <2>2 DEF Record, Inv, TypeOK
    <2>3. ASSUME NEW w \in Procs, ApplyCommit(w) PROVE reqs'[r] = reqs[r]
      <3>1. PICK l, n : l = loc[w] /\ n = edits[l.edit].name
        OBVIOUS
      <3>2. RequestRenamed(r, l, n)
        BY <1>1, <2>3, <3>1, CommitStep
      <3>3. QED
        BY <1>1, <3>2 DEF RequestRenamed
    <2>4. ASSUME NEW w \in Procs, Insert(w) PROVE reqs'[r] = reqs[r]
      BY <2>4 DEF Insert
    <2>5. QED
      BY <1>1, <2>1, <2>2, <2>3, <2>4, RequestsAlone
  <1>2. Inv /\ [Next]_vars =>
          [\A r \in Requests : reqs[r] # None /\ r \notin Pending => reqs'[r] = reqs[r]]_vars
    BY <1>1
  <1>3. QED
    BY <1>2, Invariance, PTL DEF Spec, DecidedIsHistory

-----------------------------------------------------------------------------
(* Requests and invites are offers *)

\* What an instance of Offer must see: its stages are a function whatever happens.
LEMMA StageShapes ==
    /\ RequestStage = [r \in Requests |-> RequestStage[r]]
    /\ InviteStage = [i \in Invites |-> InviteStage[i]]
  BY DEF RequestStage, InviteStage

LEMMA RequestStageIs ==
    \A r \in Requests :
        /\ RequestStage[r] = "absent" <=> reqs[r] = None
        /\ RequestStage[r] = "open" <=> r \in Pending
        /\ reqs[r] # None /\ reqs[r].status = "approved" => RequestStage[r] = "taken"
        /\ reqs[r] # None /\ reqs[r].status \notin {"pending", "approved"}
              => RequestStage[r] = "refused"
  <1>1. ASSUME NEW r \in Requests, reqs[r] = None PROVE RequestStage[r] = "absent" /\ r \notin Pending
    BY <1>1 DEF RequestStage, Pending
  <1>2. ASSUME NEW r \in Requests, reqs[r] # None
        PROVE  RequestStage[r] = CASE reqs[r].status = "pending"  -> "open"
                                   [] reqs[r].status = "approved" -> "taken"
                                   [] OTHER -> "refused"
    BY <1>2 DEF RequestStage
  <1>3. ASSUME NEW r \in Requests, reqs[r] # None
        PROVE  /\ reqs[r].status = "pending" => RequestStage[r] = "open"
               /\ reqs[r].status = "approved" => RequestStage[r] = "taken"
               /\ reqs[r].status \notin {"pending", "approved"} => RequestStage[r] = "refused"
    BY <1>2, <1>3
  <1>4. QED
    BY <1>1, <1>3 DEF Pending

LEMMA InviteStageIs ==
    \A i \in Invites :
        /\ InviteStage[i] = "absent" <=> invs[i] = None
        /\ InviteStage[i] = "open" <=> i \in Unused
        /\ invs[i] # None /\ invs[i].usedBy # None => InviteStage[i] = "taken"
  BY DEF InviteStage, Unused

LEMMA RequestInit == Init => RequestOffers!Init
  BY DEF Init, RequestOffers!Init, RequestStage

LEMMA InviteInit == Init => InviteOffers!Init
  BY DEF Init, InviteOffers!Init, InviteStage

LEMMA FileInsertMakes ==
    ASSUME Inv, NEW w \in Procs, FileInsert(w)
    PROVE  RequestOffers!Next /\ (InviteOffers!Next \/ UNCHANGED InviteOffers!vars)
  <1>1. PICK l : l = loc[w]
    OBVIOUS
  <1>2. l \in Local /\ LocalOK("file", l)
    BY <1>1, HandlerHas DEF FileInsert
  <1> DEFINE q == [place |-> l.place, incumbent |-> l.holder, requester |-> l.taker,
                   about |-> Named(l.place.kind, l.place.name),
                   status |-> "pending", decidedBy |-> None]
  <1>3. PICK r \in Requests : reqs[r] = None /\ reqs' = [reqs EXCEPT ![r] = q]
    BY <1>1 DEF FileInsert
  <1>4. q \in Request /\ q # None
    BY <1>2, <1>3, NullsOK DEF LocalOK, Request, Named, Live
  <1>5. /\ invs' = invs
        /\ \/ l.invite = None /\ done' = done
           \/ l.invite # None /\ ForInvite(l) /\ done' = done \cup {l.invite}
    BY <1>1, <1>2 DEF FileInsert, LocalOK
  <1>6. done' \cap Requests = done \cap Requests
    BY <1>5, ConstantsOK DEF ForInvite
  <1>7. reqs'[r] = q /\ \A x \in Requests : x # r => reqs'[x] = reqs[x]
    BY <1>3 DEF Inv, TypeOK
  <1>8. RequestStage' = [RequestStage EXCEPT ![r] = "open"]
    <2>1. RequestStage'[r] = "open" /\ \A x \in Requests : x # r => RequestStage'[x] = RequestStage[x]
      BY <1>4, <1>7 DEF RequestStage
    <2>2. StageShapes'
      BY StageShapes, PTL
    <2>3. QED
      BY <2>1, <2>2, StageShapes
  <1>9. RequestOffers!Make(r)
    BY <1>3, <1>6, <1>8, RequestStageIs DEF RequestOffers!Make
  <1>10. InviteStage' = InviteStage
    BY <1>5 DEF InviteStage
  <1>11. CASE l.invite = None
    BY <1>5, <1>9, <1>10, <1>11 DEF RequestOffers!Next, InviteOffers!vars
  <1>12. CASE l.invite # None
    <2>1. l.invite \in Invites /\ InviteStage[l.invite] # "absent"
      BY <1>5, <1>12, InviteStageIs DEF ForInvite
    <2>2. done' \cap Invites = (done \cap Invites) \cup {l.invite}
      BY <1>5, <1>12, <2>1
    <2>3. InviteOffers!CarryOut(l.invite)
      BY <1>10, <2>1, <2>2 DEF InviteOffers!CarryOut
    <2>4. QED
      BY <1>9, <2>1, <2>3 DEF RequestOffers!Next, InviteOffers!Next
  <1>13. QED
    BY <1>11, <1>12

LEMMA InsertCarriesOut ==
    ASSUME Inv, NEW w \in Procs, Insert(w)
    PROVE  /\ RequestOffers!Next \/ UNCHANGED RequestOffers!vars
           /\ InviteOffers!Next \/ UNCHANGED InviteOffers!vars
  <1>1. PICK l : l = loc[w]
    OBVIOUS
  <1>2. l \in Local /\ LocalOK("insert", l)
    BY <1>1, HandlerHas DEF Insert
  <1>3. /\ reqs' = reqs /\ invs' = invs
        /\ \/ ForRequest(l) /\ done' = done \cup {l.request}
           \/ ForInvite(l) /\ done' = done \cup {l.invite}
    BY <1>1, <1>2 DEF Insert, LocalOK
  <1>4. RequestStage' = RequestStage /\ InviteStage' = InviteStage
    BY <1>3 DEF RequestStage, InviteStage
  <1>5. CASE ForRequest(l) /\ done' = done \cup {l.request}
    <2>1. l.request \in Requests /\ RequestStage[l.request] # "absent"
      BY <1>5, RequestStageIs DEF ForRequest
    <2>2. /\ done' \cap Requests = (done \cap Requests) \cup {l.request}
          /\ done' \cap Invites = done \cap Invites
      BY <1>5, <2>1, ConstantsOK
    <2>3. RequestOffers!CarryOut(l.request)
      BY <1>4, <2>1, <2>2 DEF RequestOffers!CarryOut
    <2>4. QED
      BY <1>4, <2>1, <2>2, <2>3 DEF RequestOffers!Next, InviteOffers!vars
  <1>6. CASE ForInvite(l) /\ done' = done \cup {l.invite}
    <2>1. l.invite \in Invites /\ InviteStage[l.invite] # "absent"
      BY <1>6, InviteStageIs DEF ForInvite
    <2>2. /\ done' \cap Invites = (done \cap Invites) \cup {l.invite}
          /\ done' \cap Requests = done \cap Requests
      BY <1>6, <2>1, ConstantsOK
    <2>3. InviteOffers!CarryOut(l.invite)
      BY <1>4, <2>1, <2>2 DEF InviteOffers!CarryOut
    <2>4. QED
      BY <1>4, <2>1, <2>2, <2>3 DEF InviteOffers!Next, RequestOffers!vars
  <1>7. QED
    BY <1>3, <1>5, <1>6

\* A decision closes the offer; an approval comes from a handler that carried it out.
LEMMA RecordCloses ==
    ASSUME Inv, NEW w \in Procs, Record(w)
    PROVE  RequestOffers!Next \/ UNCHANGED RequestOffers!vars
  <1>1. PICK l : l = loc[w]
    OBVIOUS
  <1> DEFINE r == l.request
  <1>2. done' = done /\ (r \notin Pending => reqs' = reqs)
    BY <1>1 DEF Record
  <1>3. CASE r \notin Pending
    BY <1>2, <1>3 DEF RequestOffers!vars, RequestStage
  <1>4. CASE r \in Pending
    <2>1. /\ l \in Local /\ LocalOK("record", l) /\ r \in Requests
          /\ reqs[r] \in Request /\ reqs'[r] \in Request
          /\ reqs'[r] = [reqs[r] EXCEPT !.status = l.outcome, !.decidedBy = l.user]
          /\ \A q \in Requests : q # r => reqs'[q] = reqs[q]
      BY <1>1, <1>4, RecordStep
    <2>2. reqs'[r] # None /\ reqs'[r].status = l.outcome
      BY <2>1, NullsOK DEF Request
    <2>3. l.outcome \in {"approved", "rejected", "withdrawn"} /\ (l.outcome = "approved" => r \in done)
      BY <2>1 DEF LocalOK, Local
    <2>4. PICK s : s = IF l.outcome = "approved" THEN "taken" ELSE "refused"
      OBVIOUS
    <2>5. RequestStage'[r] = s
      <3>1. RequestStageIs'
        BY RequestStageIs, PTL
      <3>2. QED
        BY <2>1, <2>2, <2>3, <2>4, <3>1
    <2>6. \A q \in Requests : q # r => RequestStage'[q] = RequestStage[q]
      BY <2>1 DEF RequestStage
    <2>7. RequestStage' = [RequestStage EXCEPT ![r] = s]
      <3>1. StageShapes'
        BY StageShapes, PTL
      <3>2. QED
        BY <2>1, <2>5, <2>6, <3>1, StageShapes
    <2>8. s \in IF r \in done \cap Requests THEN {"taken", "refused"} ELSE {"refused"}
      BY <2>1, <2>3, <2>4
    <2>9. RequestStage[r] = "open"
      BY <1>4, <2>1, RequestStageIs
    <2>10. RequestOffers!Close(r)
      BY <1>2, <2>7, <2>8, <2>9 DEF RequestOffers!Close
    <2>11. QED
      BY <2>1, <2>10 DEF RequestOffers!Next
  <1>5. QED
    BY <1>3, <1>4

LEMMA CreateInviteMakes ==
    ASSUME Inv, NEW w \in Procs, CreateInvite(w) PROVE InviteOffers!Next
  <1>1. PICK i \in Invites, k \in {"role_claim", "replacement_request"}, pl \in Place :
           /\ invs[i] = None
           /\ invs' = [invs EXCEPT ![i] = [kind |-> k, place |-> pl, usedBy |-> None]]
    BY DEF CreateInvite
  <1> DEFINE q == [kind |-> k, place |-> pl, usedBy |-> None]
  <1>2. q # None /\ q.usedBy = None /\ done' = done
    BY NullsOK DEF CreateInvite, Invite
  <1>3. invs'[i] = q /\ \A x \in Invites : x # i => invs'[x] = invs[x]
    BY <1>1 DEF Inv, TypeOK
  <1>4. InviteStage' = [InviteStage EXCEPT ![i] = "open"]
    BY <1>1, <1>2, <1>3 DEF InviteStage
  <1>5. InviteOffers!Make(i)
    BY <1>1, <1>2, <1>4, InviteStageIs DEF InviteOffers!Make
  <1>6. QED
    BY <1>5 DEF InviteOffers!Next

\* Marking an invite used closes the offer, or finds it closed by another accept.
LEMMA MarkCloses ==
    ASSUME Inv, NEW w \in Procs, MarkInviteUsed(w)
    PROVE  InviteOffers!Next \/ UNCHANGED InviteOffers!vars
  <1>1. PICK l : l = loc[w]
    OBVIOUS
  <1> DEFINE i == l.invite
  <1>2. l \in Local /\ LocalOK("mark", l) /\ done' = done
    BY <1>1, HandlerHas DEF MarkInviteUsed
  <1>3. i \in Invites /\ invs[i] # None /\ invs[i] \in Invite /\ l.user \in Users /\ i \in done
    BY <1>2 DEF LocalOK, ForInvite, Inv, TypeOK
  <1>4. /\ invs'[i] = [invs[i] EXCEPT !.usedBy = l.user]
        /\ \A x \in Invites : x # i => invs'[x] = invs[x]
    BY <1>1, <1>3 DEF MarkInviteUsed, Inv, TypeOK
  <1>5. invs'[i].usedBy # None /\ invs'[i] # None
    BY <1>3, <1>4, NullsOK DEF Invite
  <1>6. InviteStage' = [InviteStage EXCEPT ![i] = "taken"]
    BY <1>3, <1>4, <1>5 DEF InviteStage
  <1>7. CASE i \in Unused
    <2>1. InviteStage[i] = "open"
      BY <1>3, <1>7, InviteStageIs
    <2>2. InviteOffers!Close(i)
      BY <1>2, <1>3, <1>6, <2>1 DEF InviteOffers!Close
    <2>3. QED
      BY <1>3, <2>2 DEF InviteOffers!Next
  <1>8. CASE i \notin Unused
    <2>1. InviteStage[i] = "taken"
      BY <1>3, <1>8, InviteStageIs DEF Unused
    <2>2. InviteStage' = InviteStage
      BY <1>6, <2>1, StageShapes
    <2>3. QED
      BY <1>2, <2>2 DEF InviteOffers!vars
  <1>9. QED
    BY <1>7, <1>8

LEMMA CommitStutters ==
    ASSUME Inv, NEW w \in Procs, ApplyCommit(w)
    PROVE  UNCHANGED RequestOffers!vars /\ UNCHANGED InviteOffers!vars
  <1>1. PICK l, n : l = loc[w] /\ n = edits[l.edit].name
    OBVIOUS
  <1>2. /\ \A r \in Requests : RequestRenamed(r, l, n)
        /\ \A i \in Invites : InviteRenamed(i, l, n)
    BY <1>1, CommitStep
  <1>3. ASSUME NEW r \in Requests
        PROVE  /\ reqs'[r] = None <=> reqs[r] = None
               /\ reqs[r] # None => reqs'[r].status = reqs[r].status
    <2>1. CASE reqs'[r] = reqs[r]
      BY <2>1
    <2>2. CASE /\ r \in Pending /\ reqs[r] \in Request /\ reqs'[r] \in Request
               /\ reqs'[r] = [reqs[r] EXCEPT !.place = [reqs[r].place EXCEPT !.name = n]]
      <3>1. reqs[r] # None /\ reqs'[r] # None
        BY <2>2, NullsOK
      <3>2. reqs'[r].status = reqs[r].status
        BY <2>2 DEF Request
      <3>3. QED
        BY <3>1, <3>2
    <2>3. QED
      BY <1>2, <2>1, <2>2 DEF RequestRenamed
  <1>4. ASSUME NEW i \in Invites
        PROVE  /\ invs'[i] = None <=> invs[i] = None
               /\ invs[i] # None => invs'[i].usedBy = invs[i].usedBy
    <2>1. CASE invs'[i] = invs[i]
      BY <2>1
    <2>2. CASE /\ i \in Unused /\ invs[i] \in Invite /\ invs'[i] \in Invite
               /\ invs'[i] = [invs[i] EXCEPT !.place = [invs[i].place EXCEPT !.name = n]]
      <3>1. invs[i] # None /\ invs'[i] # None
        BY <2>2, NullsOK
      <3>2. invs'[i].usedBy = invs[i].usedBy
        BY <2>2 DEF Invite
      <3>3. QED
        BY <3>1, <3>2
    <2>3. QED
      BY <1>2, <2>1, <2>2 DEF InviteRenamed
  <1>5. RequestStage' = RequestStage
    BY <1>3 DEF RequestStage
  <1>6. InviteStage' = InviteStage
    BY <1>4 DEF InviteStage
  <1>7. done' = done
    BY DEF ApplyCommit
  <1>8. QED
    BY <1>5, <1>6, <1>7 DEF RequestOffers!vars, InviteOffers!vars

\* Every request implements an offer: pending until decided, then history, and approved on
\* record only once the slot was handed over, for any number of handlers.
THEOREM RequestsImplementOffers == Spec => RequestsAreOffers
  <1>1. Inv /\ [Next]_vars => [RequestOffers!Next]_(RequestOffers!vars)
    <2> SUFFICES ASSUME Inv, [Next]_vars
                 PROVE  RequestOffers!Next \/ UNCHANGED RequestOffers!vars
      BY DEF RequestOffers!vars
    <2>1. CASE UNCHANGED <<reqs, done>>
      BY <2>1 DEF RequestOffers!vars, RequestStage
    <2>2. QED
      BY <2>1, RequestsAlone, FileInsertMakes, InsertCarriesOut, RecordCloses, CommitStutters
  <1>2. QED
    BY RequestInit, <1>1, Invariance, PTL DEF Spec, RequestsAreOffers, RequestOffers!Spec

\* Every invite implements an offer: once used it stays used, and used on record only once
\* the slot was taken or the request filed, however many accept it.
THEOREM InvitesImplementOffers == Spec => InvitesAreOffers
  <1>1. Inv /\ [Next]_vars => [InviteOffers!Next]_(InviteOffers!vars)
    <2> SUFFICES ASSUME Inv, [Next]_vars
                 PROVE  InviteOffers!Next \/ UNCHANGED InviteOffers!vars
      BY DEF InviteOffers!vars
    <2>1. CASE UNCHANGED <<invs, done>>
      BY <2>1 DEF InviteOffers!vars, InviteStage
    <2>2. QED
      BY <2>1, InvitesAlone, FileInsertMakes, InsertCarriesOut, CreateInviteMakes,
         MarkCloses, CommitStutters
  <1>2. QED
    BY InviteInit, <1>1, Invariance, PTL DEF Spec, InvitesAreOffers, InviteOffers!Spec

-----------------------------------------------------------------------------
(* Names, and what hangs on a resource's id *)

NewName(w) == edits[loc[w].edit].name

\* Live entities of a kind have names of their own, and no open apply is about to give one
\* that another has or is about to get.
NamesApart == \A e, f \in Live : KindOf(e) = KindOf(f) /\ name[e] = name[f] => e = f

TargetOK(w) ==
    /\ Target(w) \in Live
    /\ pc[w] = "repoint" => Target(w) \in Parents
    /\ \A e \in Live : KindOf(e) = KindOf(Target(w)) /\ name[e] = NewName(w) => e = Target(w)

TargetsApart ==
    \A v, w \in Applying : v # w =>
        /\ Target(v) # Target(w)
        /\ KindOf(Target(v)) = KindOf(Target(w)) => NewName(v) # NewName(w)

NamesInv == NamesApart /\ (\A w \in Applying : TargetOK(w)) /\ TargetsApart

Step(w) == Hand(w) \/ Edited(w) \/ Abort(w)

LEMMA NextIsStep == [Next]_vars => (\E w \in Procs : Step(w)) \/ UNCHANGED vars
  BY DEF Next, Step

\* A step moves one handler at most.
LEMMA OthersStand ==
    ASSUME Inv, NEW w \in Procs, Step(w), NEW v \in Procs, v # w
    PROVE  pc'[v] = pc[v] /\ loc'[v] = loc[v]
  <1>1. ASSUME NEW p, NEW l, Goto(w, p, l) PROVE pc'[v] = pc[v] /\ loc'[v] = loc[v]
    BY <1>1 DEF Goto, Inv, TypeOK
  <1>2. CASE Hand(w)
    BY <1>1, <1>2
    DEF Hand, FileRequest, FindIncumbent, FileFromInvite, FileInsert, Finish, Resolve, Clear,
        ClearAfterWait, Insert, Approve, TakeOver, Reject, Withdraw, Record, CreateInvite,
        AcceptInvite, MarkInviteUsed
  <1>3. CASE Edited(w)
    BY <1>1, <1>3
    DEF Edited, FileEdit, ApplyUpdate, Repoint, ApplyCommit, ApplyCreate, ApplyDelete, Finish
  <1>4. CASE Abort(w)
    BY <1>1, <1>4 DEF Abort, Finish
  <1>5. QED
    BY <1>2, <1>3, <1>4 DEF Step

\* No hand-off opens an apply.
LEMMA HandsApplyNothing ==
    ASSUME Inv, NEW w \in Procs, Hand(w) PROVE pc'[w] \notin {"repoint", "commit"}
  <1>1. ASSUME NEW p, NEW l, Goto(w, p, l) PROVE pc'[w] = p
    BY <1>1 DEF Goto, Inv, TypeOK
  <1>2. ASSUME NEW l, FindIncumbent(w, l) PROVE pc'[w] = "file"
    BY <1>1, <1>2 DEF FindIncumbent
  <1>3. ASSUME NEW l, TakeOver(w, l) PROVE pc'[w] \in {"resolve", "clear"}
    BY <1>1, <1>3 DEF TakeOver
  <1>4. CASE FileRequest(w) \/ FileFromInvite(w)
    BY <1>1, <1>2, <1>4 DEF FileRequest, FileFromInvite, Finish
  <1>5. CASE FileInsert(w)
    BY <1>1, <1>5 DEF FileInsert, Finish
  <1>6. CASE Resolve(w)
    BY <1>1, <1>6 DEF Resolve, Finish
  <1>7. CASE Clear(w) \/ ClearAfterWait(w) \/ Insert(w)
    BY <1>1, <1>7 DEF Clear, ClearAfterWait, Insert
  <1>8. CASE Approve(w)
    BY <1>3, <1>8 DEF Approve
  <1>9. CASE AcceptInvite(w)
    BY <1>1, <1>3, <1>9 DEF AcceptInvite
  <1>10. CASE Reject(w) \/ Withdraw(w) \/ Record(w) \/ MarkInviteUsed(w)
    BY <1>1, <1>10 DEF Reject, Withdraw, Record, MarkInviteUsed, Finish
  <1>11. CASE CreateInvite(w)
    BY <1>11 DEF CreateInvite
  <1>12. QED
    BY <1>4, <1>5, <1>6, <1>7, <1>8, <1>9, <1>10, <1>11 DEF Hand

\* What an edit proposes does not change.
LEMMA EditsStand ==
    ASSUME Inv, NEW w \in Procs, Step(w), NEW d \in Edits, edits[d] # None
    PROVE  edits'[d] # None /\ edits'[d].ent = edits[d].ent /\ edits'[d].name = edits[d].name
  <1>1. edits[d] \in Edit
    BY DEF Inv, TypeOK
  <1>2. CASE FileEdit(w)
    BY <1>2 DEF FileEdit, Inv, TypeOK
  <1>3. CASE ApplyCommit(w)
    <2>1. PICK c : edits' = [edits EXCEPT ![c].open = FALSE]
      BY <1>3 DEF ApplyCommit
    <2>2. edits'[d] = edits[d] \/ edits'[d] = [edits[d] EXCEPT !.open = FALSE]
      BY <2>1 DEF Inv, TypeOK
    <2>3. [edits[d] EXCEPT !.open = FALSE] \in Edit
      BY <1>1 DEF Edit
    <2>4. QED
      BY <1>1, <2>2, <2>3, NullsOK DEF Edit
  <1>4. CASE edits' = edits
    BY <1>4
  <1>5. QED
    BY <1>2, <1>3, <1>4
    DEF Step, Hand, Edited, Abort, tables, FileRequest, FileFromInvite, FileInsert, Resolve,
        Clear, ClearAfterWait, Insert, Approve, Reject, Withdraw, Record, CreateInvite,
        AcceptInvite, MarkInviteUsed, ApplyUpdate, Repoint, ApplyCreate, ApplyDelete

\* An apply that is open after a step was open before it, for the same change, or was opened
\* by it.
LEMMA InFlight ==
    ASSUME Inv, NEW w \in Procs, Step(w), NEW v \in Applying'
    PROVE  \/ v = w /\ ApplyUpdate(w)
           \/ /\ v \in Applying /\ Target(v)' = Target(v) /\ NewName(v)' = NewName(v)
              /\ loc'[v].old = loc[v].old
              /\ \/ pc'[v] = pc[v] /\ loc'[v] = loc[v]
                 \/ v = w /\ Repoint(w) /\ pc[v] = "repoint" /\ pc'[v] = "commit"
  <1>1. v \in Procs /\ pc'[v] \in {"repoint", "commit"}
    BY DEF Applying
  <1>2. ASSUME v \in Applying, loc'[v].edit = loc[v].edit
        PROVE  Target(v)' = Target(v) /\ NewName(v)' = NewName(v)
    <2>1. loc[v].edit \in Edits /\ edits[loc[v].edit] # None
      BY <1>2, HandlerHas DEF Applying, LocalOK
    <2>2. QED
      BY <1>2, <2>1, EditsStand DEF Target, NewName
  <1>3. CASE v # w
    <2>1. pc'[v] = pc[v] /\ loc'[v] = loc[v] /\ v \in Applying
      BY <1>1, <1>3, OthersStand DEF Applying
    <2>2. QED
      BY <1>2, <2>1
  <1>4. CASE v = w /\ Hand(w)
    BY <1>1, <1>4, HandsApplyNothing
  <1>5. CASE v = w /\ ~Hand(w) /\ ~ApplyUpdate(w)
    <2>1. Repoint(w)
      BY <1>1, <1>5
      DEF Step, Edited, Abort, Finish, Goto, FileEdit, ApplyCommit, ApplyCreate, ApplyDelete,
          Inv, TypeOK
    <2>2. PICK l, m : l = loc[w] /\ Goto(w, "commit", [l EXCEPT !.moved = m])
      BY <2>1 DEF Repoint
    <2>3. pc[w] = "repoint" /\ pc'[w] = "commit" /\ loc'[w] = [l EXCEPT !.moved = m]
      BY <2>1, <2>2 DEF Repoint, Goto, Inv, TypeOK
    <2>4. l \in Local
      BY <2>2, HandlerHas
    <2>5. loc'[w].edit = loc[w].edit /\ loc'[w].old = loc[w].old
      BY <2>2, <2>3, <2>4 DEF Local
    <2>6. v \in Applying
      BY <1>1, <1>5, <2>3 DEF Applying
    <2>7. QED
      BY <1>2, <1>5, <2>1, <2>3, <2>5, <2>6
  <1>6. QED
    BY <1>3, <1>4, <1>5

\* What each step does to the names: an open apply gives its own entity the name it asked for,
\* a create takes a free one, a delete ends one.
Renames(w, e, n) ==
    /\ e \in Entities /\ n \in Names \cup {Gone}
    /\ name'[e] = n /\ \A f \in Entities : f # e => name'[f] = name[f]

LEMMA NamesStep ==
    ASSUME Inv, NamesInv, NEW w \in Procs, Step(w)
    PROVE  \/ name' = name
           \/ /\ ApplyCommit(w) /\ w \in Applying /\ w \notin Applying'
              /\ Renames(w, Target(w), NewName(w)) /\ NewName(w) \in Names
           \/ /\ ApplyCreate(w) /\ \E e \in Entities, n \in Names :
                    Renames(w, e, n) /\ name[e] = None /\ ~Taken(KindOf(e), n)
           \/ ApplyDelete(w) /\ \E e \in Live : Renames(w, e, Gone) /\ ~Busy(e)
  <1>1. CASE ApplyCommit(w)
    <2>1. PICK l, n : l = loc[w] /\ n = edits[l.edit].name
      OBVIOUS
    <2>2. l.edit \in Edits /\ edits[l.edit] \in Edit /\ n \in Names
      BY <1>1, <2>1, CommitStep
    <2>3. edits[l.edit].ent \in Entities
      BY <2>2 DEF Edit
    <2>4. name' = [name EXCEPT ![Target(w)] = n] /\ n = NewName(w)
      BY <1>1, <2>1 DEF ApplyCommit, NewName
    <2>5. Renames(w, Target(w), NewName(w))
      BY <2>1, <2>2, <2>3, <2>4 DEF Renames, Target, Inv, TypeOK
    <2>6. w \in Applying /\ w \notin Applying'
      BY <1>1 DEF ApplyCommit, Applying, Finish, Goto, Inv, TypeOK
    <2>7. QED
      BY <1>1, <2>2, <2>4, <2>5, <2>6
  <1>2. CASE ApplyCreate(w)
    <2>1. PICK e \in Entities, n \in Names :
             name[e] = None /\ ~Taken(KindOf(e), n) /\ name' = [name EXCEPT ![e] = n]
      BY <1>2 DEF ApplyCreate
    <2>2. Renames(w, e, n)
      BY <2>1 DEF Renames, Inv, TypeOK
    <2>3. QED
      BY <1>2, <2>1, <2>2
  <1>3. CASE ApplyDelete(w)
    BY <1>3 DEF ApplyDelete, Renames, Live, Inv, TypeOK
  <1>4. CASE ~ApplyCommit(w) /\ ~ApplyCreate(w) /\ ~ApplyDelete(w)
    BY <1>4
    DEF Step, Hand, Edited, Abort, tables, FileRequest, FileFromInvite, FileInsert, Resolve,
        Clear, ClearAfterWait, Insert, Approve, Reject, Withdraw, Record, CreateInvite,
        AcceptInvite, MarkInviteUsed, FileEdit, ApplyUpdate, Repoint
  <1>5. QED
    BY <1>1, <1>2, <1>3, <1>4

\* What an approval checked before it opened its transaction.
LEMMA UpdateOpens ==
    ASSUME Inv, NEW w \in Procs, ApplyUpdate(w)
    PROVE  \E d \in Edits, e \in Live :
              /\ e = edits[d].ent /\ edits[d] # None /\ ~Busy(e)
              /\ edits[d].name = name[e] \/ ~Taken(KindOf(e), edits[d].name)
              /\ loc'[w] = [NoLocal EXCEPT !.edit = d, !.old = {r \in rows : r.key = KeyOf(e)}]
              /\ pc'[w] = IF e \in Parents THEN "repoint" ELSE "commit"
              /\ Target(w)' = e /\ NewName(w)' = edits[d].name
              /\ loc'[w].moved = {} /\ loc'[w].old = {r \in rows : r.key = KeyOf(e)}
              /\ UNCHANGED tables /\ w \notin Applying
  <1>1. PICK d \in Edits :
          /\ edits[d] # None
          /\ edits[d].ent \in Live /\ ~Busy(edits[d].ent)
          /\ \/ edits[d].name = name[edits[d].ent]
             \/ ~Taken(KindOf(edits[d].ent), edits[d].name)
          /\ Goto(w, IF edits[d].ent \in Parents THEN "repoint" ELSE "commit",
                  [NoLocal EXCEPT !.edit = d, !.old = {r \in rows : r.key = KeyOf(edits[d].ent)}])
    BY DEF ApplyUpdate
  <1>2. UNCHANGED tables /\ w \notin Applying
    BY DEF ApplyUpdate, Applying
  <1> DEFINE l == [NoLocal EXCEPT !.edit = d, !.old = {r \in rows : r.key = KeyOf(edits[d].ent)}]
  <1>3. loc'[w] = l /\ pc'[w] = IF edits[d].ent \in Parents THEN "repoint" ELSE "commit"
    BY <1>1 DEF Goto, Inv, TypeOK
  <1>4. l.edit = d /\ l.moved = {} /\ l.old = {r \in rows : r.key = KeyOf(edits[d].ent)}
    BY DEF NoLocal
  <1>5. Target(w)' = edits[d].ent /\ NewName(w)' = edits[d].name
    BY <1>2, <1>3, <1>4 DEF Target, NewName, tables
  <1>6. QED
    BY <1>1, <1>2, <1>3, <1>4, <1>5

LEMMA LiveFacts ==
    \A e : /\ e \in Live <=> e \in Entities /\ name[e] \in Names
           /\ (e \in Live)' <=> e \in Entities /\ name'[e] \in Names
  BY DEF Live

LEMMA TakenFacts ==
    ASSUME NEW k, NEW n, ~Taken(k, n)
    PROVE  /\ \A e \in Live : KindOf(e) = k => name[e] # n
           /\ \A v \in Applying : KindOf(Target(v)) = k => NewName(v) # n
  BY DEF Taken, Named, Target, NewName

LEMMA NamesInvStep == ASSUME Inv, NamesInv, [Next]_vars PROVE NamesInv'
  <1>1. CASE UNCHANGED vars
    BY <1>1
    DEF vars, NamesInv, NamesApart, Live, TargetOK, TargetsApart, Applying, Target, NewName
  <1>2. ASSUME NEW w \in Procs, Step(w) PROVE NamesInv'
    <2>1. NamesApart'
      <3>1. SUFFICES ASSUME NEW e \in Live', NEW f \in Live', KindOf(e) = KindOf(f),
                            name'[e] = name'[f], e # f
                     PROVE  FALSE
        BY DEF NamesApart
      <3>2. e \in Entities /\ f \in Entities /\ name'[e] \in Names
        BY LiveFacts
      <3>3. CASE name' = name
        BY <3>1, <3>2, <3>3, LiveFacts DEF NamesInv, NamesApart
      <3>4. CASE ApplyCommit(w) /\ w \in Applying /\ Renames(w, Target(w), NewName(w))
        <4>1. TargetOK(w) /\ NamesApart
          BY <3>4 DEF NamesInv
        <4>2. QED
          BY <3>1, <3>2, <3>4, <4>1, LiveFacts DEF Renames, TargetOK, NamesApart
      <3>5. ASSUME NEW g \in Entities, NEW n \in Names, Renames(w, g, n), ~Taken(KindOf(g), n)
            PROVE  FALSE
        BY <3>1, <3>2, <3>5, LiveFacts, TakenFacts DEF Renames, NamesInv, NamesApart
      <3>6. ASSUME NEW g \in Live, Renames(w, g, Gone) PROVE FALSE
        BY <3>1, <3>2, <3>6, LiveFacts, NullsOK DEF Renames, NamesInv, NamesApart
      <3>7. QED
        BY <1>2, <3>3, <3>4, <3>5, <3>6, NamesStep
    <2>2. ASSUME NEW v \in Applying' PROVE TargetOK(v)'
      <3>1. v \in Procs
        BY DEF Applying
      <3>2. CASE v = w /\ ApplyUpdate(w)
        <4>1. PICK d \in Edits, e \in Live :
                /\ e = edits[d].ent
                /\ edits[d].name = name[e] \/ ~Taken(KindOf(e), edits[d].name)
                /\ pc'[w] = IF e \in Parents THEN "repoint" ELSE "commit"
                /\ Target(w)' = e /\ NewName(w)' = edits[d].name
                /\ UNCHANGED tables
          BY <3>2, UpdateOpens
        <4>2. \A f \in Live : KindOf(f) = KindOf(e) /\ name[f] = edits[d].name => f = e
          BY <4>1, TakenFacts DEF NamesInv, NamesApart
        <4>3. Live' = Live /\ name' = name
          BY <4>1 DEF tables, Live
        <4>4. QED
          BY <3>2, <4>1, <4>2, <4>3 DEF TargetOK
      <3>3. CASE /\ v \in Applying /\ Target(v)' = Target(v) /\ NewName(v)' = NewName(v)
                 /\ pc'[v] = "repoint" => pc[v] = "repoint"
        <4> DEFINE t == Target(v)
        <4>1. TargetOK(v) /\ t \in Entities /\ name[t] \in Names
          BY <3>3, LiveFacts DEF NamesInv, TargetOK
        <4>2. name'[t] \in Names
          <5>1. CASE name' = name
            BY <4>1, <5>1
          <5>2. CASE Renames(w, Target(w), NewName(w)) /\ NewName(w) \in Names
            BY <4>1, <5>2 DEF Renames
          <5>3. ASSUME NEW e \in Entities, NEW n \in Names, Renames(w, e, n) PROVE name'[t] \in Names
            BY <4>1, <5>3 DEF Renames
          <5>4. ASSUME NEW e \in Live, Renames(w, e, Gone), ~Busy(e) PROVE name'[t] \in Names
            BY <3>3, <4>1, <5>4 DEF Renames, Busy, Target
          <5>5. QED
            BY <1>2, <5>1, <5>2, <5>3, <5>4, NamesStep
        <4>3. ASSUME NEW f \in Live', KindOf(f) = KindOf(t), name'[f] = NewName(v), f # t
              PROVE  FALSE
          <5>1. f \in Entities /\ name'[f] \in Names
            BY LiveFacts
          <5>2. name[f] # NewName(v) \/ f \notin Live
            BY <4>1, <4>3 DEF TargetOK
          <5>3. name'[f] # name[f]
            BY <4>3, <5>1, <5>2, LiveFacts
          <5>4. CASE /\ w \in Applying /\ w \notin Applying'
                     /\ Renames(w, Target(w), NewName(w))
            <6>1. f = Target(w) /\ NewName(w) = NewName(v)
              BY <4>3, <5>1, <5>3, <5>4 DEF Renames
            <6>2. v # w
              BY <5>4
            <6>3. QED
              BY <3>3, <4>3, <5>4, <6>1, <6>2 DEF NamesInv, TargetsApart
          <5>5. ASSUME NEW e \in Entities, NEW n \in Names, Renames(w, e, n), ~Taken(KindOf(e), n)
                PROVE  FALSE
            <6>1. f = e /\ n = NewName(v)
              BY <4>3, <5>1, <5>3, <5>5 DEF Renames
            <6>2. QED
              BY <3>3, <4>3, <5>5, <6>1, TakenFacts
          <5>6. ASSUME NEW e \in Live, Renames(w, e, Gone) PROVE FALSE
            BY <5>1, <5>3, <5>6, NullsOK DEF Renames
          <5>7. QED
            BY <1>2, <5>3, <5>4, <5>5, <5>6, NamesStep
        <4>4. QED
          BY <3>3, <4>1, <4>2, <4>3, LiveFacts DEF TargetOK
      <3>4. QED
        BY <1>2, <3>2, <3>3, InFlight
    <2>3. TargetsApart'
      <3>1. SUFFICES ASSUME NEW u \in Applying', NEW v \in Applying', u # v
                     PROVE  /\ Target(u)' # Target(v)'
                            /\ KindOf(Target(u)') = KindOf(Target(v)') => NewName(u)' # NewName(v)'
        BY DEF TargetsApart
      <3>2. ASSUME NEW x \in Applying', x # w \/ ~ApplyUpdate(w)
            PROVE  x \in Applying /\ Target(x)' = Target(x) /\ NewName(x)' = NewName(x)
        BY <1>2, <3>2, InFlight
      <3>3. CASE ~ApplyUpdate(w) \/ (u # w /\ v # w)
        BY <3>1, <3>2, <3>3 DEF NamesInv, TargetsApart
      <3>4. ASSUME NEW x \in Applying', x # w, ApplyUpdate(w)
            PROVE  /\ Target(x)' # Target(w)'
                   /\ KindOf(Target(x)') = KindOf(Target(w)') => NewName(x)' # NewName(w)'
        <4>1. PICK d \in Edits, e \in Live :
                /\ e = edits[d].ent /\ ~Busy(e)
                /\ edits[d].name = name[e] \/ ~Taken(KindOf(e), edits[d].name)
                /\ Target(w)' = e /\ NewName(w)' = edits[d].name
          BY <3>4, UpdateOpens
        <4>2. x \in Applying /\ Target(x)' = Target(x) /\ NewName(x)' = NewName(x)
          BY <3>2, <3>4
        <4>3. Target(x) # e
          BY <4>1, <4>2 DEF Busy, Target
        <4>4. KindOf(Target(x)) = KindOf(e) => NewName(x) # edits[d].name
          <5>1. CASE edits[d].name = name[e]
            BY <4>2, <4>3, <5>1 DEF NamesInv, TargetOK
          <5>2. CASE ~Taken(KindOf(e), edits[d].name)
            BY <4>2, <5>2, TakenFacts
          <5>3. QED
            BY <4>1, <5>1, <5>2
        <4>5. QED
          BY <4>1, <4>2, <4>3, <4>4
      <3>5. QED
        BY <3>1, <3>3, <3>4
    <2>4. QED
      BY <2>1, <2>2, <2>3 DEF NamesInv
  <1>3. QED
    BY <1>1, <1>2, NextIsStep

LEMMA NamesInvInit == Init => NamesInv
  <1> SUFFICES ASSUME Init PROVE NamesInv
    OBVIOUS
  <1>1. Applying = {}
    BY DEF Init, Applying
  <1>2. NamesApart
    BY StartOK, ConstantsOK, NullsOK DEF Init, NamesApart, Live
  <1>3. QED
    BY <1>1, <1>2 DEF NamesInv, TargetsApart

LEMMA NamesHold == Spec => []NamesInv
  BY NamesInvInit, NamesInvStep, Invariance, PTL DEF Spec

\* What has existed has a name, or is gone, from then on.
LEMMA NamesStay ==
    ASSUME Inv, NamesInv, NEW w \in Procs, Step(w), NEW e \in Entities, name[e] # None
    PROVE  name'[e] # None
  <1>1. ASSUME NEW f, NEW n, Renames(w, f, n) PROVE name'[e] # None
    BY <1>1, NullsOK DEF Renames
  <1>2. QED
    BY <1>1, NamesStep

\* How a handler gets to a replacement, and through it.
LEMMA TakingOver ==
    ASSUME Inv, NEW w \in Procs, Step(w), pc'[w] \in {"clear", "wait", "insert"}
    PROVE  \/ pc'[w] = "clear" /\ loc'[w].key \in Names
           \/ pc'[w] = "clear" /\ loc'[w].key \in Live
           \/ /\ Clear(w) \/ ClearAfterWait(w)
              /\ pc[w] \in {"clear", "wait"} /\ pc'[w] \in {"wait", "insert"}
              /\ loc'[w].key = loc[w].key /\ loc'[w].place = loc[w].place
              /\ loc'[w].taker = loc[w].taker /\ loc'[w].invite = loc[w].invite
              /\ loc'[w].request = loc[w].request /\ loc'[w].outcome = loc[w].outcome
  <1>1. ASSUME NEW p, NEW l, Goto(w, p, l) PROVE pc'[w] = p /\ loc'[w] = l
    BY <1>1 DEF Goto, Inv, TypeOK
  <1>2. ASSUME NEW l, FindIncumbent(w, l) PROVE pc'[w] = "file"
    BY <1>1, <1>2 DEF FindIncumbent
  <1>3. ASSUME NEW l, TakeOver(w, l), l \in Local, l.place \in Place
        PROVE  \/ pc'[w] = "resolve"
               \/ pc'[w] = "clear" /\ loc'[w].key \in Names
    <2>1. l.place.name \in Names
      BY <1>3, PlaceKeys
    <2>2. ASSUME NEW k, k = [l EXCEPT !.key = l.place.name] PROVE k.key = l.place.name
      BY <1>3, <2>2 DEF Local
    <2>3. QED
      BY <1>1, <1>3, <2>1, <2>2 DEF TakeOver
  <1>4. CASE FileRequest(w) \/ FileFromInvite(w)
    <2>1. pc'[w] \in {"file", "idle"}
      BY <1>1, <1>2, <1>4 DEF FileRequest, FileFromInvite, Finish
    <2>2. QED
      BY <2>1
  <1>5. CASE FileInsert(w)
    BY <1>1, <1>5 DEF FileInsert, Finish
  <1>6. CASE Resolve(w)
    <2>1. PICK l : l = loc[w] /\ l \in Local
      BY HandlerHas
    <2>2. ASSUME NEW e \in Live, Goto(w, "clear", [l EXCEPT !.key = e])
          PROVE  pc'[w] = "clear" /\ loc'[w].key \in Live
      BY <1>1, <2>1, <2>2 DEF Local
    <2>3. \/ \E e \in Live : Goto(w, "clear", [l EXCEPT !.key = e])
          \/ Finish(w)
      BY <1>6, <2>1 DEF Resolve, Named
    <2>4. Finish(w) => pc'[w] = "idle"
      BY <1>1 DEF Finish
    <2>5. QED
      BY <2>2, <2>3, <2>4
  <1>7. CASE Clear(w) \/ ClearAfterWait(w)
    <2>1. PICK l : l = loc[w] /\ l \in Local
      BY HandlerHas
    <2>2. PICK old : loc'[w] = [l EXCEPT !.old = old] \/ loc'[w] = l
      BY <1>1, <1>7, <2>1 DEF Clear, ClearAfterWait
    <2>3. /\ loc'[w].key = l.key /\ loc'[w].place = l.place
          /\ loc'[w].taker = l.taker /\ loc'[w].invite = l.invite
          /\ loc'[w].request = l.request /\ loc'[w].outcome = l.outcome
      BY <2>1, <2>2 DEF Local
    <2>4. pc[w] \in {"clear", "wait"} /\ pc'[w] \in {"wait", "insert"}
      BY <1>1, <1>7 DEF Clear, ClearAfterWait
    <2>5. QED
      BY <1>7, <2>1, <2>3, <2>4
  <1>8. CASE Insert(w)
    BY <1>1, <1>8 DEF Insert
  <1>9. CASE Approve(w)
    <2>1. PICK r \in Pending, u \in Users :
             Decider(u, r) /\ TakeOver(w, DecisionOn(r, u, "approved"))
      BY <1>9 DEF Approve
    <2>2. r \in Requests /\ reqs[r] # None
      BY DEF Pending
    <2>3. DecisionOn(r, u, "approved") \in Local /\ LocalOK("resolve", DecisionOn(r, u, "approved"))
      BY <2>1, <2>2, DecisionHas
    <2>4. QED
      BY <1>3, <2>1, <2>3 DEF LocalOK
  <1>10. CASE AcceptInvite(w)
    <2>1. PICK i, u, l :
            /\ i \in Unused /\ u \in Users
            /\ l = [NoLocal EXCEPT !.user = u, !.taker = u, !.invite = i, !.place = invs[i].place]
            /\ TakeOver(w, l) \/ Goto(w, "slot", l)
      BY <1>10 DEF AcceptInvite
    <2>2. i \in Invites /\ invs[i] \in Invite
      BY <2>1 DEF Unused, Inv, TypeOK
    <2>3. l \in Local /\ l.place \in Place
      BY <2>1, <2>2 DEF Local, NoLocal, Invite
    <2>4. Goto(w, "slot", l) => pc'[w] = "slot"
      BY <1>1
    <2>5. QED
      BY <1>3, <2>1, <2>3, <2>4
  <1>11. CASE Reject(w) \/ Withdraw(w) \/ Record(w) \/ MarkInviteUsed(w)
    BY <1>1, <1>11 DEF Reject, Withdraw, Record, MarkInviteUsed, Finish
  <1>12. CASE CreateInvite(w)
    BY <1>12 DEF CreateInvite
  <1>13. CASE Edited(w)
    <2>1. ASSUME FileEdit(w) \/ ApplyCreate(w) \/ ApplyDelete(w) PROVE pc'[w] = "idle"
      BY <2>1 DEF FileEdit, ApplyCreate, ApplyDelete
    <2>2. ASSUME ApplyUpdate(w) \/ Repoint(w) \/ ApplyCommit(w)
          PROVE  pc'[w] \in {"repoint", "commit", "idle"}
      BY <1>1, <2>2 DEF ApplyUpdate, Repoint, ApplyCommit, Finish
    <2>3. QED
      BY <1>13, <2>1, <2>2 DEF Edited
  <1>14. CASE Abort(w)
    BY <1>1, <1>14 DEF Abort, Finish
  <1>15. QED
    BY <1>4, <1>5, <1>6, <1>7, <1>8, <1>9, <1>10, <1>11, <1>12, <1>13, <1>14 DEF Step, Hand

\* What a step does to the contact rows: it deletes, inserts one, or writes a list.

LEMMA RowsChange ==
    ASSUME Inv, NamesInv, NEW w \in Procs, Step(w)
    PROVE  \/ rows' \subseteq rows
           \/ /\ Insert(w) /\ pc[w] = "insert"
              /\ rows' = rows \cup {[id |-> nextRow, key |-> loc[w].key,
                                     slot |-> loc[w].place.slot, user |-> loc[w].taker]}
           \/ /\ ApplyCommit(w) /\ pc[w] = "commit"
              /\ \E list \in ListsOf :
                    rows' = (rows \ loc[w].old)
                              \cup Listed(IF Target(w) \in Parents THEN NewName(w) ELSE Target(w), list)
           \/ /\ ApplyCreate(w)
              /\ \E e \in Entities, n \in Names, list \in ListsOf :
                    /\ name[e] = None /\ name'[e] = n
                    /\ rows' = rows \cup Listed(IF e \in Parents THEN n ELSE e, list)
  <1>1. CASE Clear(w) \/ ClearAfterWait(w)
    BY <1>1 DEF Clear, ClearAfterWait
  <1>2. CASE Insert(w)
    BY <1>2 DEF Insert
  <1>3. CASE ApplyCommit(w)
    <2>1. PICK l, n : l = loc[w] /\ n = edits[l.edit].name
      OBVIOUS
    <2>2. edits[l.edit] \in Edit
      BY <1>3, <2>1, CommitStep
    <2>3. edits[l.edit].list \in ListsOf
      BY <2>2 DEF Edit, ListsOf
    <2>4. QED
      BY <1>3, <2>1, <2>3 DEF ApplyCommit, NewName
  <1>4. CASE ApplyCreate(w)
    <2>1. PICK e \in Entities, n \in Names, list \in ListsOf :
            /\ name[e] = None /\ name' = [name EXCEPT ![e] = n]
            /\ rows' = rows \cup Listed(IF e \in Parents THEN n ELSE e, list)
      BY <1>4 DEF ApplyCreate
    <2>2. name'[e] = n
      BY <2>1 DEF Inv, TypeOK
    <2>3. QED
      BY <1>4, <2>1, <2>2
  <1>5. CASE rows' = rows
    BY <1>5
  <1>6. QED
    BY <1>1, <1>2, <1>3, <1>4, <1>5
    DEF Step, Hand, Edited, Abort, tables, FileRequest, FileFromInvite, FileInsert, Resolve,
        Approve, Reject, Withdraw, Record, CreateInvite, AcceptInvite, MarkInviteUsed,
        FileEdit, ApplyUpdate, Repoint, ApplyDelete

LEMMA ListedFacts ==
    ASSUME NEW key, NEW list
    PROVE  /\ \A x \in Listed(key, list) : x.key = key
           /\ \A x, y \in Listed(key, list) : x.slot = y.slot => x = y
  BY DEF Listed

-----------------------------------------------------------------------------
(* One holder for a slot of a resource *)

RowsOfTheLiving == \A x \in rows : x.key \in Resources => name[x.key] # None

TakerOK(w) ==
    pc[w] \in {"clear", "wait", "insert"} /\ loc[w].key \in Resources => name[loc[w].key] # None

HeldRows(w) == \A x \in loc[w].old : x.key \in Resources => pc[w] = "commit" /\ x.key = Target(w)

\* Rows of a resource were put there when it existed, and an open apply that holds some is
\* that resource's.
RowsInv ==
    /\ RowsOfTheLiving
    /\ \A w \in Procs : TakerOK(w)
    /\ \A w \in Applying : HeldRows(w)

LEMMA ApplyHas ==
    ASSUME Inv, NEW w \in Applying
    PROVE  /\ w \in Procs /\ pc[w] \in {"repoint", "commit"}
           /\ Target(w) \in Entities /\ NewName(w) \in Names
  <1>1. w \in Procs /\ pc[w] \in {"repoint", "commit"}
    BY DEF Applying
  <1>2. loc[w].edit \in Edits /\ edits[loc[w].edit] # None
    BY <1>1, HandlerHas DEF LocalOK
  <1>3. edits[loc[w].edit] \in Edit
    BY <1>2 DEF Inv, TypeOK
  <1>4. QED
    BY <1>1, <1>3 DEF Target, NewName, Edit

LEMMA Disjoint ==
    /\ \A e \in Resources : e \in Entities /\ e \notin Parents /\ e \notin Names
    /\ \A e \in Entities : e \in Parents \/ e \in Resources
  BY ConstantsOK DEF Entities

LEMMA RowsInvStep == ASSUME Inv, NamesInv, RowsInv, [Next]_vars PROVE RowsInv'
  <1>1. CASE UNCHANGED vars
    BY <1>1 DEF vars, RowsInv, RowsOfTheLiving, TakerOK, HeldRows, Applying, Target
  <1>2. ASSUME NEW w \in Procs, Step(w) PROVE RowsInv'
    <2>1. RowsOfTheLiving'
      <3>1. SUFFICES ASSUME NEW x \in rows', x.key \in Resources PROVE name'[x.key] # None
        BY DEF RowsOfTheLiving
      <3>2. x.key \in Entities
        BY <3>1, Disjoint
      <3>3. CASE x \in rows
        BY <1>2, <3>1, <3>2, <3>3, NamesStay DEF RowsInv, RowsOfTheLiving
      <3>4. CASE pc[w] = "insert" /\ x.key = loc[w].key
        BY <1>2, <3>1, <3>2, <3>4, NamesStay DEF RowsInv, TakerOK
      <3>5. CASE pc[w] = "commit" /\ x.key = IF Target(w) \in Parents THEN NewName(w) ELSE Target(w)
        <4>1. w \in Applying
          BY <3>5 DEF Applying
        <4>2. x.key = Target(w) /\ name[x.key] \in Names
          BY <3>1, <3>5, <4>1, ApplyHas, Disjoint, LiveFacts DEF NamesInv, TargetOK
        <4>3. QED
          BY <1>2, <3>2, <4>2, NamesStay, NullsOK
      <3>6. ASSUME NEW e \in Entities, NEW n \in Names, name'[e] = n,
                   x.key = IF e \in Parents THEN n ELSE e
            PROVE  name'[x.key] # None
        BY <3>1, <3>6, Disjoint, NullsOK
      <3>7. QED
        <4>1. CASE /\ pc[w] = "insert"
                   /\ rows' = rows \cup {[id |-> nextRow, key |-> loc[w].key,
                                          slot |-> loc[w].place.slot, user |-> loc[w].taker]}
          BY <3>1, <3>3, <3>4, <4>1
        <4>2. ASSUME NEW list \in ListsOf, pc[w] = "commit",
                     rows' = (rows \ loc[w].old)
                       \cup Listed(IF Target(w) \in Parents THEN NewName(w) ELSE Target(w), list)
              PROVE  name'[x.key] # None
          BY <3>1, <3>3, <3>5, <4>2, ListedFacts
        <4>3. ASSUME NEW e \in Entities, NEW n \in Names, NEW list \in ListsOf, name'[e] = n,
                     rows' = rows \cup Listed(IF e \in Parents THEN n ELSE e, list)
              PROVE  name'[x.key] # None
          BY <3>1, <3>3, <3>6, <4>3, ListedFacts
        <4>4. QED
          BY <1>2, <3>1, <3>3, <4>1, <4>2, <4>3, RowsChange
    <2>2. ASSUME NEW v \in Procs PROVE TakerOK(v)'
      <3>1. SUFFICES ASSUME pc'[v] \in {"clear", "wait", "insert"}, loc'[v].key \in Resources
                     PROVE  name'[loc'[v].key] # None
        BY DEF TakerOK
      <3>2. loc'[v].key \in Entities /\ loc'[v].key \notin Names
        BY <3>1, Disjoint
      <3>3. CASE v # w
        BY <1>2, <3>1, <3>2, <3>3, OthersStand, NamesStay DEF RowsInv, TakerOK
      <3>4. CASE v = w
        <4>1. CASE loc'[w].key \in Live
          BY <1>2, <3>2, <3>4, <4>1, LiveFacts, NullsOK, NamesStay
        <4>2. CASE pc[w] \in {"clear", "wait"} /\ loc'[w].key = loc[w].key
          BY <1>2, <3>1, <3>2, <3>4, <4>2, NamesStay DEF RowsInv, TakerOK
        <4>3. QED
          BY <1>2, <3>1, <3>2, <3>4, <4>1, <4>2, TakingOver
      <3>5. QED
        BY <3>3, <3>4
    <2>3. ASSUME NEW v \in Applying' PROVE HeldRows(v)'
      <3>1. CASE v = w /\ ApplyUpdate(w)
        <4>1. PICK e \in Live :
                /\ pc'[w] = IF e \in Parents THEN "repoint" ELSE "commit"
                /\ Target(w)' = e /\ loc'[w].old = {r \in rows : r.key = KeyOf(e)}
          BY <3>1, UpdateOpens
        <4>2. KeyOf(e) \in Resources => e \in Resources /\ KeyOf(e) = e
          BY LiveFacts, Disjoint DEF KeyOf
        <4>3. QED
          BY <3>1, <4>1, <4>2, Disjoint DEF HeldRows
      <3>2. CASE /\ v \in Applying /\ Target(v)' = Target(v) /\ loc'[v].old = loc[v].old
                 /\ pc[v] = "commit" => pc'[v] = "commit"
        BY <3>2 DEF RowsInv, HeldRows
      <3>3. QED
        BY <1>2, <3>1, <3>2, InFlight
    <2>4. QED
      BY <2>1, <2>2, <2>3 DEF RowsInv
  <1>3. QED
    BY <1>1, <1>2, NextIsStep

LEMMA RowsInvInit == Init => RowsInv
  BY StartOK DEF Init, RowsInv, RowsOfTheLiving, TakerOK, Applying

LEMMA RowsHold == Spec => []RowsInv
  BY RowsInvInit, RowsInvStep, NamesHold, Invariance, PTL DEF Spec

\* No two handlers write one slot of a resource at once: neither two replacements that have
\* cleared it, nor a replacement that waits or inserts and an apply that holds the resource.
\* An apply that opens and a replacement that begins may overlap in every other way.
SlotsApart ==
    \A v, w \in Procs : v # w /\ loc[v].key \in Resources =>
        /\ ~(/\ pc[v] = "insert" /\ pc[w] = "insert"
             /\ loc[v].key = loc[w].key /\ loc[v].place.slot = loc[w].place.slot)
        /\ ~(pc[v] \in {"wait", "insert"} /\ pc[w] = "commit" /\ loc[v].key = Target(w))

\* A replacement about to insert has left the slot empty.
SlotEmpty(w) ==
    loc[w].key \in Resources =>
        /\ pc[w] # "wait"
        /\ pc[w] = "insert" => \A x \in rows : x.key = loc[w].key => x.slot # loc[w].place.slot

\* An apply about to commit deletes every row of its resource.
AllHeld(w) ==
    pc[w] = "commit" /\ Target(w) \in Resources =>
        \A x \in rows : x.key = Target(w) => x \in loc[w].old

SingleInv == /\ ResourceSlotSingle
             /\ \A w \in Procs : SlotEmpty(w) /\ AllHeld(w)

\* What a step adds to the rows of a resource, under these.
LEMMA NewRow ==
    ASSUME Inv, NamesInv, RowsInv, NEW w \in Procs, Step(w),
           NEW x \in rows', x \notin rows, x.key \in Resources
    PROVE  \/ pc[w] = "insert" /\ x.key = loc[w].key /\ x.slot = loc[w].place.slot
              /\ \A y \in rows' : y \in rows \/ y = x
           \/ /\ pc[w] = "commit" /\ x.key = Target(w) /\ w \notin Applying'
              /\ \A y \in rows' : \/ y \in rows \ loc[w].old
                                  \/ y.key = x.key /\ (y.slot = x.slot => y = x)
           \/ /\ name[x.key] = None
              /\ \A y \in rows' : y \in rows \/ (y.key = x.key /\ (y.slot = x.slot => y = x))
  <1>1. ASSUME pc[w] = "insert",
               rows' = rows \cup {[id |-> nextRow, key |-> loc[w].key,
                                   slot |-> loc[w].place.slot, user |-> loc[w].taker]}
        PROVE  /\ x.key = loc[w].key /\ x.slot = loc[w].place.slot
               /\ \A y \in rows' : y \in rows \/ y = x
    BY <1>1
  <1>2. ASSUME NEW list \in ListsOf, ApplyCommit(w), pc[w] = "commit",
               rows' = (rows \ loc[w].old)
                 \cup Listed(IF Target(w) \in Parents THEN NewName(w) ELSE Target(w), list)
        PROVE  /\ x.key = Target(w) /\ w \notin Applying'
               /\ \A y \in rows' : \/ y \in rows \ loc[w].old
                                   \/ y.key = x.key /\ (y.slot = x.slot => y = x)
    <2>1. w \notin Applying'
      BY <1>2 DEF ApplyCommit, Applying, Finish, Goto, Inv, TypeOK
    <2>2. PICK key : key = IF Target(w) \in Parents THEN NewName(w) ELSE Target(w)
      OBVIOUS
    <2>3. x \in Listed(key, list) /\ x.key = key
      BY <1>2, <2>2, ListedFacts
    <2>4. key = Target(w)
      BY <1>2, <2>2, <2>3, ApplyHas, Disjoint DEF Applying
    <2>5. QED
      BY <1>2, <2>1, <2>2, <2>3, <2>4, ListedFacts
  <1>3. ASSUME NEW e \in Entities, NEW n \in Names, NEW list \in ListsOf, name[e] = None,
               rows' = rows \cup Listed(IF e \in Parents THEN n ELSE e, list)
        PROVE  /\ name[x.key] = None
               /\ \A y \in rows' : y \in rows \/ (y.key = x.key /\ (y.slot = x.slot => y = x))
    <2>1. PICK key : key = IF e \in Parents THEN n ELSE e
      OBVIOUS
    <2>2. x \in Listed(key, list) /\ x.key = key
      BY <1>3, <2>1, ListedFacts
    <2>3. key = e
      BY <2>1, <2>2, Disjoint
    <2>4. rows' = rows \cup Listed(key, list) /\ name[x.key] = None
      BY <1>3, <2>1, <2>2, <2>3
    <2>5. \A y \in Listed(key, list) : y.key = key /\ (y.slot = x.slot => y = x)
      BY <2>2, ListedFacts
    <2>6. QED
      BY <2>2, <2>4, <2>5
  <1>4. QED
    BY <1>1, <1>2, <1>3, RowsChange

\* A replacement that has to wait waits for an apply that is still open when it does.
LEMMA WaitsForApply ==
    ASSUME Inv, NamesInv, RowsInv, NEW w \in Procs, Clear(w), pc'[w] = "wait",
           loc[w].key \in Resources
    PROVE  \E v \in Procs : v # w /\ pc[v] = "commit" /\ Target(v) = loc[w].key
  <1>1. Incumbents(w) \cap Locked # {}
    BY DEF Clear, Goto, Inv, TypeOK
  <1>2. PICK x \in Incumbents(w), v \in Applying : x \in loc[v].old
    BY <1>1 DEF Locked
  <1>3. x.key = loc[w].key /\ v \in Procs
    BY DEF Incumbents, Applying
  <1>4. pc[v] = "commit" /\ x.key = Target(v)
    BY <1>2, <1>3 DEF RowsInv, HeldRows
  <1>5. pc[w] = "clear"
    BY DEF Clear
  <1>6. QED
    BY <1>3, <1>4, <1>5

LEMMA SingleInvStep ==
    ASSUME Inv, NamesInv, RowsInv, SingleInv, SlotsApart, SlotsApart', [Next]_vars
    PROVE  SingleInv'
  <1>1. CASE UNCHANGED vars
    BY <1>1 DEF vars, SingleInv, ResourceSlotSingle, SlotEmpty, AllHeld, Target
  <1>2. ASSUME NEW w \in Procs, Step(w) PROVE SingleInv'
    <2>1. ResourceSlotSingle'
      <3>1. SUFFICES ASSUME NEW x \in rows', NEW y \in rows', x.key \in Resources,
                            x.key = y.key, x.slot = y.slot, x # y
                     PROVE  FALSE
        BY DEF ResourceSlotSingle
      <3>2. x \notin rows \/ y \notin rows
        BY <3>1 DEF SingleInv, ResourceSlotSingle
      <3>3. ASSUME NEW a \in rows', NEW b \in rows', a \notin rows, a.key \in Resources,
                   a.key = b.key, a.slot = b.slot, a # b
            PROVE  FALSE
        <4>1. CASE /\ pc[w] = "insert" /\ a.key = loc[w].key /\ a.slot = loc[w].place.slot
                   /\ \A z \in rows' : z \in rows \/ z = a
          BY <3>3, <4>1 DEF SingleInv, SlotEmpty
        <4>2. CASE /\ pc[w] = "commit" /\ a.key = Target(w)
                   /\ \A z \in rows' : \/ z \in rows \ loc[w].old
                                       \/ z.key = a.key /\ (z.slot = a.slot => z = a)
          BY <3>3, <4>2 DEF SingleInv, AllHeld
        <4>3. CASE /\ name[a.key] = None
                   /\ \A z \in rows' : z \in rows \/ (z.key = a.key /\ (z.slot = a.slot => z = a))
          BY <3>3, <4>3 DEF RowsInv, RowsOfTheLiving
        <4>4. QED
          BY <1>2, <3>3, <4>1, <4>2, <4>3, NewRow
      <3>4. QED
        BY <3>1, <3>2, <3>3
    <2>2. ASSUME NEW v \in Procs PROVE SlotEmpty(v)'
      <3>1. SUFFICES ASSUME loc'[v].key \in Resources, pc'[v] \in {"wait", "insert"}
                     PROVE  /\ pc'[v] # "wait"
                            /\ \A x \in rows' : x.key = loc'[v].key => x.slot # loc'[v].place.slot
        BY DEF SlotEmpty
      <3>2. loc'[v].key \notin Names
        BY <3>1, Disjoint
      <3>3. CASE v = w
        <4>1. /\ Clear(w) \/ ClearAfterWait(w)
              /\ pc[w] \in {"clear", "wait"}
              /\ loc'[w].key = loc[w].key /\ loc'[w].place = loc[w].place
          BY <1>2, <3>1, <3>2, <3>3, TakingOver
        <4>2. pc[w] # "wait"
          BY <3>1, <3>3, <4>1 DEF SingleInv, SlotEmpty
        <4>3. Clear(w)
          BY <4>1, <4>2 DEF ClearAfterWait
        <4>4. pc'[w] # "wait"
          <5>1. SUFFICES ASSUME pc'[w] = "wait" PROVE FALSE
            OBVIOUS
          <5>2. PICK u \in Procs : u # w /\ pc[u] = "commit" /\ Target(u) = loc[w].key
            BY <3>1, <3>3, <4>1, <4>3, <5>1, WaitsForApply
          <5>3. pc'[u] = "commit" /\ loc'[u] = loc[u]
            BY <1>2, <5>2, OthersStand
          <5>4. edits' = edits
            BY <4>3 DEF Clear
          <5>5. Target(u)' = loc'[w].key
            BY <4>1, <5>2, <5>3, <5>4 DEF Target
          <5>6. QED
            BY <3>1, <3>3, <5>1, <5>2, <5>3, <5>5 DEF SlotsApart
        <4>5. rows' = rows \ Incumbents(w)
          BY <4>3, <4>4 DEF Clear, Goto, Inv, TypeOK
        <4>6. QED
          BY <3>3, <4>1, <4>4, <4>5 DEF Incumbents
      <3>4. CASE v # w
        <4>1. pc'[v] = pc[v] /\ loc'[v] = loc[v]
          BY <1>2, <3>4, OthersStand
        <4>2. pc[v] = "insert" /\ \A x \in rows : x.key = loc[v].key => x.slot # loc[v].place.slot
          BY <3>1, <4>1 DEF SingleInv, SlotEmpty
        <4>3. ASSUME NEW x \in rows', x \notin rows, x.key = loc[v].key, x.slot = loc[v].place.slot
              PROVE  FALSE
          <5>1. CASE pc[w] = "insert" /\ x.key = loc[w].key /\ x.slot = loc[w].place.slot
            BY <3>1, <3>4, <4>1, <4>2, <4>3, <5>1 DEF SlotsApart
          <5>2. CASE pc[w] = "commit" /\ x.key = Target(w)
            BY <3>1, <3>4, <4>1, <4>2, <4>3, <5>2 DEF SlotsApart
          <5>3. CASE name[x.key] = None
            BY <3>1, <4>1, <4>2, <4>3, <5>3 DEF RowsInv, TakerOK
          <5>4. QED
            BY <1>2, <3>1, <4>1, <4>3, <5>1, <5>2, <5>3, NewRow
        <4>4. QED
          BY <4>1, <4>2, <4>3
      <3>5. QED
        BY <3>3, <3>4
    <2>3. ASSUME NEW v \in Procs PROVE AllHeld(v)'
      <3>1. SUFFICES ASSUME pc'[v] = "commit", Target(v)' \in Resources,
                            NEW x \in rows', x.key = Target(v)'
                     PROVE  x \in loc'[v].old
        BY DEF AllHeld
      <3>2. v \in Applying' /\ Target(v)' \notin Parents
        BY <3>1, Disjoint DEF Applying
      <3>3. CASE v = w /\ ApplyUpdate(w)
        <4>1. PICK e \in Live :
                /\ Target(w)' = e /\ loc'[w].old = {r \in rows : r.key = KeyOf(e)}
                /\ UNCHANGED tables
          BY <3>3, UpdateOpens
        <4>2. KeyOf(e) = e /\ rows' = rows
          BY <3>1, <3>3, <4>1 DEF KeyOf, tables
        <4>3. QED
          BY <3>1, <3>3, <4>1, <4>2
      <3>4. CASE /\ v \in Applying /\ Target(v)' = Target(v) /\ loc'[v].old = loc[v].old
                 /\ pc[v] = "repoint" \/ pc[v] = pc'[v]
        <4>1. TargetOK(v) /\ pc[v] = "commit"
          BY <3>1, <3>2, <3>4 DEF NamesInv, TargetOK
        <4>2. x \in rows => x \in loc[v].old
          BY <3>1, <3>4, <4>1 DEF SingleInv, AllHeld, Applying
        <4>3. ASSUME x \notin rows PROVE FALSE
          <5>1. x.key = Target(v) /\ x.key \in Resources
            BY <3>1, <3>4
          <5>2. CASE pc[w] = "insert" /\ x.key = loc[w].key
            BY <4>1, <5>1, <5>2 DEF SlotsApart
          <5>3. CASE pc[w] = "commit" /\ x.key = Target(w) /\ w \notin Applying'
            <6>1. w \in Applying /\ v # w
              BY <3>2, <5>3 DEF Applying
            <6>2. QED
              BY <3>4, <5>1, <5>3, <6>1 DEF NamesInv, TargetsApart
          <5>4. CASE name[x.key] = None
            BY <4>1, <5>1, <5>4, LiveFacts, NullsOK DEF TargetOK
          <5>5. QED
            BY <1>2, <4>3, <5>1, <5>2, <5>3, <5>4, NewRow
        <4>4. QED
          BY <3>4, <4>2, <4>3
      <3>5. QED
        BY <1>2, <3>2, <3>3, <3>4, InFlight
    <2>4. QED
      BY <2>1, <2>2, <2>3 DEF SingleInv
  <1>3. QED
    BY <1>1, <1>2, NextIsStep

LEMMA SingleInvInit == Init => SingleInv
  <1> SUFFICES ASSUME Init PROVE SingleInv
    OBVIOUS
  <1>1. ResourceSlotSingle
    BY StartOK DEF Init, ResourceSlotSingle
  <1>2. ASSUME NEW w \in Procs PROVE pc[w] = "idle"
    BY DEF Init
  <1>3. QED
    BY <1>1, <1>2 DEF SingleInv, SlotEmpty, AllHeld

\* A slot of a resource has at most one holder for as long as no two handlers write it at
\* once, through hand-offs, edits, renames, deletes and requests that die half-way: the
\* replacements (ReplaceContactSlot) and applies (ReplaceResourceContacts) of everything else
\* may overlap.
THEOREM SlotsSingleApart == Spec /\ []SlotsApart => []ResourceSlotSingle
  <1>1. SingleInv => ResourceSlotSingle
    BY DEF SingleInv
  <1>2. Inv /\ NamesInv /\ RowsInv /\ SingleInv /\ SlotsApart /\ SlotsApart' /\ [Next]_vars => SingleInv'
    BY SingleInvStep
  <1>3. QED
    BY <1>1, <1>2, SingleInvInit, RowsHold, NamesHold, Invariance, PTL DEF Spec

-----------------------------------------------------------------------------
(* Pending requests follow a rename *)

\* Nobody files a request about a parent while a rename of it has already collected the
\* requests to repoint and has not committed.
RequestsApart ==
    \A v, w \in Procs :
        pc[v] = "file" /\ pc[w] = "commit" /\ Target(w) \in Parents =>
            Target(w) \notin Named(loc[v].place.kind, loc[v].place.name)

\* What a request is about existed when it was filed.
AboutOK(r) ==
    reqs[r] # None => \A e \in reqs[r].about :
        e \in Entities /\ name[e] # None /\ (e \in Parents => reqs[r].place.kind = "parent")

\* An apply about to commit has collected every pending request about its parent, and none
\* that goes by another name.
MovedOK(w) ==
    /\ pc[w] = "repoint" => loc[w].moved = {}
    /\ pc[w] = "commit" =>
          /\ Target(w) \in Parents =>
                \A r \in Pending : Target(w) \in reqs[r].about => r \in loc[w].moved
          /\ \A r \in loc[w].moved \cap Requests :
                Target(w) \in Parents /\ reqs[r].place.name = name[Target(w)]

FollowInv == /\ RequestFollowsRename
             /\ \A r \in Requests : AboutOK(r)
             /\ \A w \in Applying : MovedOK(w)

\* What a step does to one request.
Filed(w, r) ==
    /\ pc[w] = "file" /\ name' = name /\ reqs[r] = None /\ reqs'[r] # None
    /\ reqs'[r].place = loc[w].place
    /\ reqs'[r].about = Named(loc[w].place.kind, loc[w].place.name)

Renamed(w, r) ==
    /\ pc[w] = "commit" /\ w \notin Applying' /\ Renames(w, Target(w), NewName(w))
    /\ r \in Pending /\ r \in loc[w].moved /\ reqs'[r] # None
    /\ reqs'[r].place.kind = reqs[r].place.kind /\ reqs'[r].place.name = NewName(w)
    /\ reqs'[r].about = reqs[r].about

Decided(r) ==
    /\ name' = name /\ r \in Pending /\ r \notin Pending' /\ reqs'[r] # None
    /\ reqs'[r].place = reqs[r].place /\ reqs'[r].about = reqs[r].about

LEMMA RequestStep ==
    ASSUME Inv, NamesInv, NEW w \in Procs, Step(w), NEW r \in Requests
    PROVE  \/ reqs'[r] = reqs[r] /\ (ApplyCommit(w) => r \notin loc[w].moved)
           \/ Filed(w, r) \/ Renamed(w, r) \/ Decided(r)
  <1>1. CASE FileInsert(w)
    <2>1. PICK l : l = loc[w]
      OBVIOUS
    <2> DEFINE new == [place |-> l.place, incumbent |-> l.holder, requester |-> l.taker,
                       about |-> Named(l.place.kind, l.place.name),
                       status |-> "pending", decidedBy |-> None]
    <2>2. PICK q \in Requests : reqs[q] = None /\ reqs' = [reqs EXCEPT ![q] = new]
      BY <1>1, <2>1 DEF FileInsert
    <2>3. l \in Local /\ LocalOK("file", l) /\ pc[w] = "file" /\ name' = name
      BY <1>1, <2>1, HandlerHas DEF FileInsert
    <2>4. new \in Request
      BY <2>3 DEF LocalOK, Request, Named, Live
    <2>5. reqs'[q] = new /\ new # None /\ (r # q => reqs'[r] = reqs[r])
      BY <2>2, <2>4, NullsOK DEF Inv, TypeOK
    <2>6. ~ApplyCommit(w)
      BY <2>3 DEF ApplyCommit
    <2>7. CASE r = q
      <3>1. reqs'[r].place = l.place /\ reqs'[r].about = Named(l.place.kind, l.place.name)
        BY <2>5, <2>7
      <3>2. QED
        BY <2>1, <2>2, <2>3, <2>5, <2>7, <3>1 DEF Filed
    <2>8. QED
      BY <2>5, <2>6, <2>7
  <1>2. CASE Record(w)
    <2>1. PICK l : l = loc[w]
      OBVIOUS
    <2>2. ~ApplyCommit(w) /\ name' = name /\ (l.request \notin Pending => reqs' = reqs)
      BY <1>2, <2>1 DEF Record, ApplyCommit
    <2>3. CASE l.request \in Pending
      <3>1. /\ l \in Local /\ LocalOK("record", l) /\ l.request \in Requests
            /\ reqs[l.request] \in Request /\ reqs'[l.request] \in Request
            /\ reqs'[l.request] = [reqs[l.request] EXCEPT !.status = l.outcome,
                                                          !.decidedBy = l.user]
            /\ \A q \in Requests : q # l.request => reqs'[q] = reqs[q]
        BY <1>2, <2>1, <2>3, RecordStep
      <3>2. l.outcome \in {"approved", "rejected", "withdrawn"}
        BY <3>1 DEF LocalOK, Local
      <3>3. /\ reqs'[l.request].place = reqs[l.request].place
            /\ reqs'[l.request].about = reqs[l.request].about
            /\ reqs'[l.request].status # "pending" /\ reqs'[l.request] # None
        BY <3>1, <3>2, NullsOK DEF Request
      <3>4. QED
        BY <2>2, <2>3, <3>1, <3>3 DEF Decided, Pending
    <2>4. QED
      BY <2>2, <2>3
  <1>3. CASE ApplyCommit(w)
    <2>1. PICK l, n : l = loc[w] /\ n = edits[l.edit].name
      OBVIOUS
    <2>2. RequestRenamed(r, l, n)
      BY <1>3, <2>1, CommitStep
    <2>3. CASE r \in l.moved
      <3>1. /\ r \in Pending /\ reqs[r] \in Request /\ reqs'[r] \in Request
            /\ reqs'[r] = [reqs[r] EXCEPT !.place = [reqs[r].place EXCEPT !.name = n]]
        BY <2>2, <2>3 DEF RequestRenamed
      <3>2. PICK pl : pl = reqs[r].place /\ pl \in Place
        BY <3>1 DEF Request
      <3>3. reqs'[r].place = [pl EXCEPT !.name = n] /\ reqs'[r].about = reqs[r].about
        BY <3>1, <3>2 DEF Request
      <3>4. reqs'[r].place.kind = pl.kind /\ reqs'[r].place.name = n
        BY <3>2, <3>3 DEF Place
      <3>5. reqs'[r] # None
        BY <3>1, NullsOK
      <3>6. n = NewName(w) /\ pc[w] = "commit"
        BY <1>3, <2>1 DEF NewName, ApplyCommit
      <3>7. w \notin Applying'
        BY <1>3 DEF ApplyCommit, Applying, Finish, Goto, Inv, TypeOK
      <3>8. Renames(w, Target(w), NewName(w))
        <4>1. Target(w) \in Entities /\ NewName(w) \in Names
          BY <3>6, ApplyHas DEF Applying
        <4>2. name' = [name EXCEPT ![Target(w)] = n]
          BY <1>3, <2>1 DEF ApplyCommit
        <4>3. QED
          BY <3>6, <4>1, <4>2 DEF Renames, Inv, TypeOK
      <3>9. QED
        BY <2>1, <2>3, <3>1, <3>2, <3>3, <3>4, <3>5, <3>6, <3>7, <3>8 DEF Renamed
    <2>4. CASE r \notin l.moved
      <3>1. reqs'[r] = reqs[r]
        BY <1>3, <2>1, <2>4 DEF ApplyCommit
      <3>2. QED
        BY <2>1, <2>4, <3>1
    <2>5. QED
      BY <2>3, <2>4
  <1>4. CASE reqs' = reqs /\ ~ApplyCommit(w)
    BY <1>4
  <1>5. QED
    BY <1>1, <1>2, <1>3, <1>4
    DEF Step, Hand, Edited, Abort, tables, FileRequest, FileFromInvite, Resolve, Clear,
        ClearAfterWait, Insert, Approve, Reject, Withdraw, CreateInvite, AcceptInvite,
        MarkInviteUsed, FileEdit, ApplyUpdate, Repoint, ApplyCreate, ApplyDelete

LEMMA PendingFacts ==
    \A r : /\ r \in Pending <=> r \in Requests /\ reqs[r] # None /\ reqs[r].status = "pending"
           /\ (r \in Pending)' <=> r \in Requests /\ reqs'[r] # None /\ reqs'[r].status = "pending"
  BY DEF Pending

LEMMA KindsApart == \A e \in Entities : KindOf(e) = "parent" <=> e \in Parents
  BY Disjoint DEF KindOf

\* The name of an open apply's entity changes only by that apply.
LEMMA TargetNameStays ==
    ASSUME Inv, NamesInv, NEW w \in Procs, Step(w), NEW v \in Applying, v # w \/ v \in Applying'
    PROVE  name'[Target(v)] = name[Target(v)]
  <1>1. Target(v) \in Entities /\ name[Target(v)] \in Names
    BY LiveFacts DEF NamesInv, TargetOK
  <1>2. CASE w \in Applying /\ w \notin Applying' /\ Renames(w, Target(w), NewName(w))
    BY <1>1, <1>2 DEF Renames, NamesInv, TargetsApart
  <1>3. ASSUME NEW e \in Entities, NEW n \in Names, Renames(w, e, n), name[e] = None
        PROVE  name'[Target(v)] = name[Target(v)]
    BY <1>1, <1>3, NullsOK DEF Renames
  <1>4. ASSUME NEW e \in Live, Renames(w, e, Gone), ~Busy(e)
        PROVE  name'[Target(v)] = name[Target(v)]
    BY <1>1, <1>4 DEF Renames, Busy, Target
  <1>5. QED
    BY <1>2, <1>3, <1>4, NamesStep

\* Repointing collects what goes by the entity's present name.
LEMMA RepointCollects ==
    ASSUME Inv, NEW w \in Procs, Repoint(w)
    PROVE  /\ name' = name /\ reqs' = reqs /\ Target(w)' = Target(w)
           /\ \A r \in Requests :
                 r \in loc'[w].moved <=> /\ r \in Pending /\ reqs[r].place.kind = "parent"
                                         /\ reqs[r].place.name = name[Target(w)]
  <1> DEFINE meant(pl) == pl.kind = "parent" /\ pl.name = name[Target(w)]
             m == {r \in Pending : meant(reqs[r].place)} \cup {i \in Unused : meant(invs[i].place)}
  <1>1. PICK l : l = loc[w] /\ l \in Local
    BY HandlerHas
  <1>2. Goto(w, "commit", [l EXCEPT !.moved = m]) /\ UNCHANGED tables
    BY <1>1 DEF Repoint
  <1>3. loc'[w] = [l EXCEPT !.moved = m]
    BY <1>2 DEF Goto, Inv, TypeOK
  <1>4. loc'[w].moved = m /\ loc'[w].edit = l.edit
    BY <1>1, <1>3 DEF Local
  <1>5. \A i \in Unused : i \notin Requests
    BY ConstantsOK DEF Unused
  <1>6. QED
    BY <1>1, <1>2, <1>4, <1>5 DEF tables, Target

LEMMA FollowInvStep ==
    ASSUME Inv, NamesInv, FollowInv, RequestsApart, [Next]_vars
    PROVE  FollowInv'
  <1>1. CASE UNCHANGED vars
    BY <1>1
    DEF vars, FollowInv, RequestFollowsRename, Pending, Live, AboutOK, MovedOK, Applying, Target
  <1>2. ASSUME NEW w \in Procs, Step(w) PROVE FollowInv'
    <2>1. ASSUME NEW r \in Requests PROVE AboutOK(r)'
      <3>1. SUFFICES ASSUME reqs'[r] # None, NEW e \in reqs'[r].about
                     PROVE  /\ e \in Entities /\ name'[e] # None
                            /\ e \in Parents => reqs'[r].place.kind = "parent"
        BY DEF AboutOK
      <3>2. CASE reqs[r] # None /\ reqs'[r].about = reqs[r].about
                   /\ reqs'[r].place.kind = reqs[r].place.kind
        BY <1>2, <3>1, <3>2, NamesStay DEF FollowInv, AboutOK
      <3>3. CASE Filed(w, r)
        <4>1. e \in Live /\ KindOf(e) = reqs'[r].place.kind
          BY <3>1, <3>3 DEF Filed, Named
        <4>2. QED
          BY <3>3, <4>1, LiveFacts, KindsApart, NullsOK DEF Filed
      <3>4. QED
        BY <1>2, <3>1, <3>2, <3>3, RequestStep DEF Renamed, Decided, Pending
    <2>2. RequestFollowsRename'
      <3>1. SUFFICES ASSUME NEW r \in Pending', NEW e \in reqs'[r].about \cap Live', e \in Parents
                     PROVE  name'[e] = reqs'[r].place.name
        BY DEF RequestFollowsRename
      <3>2. r \in Requests /\ e \in Entities /\ name'[e] \in Names
        BY LiveFacts, PendingFacts
      <3>3. CASE reqs'[r] = reqs[r] /\ (ApplyCommit(w) => r \notin loc[w].moved)
        <4>1. r \in Pending /\ e \in reqs[r].about /\ name[e] # None
          BY <3>1, <3>2, <3>3, PendingFacts DEF FollowInv, AboutOK
        <4>2. e \in Live => name[e] = reqs[r].place.name
          BY <3>1, <4>1 DEF FollowInv, RequestFollowsRename
        <4>3. CASE name' = name
          BY <3>2, <3>3, <4>2, <4>3, LiveFacts
        <4>4. CASE ApplyCommit(w) /\ w \in Applying /\ Renames(w, Target(w), NewName(w))
          <5>1. pc[w] = "commit"
            BY <4>4 DEF ApplyCommit
          <5>2. e # Target(w)
            BY <3>1, <3>3, <4>1, <4>4, <5>1 DEF FollowInv, MovedOK
          <5>3. QED
            BY <3>2, <3>3, <4>2, <4>4, <5>2, LiveFacts DEF Renames
        <4>5. ASSUME NEW f \in Entities, NEW n, Renames(w, f, n), name[f] = None \/ n = Gone
              PROVE  name'[e] = reqs'[r].place.name
          <5>1. e # f
            BY <3>2, <4>1, <4>5, NullsOK DEF Renames
          <5>2. QED
            BY <3>2, <3>3, <4>2, <4>5, <5>1, LiveFacts DEF Renames
        <4>6. QED
          BY <1>2, <4>3, <4>4, <4>5, NamesStep DEF Live
      <3>4. CASE Filed(w, r)
        BY <3>1, <3>4 DEF Filed, Named
      <3>5. CASE Renamed(w, r)
        <4>1. w \in Applying /\ pc[w] = "commit"
          BY <1>2, <3>5 DEF Renamed, Applying
        <4>2. Target(w) \in Parents /\ reqs[r].place.name = name[Target(w)] /\ TargetOK(w)
          BY <3>2, <3>5, <4>1 DEF Renamed, FollowInv, MovedOK, NamesInv
        <4>3. CASE e = Target(w)
          BY <3>5, <4>3 DEF Renamed, Renames
        <4>4. CASE e # Target(w)
          <5>1. name'[e] = name[e] /\ e \in Live
            BY <3>2, <3>5, <4>4, LiveFacts DEF Renamed, Renames
          <5>2. name[e] = name[Target(w)]
            BY <3>1, <3>5, <4>2, <5>1 DEF Renamed, FollowInv, RequestFollowsRename
          <5>3. KindOf(e) = KindOf(Target(w))
            BY <3>1, <4>2, Disjoint DEF KindOf
          <5>4. QED
            BY <4>2, <4>4, <5>1, <5>2, <5>3 DEF NamesInv, NamesApart, TargetOK
        <4>5. QED
          BY <4>3, <4>4
      <3>6. CASE Decided(r)
        BY <3>6 DEF Decided
      <3>7. QED
        BY <1>2, <3>2, <3>3, <3>4, <3>5, <3>6, RequestStep
    <2>3. ASSUME NEW v \in Applying' PROVE MovedOK(v)'
      <3>1. CASE v = w /\ ApplyUpdate(w)
        <4>1. PICK e \in Live : /\ pc'[w] = IF e \in Parents THEN "repoint" ELSE "commit"
                                /\ Target(w)' = e /\ loc'[w].moved = {}
          BY <3>1, UpdateOpens
        <4>2. QED
          BY <3>1, <4>1 DEF MovedOK
      <3>2. CASE v = w /\ Repoint(w) /\ pc[v] = "repoint" /\ pc'[v] = "commit" /\ v \in Applying
        <4>1. Target(w) \in Parents /\ Target(w) \in Live
          BY <3>2 DEF NamesInv, TargetOK
        <4>2. /\ name' = name /\ reqs' = reqs /\ Target(w)' = Target(w)
              /\ \A r \in Requests :
                    r \in loc'[w].moved <=> /\ r \in Pending /\ reqs[r].place.kind = "parent"
                                            /\ reqs[r].place.name = name[Target(w)]
          BY <3>2, RepointCollects
        <4>3. ASSUME NEW r \in Pending', Target(w) \in reqs'[r].about PROVE r \in loc'[w].moved
          <5>1. r \in Pending /\ r \in Requests /\ Target(w) \in reqs[r].about
            BY <4>2, <4>3, PendingFacts
          <5>2. name[Target(w)] = reqs[r].place.name
            BY <4>1, <5>1 DEF FollowInv, RequestFollowsRename
          <5>3. reqs[r].place.kind = "parent"
            BY <4>1, <5>1, PendingFacts DEF FollowInv, AboutOK
          <5>4. QED
            BY <4>2, <5>1, <5>2, <5>3
        <4>4. ASSUME NEW r \in loc'[w].moved \cap Requests
              PROVE  Target(w) \in Parents /\ reqs'[r].place.name = name'[Target(w)]
          BY <4>1, <4>2
        <4>5. QED
          BY <3>2, <4>2, <4>3, <4>4 DEF MovedOK
      <3>3. CASE /\ v \in Applying /\ Target(v)' = Target(v)
                 /\ pc'[v] = pc[v] /\ loc'[v] = loc[v]
        <4>1. CASE pc[v] # "commit"
          BY <3>3, <4>1 DEF FollowInv, MovedOK
        <4>2. CASE pc[v] = "commit"
          <5> DEFINE t == Target(v)
          <5>1. MovedOK(v) /\ v \in Procs
            BY <3>3 DEF FollowInv, Applying
          <5>2. ASSUME NEW r \in Pending', t \in Parents, t \in reqs'[r].about
                PROVE  r \in loc[v].moved
            <6>1. r \in Requests
              BY PendingFacts
            <6>2. CASE reqs'[r] = reqs[r]
              BY <4>2, <5>1, <5>2, <6>2, PendingFacts DEF MovedOK
            <6>3. CASE Filed(w, r)
              BY <1>2, <4>2, <5>1, <5>2, <6>3 DEF Filed, RequestsApart
            <6>4. CASE Renamed(w, r)
              BY <4>2, <5>1, <5>2, <6>4 DEF Renamed, MovedOK
            <6>5. CASE Decided(r)
              BY <6>5 DEF Decided
            <6>6. QED
              BY <1>2, <6>1, <6>2, <6>3, <6>4, <6>5, RequestStep
          <5>3. ASSUME NEW r \in loc[v].moved \cap Requests
                PROVE  t \in Parents /\ reqs'[r].place.name = name'[t]
            <6>1. t \in Parents /\ reqs[r].place.name = name[t]
              BY <4>2, <5>1 DEF MovedOK
            <6>2. name'[t] = name[t]
              BY <1>2, <3>3, TargetNameStays
            <6>3. r \in Pending
              <7>1. r \in Pending \cup Unused
                BY <3>3, <5>1 DEF Inv, HandlersOK, Repointable, Applying
              <7>2. QED
                BY <7>1, ConstantsOK DEF Unused
            <6>4. CASE reqs'[r] = reqs[r] \/ Decided(r)
              BY <6>1, <6>2, <6>4 DEF Decided
            <6>5. CASE Filed(w, r)
              BY <6>3, <6>5, PendingFacts DEF Filed
            <6>6. CASE Renamed(w, r)
              <7>1. w \in Applying /\ w # v /\ pc[w] = "commit"
                BY <1>2, <6>6 DEF Renamed, Applying
              <7>2. Target(w) \in Parents /\ reqs[r].place.name = name[Target(w)]
                BY <6>6, <7>1 DEF Renamed, FollowInv, MovedOK
              <7>3. Target(w) \in Live /\ t \in Live
                BY <3>3, <7>1 DEF NamesInv, TargetOK
              <7>4. KindOf(Target(w)) = KindOf(t)
                BY <6>1, <7>2, Disjoint DEF KindOf
              <7>5. Target(w) = t
                BY <6>1, <7>2, <7>3, <7>4 DEF NamesInv, NamesApart
              <7>6. QED
                BY <3>3, <7>1, <7>5 DEF NamesInv, TargetsApart
            <6>7. QED
              BY <1>2, <6>4, <6>5, <6>6, RequestStep
          <5>4. QED
            BY <3>3, <4>2, <5>2, <5>3 DEF MovedOK
        <4>3. QED
          BY <4>1, <4>2
      <3>4. QED
        BY <1>2, <3>1, <3>2, <3>3, InFlight
    <2>4. QED
      BY <2>1, <2>2, <2>3 DEF FollowInv
  <1>3. QED
    BY <1>1, <1>2, NextIsStep

LEMMA FollowInvInit == Init => FollowInv
  BY DEF Init, FollowInv, RequestFollowsRename, Pending, AboutOK, MovedOK, Applying

\* A pending request for a parent goes by the parent's present name, through any renames, as
\* long as none is filed between the repoint of a rename and its commit
\* (RepointEntityNameReferences); everything else may overlap.
THEOREM RequestsFollowApart == Spec /\ []RequestsApart => []RequestFollowsRename
  <1>1. FollowInv => RequestFollowsRename
    BY DEF FollowInv
  <1>2. Inv /\ NamesInv /\ FollowInv /\ RequestsApart /\ [Next]_vars => FollowInv'
    BY FollowInvStep
  <1>3. QED
    BY <1>1, <1>2, FollowInvInit, NamesHold, Invariance, PTL DEF Spec

-----------------------------------------------------------------------------
(* An approval that nobody disturbs *)

\* The approval of a request, from its decision to its record.
AtWork        == {"resolve", "clear", "wait", "insert", "record"}
Approves(p, l) == p \in AtWork /\ l.outcome = "approved"

\* The rows of a slot.
SlotRows(pl) == {x \in rows : x.key \in KeysOf(pl.kind, pl.name) /\ x.slot = pl.slot}

\* What the place stands for, the rows of the slot and where the request says it is are left
\* as they are.
Undisturbed(l) ==
    /\ KeysOf(l.place.kind, l.place.name)' = KeysOf(l.place.kind, l.place.name)
    /\ SlotRows(l.place)' = SlotRows(l.place)
    /\ reqs'[l.request].place = reqs[l.request].place

\* While an approval is under way no other handler writes the slot, nor creates, renames or
\* deletes what the slot belongs to.
GrantsApart ==
    \A w \in Procs : \A l \in {loc[w]} :
        Approves(pc[w], l) /\ pc'[w] = pc[w] /\ loc'[w] = l => Undisturbed(l)

\* What an approval on its way to the record has found and left in the slot.
GrantAt(p, l) ==
    /\ l.invite = None
    /\ l.place = reqs[l.request].place /\ l.taker = reqs[l.request].requester
    /\ p = "resolve" => l.place.kind = "resource"
    /\ p \in {"clear", "wait", "insert"} => KeysOf(l.place.kind, l.place.name) = {l.key}
    /\ p = "wait" => l.old = SlotRows(l.place)
    /\ p = "insert" => SlotRows(l.place) = {}
    /\ p = "record" => HoldersOf(l.place) = {l.taker}

GrantOK(w) == Approves(pc[w], loc[w]) => GrantAt(pc[w], loc[w])
GrantInv   == \A w \in Procs : GrantOK(w)

LEMMA GrantFree == ASSUME NEW w, pc'[w] \notin AtWork PROVE GrantOK(w)'
  BY DEF GrantOK, Approves

\* The holders of a slot are the users of its rows.
LEMMA SlotHolders == ASSUME NEW pl PROVE HoldersOf(pl) = {x.user : x \in SlotRows(pl)}
  BY DEF HoldersOf, SlotRows

LEMMA ApproveGrants == ASSUME Inv, NEW w \in Procs, Approve(w) PROVE GrantOK(w)'
  <1>1. PICK r, u, l :
           /\ r \in Pending /\ u \in Users
           /\ l = DecisionOn(r, u, "approved") /\ TakeOver(w, l) /\ Decider(u, r)
    BY DEF Approve
  <1>2. r \in Requests /\ reqs[r] # None /\ reqs[r] \in Request /\ reqs' = reqs /\ name' = name
    BY <1>1 DEF Pending, Approve, tables, Inv, TypeOK
  <1>3. l \in Local
    BY <1>1, <1>2, DecisionHas
  <1>4. /\ l.place = reqs[r].place /\ l.taker = reqs[r].requester
        /\ l.request = r /\ l.invite = None
    BY <1>1 DEF DecisionOn, NoLocal
  <1>5. l.place \in Place
    BY <1>2, <1>4 DEF Request
  <1>6. CASE l.place.kind = "resource"
    <2>1. pc'[w] = "resolve" /\ loc'[w] = l
      BY <1>1, <1>6 DEF TakeOver, Goto, Inv, TypeOK
    <2>2. QED
      BY <1>2, <1>4, <1>6, <2>1 DEF GrantOK, GrantAt
  <1>7. CASE l.place.kind # "resource"
    <2>1. PICK k : k = [l EXCEPT !.key = l.place.name]
      OBVIOUS
    <2>2. pc'[w] = "clear" /\ loc'[w] = k
      BY <1>1, <1>7, <2>1 DEF TakeOver, Goto, Inv, TypeOK
    <2>3. /\ k.place = l.place /\ k.taker = l.taker /\ k.request = l.request
          /\ k.invite = l.invite /\ k.key = l.place.name
      BY <1>3, <2>1 DEF Local
    <2>4. l.place.kind = "parent"
      BY <1>5, <1>7 DEF Place, Kinds, KindOf
    <2>5. KeysOf(k.place.kind, k.place.name)' = {k.key}
      BY <2>3, <2>4 DEF KeysOf
    <2>6. QED
      BY <1>2, <1>4, <2>2, <2>3, <2>5 DEF GrantOK, GrantAt
  <1>8. QED
    BY <1>6, <1>7

LEMMA ResolveGrants ==
    ASSUME Inv, NamesInv, NEW w \in Procs, GrantOK(w), Resolve(w) PROVE GrantOK(w)'
  <1>1. PICK l : l = loc[w] /\ l \in Local
    BY HandlerHas
  <1>2. pc[w] = "resolve" /\ reqs' = reqs /\ name' = name
    BY DEF Resolve, tables
  <1>3. ASSUME NEW e \in Named("resource", l.place.name), Goto(w, "clear", [l EXCEPT !.key = e])
        PROVE  GrantOK(w)'
    <2>1. PICK k : k = [l EXCEPT !.key = e]
      OBVIOUS
    <2>2. pc'[w] = "clear" /\ loc'[w] = k
      BY <1>3, <2>1 DEF Goto, Inv, TypeOK
    <2>3. /\ k.place = l.place /\ k.taker = l.taker /\ k.request = l.request
          /\ k.invite = l.invite /\ k.outcome = l.outcome /\ k.key = e
      BY <1>1, <1>3, <2>1 DEF Local, Keys, Named, Live
    <2>4. Named("resource", l.place.name) = {e}
      BY <1>3 DEF NamesInv, NamesApart, Named
    <2>5. KeysOf("resource", l.place.name)' = {e}
      BY <1>2, <2>4 DEF KeysOf, Named, Live
    <2>6. SUFFICES ASSUME Approves("clear", k) PROVE GrantAt("clear", k)'
      BY <2>2 DEF GrantOK, GrantAt, Approves
    <2>7. /\ l.place = reqs[l.request].place /\ l.place.kind = "resource" /\ l.invite = None
          /\ l.taker = reqs[l.request].requester
      BY <1>1, <1>2, <2>3, <2>6 DEF GrantOK, GrantAt, Approves, AtWork
    <2>8. QED
      BY <1>2, <2>3, <2>5, <2>7 DEF GrantAt
  <1>4. Finish(w) => pc'[w] = "idle"
    BY DEF Finish, Goto, Inv, TypeOK
  <1>5. (\E e \in Named("resource", l.place.name) : Goto(w, "clear", [l EXCEPT !.key = e])) \/ Finish(w)
    BY <1>1 DEF Resolve
  <1>6. QED
    BY <1>3, <1>4, <1>5, GrantFree DEF AtWork

\* A slot is cleared whether or not the statement has to wait.
LEMMA ClearGrants ==
    ASSUME Inv, NEW w \in Procs, GrantOK(w), Clear(w) \/ ClearAfterWait(w) PROVE GrantOK(w)'
  <1>1. PICK l : l = loc[w] /\ l \in Local
    BY HandlerHas
  <1>2. pc[w] \in {"clear", "wait"} /\ reqs' = reqs /\ name' = name
    BY DEF Clear, ClearAfterWait
  <1>3. PICK k, p : /\ Goto(w, p, k) /\ k \in {l, [l EXCEPT !.old = Incumbents(w)], [l EXCEPT !.old = {}]}
                    /\ \/ p = "insert" /\ pc[w] = "clear" /\ rows' = rows \ Incumbents(w)
                       \/ p = "insert" /\ pc[w] = "wait" /\ rows' = rows \ l.old
                       \/ p = "wait" /\ rows' = rows /\ k.old = Incumbents(w)
    <2>1. CASE Clear(w) /\ Incumbents(w) \cap Locked = {}
      BY <1>1, <2>1 DEF Clear
    <2>2. CASE Clear(w) /\ Incumbents(w) \cap Locked # {}
      <3>1. [l EXCEPT !.old = Incumbents(w)].old = Incumbents(w)
        BY <1>1 DEF Local
      <3>2. QED
        BY <1>1, <2>2, <3>1 DEF Clear
    <2>3. CASE ClearAfterWait(w)
      BY <1>1, <2>3 DEF ClearAfterWait
    <2>4. QED
      BY <2>1, <2>2, <2>3
  <1>4. pc'[w] = p /\ loc'[w] = k
    BY <1>3 DEF Goto, Inv, TypeOK
  <1>5. /\ k.place = l.place /\ k.taker = l.taker /\ k.request = l.request
        /\ k.invite = l.invite /\ k.outcome = l.outcome /\ k.key = l.key
    BY <1>1, <1>3 DEF Local
  <1>6. SUFFICES ASSUME Approves(p, k) PROVE GrantAt(p, k)'
    BY <1>4 DEF GrantOK, GrantAt, Approves
  <1>7. /\ l.place = reqs[l.request].place /\ l.taker = reqs[l.request].requester
        /\ KeysOf(l.place.kind, l.place.name) = {l.key} /\ l.invite = None
        /\ pc[w] = "wait" => l.old = SlotRows(l.place)
    BY <1>1, <1>2, <1>5, <1>6 DEF GrantOK, GrantAt, Approves, AtWork
  <1>8. KeysOf(l.place.kind, l.place.name)' = {l.key}
    BY <1>2, <1>7 DEF KeysOf, Named, Live
  <1>9. SlotRows(l.place) = Incumbents(w)
    BY <1>1, <1>7 DEF SlotRows, Incumbents
  <1>10. p = "insert" => SlotRows(l.place)' = {}
    BY <1>3, <1>7, <1>8, <1>9 DEF SlotRows
  <1>11. p = "wait" => SlotRows(l.place)' = Incumbents(w) /\ k.old = Incumbents(w)
    BY <1>3, <1>7, <1>8, <1>9 DEF SlotRows
  <1>12. p \in {"insert", "wait"}
    BY <1>3
  <1>13. QED
    BY <1>2, <1>5, <1>7, <1>8, <1>10, <1>11, <1>12 DEF GrantAt

LEMMA InsertGrants ==
    ASSUME Inv, NEW w \in Procs, GrantOK(w), Insert(w) PROVE GrantOK(w)'
  <1>1. PICK l : l = loc[w] /\ l \in Local
    BY HandlerHas
  <1>2. PICK new : new = [id |-> nextRow, key |-> l.key, slot |-> l.place.slot, user |-> l.taker]
    OBVIOUS
  <1>3. pc[w] = "insert" /\ reqs' = reqs /\ name' = name /\ rows' = rows \cup {new}
    BY <1>1, <1>2 DEF Insert
  <1>4. pc'[w] \in {"record", "mark"} /\ loc'[w] = l
    BY <1>1 DEF Insert, Goto, Inv, TypeOK
  <1>5. SUFFICES ASSUME pc'[w] = "record", Approves("record", l) PROVE GrantAt("record", l)'
    BY <1>4 DEF GrantOK, GrantAt, Approves, AtWork
  <1>6. /\ l.place = reqs[l.request].place /\ l.taker = reqs[l.request].requester
        /\ l.invite = None
        /\ KeysOf(l.place.kind, l.place.name) = {l.key} /\ SlotRows(l.place) = {}
    BY <1>1, <1>3, <1>5 DEF GrantOK, GrantAt, Approves, AtWork
  <1>7. KeysOf(l.place.kind, l.place.name)' = {l.key}
    BY <1>3, <1>6 DEF KeysOf, Named, Live
  <1>8. SlotRows(l.place)' = {new}
    BY <1>2, <1>3, <1>6, <1>7 DEF SlotRows
  <1>9. HoldersOf(l.place)' = {l.taker}
    <2>1. HoldersOf(l.place)' = {x.user : x \in SlotRows(l.place)'}
      BY DEF HoldersOf, SlotRows
    <2>2. QED
      BY <1>2, <1>8, <2>1
  <1>10. QED
    BY <1>3, <1>6, <1>9 DEF GrantAt

\* An invite's claim is no request's approval.
LEMMA AcceptGrants == ASSUME Inv, NEW w \in Procs, AcceptInvite(w) PROVE GrantOK(w)'
  <1>1. PICK i, u, l :
          /\ i \in Unused /\ u \in Users
          /\ l = [NoLocal EXCEPT !.user = u, !.taker = u, !.invite = i, !.place = invs[i].place]
          /\ TakeOver(w, l) \/ Goto(w, "slot", l)
    BY DEF AcceptInvite
  <1>2. l.outcome = None
    BY <1>1 DEF NoLocal
  <1>3. ASSUME NEW p, NEW k, Goto(w, p, k) PROVE loc'[w] = k
    BY <1>3 DEF Goto, Inv, TypeOK
  <1>4. [l EXCEPT !.key = l.place.name].outcome = None
    BY <1>1 DEF NoLocal
  <1>5. loc'[w].outcome = None
    BY <1>1, <1>2, <1>3, <1>4 DEF TakeOver
  <1>6. QED
    BY <1>5, NullsOK DEF GrantOK, Approves

LEMMA RefusalGrants ==
    ASSUME Inv, NEW w \in Procs, Reject(w) \/ Withdraw(w) PROVE GrantOK(w)'
  <1>1. ASSUME NEW r, NEW u, NEW o \in {"rejected", "withdrawn"},
               Goto(w, "record", DecisionOn(r, u, o))
        PROVE  GrantOK(w)'
    <2>1. loc'[w] = DecisionOn(r, u, o)
      BY <1>1 DEF Goto, Inv, TypeOK
    <2>2. loc'[w].outcome = o
      BY <2>1 DEF DecisionOn, NoLocal
    <2>3. QED
      BY <2>2 DEF GrantOK, Approves
  <1>2. QED
    BY <1>1 DEF Reject, Withdraw

LEMMA OthersGrant ==
    ASSUME Inv, NEW w \in Procs, GrantOK(w),
           \/ FileRequest(w) \/ FileFromInvite(w) \/ FileInsert(w) \/ Record(w)
           \/ CreateInvite(w) \/ MarkInviteUsed(w) \/ Edited(w) \/ Abort(w)
    PROVE  GrantOK(w)'
  <1>1. ASSUME NEW p, NEW l, Goto(w, p, l) PROVE pc'[w] = p
    BY <1>1 DEF Goto, Inv, TypeOK
  <1>2. FileRequest(w) \/ FileFromInvite(w) => pc'[w] \in {"file", "idle"}
    BY <1>1 DEF FileRequest, FileFromInvite, FindIncumbent, Finish
  <1>3. FileInsert(w) => pc'[w] \in {"idle", "mark"}
    BY <1>1 DEF FileInsert, Finish
  <1>4. Record(w) \/ MarkInviteUsed(w) \/ Abort(w) => pc'[w] = "idle"
    BY <1>1 DEF Record, MarkInviteUsed, Abort, Finish
  <1>5. CreateInvite(w) \/ FileEdit(w) \/ ApplyCreate(w) \/ ApplyDelete(w) => pc'[w] = "idle"
    BY DEF CreateInvite, FileEdit, ApplyCreate, ApplyDelete
  <1>6. ApplyUpdate(w) \/ Repoint(w) \/ ApplyCommit(w) => pc'[w] \in {"repoint", "commit", "idle"}
    BY <1>1 DEF ApplyUpdate, Repoint, ApplyCommit, Finish
  <1>7. pc'[w] \in {"file", "idle", "mark", "repoint", "commit"}
    BY <1>2, <1>3, <1>4, <1>5, <1>6 DEF Edited
  <1>8. QED
    BY <1>7, GrantFree DEF AtWork

\* Who asked for what stays with a request.
LEMMA RequesterStays ==
    ASSUME Inv, [Next]_vars, NEW r \in Requests, reqs[r] # None
    PROVE  reqs'[r] # None /\ reqs'[r].requester = reqs[r].requester
  <1>1. ASSUME NEW w \in Procs, FileInsert(w) PROVE reqs'[r] = reqs[r]
    BY <1>1 DEF FileInsert, Inv, TypeOK
  <1>2. ASSUME NEW w \in Procs, Record(w)
        PROVE  reqs'[r] # None /\ reqs'[r].requester = reqs[r].requester
    <2>1. PICK l : l = loc[w]
      OBVIOUS
    <2>2. CASE l.request \in Pending
      <3>1. /\ reqs[l.request] \in Request /\ reqs'[l.request] \in Request
            /\ reqs'[l.request] = [reqs[l.request] EXCEPT !.status = l.outcome,
                                                          !.decidedBy = l.user]
            /\ \A q \in Requests : q # l.request => reqs'[q] = reqs[q]
        BY <1>2, <2>1, <2>2, RecordStep
      <3>2. /\ reqs'[l.request] # None
            /\ reqs'[l.request].requester = reqs[l.request].requester
        BY <3>1, NullsOK DEF Request
      <3>3. QED
        BY <3>1, <3>2
    <2>3. CASE l.request \notin Pending
      BY <1>2, <2>1, <2>3 DEF Record
    <2>4. QED
      BY <2>2, <2>3
  <1>3. ASSUME NEW w \in Procs, ApplyCommit(w)
        PROVE  reqs'[r] # None /\ reqs'[r].requester = reqs[r].requester
    <2>1. PICK l, n : l = loc[w] /\ n = edits[l.edit].name
      OBVIOUS
    <2>2. RequestRenamed(r, l, n)
      BY <1>3, <2>1, CommitStep
    <2>3. CASE reqs'[r] # reqs[r]
      <3>1. /\ reqs[r] \in Request /\ reqs'[r] \in Request
            /\ reqs'[r] = [reqs[r] EXCEPT !.place = [reqs[r].place EXCEPT !.name = n]]
        BY <2>2, <2>3 DEF RequestRenamed
      <3>2. QED
        BY <3>1, NullsOK DEF Request
    <2>4. QED
      BY <2>3
  <1>4. ASSUME NEW w \in Procs, Insert(w) PROVE reqs'[r] = reqs[r]
    BY <1>4 DEF Insert
  <1>5. QED
    BY <1>1, <1>2, <1>3, <1>4, RequestsAlone

\* What leaves an approval undisturbed leaves it true.
LEMMA StandingGrants ==
    ASSUME Inv, [Next]_vars, NEW v \in Procs, GrantOK(v), pc'[v] = pc[v], loc'[v] = loc[v],
           NEW l, l = loc[v], Approves(pc[v], l) => Undisturbed(l)
    PROVE  GrantOK(v)'
  <1>1. SUFFICES ASSUME Approves(pc[v], l) PROVE GrantAt(pc[v], l)'
    BY DEF GrantOK, GrantAt, Approves
  <1>2. Undisturbed(l) /\ GrantAt(pc[v], l)
    BY <1>1 DEF GrantOK
  <1>3. l.request \in Requests /\ reqs[l.request] # None
    BY <1>1, <1>2, HandlerHas DEF GrantAt, Approves, AtWork, LocalOK, ForRequest
  <1>4. reqs'[l.request].requester = reqs[l.request].requester
    BY <1>3, RequesterStays
  <1>5. HoldersOf(l.place)' = HoldersOf(l.place)
    <2>1. HoldersOf(l.place)' = {x.user : x \in SlotRows(l.place)'}
      BY DEF HoldersOf, SlotRows
    <2>2. QED
      BY <1>2, <2>1, SlotHolders DEF Undisturbed
  <1>6. QED
    BY <1>2, <1>4, <1>5 DEF GrantAt, Undisturbed

LEMMA GrantInvStep ==
    ASSUME Inv, NamesInv, GrantInv, [Next]_vars, [GrantsApart]_vars PROVE GrantInv'
  <1>1. CASE UNCHANGED vars
    <2>1. UNCHANGED <<name, rows, reqs, pc, loc>>
      BY <1>1 DEF vars
    <2>2. ASSUME NEW l PROVE Undisturbed(l)
      BY <2>1 DEF Undisturbed, SlotRows, KeysOf, Named, Live
    <2>3. QED
      BY <2>1, <2>2, StandingGrants DEF GrantInv
  <1>2. ASSUME NEW w \in Procs, Step(w), GrantsApart PROVE GrantInv'
    <2>1. GrantOK(w)'
      BY <1>2, ApproveGrants, ResolveGrants, ClearGrants, InsertGrants, AcceptGrants,
         RefusalGrants, OthersGrant
      DEF GrantInv, Step, Hand
    <2>2. ASSUME NEW v \in Procs, v # w PROVE GrantOK(v)'
      <3>1. pc'[v] = pc[v] /\ loc'[v] = loc[v] /\ loc[v] \in Local
        BY <1>2, <2>2, OthersStand, HandlerHas
      <3>2. Approves(pc[v], loc[v]) => Undisturbed(loc[v])
        BY <1>2, <3>1 DEF GrantsApart
      <3>3. QED
        BY <3>1, <3>2, StandingGrants DEF GrantInv
    <2>3. QED
      BY <2>1, <2>2 DEF GrantInv
  <1>3. QED
    BY <1>1, <1>2, NextIsStep

LEMMA GrantInvInit == Init => GrantInv
  BY DEF Init, GrantInv, GrantOK, Approves, AtWork

LEMMA GrantHolds == Spec /\ [][GrantsApart]_vars => []GrantInv
  <1>1. Inv /\ NamesInv /\ GrantInv /\ [Next]_vars /\ [GrantsApart]_vars => GrantInv'
    BY GrantInvStep
  <1>2. QED
    BY <1>1, GrantInvInit, NamesHold, Invariance, PTL DEF Spec

\* Only the end of an approval puts a request on record as approved.
LEMMA ApprovedBy ==
    ASSUME Inv, [Next]_vars, NEW r \in Pending, reqs'[r] # None, reqs'[r].status = "approved"
    PROVE  \E w \in Procs : pc[w] = "record" /\ loc[w].request = r /\ loc[w].outcome = "approved"
  <1>1. r \in Requests /\ reqs[r] # None /\ reqs[r].status = "pending"
    BY PendingFacts
  <1>2. reqs'[r] # reqs[r]
    BY <1>1
  <1>3. ASSUME NEW w \in Procs, FileInsert(w) PROVE FALSE
    BY <1>1, <1>2, <1>3 DEF FileInsert, Inv, TypeOK
  <1>4. ASSUME NEW w \in Procs, Record(w)
        PROVE  pc[w] = "record" /\ loc[w].request = r /\ loc[w].outcome = "approved"
    <2>1. PICK l : l = loc[w]
      OBVIOUS
    <2>2. l.request \in Pending
      BY <1>2, <1>4, <2>1 DEF Record
    <2>3. /\ l \in Local /\ LocalOK("record", l) /\ l.request \in Requests
          /\ reqs[l.request] \in Request
          /\ reqs'[l.request] = [reqs[l.request] EXCEPT !.status = l.outcome,
                                                        !.decidedBy = l.user]
          /\ \A q \in Requests : q # l.request => reqs'[q] = reqs[q]
      BY <1>4, <2>1, <2>2, RecordStep
    <2>4. l.request = r
      BY <1>1, <1>2, <2>3
    <2>5. reqs'[r].status = l.outcome
      BY <2>3, <2>4 DEF Request
    <2>6. QED
      BY <1>4, <2>1, <2>4, <2>5 DEF Record
  <1>5. ASSUME NEW w \in Procs, ApplyCommit(w) PROVE FALSE
    <2>1. PICK l, n : l = loc[w] /\ n = edits[l.edit].name
      OBVIOUS
    <2>2. RequestRenamed(r, l, n)
      BY <1>1, <1>5, <2>1, CommitStep
    <2>3. /\ reqs[r] \in Request
          /\ reqs'[r] = [reqs[r] EXCEPT !.place = [reqs[r].place EXCEPT !.name = n]]
      BY <1>2, <2>2 DEF RequestRenamed
    <2>4. reqs'[r].status = reqs[r].status
      BY <2>3 DEF Request
    <2>5. QED
      BY <1>1, <2>4
  <1>6. ASSUME NEW w \in Procs, Insert(w) PROVE FALSE
    BY <1>2, <1>6 DEF Insert
  <1>7. QED
    BY <1>2, <1>3, <1>4, <1>5, <1>6, RequestsAlone

\* While nobody disturbs an approval under way, an approval on record means that the requester
\* is the one holder of the slot, however the handlers interleave and whatever a request that
\* died before had left there (ReplaceContactSlot clears what it finds before
\* DecideContactReplacement records).
THEOREM ApprovedHoldsApart == Spec /\ [][GrantsApart]_vars => ApprovedHolds
  <1>1. ASSUME Inv, GrantInv, [Next]_vars, NEW r \in Pending, reqs'[r] # None,
               reqs'[r].status = "approved"
        PROVE  HoldersOf(reqs[r].place) = {reqs[r].requester}
    <2>1. PICK w \in Procs :
            pc[w] = "record" /\ loc[w].request = r /\ loc[w].outcome = "approved"
      BY <1>1, ApprovedBy
    <2>2. PICK l : l = loc[w]
      OBVIOUS
    <2>3. GrantAt("record", l)
      BY <1>1, <2>1, <2>2 DEF GrantInv, GrantOK, Approves, AtWork
    <2>4. QED
      BY <2>1, <2>2, <2>3 DEF GrantAt
  <1>2. Inv /\ GrantInv /\ [Next]_vars =>
          [\A r \in Pending : reqs'[r] # None /\ reqs'[r].status = "approved" =>
              HoldersOf(reqs[r].place) = {reqs[r].requester}]_vars
    BY <1>1
  <1>3. QED
    BY <1>2, GrantHolds, Invariance, PTL DEF Spec, ApprovedHolds

-----------------------------------------------------------------------------
(* Handlers that run one after another *)

\* While a handler is in flight no other takes a step.
Serial   == \A w \in Procs : pc[w] # "idle" => pc'[w] # pc[w]
OneByOne == [][Serial]_vars

Alone == \A v, w \in Procs : pc[v] # "idle" /\ pc[w] # "idle" => v = w

LEMMA AloneStep == ASSUME Inv, Alone, [Next]_vars, [Serial]_vars PROVE Alone'
  <1>1. CASE UNCHANGED vars
    BY <1>1 DEF vars, Alone
  <1>2. ASSUME NEW w \in Procs, Step(w), Serial PROVE Alone'
    <2>1. ASSUME NEW v \in Procs, v # w PROVE pc'[v] = "idle"
      BY <1>2, <2>1, OthersStand DEF Serial
    <2>2. QED
      BY <2>1 DEF Alone
  <1>3. QED
    BY <1>1, <1>2, NextIsStep

LEMMA AloneHolds == Spec /\ OneByOne => []Alone
  <1>1. Init => Alone
    BY DEF Init, Alone
  <1>2. Inv /\ Alone /\ [Next]_vars /\ [Serial]_vars => Alone'
    BY AloneStep
  <1>3. QED
    BY <1>1, <1>2, Invariance, PTL DEF Spec, OneByOne

\* Handlers that run one after another never meet in a slot, in a rename or in an approval.
THEOREM OneByOneIsEnough ==
    Spec /\ OneByOne => []ResourceSlotSingle /\ []RequestFollowsRename /\ ApprovedHolds
  <1>1. Alone => SlotsApart
    BY DEF Alone, SlotsApart
  <1>2. Alone => RequestsApart
    BY DEF Alone, RequestsApart
  <1>3. [Serial]_vars => [GrantsApart]_vars
    BY DEF Serial, GrantsApart, Approves, AtWork
  <1>4. QED
    BY <1>1, <1>2, <1>3, AloneHolds, SlotsSingleApart, RequestsFollowApart,
       ApprovedHoldsApart, PTL DEF OneByOne

\* One handler at a time is a server with one handler: the instance TLC explores.
THEOREM OneHandlerIsSerial == (\E w \in Procs : Procs = {w}) /\ Spec => OneByOne
  <1> SUFFICES ASSUME \E w \in Procs : Procs = {w} PROVE Spec => OneByOne
    OBVIOUS
  <1>1. ASSUME Inv, NEW w \in Procs, Step(w), pc[w] # "idle" PROVE pc'[w] # pc[w]
    <2>1. ASSUME NEW p, NEW l, Goto(w, p, l) PROVE pc'[w] = p
      BY <1>1, <2>1 DEF Goto, Inv, TypeOK
    <2>2. FileFromInvite(w) \/ FileInsert(w) => pc'[w] # pc[w]
      BY <2>1 DEF FileFromInvite, FindIncumbent, FileInsert, Finish
    <2>3. Resolve(w) \/ Clear(w) \/ ClearAfterWait(w) \/ Insert(w) => pc'[w] # pc[w]
      BY <2>1 DEF Resolve, Clear, ClearAfterWait, Insert, Finish
    <2>4. Record(w) \/ MarkInviteUsed(w) \/ Abort(w) => pc'[w] # pc[w]
      BY <2>1, <1>1 DEF Record, MarkInviteUsed, Abort, Finish
    <2>5. Repoint(w) \/ ApplyCommit(w) => pc'[w] # pc[w]
      BY <2>1 DEF Repoint, ApplyCommit, Finish
    <2>6. ~(\/ FileRequest(w) \/ Approve(w) \/ Reject(w) \/ Withdraw(w) \/ CreateInvite(w)
            \/ AcceptInvite(w) \/ FileEdit(w) \/ ApplyUpdate(w) \/ ApplyCreate(w) \/ ApplyDelete(w))
      BY <1>1
      DEF FileRequest, Approve, Reject, Withdraw, CreateInvite, AcceptInvite, FileEdit,
          ApplyUpdate, ApplyCreate, ApplyDelete
    <2>7. QED
      BY <1>1, <2>2, <2>3, <2>4, <2>5, <2>6 DEF Step, Hand, Edited
  <1>2. Inv /\ [Next]_vars => [Serial]_vars
    BY <1>1, NextIsStep DEF Serial
  <1>3. QED
    BY <1>2, Invariance, PTL DEF Spec, OneByOne
=============================================================================
