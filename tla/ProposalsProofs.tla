-------------------------- MODULE ProposalsProofs --------------------------
(***************************************************************************)
(* Proofs about Proposals: type correctness, the revision log, what        *)
(* approvals leave behind, and what overlap can spoil, for every number of *)
(* handlers, users, proposals, entities and fields, and for every bound.   *)
(***************************************************************************)
EXTENDS Proposals, SequenceTheorems, TLAPS

-----------------------------------------------------------------------------
(* The operators the actions are built from *)

\* Decoding a payload gives every field a value.
LEMMA DecodedType == \A payload \in Payloads : Decoded(payload) \in States
  BY ConstantsOK DEF Decoded, States

\* Merging a payload over a complete state gives a complete state.
LEMMA MergeType ==
    \A base \in States, payload \in Payloads : MergeProposedState(base, payload) \in States
  BY ConstantsOK DEF MergeProposedState, States

\* So the proposed state of a proposal, new or revised, is always complete.
LEMMA StateForType ==
    \A op \in Ops, base \in States \cup {NoRow}, payload \in Payloads :
        StateFor(op, base, payload) \in States
  <1> SUFFICES ASSUME NEW op \in Ops, NEW base \in States \cup {NoRow},
                      NEW payload \in Payloads
               PROVE  StateFor(op, base, payload) \in States
    OBVIOUS
  <1>1. Undecoded \in States
    BY ConstantsOK DEF Undecoded, States
  <1>2. CASE op = "delete"
    BY <1>1, <1>2 DEF StateFor
  <1>3. CASE op = "update" /\ base # NoRow
    BY <1>3, MergeType DEF StateFor
  <1>4. CASE op # "delete" /\ ~(op = "update" /\ base # NoRow)
    BY <1>4, DecodedType DEF StateFor
  <1>5. QED
    BY <1>2, <1>3, <1>4

LEMMA NoRequestType == NoRequest \in Request
  BY ConstantsOK DEF NoRequest, Request, Undecoded, States

\* A handler that goes on, goes on to a statement it has with local variables it has.
LEMMA ContinueType ==
    ASSUME TypeOK, NEW w \in Procs, NEW next \in Points, NEW r \in Request,
           Continue(w, next, r)
    PROVE  pc' \in [Procs -> Points] /\ req' \in [Procs -> Request]
  BY DEF TypeOK, Continue

LEMMA FinishType ==
    ASSUME TypeOK, NEW w \in Procs, Finish(w)
    PROVE  pc' \in [Procs -> Points] /\ req' \in [Procs -> Request]
  BY NoRequestType DEF TypeOK, Finish, Continue, Points

-----------------------------------------------------------------------------
(* Type correctness *)

\* What is known of a handler's local variables where it stands, ids being the
\* proposals that exist.
LocalOK(point, r, ids) ==
    /\ point # "idle" => r.user \in Users /\ r.action \in Actions
    /\ point \notin {"idle", "stamp", "insert"} => r.pid \in ids
    /\ point \in {"stamp", "insert", "count", "check", "write", "commit"} =>
          r.op \in Ops /\ r.target \in Entities /\ r.status \in Statuses
    /\ point = "status" => r.status \in Statuses

\* TypeOK is not inductive: a step writes rows from local variables, so it takes what
\* those hold at that step.
TypeInv == TypeOK /\ \A w \in Procs : LocalOK(pc[w], req[w], Proposed)

\* A step of w preserves TypeInv if it leaves w well placed and forgets no proposal.
LEMMA StepType ==
    ASSUME TypeInv, NEW w \in Procs, NEW next \in Points, NEW r \in Request,
           Continue(w, next, r), Proposed \subseteq Proposed', LocalOK(next, r, Proposed')
    PROVE  /\ pc' \in [Procs -> Points] /\ req' \in [Procs -> Request]
           /\ \A v \in Procs : LocalOK(pc'[v], req'[v], Proposed')
  <1>1. pc' \in [Procs -> Points] /\ req' \in [Procs -> Request]
    BY ContinueType DEF TypeInv
  <1>2. ASSUME NEW v \in Procs, v # w PROVE LocalOK(pc'[v], req'[v], Proposed')
    <2>1. pc'[v] = pc[v] /\ req'[v] = req[v]
      BY <1>2 DEF Continue, TypeInv, TypeOK
    <2>2. LocalOK(pc[v], req[v], Proposed)
      BY DEF TypeInv
    <2>3. QED
      BY <2>1, <2>2 DEF LocalOK
  <1>3. pc'[w] = next /\ req'[w] = r
    BY DEF Continue, TypeInv, TypeOK
  <1>4. QED
    BY <1>1, <1>2, <1>3

\* ... in particular if it touches no table,
LEMMA QuietStep ==
    ASSUME TypeInv, NEW w \in Procs, NEW next \in Points, NEW r \in Request,
           Continue(w, next, r), LocalOK(next, r, Proposed), UNCHANGED tables
    PROVE  TypeInv'
  <1>1. Proposed' = Proposed
    BY DEF Proposed, tables
  <1>2. /\ pc' \in [Procs -> Points] /\ req' \in [Procs -> Request]
        /\ \A v \in Procs : LocalOK(pc'[v], req'[v], Proposed')
    BY <1>1, StepType
  <1>3. TypeOK'
    BY <1>2 DEF TypeInv, TypeOK, tables
  <1>4. QED
    BY <1>2, <1>3 DEF TypeInv

\* ... and if it answers the request.
LEMMA IdleOK == \A ids : LocalOK("idle", NoRequest, ids)
  BY DEF LocalOK

LEMMA QuietFinish ==
    ASSUME TypeInv, NEW w \in Procs, Finish(w), UNCHANGED tables
    PROVE  TypeInv'
  BY QuietStep, IdleOK, NoRequestType DEF Finish, Points

LEMMA InitType == Init => TypeInv
  <1> SUFFICES ASSUME Init PROVE TypeInv
    OBVIOUS
  <1>1. TypeOK
    BY ConstantsOK, NoRequestType DEF Init, TypeOK, Row, Points
  <1>2. QED
    BY <1>1, IdleOK DEF Init, TypeInv

-----------------------------------------------------------------------------
(* The revision log *)

\* MAX over a gapless log is its length.
LEMMA LastNoIs == ASSUME NEW p \in Pids, NEW n \in Nat \ {0}, Numbers(p) = 1 .. n
                  PROVE  LastNo(p) = n
  <1>1. revs[p] # {}
    BY DEF Numbers
  <1>2. n \in Numbers(p) /\ \A m \in Numbers(p) : m <= n
    OBVIOUS
  <1>3. ASSUME NEW k \in Numbers(p), \A m \in Numbers(p) : m <= k PROVE k = n
    <2>1. n <= k
      BY <1>2, <1>3
    <2>2. QED
      BY <2>1
  <1>4. (CHOOSE k \in Numbers(p) : \A m \in Numbers(p) : m <= k) = n
    BY <1>2, <1>3
  <1>5. QED
    BY <1>1, <1>4 DEF LastNo

\* What orders concurrent editors: a number was read off a log that only grows, a
\* handler past the unique index holds the next number, and it is alone there.
InFlightOK ==
    /\ \A w \in Procs : pc[w] = "revision" => req[w].no \in 1 .. LastNo(req[w].pid) + 1
    /\ \A w \in Procs : pc[w] = "head" => req[w].no = LastNo(req[w].pid) + 1
    /\ \A v, w \in Procs : pc[v] = "head" /\ pc[w] = "head" /\ req[v].pid = req[w].pid
                               => v = w

\* RevisionLogOK is not inductive: AddRevision reads MAX + 1 in one statement, inserts
\* in another and moves the head in a third.
LogInv == /\ \A p \in Pids \ Proposed : revs[p] = {}
          /\ \A p \in Proposed : LastNo(p) \in Nat \ {0}
          /\ RevisionLogOK
          /\ InFlightOK

Inv == TypeInv /\ LogInv

LEMMA InitLog == Init => LogInv
  BY NullsOK DEF Init, LogInv, InFlightOK, RevisionLogOK, Proposed

\* A step keeps LogInv if it changes no revision and no head, and takes no handler
\* into the transaction of AddRevision.
LEMMA QuietLog ==
    ASSUME Inv, NEW w \in Procs, NEW next \in Points \ {"revision", "head"},
           NEW r \in Request, Continue(w, next, r), revs' = revs, Proposed' = Proposed,
           \A p \in Proposed : prop'[p].state = prop[p].state
    PROVE  LogInv'
  <1>1. \A p : LastNo(p)' = LastNo(p) /\ Numbers(p)' = Numbers(p)
    BY DEF LastNo, Numbers
  <1>2. RevisionLogOK'
    BY <1>1 DEF RevisionLogOK, Inv, LogInv
  <1>3. \A v \in Procs : pc'[v] \in {"revision", "head"} => pc'[v] = pc[v] /\ req'[v] = req[v]
    BY DEF Continue, Inv, TypeInv, TypeOK
  <1>4. InFlightOK'
    BY <1>1, <1>3 DEF InFlightOK, Inv, LogInv
  <1>5. QED
    BY <1>1, <1>2, <1>4 DEF Inv, LogInv

LEMMA SameLog == ASSUME LogInv, UNCHANGED <<prop, revs, pc, req>> PROVE LogInv'
  <1>1. Proposed' = Proposed
    BY DEF Proposed
  <1>2. \A q : LastNo(q)' = LastNo(q) /\ Numbers(q)' = Numbers(q)
    BY DEF LastNo, Numbers
  <1>3. RevisionLogOK'
    BY <1>1, <1>2 DEF LogInv, RevisionLogOK
  <1>4. InFlightOK'
    BY <1>2 DEF LogInv, InFlightOK
  <1>5. QED
    BY <1>1, <1>2, <1>3, <1>4 DEF LogInv

\* A step that touches no table and goes nowhere near AddRevision keeps everything,
LEMMA QuietInv ==
    ASSUME Inv, NEW w \in Procs, NEW next \in Points \ {"revision", "head"},
           NEW r \in Request, Continue(w, next, r), LocalOK(next, r, Proposed),
           UNCHANGED tables
    PROVE  Inv'
  <1>1. TypeInv'
    BY QuietStep DEF Inv
  <1>2. revs' = revs /\ Proposed' = Proposed /\ prop' = prop
    BY DEF tables, Proposed
  <1>3. LogInv'
    BY <1>2, QuietLog
  <1>4. QED
    BY <1>1, <1>3 DEF Inv

\* ... and so does one that only answers the request.
LEMMA FinishInv == ASSUME Inv, NEW w \in Procs, Finish(w), UNCHANGED tables PROVE Inv'
  BY QuietInv, IdleOK, NoRequestType DEF Finish, Points

-----------------------------------------------------------------------------
(* The steps, one by one *)

LEMMA SnapshotType == ASSUME TypeOK, NEW e \in Entities
                      PROVE  SnapshotEntity(e) \in States \cup {NoRow}
  BY DEF TypeOK, SnapshotEntity, Row

LEMMA UpdatedAtType == ASSUME TypeOK, NEW e \in Entities
                       PROVE  EntityUpdatedAt(e) \in Nat \cup {None}
  BY DEF TypeOK, EntityUpdatedAt, Row

LEMMA NewRequestType ==
    ASSUME NEW u \in Users, NEW op \in Ops, NEW e \in Entities,
           NEW base \in States \cup {NoRow}, NEW payload \in Payloads,
           NEW status \in {"draft", "pending"}, NEW invs \in SUBSET Invites
    PROVE  LET r == NewRequest(u, op, e, base, payload, status, invs)
           IN  r \in Request /\ \A ids : LocalOK("stamp", r, ids) /\ LocalOK("insert", r, ids)
  <1> DEFINE r == NewRequest(u, op, e, base, payload, status, invs)
  <1>1. StateFor(op, base, payload) \in States
    BY StateForType
  <1>2. r \in Request
    BY <1>1, NoRequestType DEF NewRequest, Request, Statuses, Actions
  <1>3. r.user = u /\ r.op = op /\ r.target = e /\ r.status = status /\ r.action = "create"
    BY DEF NewRequest, NoRequest
  <1>4. QED
    BY <1>2, <1>3 DEF LocalOK, Statuses, Actions

LEMMA CreateNewInv == ASSUME Inv, NEW w \in Procs, CreateNew(w) PROVE Inv'
  <1>1. PICK u \in Users, e \in Entities, payload \in Payloads,
             status \in {"draft", "pending"}, invs \in SUBSET Invites :
               Continue(w, "insert", NewRequest(u, "create", e, NoRow, payload, status, invs))
    BY DEF CreateNew
  <1> DEFINE r == NewRequest(u, "create", e, NoRow, payload, status, invs)
  <1>2. r \in Request /\ LocalOK("insert", r, Proposed)
    BY NewRequestType DEF Ops
  <1> HIDE DEF r
  <1>3. QED
    BY <1>1, <1>2, QuietInv DEF CreateNew, Points, r

LEMMA CreateBranchInv == ASSUME Inv, NEW w \in Procs, CreateBranch(w) PROVE Inv'
  <1>1. PICK u \in Users, op \in {"update", "delete"}, e \in Entities, payload \in Payloads,
             status \in {"draft", "pending"}, invs \in SUBSET Invites :
               Continue(w, "stamp",
                        NewRequest(u, op, e, SnapshotEntity(e), payload, status, invs))
    BY DEF CreateBranch
  <1> DEFINE r == NewRequest(u, op, e, SnapshotEntity(e), payload, status, invs)
  <1>2. r \in Request /\ LocalOK("stamp", r, Proposed)
    BY NewRequestType, SnapshotType DEF Ops, Inv, TypeInv
  <1>3. QED
    BY <1>1, <1>2, QuietInv DEF CreateBranch, Points

LEMMA CreateStampInv == ASSUME Inv, NEW w \in Procs, CreateStamp(w) PROVE Inv'
  <1> DEFINE r == [req[w] EXCEPT !.baseStamp = EntityUpdatedAt(req[w].target)]
  <1>1. req[w] \in Request /\ LocalOK("stamp", req[w], Proposed)
    BY DEF Inv, TypeInv, TypeOK, CreateStamp
  <1>2. r \in Request
    BY <1>1, UpdatedAtType DEF Request, LocalOK, Inv, TypeInv
  <1>3. LocalOK("insert", r, Proposed)
    BY <1>1 DEF LocalOK, Request
  <1>4. QED
    BY <1>2, <1>3, QuietInv DEF CreateStamp, Points

\* Where a handler stands, what it holds there is well typed and well placed.
LEMMA HeldType ==
    ASSUME TypeInv, NEW w \in Procs
    PROVE  pc[w] \in Points /\ req[w] \in Request /\ LocalOK(pc[w], req[w], Proposed)
  BY DEF TypeInv, TypeOK

LEMMA CreateInsertType == ASSUME TypeInv, NEW w \in Procs, CreateInsert(w) PROVE TypeInv'
  <1> DEFINE r == req[w]
  <1>1. r \in Request /\ LocalOK("insert", r, Proposed)
    BY HeldType DEF CreateInsert
  <1>2. PICK p \in Pids \ Proposed :
          /\ prop' = [prop EXCEPT ![p] =
                [op |-> r.op, target |-> r.target, base |-> r.base,
                 baseStamp |-> r.baseStamp, state |-> r.state, status |-> r.status,
                 creator |-> r.user, reviewer |-> None]]
          /\ revs' = [revs EXCEPT ![p] = {[no |-> 1, state |-> r.state, by |-> r.user]}]
          /\ Continue(w, IF r.invites = {} THEN "audit" ELSE "link", [r EXCEPT !.pid = p])
    BY DEF CreateInsert
  <1> DEFINE row == [op |-> r.op, target |-> r.target, base |-> r.base,
                     baseStamp |-> r.baseStamp, state |-> r.state, status |-> r.status,
                     creator |-> r.user, reviewer |-> None]
             s == [r EXCEPT !.pid = p]
             next == IF r.invites = {} THEN "audit" ELSE "link"
  <1>3. r.user \in Users /\ r.op \in Ops /\ r.target \in Entities /\ r.status \in Statuses
    BY <1>1 DEF LocalOK
  <1>4. row \in Proposal
    BY <1>1, <1>3 DEF Proposal, Request
  <1>5. prop' \in [Pids -> Proposal \cup {NoRow}] /\ Proposed' = Proposed \cup {p}
    BY <1>2, <1>4, NullsOK DEF TypeInv, TypeOK, Proposed
  <1>6. {[no |-> 1, state |-> r.state, by |-> r.user]} \in SUBSET Revision
    BY <1>1, <1>3 DEF Revision, Request
  <1>7. revs' \in [Pids -> SUBSET Revision]
    BY <1>2, <1>6 DEF TypeInv, TypeOK
  <1>8. s \in Request /\ s.pid = p /\ s.user = r.user /\ s.action = r.action
    BY <1>1 DEF Request
  <1>9. next \in Points /\ LocalOK(next, s, Proposed')
    BY <1>1, <1>3, <1>5, <1>8 DEF LocalOK, Points
  <1> HIDE DEF s, next
  <1>10. /\ pc' \in [Procs -> Points] /\ req' \in [Procs -> Request]
         /\ \A v \in Procs : LocalOK(pc'[v], req'[v], Proposed')
    BY <1>2, <1>5, <1>8, <1>9, StepType DEF s, next
  <1>11. QED
    BY <1>5, <1>7, <1>10 DEF TypeInv, TypeOK, CreateInsert

LEMMA CreateLinkType == ASSUME TypeInv, NEW w \in Procs, CreateLink(w) PROVE TypeInv'
  <1>1. req[w] \in Request /\ LocalOK("link", req[w], Proposed)
    BY HeldType DEF CreateLink
  <1>2. PICK i \in req[w].invites :
          /\ links' = [links EXCEPT ![req[w].pid] = @ \cup {i}]
          /\ Continue(w, IF req[w].invites = {i} THEN "audit" ELSE "link",
                      [req[w] EXCEPT !.invites = @ \ {i}])
    BY DEF CreateLink
  <1> DEFINE s == [req[w] EXCEPT !.invites = @ \ {i}]
             next == IF req[w].invites = {i} THEN "audit" ELSE "link"
  <1>3. Proposed' = Proposed
    BY DEF CreateLink, Proposed
  <1>4. s \in Request /\ s.pid = req[w].pid /\ s.user = req[w].user /\ s.action = req[w].action
    BY <1>1 DEF Request
  <1>5. next \in Points /\ LocalOK(next, s, Proposed')
    BY <1>1, <1>3, <1>4 DEF LocalOK, Points
  <1> HIDE DEF s, next
  <1>6. /\ pc' \in [Procs -> Points] /\ req' \in [Procs -> Request]
        /\ \A v \in Procs : LocalOK(pc'[v], req'[v], Proposed')
    BY <1>2, <1>3, <1>4, <1>5, StepType DEF s, next
  <1>7. i \in Invites
    BY <1>1 DEF Request
  <1>8. links' \in [Pids -> SUBSET Invites]
    BY <1>2, <1>7 DEF TypeInv, TypeOK
  <1>9. QED
    BY <1>6, <1>8 DEF TypeInv, TypeOK, CreateLink, Proposed

LEMMA ReviseReadInv == ASSUME Inv, NEW w \in Procs, ReviseRead(w) PROVE Inv'
  <1>1. PICK u \in Users, p \in Proposed, payload \in Payloads :
          Continue(w, "number",
                [NoRequest EXCEPT !.user = u, !.pid = p, !.action = "revise",
                   !.state = StateFor(prop[p].op, prop[p].state, payload)])
    BY DEF ReviseRead
  <1> DEFINE r == [NoRequest EXCEPT !.user = u, !.pid = p, !.action = "revise",
                     !.state = StateFor(prop[p].op, prop[p].state, payload)]
  <1>2. prop[p] \in Proposal /\ p \in Pids
    BY DEF Proposed, Inv, TypeInv, TypeOK
  <1>3. StateFor(prop[p].op, prop[p].state, payload) \in States
    BY <1>2, StateForType DEF Proposal
  <1>4. r \in Request
    BY <1>2, <1>3, NoRequestType DEF Request, Actions
  <1>5. r.user = u /\ r.pid = p /\ r.action = "revise"
    BY DEF NoRequest
  <1>6. LocalOK("number", r, Proposed)
    BY <1>5 DEF LocalOK, Actions
  <1> HIDE DEF r
  <1>7. QED
    BY <1>1, <1>4, <1>6, QuietInv DEF ReviseRead, Points, r

\* A new proposal starts its log with revision 1 and nobody is revising it yet.
LEMMA CreateInsertInv == ASSUME Inv, NEW w \in Procs, CreateInsert(w) PROVE Inv'
  <1> DEFINE r == req[w]
             first == [no |-> 1, state |-> r.state, by |-> r.user]
  <1>1. PICK p \in Pids \ Proposed :
          /\ prop' = [prop EXCEPT ![p] =
                [op |-> r.op, target |-> r.target, base |-> r.base,
                 baseStamp |-> r.baseStamp, state |-> r.state, status |-> r.status,
                 creator |-> r.user, reviewer |-> None]]
          /\ revs' = [revs EXCEPT ![p] = {first}]
          /\ Continue(w, IF r.invites = {} THEN "audit" ELSE "link", [r EXCEPT !.pid = p])
    BY DEF CreateInsert
  <1>2. TypeInv'
    BY CreateInsertType DEF Inv
  <1>3. prop'[p].state = r.state /\ \A q \in Pids \ {p} : prop'[q] = prop[q]
    BY <1>1 DEF Inv, TypeInv, TypeOK
  <1>4. Proposed' = Proposed \cup {p}
    BY <1>1, NullsOK, HeldType, <1>2, <1>3 DEF Inv, TypeInv, TypeOK, Proposed, CreateInsert,
       LocalOK, Proposal, Request
  <1>5. revs'[p] = {first} /\ \A q \in Pids \ {p} : revs'[q] = revs[q]
    BY <1>1 DEF Inv, TypeInv, TypeOK
  <1>6. Numbers(p)' = 1 .. 1
    BY <1>5 DEF Numbers
  <1>7. \A m \in Numbers(p)' : m <= 1
    BY <1>6
  <1>8. LastNo(p)' = 1
    <2>1. (CHOOSE n \in {1} : \A m \in {1} : m <= n) = 1
      OBVIOUS
    <2>2. Numbers(p)' = {1}
      BY <1>6
    <2>3. QED
      BY <1>5, <2>1, <2>2 DEF LastNo
  <1>9. \A q \in Proposed : LastNo(q)' = LastNo(q) /\ Numbers(q)' = Numbers(q)
    <2> SUFFICES ASSUME NEW q \in Proposed
                 PROVE  LastNo(q)' = LastNo(q) /\ Numbers(q)' = Numbers(q)
      OBVIOUS
    <2>1. revs'[q] = revs[q]
      BY <1>5 DEF Proposed
    <2>2. QED
      BY <2>1 DEF LastNo, Numbers
  <1>10. \A v \in Procs : pc'[v] \in {"revision", "head"} => pc'[v] = pc[v] /\ req'[v] = req[v]
    BY <1>1 DEF Continue, Inv, TypeInv, TypeOK
  <1>11. \A v \in Procs : pc[v] \in {"revision", "head"} => req[v].pid \in Proposed
    BY DEF Inv, TypeInv, LocalOK
  <1>12. InFlightOK'
    BY <1>9, <1>10, <1>11 DEF InFlightOK, Inv, LogInv
  <1>13. RevisionLogOK'
    <2> SUFFICES ASSUME NEW q \in Proposed'
                 PROVE /\ Numbers(q)' = 1 .. LastNo(q)'
                       /\ \A a, b \in revs'[q] : a.no = b.no => a = b
                       /\ \A a \in revs'[q] : a.no = LastNo(q)' => a.state = prop'[q].state
      BY DEF RevisionLogOK
    <2>1. CASE q = p
      BY <2>1, <1>3, <1>5, <1>6, <1>8
    <2>2. CASE q \in Proposed
      BY <2>2, <1>3, <1>5, <1>9 DEF Inv, LogInv, RevisionLogOK, Proposed
    <2>3. QED
      BY <1>4, <2>1, <2>2
  <1>14. LogInv'
    BY <1>4, <1>5, <1>8, <1>9, <1>12, <1>13 DEF Inv, LogInv
  <1>15. QED
    BY <1>2, <1>14 DEF Inv

LEMMA CreateLinkInv == ASSUME Inv, NEW w \in Procs, CreateLink(w) PROVE Inv'
  <1> DEFINE next(i) == IF req[w].invites = {i} THEN "audit" ELSE "link"
             s(i) == [req[w] EXCEPT !.invites = @ \ {i}]
  <1>1. PICK i \in req[w].invites : Continue(w, next(i), s(i))
    BY DEF CreateLink
  <1>2. next(i) \in Points \ {"revision", "head"} /\ s(i) \in Request
    BY HeldType DEF Points, Inv, Request
  <1> HIDE DEF next, s
  <1>3. revs' = revs /\ prop' = prop /\ Proposed' = Proposed
    BY DEF CreateLink, Proposed
  <1>4. QED
    BY <1>1, <1>2, <1>3, QuietLog, CreateLinkType DEF Inv

LEMMA ReviseNumberInv == ASSUME Inv, NEW w \in Procs, ReviseNumber(w) PROVE Inv'
  <1> DEFINE p == req[w].pid
             r == [req[w] EXCEPT !.no = LastNo(req[w].pid) + 1]
  <1>1. req[w] \in Request /\ LocalOK("number", req[w], Proposed)
    BY HeldType DEF ReviseNumber, Inv
  <1>2. p \in Proposed /\ LastNo(p) \in Nat \ {0}
    BY <1>1 DEF LocalOK, Inv, LogInv
  <1>3. r \in Request /\ r.pid = p /\ r.no = LastNo(p) + 1
    BY <1>1, <1>2 DEF Request
  <1>4. LocalOK("revision", r, Proposed)
    BY <1>1, <1>3 DEF LocalOK, Request
  <1> HIDE DEF r
  <1>5. TypeInv'
    BY <1>3, <1>4, QuietStep DEF ReviseNumber, Points, Inv, r
  <1>6. /\ pc'[w] = "revision" /\ req'[w] = r
        /\ \A v \in Procs \ {w} : pc'[v] = pc[v] /\ req'[v] = req[v]
    BY DEF ReviseNumber, Continue, Inv, TypeInv, TypeOK, r
  <1>7. Proposed' = Proposed /\ prop' = prop /\ revs' = revs
    BY DEF ReviseNumber, tables, Proposed
  <1>8. \A q : LastNo(q)' = LastNo(q) /\ Numbers(q)' = Numbers(q)
    BY <1>7 DEF LastNo, Numbers
  <1>9. InFlightOK'
    BY <1>2, <1>3, <1>6, <1>8 DEF InFlightOK, Inv, LogInv
  <1>10. RevisionLogOK'
    BY <1>7, <1>8 DEF RevisionLogOK, Inv, LogInv
  <1>11. QED
    BY <1>5, <1>7, <1>8, <1>9, <1>10 DEF Inv, LogInv

\* The unique index lets one handler through, and only with the next number.
LEMMA ReviseInsertInv == ASSUME Inv, NEW w \in Procs, ReviseInsert(w) PROVE Inv'
  <1> DEFINE p == req[w].pid
  <1>1. CASE NumberTaken(w)
    BY <1>1, FinishInv DEF ReviseInsert
  <1>2. CASE ~NumberTaken(w)
    <2>1. req[w] \in Request /\ LocalOK("revision", req[w], Proposed)
      BY HeldType DEF ReviseInsert, Inv
    <2>2. p \in Proposed /\ LastNo(p) \in Nat \ {0} /\ Numbers(p) = 1 .. LastNo(p)
      BY <2>1 DEF LocalOK, Inv, LogInv, RevisionLogOK
    <2>3. req[w].no = LastNo(p) + 1
      BY <1>2, <2>2 DEF NumberTaken, Inv, LogInv, InFlightOK, ReviseInsert
    <2>4. LocalOK("head", req[w], Proposed)
      BY <2>1 DEF LocalOK
    <2>5. TypeInv'
      BY <1>2, <2>1, <2>4, QuietStep DEF ReviseInsert, Points, Inv
    <2>6. /\ pc'[w] = "head" /\ req'[w] = req[w]
          /\ \A v \in Procs \ {w} : pc'[v] = pc[v] /\ req'[v] = req[v]
      BY <1>2 DEF ReviseInsert, Continue, Inv, TypeInv, TypeOK
    <2>7. Proposed' = Proposed /\ prop' = prop /\ revs' = revs
      BY DEF ReviseInsert, tables, Proposed
    <2>8. \A q : LastNo(q)' = LastNo(q) /\ Numbers(q)' = Numbers(q)
      BY <2>7 DEF LastNo, Numbers
    <2>9. \A v \in Procs \ {w} : pc[v] = "head" => req[v].pid # p
      <3>1. \A v \in Procs \ {w} : pc[v] = "head" /\ req[v].pid = p => req[v].no = req[w].no
        BY <2>3 DEF Inv, LogInv, InFlightOK
      <3>2. QED
        BY <3>1 DEF ReviseInsert, NumberHeld
    <2>10. InFlightOK'
      BY <2>3, <2>6, <2>8, <2>9 DEF InFlightOK, Inv, LogInv
    <2>11. RevisionLogOK'
      BY <2>7, <2>8 DEF RevisionLogOK, Inv, LogInv
    <2>12. QED
      BY <2>5, <2>7, <2>8, <2>10, <2>11 DEF Inv, LogInv
  <1>3. QED
    BY <1>1, <1>2

LEMMA ReviseHeadType == ASSUME TypeInv, NEW w \in Procs, ReviseHead(w)
                        PROVE  TypeInv' /\ Proposed' = Proposed
  <1> DEFINE r == req[w]
  <1>1. r \in Request /\ LocalOK("head", r, Proposed)
    BY HeldType DEF ReviseHead
  <1>2. NewRevision(r) \in Revision
    BY <1>1 DEF LocalOK, Request, Revision, NewRevision
  <1>3. revs' \in [Pids -> SUBSET Revision]
    BY <1>2 DEF ReviseHead, TypeInv, TypeOK
  <1>4. r.pid \in Pids /\ prop[r.pid] \in Proposal /\ r.state \in States
    BY <1>1 DEF LocalOK, Proposed, Request, TypeInv, TypeOK
  <1>5. [prop[r.pid] EXCEPT !.state = r.state] \in Proposal
    BY <1>4 DEF Proposal
  <1>6. prop' = [prop EXCEPT ![r.pid] = [prop[r.pid] EXCEPT !.state = r.state]]
    BY <1>4 DEF ReviseHead, TypeInv, TypeOK
  <1>7. prop' \in [Pids -> Proposal \cup {NoRow}] /\ Proposed' = Proposed
    BY <1>4, <1>5, <1>6, NullsOK DEF TypeInv, TypeOK, Proposed
  <1>8. LocalOK("audit", r, Proposed')
    BY <1>1, <1>7 DEF LocalOK
  <1>9. /\ pc' \in [Procs -> Points] /\ req' \in [Procs -> Request]
        /\ \A v \in Procs : LocalOK(pc'[v], req'[v], Proposed')
    BY <1>1, <1>7, <1>8, StepType DEF ReviseHead, Points
  <1>10. QED
    BY <1>3, <1>7, <1>9 DEF TypeInv, TypeOK, ReviseHead

\* The log of one proposal grows by the number after its last, and the head with it.
LEMMA ReviseHeadInv == ASSUME Inv, NEW w \in Procs, ReviseHead(w) PROVE Inv'
  <1> PICK r : r = req[w]
    OBVIOUS
  <1> PICK p, n, new : p = r.pid /\ n = LastNo(p) /\ new = NewRevision(r)
    OBVIOUS
  <1>1. r \in Request /\ LocalOK("head", r, Proposed)
    BY HeldType DEF ReviseHead, Inv
  <1>2. p \in Proposed /\ p \in Pids /\ n \in Nat \ {0} /\ r.no = n + 1 /\ Numbers(p) = 1 .. n
    BY <1>1 DEF LocalOK, Inv, LogInv, InFlightOK, RevisionLogOK, ReviseHead, Proposed
  <1>3. TypeInv'
    BY ReviseHeadType DEF Inv
  <1>4. /\ revs'[p] = revs[p] \cup {new}
        /\ \A q \in Pids \ {p} : revs'[q] = revs[q]
    BY <1>2 DEF ReviseHead, Inv, TypeInv, TypeOK
  <1>5. prop[p] \in Proposal
    BY <1>2 DEF Proposed, Inv, TypeInv, TypeOK
  <1>6. prop'[p].state = r.state /\ \A q \in Pids \ {p} : prop'[q] = prop[q]
    BY <1>2, <1>5 DEF ReviseHead, Inv, TypeInv, TypeOK, Proposal
  <1>7. Proposed' = Proposed
    BY ReviseHeadType DEF Inv
  <1>8. new.no = n + 1 /\ new.state = r.state
    BY <1>2 DEF NewRevision
  <1>9. Numbers(p)' = 1 .. n + 1
    <2>1. Numbers(p)' = Numbers(p) \cup {n + 1}
      BY <1>4, <1>8 DEF Numbers
    <2>2. QED
      BY <1>2, <2>1
  <1>10. LastNo(p)' = n + 1
    <2>1. \A m \in Numbers(p)' : m <= n + 1
      BY <1>2, <1>9
    <2>2. ASSUME NEW k \in Numbers(p)', \A m \in Numbers(p)' : m <= k PROVE k = n + 1
      <3>1. n + 1 <= k /\ k <= n + 1
        BY <1>2, <1>9, <2>1, <2>2
      <3>2. QED
        BY <1>2, <1>9, <3>1
    <2>3. n + 1 \in Numbers(p)'
      BY <1>2, <1>9
    <2>4. (CHOOSE k \in Numbers(p)' : \A m \in Numbers(p)' : m <= k) = n + 1
      BY <2>1, <2>2, <2>3
    <2>5. revs'[p] # {}
      BY <1>4
    <2>6. QED
      BY <2>4, <2>5 DEF LastNo
  <1>11. ASSUME NEW q \in Pids \ {p}
         PROVE  LastNo(q)' = LastNo(q) /\ Numbers(q)' = Numbers(q)
    <2>1. revs'[q] = revs[q]
      BY <1>4
    <2>2. QED
      BY <2>1 DEF LastNo, Numbers
  <1>12. /\ pc'[w] = "audit"
         /\ \A v \in Procs \ {w} : pc'[v] = pc[v] /\ req'[v] = req[v]
    BY DEF ReviseHead, Continue, Inv, TypeInv, TypeOK
  <1>13. InFlightOK'
    <2>1. \A v \in Procs : pc[v] \in {"revision", "head"} => req[v].pid \in Pids
      BY DEF Inv, TypeInv, LocalOK, Proposed
    <2>2. \A v \in Procs \ {w} : pc[v] = "head" => req[v].pid # p
      BY DEF ReviseHead, Inv, LogInv, InFlightOK
    <2>3. ASSUME NEW v \in Procs, pc'[v] = "revision"
          PROVE  (req[v].no \in 1 .. LastNo(req[v].pid) + 1)'
      <3>1. pc[v] = "revision" /\ req'[v] = req[v]
        BY <1>12, <2>3
      <3>2. CASE req[v].pid = p
        BY <1>2, <1>10, <3>1, <3>2 DEF Inv, LogInv, InFlightOK
      <3>3. CASE req[v].pid # p
        BY <1>11, <2>1, <3>1, <3>3 DEF Inv, LogInv, InFlightOK
      <3>4. QED
        BY <3>2, <3>3
    <2>4. ASSUME NEW v \in Procs, pc'[v] = "head"
          PROVE  (req[v].no = LastNo(req[v].pid) + 1)'
      <3>1. v # w /\ pc[v] = "head" /\ req'[v] = req[v]
        BY <1>12, <2>4
      <3>2. QED
        BY <1>11, <2>1, <2>2, <3>1 DEF Inv, LogInv, InFlightOK
    <2>5. \A u, v \in Procs : pc'[u] = "head" /\ pc'[v] = "head" /\ req'[u].pid = req'[v].pid
                                  => u = v
      BY <1>12 DEF Inv, LogInv, InFlightOK
    <2>6. QED
      BY <2>3, <2>4, <2>5 DEF InFlightOK
  <1>14. RevisionLogOK'
    <2> SUFFICES ASSUME NEW q \in Proposed
                 PROVE /\ Numbers(q)' = 1 .. LastNo(q)'
                       /\ \A a, b \in revs'[q] : a.no = b.no => a = b
                       /\ \A a \in revs'[q] : a.no = LastNo(q)' => a.state = prop'[q].state
      BY <1>7 DEF RevisionLogOK
    <2>1. CASE q = p
      <3>1. \A a \in revs[p] : a.no \in 1 .. n
        BY <1>2 DEF Numbers
      <3>2. \A a, b \in revs[p] : a.no = b.no => a = b
        BY <1>2 DEF Inv, LogInv, RevisionLogOK
      <3>3. \A a \in revs[p] : a.no # n + 1
        BY <1>2, <3>1
      <3>4. QED
        BY <2>1, <1>4, <1>6, <1>8, <1>9, <1>10, <3>2, <3>3
    <2>2. CASE q # p
      BY <2>2, <1>4, <1>6, <1>11 DEF Inv, LogInv, RevisionLogOK, Proposed
    <2>3. QED
      BY <2>1, <2>2
  <1>15. LogInv'
    BY <1>2, <1>4, <1>7, <1>10, <1>11, <1>13, <1>14 DEF Inv, LogInv, Proposed
  <1>16. QED
    BY <1>3, <1>15 DEF Inv

\* A step of w that keeps every table its proofs speak of typed, and keeps revisions,
\* heads and the set of proposals.
LEMMA OtherTables ==
    ASSUME Inv, NEW w \in Procs, NEW next \in Points \ {"revision", "head"},
           NEW r \in Request, Continue(w, next, r), LocalOK(next, r, Proposed),
           UNCHANGED <<prop, revs, links, accepted>>,
           live' \in [Entities -> Row \cup {NoRow}],
           lock' \in [Entities -> Procs \cup {None}],
           clock' \in Nat, audit' \subseteq Actions \X Pids, commits' \in [Pids -> Nat]
    PROVE  Inv'
  <1>1. Proposed' = Proposed
    BY DEF Proposed
  <1>2. LogInv'
    BY <1>1, QuietLog
  <1>3. /\ pc' \in [Procs -> Points] /\ req' \in [Procs -> Request]
        /\ \A v \in Procs : LocalOK(pc'[v], req'[v], Proposed')
    BY <1>1, StepType DEF Inv
  <1>4. TypeInv'
    BY <1>3 DEF Inv, TypeInv, TypeOK
  <1>5. QED
    BY <1>2, <1>4 DEF Inv

LEMMA TransitionReadInv == ASSUME Inv, NEW w \in Procs, TransitionRead(w) PROVE Inv'
  <1>1. PICK u \in Users, p \in Proposed, action \in {"submit", "withdraw", "reject"} :
          Continue(w, "status",
                   [NoRequest EXCEPT !.user = u, !.pid = p, !.status = Target(action),
                                     !.action = action])
    BY DEF TransitionRead
  <1> DEFINE r == [NoRequest EXCEPT !.user = u, !.pid = p, !.status = Target(action),
                                    !.action = action]
  <1>2. Target(action) \in Statuses
    BY DEF Target, Statuses
  <1>3. r \in Request
    BY <1>2, NoRequestType DEF Request, Actions, Proposed
  <1>4. r.user = u /\ r.pid = p /\ r.action = action /\ r.status = Target(action)
    BY DEF NoRequest
  <1>5. LocalOK("status", r, Proposed)
    BY <1>2, <1>4 DEF LocalOK, Actions
  <1> HIDE DEF r
  <1>6. QED
    BY <1>1, <1>3, <1>5, QuietInv DEF TransitionRead, Points, r

LEMMA WriteStatusType == ASSUME TypeInv, NEW w \in Procs, WriteStatus(w)
                         PROVE  /\ TypeInv' /\ Proposed' = Proposed
                                /\ \A p \in Proposed : prop'[p].state = prop[p].state
  <1> PICK r : r = req[w]
    OBVIOUS
  <1> DEFINE new == [prop[r.pid] EXCEPT !.status = r.status, !.reviewer = Reviewer(r)]
  <1>1. r \in Request /\ LocalOK("status", r, Proposed)
    BY HeldType DEF WriteStatus
  <1>2. r.pid \in Pids /\ prop[r.pid] \in Proposal
    BY <1>1 DEF LocalOK, Proposed, TypeInv, TypeOK
  <1>3. r.status \in Statuses /\ Reviewer(r) \in Users \cup {None}
    BY <1>1 DEF LocalOK, Reviewer
  <1>4. new \in Proposal /\ new.state = prop[r.pid].state
    BY <1>2, <1>3 DEF Proposal
  <1>5. prop' = [prop EXCEPT ![r.pid] = new]
    BY <1>2 DEF WriteStatus, TypeInv, TypeOK
  <1> HIDE DEF new
  <1>6. prop' \in [Pids -> Proposal \cup {NoRow}] /\ Proposed' = Proposed
    BY <1>2, <1>4, <1>5, NullsOK DEF TypeInv, TypeOK, Proposed
  <1>7. \A p \in Proposed : prop'[p].state = prop[p].state
    BY <1>2, <1>4, <1>5 DEF TypeInv, TypeOK, Proposed
  <1>8. LocalOK("audit", r, Proposed')
    BY <1>1, <1>6 DEF LocalOK
  <1>9. /\ pc' \in [Procs -> Points] /\ req' \in [Procs -> Request]
        /\ \A v \in Procs : LocalOK(pc'[v], req'[v], Proposed')
    BY <1>1, <1>6, <1>8, StepType DEF WriteStatus, Points
  <1>10. QED
    BY <1>6, <1>7, <1>9 DEF TypeInv, TypeOK, WriteStatus

LEMMA WriteStatusInv == ASSUME Inv, NEW w \in Procs, WriteStatus(w) PROVE Inv'
  BY WriteStatusType, QuietLog, HeldType DEF WriteStatus, Inv, Points

LEMMA ApproveReadInv == ASSUME Inv, NEW w \in Procs, ApproveRead(w) PROVE Inv'
  <1>1. PICK u \in Users, p \in Proposed : Continue(w, "count", Approval(u, p))
    BY DEF ApproveRead
  <1>2. prop[p] \in Proposal /\ p \in Pids
    BY DEF Proposed, Inv, TypeInv, TypeOK
  <1>3. Approval(u, p) \in Request
    BY <1>2, NoRequestType DEF Approval, Request, Proposal, Statuses, Actions
  <1>4. LET r == Approval(u, p)
        IN  /\ r.user = u /\ r.pid = p /\ r.op = prop[p].op /\ r.target = prop[p].target
            /\ r.status = "applied" /\ r.action = "approve"
    BY DEF Approval, NoRequest
  <1>5. LocalOK("count", Approval(u, p), Proposed)
    BY <1>2, <1>4 DEF LocalOK, Actions, Statuses, Proposal
  <1>6. QED
    BY <1>1, <1>3, <1>5, QuietInv DEF ApproveRead, Points

LEMMA ApproveCountInv == ASSUME Inv, NEW w \in Procs, ApproveCount(w) PROVE Inv'
  <1>1. req[w] \in Request /\ LocalOK("count", req[w], Proposed)
    BY HeldType DEF ApproveCount, Inv
  <1>2. LocalOK("check", req[w], Proposed)
    BY <1>1 DEF LocalOK
  <1>3. QED
    BY <1>1, <1>2, QuietInv, FinishInv DEF ApproveCount, Points

LEMMA ApplyCheckInv == ASSUME Inv, NEW w \in Procs, ApplyCheck(w) PROVE Inv'
  <1>1. req[w] \in Request /\ LocalOK("check", req[w], Proposed)
    BY HeldType DEF ApplyCheck, Inv
  <1>2. LocalOK("write", req[w], Proposed)
    BY <1>1 DEF LocalOK
  <1>3. QED
    BY <1>1, <1>2, QuietInv, FinishInv DEF ApplyCheck, Points

LEMMA ApplyWriteInv == ASSUME Inv, NEW w \in Procs, ApplyWrite(w) PROVE Inv'
  <1>1. req[w] \in Request /\ LocalOK("write", req[w], Proposed)
    BY HeldType DEF ApplyWrite, Inv
  <1>2. CASE NameTaken(req[w])
    BY <1>2, FinishInv DEF ApplyWrite, tables
  <1>3. CASE ~NameTaken(req[w])
    <2>1. LocalOK("commit", req[w], Proposed)
      BY <1>1 DEF LocalOK
    <2>2. lock' \in [Entities -> Procs \cup {None}]
      BY <1>3 DEF ApplyWrite, Inv, TypeInv, TypeOK
    <2>3. QED
      BY <1>1, <1>3, <2>1, <2>2, OtherTables DEF ApplyWrite, Points, Inv, TypeInv, TypeOK
  <1>4. QED
    BY <1>2, <1>3

LEMMA ApplyCommitInv == ASSUME Inv, NEW w \in Procs, ApplyCommit(w) PROVE Inv'
  <1>1. req[w] \in Request /\ LocalOK("commit", req[w], Proposed)
    BY HeldType DEF ApplyCommit, Inv
  <1>2. LocalOK("status", req[w], Proposed)
    BY <1>1 DEF LocalOK
  <1>3. clock \in Nat /\ Applied(req[w]) \in Row \cup {NoRow}
    BY <1>1 DEF Applied, Row, Request, Inv, TypeInv, TypeOK
  <1>4. live' \in [Entities -> Row \cup {NoRow}] /\ clock' \in Nat
    BY <1>3 DEF ApplyCommit, Inv, TypeInv, TypeOK
  <1>5. lock' \in [Entities -> Procs \cup {None}]
    BY DEF ApplyCommit, Inv, TypeInv, TypeOK
  <1>6. commits' \in [Pids -> Nat]
    <2>1. req[w].pid \in Pids /\ commits[req[w].pid] + 1 \in Nat
      BY <1>1 DEF LocalOK, Proposed, Inv, TypeInv, TypeOK
    <2>2. QED
      BY <2>1 DEF ApplyCommit, Inv, TypeInv, TypeOK
  <1>7. QED
    BY <1>1, <1>2, <1>4, <1>5, <1>6, OtherTables
       DEF ApplyCommit, Points, Inv, TypeInv, TypeOK

LEMMA AppendAuditInv == ASSUME Inv, NEW w \in Procs, AppendAudit(w) PROVE Inv'
  <1>1. req[w].action \in Actions /\ req[w].pid \in Pids
    BY HeldType DEF AppendAudit, Inv, LocalOK, Proposed
  <1>2. audit' \subseteq Actions \X Pids
    BY <1>1 DEF AppendAudit, Inv, TypeInv, TypeOK
  <1>3. QED
    BY <1>2, IdleOK, NoRequestType, OtherTables
       DEF AppendAudit, Finish, Points, Inv, TypeInv, TypeOK

LEMMA AbortInv == ASSUME Inv, NEW w \in Procs, Abort(w) PROVE Inv'
  <1>1. lock' \in [Entities -> Procs \cup {None}]
    BY DEF Abort, Rollback, Inv, TypeInv, TypeOK
  <1>2. QED
    BY <1>1, IdleOK, NoRequestType, OtherTables
       DEF Abort, Finish, Points, Inv, TypeInv, TypeOK

LEMMA AcceptInviteInv == ASSUME Inv, NEW i \in Invites, AcceptInvite(i) PROVE Inv'
  <1>1. TypeInv'
    BY DEF AcceptInvite, Inv, TypeInv, TypeOK, LocalOK, Proposed
  <1>2. LogInv'
    BY SameLog DEF AcceptInvite, Inv
  <1>3. QED
    BY <1>1, <1>2 DEF Inv

-----------------------------------------------------------------------------
(* The theorems *)

LEMMA InvNext == Inv /\ [Next]_vars => Inv'
  <1> SUFFICES ASSUME Inv, [Next]_vars PROVE Inv'
    OBVIOUS
  <1>1. ASSUME NEW w \in Procs, Arrive(w) PROVE Inv'
    BY <1>1, CreateNewInv, CreateBranchInv, ReviseReadInv, TransitionReadInv, ApproveReadInv
       DEF Arrive
  <1>2. ASSUME NEW w \in Procs, Proceed(w) PROVE Inv'
    BY <1>2, CreateStampInv, CreateInsertInv, CreateLinkInv, ReviseNumberInv, ReviseInsertInv,
       ReviseHeadInv, ApproveCountInv, ApplyCheckInv, ApplyWriteInv, ApplyCommitInv,
       WriteStatusInv, AppendAuditInv
       DEF Proceed
  <1>3. CASE UNCHANGED vars
    <2>1. TypeInv'
      BY <1>3 DEF vars, Inv, TypeInv, TypeOK, LocalOK, Proposed
    <2>2. LogInv'
      BY <1>3, SameLog DEF vars, Inv
    <2>3. QED
      BY <2>1, <2>2 DEF Inv
  <1>4. QED
    BY <1>1, <1>2, <1>3, AbortInv, AcceptInviteInv DEF Next

THEOREM InvCorrect == Spec => []Inv
  <1>1. Init => Inv
    BY InitType, InitLog DEF Inv
  <1>2. QED
    BY <1>1, InvNext, PTL DEF Spec

\* Every table and every handler's local variables hold what their columns and types
\* say, in every interleaving.
THEOREM TypeCorrect == Spec => []TypeOK
  <1>1. Inv => TypeOK
    BY DEF Inv, TypeInv
  <1>2. QED
    BY <1>1, InvCorrect, PTL

\* However many editors save a proposal at the same time, AddRevision leaves its log
\* without gaps or duplicates and its head on the newest revision.
THEOREM RevisionLogCorrect == Spec => []RevisionLogOK
  <1>1. Inv => RevisionLogOK
    BY DEF Inv, LogInv
  <1>2. QED
    BY <1>1, InvCorrect, PTL

-----------------------------------------------------------------------------
(* Proposals implements RevisionLog: whatever handlers overlap, wait, fail or roll   *)
(* back, each step appends one state to the log of one proposal or changes neither a *)
(* log nor a head.                                                                   *)

\* A number of the log belongs to one revision, which carries a complete state.
LEMMA RevisionAtIs ==
    ASSUME Inv, NEW p \in Proposed, NEW r \in revs[p]
    PROVE  RevisionAt(p, r.no) = r.state /\ r.state \in States
  <1>1. \A s \in revs[p] : s.no = r.no => s = r
    BY DEF Inv, LogInv, RevisionLogOK
  <1>2. (CHOOSE s \in revs[p] : s.no = r.no) = r
    BY <1>1
  <1>3. r \in Revision
    BY DEF Inv, TypeInv, TypeOK, Proposed
  <1>4. QED
    BY <1>2, <1>3 DEF RevisionAt, Revision

\* The mapped logs are sequences of states, each as long as its last number, and each
\* revision is found at its number.
LogShape ==
    \A p \in Pids :
        /\ LastNo(p) \in Nat
        /\ LogOf(p) \in Seq(States) /\ Len(LogOf(p)) = LastNo(p)
        /\ Numbers(p) = 1 .. LastNo(p)
        /\ \A r \in revs[p] : LogOf(p)[r.no] = r.state /\ r.state \in States

LEMMA LogShapeOK == Inv => LogShape
  <1> SUFFICES ASSUME Inv, NEW p \in Pids
               PROVE  /\ LastNo(p) \in Nat
                      /\ LogOf(p) \in Seq(States) /\ Len(LogOf(p)) = LastNo(p)
                      /\ Numbers(p) = 1 .. LastNo(p)
                      /\ \A r \in revs[p] : LogOf(p)[r.no] = r.state /\ r.state \in States
    BY DEF LogShape
  <1>1. CASE p \notin Proposed
    <2>1. revs[p] = {} /\ LastNo(p) = 0 /\ Numbers(p) = {}
      BY <1>1 DEF Inv, LogInv, LastNo, Numbers
    <2>2. QED
      BY <2>1 DEF LogOf
  <1>2. CASE p \in Proposed
    <2>1. LastNo(p) \in Nat /\ Numbers(p) = 1 .. LastNo(p)
      BY <1>2 DEF Inv, LogInv, RevisionLogOK
    <2>2. ASSUME NEW i \in 1 .. LastNo(p) PROVE RevisionAt(p, i) \in States
      <3>1. PICK r \in revs[p] : r.no = i
        BY <2>1 DEF Numbers
      <3>2. QED
        BY <1>2, <3>1, RevisionAtIs
    <2>3. LogOf(p) \in [1 .. LastNo(p) -> States]
      BY <2>2 DEF LogOf
    <2>4. ASSUME NEW r \in revs[p] PROVE LogOf(p)[r.no] = r.state /\ r.state \in States
      <3>1. r.no \in 1 .. LastNo(p)
        BY <2>1 DEF Numbers
      <3>2. QED
        BY <1>2, <3>1, RevisionAtIs DEF LogOf
    <2>5. QED
      BY <2>1, <2>3, <2>4
  <1>3. QED
    BY <1>1, <1>2

\* A revision numbered one past the last is the next entry of the log.
LEMMA NewEntry ==
    ASSUME LogShape, LogShape', NEW p \in Pids, NEW new, revs'[p] = revs[p] \cup {new},
           new.no = LastNo(p) + 1, LastNo(p)' = LastNo(p) + 1
    PROVE  LogOf(p)' = Append(LogOf(p), new.state)
  <1> PICK n, s, t : n = LastNo(p) /\ s = LogOf(p) /\ t = LogOf(p)'
    OBVIOUS
  <1>1. n \in Nat /\ s \in Seq(States) /\ Len(s) = n /\ t \in Seq(States) /\ Len(t) = n + 1
    BY DEF LogShape
  <1>2. new.state \in States /\ t[n + 1] = new.state
    BY DEF LogShape
  <1>3. ASSUME NEW i \in 1 .. n PROVE t[i] = s[i]
    <2>1. PICK r \in revs[p] : r.no = i
      BY <1>3 DEF LogShape, Numbers
    <2>2. QED
      BY <2>1 DEF LogShape
  <1>4. t = Append(s, new.state)
    BY <1>1, <1>2, <1>3
  <1>5. QED
    BY <1>4

\* A step that changes no revision and no head is a stutter of the abstract log.
LEMMA QuietMaps ==
    ASSUME Inv, revs' = revs, Proposed' = Proposed,
           \A p \in Proposed : prop'[p].state = prop[p].state
    PROVE  UNCHANGED Log!vars
  <1>1. \A p : LastNo(p)' = LastNo(p)
    BY DEF LastNo, Numbers
  <1>2. ASSUME NEW p \in Pids PROVE LogOf(p)' = LogOf(p)
    BY <1>1 DEF LogOf, RevisionAt
  <1>3. ASSUME NEW p \in Pids PROVE HeadOf(p)' = HeadOf(p)
    <2>1. CASE p \in Proposed
      BY <2>1 DEF HeadOf, Proposed
    <2>2. CASE p \notin Proposed
      BY <2>2 DEF HeadOf, Proposed
    <2>3. QED
      BY <2>1, <2>2
  <1>4. QED
    BY <1>2, <1>3 DEF Log!vars

\* A step is an append to p's log if p's log is longer by one, ends in p's new head and
\* is otherwise as it was, and nothing happened to the other proposals.
LEMMA RecordMaps ==
    ASSUME NEW p \in Pids, NEW s \in States, LogOf(p) \in Seq(States),
           LogOf(p)' = Append(LogOf(p), s), HeadOf(p)' = <<s>>,
           \A q \in Pids \ {p} : LogOf(q)' = LogOf(q) /\ HeadOf(q)' = HeadOf(q)
    PROVE  Log!Record(p, s)
  BY DEF Log!Record

LEMMA InitMaps == Init => Log!Init
  <1> SUFFICES ASSUME Init PROVE Log!Init
    OBVIOUS
  <1>1. ASSUME NEW p \in Pids PROVE LogOf(p) = <<>> /\ HeadOf(p) = <<>>
    <2>1. revs[p] = {} /\ prop[p] = NoRow
      BY DEF Init
    <2>2. LastNo(p) = 0
      BY <2>1 DEF LastNo
    <2>3. LogOf(p) \in Seq(States) /\ Len(LogOf(p)) = 0
      BY <2>2 DEF LogOf
    <2>4. QED
      BY <2>1, <2>3, EmptySeq DEF HeadOf
  <1>2. QED
    BY <1>1 DEF Log!Init

-----------------------------------------------------------------------------
(* The two steps that append *)

\* The other proposals keep their logs and heads.
LEMMA OthersKept ==
    ASSUME Inv, NEW p, NEW q \in Pids \ {p}, revs'[q] = revs[q], prop'[q] = prop[q]
    PROVE  LogOf(q)' = LogOf(q) /\ HeadOf(q)' = HeadOf(q)
  <1>1. LastNo(q)' = LastNo(q)
    BY DEF LastNo, Numbers
  <1>2. QED
    BY <1>1 DEF LogOf, RevisionAt, HeadOf

\* Opening a proposal appends its first state to an empty log.
LEMMA CreateInsertMaps ==
    ASSUME Inv, Inv', NEW w \in Procs, CreateInsert(w) PROVE Log!Next
  <1> PICK r : r = req[w]
    OBVIOUS
  <1>1. PICK p \in Pids \ Proposed :
          /\ prop' = [prop EXCEPT ![p] =
                [op |-> r.op, target |-> r.target, base |-> r.base,
                 baseStamp |-> r.baseStamp, state |-> r.state, status |-> r.status,
                 creator |-> r.user, reviewer |-> None]]
          /\ revs' = [revs EXCEPT ![p] = {[no |-> 1, state |-> r.state, by |-> r.user]}]
    BY DEF CreateInsert
  <1> PICK first : first = [no |-> 1, state |-> r.state, by |-> r.user]
    OBVIOUS
  <1>2. revs'[p] = {first} /\ first.no = 1 /\ first.state = r.state
    BY <1>1 DEF Inv, TypeInv, TypeOK
  <1>3. prop'[p].state = r.state /\ p \in Proposed'
    <2>1. r \in Request /\ LocalOK("insert", r, Proposed)
      BY HeldType DEF CreateInsert, Inv
    <2>2. [op |-> r.op, target |-> r.target, base |-> r.base, baseStamp |-> r.baseStamp,
           state |-> r.state, status |-> r.status, creator |-> r.user, reviewer |-> None]
              \in Proposal
      BY <2>1 DEF LocalOK, Request, Proposal
    <2>3. QED
      BY <1>1, <2>2, NullsOK DEF Inv, TypeInv, TypeOK, Proposed
  <1>4. LogShape /\ LogShape'
    BY LogShapeOK, PTL
  <1>5. revs[p] = {} /\ LastNo(p) = 0
    BY DEF Inv, LogInv, LastNo
  <1>6. LastNo(p)' = 1
    <2>1. Numbers(p)' = {1}
      BY <1>2 DEF Numbers
    <2>2. (LastNo(p) \in Nat /\ Numbers(p) = 1 .. LastNo(p))'
      BY <1>4 DEF LogShape
    <2>3. LastNo(p)' \in {1}
      BY <2>1, <2>2
    <2>4. QED
      BY <2>3
  <1>7. LogOf(p)' = Append(LogOf(p), r.state)
    BY <1>2, <1>4, <1>5, <1>6, NewEntry
  <1>8. LogOf(p) \in Seq(States) /\ r.state \in States
    BY <1>2, <1>4 DEF LogShape
  <1>9. HeadOf(p)' = <<r.state>>
    BY <1>3 DEF HeadOf, Proposed
  <1>10. \A q \in Pids \ {p} : LogOf(q)' = LogOf(q) /\ HeadOf(q)' = HeadOf(q)
    BY <1>1, OthersKept DEF Inv, TypeInv, TypeOK
  <1>11. QED
    BY <1>7, <1>8, <1>9, <1>10, RecordMaps DEF Log!Next

\* A revision appends to the log of its proposal.
LEMMA ReviseHeadMaps == ASSUME Inv, Inv', NEW w \in Procs, ReviseHead(w) PROVE Log!Next
  <1> PICK r : r = req[w]
    OBVIOUS
  <1> PICK p, new : p = r.pid /\ new = NewRevision(r)
    OBVIOUS
  <1>1. r \in Request /\ p \in Proposed /\ p \in Pids
    BY HeldType DEF ReviseHead, Inv, LocalOK, Proposed
  <1>2. new.no = LastNo(p) + 1 /\ new.state = r.state
    BY DEF NewRevision, ReviseHead, Inv, LogInv, InFlightOK
  <1>3. revs'[p] = revs[p] \cup {new} /\ \A q \in Pids \ {p} : revs'[q] = revs[q]
    BY <1>1 DEF ReviseHead, Inv, TypeInv, TypeOK
  <1>4. prop'[p].state = r.state /\ \A q \in Pids \ {p} : prop'[q] = prop[q]
    BY <1>1 DEF ReviseHead, Inv, TypeInv, TypeOK, Proposed, Proposal
  <1>5. p \in Proposed'
    BY <1>1, ReviseHeadType DEF Inv
  <1>6. LogShape /\ LogShape'
    BY LogShapeOK, PTL
  <1>7. LastNo(p)' = LastNo(p) + 1
    <2>1. Numbers(p)' = Numbers(p) \cup {LastNo(p) + 1}
      BY <1>2, <1>3 DEF Numbers
    <2>2. PICK n, m : n = LastNo(p) /\ m = LastNo(p)'
      OBVIOUS
    <2>3. n \in Nat /\ m \in Nat /\ 1 .. m = (1 .. n) \cup {n + 1}
      BY <1>1, <1>6, <2>1, <2>2 DEF LogShape
    <2>4. n + 1 \in 1 .. m /\ m + 1 \notin (1 .. n) \cup {n + 1}
      BY <2>3
    <2>5. m = n + 1
      BY <2>3, <2>4
    <2>6. QED
      BY <2>2, <2>5
  <1>8. LogOf(p)' = Append(LogOf(p), r.state)
    BY <1>1, <1>2, <1>3, <1>6, <1>7, NewEntry
  <1>9. LogOf(p) \in Seq(States) /\ r.state \in States
    BY <1>1, <1>6 DEF LogShape, Request
  <1>10. HeadOf(p)' = <<r.state>>
    BY <1>4, <1>5 DEF HeadOf, Proposed
  <1>11. \A q \in Pids \ {p} : LogOf(q)' = LogOf(q) /\ HeadOf(q)' = HeadOf(q)
    BY <1>3, <1>4, OthersKept
  <1>12. QED
    BY <1>1, <1>8, <1>9, <1>10, <1>11, RecordMaps DEF Log!Next

-----------------------------------------------------------------------------
(* Every step *)

\* Reads, waits, links, audit rows and answers say nothing to the abstract log.
LEMMA ReadsMap == ASSUME Inv, UNCHANGED <<prop, revs>> PROVE UNCHANGED Log!vars
  BY QuietMaps DEF Proposed

LEMMA StepMaps == Inv /\ Inv' /\ [Next]_vars => [Log!Next]_(Log!vars)
  <1> SUFFICES ASSUME Inv, Inv', [Next]_vars PROVE Log!Next \/ UNCHANGED Log!vars
    OBVIOUS
  <1>1. ASSUME NEW w \in Procs, Arrive(w) PROVE UNCHANGED <<prop, revs>>
    BY <1>1 DEF Arrive, CreateNew, CreateBranch, ReviseRead, TransitionRead, ApproveRead, tables
  <1>2. ASSUME NEW w \in Procs, Proceed(w) PROVE Log!Next \/ UNCHANGED Log!vars
    <2>1. CASE CreateInsert(w)
      BY <2>1, CreateInsertMaps
    <2>2. CASE ReviseHead(w)
      BY <2>2, ReviseHeadMaps
    <2>3. CASE WriteStatus(w)
      BY <2>3, WriteStatusType, QuietMaps DEF WriteStatus, Inv
    <2>4. CASE CreateStamp(w) \/ ReviseNumber(w) \/ ReviseInsert(w) \/ ApproveCount(w)
               \/ ApplyCheck(w)
      BY <2>4, ReadsMap
         DEF CreateStamp, ReviseNumber, ReviseInsert, ApproveCount, ApplyCheck, tables
    <2>5. CASE CreateLink(w) \/ ApplyWrite(w) \/ ApplyCommit(w) \/ AppendAudit(w)
      BY <2>5, ReadsMap DEF CreateLink, ApplyWrite, ApplyCommit, AppendAudit
    <2>6. QED
      BY <1>2, <2>1, <2>2, <2>3, <2>4, <2>5 DEF Proceed
  <1>3. ASSUME NEW w \in Procs, Abort(w) PROVE UNCHANGED <<prop, revs>>
    BY <1>3 DEF Abort
  <1>4. ASSUME NEW i \in Invites, AcceptInvite(i) PROVE UNCHANGED <<prop, revs>>
    BY <1>4 DEF AcceptInvite
  <1>5. CASE UNCHANGED vars
    BY <1>5, ReadsMap DEF vars
  <1>6. QED
    BY <1>1, <1>2, <1>3, <1>4, <1>5, ReadsMap DEF Next

\* CreateProposal and AddRevision, with all their statements, waits and failures,
\* implement the append-only log.
THEOREM RevisionLogImplemented == Spec => ImplementsRevisionLog
  <1>1. QED
    BY InitMaps, StepMaps, InvCorrect, PTL DEF Spec, ImplementsRevisionLog, Log!Spec

-----------------------------------------------------------------------------
(* What approvals leave behind: where the live state comes from, that a proposal shown as     *)
(* applied and an approval in the audit log were applied, and whom a decision names. This     *)
(* holds whatever overlaps, fails or is aborted half-way. Further below is what overlap can   *)
(* spoil: each property is proved from the absence of the one overlap that would break it.    *)

Applying == {"count", "check", "write", "commit"}

\* r speaks of an approval.
Claims(r) == r.status = "applied" \/ r.action = "approve"

\* r decides a proposal, and says so in the status it writes.
Decides(r) == r.action \in {"reject", "approve"}

\* What a handler holds at a point still agrees with the tables: what it applies is a
\* revision of its proposal, an approval it reports has committed, and what it decides
\* it may decide.
Holds(point, r) ==
    /\ point \in Applying => /\ prop[r.pid].target = r.target
                             /\ \E s \in revs[r.pid] : s.state = r.state
    /\ Claims(r) => \/ point \in Applying
                    \/ point \in {"status", "audit"} /\ commits[r.pid] > 0
    /\ point \in Applying \cup {"status"} =>
          /\ r.status \in {"applied", "rejected"} <=> Decides(r)
          /\ Decides(r) => CanDecide(r.user, prop[r.pid].target)
    /\ point \in {"stamp", "insert"} => r.status \in {"draft", "pending"}

HandlersOK == \A w \in Procs : Holds(pc[w], req[w])

\* None of the four properties is inductive without HandlersOK.
DecisionInv == /\ HandlersOK
               /\ LiveIsRecorded
               /\ AppliedWasCommitted
               /\ DecisionNamesDecider
               /\ AuditIsTrue

All == Inv /\ DecisionInv

\* What no step ever undoes.
Kept == /\ \A p \in Proposed : /\ p \in Proposed'
                               /\ prop'[p].target = prop[p].target
                               /\ revs[p] \subseteq revs'[p]
        /\ \A p \in Pids : commits'[p] >= commits[p]

\* If nothing is undone, every handler but the one that moved still agrees.
LEMMA HandlersKept ==
    ASSUME All, Inv', Kept, NEW w \in Procs, NEW next \in Points, NEW r \in Request,
           Continue(w, next, r), Holds(next, r)'
    PROVE  HandlersOK'
  <1>1. pc'[w] = next /\ req'[w] = r
    BY DEF Continue, All, Inv, TypeInv, TypeOK
  <1>2. ASSUME NEW v \in Procs, v # w PROVE Holds(pc[v], req[v])'
    <2>1. pc'[v] = pc[v] /\ req'[v] = req[v]
      BY <1>2 DEF Continue, All, Inv, TypeInv, TypeOK
    <2>2. Holds(pc[v], req[v]) /\ LocalOK(pc[v], req[v], Proposed) /\ pc[v] \in Points
      BY DEF All, Inv, TypeInv, TypeOK, DecisionInv, HandlersOK
    <2>3. PICK q : q = req[v].pid
      OBVIOUS
    <2>4. pc[v] \in Applying \cup {"status", "audit"} =>
             /\ prop'[q].target = prop[q].target
             /\ revs[q] \subseteq revs'[q]
             /\ commits[q] > 0 => commits'[q] > 0
      <3>1. pc[v] \in Applying \cup {"status", "audit"} => q \in Proposed /\ q \in Pids
        BY <2>2, <2>3 DEF LocalOK, Applying, Proposed
      <3>2. q \in Pids => commits[q] \in Nat /\ commits'[q] \in Nat
        BY DEF All, Inv, TypeInv, TypeOK
      <3>3. QED
        BY <3>1, <3>2 DEF Kept
    <2>5. CASE pc[v] \in Applying \cup {"status", "audit"}
      BY <2>1, <2>2, <2>3, <2>4, <2>5 DEF Holds, CanDecide
    <2>6. CASE pc[v] \notin Applying \cup {"status", "audit"}
      BY <2>1, <2>2, <2>6 DEF Holds
    <2>7. QED
      BY <2>5, <2>6
  <1>3. QED
    BY <1>1, <1>2 DEF HandlersOK

\* A step that changes neither live nor statuses nor the audit log keeps the four
\* properties.
LEMMA TablesKept ==
    ASSUME All, Inv', Kept, HandlersOK', live' = live, audit' = audit,
           Proposed' = Proposed,
           \A p \in Proposed : /\ prop'[p].status = prop[p].status
                               /\ prop'[p].reviewer = prop[p].reviewer
    PROVE  DecisionInv'
  <1>1. \A p \in Pids : commits[p] \in Nat /\ commits'[p] \in Nat
    BY DEF All, Inv, TypeInv, TypeOK
  <1>2. LiveIsRecorded'
    BY DEF All, DecisionInv, LiveIsRecorded, Kept
  <1>3. AppliedWasCommitted'
    BY <1>1 DEF All, DecisionInv, AppliedWasCommitted, Kept, Proposed
  <1>4. DecisionNamesDecider'
    BY DEF All, DecisionInv, DecisionNamesDecider, Kept, CanDecide
  <1>5. AuditIsTrue'
    <2> SUFFICES ASSUME NEW p \in Pids, <<"approve", p>> \in audit PROVE commits'[p] > 0
      BY DEF AuditIsTrue
    <2>1. commits[p] > 0
      BY DEF All, DecisionInv, AuditIsTrue
    <2>2. commits'[p] >= commits[p]
      BY DEF Kept
    <2>3. QED
      BY <2>1, <2>2, <1>1
  <1>6. QED
    BY <1>2, <1>3, <1>4, <1>5 DEF DecisionInv

LEMMA QuietKept == ASSUME UNCHANGED <<prop, revs, commits>>, TypeOK
                   PROVE  Kept /\ Proposed' = Proposed
  BY DEF Kept, Proposed, TypeOK

\* A step of w that touches no table needs only its own next place to agree.
LEMMA QuietDecision ==
    ASSUME All, Inv', NEW w \in Procs, NEW next \in Points, NEW r \in Request,
           Continue(w, next, r), Holds(next, r), UNCHANGED tables
    PROVE  DecisionInv'
  <1>1. Kept /\ Proposed' = Proposed
    BY QuietKept DEF tables, All, Inv, TypeInv
  <1>2. Holds(next, r)'
    BY DEF Holds, CanDecide, tables
  <1>3. HandlersOK'
    BY <1>1, <1>2, HandlersKept
  <1>4. QED
    BY <1>1, <1>3, TablesKept DEF tables

\* A handler that has answered claims nothing.
LEMMA IdleHolds == Holds("idle", NoRequest)
  BY NullsOK DEF Holds, NoRequest, Claims, Applying, Statuses, Actions

LEMMA FinishDecision ==
    ASSUME All, Inv', NEW w \in Procs, Finish(w), UNCHANGED tables
    PROVE  DecisionInv'
  BY QuietDecision, IdleHolds, NoRequestType DEF Finish, Points

-----------------------------------------------------------------------------
(* The steps, one by one *)

\* A fresh request neither is an approval nor carries a decided status.
LEMMA NewRequestHolds ==
    ASSUME NEW u, NEW op, NEW e, NEW base, NEW payload,
           NEW status \in {"draft", "pending"}, NEW invs,
           NEW point \in {"stamp", "insert"}
    PROVE  Holds(point, NewRequest(u, op, e, base, payload, status, invs))
  <1> DEFINE r == NewRequest(u, op, e, base, payload, status, invs)
  <1>1. r.status = status /\ r.action = "create"
    BY DEF NewRequest, NoRequest
  <1> HIDE DEF r
  <1>2. QED
    BY <1>1 DEF Holds, Claims, Applying, r

LEMMA CreateNewDecision == ASSUME All, Inv', NEW w \in Procs, CreateNew(w) PROVE DecisionInv'
  <1>1. PICK u \in Users, e \in Entities, payload \in Payloads,
             status \in {"draft", "pending"}, invs \in SUBSET Invites :
               Continue(w, "insert", NewRequest(u, "create", e, NoRow, payload, status, invs))
    BY DEF CreateNew
  <1> DEFINE r == NewRequest(u, "create", e, NoRow, payload, status, invs)
  <1>2. r \in Request /\ Holds("insert", r)
    BY NewRequestType, NewRequestHolds DEF Ops
  <1> HIDE DEF r
  <1>3. QED
    BY <1>1, <1>2, QuietDecision DEF CreateNew, Points, r

LEMMA CreateBranchDecision ==
    ASSUME All, Inv', NEW w \in Procs, CreateBranch(w) PROVE DecisionInv'
  <1>1. PICK u \in Users, op \in {"update", "delete"}, e \in Entities, payload \in Payloads,
             status \in {"draft", "pending"}, invs \in SUBSET Invites :
               Continue(w, "stamp",
                        NewRequest(u, op, e, SnapshotEntity(e), payload, status, invs))
    BY DEF CreateBranch
  <1>2. PICK r : r = NewRequest(u, op, e, SnapshotEntity(e), payload, status, invs)
    OBVIOUS
  <1>3. r \in Request /\ Holds("stamp", r)
    BY <1>2, NewRequestType, NewRequestHolds, SnapshotType DEF Ops, All, Inv, TypeInv
  <1>4. QED
    BY <1>1, <1>2, <1>3, QuietDecision DEF CreateBranch, Points

LEMMA CreateStampDecision ==
    ASSUME All, Inv', NEW w \in Procs, CreateStamp(w) PROVE DecisionInv'
  <1>1. req[w] \in Request /\ LocalOK("stamp", req[w], Proposed) /\ Holds("stamp", req[w])
    BY HeldType DEF All, Inv, CreateStamp, DecisionInv, HandlersOK
  <1>2. PICK r : r = [req[w] EXCEPT !.baseStamp = EntityUpdatedAt(req[w].target)]
    OBVIOUS
  <1>3. r \in Request /\ r.status = req[w].status /\ r.action = req[w].action
    BY <1>1, <1>2, UpdatedAtType DEF Request, LocalOK, All, Inv, TypeInv
  <1>4. Holds("insert", r)
    BY <1>1, <1>3 DEF Holds, Claims, Applying
  <1>5. QED
    BY <1>2, <1>3, <1>4, QuietDecision DEF CreateStamp, Points

LEMMA CreateInsertDecision ==
    ASSUME All, Inv', NEW w \in Procs, CreateInsert(w) PROVE DecisionInv'
  <1>1. PICK r : r = req[w]
    OBVIOUS
  <1>2. PICK p \in Pids \ Proposed :
          /\ prop' = [prop EXCEPT ![p] =
                [op |-> r.op, target |-> r.target, base |-> r.base,
                 baseStamp |-> r.baseStamp, state |-> r.state, status |-> r.status,
                 creator |-> r.user, reviewer |-> None]]
          /\ revs' = [revs EXCEPT ![p] = {[no |-> 1, state |-> r.state, by |-> r.user]}]
          /\ Continue(w, IF r.invites = {} THEN "audit" ELSE "link", [r EXCEPT !.pid = p])
    BY <1>1 DEF CreateInsert
  <1>3. PICK s, next : s = [r EXCEPT !.pid = p] /\ next = IF r.invites = {} THEN "audit" ELSE "link"
    OBVIOUS
  <1>4. r \in Request /\ Holds("insert", r)
    BY <1>1, HeldType DEF All, Inv, CreateInsert, DecisionInv, HandlersOK
  <1>5. s \in Request /\ s.status = r.status /\ s.action = r.action
    BY <1>3, <1>4 DEF Request
  <1>6. ~Claims(s) /\ r.status \in {"draft", "pending"}
    BY <1>4, <1>5 DEF Holds, Claims, Applying
  <1>7. Holds(next, s)'
    BY <1>3, <1>6 DEF Holds, Applying
  <1>8. /\ prop'[p].status = r.status /\ prop'[p].reviewer = None
        /\ \A q \in Proposed : prop'[q] = prop[q] /\ revs'[q] = revs[q]
    BY <1>2 DEF Proposed, All, Inv, TypeInv, TypeOK
  <1>9. Kept /\ Proposed' \subseteq Proposed \cup {p}
    BY <1>2, <1>8 DEF Kept, CreateInsert, Proposed, All, Inv, TypeInv, TypeOK
  <1>10. HandlersOK'
    BY <1>2, <1>3, <1>5, <1>7, <1>9, HandlersKept DEF Points
  <1>11. LiveIsRecorded'
    BY <1>8, <1>9 DEF All, DecisionInv, LiveIsRecorded, CreateInsert, Kept
  <1>12. AppliedWasCommitted'
    BY <1>6, <1>8, <1>9 DEF All, DecisionInv, AppliedWasCommitted, CreateInsert
  <1>13. DecisionNamesDecider'
    BY <1>6, <1>8, <1>9 DEF All, DecisionInv, DecisionNamesDecider, CanDecide
  <1>14. AuditIsTrue'
    BY DEF All, DecisionInv, AuditIsTrue, CreateInsert
  <1>15. QED
    BY <1>10, <1>11, <1>12, <1>13, <1>14 DEF DecisionInv

LEMMA CreateLinkDecision ==
    ASSUME All, Inv', NEW w \in Procs, CreateLink(w) PROVE DecisionInv'
  <1>1. PICK i \in req[w].invites :
          Continue(w, IF req[w].invites = {i} THEN "audit" ELSE "link",
                   [req[w] EXCEPT !.invites = @ \ {i}])
    BY DEF CreateLink
  <1>2. PICK s, next : /\ s = [req[w] EXCEPT !.invites = @ \ {i}]
                       /\ next = IF req[w].invites = {i} THEN "audit" ELSE "link"
    OBVIOUS
  <1>3. req[w] \in Request /\ Holds("link", req[w])
    BY HeldType DEF All, Inv, CreateLink, DecisionInv, HandlersOK
  <1>4. s \in Request /\ s.status = req[w].status /\ s.action = req[w].action
    BY <1>2, <1>3 DEF Request
  <1>5. Holds(next, s)'
    BY <1>2, <1>3, <1>4 DEF Holds, Claims, Applying
  <1>6. Kept /\ Proposed' = Proposed
    BY QuietKept DEF CreateLink, All, Inv, TypeInv
  <1>7. HandlersOK'
    BY <1>1, <1>2, <1>4, <1>5, <1>6, HandlersKept DEF Points
  <1>8. QED
    BY <1>6, <1>7, TablesKept DEF CreateLink

LEMMA ReviseReadDecision ==
    ASSUME All, Inv', NEW w \in Procs, ReviseRead(w) PROVE DecisionInv'
  <1>1. PICK u \in Users, p \in Proposed, payload \in Payloads :
          Continue(w, "number",
                [NoRequest EXCEPT !.user = u, !.pid = p, !.action = "revise",
                   !.state = StateFor(prop[p].op, prop[p].state, payload)])
    BY DEF ReviseRead
  <1>2. PICK r : r = [NoRequest EXCEPT !.user = u, !.pid = p, !.action = "revise",
                        !.state = StateFor(prop[p].op, prop[p].state, payload)]
    OBVIOUS
  <1>3. req'[w] = r /\ r \in Request
    BY <1>1, <1>2 DEF Continue, All, Inv, TypeInv, TypeOK
  <1>4. r.status = None /\ r.action = "revise"
    BY <1>2 DEF NoRequest
  <1>5. Holds("number", r)
    BY <1>4, NullsOK DEF Holds, Claims, Applying, Statuses
  <1>6. QED
    BY <1>1, <1>2, <1>3, <1>5, QuietDecision DEF ReviseRead, Points

LEMMA ReviseNumberDecision ==
    ASSUME All, Inv', NEW w \in Procs, ReviseNumber(w) PROVE DecisionInv'
  <1>1. PICK r : r = [req[w] EXCEPT !.no = LastNo(req[w].pid) + 1]
    OBVIOUS
  <1>2. req[w] \in Request /\ Holds("number", req[w])
    BY HeldType DEF All, Inv, ReviseNumber, DecisionInv, HandlersOK
  <1>3. req'[w] = r /\ r \in Request
    BY <1>1 DEF ReviseNumber, Continue, All, Inv, TypeInv, TypeOK
  <1>4. r.status = req[w].status /\ r.action = req[w].action
    BY <1>1, <1>2 DEF Request
  <1>5. Holds("revision", r)
    BY <1>2, <1>4 DEF Holds, Claims, Applying
  <1>6. QED
    BY <1>1, <1>3, <1>5, QuietDecision DEF ReviseNumber, Points

LEMMA ReviseInsertDecision ==
    ASSUME All, Inv', NEW w \in Procs, ReviseInsert(w) PROVE DecisionInv'
  <1>1. req[w] \in Request /\ Holds("revision", req[w])
    BY HeldType DEF All, Inv, ReviseInsert, DecisionInv, HandlersOK
  <1>2. Holds("head", req[w])
    BY <1>1 DEF Holds, Applying
  <1>3. QED
    BY <1>1, <1>2, QuietDecision, FinishDecision DEF ReviseInsert, Points

LEMMA ReviseHeadDecision ==
    ASSUME All, Inv', NEW w \in Procs, ReviseHead(w) PROVE DecisionInv'
  <1>1. req[w] \in Request /\ LocalOK("head", req[w], Proposed) /\ Holds("head", req[w])
    BY HeldType DEF All, Inv, ReviseHead, DecisionInv, HandlersOK
  <1>2. PICK r, p : r = req[w] /\ p = r.pid
    OBVIOUS
  <1>3. p \in Pids /\ prop[p] \in Proposal
    BY <1>1, <1>2 DEF LocalOK, Proposed, All, Inv, TypeInv, TypeOK
  <1>4. Proposed' = Proposed
    BY ReviseHeadType DEF All, Inv
  <1>5. \A q \in Proposed : /\ prop'[q].target = prop[q].target
                            /\ prop'[q].status = prop[q].status
                            /\ prop'[q].reviewer = prop[q].reviewer
    <2>1. prop' = [prop EXCEPT ![p] = [prop[p] EXCEPT !.state = r.state]]
      BY <1>2, <1>3 DEF ReviseHead, All, Inv, TypeInv, TypeOK
    <2>2. LET new == [prop[p] EXCEPT !.state = r.state]
          IN  /\ new.target = prop[p].target /\ new.status = prop[p].status
              /\ new.reviewer = prop[p].reviewer
      BY <1>3 DEF Proposal
    <2>3. QED
      BY <1>3, <2>1, <2>2 DEF Proposed, All, Inv, TypeInv, TypeOK
  <1>6. Kept
    <2>1. \A q \in Proposed : revs[q] \subseteq revs'[q]
      BY <1>2, <1>3 DEF ReviseHead, All, Inv, TypeInv, TypeOK, Proposed
    <2>2. \A q \in Pids : commits'[q] >= commits[q]
      BY DEF ReviseHead, All, Inv, TypeInv, TypeOK
    <2>3. QED
      BY <1>4, <1>5, <2>1, <2>2 DEF Kept
  <1>7. Holds("audit", r)'
    BY <1>1, <1>2 DEF Holds, Applying
  <1>8. HandlersOK'
    BY <1>1, <1>2, <1>6, <1>7, HandlersKept DEF ReviseHead, Points
  <1>9. QED
    BY <1>4, <1>5, <1>6, <1>8, TablesKept DEF ReviseHead

\* Who rejects is checked against the target, which no revision changes.
LEMMA TransitionReadDecision ==
    ASSUME All, Inv', NEW w \in Procs, TransitionRead(w) PROVE DecisionInv'
  <1>1. PICK u \in Users, p \in Proposed, action \in {"submit", "withdraw", "reject"} :
          /\ IF action = "reject" THEN CanDecide(u, prop[p].target)
                                  ELSE u = prop[p].creator
          /\ Continue(w, "status",
                   [NoRequest EXCEPT !.user = u, !.pid = p, !.status = Target(action),
                                     !.action = action])
    BY DEF TransitionRead
  <1>2. PICK r : r = [NoRequest EXCEPT !.user = u, !.pid = p, !.status = Target(action),
                                       !.action = action]
    OBVIOUS
  <1>3. req'[w] = r /\ r \in Request
    BY <1>1, <1>2 DEF Continue, All, Inv, TypeInv, TypeOK
  <1>4. r.user = u /\ r.pid = p /\ r.action = action /\ r.status = Target(action)
    BY <1>2 DEF NoRequest
  <1>5. Target(action) \in {"pending", "withdrawn", "rejected"}
        /\ (Target(action) = "rejected" <=> action = "reject")
    BY DEF Target
  <1>6. Holds("status", r)
    BY <1>1, <1>4, <1>5 DEF Holds, Claims, Decides, Applying
  <1>7. QED
    BY <1>1, <1>2, <1>3, <1>6, QuietDecision DEF TransitionRead, Points

\* The row as it is read is a revision, because the head always is one.
LEMMA ApproveReadDecision ==
    ASSUME All, Inv', NEW w \in Procs, ApproveRead(w) PROVE DecisionInv'
  <1>1. PICK u \in Users, p \in Proposed :
          CanDecide(u, prop[p].target) /\ Continue(w, "count", Approval(u, p))
    BY DEF ApproveRead
  <1>2. PICK r : r = Approval(u, p)
    OBVIOUS
  <1>3. req'[w] = r /\ r \in Request
    BY <1>1, <1>2 DEF Continue, All, Inv, TypeInv, TypeOK
  <1>4. /\ r.user = u /\ r.pid = p /\ r.target = prop[p].target /\ r.state = prop[p].state
        /\ r.status = "applied" /\ r.action = "approve"
    BY <1>2 DEF Approval, NoRequest
  <1>5. \E s \in revs[p] : s.state = prop[p].state
    <2>1. LastNo(p) \in Numbers(p)
      BY DEF All, Inv, LogInv, RevisionLogOK
    <2>2. QED
      BY <2>1 DEF Numbers, All, Inv, LogInv, RevisionLogOK
  <1>6. Holds("count", r)
    BY <1>1, <1>4, <1>5 DEF Holds, Claims, Decides, Applying
  <1>7. QED
    BY <1>1, <1>2, <1>3, <1>6, QuietDecision DEF ApproveRead, Points

LEMMA ApproveCountDecision ==
    ASSUME All, Inv', NEW w \in Procs, ApproveCount(w) PROVE DecisionInv'
  <1>1. req[w] \in Request /\ Holds("count", req[w])
    BY HeldType DEF All, Inv, ApproveCount, DecisionInv, HandlersOK
  <1>2. Holds("check", req[w])
    BY <1>1 DEF Holds, Applying
  <1>3. QED
    BY <1>1, <1>2, QuietDecision, FinishDecision DEF ApproveCount, Points

LEMMA ApplyCheckDecision ==
    ASSUME All, Inv', NEW w \in Procs, ApplyCheck(w) PROVE DecisionInv'
  <1>1. req[w] \in Request /\ Holds("check", req[w])
    BY HeldType DEF All, Inv, ApplyCheck, DecisionInv, HandlersOK
  <1>2. Holds("write", req[w])
    BY <1>1 DEF Holds, Applying
  <1>3. QED
    BY <1>1, <1>2, QuietDecision, FinishDecision DEF ApplyCheck, Points

\* A step that touches neither proposals nor what is live, only locks and invites.
LEMMA LocksDecision ==
    ASSUME All, Inv', NEW w \in Procs, NEW next \in Points, NEW r \in Request,
           Continue(w, next, r), Holds(next, r),
           UNCHANGED <<live, prop, revs, audit, commits>>
    PROVE  DecisionInv'
  <1>1. Kept /\ Proposed' = Proposed
    BY QuietKept DEF All, Inv, TypeInv
  <1>2. Holds(next, r)'
    BY DEF Holds, CanDecide
  <1>3. HandlersOK'
    BY <1>1, <1>2, HandlersKept
  <1>4. QED
    BY <1>1, <1>3, TablesKept

LEMMA ApplyWriteDecision ==
    ASSUME All, Inv', NEW w \in Procs, ApplyWrite(w) PROVE DecisionInv'
  <1>1. req[w] \in Request /\ Holds("write", req[w])
    BY HeldType DEF All, Inv, ApplyWrite, DecisionInv, HandlersOK
  <1>2. Holds("commit", req[w])
    BY <1>1 DEF Holds, Applying
  <1>3. QED
    BY <1>1, <1>2, LocksDecision, IdleHolds, NoRequestType DEF ApplyWrite, Finish, Points

LEMMA AbortDecision == ASSUME All, Inv', NEW w \in Procs, Abort(w) PROVE DecisionInv'
  BY LocksDecision, IdleHolds, NoRequestType DEF Abort, Finish, Points

\* What goes live is what the handler holds, a revision of a proposal for that entity.
LEMMA ApplyCommitDecision ==
    ASSUME All, Inv', NEW w \in Procs, ApplyCommit(w) PROVE DecisionInv'
  <1>1. /\ req[w] \in Request /\ LocalOK("commit", req[w], Proposed)
        /\ Holds("commit", req[w])
    BY HeldType DEF All, Inv, ApplyCommit, DecisionInv, HandlersOK
  <1>2. PICK r, p, e : r = req[w] /\ p = r.pid /\ e = r.target
    OBVIOUS
  <1>3. p \in Proposed /\ p \in Pids /\ e \in Entities
    BY <1>1, <1>2 DEF LocalOK, Proposed
  <1>4. \A q \in Pids : commits[q] \in Nat
    BY DEF All, Inv, TypeInv, TypeOK
  <1>5. commits'[p] > 0 /\ \A q \in Pids : commits'[q] >= commits[q]
    BY <1>2, <1>3, <1>4 DEF ApplyCommit, All, Inv, TypeInv, TypeOK
  <1>6. Kept /\ Proposed' = Proposed
    BY <1>5 DEF Kept, ApplyCommit, Proposed
  <1>7. Holds("status", r)'
    BY <1>1, <1>2, <1>5 DEF Holds, Applying, ApplyCommit, CanDecide
  <1>8. HandlersOK'
    BY <1>1, <1>2, <1>6, <1>7, HandlersKept DEF ApplyCommit, Points
  <1>9. LiveIsRecorded'
    <2> SUFFICES ASSUME NEW x \in Entities, live'[x] # NoRow
                 PROVE  \/ live'[x].state = InitialState
                        \/ \E q \in Proposed : /\ prop[q].target = x
                                              /\ \E s \in revs[q] : s.state = live'[x].state
      BY <1>6 DEF LiveIsRecorded, ApplyCommit
    <2>1. CASE live'[x] = live[x]
      BY <2>1 DEF All, DecisionInv, LiveIsRecorded
    <2>2. CASE live'[x] # live[x]
      <3>1. x = e /\ live'[e] = Applied(r)
        BY <1>2, <2>2 DEF ApplyCommit, All, Inv, TypeInv, TypeOK
      <3>2. live'[x].state = r.state
        BY <3>1 DEF Applied
      <3>3. prop[p].target = e /\ \E s \in revs[p] : s.state = r.state
        BY <1>1, <1>2 DEF Holds, Applying
      <3>4. QED
        BY <1>3, <3>1, <3>2, <3>3
    <2>3. QED
      BY <2>1, <2>2
  <1>10. AppliedWasCommitted'
    <2>1. \A q \in Pids : commits[q] > 0 => commits'[q] > 0
      BY <1>4, <1>5 DEF ApplyCommit, All, Inv, TypeInv, TypeOK
    <2>2. QED
      BY <2>1, <1>6 DEF All, DecisionInv, AppliedWasCommitted, ApplyCommit, Proposed
  <1>11. DecisionNamesDecider'
    BY <1>6 DEF All, DecisionInv, DecisionNamesDecider, ApplyCommit, CanDecide
  <1>12. AuditIsTrue'
    <2>1. \A q \in Pids : commits[q] > 0 => commits'[q] > 0
      BY <1>4, <1>5 DEF ApplyCommit, All, Inv, TypeInv, TypeOK
    <2>2. QED
      BY <2>1 DEF All, DecisionInv, AuditIsTrue, ApplyCommit
  <1>13. QED
    BY <1>8, <1>9, <1>10, <1>11, <1>12 DEF DecisionInv

\* A status that says "applied" comes from a handler whose transaction committed, and
\* the reviewer written with a decision is the handler's own user.
LEMMA WriteStatusDecision ==
    ASSUME All, Inv', NEW w \in Procs, WriteStatus(w) PROVE DecisionInv'
  <1>1. /\ req[w] \in Request /\ LocalOK("status", req[w], Proposed)
        /\ Holds("status", req[w])
    BY HeldType DEF All, Inv, WriteStatus, DecisionInv, HandlersOK
  <1>2. PICK r, p : r = req[w] /\ p = r.pid
    OBVIOUS
  <1>3. /\ p \in Proposed /\ p \in Pids /\ prop[p] \in Proposal
        /\ r.status \in Statuses /\ r.user \in Users
    BY <1>1, <1>2 DEF LocalOK, Proposed, All, Inv, TypeInv, TypeOK
  <1>4. Proposed' = Proposed
    BY WriteStatusType DEF All, Inv
  <1>5. /\ prop'[p].status = r.status /\ prop'[p].reviewer = Reviewer(r)
        /\ prop'[p].target = prop[p].target
        /\ \A q \in Proposed \ {p} : prop'[q] = prop[q]
    <2>1. prop' = [prop EXCEPT ![p] = [prop[p] EXCEPT !.status = r.status,
                                                      !.reviewer = Reviewer(r)]]
      BY <1>2, <1>3 DEF WriteStatus, All, Inv, TypeInv, TypeOK
    <2>2. LET new == [prop[p] EXCEPT !.status = r.status, !.reviewer = Reviewer(r)]
          IN  /\ new.target = prop[p].target /\ new.status = r.status
              /\ new.reviewer = Reviewer(r)
      BY <1>3 DEF Proposal
    <2>3. QED
      BY <1>3, <2>1, <2>2 DEF Proposed, All, Inv, TypeInv, TypeOK
  <1>6. Kept
    <2>1. \A q \in Pids : commits'[q] >= commits[q]
      BY DEF WriteStatus, All, Inv, TypeInv, TypeOK
    <2>2. QED
      BY <1>4, <1>5, <2>1 DEF Kept, WriteStatus
  <1>7. Holds("audit", r)'
    BY <1>1, <1>2 DEF Holds, Applying, WriteStatus
  <1>8. HandlersOK'
    BY <1>1, <1>2, <1>6, <1>7, HandlersKept DEF WriteStatus, Points
  <1>9. LiveIsRecorded'
    <2>1. live' = live /\ revs' = revs
      BY DEF WriteStatus
    <2>2. \A q \in Proposed : prop'[q].target = prop[q].target
      BY <1>6 DEF Kept
    <2>3. QED
      BY <1>4, <2>1, <2>2 DEF All, DecisionInv, LiveIsRecorded
  <1>10. AppliedWasCommitted'
    <2>1. r.status = "applied" => commits[p] > 0
      BY <1>1, <1>2 DEF Holds, Claims, Applying
    <2>2. QED
      BY <1>4, <1>5, <2>1 DEF All, DecisionInv, AppliedWasCommitted, WriteStatus
  <1>11. DecisionNamesDecider'
    <2>1. IF r.status \in {"applied", "rejected"}
          THEN Reviewer(r) \in Users /\ CanDecide(Reviewer(r), prop[p].target)
          ELSE Reviewer(r) = None
      BY <1>1, <1>2, <1>3 DEF Holds, Decides, Reviewer, Applying
    <2>2. QED
      BY <1>4, <1>5, <2>1 DEF All, DecisionInv, DecisionNamesDecider, CanDecide
  <1>12. AuditIsTrue'
    BY DEF All, DecisionInv, AuditIsTrue, WriteStatus
  <1>13. QED
    BY <1>8, <1>9, <1>10, <1>11, <1>12 DEF DecisionInv

\* The audit row of an approval is written by a handler whose transaction committed.
LEMMA AppendAuditDecision ==
    ASSUME All, Inv', NEW w \in Procs, AppendAudit(w) PROVE DecisionInv'
  <1>1. Holds("audit", req[w])
    BY DEF All, AppendAudit, DecisionInv, HandlersOK
  <1>2. Kept /\ Proposed' = Proposed
    BY QuietKept DEF AppendAudit, All, Inv, TypeInv
  <1>3. Holds("idle", NoRequest)'
    BY NullsOK DEF Holds, NoRequest, Claims, Applying, Statuses, Actions
  <1>4. HandlersOK'
    BY <1>2, <1>3, HandlersKept, NoRequestType DEF AppendAudit, Finish, Points
  <1>5. LiveIsRecorded' /\ AppliedWasCommitted'
    BY <1>2 DEF All, DecisionInv, LiveIsRecorded, AppliedWasCommitted, AppendAudit
  <1>6. DecisionNamesDecider'
    BY <1>2 DEF All, DecisionInv, DecisionNamesDecider, CanDecide, AppendAudit
  <1>7. AuditIsTrue'
    <2> SUFFICES ASSUME NEW p \in Pids, <<"approve", p>> \in audit' PROVE commits[p] > 0
      BY DEF AuditIsTrue, AppendAudit
    <2>1. CASE <<"approve", p>> \in audit
      BY <2>1 DEF All, DecisionInv, AuditIsTrue
    <2>2. CASE req[w].action = "approve" /\ req[w].pid = p
      BY <1>1, <2>2 DEF Holds, Claims, Applying
    <2>3. QED
      BY <2>1, <2>2 DEF AppendAudit
  <1>8. QED
    BY <1>4, <1>5, <1>6, <1>7 DEF DecisionInv

LEMMA SameDecision ==
    ASSUME All, Inv', UNCHANGED <<live, prop, revs, audit, commits, pc, req>>
    PROVE  DecisionInv'
  <1>1. Kept /\ Proposed' = Proposed
    BY QuietKept DEF All, Inv, TypeInv
  <1>2. HandlersOK'
    BY DEF All, DecisionInv, HandlersOK, Holds, CanDecide
  <1>3. QED
    BY <1>1, <1>2, TablesKept

-----------------------------------------------------------------------------
(* The theorems *)

LEMMA InitDecision == Init => DecisionInv
  <1> SUFFICES ASSUME Init PROVE DecisionInv
    OBVIOUS
  <1>1. HandlersOK
    BY IdleHolds DEF Init, HandlersOK
  <1>2. Proposed = {} /\ audit = {}
    BY DEF Init, Proposed
  <1>3. LiveIsRecorded
    BY DEF Init, LiveIsRecorded
  <1>4. QED
    BY <1>1, <1>2, <1>3 DEF DecisionInv, AppliedWasCommitted, DecisionNamesDecider, AuditIsTrue

LEMMA DecisionNext == All /\ Inv' /\ [Next]_vars => DecisionInv'
  <1> SUFFICES ASSUME All, Inv', [Next]_vars PROVE DecisionInv'
    OBVIOUS
  <1>1. ASSUME NEW w \in Procs, Arrive(w) PROVE DecisionInv'
    BY <1>1, CreateNewDecision, CreateBranchDecision, ReviseReadDecision,
       TransitionReadDecision, ApproveReadDecision
       DEF Arrive
  <1>2. ASSUME NEW w \in Procs, Proceed(w) PROVE DecisionInv'
    BY <1>2, CreateStampDecision, CreateInsertDecision, CreateLinkDecision,
       ReviseNumberDecision, ReviseInsertDecision, ReviseHeadDecision, ApproveCountDecision,
       ApplyCheckDecision, ApplyWriteDecision, ApplyCommitDecision, WriteStatusDecision,
       AppendAuditDecision
       DEF Proceed
  <1>3. ASSUME NEW i \in Invites, AcceptInvite(i) PROVE DecisionInv'
    BY <1>3, SameDecision DEF AcceptInvite
  <1>4. CASE UNCHANGED vars
    BY <1>4, SameDecision DEF vars
  <1>5. QED
    BY <1>1, <1>2, <1>3, <1>4, AbortDecision DEF Next

THEOREM DecisionCorrect == Spec => []DecisionInv
  <1>1. Init /\ Inv => All
    BY InitDecision DEF All
  <1>2. All /\ Inv' /\ [Next]_vars => All'
    BY DecisionNext DEF All
  <1>3. All => DecisionInv
    BY DEF All
  <1>4. QED
    BY <1>1, <1>2, <1>3, InvCorrect, PTL DEF Spec

\* No table of live entities is written but by an approval, and the approval writes a
\* state on record in the revisions of a proposal for that entity.
THEOREM LiveAlwaysRecorded == Spec => []LiveIsRecorded
  BY DecisionCorrect, PTL DEF DecisionInv

\* A proposal shown as applied has had an apply transaction commit.
THEOREM AppliedAlwaysCommitted == Spec => []AppliedWasCommitted
  BY DecisionCorrect, PTL DEF DecisionInv

\* A decided proposal names a user who was allowed to decide it, however decisions,
\* withdrawals and resubmissions overlap.
THEOREM DeciderAlwaysNamed == Spec => []DecisionNamesDecider
  BY DecisionCorrect, PTL DEF DecisionInv

\* An approval in the audit log was an approval that committed.
THEOREM AuditAlwaysTrue == Spec => []AuditIsTrue
  BY DecisionCorrect, PTL DEF DecisionInv

-----------------------------------------------------------------------------
(* What one step may do, by what can be seen of it *)

\* w does something.
Moves(w) == Arrive(w) \/ Proceed(w) \/ Abort(w)

LEMMA MovesContinue == ASSUME NEW w \in Procs, Moves(w)
                       PROVE  \E next, r : Continue(w, next, r)
  <1>1. CASE Arrive(w)
    BY <1>1 DEF Arrive, CreateNew, CreateBranch, ReviseRead, TransitionRead, ApproveRead
  <1>2. CASE Abort(w)
    BY <1>2 DEF Abort, Finish
  <1>3. CASE Proceed(w)
    <2>1. CASE CreateStamp(w) \/ CreateInsert(w) \/ CreateLink(w)
      BY <2>1 DEF CreateStamp, CreateInsert, CreateLink
    <2>2. CASE ReviseNumber(w) \/ ReviseInsert(w) \/ ReviseHead(w)
      BY <2>2 DEF ReviseNumber, ReviseInsert, ReviseHead, Finish
    <2>3. CASE ApproveCount(w) \/ ApplyCheck(w) \/ ApplyWrite(w) \/ ApplyCommit(w)
      BY <2>3 DEF ApproveCount, ApplyCheck, ApplyWrite, ApplyCommit, Finish
    <2>4. CASE WriteStatus(w) \/ AppendAudit(w)
      BY <2>4 DEF WriteStatus, AppendAudit, Finish
    <2>5. QED
      BY <1>3, <2>1, <2>2, <2>3, <2>4 DEF Proceed
  <1>4. QED
    BY <1>1, <1>2, <1>3 DEF Moves

\* A handler that did not move stands where it stood, with the same local variables.
LEMMA StillOrMoves == ASSUME TypeOK, [Next]_vars, NEW v \in Procs
                      PROVE  (pc'[v] = pc[v] /\ req'[v] = req[v]) \/ Moves(v)
  <1>1. CASE UNCHANGED vars
    BY <1>1 DEF vars
  <1>2. ASSUME NEW i \in Invites, AcceptInvite(i) PROVE pc'[v] = pc[v] /\ req'[v] = req[v]
    BY <1>2 DEF AcceptInvite
  <1>3. ASSUME NEW w \in Procs, Moves(w), w # v PROVE pc'[v] = pc[v] /\ req'[v] = req[v]
    BY <1>3, MovesContinue DEF Continue, TypeOK
  <1>4. QED
    BY <1>1, <1>2, <1>3 DEF Next, Moves

\* The step that takes a handler to each place an approval or a create passes.
LEMMA HowItGotThere ==
    ASSUME TypeOK, NEW w \in Procs, Moves(w)
    PROVE  /\ pc'[w] = "stamp"  => CreateBranch(w)
           /\ pc'[w] = "insert" => CreateNew(w) \/ CreateStamp(w)
           /\ pc'[w] = "count"  => ApproveRead(w)
           /\ pc'[w] = "check"  => ApproveCount(w)
           /\ pc'[w] = "write"  => ApplyCheck(w)
           /\ pc'[w] = "commit" => ApplyWrite(w)
  <1> DEFINE Reached == /\ pc'[w] = "stamp"  => CreateBranch(w)
                        /\ pc'[w] = "insert" => CreateNew(w) \/ CreateStamp(w)
                        /\ pc'[w] = "count"  => ApproveRead(w)
                        /\ pc'[w] = "check"  => ApproveCount(w)
                        /\ pc'[w] = "write"  => ApplyCheck(w)
                        /\ pc'[w] = "commit" => ApplyWrite(w)
  <1>1. CASE CreateNew(w) \/ CreateBranch(w) \/ CreateStamp(w) \/ ApproveRead(w)
    BY <1>1 DEF CreateNew, CreateBranch, CreateStamp, ApproveRead, Continue, TypeOK
  <1>2. CASE ApproveCount(w) \/ ApplyCheck(w) \/ ApplyWrite(w)
    BY <1>2 DEF ApproveCount, ApplyCheck, ApplyWrite, Finish, Continue, TypeOK
  <1>3. CASE ReviseRead(w) \/ TransitionRead(w)
    BY <1>3 DEF ReviseRead, TransitionRead, Continue, TypeOK
  <1>4. CASE CreateInsert(w) \/ CreateLink(w) \/ ReviseNumber(w)
    BY <1>4 DEF CreateInsert, CreateLink, ReviseNumber, Continue, TypeOK
  <1>5. CASE ReviseInsert(w) \/ ReviseHead(w)
    BY <1>5 DEF ReviseInsert, ReviseHead, Finish, Continue, TypeOK
  <1>6. CASE ApplyCommit(w) \/ WriteStatus(w) \/ AppendAudit(w) \/ Abort(w)
    BY <1>6 DEF ApplyCommit, WriteStatus, AppendAudit, Abort, Finish, Continue, TypeOK
  <1>7. Reached
    BY <1>1, <1>2, <1>3, <1>4, <1>5, <1>6 DEF Moves, Arrive, Proceed
  <1>8. QED
    BY <1>7

\* Only a commit changes what is live.
LEMMA LiveStep == ASSUME [Next]_vars
                  PROVE  UNCHANGED <<live, clock, commits>> \/ \E w \in Procs : ApplyCommit(w)
  <1>1. ASSUME NEW w \in Procs, Arrive(w) PROVE UNCHANGED <<live, clock, commits>>
    BY <1>1 DEF Arrive, CreateNew, CreateBranch, ReviseRead, TransitionRead, ApproveRead, tables
  <1>2. ASSUME NEW w \in Procs, Proceed(w)
        PROVE  UNCHANGED <<live, clock, commits>> \/ ApplyCommit(w)
    BY <1>2 DEF Proceed, CreateStamp, CreateInsert, CreateLink, ReviseNumber, ReviseInsert,
       ReviseHead, ApproveCount, ApplyCheck, ApplyWrite, WriteStatus, AppendAudit, tables
  <1>3. QED
    BY <1>1, <1>2 DEF Next, Abort, AcceptInvite, vars

\* Three statements write change_proposals.
LEMMA ProposalsTouched ==
    ASSUME [Next]_vars
    PROVE  prop' = prop \/ \E w \in Procs : CreateInsert(w) \/ ReviseHead(w) \/ WriteStatus(w)
  <1>1. ASSUME NEW w \in Procs, Arrive(w) PROVE prop' = prop
    BY <1>1 DEF Arrive, CreateNew, CreateBranch, ReviseRead, TransitionRead, ApproveRead, tables
  <1>2. ASSUME NEW w \in Procs, Proceed(w), ~CreateInsert(w), ~ReviseHead(w), ~WriteStatus(w)
        PROVE  prop' = prop
    BY <1>2 DEF Proceed, CreateStamp, CreateLink, ReviseNumber, ReviseInsert,
       ApproveCount, ApplyCheck, ApplyWrite, ApplyCommit, AppendAudit, tables
  <1>3. QED
    BY <1>1, <1>2 DEF Next, Abort, AcceptInvite, vars

\* The rows of change_proposals after a step: what the proposal was made from is never
\* rewritten, and a new one carries what its request read.
SameBase(q, r) == /\ q.op = r.op /\ q.target = r.target
                  /\ q.base = r.base /\ q.baseStamp = r.baseStamp

LEMMA ProposalStep ==
    ASSUME TypeInv, [Next]_vars, NEW p \in Proposed'
    PROVE  \/ p \in Proposed /\ SameBase(prop'[p], prop[p])
           \/ /\ p \notin Proposed
              /\ \E w \in Procs : pc[w] = "insert" /\ SameBase(prop'[p], req[w])
              /\ UNCHANGED <<live, lock, clock, commits>>
  <1>0. p \in Pids /\ prop'[p] # NoRow
    BY DEF Proposed
  <1>1. CASE prop' = prop
    BY <1>1 DEF Proposed, SameBase
  <1>2. ASSUME NEW w \in Procs, ReviseHead(w)
        PROVE  p \in Proposed /\ SameBase(prop'[p], prop[p])
    <2>1. PICK r : r = req[w]
      OBVIOUS
    <2>2. r.pid \in Proposed /\ r.pid \in Pids
      BY <1>2, <2>1, HeldType DEF ReviseHead, LocalOK, Proposed
    <2>3. p # r.pid => prop'[p] = prop[p]
      BY <1>0, <1>2, <2>1 DEF ReviseHead, TypeInv, TypeOK
    <2>4. p = r.pid => prop'[p] = [prop[p] EXCEPT !.state = r.state]
      BY <1>0, <1>2, <2>1 DEF ReviseHead, TypeInv, TypeOK
    <2>5. PICK q : q = prop[p]
      OBVIOUS
    <2>6. p = r.pid => q \in Proposal
      BY <2>2, <2>5 DEF TypeInv, TypeOK, Proposed
    <2>7. QED
      BY <1>0, <2>2, <2>3, <2>4, <2>5, <2>6 DEF SameBase, Proposal, Proposed
  <1>3. ASSUME NEW w \in Procs, WriteStatus(w)
        PROVE  p \in Proposed /\ SameBase(prop'[p], prop[p])
    <2>1. PICK r : r = req[w]
      OBVIOUS
    <2>2. r.pid \in Proposed /\ r.pid \in Pids
      BY <1>3, <2>1, HeldType DEF WriteStatus, LocalOK, Proposed
    <2>3. p # r.pid => prop'[p] = prop[p]
      BY <1>0, <1>3, <2>1 DEF WriteStatus, TypeInv, TypeOK
    <2>4. p = r.pid => prop'[p] = [prop[p] EXCEPT !.status = r.status, !.reviewer = Reviewer(r)]
      BY <1>0, <1>3, <2>1 DEF WriteStatus, TypeInv, TypeOK
    <2>5. PICK q : q = prop[p]
      OBVIOUS
    <2>6. p = r.pid => q \in Proposal
      BY <2>2, <2>5 DEF TypeInv, TypeOK, Proposed
    <2>7. QED
      BY <1>0, <2>2, <2>3, <2>4, <2>5, <2>6 DEF SameBase, Proposal, Proposed
  <1>4. ASSUME NEW w \in Procs, CreateInsert(w), p \notin Proposed
        PROVE  pc[w] = "insert" /\ SameBase(prop'[p], req[w])
    BY <1>0, <1>4 DEF CreateInsert, SameBase, TypeInv, TypeOK, Proposed
  <1>5. ASSUME NEW w \in Procs, CreateInsert(w), p \in Proposed PROVE prop'[p] = prop[p]
    BY <1>0, <1>5 DEF CreateInsert, TypeInv, TypeOK, Proposed
  <1>6. ASSUME NEW w \in Procs, CreateInsert(w) PROVE UNCHANGED <<live, lock, clock, commits>>
    BY <1>6 DEF CreateInsert
  <1>7. QED
    BY <1>1, <1>2, <1>3, <1>4, <1>5, <1>6, ProposalsTouched DEF SameBase

\* Proposals are never deleted.
LEMMA ProposalsGrow == ASSUME TypeInv, TypeInv', [Next]_vars PROVE Proposed \subseteq Proposed'
  <1>1. ASSUME NEW w \in Procs, CreateInsert(w) PROVE Proposed \subseteq Proposed'
    BY <1>1 DEF CreateInsert, TypeInv, TypeOK, Proposed
  <1>2. ASSUME NEW w \in Procs, ReviseHead(w) \/ WriteStatus(w) PROVE Proposed' = Proposed
    BY <1>2, ReviseHeadType, WriteStatusType
  <1>3. prop' = prop => Proposed' = Proposed
    BY DEF Proposed
  <1>4. QED
    BY <1>1, <1>2, <1>3, ProposalsTouched

-----------------------------------------------------------------------------
(* What an approval applies is made from what its proposal was made from *)

Copied == \A w \in Procs : pc[w] \in Applying => SameBase(req[w], prop[req[w].pid])

LEMMA CopiedNext == ASSUME TypeInv, TypeInv', Copied, [Next]_vars PROVE Copied'
  <1> SUFFICES ASSUME NEW w \in Procs, pc'[w] \in Applying
               PROVE  SameBase(req'[w], prop'[req'[w].pid])
    BY DEF Copied, SameBase
  <1>1. CASE pc'[w] = pc[w] /\ req'[w] = req[w]
    <2>1. PICK p : p = req[w].pid
      OBVIOUS
    <2>2. p \in Proposed /\ p \in Proposed'
      BY <1>1, <2>1, HeldType DEF LocalOK, Applying, TypeInv
    <2>3. SameBase(prop'[p], prop[p])
      BY <2>2, ProposalStep
    <2>4. SameBase(req[w], prop[p])
      BY <1>1, <2>1 DEF Copied
    <2>5. QED
      BY <1>1, <2>1, <2>3, <2>4 DEF SameBase
  <1>2. CASE Moves(w)
    <2>1. CASE ApproveRead(w)
      <3>1. PICK u \in Users, p \in Proposed : Continue(w, "count", Approval(u, p))
        BY <2>1 DEF ApproveRead
      <3>2. req'[w] = Approval(u, p) /\ prop' = prop
        BY <2>1, <3>1 DEF Continue, ApproveRead, tables, TypeInv, TypeOK
      <3>3. Approval(u, p).pid = p /\ SameBase(Approval(u, p), prop[p])
        BY DEF Approval, NoRequest, SameBase
      <3>4. QED
        BY <3>2, <3>3
    <2>2. CASE ApproveCount(w) \/ ApplyCheck(w)
      BY <2>2 DEF ApproveCount, ApplyCheck, Finish, Continue, tables, Copied, Applying,
         TypeInv, TypeOK
    <2>3. CASE ApplyWrite(w)
      BY <2>3 DEF ApplyWrite, Finish, Continue, Copied, Applying, TypeInv, TypeOK
    <2>4. QED
      BY <1>2, <2>1, <2>2, <2>3, HowItGotThere DEF Applying, TypeInv
  <1>3. QED
    BY <1>1, <1>2, StillOrMoves DEF TypeInv

-----------------------------------------------------------------------------
(* An approval that meets no other past the guard *)

\* Past the stale-base guard, in what is left of the apply transaction.
Landing == {"write", "commit"}

\* No two approvals are past the guard for the same entity.
AppliesApart ==
    \A v, w \in Procs : pc[v] \in Landing /\ pc[w] \in Landing /\ v # w =>
        req[v].target # req[w].target

\* A row is locked by the transaction that is about to commit it.
Locks == \A e \in Entities, w \in Procs : lock[e] = w => pc[w] = "commit" /\ req[w].target = e

\* No stamp is from the future.
Dated ==
    /\ \A e \in Entities : live[e] # NoRow => live[e].stamp <= clock
    /\ \A p \in Proposed : HasBase(prop[p]) => prop[p].baseStamp <= clock
    /\ \A w \in Procs : pc[w] = "insert" /\ HasBase(req[w]) => req[w].baseStamp <= clock

\* Past the guard the entity is still as old as what the proposal was made from, and
\* the transaction that will commit has its row.
Landed ==
    \A w \in Procs : pc[w] \in Landing /\ HasBase(req[w]) =>
        /\ EntityUpdatedAt(req[w].target) = req[w].baseStamp
        /\ pc[w] = "commit" => lock[req[w].target] = w

\* Once applied, a proposal has left its entity gone or newer than what it was made from,
\* which is what keeps it from being applied again.
Spent ==
    /\ \A p \in Pids \ Proposed : commits[p] = 0
    /\ \A p \in Proposed : HasBase(prop[p]) /\ commits[p] > 0 =>
          /\ commits[p] = 1
          /\ live[prop[p].target] # NoRow => live[prop[p].target].stamp > prop[p].baseStamp

OnceInv == Copied /\ Locks /\ Dated /\ Landed /\ Spent

LEMMA LocksNext == ASSUME TypeInv, Locks, [Next]_vars PROVE Locks'
  <1> SUFFICES ASSUME NEW e \in Entities, NEW v \in Procs, lock'[e] = v
               PROVE  pc'[v] = "commit" /\ req'[v].target = e
    BY DEF Locks
  <1>0. v # None
    BY NullsOK
  <1>1. CASE lock[e] = v /\ pc'[v] = pc[v] /\ req'[v] = req[v]
    BY <1>1 DEF Locks
  <1>2. CASE lock[e] = v /\ Moves(v)
    <2>1. pc[v] = "commit" /\ req[v].target = e
      BY <1>2 DEF Locks
    <2>2. ApplyCommit(v) \/ Abort(v)
      BY <1>2, <2>1 DEF Moves, Arrive, Proceed, CreateNew, CreateBranch, ReviseRead,
         TransitionRead, ApproveRead, CreateStamp, CreateInsert, CreateLink, ReviseNumber,
         ReviseInsert, ReviseHead, ApproveCount, ApplyCheck, ApplyWrite, WriteStatus,
         AppendAudit
    <2>3. lock'[e] = None
      BY <1>2, <2>1, <2>2 DEF ApplyCommit, Abort, Rollback, TypeInv, TypeOK
    <2>4. QED
      BY <1>0, <2>3
  <1>3. CASE lock[e] # v
    <2>1. ASSUME NEW w \in Procs, Arrive(w) PROVE lock' = lock
      BY <2>1 DEF Arrive, CreateNew, CreateBranch, ReviseRead, TransitionRead, ApproveRead, tables
    <2>2. ASSUME NEW w \in Procs, Proceed(w), ~ApplyWrite(w), ~ApplyCommit(w) PROVE lock' = lock
      BY <2>2 DEF Proceed, CreateStamp, CreateInsert, CreateLink, ReviseNumber, ReviseInsert,
         ReviseHead, ApproveCount, ApplyCheck, WriteStatus, AppendAudit, tables
    <2>3. ASSUME NEW w \in Procs, ApplyCommit(w) \/ Abort(w) PROVE FALSE
      BY <1>0, <1>3, <2>3 DEF ApplyCommit, Abort, Rollback, TypeInv, TypeOK
    <2>4. ASSUME NEW i \in Invites, AcceptInvite(i) PROVE lock' = lock
      BY <2>4 DEF AcceptInvite
    <2>5. PICK w \in Procs : ApplyWrite(w)
      BY <1>3, <2>1, <2>2, <2>3, <2>4 DEF Next, vars
    <2>6. w = v /\ e = req[w].target /\ Continue(w, "commit", req[w])
      BY <1>0, <1>3, <2>5 DEF ApplyWrite, TypeInv, TypeOK
    <2>7. QED
      BY <2>6 DEF Continue, TypeInv, TypeOK
  <1>4. QED
    BY <1>1, <1>2, <1>3, StillOrMoves DEF TypeInv

\* A lock is given back by its own transaction only.
LEMMA LockHeld ==
    ASSUME TypeInv, Locks, [Next]_vars, NEW v \in Procs, NEW e \in Entities, lock[e] = v,
           pc'[v] = pc[v]
    PROVE  lock'[e] = v
  <1>0. v # None /\ pc[v] = "commit"
    BY NullsOK DEF Locks
  <1>1. ASSUME NEW w \in Procs, Arrive(w) PROVE lock' = lock
    BY <1>1 DEF Arrive, CreateNew, CreateBranch, ReviseRead, TransitionRead, ApproveRead, tables
  <1>2. ASSUME NEW w \in Procs, Proceed(w), ~ApplyWrite(w), ~ApplyCommit(w) PROVE lock' = lock
    BY <1>2 DEF Proceed, CreateStamp, CreateInsert, CreateLink, ReviseNumber, ReviseInsert,
       ReviseHead, ApproveCount, ApplyCheck, WriteStatus, AppendAudit, tables
  <1>3. ASSUME NEW w \in Procs, ApplyWrite(w) PROVE lock'[e] = v
    BY <1>0, <1>3 DEF ApplyWrite, TypeInv, TypeOK
  <1>4. ASSUME NEW w \in Procs, ApplyCommit(w) PROVE lock'[e] = v
    <2>1. w # v
      BY <1>0, <1>4 DEF ApplyCommit, Continue, TypeInv, TypeOK
    <2>2. QED
      BY <1>4, <2>1 DEF ApplyCommit, TypeInv, TypeOK
  <1>5. ASSUME NEW w \in Procs, Abort(w) PROVE lock'[e] = v
    <2>1. w # v
      BY <1>0, <1>5 DEF Abort, Finish, Continue, TypeInv, TypeOK
    <2>2. QED
      BY <1>5, <2>1 DEF Abort, Rollback, TypeInv, TypeOK
  <1>6. ASSUME NEW i \in Invites, AcceptInvite(i) PROVE lock' = lock
    BY <1>6 DEF AcceptInvite
  <1>7. QED
    BY <1>1, <1>2, <1>3, <1>4, <1>5, <1>6 DEF Next, vars

\* A commit gives the entity it changes a stamp newer than any other, or deletes it.
LEMMA CommitStep ==
    ASSUME TypeInv, NEW w \in Procs, ApplyCommit(w)
    PROVE  /\ req[w].pid \in Proposed /\ req[w].target \in Entities /\ clock' >= clock
           /\ commits' = [commits EXCEPT ![req[w].pid] = @ + 1]
           /\ \A e \in Entities :
                 \/ live'[e] = live[e]
                 \/ /\ e = req[w].target
                    /\ live'[e] # NoRow => live'[e].stamp = clock + 1 /\ clock' = clock + 1
           /\ lock[req[w].target] = w =>
                 LET e == req[w].target
                 IN  live'[e] # NoRow => live'[e].stamp = clock + 1 /\ clock' = clock + 1
  <1>1. req[w].pid \in Proposed /\ req[w].target \in Entities
    BY HeldType DEF ApplyCommit, LocalOK
  <1>2. clock \in Nat /\ live \in [Entities -> Row \cup {NoRow}]
    BY DEF TypeInv, TypeOK
  <1>3. QED
    BY <1>1, <1>2 DEF ApplyCommit, Applied

LEMMA StampType == ASSUME TypeInv
                   PROVE  /\ clock \in Nat
                          /\ \A e \in Entities : live[e] # NoRow => live[e].stamp \in Nat
                          /\ \A p \in Proposed : /\ p \in Pids /\ prop[p].target \in Entities
                                                 /\ HasBase(prop[p]) => prop[p].baseStamp \in Nat
                          /\ \A w \in Procs : HasBase(req[w]) => req[w].baseStamp \in Nat
                          /\ \A p \in Pids : commits[p] \in Nat
  BY DEF TypeInv, TypeOK, Row, Proposal, Request, Proposed, HasBase

LEMMA DatedNext == ASSUME TypeInv, TypeInv', Dated, [Next]_vars PROVE Dated'
  <1>1. clock \in Nat /\ clock' \in Nat /\ clock' >= clock
    BY StampType, LiveStep, CommitStep DEF TypeInv, TypeOK
  <1>2. ASSUME NEW e \in Entities, live'[e] # NoRow PROVE live'[e].stamp <= clock'
    <2>1. CASE live'[e] = live[e]
      BY <1>1, <1>2, <2>1, StampType DEF Dated
    <2>2. CASE live'[e] # live[e]
      BY <1>1, <1>2, <2>2, LiveStep, CommitStep
    <2>3. QED
      BY <2>1, <2>2
  <1>3. ASSUME NEW p \in Proposed', HasBase(prop'[p]) PROVE prop'[p].baseStamp <= clock'
    <2>1. CASE p \in Proposed /\ SameBase(prop'[p], prop[p])
      <3>1. HasBase(prop[p]) /\ prop'[p].baseStamp = prop[p].baseStamp
        BY <1>3, <2>1 DEF SameBase, HasBase
      <3>2. QED
        BY <1>1, <2>1, <3>1, StampType DEF Dated
    <2>2. ASSUME NEW w \in Procs, pc[w] = "insert", SameBase(prop'[p], req[w])
          PROVE  prop'[p].baseStamp <= clock'
      <3>1. HasBase(req[w]) /\ prop'[p].baseStamp = req[w].baseStamp
        BY <1>3, <2>2 DEF SameBase, HasBase
      <3>2. QED
        BY <1>1, <2>2, <3>1, StampType DEF Dated
    <2>3. QED
      BY <2>1, <2>2, ProposalStep
  <1>4. ASSUME NEW w \in Procs, pc'[w] = "insert", HasBase(req'[w])
        PROVE  req'[w].baseStamp <= clock'
    <2>1. CASE pc'[w] = pc[w] /\ req'[w] = req[w]
      BY <1>1, <1>4, <2>1, StampType DEF Dated
    <2>2. CASE CreateNew(w)
      <3>1. PICK u, e, payload, status, invs :
               req'[w] = NewRequest(u, "create", e, NoRow, payload, status, invs)
        BY <2>2 DEF CreateNew, Continue, TypeInv, TypeOK
      <3>2. req'[w].op = "create"
        BY <3>1 DEF NewRequest, NoRequest
      <3>3. QED
        BY <1>4, <3>2 DEF HasBase
    <2>3. CASE CreateStamp(w)
      <3>1. req[w] \in Request /\ req[w].target \in Entities
        BY <2>3, HeldType DEF CreateStamp, LocalOK
      <3>2. req'[w] = [req[w] EXCEPT !.baseStamp = EntityUpdatedAt(req[w].target)]
        BY <2>3 DEF CreateStamp, Continue, TypeInv, TypeOK
      <3>3. req'[w].baseStamp = EntityUpdatedAt(req[w].target)
        BY <3>1, <3>2 DEF Request
      <3>4. QED
        BY <1>1, <1>4, <3>1, <3>3, StampType DEF Dated, HasBase, EntityUpdatedAt
    <2>4. QED
      BY <1>4, <2>1, <2>2, <2>3, StillOrMoves, HowItGotThere DEF TypeInv
  <1>5. QED
    BY <1>2, <1>3, <1>4 DEF Dated

\* Nobody else changes what an approval past the guard is about to overwrite.
LEMMA LandedNext ==
    ASSUME TypeInv, TypeInv', OnceInv, AppliesApart, [Next]_vars PROVE Landed'
  <1> SUFFICES ASSUME NEW v \in Procs, pc'[v] \in Landing, HasBase(req'[v])
               PROVE  /\ EntityUpdatedAt(req[v].target)' = req'[v].baseStamp
                      /\ pc'[v] = "commit" => lock'[req'[v].target] = v
    BY DEF Landed, HasBase
  <1>1. CASE pc'[v] = pc[v] /\ req'[v] = req[v]
    <2>1. PICK e : e = req[v].target
      OBVIOUS
    <2>2. e \in Entities
      BY <1>1, <2>1, HeldType DEF LocalOK, Landing
    <2>3. EntityUpdatedAt(e) = req[v].baseStamp /\ (pc[v] = "commit" => lock[e] = v)
      BY <1>1, <2>1 DEF OnceInv, Landed
    <2>4. ASSUME NEW w \in Procs, ApplyCommit(w) PROVE live'[e] = live[e]
      <3>1. w # v
        BY <1>1, <2>4 DEF ApplyCommit, Continue, TypeInv, TypeOK
      <3>2. req[w].target # e
        BY <1>1, <2>1, <2>4, <3>1 DEF AppliesApart, ApplyCommit, Landing
      <3>3. QED
        BY <2>2, <2>4, <3>2, CommitStep
    <2>5. live'[e] = live[e]
      BY <2>4, LiveStep
    <2>6. pc[v] = "commit" => lock'[e] = v
      BY <1>1, <2>2, <2>3, LockHeld DEF OnceInv
    <2>7. QED
      BY <1>1, <2>1, <2>3, <2>5, <2>6 DEF EntityUpdatedAt
  <1>2. CASE ApplyCheck(v)
    <2>1. req'[v] = req[v] /\ ~StaleBase(req[v]) /\ live' = live /\ pc'[v] = "write"
      BY <1>2 DEF ApplyCheck, Finish, Continue, tables, Landing, TypeInv, TypeOK
    <2>2. QED
      BY <2>1 DEF StaleBase, HasBase, EntityUpdatedAt
  <1>3. CASE ApplyWrite(v)
    <2>1. req'[v] = req[v] /\ live' = live /\ pc'[v] = "commit" /\ pc[v] = "write"
      BY <1>3 DEF ApplyWrite, Finish, Continue, Landing, TypeInv, TypeOK
    <2>2. lock' = [lock EXCEPT ![req[v].target] = IF Matches(req[v]) THEN v ELSE None]
      BY <1>3, <2>1 DEF ApplyWrite, Finish, Continue, TypeInv, TypeOK
    <2>3. EntityUpdatedAt(req[v].target) = req[v].baseStamp /\ HasBase(req[v])
      BY <2>1 DEF OnceInv, Landed, Landing, HasBase
    <2>4. Matches(req[v]) /\ req[v].target \in Entities
      BY <2>1, <2>3, HeldType DEF HasBase, EntityUpdatedAt, Matches, LocalOK
    <2>5. lock'[req[v].target] = v
      BY <2>2, <2>4 DEF TypeInv, TypeOK
    <2>6. QED
      BY <2>1, <2>3, <2>5 DEF EntityUpdatedAt
  <1>4. QED
    BY <1>1, <1>2, <1>3, StillOrMoves, HowItGotThere DEF Landing, TypeInv

\* A second approval of an applied proposal does not get past the guard.
LEMMA CommitIsFirst ==
    ASSUME TypeInv, OnceInv, NEW w \in Procs, ApplyCommit(w), HasBase(prop[req[w].pid])
    PROVE  commits[req[w].pid] = 0 /\ lock[req[w].target] = w
           /\ req[w].target = prop[req[w].pid].target
  <1>1. PICK p : p = req[w].pid
    OBVIOUS
  <1>2. p \in Proposed /\ p \in Pids /\ commits[p] \in Nat
    BY <1>1, CommitStep, StampType
  <1>3. SameBase(req[w], prop[p]) /\ pc[w] = "commit"
    BY <1>1 DEF OnceInv, Copied, ApplyCommit, Applying
  <1>4. HasBase(req[w]) /\ HasBase(prop[p])
    BY <1>1, <1>3 DEF SameBase, HasBase
  <1>5. EntityUpdatedAt(req[w].target) = req[w].baseStamp /\ lock[req[w].target] = w
    BY <1>3, <1>4 DEF OnceInv, Landed, Landing
  <1>6. live[prop[p].target] # NoRow /\ live[prop[p].target].stamp = prop[p].baseStamp
    BY <1>3, <1>4, <1>5 DEF EntityUpdatedAt, SameBase, HasBase
  <1>7. ~(commits[p] > 0)
    BY <1>2, <1>4, <1>6, StampType DEF OnceInv, Spent
  <1>8. QED
    BY <1>1, <1>2, <1>3, <1>5, <1>7 DEF SameBase

LEMMA SpentNext == ASSUME TypeInv, TypeInv', OnceInv, [Next]_vars PROVE Spent'
  <1>1. ASSUME NEW p \in Pids, p \notin Proposed' PROVE commits'[p] = 0
    <2>1. p \notin Proposed
      <3>1. Proposed \subseteq Proposed'
        BY ProposalsGrow
      <3>2. QED
        BY <1>1, <3>1
    <2>2. commits[p] = 0
      BY <2>1 DEF OnceInv, Spent
    <2>3. ASSUME NEW w \in Procs, ApplyCommit(w) PROVE commits'[p] = commits[p]
      BY <2>1, <2>3, CommitStep DEF TypeInv, TypeOK
    <2>4. QED
      BY <2>2, <2>3, LiveStep
  <1>2. ASSUME NEW p \in Proposed', HasBase(prop'[p]), commits'[p] > 0
        PROVE  /\ commits'[p] = 1
               /\ live'[prop'[p].target] # NoRow =>
                      live'[prop'[p].target].stamp > prop'[p].baseStamp
    <2>1. CASE p \notin Proposed
      <3>1. commits'[p] = commits[p] /\ p \in Pids
        BY <2>1, ProposalStep DEF Proposed
      <3>2. commits[p] = 0
        BY <2>1, <3>1 DEF OnceInv, Spent
      <3>3. QED
        BY <1>2, <3>1, <3>2
    <2>2. CASE p \in Proposed
      <3>1. SameBase(prop'[p], prop[p])
        BY <2>2, ProposalStep
      <3>2. PICK e, s : e = prop[p].target /\ s = prop[p].baseStamp
        OBVIOUS
      <3>3. prop'[p].target = e /\ prop'[p].baseStamp = s /\ HasBase(prop[p])
        BY <1>2, <3>1, <3>2 DEF SameBase, HasBase
      <3>4. e \in Entities /\ s \in Nat /\ s <= clock /\ clock \in Nat /\ p \in Pids
            /\ commits[p] \in Nat
        BY <2>2, <3>2, <3>3, StampType DEF OnceInv, Dated
      <3>5. commits[p] > 0 => commits[p] = 1 /\ (live[e] # NoRow => live[e].stamp > s)
        BY <2>2, <3>2, <3>3 DEF OnceInv, Spent
      <3>6. CASE UNCHANGED <<live, clock, commits>>
        BY <1>2, <3>3, <3>5, <3>6
      <3>7. ASSUME NEW w \in Procs, ApplyCommit(w)
            PROVE  commits'[p] = 1 /\ (live'[e] # NoRow => live'[e].stamp > s)
        <4>1. CASE req[w].pid = p
          <5>1. commits[p] = 0 /\ lock[e] = w /\ req[w].target = e
            BY <3>2, <3>3, <3>7, <4>1, CommitIsFirst
          <5>2. commits'[p] = 1
            BY <3>4, <3>7, <4>1, <5>1, CommitStep DEF TypeInv, TypeOK
          <5>3. live'[e] # NoRow => live'[e].stamp = clock + 1
            BY <3>7, <5>1, CommitStep
          <5>4. QED
            BY <3>4, <5>2, <5>3
        <4>2. CASE req[w].pid # p
          <5>1. commits'[p] = commits[p]
            BY <3>4, <3>7, <4>2, CommitStep DEF TypeInv, TypeOK
          <5>2. live'[e] = live[e] \/ (live'[e] # NoRow => live'[e].stamp = clock + 1)
            BY <3>4, <3>7, CommitStep
          <5>3. QED
            BY <1>2, <3>4, <3>5, <5>1, <5>2
        <4>3. QED
          BY <4>1, <4>2
      <3>8. QED
        BY <3>3, <3>6, <3>7, LiveStep
    <2>3. QED
      BY <2>1, <2>2
  <1>3. QED
    BY <1>1, <1>2 DEF Spent

LEMMA InitOnce == Init => OnceInv
  <1> SUFFICES ASSUME Init PROVE OnceInv
    OBVIOUS
  <1>1. Proposed = {}
    BY DEF Init, Proposed
  <1>2. \A w \in Procs : pc[w] = "idle"
    BY DEF Init
  <1>3. Locks
    BY NullsOK DEF Init, Locks
  <1>4. \A e \in Entities : live[e] # NoRow => live[e].stamp <= clock
    BY DEF Init
  <1>5. Spent
    BY <1>1 DEF Spent, Init
  <1>6. QED
    BY <1>1, <1>2, <1>3, <1>4, <1>5 DEF OnceInv, Copied, Dated, Landed, Applying, Landing

LEMMA OnceNext == Inv /\ Inv' /\ OnceInv /\ AppliesApart /\ [Next]_vars => OnceInv'
  BY CopiedNext, LocksNext, DatedNext, LandedNext, SpentNext DEF Inv, OnceInv

LEMMA OnceCorrect == Spec /\ []AppliesApart => []OnceInv
  <1>1. QED
    BY InitOnce, OnceNext, InvCorrect, PTL DEF Spec

LEMMA OnceIsOnce == TypeInv /\ OnceInv => GuardedAppliesOnce
  BY StampType DEF OnceInv, Spent, GuardedAppliesOnce

\* A proposal made from a known state of its entity goes live at most once as long as no
\* two approvals are past the stale-base guard for one entity: the guard is what keeps an
\* applied proposal that is submitted again from being applied again, whatever else overlaps.
THEOREM GuardedOnceApart == Spec /\ []AppliesApart => []GuardedAppliesOnce
  <1>1. Inv => TypeInv
    BY DEF Inv
  <1>2. QED
    BY <1>1, OnceCorrect, OnceIsOnce, InvCorrect, PTL

-----------------------------------------------------------------------------
(* ... nor is made while one is being decided on *)

\* No entity is changed between the two reads of a request that branches from it: its
\* state and, in a statement of its own, its updated_at.
SnapshotsApart ==
    \A v, w \in Procs : pc[v] = "stamp" /\ pc[w] = "commit" => req[v].target # req[w].target

\* While an entity is as old as its copy, the copy is what it holds.
AsRead(r) ==
    HasBase(r) /\ live[r.target] # NoRow /\ live[r.target].stamp = r.baseStamp =>
        live[r.target].state = r.base

BaseInv ==
    /\ \A w \in Procs : pc[w] = "stamp" => req[w].base = SnapshotEntity(req[w].target)
    /\ \A w \in Procs : pc[w] = "insert" => AsRead(req[w])
    /\ \A p \in Proposed : AsRead(prop[p])

\* A commit makes the entity newer than every copy of it.
LEMMA AsReadKept ==
    ASSUME TypeInv, [Next]_vars, NEW r, r.target \in Entities,
           HasBase(r) => r.baseStamp \in Nat /\ r.baseStamp <= clock,
           AsRead(r)
    PROVE  AsRead(r)'
  <1>1. CASE live'[r.target] = live[r.target]
    BY <1>1 DEF AsRead, HasBase
  <1>2. ASSUME live'[r.target] # live[r.target], live'[r.target] # NoRow
        PROVE  live'[r.target].stamp = clock + 1 /\ clock \in Nat
    BY <1>2, LiveStep, CommitStep, StampType
  <1>3. QED
    BY <1>1, <1>2 DEF AsRead, HasBase

LEMMA BaseNext ==
    ASSUME TypeInv, TypeInv', OnceInv, BaseInv, SnapshotsApart, [Next]_vars PROVE BaseInv'
  <1>1. ASSUME NEW v \in Procs, pc'[v] = "stamp"
        PROVE  req'[v].base = SnapshotEntity(req[v].target)'
    <2>1. CASE pc'[v] = pc[v] /\ req'[v] = req[v]
      <3>1. PICK e : e = req[v].target
        OBVIOUS
      <3>2. e \in Entities /\ req[v].base = SnapshotEntity(e)
        BY <1>1, <2>1, <3>1, HeldType DEF LocalOK, BaseInv
      <3>3. ASSUME NEW w \in Procs, ApplyCommit(w) PROVE live'[e] = live[e]
        BY <1>1, <2>1, <3>1, <3>2, <3>3, CommitStep DEF SnapshotsApart, ApplyCommit
      <3>4. live'[e] = live[e]
        BY <3>3, LiveStep
      <3>5. QED
        BY <2>1, <3>1, <3>2, <3>4 DEF SnapshotEntity
    <2>2. CASE CreateBranch(v)
      <3>1. PICK u, op, e, payload, status, invs :
               Continue(v, "stamp", NewRequest(u, op, e, SnapshotEntity(e), payload, status, invs))
        BY <2>2 DEF CreateBranch
      <3>2. PICK r : r = NewRequest(u, op, e, SnapshotEntity(e), payload, status, invs)
        OBVIOUS
      <3>3. req'[v] = r /\ live' = live
        BY <2>2, <3>1, <3>2 DEF Continue, CreateBranch, tables, TypeInv, TypeOK
      <3>4. r.target = e /\ r.base = SnapshotEntity(e)
        BY <3>2 DEF NewRequest, NoRequest
      <3>5. QED
        BY <3>3, <3>4 DEF SnapshotEntity
    <2>3. QED
      BY <1>1, <2>1, <2>2, StillOrMoves, HowItGotThere DEF TypeInv
  <1>2. ASSUME NEW v \in Procs, pc'[v] = "insert" PROVE AsRead(req[v])'
    <2>1. CASE pc'[v] = pc[v] /\ req'[v] = req[v]
      <3>1. PICK r : r = req[v]
        OBVIOUS
      <3>2. r.target \in Entities /\ AsRead(r)
        BY <1>2, <2>1, <3>1, HeldType DEF LocalOK, BaseInv
      <3>3. HasBase(r) => r.baseStamp \in Nat /\ r.baseStamp <= clock
        BY <1>2, <2>1, <3>1, StampType DEF OnceInv, Dated
      <3>4. AsRead(r)'
        BY <3>2, <3>3, AsReadKept
      <3>5. QED
        BY <2>1, <3>1, <3>4 DEF AsRead, HasBase
    <2>2. CASE CreateNew(v)
      <3>1. PICK u, e, payload, status, invs :
               req'[v] = NewRequest(u, "create", e, NoRow, payload, status, invs)
        BY <2>2 DEF CreateNew, Continue, TypeInv, TypeOK
      <3>2. req'[v].op = "create"
        BY <3>1 DEF NewRequest, NoRequest
      <3>3. QED
        BY <3>2 DEF AsRead, HasBase
    <2>3. CASE CreateStamp(v)
      <3>1. PICK r, e : r = req[v] /\ e = r.target
        OBVIOUS
      <3>2. r \in Request /\ r.base = SnapshotEntity(e) /\ live' = live
        BY <2>3, <3>1, HeldType DEF CreateStamp, BaseInv, tables
      <3>3. req'[v] = [r EXCEPT !.baseStamp = EntityUpdatedAt(e)]
        BY <2>3, <3>1 DEF CreateStamp, Continue, TypeInv, TypeOK
      <3>4. req'[v].baseStamp = EntityUpdatedAt(e) /\ req'[v].base = r.base
            /\ req'[v].target = e
        BY <3>1, <3>2, <3>3 DEF Request
      <3>5. QED
        BY <3>2, <3>4 DEF AsRead, HasBase, EntityUpdatedAt, SnapshotEntity
    <2>4. QED
      BY <1>2, <2>1, <2>2, <2>3, StillOrMoves, HowItGotThere DEF TypeInv
  <1>3. ASSUME NEW p \in Proposed' PROVE AsRead(prop[p])'
    <2>1. CASE p \in Proposed /\ SameBase(prop'[p], prop[p])
      <3>1. PICK q : q = prop[p]
        OBVIOUS
      <3>2. q.target \in Entities /\ AsRead(q)
            /\ (HasBase(q) => q.baseStamp \in Nat /\ q.baseStamp <= clock)
        BY <2>1, <3>1, StampType DEF BaseInv, OnceInv, Dated
      <3>3. AsRead(q)'
        BY <3>2, AsReadKept
      <3>4. QED
        BY <2>1, <3>1, <3>3 DEF SameBase, AsRead, HasBase
    <2>2. ASSUME NEW w \in Procs, pc[w] = "insert", SameBase(prop'[p], req[w]), live' = live
          PROVE  AsRead(prop[p])'
      <3>1. AsRead(req[w])
        BY <2>2 DEF BaseInv
      <3>2. QED
        BY <2>2, <3>1 DEF AsRead, HasBase, SameBase
    <2>3. QED
      BY <2>1, <2>2, ProposalStep
  <1>4. QED
    BY <1>1, <1>2, <1>3 DEF BaseInv

LEMMA InitBase == Init => BaseInv
  BY DEF Init, BaseInv, Proposed

\* What an approval is about to overwrite is what its proposal was made from.
Overwrites(w) == pc[w] = "commit" /\ HasBase(req[w]) => live[req[w].target].state = req[w].base

LEMMA OverwritesKnown == ASSUME TypeInv, OnceInv, BaseInv, NEW w \in Procs PROVE Overwrites(w)
  <1> SUFFICES ASSUME pc[w] = "commit", HasBase(req[w])
               PROVE  live[req[w].target].state = req[w].base
    BY DEF Overwrites
  <1>1. req[w].pid \in Proposed
    BY HeldType DEF LocalOK
  <1>2. SameBase(req[w], prop[req[w].pid]) /\ AsRead(prop[req[w].pid])
    BY <1>1 DEF OnceInv, Copied, Applying, BaseInv
  <1>3. EntityUpdatedAt(req[w].target) = req[w].baseStamp
    BY DEF OnceInv, Landed, Landing
  <1>4. QED
    BY <1>2, <1>3 DEF AsRead, HasBase, SameBase, EntityUpdatedAt

\* The stale-base guard does its work: no approval overwrites a change made to its entity
\* after the proposal was made from it, as long as no two approvals are past the guard for
\* one entity and no entity is changed between the two reads a branching request makes.
THEOREM OverwriteApart ==
    Spec /\ []AppliesApart /\ []SnapshotsApart => NoSilentOverwrite
  <1>1. Inv /\ OnceInv /\ BaseInv /\ SnapshotsApart /\ Inv' /\ [Next]_vars => BaseInv'
    BY BaseNext DEF Inv
  <1>2. Inv /\ OnceInv /\ BaseInv
            => \A w \in Procs : LET e == req[w].target IN
                  Commits(w) /\ HasBase(req[w]) /\ lock[e] = w =>
                      \/ live[e].state = req[w].base
                      \/ live'[e] # NoRow /\ live'[e].state = live[e].state
    BY OverwritesKnown DEF Inv, Overwrites, Commits
  <1>3. QED
    BY <1>1, <1>2, InitBase, OnceCorrect, InvCorrect, PTL DEF Spec, NoSilentOverwrite

-----------------------------------------------------------------------------
(* What an approval applies is the head, and its invites are accepted *)

\* No revision is saved while an approval of the same proposal is under way.
HeadsApart ==
    \A v, w \in Procs : pc[v] = "head" /\ pc[w] \in Applying => req[v].pid # req[w].pid

Heads == \A w \in Procs : pc[w] \in Applying => req[w].state = prop[req[w].pid].state

LEMMA HeadsNext == ASSUME TypeInv, TypeInv', Heads, HeadsApart, [Next]_vars PROVE Heads'
  <1> SUFFICES ASSUME NEW w \in Procs, pc'[w] \in Applying
               PROVE  req'[w].state = prop'[req'[w].pid].state
    BY DEF Heads
  <1>1. CASE pc'[w] = pc[w] /\ req'[w] = req[w]
    <2>1. PICK p : p = req[w].pid
      OBVIOUS
    <2>2. p \in Proposed /\ p \in Pids /\ req[w].state = prop[p].state
      BY <1>1, <2>1, HeldType DEF LocalOK, Applying, Heads, Proposed
    <2>3. ASSUME NEW v \in Procs, ReviseHead(v) PROVE prop'[p] = prop[p]
      <3>1. req[v].pid # p
        BY <1>1, <2>1, <2>3 DEF HeadsApart, ReviseHead
      <3>2. QED
        BY <2>2, <2>3, <3>1 DEF ReviseHead, TypeInv, TypeOK
    <2>4. ASSUME NEW v \in Procs, WriteStatus(v) PROVE prop'[p].state = prop[p].state
      BY <2>2, <2>4, WriteStatusType
    <2>5. ASSUME NEW v \in Procs, CreateInsert(v) PROVE prop'[p] = prop[p]
      BY <2>2, <2>5 DEF CreateInsert, TypeInv, TypeOK
    <2>6. prop' = prop \/ \E v \in Procs : CreateInsert(v) \/ ReviseHead(v) \/ WriteStatus(v)
      BY ProposalsTouched
    <2>7. QED
      BY <1>1, <2>1, <2>2, <2>3, <2>4, <2>5, <2>6
  <1>2. CASE ApproveRead(w)
    <2>1. PICK u \in Users, p \in Proposed : Continue(w, "count", Approval(u, p))
      BY <1>2 DEF ApproveRead
    <2>2. req'[w] = Approval(u, p) /\ prop' = prop
      BY <1>2, <2>1 DEF Continue, ApproveRead, tables, TypeInv, TypeOK
    <2>3. Approval(u, p).pid = p /\ Approval(u, p).state = prop[p].state
      BY DEF Approval, NoRequest
    <2>4. QED
      BY <2>2, <2>3
  <1>3. CASE ApproveCount(w) \/ ApplyCheck(w)
    BY <1>3 DEF ApproveCount, ApplyCheck, Finish, Continue, tables, Heads, Applying,
       TypeInv, TypeOK
  <1>4. CASE ApplyWrite(w)
    BY <1>4 DEF ApplyWrite, Finish, Continue, Heads, Applying, TypeInv, TypeOK
  <1>5. QED
    BY <1>1, <1>2, <1>3, <1>4, StillOrMoves, HowItGotThere DEF Applying, TypeInv

\* An approval that commits applies the head revision, as long as no revision of the
\* proposal is saved between the handler's read and its commit.
THEOREM HeadApart == Spec /\ []HeadsApart => AppliesHead
  <1>1. Init => Heads
    BY DEF Init, Heads, Applying
  <1>2. Inv /\ Inv' /\ Heads /\ HeadsApart /\ [Next]_vars => Heads'
    BY HeadsNext DEF Inv
  <1>3. Heads => \A w \in Procs : Commits(w) => req[w].state = prop[req[w].pid].state
    BY DEF Heads, Commits, Applying
  <1>4. QED
    BY <1>1, <1>2, <1>3, InvCorrect, PTL DEF Spec, AppliesHead

\* No invite is linked to a proposal while an approval that has counted them is under way.
Counted == {"check", "write", "commit"}

LinksApart ==
    \A v, w \in Procs : pc[v] = "link" /\ pc[w] \in Counted => req[v].pid # req[w].pid

Gated == \A w \in Procs : pc[w] \in Counted => links[req[w].pid] \subseteq accepted

LEMMA LinkStep ==
    ASSUME TypeInv, [Next]_vars, NEW p \in Pids
    PROVE  /\ accepted \subseteq accepted'
           /\ links'[p] = links[p] \/ \E v \in Procs : pc[v] = "link" /\ req[v].pid = p
  <1>1. ASSUME NEW v \in Procs, CreateLink(v)
        PROVE  links'[p] = links[p] \/ (pc[v] = "link" /\ req[v].pid = p)
    BY <1>1 DEF CreateLink, TypeInv, TypeOK
  <1>2. ASSUME NEW v \in Procs, Arrive(v) PROVE UNCHANGED <<links, accepted>>
    BY <1>2 DEF Arrive, CreateNew, CreateBranch, ReviseRead, TransitionRead, ApproveRead, tables
  <1>3. ASSUME NEW v \in Procs, Proceed(v)
        PROVE  accepted' = accepted /\ (links' = links \/ CreateLink(v))
    BY <1>3 DEF Proceed, CreateStamp, CreateInsert, CreateLink, ReviseNumber, ReviseInsert,
       ReviseHead, ApproveCount, ApplyCheck, ApplyWrite, ApplyCommit, WriteStatus,
       AppendAudit, tables
  <1>4. ASSUME NEW i \in Invites, AcceptInvite(i)
        PROVE  links' = links /\ accepted \subseteq accepted'
    BY <1>4 DEF AcceptInvite
  <1>5. QED
    BY <1>1, <1>2, <1>3, <1>4 DEF Next, Abort, vars

LEMMA GatedNext == ASSUME TypeInv, Gated, LinksApart, [Next]_vars PROVE Gated'
  <1> SUFFICES ASSUME NEW w \in Procs, pc'[w] \in Counted
               PROVE  links'[req'[w].pid] \subseteq accepted'
    BY DEF Gated
  <1>1. CASE pc'[w] = pc[w] /\ req'[w] = req[w]
    <2>1. PICK p : p = req[w].pid
      OBVIOUS
    <2>2. p \in Pids /\ links[p] \subseteq accepted
      BY <1>1, <2>1, HeldType DEF LocalOK, Counted, Gated, Proposed
    <2>3. accepted \subseteq accepted' /\ links'[p] = links[p]
      BY <1>1, <2>1, <2>2, LinkStep DEF LinksApart
    <2>4. QED
      BY <1>1, <2>1, <2>2, <2>3
  <1>2. CASE ApproveCount(w)
    BY <1>2 DEF ApproveCount, AllInvitesAccepted, Finish, Continue, tables, Counted,
       TypeInv, TypeOK
  <1>3. CASE ApplyCheck(w)
    BY <1>3 DEF ApplyCheck, Finish, Continue, tables, Gated, Counted, TypeInv, TypeOK
  <1>4. CASE ApplyWrite(w)
    BY <1>4 DEF ApplyWrite, Finish, Continue, Gated, Counted, TypeInv, TypeOK
  <1>5. QED
    BY <1>1, <1>2, <1>3, <1>4, StillOrMoves, HowItGotThere DEF Counted, TypeInv

\* No approval commits with a linked invite unaccepted, as long as no invite is linked to
\* the proposal after the approval counted them.
THEOREM GateApart == Spec /\ []LinksApart => InvitesGateApply
  <1>1. Init => Gated
    BY DEF Init, Gated, Counted
  <1>2. Inv /\ Gated /\ LinksApart /\ [Next]_vars => Gated'
    BY GatedNext DEF Inv
  <1>3. Gated => \A w \in Procs : Commits(w) => links[req[w].pid] \subseteq accepted
    BY DEF Gated, Commits, Counted
  <1>4. QED
    BY <1>1, <1>2, <1>3, InvCorrect, PTL DEF Spec, InvitesGateApply

-----------------------------------------------------------------------------
(* One request at a time *)

OneAtATime == \A v, w \in Procs : pc[v] # "idle" /\ pc[w] # "idle" => v = w

\* Requests that do not overlap keep all four apart.
THEOREM OneAtATimeIsEnough ==
    Spec /\ []OneAtATime =>
        []GuardedAppliesOnce /\ NoSilentOverwrite /\ AppliesHead /\ InvitesGateApply
  <1>1. OneAtATime => AppliesApart
    BY DEF OneAtATime, AppliesApart, Landing
  <1>2. OneAtATime => SnapshotsApart
    BY DEF OneAtATime, SnapshotsApart
  <1>3. OneAtATime => HeadsApart
    BY DEF OneAtATime, HeadsApart, Applying
  <1>4. OneAtATime => LinksApart
    BY DEF OneAtATime, LinksApart, Counted
  <1>5. QED
    BY <1>1, <1>2, <1>3, <1>4, GuardedOnceApart, OverwriteApart, HeadApart, GateApart, PTL

\* A server with one handler, the instance TLC explores, keeps all four, whatever the
\* order of its requests and wherever they are cut off.
THEOREM OneHandlerIsEnough ==
    (\E w \in Procs : Procs = {w}) /\ Spec =>
        []GuardedAppliesOnce /\ NoSilentOverwrite /\ AppliesHead /\ InvitesGateApply
  <1> SUFFICES ASSUME \E w \in Procs : Procs = {w}
               PROVE  Spec => /\ []GuardedAppliesOnce /\ NoSilentOverwrite
                              /\ AppliesHead /\ InvitesGateApply
    OBVIOUS
  <1>1. OneAtATime
    BY DEF OneAtATime
  <1>2. Spec => []OneAtATime
    BY <1>1, PTL
  <1>3. QED
    BY <1>2, OneAtATimeIsEnough, PTL
=============================================================================
