\* One handler at a time; two proposals for one project.
SPECIFICATION Spec
CONSTANTS
    w1 = w1
    Procs = {w1}
    author = author  manager = manager
    Users = {manager}
    Managers = {manager}
    p1 = p1  p2 = p2
    Pids = {p1, p2}
    j1 = j1
    Entities = {j1}
    Guarded = {j1}
    Upserted = {j1}
    ResourceContacts <- MCContacts
    i1 = i1
    Invites = {i1}
    row = row  contacts = contacts
    Fields = {row, contacts}
    old = old  new = new
    Values = {old, new}
    Blank = old
    Payloads <- MCPayloads
    InitialState <- MCInitial
    Existing = {j1}
    NoRow = NoRow
    None = None
    Audited = {"approve"}
    MaxRevisions = 2
    MaxApplies = 2
SYMMETRY Symmetric
INVARIANTS AuditIsTrue GuardedAppliesOnce
   
