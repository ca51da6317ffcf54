\* Two handlers at once, on one proposal for one guarded entity.
SPECIFICATION Spec
CONSTANTS
    w1 = w1  w2 = w2
    Procs = {w1, w2}
    author = author  manager = manager
    Users = {author, manager}
    Managers = {manager}
    p1 = p1
    Pids = {p1}
    e1 = e1
    Entities = {e1}
    Guarded = {e1}
    Upserted = {}
    ResourceContacts <- MCContacts
    Invites = {}
    row = row  contacts = contacts
    Fields = {row, contacts}
    old = old  new = new
    Values = {old, new}
    Blank = old
    Payloads <- MCPayloads
    InitialState <- MCInitial
    Existing = {e1}
    NoRow = NoRow
    None = None
    Audited = {}
    MaxRevisions = 3
    MaxApplies = 2
SYMMETRY Symmetric
INVARIANTS TypeOK RevisionLogOK LiveIsRecorded AppliedWasCommitted DecisionNamesDecider
PROPERTIES ImplementsRevisionLog
