\* Two handlers on one downtime, decided by a contact of its resource; no symmetry.
SPECIFICATION FairSpec
CONSTANTS
    w1 = w1  w2 = w2
    Procs = {w1, w2}
    author = author  manager = manager
    Users = {author}
    Managers = {}
    p1 = p1
    Pids = {p1}
    d1 = d1
    Entities = {d1}
    Guarded = {}
    Upserted = {d1}
    ResourceContacts <- MCContacts
    Invites = {}
    row = row  contacts = contacts
    Fields = {row, contacts}
    old = old  new = new
    Values = {old, new}
    Blank = old
    Payloads <- MCPayloads
    InitialState <- MCInitial
    Existing = {d1}
    NoRow = NoRow
    None = None
    Audited = {}
    MaxRevisions = 2
    MaxApplies = 1
PROPERTIES RequestsFinish
