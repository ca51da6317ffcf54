\* Two requests at once, with failing and crashing ones.
SPECIFICATION Spec
CONSTANTS
    p1 = p1  p2 = p2
    Procs = {p1, p2}
    a1 = a1  a2 = a2  a3 = a3
    Accounts = {a1, a2, a3}
    First = a1
    s1 = s1  s2 = s2
    Subjects = {s1, s2}
    e1 = e1  e2 = e2
    Ids = {e1, e2}
    Invites = {i1}
    Claims <- MCClaims
    DevSubject <- MCDev
    Imported = {e1}
    Production = FALSE
    Faults = TRUE
    MaxName = 2
    MaxRequests = 3
    None = None
SYMMETRY Symmetric
INVARIANTS LoginIsOwners RowsNameBearer InviteAttachesOnceCalm OneAccountPerPerson
PROPERTIES UsernameKept
