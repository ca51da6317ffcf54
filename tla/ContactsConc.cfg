\* Two handlers at once around one parent.
SPECIFICATION Spec
CONSTANTS
    w1 = w1    w2 = w2
    Procs = {w1, w2}
    alice = alice  bob = bob  manager = manager
    Users = {alice, manager}
    Managers = {manager}
    s1 = s1
    Parents = {s1}
    Resources = {}
    home = home  away = away
    Names = {home, away}
    admin = admin
    Slots = {admin}
    r1 = r1
    Requests = {r1}
    i1 = i1
    Invites = {i1}
    d1 = d1
    Edits = {d1}
    Existing = {s1}
    InitialName <- MCName
    InitialRows <- MCRows
    FirstRow = 1
    None = None
    Gone = Gone
    MaxRows = 1
SYMMETRY Symmetric
INVARIANT DeciderEntitled
PROPERTIES DecidedIsHistory RequestsAreOffers InvitesAreOffers
\* Every bound may be used up.
CHECK_DEADLOCK FALSE
