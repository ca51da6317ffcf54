\* One handler at a time: a parent, and a resource yet to be created.
SPECIFICATION Spec
CONSTANTS
    w1 = w1
    Procs = {w1}
    alice = alice  bob = bob  manager = manager
    Users = {alice, manager}
    Managers = {manager}
    s1 = s1
    Parents = {s1}
    x1 = x1
    Resources = {x1}
    home = home  away = away
    Names = {home, away}
    admin = admin
    Slots = {admin}
    r1 = r1
    Requests = {r1}
    i1 = i1
    Invites = {i1}
    d1 = d1
    Edits = {d1}
    Existing = {s1}
    InitialName <- MCName
    InitialRows <- MCRows
    FirstRow = 1
    None = None
    Gone = Gone
    MaxRows = 2
SYMMETRY Symmetric
INVARIANTS ResourceSlotSingle RequestFollowsRename
PROPERTIES ApprovedHolds
\* Every bound may be used up.
CHECK_DEADLOCK FALSE
