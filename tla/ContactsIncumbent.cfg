\* Two requests against the same incumbent, one handler at a time.
SPECIFICATION Spec
CONSTANTS
    w1 = w1
    Procs = {w1}
    alice = alice  bob = bob  manager = manager
    Users = {alice, bob, manager}
    Managers = {manager}
    s1 = s1
    Parents = {s1}
    Resources = {}
    home = home  away = away
    Names = {home, away}
    admin = admin
    Slots = {admin}
    r1 = r1    r2 = r2
    Requests = {r1, r2}
    Invites = {}
    Edits = {}
    Existing = {s1}
    InitialName <- MCName
    InitialRows <- MCRows
    FirstRow = 1
    None = None
    Gone = Gone
    MaxRows = 3
PROPERTIES HandsOffOwnSlot
CHECK_DEADLOCK FALSE
