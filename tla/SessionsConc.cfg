\* Two requests at once, an administrator and a user who may read contacts, in development.
SPECIFICATION Spec
CONSTANTS
    Procs = {p1, p2}
    u1 = u1  u2 = u2  t1 = t1  a1 = a1  l1 = l1
    Users = {u1, u2}
    First <- MCFirst
    Disabled = {}
    Tokens = {t1, t2}
    Before <- MCBefore
    Sent <- MCSent
    Addresses = {a1}
    Links = {l1, l2}
    Production = FALSE
    Faults = TRUE
    Asked = {"administrator", "manager"}
    MaxRequests = 3
    None = None
SYMMETRY Symmetric
INVARIANTS ServedIsEntitled LinksOpenOnce VerifiedByNewest
PROPERTIES GrantedByAdministrator
