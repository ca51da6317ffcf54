\* Two approvals of bundles at once.
SPECIFICATION Spec
CONSTANTS
    w1 = w1    w2 = w2
    Procs = {w1, w2}
    f1 = f1  s1 = s1  g1 = g1  g2 = g2  x1 = x1  c1 = c1  c2 = c2
    Entities = {f1, s1, g1, g2, x1, c1, c2}
    KindOf <- MCKind
    n1 = n1  n2 = n2
    Names = {n1, n2}
    CenterId <- MCCenterId
    InitialRow <- MCRow
    NamesOf <- MCNamesOf
    None = None
    MaxOps = 2
    MaxRequests = 2
SYMMETRY Symmetric
INVARIANTS TypeOK NoOrphansAlone
PROPERTIES DeadStayDead CentersKept CreateIsNew
\* The bound on requests may be used up.
CHECK_DEADLOCK FALSE
