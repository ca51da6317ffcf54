\* Two approvals at once over three names.
SPECIFICATION Spec
CONSTANTS
    Procs = {p1, p2}
    n1 = n1  n2 = n2  n3 = n3
    Names = {n1, n2, n3}
    Referrers = {r1}
    Imported <- MCImported
    MaxRequests = 3
    None = None  NoParent = NoParent
INVARIANTS AcyclicAlone
PROPERTIES DeletedUnused WalkEnds
