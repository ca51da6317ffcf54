\* Two imports or approvals at once, three in all, over two names and four ids; anything may fail.
CONSTANTS
    p1 = p1
    p2 = p2
    n1 = n1
    n2 = n2
    None = None
    NoID = NoID
    Procs = {p1, p2}
    Names = {n1, n2}
    MaxID = 4
    GenID <- Hashes
    Repos <- Trees
    MaxRequests = 3
    Faults = TRUE
SPECIFICATION Spec
INVARIANT MintedIsFree
 
\* Every request may be used up.
CHECK_DEADLOCK FALSE
