\* Two runs, over histories of up to four commits on two paths.
SPECIFICATION Spec
CONSTANTS
    Procs = {r1, r2}
    Paths = {p1, p2}
    MaxCommits = 4
    MaxRuns = 2
    Faults = TRUE
    None = None
SYMMETRY Symmetric
INVARIANTS HistoryReplayed RowsNameLast
\* People may stop committing, and every run may be over.
CHECK_DEADLOCK FALSE
