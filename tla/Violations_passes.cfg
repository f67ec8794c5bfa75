SPECIFICATION Spec
CHECK_DEADLOCK FALSE
SYMMETRY Symmetry
CONSTANTS
    Absent = Absent
    WorktreeLegacy = WorktreeLegacy
    NoPath = NoPath
    Paths = {p1}
    Worktrees = {w1, w2}
    Scans = {s1, s2}
    Contents <- Bytes
    Initial = "c0"
    MaxCommits = 2
    MaxRows = 3
    MaxWrites = 2
INVARIANT
    AcknowledgedStays
PROPERTIES
    ClearedByItsOwnCheckout
    RecordsWhatItSaw
