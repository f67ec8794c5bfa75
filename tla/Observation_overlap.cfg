SPECIFICATION Spec
CHECK_DEADLOCK FALSE
SYMMETRY Symmetry
CONSTANTS
    NoOwner = NoOwner
    NoDigest = NoDigest
    NoTime = NoTime
    NoState = NoState
    Outside = Outside
    Files = {f1}
    Owners = {A, B}
    Calls = {c1, c2}
    Declares <- NoneDeclared
    Subagents = {}
    Digests <- Contents
    Committed = "d0"
    Results <- Edits
    TReport = 0
    InFlightMaxAge = 0
    TreeActedWindow = 1
    UndeliveredAge = 0
    RetentionMax = 1
    MaxHook = 0
    MaxTime = 1
    MaxWrites = 2
    MaxOutside = 1
    MaxDeaths = 1
    MaxEpoch = 1
INVARIANTS
    NamesTheWriter
    DriftIsUncovered
    ReportsAccounted
    HandedOnce
