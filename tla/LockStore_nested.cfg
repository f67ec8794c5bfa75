SPECIFICATION Spec
CHECK_DEADLOCK FALSE
CONSTANTS
    NoWorktree = NoWorktree
    NoPath = NoPath
    AnyIntent = AnyIntent
    NoSnapshot = NoSnapshot
    sA = sA
    sA2 = sA2
    sB = sB
    A = A
    B = B
    Owners = {A, B}
    Sessions = {sA, sB}
    SessionOwner <- OneSessionEach
    Unwitnessed = {sB}
    Pidless = {sB}
    Worktrees = {w1}
    Targets <- NestedTargets
    Intents = {i1}
    CallIds = {c1}
    CandidateIds = {}
    Readers = {}
    TTLs = {1}
    DegradedModeTTL = 2
    MaxLag = 1
    TReport = 2
    InFlightMaxAge = 3
    ReclaimGrace = 2
    MaxTime = 4
    MaxEpoch = 2
INVARIANTS
    TypeOK
    Exclusive
PROPERTIES
    NoSilentDispossession
    LapsedLeaseIsRegranted
    OpenCallKeepsHold
