SPECIFICATION Spec
CHECK_DEADLOCK FALSE
CONSTANTS
    NoWorktree = NoWorktree
    NoPath = NoPath
    AnyIntent = AnyIntent
    NoSnapshot = NoSnapshot
    sA = sA
    sA2 = sA2
    sB = sB
    A = A
    B = B
    Owners = {A, B}
    Sessions = {sA, sA2, sB}
    SessionOwner <- TwoSessionsOfA
    Unwitnessed = {sB}
    Pidless = {sB}
    Worktrees = {NoWorktree, w1}
    Targets <- OneTarget
    Intents = {i1}
    CallIds = {}
    CandidateIds = {k1}
    Readers = {rd}
    TTLs = {1}
    DegradedModeTTL = 1
    MaxLag = 0
    TReport = 2
    InFlightMaxAge = 4
    ReclaimGrace = 2
    MaxTime = 3
    MaxEpoch = 3
INVARIANTS
    Exclusive
    EpochsIdentify
    EpochNamesTenure
    ClaimExcludesPeerLease
