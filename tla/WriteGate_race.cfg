SPECIFICATION GateSpec
CHECK_DEADLOCK FALSE
VIEW WithoutAudit
CONSTANTS
    NoWorktree = NoWorktree
    NoPath = NoPath
    AnyIntent = AnyIntent
    NoSnapshot = NoSnapshot
    sA = sA
    sB = sB
    A = A
    B = B
    c1 = c1
    c2 = c2
    w1 = w1
    Owners = {A, B}
    Sessions = {sA, sB}
    SessionOwner <- OneSessionEach
    Unwitnessed = {sB}
    Pidless = {sB}
    Worktrees = {w1}
    Targets <- OneTarget
    Request <- Rivals
    Intents = {i1}
    HookIntent = i1
    CallIds = {c1, c2}
    CandidateIds = {}
    Readers = {}
    TTLs = {1, 2}
    DegradedModeTTL = 2
    MaxLag = 1
    TReport = 2
    InFlightMaxAge = 3
    ReclaimGrace = 2
    MaxTime = 4
    MaxEpoch = 2
INVARIANTS
    CoveredWriterExcludes
