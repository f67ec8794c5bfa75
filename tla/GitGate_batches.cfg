SPECIFICATION Spec
CHECK_DEADLOCK FALSE
CONSTANTS
    A = A
    B = B
    x = x
    y = y
    z = z
    Absent = Absent
    w1 = w1
    w2 = w2
    NoPusher = NoPusher
    Owners = {A, B}
    Contents = {x, y, z}
    Candidates = {1, 2, 3}
    Paths <- RivalPaths
    InitialTree <- RivalTree
    Result <- RivalResult
    Author <- RivalAuthors
    CheckoutOf <- OneCheckout
    Checkouts = {w1}
    Pushers = {p, q}
    Mortal = {q}
    Unwitnessed = {}
    Misreading = {}
    Doctors = {}
    MaxBatch = 2
    MaxEpoch = 1
INVARIANTS
    TypeOK
    BatchesDisjoint
    PreimageCAS
    VerifiedIntegration
    LandedOnce
PROPERTIES
    LeavesResolved
    ImplementsIntegration
