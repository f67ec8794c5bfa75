SPECIFICATION Spec
CHECK_DEADLOCK FALSE
CONSTANTS
    A = A
    B = B
    x = x
    y = y
    z = z
    Absent = Absent
    w1 = w1
    w2 = w2
    NoPusher = NoPusher
    Owners = {A, B}
    Contents = {x, y, z}
    Candidates = {1, 2}
    Paths <- FilePaths
    InitialTree <- FileTree
    Result <- RivalResult
    Author <- RivalAuthors
    CheckoutOf <- LinkedCheckouts
    Checkouts = {w1, w2}
    Pushers = {p, q}
    Mortal = {q}
    Unwitnessed = {}
    Misreading = {p, q}
    Doctors = {d}
    MaxBatch = 2
    MaxEpoch = 2
INVARIANTS
    ClaimFencesPeers
PROPERTIES
    DoctorSparesAccepted
    ImplementsIntegration
