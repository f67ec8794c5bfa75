SPECIFICATION FairSpec
CHECK_DEADLOCK FALSE
CONSTANTS
    A = A
    B = B
    x = x
    y = y
    z = z
    Absent = Absent
    w1 = w1
    w2 = w2
    NoPusher = NoPusher
    Owners = {A}
    Contents = {x, y, z}
    Candidates = {1, 2}
    Paths <- FilePaths
    InitialTree <- FileTree
    Result <- RivalResult
    Author <- RivalAuthors
    CheckoutOf <- OneCheckout
    Checkouts = {w1}
    Pushers = {p, q}
    Mortal = {q}
    Unwitnessed = {}
    Misreading = {}
    Doctors = {d}
    MaxBatch = 2
    MaxEpoch = 1
PROPERTIES
    QueueDrains
    ResidueCleared
