SPECIFICATION Spec
CHECK_DEADLOCK FALSE
CONSTANTS
    NoBlob = NoBlob
    NoRun = NoRun
    NoCandidate = NoCandidate
    Dir = Dir
    tracked = tracked
    created = created
    k1 = k1
    k2 = k2
    Runs = {r1}
    Paths = {tracked, created}
    Owners = {A}
    Candidates = {k1, k2}
    Blobs <- Bytes
    Beneath = {created}
    Base <- HeadTree
    Proposal <- Proposals
    Leaves <- Edits
    ApplyBatch = 1
    MaxCommits = 2
    MaxWrites = 2
    MaxHolds = 1
INVARIANT
    ReportIsTrue
PROPERTIES
    HeldBytesSurvive
    OnlyJudgedBytesLost
    FlockReturned
