SPECIFICATION Spec
CHECK_DEADLOCK FALSE
SYMMETRY Symmetry
CONSTANTS
    Nil = Nil
    NoBead = NoBead
    b1 = b1
    b2 = b2
    Runs = {r1, r2}
    Beads = {b1, b2}
    Order <- BeadsById
    Paths = {p}
    Blobs = {v0, v1}
    Blob0 = v0
    MaxPromotions = 2
    MaxMoves = 2
    MaxFaults = 1
INVARIANT
    MarkerIsBranch
PROPERTIES
    PublishedOnlyGrows
    MergeRevertsNothing
