------------------------------ MODULE MCBridge ------------------------------
(* An instance of Bridge: two beads, in the order of their ids.            *)
EXTENDS Bridge

CONSTANTS b1, b2

BeadsById == <<b1, b2>>

Symmetry == Permutations(Runs)
=============================================================================
