---------------------------- MODULE MCViolations ----------------------------
(* Instances of Violations: one file in two checkouts, two passes.         *)
EXTENDS Violations, TLC

Bytes == {"c0", "c1"}

Symmetry == Permutations(Worktrees) \union Permutations(Scans)
=============================================================================
