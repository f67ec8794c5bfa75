--------------------------- MODULE MCObservation ---------------------------
(* Small instances of Observation: one file, two calls that may overlap.   *)
EXTENDS Observation, TLC

(* Bash calls: no path is declared. *)
NoneDeclared == [c \in Calls |-> {}]

(* Every write leaves a file: the committed bytes, or others. *)
Contents == {"d0", "d1"}
Edits == Contents \X {TRUE}

Symmetry == Permutations(Calls) \union Permutations(Owners)
=============================================================================
