------------------------------ MODULE MCGitGate ------------------------------
(* Small instances of GitGate: candidates that fight over one file.        *)
EXTENDS GitGate, TLC

CONSTANTS A, B, x, y, z, w1, w2

File == <<"f">>
Other == <<"g">>

(* 1, 2 and 4 rewrite one file, 2 undoing what 1 does; 3 rewrites another. *)
RivalPaths == {File, Other}
RivalTree == (File :> x) @@ (Other :> x)
RivalResult == 1 :> (File :> y) @@ 2 :> (File :> x) @@ 3 :> (Other :> y)
                  @@ 4 :> (File :> z)
FilePaths == {File}
FileTree == File :> x
OneCheckout == [k \in Candidates |-> w1]
LinkedCheckouts == [k \in Candidates |-> IF k = 2 THEN w2 ELSE w1]
RivalAuthors == [k \in Candidates |-> IF k = 3 THEN B ELSE A]
==============================================================================
