------------------------------ MODULE MCGuard ------------------------------
(* Three session processes, the third with the pid of the first; two git     *)
(* dirs, two branches, two commits.                                          *)
EXTENDS Guard, TLC

CONSTANTS p1, p2, p3, s1, s2, main, linked, b1, b2, o1, o2

MCProcs == {p1, p2, p3}
MCPid == p1 :> 1 @@ p2 :> 2 @@ p3 :> 1
MCTips == b1 :> o1 @@ b2 :> o2
MCShaky == {p2}
Sessions == Permutations(Sids)
============================================================================
