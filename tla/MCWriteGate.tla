---------------------------- MODULE MCWriteGate ----------------------------
(* Small instances of WriteGate: two agents, each with a call on one file. *)
EXTENDS WriteGate, TLC

CONSTANTS sA, sB, A, B, c1, c2, w1

OneTarget == {<<"f">>}

OneSessionEach == (sA :> A) @@ (sB :> B)

(* One call of each agent, both on the one file. *)
Rivals ==
    LET ask(s) == [session |-> s, worktree |-> w1, path |-> <<"f">>]
    IN  (c1 :> ask(sA)) @@ (c2 :> ask(sB))

(* The last transaction's events feed only the history field. *)
WithoutAudit == <<locks, path_epochs, calls, claims, probe, now, snapshot, hook>>
=============================================================================
