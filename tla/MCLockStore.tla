---------------------------- MODULE MCLockStore ----------------------------
(* Small instances of LockStore: two agents over nested paths, over linked *)
(* checkouts, and over candidate claims.                                   *)
EXTENDS LockStore, TLC

CONSTANTS sA, sA2, sB, A, B

(* A directory and a file beneath it. *)
NestedTargets == {<<"d">>, <<"d", "f">>}

(* One file, the same repo-relative path in every checkout. *)
OneTarget == {<<"f">>}

OneSessionEach == (sA :> A) @@ (sB :> B)

TwoSessionsOfA == (sA :> A) @@ (sA2 :> A) @@ (sB :> B)
=============================================================================
