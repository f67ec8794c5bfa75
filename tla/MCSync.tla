------------------------------- MODULE MCSync -------------------------------
(* An instance of Sync: a tracked file and one that candidates create.     *)
EXTENDS Sync

CONSTANTS tracked, created, k1, k2

(* HEAD has the tracked file only. *)
HeadTree == (tracked :> File("b0", FALSE)) @@ (created :> Nothing)

(* A candidate creates the second file; another edits the first. *)
Proposals == (k1 :> [path |-> created, object |-> File("b1", FALSE)])
          @@ (k2 :> [path |-> tracked, object |-> File("b1", FALSE)])

Bytes == {"b0", "b1"}

(* Other bytes, the same bytes with another mode, no file, a directory. *)
Edits == {File("b1", FALSE), File("b0", TRUE), Nothing, Other}
=============================================================================
