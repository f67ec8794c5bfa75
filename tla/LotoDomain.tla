----------------------------- MODULE LotoDomain -----------------------------
(***************************************************************************)
(* The pure rules every surface of loto decides by (internal/domain):      *)
(* when two targets overlap, when two checkouts are the same, when a hold  *)
(* is stale, and when a hold refuses a write.                              *)
(*                                                                         *)
(* A canonical repo-relative path is the sequence of its segments, so the  *)
(* repo root "." is <<>> and the "/"-suffixed prefix test of the code is   *)
(* the prefix order on sequences.  Keys are taken as already folded: the   *)
(* case-widening arm of SameTarget/PrefixCovers (EvalContext.CaseFold)     *)
(* only matters for rows an older binary wrote and is left out.            *)
(***************************************************************************)
EXTENDS Naturals, Sequences

LOCAL INSTANCE SequencesExt

CONSTANT NoWorktree     \* the unset LockRecord.Worktree, "" in the code

(* domain.Liveness, the probe's verdict on a hold's holder. *)
Liveness == {"alive", "dead", "unknown"}

PrefixOverlaps(a, b) == a = b \/ IsPrefix(a, b) \/ IsPrefix(b, a)

(* The target is the path itself or a directory above it. *)
CoversPath(target, path) == IsPrefix(target, path)

(* "" on either side means "unknown checkout" and widens the match. *)
SameWorktree(a, b) == a = NoWorktree \/ b = NoWorktree \/ a = b

(* Past its lease with no call of the holder in flight, or provably dead.  *)
(* Liveness only accelerates: an alive holder past its lease is stale.     *)
IsStale(at, expires, inFlight, verdict) ==
    \/ at >= expires /\ ~inFlight
    \/ verdict = "dead"

(* A hold is [actor, worktree, target, live]. *)
Covers(worktree, target, h) ==
    SameWorktree(worktree, h.worktree) /\ PrefixOverlaps(h.target, target)

(* Everyone who asks has an owner uuid here.  (`loto sync` asks for nobody *)
(* and is refused by every live hold: HoldRefuses of Sync.)                *)
Refuses(actor, worktree, target, h) ==
    h.actor # actor /\ h.live /\ Covers(worktree, target, h)
=============================================================================
