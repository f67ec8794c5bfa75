----------------------------- MODULE Violations -----------------------------
(***************************************************************************)
(* The contamination record: `loto violations` and the sensor pass inside  *)
(* `loto submit` (internal/cli/cmd_violations.go, cmd_submit.go) over      *)
(* gate.ScanWorktree (internal/gate/scan.go) and the violations table      *)
(* (internal/store/violations.go).  Checkouts share the table.  A pass     *)
(* reads git, the files, the locks and the table one after the other, and  *)
(* writes in two transactions, while everything it read goes on changing.  *)
(*                                                                         *)
(* Every path of the model is tracked by integration: untracked files are  *)
(* outside the sensor.                                                     *)
(***************************************************************************)
EXTENDS Naturals, FiniteSets

CONSTANTS
    Paths, Worktrees, Scans, Contents,
    Absent,         \* no file; its fingerprint is empty
    Initial,        \* what integration holds at first
    WorktreeLegacy, NoPath,
    MaxCommits, MaxRows, MaxWrites

ASSUME ViolationsAssumption ==
    /\ Initial \in Contents /\ Absent \notin Contents
    /\ WorktreeLegacy \notin Worktrees /\ NoPath \notin Paths
    /\ {MaxCommits, MaxRows, MaxWrites} \subseteq Nat

VARIABLES
    tree,           \* [Worktrees -> [Paths -> Contents or Absent]]
    integration,    \* [at, of]: the commit of refs/loto/integration, its contents
    lease,          \* [Paths -> "none" | "live" | "stale"], a lock row
    claim,          \* [Paths -> "none" | "live" | "dead"], a candidate claim
    violations,     \* rows [id, path, fingerprint, baseline, worktree, resolution]
    scan,           \* [Scans -> the process]
    writes          \* history: how many writes there were

world == <<tree, integration, lease, claim, writes>>
vars == <<world, violations, scan>>

Open == "open"      \* resolved_at IS NULL

Idle == [pc |-> "idle", worktree |-> WorktreeLegacy, submits |-> NoPath,
         baseline |-> 0, clean |-> {}, changed |-> {}, obs |-> <<>>,
         judged |-> {}, reverted |-> {}, recorded |-> FALSE]

(* A row of an older binary does not say which checkout it was seen in. *)
LegacyRow(p) == [id |-> 1, path |-> p, fingerprint |-> Initial, baseline |-> 0,
                 worktree |-> WorktreeLegacy, resolution |-> Open]

Init ==
    /\ tree = [w \in Worktrees |-> [p \in Paths |-> Initial]]
    /\ integration = [at |-> 1, of |-> [p \in Paths |-> Initial]]
    /\ lease = [p \in Paths |-> "none"] /\ claim = [p \in Paths |-> "none"]
    /\ violations \in {{}} \union {{LegacyRow(p)} : p \in Paths}
    /\ scan = [s \in Scans |-> Idle]
    /\ writes = 0

OpenRows(w) ==      \* UnresolvedViolationsIn
    {v \in violations : v.resolution = Open /\ v.worktree \in {w, WorktreeLegacy}}

------------------------------------------------------------------------------
(* The sensor. *)

(* `loto violations scan` in a checkout; ScanWorktree resolves the ref. *)
ScanBegins(s) ==
    /\ scan[s].pc = "idle"
    /\ \E w \in Worktrees :
           scan' = [scan EXCEPT ![s] = [@ EXCEPT !.pc = "diff", !.worktree = w,
                                                !.baseline = integration.at]]
    /\ UNCHANGED <<world, violations>>

(* `loto submit` of one path: under a live lease, lane.Commit takes the    *)
(* bytes; the sensor pass comes after.                                     *)
SubmitBegins(s) ==
    /\ scan[s].pc = "idle"
    /\ \E w \in Worktrees, p \in Paths :
           /\ lease[p] = "live"
           /\ scan' = [scan EXCEPT ![s] = [@ EXCEPT !.pc = "baseline", !.worktree = w,
                  !.submits = p]]
    /\ UNCHANGED <<world, violations>>

SubmitScans(s) ==
    /\ scan[s].pc = "baseline"
    /\ scan' = [scan EXCEPT ![s].pc = "diff", ![s].baseline = integration.at]
    /\ UNCHANGED <<world, violations>>

(* git diff names the ref again, not the commit that was resolved.         *)
(* Deleted paths have no fingerprint, the others are hashed next.          *)
ScanDiff(s) ==
    LET here == tree[scan[s].worktree]
        differs == {p \in Paths : here[p] # integration.of[p]}
        deleted == {p \in differs : here[p] = Absent}
    IN  /\ scan[s].pc = "diff"
        /\ scan' = [scan EXCEPT ![s] = [@ EXCEPT !.pc = "hash", !.clean = Paths \ differs,
               !.changed = differs \ deleted, !.obs = [p \in deleted |-> Absent]]]
        /\ UNCHANGED <<world, violations>>

(* A pass that fails changes nothing; a submit goes on without it. *)
GiveUp(s) == scan' = [scan EXCEPT ![s].pc = IF scan[s].submits = NoPath THEN "done" ELSE "admit"]

(* hashWorktreePaths: a file that vanished since fails the whole batch. *)
ScanHash(s) ==
    LET here == tree[scan[s].worktree]
        seen == scan[s].obs
    IN  /\ scan[s].pc = "hash"
        /\ IF \E p \in scan[s].changed : here[p] = Absent THEN GiveUp(s)
           ELSE scan' = [scan EXCEPT ![s].pc = "authorize",
                    ![s].obs = [p \in DOMAIN seen \union scan[s].changed |->
                                   IF p \in DOMAIN seen THEN seen[p] ELSE here[p]]]
        /\ UNCHANGED <<world, violations>>

------------------------------------------------------------------------------
(* ReconcileScan. *)

(* authorizedPaths: a live hold, of whichever checkout, or a live claim. *)
Authorized(p) == lease[p] = "live" \/ claim[p] = "live"

(* ackedFingerprints. *)
Acked(p, fingerprint, baseline, w) ==
    \E v \in violations : /\ v.path = p /\ v.fingerprint = fingerprint
                          /\ v.baseline = baseline /\ v.worktree = w
                          /\ v.resolution \notin {Open, "reverted"}

(* ReconcileScan reads the authorizations, then what was acknowledged. *)
ReconcileAuthorized(s) ==
    /\ scan[s].pc = "authorize"
    /\ scan' = [scan EXCEPT ![s].pc = "acked",
           ![s].judged = {p \in DOMAIN scan[s].obs : ~Authorized(p)}]
    /\ UNCHANGED <<world, violations>>

ReconcileAcked(s) ==
    /\ scan[s].pc = "acked"
    /\ scan' = [scan EXCEPT ![s].pc = "open", ![s].judged =
           {p \in @ : ~Acked(p, scan[s].obs[p], scan[s].baseline, scan[s].worktree)}]
    /\ UNCHANGED <<world, violations>>

(* The open rows of paths that were not observed. *)
ReconcileOpen(s) ==
    /\ scan[s].pc = "open"
    /\ scan' = [scan EXCEPT ![s].pc = "resolve",
           ![s].reverted = {v.path : v \in OpenRows(scan[s].worktree)} \ DOMAIN scan[s].obs]
    /\ UNCHANGED <<world, violations>>

(* Seeded fault: a clean reading clears the path's rows in every checkout. *)
ClearedByAnywhere(s) ==
    {v \in violations : v.resolution = Open /\ v.path \in scan[s].reverted}

(* ResolveViolationsForPaths matches the checkout exactly. *)
ClearedBy(s) ==
    {v \in violations : /\ v.resolution = Open /\ v.path \in scan[s].reverted
                        /\ v.worktree = scan[s].worktree}

ReconcileResolve(s) ==
    /\ scan[s].pc = "resolve"
    /\ violations' = (violations \ ClearedBy(s)) \union
                     {[v EXCEPT !.resolution = "reverted"] : v \in ClearedBy(s)}
    /\ scan' = [scan EXCEPT ![s].pc = "record"]
    /\ UNCHANGED world

(* Seeded fault: one open row per path, whichever checkout it is about. *)
InTheWayAnywhere(p, w) ==
    \E v \in violations : v.resolution = Open /\ v.path = p

(* idx_violations_open_path_wt. *)
InTheWay(p, w) ==
    \E v \in violations : v.resolution = Open /\ v.path = p /\ v.worktree = w

(* Seeded fault: the acknowledgements read before the pass are trusted. *)
RecordableAsRead(s) ==
    {p \in scan[s].judged : ~InTheWay(p, scan[s].worktree)}

(* RecordViolations: INSERT OR IGNORE ... WHERE NOT EXISTS. *)
Recordable(s) ==
    {p \in scan[s].judged :
        /\ ~InTheWay(p, scan[s].worktree)
        /\ ~Acked(p, scan[s].obs[p], scan[s].baseline, scan[s].worktree)}

ReconcileRecord(s) ==
    /\ scan[s].pc = "record"
    /\ Cardinality(violations) + Cardinality(Recordable(s)) <= MaxRows
    /\ \E id \in [Recordable(s) -> 1..MaxRows] :
           /\ \A p, q \in Recordable(s) : p # q => id[p] # id[q]
           /\ {id[p] : p \in Recordable(s)} =
                  (Cardinality(violations) + 1)..(Cardinality(violations) + Cardinality(Recordable(s)))
           /\ violations' = violations \union
                  {[id |-> id[p], path |-> p, fingerprint |-> scan[s].obs[p],
                    baseline |-> scan[s].baseline, worktree |-> scan[s].worktree,
                    resolution |-> Open] : p \in Recordable(s)}
    /\ scan' = [scan EXCEPT ![s].recorded = TRUE,
                            ![s].pc = IF scan[s].submits = NoPath THEN "done" ELSE "admit"]
    /\ UNCHANGED world

(* Either transaction fails, or the process dies before it. *)
ScanFails(s) ==
    /\ scan[s].pc \in {"authorize", "acked", "open", "resolve", "record"}
    /\ GiveUp(s)
    /\ UNCHANGED <<world, violations>>

(* submitAdmit: UnresolvedViolationPaths against the write set.  An        *)
(* accepted candidate turns its lease into a claim.                        *)
SubmitAdmits(s) ==
    LET refused == \E v \in OpenRows(scan[s].worktree) : v.path = scan[s].submits
    IN  /\ scan[s].pc = "admit"
        /\ scan' = [scan EXCEPT ![s].pc = "done"]
        /\ claim' = IF refused THEN claim ELSE [claim EXCEPT ![scan[s].submits] = "live"]
        /\ UNCHANGED <<tree, integration, lease, writes, violations>>

(* `loto violations resolve <id> [-m why]`; why is stored as it is typed,  *)
(* and may be the very word a scan closes rows with.                       *)
ResolveViolation ==
    \E v \in violations, why \in {"acked", "reverted"} :
        /\ v.resolution = Open
        /\ violations' = (violations \ {v}) \union {[v EXCEPT !.resolution = why]}
        /\ UNCHANGED <<world, scan>>

------------------------------------------------------------------------------
(* The others. *)

Write ==
    \E w \in Worktrees, p \in Paths, c \in Contents \union {Absent} :
        /\ writes < MaxWrites /\ tree[w][p] # c
        /\ tree' = [tree EXCEPT ![w][p] = c] /\ writes' = writes + 1
        /\ UNCHANGED <<integration, lease, claim, violations, scan>>

(* A lock is taken, lapses, or goes. *)
LeaseChanges ==
    \E p \in Paths :
        /\ \/ lease[p] # "live" /\ lease' = [lease EXCEPT ![p] = "live"]
           \/ lease[p] = "live" /\ \E to \in {"stale", "none"} : lease' = [lease EXCEPT ![p] = to]
        /\ UNCHANGED <<tree, integration, claim, writes, violations, scan>>

(* The pusher of a claim dies; a claim is promoted or released. *)
ClaimEnds ==
    \E p \in Paths :
        /\ claim[p] # "none"
        /\ \/ claim[p] = "live" /\ claim' = [claim EXCEPT ![p] = "dead"] /\ UNCHANGED integration
           \/ claim' = [claim EXCEPT ![p] = "none"] /\ UNCHANGED integration
           \/ /\ integration.at < MaxCommits
              /\ \E c \in Contents : c # integration.of[p] /\
                     integration' = [at |-> integration.at + 1, of |-> [integration.of EXCEPT ![p] = c]]
              /\ claim' = [claim EXCEPT ![p] = "none"]
        /\ UNCHANGED <<tree, lease, writes, violations, scan>>

Next ==
    \/ \E s \in Scans :
           \/ ScanBegins(s) \/ SubmitBegins(s) \/ SubmitScans(s) \/ ScanDiff(s) \/ ScanHash(s)
           \/ ReconcileAuthorized(s) \/ ReconcileAcked(s) \/ ReconcileOpen(s)
           \/ ReconcileResolve(s) \/ ReconcileRecord(s)
           \/ ScanFails(s) \/ SubmitAdmits(s)
    \/ ResolveViolation \/ Write \/ LeaseChanges \/ ClaimEnds

Spec == Init /\ [][Next]_vars

------------------------------------------------------------------------------
(* RecordViolations: a resolve must never be one "that visibly un-resolves *)
(* itself".  Bytes an operator acknowledged, against a baseline and in a   *)
(* checkout, are on no open row, though a scan that read the table before  *)
(* the acknowledgement writes after it.  (A resolve whose reason is the    *)
(* word "reverted" is none: ackedFingerprints takes it for a scan's.)      *)
AcknowledgedStays ==
    \A v, u \in violations :
        /\ v.path = u.path /\ v.fingerprint = u.fingerprint
        /\ v.baseline = u.baseline /\ v.worktree = u.worktree
        /\ u.resolution = "acked"
        => v.resolution # Open

(* "A clean pass from one checkout never resolves another's": a pass       *)
(* closes a row only of the checkout it scanned, and only if it read the   *)
(* path in agreement with integration; a row of unknown origin it never    *)
(* closes (an operator's resolve by id moves no pass).                     *)
ClearedByItsOwnCheckout ==
    [][\A v \in violations :
           v.resolution = Open /\ [v EXCEPT !.resolution = "reverted"] \in violations'
           /\ scan' # scan =>
               \E s \in Scans : /\ scan[s].pc = "resolve" /\ scan'[s].pc = "record"
                                /\ scan[s].worktree = v.worktree
                                /\ v.path \in scan[s].clean]_vars

(* UnresolvedViolationsIn: contamination of one checkout is neither hidden *)
(* by another's row nor lost to a concurrent scan.  When a pass has        *)
(* recorded, every path it judged unauthorized has an open row of its own  *)
(* checkout, unless somebody acknowledged those bytes.                     *)
RecordsWhatItSaw ==
    [][\A s \in Scans :
           scan'[s].recorded /\ ~scan[s].recorded =>
               \A p \in scan[s].judged :
                   \/ \E v \in violations' : /\ v.path = p /\ v.resolution = Open
                                             /\ v.worktree = scan[s].worktree
                   \/ Acked(p, scan[s].obs[p], scan[s].baseline, scan[s].worktree)]_vars
=============================================================================
