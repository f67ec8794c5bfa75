-------------------------------- MODULE Sync --------------------------------
(***************************************************************************)
(* `loto sync` (internal/cli/cmd_sync.go): the one verb that overwrites    *)
(* and deletes files of a shared work tree.  It scans the tree without a   *)
(* lock, then decides and repairs in batches under the store's op-flock,   *)
(* while agents and people write, leases come and lapse, candidates are    *)
(* rejected and promotion moves refs/loto/integration.                     *)
(*                                                                         *)
(* One checkout; a hold is on a file or on Dir, the directory above the    *)
(* files of Beneath.  The code walks each list in path order; here any     *)
(* order, and any split into batches, is taken.                            *)
(***************************************************************************)
EXTENDS Naturals, Sequences, FiniteSets, TLC

CONSTANTS
    Runs, Paths, Owners, Candidates, Blobs,
    Dir, Beneath,
    Base,               \* [Paths -> objects], HEAD and the first integration
    Proposal,           \* [Candidates -> [path, object]], the one path a candidate writes
    Leaves,             \* the objects a writer may leave at a path
    NoBlob, NoRun, NoCandidate,
    ApplyBatch,         \* syncApplyBatch
    MaxCommits, MaxWrites, MaxHolds

(* What stands at a path, on disk or in a tree: an ordinary file, nothing, *)
(* or something else (a symlink, a submodule, a directory).                *)
File(blob, exec) == [kind |-> "file", blob |-> blob, exec |-> exec]
Nothing == [kind |-> "none", blob |-> NoBlob, exec |-> FALSE]
Other == [kind |-> "other", blob |-> NoBlob, exec |-> FALSE]

Objects == {File(b, x) : b \in Blobs, x \in BOOLEAN} \union {Nothing, Other}

ASSUME SyncAssumption ==
    /\ Beneath \subseteq Paths /\ Dir \notin Paths /\ NoBlob \notin Blobs
    /\ Base \in [Paths -> Objects] /\ Leaves \subseteq Objects
    /\ Proposal \in [Candidates -> [path : Paths, object : Objects \ {Nothing}]]
    /\ {ApplyBatch, MaxCommits, MaxWrites, MaxHolds} \subseteq Nat /\ ApplyBatch > 0
    /\ NoRun \notin Runs /\ NoCandidate \notin Candidates

VARIABLES
    tree,       \* [Paths -> Objects], the work tree
    promoted,   \* the commits of refs/loto/integration, its bootstrap first
    head,       \* [version, extra]: the integration commit HEAD is on, and
                \* whether HEAD has commits of its own on top
    holds,      \* lock rows [target, owner, lapsed]; lapsed is past the ttl and
                \* no call of the owner in flight since before (IsStale)
    claimed,    \* candidate claims: candidates with an unresolved claim
    rejected,   \* the candidate_rejected events, oldest first
    session,    \* [Owners -> "alive" | "dead" | "unknown"], what a probe answers
    flock,      \* the run that has the op-flock; every other holder is one step
    run,        \* [Runs -> the process]
    did,        \* history: <<run, path, "write" | "delete", the object lost>>
    fresh,      \* history: <<run, path>>, written since that run last probed it
    writes      \* history: how many writes there were

repoVars == <<promoted, head, claimed, rejected>>
vars == <<tree, repoVars, holds, session, flock, run, did, fresh, writes>>

Outcome == [synced |-> {}, deleted |-> {}, conflicts |-> {}, residueSkips |-> {},
            modified |-> {}, targetSkips |-> {}]

Idle == [pc |-> "idle", dry |-> FALSE, expected |-> 0, diffs |-> <<>>, residue |-> <<>>,
         skipped |-> {}, todo |-> {}, batch |-> {}, target |-> {}, failed |-> FALSE, out |-> Outcome]

Init ==
    /\ tree = Base
    /\ promoted \in {<<>>, <<Base>>}
    /\ head = [version |-> 1, extra |-> FALSE]
    /\ holds = {} /\ claimed = {} /\ rejected = <<>>
    /\ session \in [Owners -> {"alive", "unknown"}]
    /\ flock = NoRun
    /\ run = [r \in Runs |-> Idle]
    /\ did = {} /\ fresh = {} /\ writes = 0

------------------------------------------------------------------------------
(* The scan, without a lock. *)

Integration(version) == promoted[version]

(* git ls-files: the index is HEAD's. *)
Tracked == {p \in Paths : (IF promoted = <<>> THEN Base ELSE promoted[head.version])[p] # Nothing}

(* refuseIfBehindHead: integration is a strict ancestor of HEAD. *)
BehindHead == head.version = Len(promoted) /\ head.extra

Goto(r, pc) == run' = [run EXCEPT ![r].pc = pc]

(* runSync up to its refusals: no integration, or one behind HEAD. *)
SyncResolve(r) ==
    /\ run[r].pc = "idle"
    /\ \E dry \in BOOLEAN :
           run' = [run EXCEPT ![r] = [@ EXCEPT !.dry = dry, !.expected = Len(promoted),
                       !.pc = IF promoted = <<>> \/ BehindHead THEN "done" ELSE "hash"]]
    /\ UNCHANGED <<tree, repoVars, holds, session, flock, did, fresh, writes>>

(* syncDivergence and compareExisting: how p departs from its entry. *)
Divergence(entry, found) ==
    CASE entry.kind = "other" \/ found.kind = "other"               -> "unsupported"
      [] entry.kind = "file" /\ found.kind = "none"                 -> "missing"
      [] entry.kind = "file" /\ found.kind = "file" /\ found.blob # entry.blob -> "modified"
      [] entry.kind = "file" /\ found.kind = "file" /\ found.blob = entry.blob
         /\ found.exec # entry.exec                                 -> "modeonly"
      [] OTHER                                                      -> "same"

(* One look per path stands for two, the lstat and the hash of the bytes.  *)
(* What moves between them, the probe before the write sees.               *)
SyncHash(r) ==
    LET want == Integration(run[r].expected)
        state(p) == Divergence(want[p], tree[p])
        differs == {p \in Paths : want[p] # Nothing /\ state(p) # "same"}
        skipped == {p \in differs : state(p) = "unsupported"}
    IN  /\ run[r].pc = "hash"
        /\ run' = [run EXCEPT ![r] = [@ EXCEPT !.pc = "untracked", !.skipped = skipped,
               !.diffs = [p \in differs \ skipped |->
                             [state |-> state(p), observed |-> tree[p].blob]]]]
        /\ UNCHANGED <<tree, repoVars, holds, session, flock, did, fresh, writes>>

(* RejectedCandidateCreations: the candidate whose rejection recorded p    *)
(* last.                                                                   *)
CreatedBy(p) ==
    LET of == {i \in DOMAIN rejected : Proposal[rejected[i]].path = p}
    IN  IF of = {} THEN NoCandidate
        ELSE rejected[CHOOSE i \in of : \A j \in of : j <= i]

(* syncScanResidue; a run with nothing to do says so and ends. *)
SyncScanResidue(r) ==
    LET untracked == {p \in Paths \ Tracked : tree[p] # Nothing}
        mine == {p \in untracked : CreatedBy(p) # NoCandidate}
        next == IF run[r].diffs = <<>> /\ run[r].skipped = {} /\ untracked = {} THEN "done"
                ELSE IF run[r].dry THEN "dry" ELSE "forward"
    IN  /\ run[r].pc = "untracked"
        /\ run' = [run EXCEPT ![r].pc = next,
               ![r].todo = DOMAIN run[r].diffs,
               ![r].residue = [p \in mine |-> Proposal[CreatedBy(p)].object.blob]]
        /\ UNCHANGED <<tree, repoVars, holds, session, flock, did, fresh, writes>>

------------------------------------------------------------------------------
(* The decision: syncConflictFor. *)

HoldCovers(h, p) == h.target = p \/ (h.target = Dir /\ p \in Beneath)

Live(h) == ~h.lapsed /\ session[h.owner] # "dead"

(* syncLockConflictFor: a live hold refuses whoever asks; one that lapsed  *)
(* while its holder may still be writing, too.  A directory hold carries   *)
(* no pid, so it holds back only for a holder that is seen alive.          *)
HoldRefuses(h, p) ==
    /\ HoldCovers(h, p)
    /\ \/ Live(h)
       \/ IF h.target = p THEN session[h.owner] # "dead" ELSE session[h.owner] = "alive"

Claimants(p) == {k \in claimed : Proposal[k].path = p}

ConflictFor(p) ==
    \/ \E h \in holds : HoldRefuses(h, p)
    \/ Claimants(p) # {}

(* Seeded fault: the failure path keeps the flock. *)
SyncFailsHolding(r) ==
    /\ run' = [run EXCEPT ![r] = [@ EXCEPT !.pc = "done", !.failed = TRUE, !.todo = {},
                                          !.batch = {}, !.target = {}]]
    /\ UNCHANGED flock

(* syncBatchFailed: the run ends with what it did so far; the flock goes.  *)
SyncFails(r) ==
    /\ run' = [run EXCEPT ![r] = [@ EXCEPT !.pc = "done", !.failed = TRUE, !.todo = {},
                                          !.batch = {}, !.target = {}]]
    /\ flock' = IF flock = r THEN NoRun ELSE flock

(* syncBatchContext. *)
PlanStands(r) == Len(promoted) = run[r].expected

Batches(todo) ==
    {b \in SUBSET todo :
        Cardinality(b) = IF Cardinality(todo) < ApplyBatch THEN Cardinality(todo) ELSE ApplyBatch}

(* Seeded fault: the flock covers the decision and not the writes. *)
BeginBatchUnlocked(r, phase) ==
    /\ run[r].pc = phase /\ run[r].todo # {}
    /\ \/ /\ PlanStands(r) /\ flock = NoRun
          /\ \E batch \in Batches(run[r].todo) :
                 LET refused == {p \in batch : ConflictFor(p)}
                 IN  run' = [run EXCEPT ![r].todo = @ \ batch,
                                        ![r].batch = batch \ refused,
                                        ![r].out.conflicts = @ \union refused,
                                        ![r].pc = IF phase = "forward" THEN "apply" ELSE "delete"]
          /\ UNCHANGED flock
       \/ SyncFails(r)
    /\ UNCHANGED <<tree, repoVars, holds, session, did, fresh, writes>>

(* WithStableCoordinationState around one batch: the flock, the rows of    *)
(* its paths, the integration ref, the decision.  The flock stays.  The    *)
(* wait for the flock (30 s) or one of these reads may fail instead, and   *)
(* integration may have moved under the plan.                              *)
BeginBatch(r, phase) ==
    /\ run[r].pc = phase /\ run[r].todo # {}
    /\ \/ /\ PlanStands(r) /\ flock = NoRun
          /\ \E batch \in Batches(run[r].todo) :
                 LET refused == {p \in batch : ConflictFor(p)}
                 IN  run' = [run EXCEPT ![r].todo = @ \ batch,
                                        ![r].batch = batch \ refused,
                                        ![r].out.conflicts = @ \union refused,
                                        ![r].pc = IF phase = "forward" THEN "apply" ELSE "delete"]
          /\ flock' = r
       \/ SyncFails(r)
    /\ UNCHANGED <<tree, repoVars, holds, session, did, fresh, writes>>

(* A batch is through: on to the next one. *)
EndBatch(r) ==
    /\ run[r].pc \in {"apply", "delete"} /\ run[r].batch = {} /\ run[r].target = {}
    /\ Goto(r, IF run[r].pc = "apply" THEN "forward" ELSE "sweep")
    /\ flock' = NoRun
    /\ UNCHANGED <<tree, repoVars, holds, session, did, fresh, writes>>

------------------------------------------------------------------------------
(* The fast-forwards. *)

SyncForward(r) == BeginBatch(r, "forward")

ForwardEnds(r) ==
    /\ run[r].pc = "forward" /\ run[r].todo = {}
    /\ run' = [run EXCEPT ![r].pc = "sweep", ![r].todo = DOMAIN run[r].residue]
    /\ UNCHANGED <<tree, repoVars, holds, session, flock, did, fresh, writes>>

(* Seeded fault: what the scan saw is taken for what is there. *)
TargetMovedNever(d, found) == FALSE

(* syncTargetMoved. *)
TargetMoved(d, found) ==
    IF d.state = "missing" THEN found # Nothing
    ELSE found.kind # "file" \/ found.blob # d.observed

(* syncApply up to the rename: staged, then probed; or a step of it fails. *)
SyncProbe(r) ==
    /\ run[r].pc = "apply" /\ run[r].target = {}
    /\ \E p \in run[r].batch :
           IF TargetMoved(run[r].diffs[p], tree[p])
           THEN run' = [run EXCEPT ![r].batch = @ \ {p}, ![r].out.targetSkips = @ \union {p}]
                /\ UNCHANGED fresh
           ELSE run' = [run EXCEPT ![r].batch = @ \ {p}, ![r].target = {p}]
                /\ fresh' = fresh \ {<<r, p>>}
    /\ UNCHANGED <<tree, repoVars, holds, session, flock, did, writes>>

SyncStageFails(r) ==
    /\ run[r].pc = "apply" /\ run[r].target = {} /\ run[r].batch # {}
    /\ SyncFails(r)
    /\ UNCHANGED <<tree, repoVars, holds, session, did, fresh, writes>>

(* Seeded fault: a file is reported once its directory is on disk too. *)
SyncPublishDurable(r) ==
    /\ run[r].pc = "apply"
    /\ \E p \in run[r].target :
           /\ tree' = [tree EXCEPT ![p] = Integration(run[r].expected)[p]]
           /\ did' = did \union {<<r, p, "write", tree[p]>>}
           /\ \/ /\ run' = [run EXCEPT ![r].target = {}, ![r].out.synced = @ \union {p}]
                 /\ UNCHANGED flock
              \/ /\ run' = [run EXCEPT ![r] = [@ EXCEPT !.pc = "done", !.failed = TRUE,
                                                     !.todo = {}, !.batch = {}, !.target = {}]]
                 /\ flock' = NoRun
    /\ UNCHANGED <<repoVars, holds, session, fresh, writes>>

(* syncPublishStaged: the rename, then the fsync of the directory, which   *)
(* may fail when the file is already there.                                *)
SyncPublish(r) ==
    /\ run[r].pc = "apply"
    /\ \E p \in run[r].target :
           /\ tree' = [tree EXCEPT ![p] = Integration(run[r].expected)[p]]
           /\ did' = did \union {<<r, p, "write", tree[p]>>}
           /\ \/ /\ run' = [run EXCEPT ![r].target = {}, ![r].out.synced = @ \union {p}]
                 /\ UNCHANGED flock
              \/ /\ run' = [run EXCEPT ![r].pc = "done", ![r].failed = TRUE, ![r].todo = {},
                       ![r].batch = {}, ![r].target = {}, ![r].out.synced = @ \union {p}]
                 /\ flock' = NoRun
    /\ UNCHANGED <<repoVars, holds, session, fresh, writes>>

------------------------------------------------------------------------------
(* The deletions. *)

SyncSweep(r) == BeginBatch(r, "sweep")

SweepEnds(r) ==
    /\ run[r].pc = "sweep" /\ run[r].todo = {}
    /\ Goto(r, "done")
    /\ UNCHANGED <<tree, repoVars, holds, session, flock, did, fresh, writes>>

(* What one probe makes of attributed residue: still the rejected bytes,   *)
(* gone, no ordinary file, or somebody's work by now.                      *)
ResidueVerdict(blob, found) ==
    CASE found.kind = "none"                        -> "vanished"
      [] found.kind = "other"                       -> "notfile"
      [] found.kind = "file" /\ found.blob = blob   -> "deletable"
      [] OTHER                                      -> "modified"

(* syncDeleteResidue up to os.Remove; a path that vanished is passed over. *)
SyncProbeResidue(r) ==
    /\ run[r].pc = "delete" /\ run[r].target = {}
    /\ \E p \in run[r].batch :
           LET verdict == ResidueVerdict(run[r].residue[p], tree[p])
           IN  /\ run' = [run EXCEPT
                      ![r].batch = @ \ {p},
                      ![r].target = IF verdict = "deletable" THEN {p} ELSE {},
                      ![r].out.residueSkips = IF verdict = "notfile" THEN @ \union {p} ELSE @,
                      ![r].out.modified = IF verdict = "modified" THEN @ \union {p} ELSE @]
               /\ fresh' = IF verdict = "deletable" THEN fresh \ {<<r, p>>} ELSE fresh
    /\ UNCHANGED <<tree, repoVars, holds, session, flock, did, writes>>

SyncRemove(r) ==
    /\ run[r].pc = "delete"
    /\ \E p \in run[r].target :
           /\ tree' = [tree EXCEPT ![p] = Nothing]
           /\ did' = did \union {<<r, p, "delete", tree[p]>>}
           /\ run' = [run EXCEPT ![r].target = {}, ![r].out.deleted = @ \union {p}]
    /\ UNCHANGED <<repoVars, holds, session, flock, fresh, writes>>

SyncRemoveFails(r) ==
    /\ run[r].pc = "delete" /\ run[r].target # {}
    /\ SyncFails(r)
    /\ UNCHANGED <<tree, repoVars, holds, session, did, fresh, writes>>

(* syncDryRun: decided in one section, the residue probed after it. *)
SyncDryRun(r) ==
    LET verdict(p) == ResidueVerdict(run[r].residue[p], tree[p])
        asked == DOMAIN run[r].diffs \union DOMAIN run[r].residue
        sweep == {p \in DOMAIN run[r].residue : ~ConflictFor(p)}
    IN  /\ run[r].pc = "dry"
        /\ \/ /\ PlanStands(r) /\ flock = NoRun
              /\ run' = [run EXCEPT ![r].pc = "done", ![r].out = [@ EXCEPT
                     !.conflicts = {p \in asked : ConflictFor(p)},
                     !.synced = {p \in DOMAIN run[r].diffs : ~ConflictFor(p)},
                     !.deleted = {p \in sweep : verdict(p) = "deletable"},
                     !.residueSkips = {p \in sweep : verdict(p) = "notfile"},
                     !.modified = {p \in sweep : verdict(p) = "modified"}]]
              /\ UNCHANGED flock
           \/ SyncFails(r)
        /\ UNCHANGED <<tree, repoVars, holds, session, did, fresh, writes>>

(* The process is killed; the kernel drops its flock. *)
SyncKilled(r) ==
    /\ run[r].pc \notin {"idle", "done", "killed"}
    /\ run' = [run EXCEPT ![r] = [Idle EXCEPT !.pc = "killed"]]
    /\ flock' = IF flock = r THEN NoRun ELSE flock
    /\ UNCHANGED <<tree, repoVars, holds, session, did, fresh, writes>>

------------------------------------------------------------------------------
(* The others.  Rows of the store change under the op-flock. *)

(* AcquireLocks: stale rows in the way are reclaimed, live ones of others  *)
(* refuse.                                                                 *)
Overlaps(h, t) == h.target = t \/ HoldCovers(h, t) \/ (t = Dir /\ h.target \in Beneath)

TakeHold ==
    \E t \in Paths \union {Dir}, o \in Owners :
        LET kept == {h \in holds : Live(h) \/ ~Overlaps(h, t)}
        IN  /\ flock = NoRun /\ session[o] # "dead"
            /\ \A h \in kept : Overlaps(h, t) => h.owner = o /\ h.target # t
            /\ Cardinality(kept) < MaxHolds
            /\ holds' = kept \union {[target |-> t, owner |-> o, lapsed |-> FALSE]}
            /\ UNCHANGED <<tree, repoVars, session, flock, run, did, fresh, writes>>

ReleaseHold ==
    \E h \in holds :
        /\ flock = NoRun
        /\ holds' = holds \ {h}
        /\ UNCHANGED <<tree, repoVars, session, flock, run, did, fresh, writes>>

HoldLapses ==
    \E h \in holds :
        /\ ~h.lapsed
        /\ holds' = (holds \ {h}) \union {[h EXCEPT !.lapsed = TRUE]}
        /\ UNCHANGED <<tree, repoVars, session, flock, run, did, fresh, writes>>

SessionDies ==
    \E o \in Owners :
        /\ session[o] = "alive" /\ \E h \in holds : h.owner = o
        /\ session' = [session EXCEPT ![o] = "dead"]
        /\ UNCHANGED <<tree, repoVars, holds, flock, run, did, fresh, writes>>

(* Anybody writes anything, with a hold or without. *)
Write ==
    \E p \in Paths, o \in Leaves :
        /\ writes < MaxWrites /\ tree[p] # o
        /\ tree' = [tree EXCEPT ![p] = o]
        /\ fresh' = fresh \union {<<r, p>> : r \in {q \in Runs : p \in run[q].target}}
        /\ writes' = writes + 1
        /\ UNCHANGED <<repoVars, holds, session, flock, run, did>>

(* submit: the candidate's bytes are in the tree; it is rejected with a    *)
(* record of the path it would have created, or it claims its path.        *)
CurrentTree == IF promoted = <<>> THEN Base ELSE Integration(Len(promoted))

Submit ==
    \E k \in Candidates \ claimed :
        /\ tree[Proposal[k].path] = Proposal[k].object
        /\ CurrentTree[Proposal[k].path] # Proposal[k].object
        /\ \/ /\ CurrentTree[Proposal[k].path] = Nothing
              /\ \A i \in DOMAIN rejected : rejected[i] # k
              /\ rejected' = Append(rejected, k)
              /\ UNCHANGED claimed
           \/ /\ flock = NoRun
              /\ claimed' = claimed \union {k}
              /\ UNCHANGED rejected
        /\ UNCHANGED <<tree, promoted, head, holds, session, flock, run, did, fresh, writes>>

(* promote: the ref moves by its own compare-and-swap, no op-flock; then   *)
(* the claim is released.                                                  *)
Bootstrap ==
    /\ promoted = <<>>
    /\ promoted' = <<Base>>
    /\ UNCHANGED <<tree, head, claimed, rejected, holds, session, flock, run, did, fresh, writes>>

Promote ==
    \E k \in claimed :
        /\ promoted # <<>> /\ Len(promoted) < MaxCommits
        /\ CurrentTree[Proposal[k].path] # Proposal[k].object
        /\ promoted' = Append(promoted,
               [CurrentTree EXCEPT ![Proposal[k].path] = Proposal[k].object])
        /\ UNCHANGED <<tree, head, claimed, rejected, holds, session, flock, run, did, fresh, writes>>

ReleaseClaim ==
    \E k \in claimed :
        /\ flock = NoRun
        /\ claimed' = claimed \ {k}
        /\ UNCHANGED <<tree, promoted, head, rejected, holds, session, flock, run, did, fresh, writes>>

(* git: HEAD follows integration, or gets a commit integration lacks. *)
HeadMoves ==
    /\ promoted # <<>>
    /\ \E extra \in BOOLEAN : head' = [version |-> Len(promoted), extra |-> extra]
    /\ head' # head
    /\ UNCHANGED <<tree, promoted, claimed, rejected, holds, session, flock, run, did, fresh, writes>>

SyncStep(r) ==
    \/ SyncResolve(r) \/ SyncHash(r) \/ SyncScanResidue(r)
    \/ SyncForward(r) \/ SyncProbe(r) \/ SyncStageFails(r) \/ SyncPublish(r) \/ ForwardEnds(r)
    \/ SyncSweep(r) \/ SyncProbeResidue(r) \/ SyncRemove(r) \/ SyncRemoveFails(r) \/ SweepEnds(r)
    \/ EndBatch(r) \/ SyncDryRun(r)

Next ==
    \/ \E r \in Runs : SyncStep(r) \/ SyncKilled(r)
    \/ TakeHold \/ ReleaseHold \/ HoldLapses \/ SessionDies
    \/ Write \/ Submit \/ Bootstrap \/ Promote \/ ReleaseClaim \/ HeadMoves

(* A run that is not killed goes on: its steps are a process's own, and    *)
(* the git commands in them have a timeout.                                *)
Spec == Init /\ [][Next]_vars /\ \A r \in Runs : WF_vars(SyncStep(r))

------------------------------------------------------------------------------
(* "None can land after these reads and before inspect returns"            *)
(* (WithStableCoordinationState): at the moment sync replaces or removes a *)
(* file no lease of a session that may be writing covers it, and no        *)
(* candidate has a claim on it, whatever came and went since the decision. *)
HeldBytesSurvive ==
    [][\A e \in did' \ did :
           /\ \A h \in holds : Live(h) => ~HoldCovers(h, e[2])
           /\ \A h \in holds : h.target = e[2] => session[h.owner] = "dead"
           /\ \A k \in claimed : Proposal[k].path # e[2]]_vars

(* "A path that moved is skipped and named, never written" (syncApply):    *)
(* what sync destroys are the bytes its scan judged, or the bytes a        *)
(* rejection recorded; only a write that lands between the last probe and  *)
(* the rename or the remove can be lost.                                   *)
OnlyJudgedBytesLost ==
    [][\A e \in did' \ did :
           LET r == e[1]
               p == e[2]
           IN  \/ <<r, p>> \in fresh
               \/ e[3] = "delete" /\ tree[p].blob = run[r].residue[p]
               \/ e[3] = "write" /\ tree[p].blob = run[r].diffs[p].observed]_vars

(* emitSyncPartial: "a deletion above all must never go unnamed".  What a  *)
(* run that ended by itself reports as written and deleted is what it did, *)
(* on every failure path; a dry run did nothing.                           *)
ReportIsTrue ==
    \A r \in Runs :
        LET done(how) == {e[2] : e \in {d \in did : d[1] = r /\ d[3] = how}}
        IN  run[r].pc = "done" =>
                IF run[r].dry THEN done("write") \union done("delete") = {}
                ELSE /\ run[r].out.synced = done("write")
                     /\ run[r].out.deleted = done("delete")

(* syncApplyBatch: the op-flock is the rendezvous of every peer; a run     *)
(* gives it back, whatever fails in the batch.                             *)
FlockReturned == \A r \in Runs : (flock = r) ~> (flock # r)
=============================================================================
