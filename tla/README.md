# loto in TLA+

loto coordinates several coding agents that work in one git repository. Agents
take exclusive, leased holds on paths; hooks around every tool call enforce
them; finished work is submitted as a candidate and promoted, after a verify,
to `refs/loto/integration`. There is no server: every `loto` invocation and
every hook is a short-lived process, and all they share is one SQLite store,
the references of the repository, and a few flocks. The modules here model
those shared states and the processes that race on them, model-check them with
TLC, and prove with TLAPS every safety property of the passing runs, and that
the git gate implements its abstract specification.

`PROJECT.json` names, for every definition, the lines of code it stands for,
for every property the run that checks it and the seeded fault that breaks it,
and for every hazard of the code the properties aimed at it.

## 1. The system

| component | code | state | operations | interacts through | hard because |
|---|---|---|---|---|---|
| domain rules | `internal/domain` | none | overlap, same checkout, stale, refuses | called by all others | one rule, many callers, each with its own clock reading |
| lock table, epochs | `internal/store/locks_*.go`, `epoch.go` | `locks`, `path_epochs` | acquire, release, release by session, break, refresh, heartbeat | rows, audit events | reclaim inside other verbs, legacy rows without a checkout, a clock read before a lock wait |
| hook calls | `internal/store/hook_calls.go` | `hook_calls` | pre, post, three sweeps | an open call keeps its owner's holds alive | posts that never come, late posts, sweeps by strangers |
| candidate claims | `candidate_claims.go`, `admission.go` | `candidate_claims` | insert, release, collect | block acquires while a candidate is queued | outlives the lease it was made under |
| write gate | `internal/cli/cmd_hook.go` | none of its own | pre-hook, post-hook | store transactions in sequence | read, decide, acquire, re-read, record are separate transactions |
| submit | `cmd_submit.go`, `gate/envelope.go`, `gate/admission.go` | envelope | lease check, capture, admit, accept | leases, integration, claims, refs | four looks at state that moves |
| promotion | `gate/promotion.go`, `gate/refs.go` | candidate, proposal, promoting and integration refs | select, claim, verify, commit, reject, reclaim | one reference transaction at a time, a flock | minutes of unlocked verify, several pushers, dead pushers |
| doctor | `store/doctor.go`, `cmd_doctor.go` | none of its own | reclaim stale rows, collect claims, clear residue | rows and refs read at different times | repairs what is still being written |
| observation | `tree_events.go`, parts of `hook_calls.go` | `path_seq`, `path_observed`, `tree_events`, `tree_reports` | attribute changes, file and deliver reports | pre and post hooks | overlapping calls, drift between them |
| violations | `violations.go`, `gate/scan.go` | `violations` | scan, reconcile, resolve | blocks admission | scan and reconcile are apart in time |
| sync | `cmd_sync.go` | work tree | fast-forward, sweep residue | locks, claims, integration | partial batches, a moving integration |
| ref guard | `cmd_hook_ref.go` | refusals | classify, refuse, admit | live peers | aliasing of HEAD over linked checkouts |
| bridge | `gate/bridge.go`, `pr.go` | bead branches, markers | plan, build, push, open | integration log, GitHub | reruns after partial failure |
| lanes, verify trees | `internal/lane` | lane refs, a shared verify tree | commit, verify | locks, a flock | reuse of a dirty tree |
| identity, sessions | `internal/identity` | session files | record, probe, collect | liveness oracle of the store | pid reuse, hosts, rotation |
| tags, events | `tags.go`, `territory_tags.go`, `events.go` | notes, audit log | insert, ack, rotate | follow holds | retention |
| opening, migration, recovery | `store.go`, `flock.go` | the database file | open, migrate, move aside | recovery lock, op-flock | moving a file others have open |
| readers, rendering, paths | `cmd_check*.go`, `cmd_status.go`, `render`, `paths.go` | none | report | read only | no |

What makes them correct: a hold excludes every overlapping hold of another
owner in the same checkout; nobody loses one without an event that says so; an
epoch names one tenure of a path for ever; a tool call that began under a hold
keeps it; a queued candidate's paths are fenced from peers in its checkout; integration moves
only from one verified tree to the next, each candidate landing at most once
and exactly on the contents its author saw; queues and residue drain. A change
of a file is put down to the call that made it, and who should know is told
once; contamination stays on record until somebody answers for it; sync
destroys nothing that is held, claimed or unjudged, and says what it did; the
bridge neither drops, repeats nor reverts work; a move of HEAD does not pass
over a peer whose record the guard can read and whose witnesses are its own.

## 2. Modules

| module | models | extends |
|---|---|---|
| `LotoDomain` | the pure rules | |
| `LockStore` | the store: every transaction on locks, epochs, calls, claims | `LotoDomain` |
| `LockStoreProofs` | theorems about `LockStore` | `LockStore`, `TLAPS` |
| `WriteGate` | pre- and post-hooks as multi-step processes over the store | `LockStore` |
| `CandidateChain` | write sets, trees, the chain a batch builds | |
| `Integration` | abstract: what the git gate promises | `CandidateChain` |
| `GitGate` | submit, promote, doctor's residue repair | `CandidateChain`, instance of `Integration` |
| `Observation` | the per-path half of the hooks, drift, reports | |
| `Violations` | scan passes and submits over the violations table | |
| `Sync` | `loto sync` against locks, claims, promotion and writers | |
| `Bridge` | `loto pr` against promotion, people and the hub | |
| `Guard` | `loto hook ref` and the session records it counts | |
| `WriteGateProofs`, `GitGateProofs`, `ObservationProofs`, `ViolationsProofs`, `SyncProofs`, `BridgeProofs`, `GuardProofs` | theorems about the module they are named after | that module, `TLAPS` |
| `MC*` | small instances | the module they are named after |

`Observation`, `Violations`, `Sync`, `Bridge` and `Guard` are composed with the core by reduction: each takes from the
component it races with exactly the part it reads (the one live holder of a
file and its epoch, the lease state of a path, the integration log) and lets it
change whenever the core's actions could change it. Their own processes are
split at every point where the code lets go of a lock or a transaction.

Definitions called "Seeded fault" are not part of a specification: each is the
definition below it with a plausible bug, used to see that a property notices.

### LockStore, LotoDomain

One action is one committed transaction (`withLockBatchTx`, `beginTx`). The
batch verbs also hold the op-flock; since SQLite serializes commits anyway,
what interleaves is whole transactions. A refused transaction rolls back
everything, so it is no step.

* `locks` is a set of rows keyed in effect by (owner, target, checkout);
  `path_epochs` is the per-path counter that survives the rows; `calls` and
  `claims` are the other two tables; `probe` is what the liveness oracle
  answers for a session; `audit` holds the events of the last transaction.
* A path is the sequence of its segments, a prefix is a prefix. A checkout is
  a model value, `NoWorktree` the empty key of rows written before checkouts
  were recorded; it matches every checkout, as in `SameWorktree`.
* A record's clock is read before the flock is waited for: `lag` is its age
  at commit, up to `MaxLag`. The hooks' lease (30 min) outlasts the wait (30 s);
  a caller's `--ttl` need only be positive (`LeaseAssumption`), so a row may be
  over before it is committed, and an owner may replace its own live row by one
  that is (`Undercut`).
* `AcquireLocks` reclaims stale contenders, refuses on a live one or on a
  claim, upserts the batch, adopting a legacy row of the owner, and draws a
  fresh epoch unless it renews a live row. `ReleaseLocks` deletes the caller's
  rows or, per target, reclaims foreign holders that are all stale.
  `BreakLocks` is the blind batch break, `ReadHolders`, `ExpectedHolderWorktree`
  (which takes the break to the checkout the named holds stand in) and
  `BreakAsRead` the break by what an earlier read named. `RefreshLocks` and the heartbeat in
  `RecordCallPre`/`RecordCallPost` extend leases.
* Staleness is judged by the session that took the row; an owner with several
  sessions may thus lose a row while another of its sessions lives.
* `MarkDeadOwnerCalls` reads, probes and updates; the update re-asserts that
  the call is open, so it is one step.
* A claim of a session without a durable pid (`Pidless`) is given up after a
  grace when the probe cannot tell; that of a dead session at once.

Left out: case folding, `created_at` and tags of a row, `lstat` validation of
targets, events other than those of a dispossession or release, file modes, and
a caller without an owner uuid in `Refuses` (only `loto sync` is one, and has its
rule in `Sync`).

### WriteGate

`hook[c].pc` walks through `hookPre`: three sweeps, the read and decision of
`hookAdmit`, the acquire of `hookTakeLock`, its re-read on failure, the record;
then the tool runs until `hookPost`. Between any two of these the other call's
hook, every store verb, deaths and the clock may act. Errors take the code's
way out: a failed sweep is passed over, a failed read records the call without
a path, a failed record lets the tool run unrecorded. `covered` and `ceded`
are history fields the properties use. A repeated pre for one tool call, the
observation of file contents and candidate claims are left out.

### CandidateChain, Integration, GitGate

A tree maps files to contents; a directory exists while a file under it does.
`ChainTree` is the closed form of applying members in id order. `integration`
is the log of landed batches; an object id is abstracted to the position in
that log, which is faithful because a commit names its parents and the log is
append-only as long as the compare on `refs/loto/integration` holds; a commit
without the compare would overwrite what is above its snapshot, and that is
how `CommitBatch` is written.

* submit: `SubmitLeaseCheck`, `SubmitCapture`, `SubmitAdmit` or
  `SubmitBypass`, `InsertClaims`, `WriteCandidateRefs` or `AcceptFails` are
  `runSubmit` in its order, each reading leases and integration afresh. What
  the violations sensor reports is arbitrary.
* promote: `ScanQueue` (flock, snapshot, reclaim, list), `ClaimBatch` (choose,
  build, claim, unlock), a verdict, then `CommitBatch`, `DropBatch`,
  `RejectSolo` and `ReleaseClaims`. `todo` is what the sweep after a red batch
  has left. Listing candidates is part of `ScanQueue`: whatever an acceptance
  or a rejection does between the two reads of the code could as well have
  happened before the first. A pusher in `Misreading` may fail to read
  promoting refs and then neither reclaims nor respects them
  (`reclaimBadClaim`).
* `PusherDies` is a kill or an exit on an error: the kernel frees the flock,
  the promoting ref stays. A dead pusher does not come back; a new process is
  another pusher.
* leases are rows of a path in a checkout, with an epoch from the counter of the
  path (`path_epochs`): `GrantLease` is an acquire on a path nobody holds in
  that checkout and no candidate claims, `EndLease` any of release, reclaim,
  break, lapse. A submit runs in the checkout `CheckoutOf` gives its candidate;
  the lease check and admission ask for the author's row there (`HoldsAt`), the
  claim's own look, `revalidateClaimLeasesTx`, for a row of the author in any
  checkout (`LeasesStand`, `LeasesFell`: with rows in several either may be the
  answer). Rows without a checkout and directory holds are in `LockStore` only.
* doctor: `DoctorListsClaims`, `DoctorListsRefs`, `DoctorReleases` are the two
  reads of `scanClaimResidue` and the deletes of `releaseClaimResidue`; it may
  stop at an error after either read. The collection of abandoned claims is in
  `LockStore`.

Left out: `MaxRounds` (a run that ends is started again), claims with a
garbled candidate list (they block a round until repaired), the bootstrap race
of `ResolveIntegrationRef`, file/directory conflicts in a chain (capture and
disjoint write sets keep them out), a git transaction whose outcome its caller
misreads.

### Observation

One checkout (the tables are keyed by checkout). A pre-hook looks at the files
it must watch with their sequence numbers (`HookLook`), reads their bytes
(`HookRead`), runs the drift pass (`HookDrift`), reads and takes the reports
that wait for its owner (`HookPending`, `HookDeliver`) and records the call
(`HookRecord`); a post-hook observes (`PostObserve`) and records (`HookPost`).
`RecordCallPost` is `postOnePathWithEventTx` over all paths: number the change
unless its bytes are numbered already, file an event with the calls that span
it by interval, tell the addressees of the verdict row, mark answered reports,
close the call. The sweeps and the retention of events and reports are actions
of their own. A digest is a model value, `stat` tells unhashable states apart.
`wrote`, `handed`, `overtaken` and the `noted`/`lost` fields are history.
`wrote` has every write of a file with its bytes and its author. `overtaken`
marks files of which an observation was recorded, by a drift pass or a post,
after the file had moved on: what the code then says is about bytes that are
gone, and the attribution properties claim nothing there. `WrittenOnce` says
that bytes never came back.

Three things are one step here that are several in the code. The reads of a
post-hook (locks, numbers and bytes of `hookObserve`, then those of
`hookAddRecordedPaths`) are one look; those of a pre-hook, which the attribution
turns on, are apart. The stamp of a post is the clock of its commit, while the
hook reads it before it waits for the op-flock. And a report counts as handed
(`handed`) with the transaction that marks it delivered, while the hook prints it
after (section 3).

### Violations

Two transactions and six reads per pass: the baseline ref, the diff (which
names the ref again), the hashes, the authorizations, the acknowledgements, the
open rows; then the closing and the recording of rows. A submit is the same
pass between its lease check and its admission. Rows are never deleted, `id`
is their order. An operator's resolve takes any reason, the word a scan uses
for its own among them. A file that vanishes between diff and hash fails the pass, and
any failure leaves the table alone and lets a submit go on, as
`submitViolationScan` does.

### Sync

`SyncResolve`, `SyncHash`, `SyncScanResidue` are the lock-free scan; a batch is
`BeginBatch` (flock, integration compared with the plan's, conflicts decided),
then per path a probe and a rename or a remove, then `EndBatch`. Every step
that can fail has its failure, after the rename too (`fsync` of the
directory), the wait for the flock and the reads under it too; `SyncKilled` is
a kill at any point. The scan's `lstat` and hash of a path are one look: what
moves between them, the probe before the write sees. A hold is on a file or on
the directory above it, since the two are judged differently once they lapse;
`lapsed` is past its lease with no call in flight since before, as in `IsStale`.
`Submit`, `Promote`, `ReleaseClaim`, `HeadMoves` and the lock actions are the
others at the granularity sync can see.

### Bridge

A branch is the commit of main it forked from and the integration commits
replayed on it, which determines its hash because identities and dates are
copied. A run resolves main, reads the log, then per bead the branch and the
marker, each at its own time; then builds, pushes, looks for and opens a pull
request bead by bead. Each outward step may take effect and still be reported
as failed (`fails`), and a run may die anywhere. People merge with a merge
commit, edit main, fast-forward main to integration, close requests, delete
branches and make branches by hand. The local main a run reads and the hub's are
one: a checkout that fetches late is left out.

`MergeRevertsNothing` compares what a merge changes with the two contents it may
rightly replace: what integration had before the branch's first commit on the
path, or what the merged part of the same branch left there. The second is
there because a person can make a run rebuild a branch from commits of which
some were merged before (the marker goes back, section 3).

### Guard

git's side is external: `Begins` is the `prepared` phase with HEAD.lock
already holding the new value, `Commits`, `Aborts` and `Killed` its ends. The
hook's steps are the shape and re-attach tests, the count of live owners, the
worktree-birth carve-out and the verdict. A session process is a (pid, start
time); pids are shared by processes that never run at the same time; what a
call can read of itself varies for the processes in `Shaky` (`Looks`: pid and
socket each with or without the other, a start time only with a pid), and so
does what others can read of them (`blind`). A count may skip records it cannot
read, all of them when the session directory cannot be read (`unread`).
`actorOwner` yields the process where a start time is known and the session id
otherwise. A transaction has one row; refusals and overrides are not counted.
Left out: a `LOTO_PID` inherited from another session, and a `whoami` that
cannot read the record it replaces.

## 3. Runs

Eleven runs pass and one shows a departure.

| run | instance | shows |
|---|---|---|
| `LockStore_nested` | 2 owners (one mortal, one no probe can judge), a directory and a file in it, one call, 4 ticks, leases of 1 and 2, refreshed by 1 | `TypeOK`, `Exclusive`, `NoSilentDispossession`, `LapsedLeaseIsRegranted`, `OpenCallKeepsHold` |
| `LockStore_tenures` | one path, a checkout and legacy rows without one, two sessions of one owner and one of another, a reader, one candidate | `Exclusive`, `EpochsIdentify`, `EpochNamesTenure`, `ClaimExcludesPeerLease` |
| `WriteGate_race` | two agents' calls on one file against all verbs | `CoveredWriterExcludes` |
| `GitGate_batches` | 3 candidates (two rewrite one file, the second back to the original contents), 2 pushers, one mortal | `BatchesDisjoint`, `PreimageCAS`, `VerifiedIntegration`, `LandedOnce`, `LeavesResolved`, `ImplementsIntegration` |
| `GitGate_races` | 2 candidates on one file from two linked checkouts, leases granted twice, 2 pushers that may not see each other's claims, a doctor | `ClaimFencesPeers`, `DoctorSparesAccepted`, `ImplementsIntegration` |
| `GitGate_drains` | 2 candidates on one file, a lasting and a mortal pusher, a doctor | `QueueDrains`, `ResidueCleared` |
| `Observation_overlap` | one file, two calls of one owner or two, 2 writes (at most one from outside), 2 contents, one tenure, one death | `NamesTheWriter`, `DriftIsUncovered`, `ReportsAccounted`, `HandedOnce` |
| `Violations_passes` | one path in 2 checkouts, 2 passes, 2 writes, a legacy row or none, one promotion | `AcknowledgedStays`, `ClearedByItsOwnCheckout`, `RecordsWhatItSaw` |
| `Sync_repair` | a tracked and a created path, batches of one, 2 candidates, one hold, 2 writes | `ReportIsTrue`, `HeldBytesSurvive`, `OnlyJudgedBytesLost`, `FlockReturned` |
| `Bridge_runs` | 2 runs, 2 beads, one path, 2 promotions, 2 human moves, one fault | `MarkerIsBranch`, `PublishedOnlyGrows`, `MergeRevertsNothing` |
| `Guard_moves` | 3 processes (two share a pid, one is unreadable, one may be a bare shell), 2 session ids, 2 checkouts, 2 branches, 2 transactions, one further event | `ProbeSound`, `AloneMeansAlone`, `RefusedForAPeer`, `BirthAdmitsOnlyBirths` |
| `Guard_unrecorded` | the same with one transaction | violates `NeverTooLow` |

Bounds: `MaxTime` 4 with leases of 1 and 2, `TReport` 2 and `InFlightMaxAge` 3 let a
lease be granted, lapse under an open call, have the call flagged, then ended,
and the path granted anew. `MaxLag` 1 separates a clock reading from its
commit, and a lease of 1 is over by then if the commit is late. `MaxEpoch` 2 or 3 gives each path a second and third tenure, which is what
epochs are for. Two owners suffice for pairwise exclusion; the theorems cover any number.
Three candidates give a batch of two beside a rival of one of them, and enough
landings for an integration that moved twice during a verify. The clock and
the epochs stop at their bounds and submits are finite, so runs may end:
deadlock is not checked. `WriteGate_race` views states without `audit`, which
only feeds the history field in the step that sets it.

The smaller modules: attribution and delivery are questions about two calls and
one file, whose second write gives a change something to be confused with; a
second tenure is not needed because the tables are keyed by epoch. Two passes
are what one scan can do to another; two commits of integration separate the
baseline from the diff. Batches of one path make sync let go of the flock
between its two paths, one of which it overwrites and the other deletes. Two
promotions let a bead be bridged and then extended, one fault placed anywhere
separates each step from the report of it. In `Guard_moves` a transaction may
delete a branch so that a second one can rename to its name; the one further
event is a `/clear`, a change of checkout, a recycled pid, a claim, a killed git, an unreadable
store, unreadable session records in one count, a detached HEAD, a new branch or a record that grew old. In all of them
the bounds run out, so deadlock is not checked. Symmetry is used for calls,
owners, checkouts, scans, pr runs and session ids, where no constant tells them
apart, and never in a run with a liveness property.

Fairness of `Sync`: the steps of a run that is not killed are its own process's,
and its git commands have a timeout, so each run is weakly fair; nothing is
assumed of the others. That is all `FlockReturned` needs.

Fairness of `GitGate`, `FairSpec`: somebody keeps running `loto promote`. Git calls are
limited by `gatePlumbingTimeout`, the verify by `verifyTimeout`, so each step
of a round that began is eventually taken (weak fairness); the flock is polled
for 30 s and retried by the next run, so getting it is strongly fair. A mortal
pusher inside a round moves on or dies. Doctor is run again and again and may
stop at an error after either read, so its look at the refs and its releases
are strongly fair. `QueueDrains` assumes
that verifies come to reach verdicts; a candidate counts as resolved when its
contents went stale, since the code keeps stale candidates queued.

### Departures met while modelling

`Guard_unrecorded` is a run of its own: the comment on `dropRotatedSelfIDs`
(identity/session.go:329) says that for a session that never ran `whoami` in
this checkout the count is never too low. Such a caller is not in the set at
all, so that one recorded peer makes one owner, and the gate passes.

The following were found by writing the model, and the properties above are
stated so that they hold beside them:

* README.md:106 says a live session is never TTL-reaped; `IsStale` calls an
  expired lease with no call in flight stale whatever the probe says.
* candidate_claims.go:254: acquisition fails on overlap with a claim; the
  lookup is by exact path, so a directory above a claimed file is granted.
* docs/write-gate.md:20: a write admitted on the caller's own lapsed row runs
  beside the peer who reclaims it (hence "covered" in `CoveredWriterExcludes`).
* cmd_lock.go:76 and cmd_refresh.go:47 take any positive `--ttl`, while the
  command may wait 30 s for the op-flock with the clock it read before: a
  shorter lease is over when it is committed ("a non-positive TTL mints an
  instantly-stale lock" is what the check is for). On the owner's own live row it
  undercuts the hold one of its calls works under. `OpenCallKeepsHold` and
  `CoveredWriterExcludes` count that as the owner's giving the hold up
  (`Undercut`), and hold with such leases in the runs.
* envelope.go:90: directories of created files are re-checked at promotion,
  but on the snapshot only, not behind an earlier member of the batch.
* cmd_doctor.go:497 takes the absence of refs as decisive; an acceptance
  between its two writes, when doctor looks for its refs, loses its claims.
  `DoctorSparesAccepted` says that this is the only way in which doctor comes to
  release the claims of a queued candidate.
* promotion.go:306: two pushers can take a red candidate from each other
  between the dropped batch and the solo round (`QueueDrains` has one lasting
  pusher).
* hook_calls.go:186, `SeqAtObserve`: "the call may span a transition it did
  not, never miss one it did" fails in two ways. A slow drift pass or post
  records an observation older than a numbered change (`overtaken`). And bytes
  come back: a call writes `d`, another post numbers it `k`; the file goes to
  `d2` and back to `d`; the writer's post finds `d` numbered above its own
  start and reuses `k`, so a reader that looked at `d2` with number `k` files
  `k + 1` and the writer does not span it (`WrittenOnce`). Both were found by
  trying to prove `NamesTheWriter` without the hypothesis.
* hook_calls.go:263, `pathSeqStateTx`: giving one change two numbers makes "the
  peer that actually overlapped disappear from the report". A path first seen
  at the post starts from the current number (`postOnePathTx`), so bytes that
  have one get a second; `NamesTheWriter` speaks of calls that had looked at
  the file before (`e.seen`).
* cmd_hook.go:443, "a report the harness never shows the agent is a report that
  did not happen": a report is marked delivered by a transaction
  (tree_events.go:730) and printed after it (cmd_hook.go:452), so that a hook
  killed in between leaves it delivered and unseen. `ReportsAccounted` counts it
  as handed over.
* tree_events.go:608: "the change is not lost" fails when the post of an
  overlapping call moves `observed(f)` and the covering call dies.
* violations.go:86: a submit whose lease began after the rogue write and whose
  scan ran during it is not stopped; violations.go:74 speaks of "a later
  scan", but an older pass can close a row a newer one wrote; `ScanWorktree`
  diffs against the ref's name after it resolved it; `authorizedPaths` takes
  the lease of another checkout. `loto violations resolve -m reverted` is
  stored as a scan's own word (violations.go:279), so that the same bytes are
  flagged again: `AcknowledgedStays` speaks of any other reason.
* gate_stats.go:24: a path a rejected candidate created may have been
  resubmitted and promoted while HEAD's index still lacks it; sync then
  deletes a file integration has.
* bridge.go:355 reads a marker outside `main..integration` as merged work;
  a merged pull request carries replayed commits, so the marker stays in that
  range and later work is appended to the merged branch. Interleaved beads on
  one path have only the first preimage of a bead checked. A branch recreated
  by hand under a standing marker goes unnoticed.
* bridge.go:355 also says that only a rewrite of integration's history can
  otherwise produce a marker outside the list. A second run can: it lists the
  commits, the first run bridges one promoted since, and the second finds that
  one as the marker. If a person deletes the branch before the second run
  builds, its compare-and-swap succeeds, and branch and marker are put back to
  older commits. With four promotions TLC shows a bead whose next batch then
  lies across what was merged, so that a merge replaces contents the branch
  itself had brought to main, and not those before its first commit. Nothing of
  anybody else's is reverted, which is what `MergeRevertsNothing` says.
* session.go:84: a `whoami` that knows its socket and not its pid keeps the
  pid and the start time of the record it replaces, which a process that
  resumes another's session id may thereby take over. When it dies with its
  socket removed, the record says dead of the first process, which is up, and
  a third passes the live gate: session.go:332 says the count never "hands a
  peer's working tree to a branch switch". TLC shows it with three session ids
  in 12 steps. `ProbeSound` and `AloneMeansAlone` are therefore about
  `Coherent` records, whose witnesses are of one process.
* session.go:277 and :287: the count fails open. A session directory that cannot
  be read is an empty one, a record that cannot be read or parsed is no
  session, and the live gate then passes over the peer it is about.
  `AloneMeansAlone` claims nothing of records the count skipped, nor when it
  skipped the caller's own; `NeverTooLow` is refuted with every record read.
* `headReattach` tests the caller's HEAD,
  not the HEAD the row is about. `git branch -m` rewrites a peer's HEAD in
  another checkout when the caller is alone in its own.
  `refCheckoutWideClaim` does not look at the claim's checkout. `git checkout
  <oid>` is no protected shape.

Two more limits of the code shape the passing runs. candidate_claims.go:167
calls the submitter's own live lease "sufficient to exclude a peer lock on the
same path". Two linked checkouts may each hold one path, of which a submit
looks at its own row only: A holds it in one, B in the other, A claims it, and a
claimed path has a peer's lease. `ClaimExcludesPeerLease` is therefore about
checkouts that are all one (its first line), which the attempt to prove it
without showed to be needed, and `ClaimFencesPeers` about the leases of the
checkout the candidate was submitted from, in `GitGate_races` beside a second
checkout whose leases the claim does not fence. And one owner can submit a path twice under one
lease, so `overlaps()` does meet overlapping candidates; `PreimageCAS` is
checked with such candidates in the queue.

## 4. Proofs

Each theorem holds for all values of the constants that satisfy the named
assumptions of its module (sessions have owners, times are naturals, the hooks'
lease outlasts the wait for the op-flock and any other is positive, write sets
are finite, session ids are finitely many,
the null values are no members). No proof module assumes anything
else; a hypothesis beyond these is part of a theorem's statement or of its
property, and discussed below. `Spec` here is safety only: fairness is not used.

| module | theorem | property |
|---|---|---|
| `LockStoreProofs` | `TypeCorrect`, `MutualExclusion`, `EpochIdentity`, `FencingTokens` | `TypeOK`, `Exclusive`, `EpochsIdentify`, `EpochNamesTenure` |
| | `ClaimsExclude`, `DispossessionIsTold` | `ClaimExcludesPeerLease`, `NoSilentDispossession` |
| | `CallKeepsHold`, `LapseFences` | `OpenCallKeepsHold`, `LapsedLeaseIsRegranted` |
| `WriteGateProofs` | `GateUsesStore`, `CoveredWriterIsAlone` | `GateSpec => Spec`, `CoveredWriterExcludes` |
| `GitGateProofs` | `GateTypeCorrect`, `LandsOnItsPreimage`, `LandsVerified` | `TypeOK`, `PreimageCAS`, `VerifiedIntegration` |
| | `LandsOnce`, `ClaimsFence`, `QueueLeavesResolved` | `LandedOnce`, `ClaimFencesPeers`, `LeavesResolved` |
| | `LiveBatchesDisjoint`, `DoctorTakesResidue` | `BatchesDisjoint`, `DoctorSparesAccepted` |
| | `GateImplements` | `ImplementsIntegration` |
| `ObservationProofs` | `DeliveredOnce`, `ReportsNeverVanish` | `HandedOnce`, `ReportsAccounted` |
| | `WriterIsNamed`, `DriftHasNoCall` | `NamesTheWriter`, `DriftIsUncovered` |
| `ViolationsProofs` | `AcknowledgementHolds`, `ClearsItsOwn`, `RecordsAll` | `AcknowledgedStays`, `ClearedByItsOwnCheckout`, `RecordsWhatItSaw` |
| `SyncProofs` | `ReportsWhatItDid`, `HeldBytesAreSafe`, `LosesOnlyJudgedBytes` | `ReportIsTrue`, `HeldBytesSurvive`, `OnlyJudgedBytesLost` |
| `BridgeProofs` | `MarkerAgrees`, `NothingTakenBack`, `MergesRevertNothing` | `MarkerIsBranch`, `PublishedOnlyGrows`, `MergeRevertsNothing` |
| `GuardProofs` | `RecordsAndLocksHold`, `OracleIsSound` | `GuardInv`, `ProbeSound` |
| | `GateCountsEveryPeer`, `GateCountsOnlyPeers`, `CarveOutWritesNewHeads` | `AloneMeansAlone`, `RefusedForAPeer`, `BirthAdmitsOnlyBirths` |

Every inductive invariant was checked by TLC on the instances of section 3
before it was proved.

**LockStore.** The invariant of the table is `TableInv`: exclusion, epoch
identity, and `KeyUnique`, at most one row per owner, target and checkout.
`KeyUnique` is needed because an acquire replaces "the" row it renews and hands
its epoch on: with two rows there, the other would stay behind with the same
epoch. `StepKinds` reduces every action to three kinds of change of the table:
it shrinks, its leases are renewed, or it is an acquire; one lemma per kind
preserves the invariant. `FencingTokens` adds that a snapshot's epochs are
bounded by the counter, and the lemma `Lineage`: a row of the next state is one
of this state's with the same owner and epoch, or its epoch is above the old
counter. The action properties follow from what each verb may take: a row that
is lost under an open call was released by its owner, broken by force, or taken
again by its owner for a lease that ends before the call began, since a reclaim
asks `InFlight`, which the call itself makes true (`CallsInv`: one row per call,
begun in the past).

**WriteGate.** The hooks keep a clock reading for several steps; `HooksTimely`
bounds its age by `MaxLag`, which the hooks' own lease outlasts, and with it every step of a hook is a step or a
stutter of `LockStore`, so that all of the store's theorems hold beneath the
gate. A covered writer is `Shielded`: an open, unflagged call of its own with a
row on its path whose lease outlasted the call's beginning. Two of them collide
only against `Exclusive`.

**GitGate.** `GateInv` says, per pusher, what a round may rely on between its
steps (`RoundInv`): a pusher that selects has the flock; a claimed batch is the
landing of its members on the snapshot, its members write disjoint paths and
found their preimages there; a pusher that commits has a green verdict on
exactly that chain. Disjoint write sets are what lets a member's preimage be
checked on the snapshot instead of behind the members before it, and the
compare on `refs/loto/integration` makes the snapshot the last element of the
log. `ClaimFencesPeers` holds because a claim is inserted in the transaction
that compares the epoch of a lease of the author's with the envelope's. That look
does not ask for the checkout, but an epoch names one lease of its path over all
checkouts and all time (`LeasesIdentified`), and the envelope's is that of a lease in the
candidate's own (`EpochsCaptured`); so that lease stands, no other is in its
place, and none is granted over a claim. `DoctorSparesAccepted` holds because a
candidate that is queued when doctor lists the refs drops out of its list, and
one that is queued later was accepted later. The refinement
`ImplementsIntegration` maps each step of submit, promote and doctor to a step
or a stutter of `Integration`. `LiveBatchesDisjoint` has the hypothesis
`Misreading = {}`: a pusher that cannot read a promoting ref leaves it standing
and passes over it, so that it may take the same candidates into a batch of its
own. The other properties are proved without the hypothesis, and `GitGate_races`
checks the refinement with such pushers.

**Observation.** Delivery needs that report ids are filed once and that what
waits is not handed over. Attribution is the longest argument. `BookInv` says
that the tables are about bytes somebody wrote, that epochs and numbers only
grow, and that a row's numbers are below its path's. Above it, for a file of
which one call wrote the bytes on disk: whoever looked at the path after the
change was numbered saw these bytes (`NumberInv`), the author's row either is
still open with an older digest or was posted with the number of the change
(`AuthorInv`), and who starts after the author ended read these bytes
(`ReadInv`). An event that finds the bytes then has the author in its interval.
The properties claim nothing for files whose observations were overtaken, and
`NamesTheWriter` nothing for bytes that came back; section 3 gives the traces.

**Violations.** `ScanInv` says what a pass has classified at each of its
steps, `TableInv` that ids number the rows, that one checkout has one open row
per path, and that acknowledged bytes are on no open row. The last is
preserved by a pass that read the table before the acknowledgement because the
recording asks again in its own transaction.

**Sync.** A run in a batch has the op-flock and no path of the batch has a
conflict (`Decided`): holds and claims are made under the flock, so they cannot
come between the decision and the rename. What was probed is still there or was
written since (`Probed`, `fresh`), and the report is kept as the files are
(`Reported`), for the failing branches too.

**Bridge.** The hard part is what a run may rely on between its reads and the
two ref writes, while integration, main and both refs move. `RunOk` and `Ready`
say it without the current refs: the commits a run lists are without gaps above
what main had; a bead it will build has its own commits, in order, that apply
on the parent, and leaves out none but those on main or before the marker that
was read. All of this is stable, since integration is only appended to and what
main has only grows (`Grows` and the lemmas named `...Stays`). The compare-and-swap of both
refs then ties the plan to the branch that stands (`BuiltIs`), where commits
that apply on a branch and commits that apply at its fork apply there together
(`AppliesTogether`). `InOrder` is a CHOOSE; that there is something to choose is
`OrderExists`, by the least bound of a set without an order. `HandsOff` is
needed because a branch made by hand stands without a marker.

**Guard.** `RecordTrue` says that a record's start time is that of its pid and
its owner, `OwnRecord` that a session writes its own record and nobody else's
stands in for it, `Distinct` that processes that are up have their sockets and
share neither pid nor id. The count of the live gate is then taken over
finitely many ids: two owners are two distinct elements, those of the caller's
own record and of a peer's, which is why `AloneMeansAlone` asks that the count
read both. `BirthInv` says that
the transactions that move a HEAD have that HEAD's lock to themselves, so that
the one claimant `headWorktreeBirth` finds is the caller's own.

Only model-checked: liveness (`QueueDrains`, `ResidueCleared`, `FlockReturned`),
which is outside TLAPS, and the departure `NeverTooLow`, which is refuted.

## 5. Plan

Modelling is complete for the coordination core, and every safety property of a
passing run is a theorem. What more there is to prove:

1. That a batch's landing is what landing its members one after the other would
   give, in any order (`ChainTree` for disjoint write sets).
2. That a run's verdict on a bead, taken from refs that do not move, is the one
   the refs at the time of the build would give (`Verdict`).

## 6. Not modelled

* Opening, migration and recovery of the store: file operations under SQLite's
  and the file system's rules; two processes that bootstrap integration at
  once, which one create-only ref transaction decides.
* Lanes and the shared verify tree: git worktrees and subprocesses. `GitGate`
  takes the verdict of a verify as arbitrary.
* Tags, territory tags, the audit log and its rotation, presence files,
  `RecordCheckout` (an unlocked read-modify-write of a session record that
  only feeds reports), `LOTO_AGENT_ID` pins, refusal and override counters
  (not transactional: two claims at once count one refusal twice).
* Text rendering, argument parsing, path canonicalisation, read-only reports,
  doctor's inspection of settings and binaries: no coordination state.
