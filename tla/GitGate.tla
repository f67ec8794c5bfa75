------------------------------- MODULE GitGate -------------------------------
(***************************************************************************)
(* The git gate: `loto submit` accepts a candidate, `loto promote` lands   *)
(* accepted candidates on refs/loto/integration, `loto doctor --repair`    *)
(* releases the claims that acceptance or promotion left behind            *)
(* (internal/gate, internal/store/admission.go, cmd_submit.go,             *)
(* cmd_promote.go, cmd_doctor.go).                                         *)
(*                                                                         *)
(* Everything they share is refs and rows: refs change by one atomic       *)
(* update-ref transaction at a time, each line compared with the value     *)
(* its writer expects; rows by one store transaction at a time.  The       *)
(* promotion flock serializes phase 1 and phase 3 of pushers, not          *)
(* submits, rejections, releases or doctors.                               *)
(*                                                                         *)
(* The lease table is reduced to what the gate reads of it: who holds a    *)
(* path in which checkout, at which epoch (LockStore has the table, with   *)
(* the rows that name no checkout).  A git transaction is taken to report  *)
(* what it did.                                                            *)
(***************************************************************************)
EXTENDS CandidateChain, FiniteSets

CONSTANTS
    Owners,
    Checkouts,     \* the linked checkouts of the repository
    Author,        \* the owner each candidate is submitted by
    CheckoutOf,    \* the checkout each candidate is submitted from
    Pushers,       \* `loto promote` processes; a batch is named by its pusher
    NoPusher,
    Mortal,        \* pushers that may die, or exit on an error, mid-way
    Unwitnessed,   \* pushers whose death no probe can prove (another host)
    Misreading,    \* pushers whose git may fail to read a promoting ref
    Doctors,       \* `loto doctor --repair` processes
    MaxBatch,
    MaxEpoch       \* bound: grants per path

ASSUME GateAssumption ==
    /\ Author \in [Candidates -> Owners] /\ CheckoutOf \in [Candidates -> Checkouts]
    /\ NoPusher \notin Pushers
    /\ MaxBatch \in Nat /\ MaxEpoch \in Nat

VARIABLES
    leases,        \* the lease rows, at most one per path and checkout
    path_epochs,   \* [Paths -> Nat], the generation counter of each path
    submit,        \* [Candidates -> step of its submit]
    envelope,      \* [Candidates -> [expected, epochs]], fixed at capture
    claims,        \* candidates whose candidate_claims rows stand
    candidates,    \* refs/loto/candidates/* with refs/loto/proposals/*
    promoting,     \* refs/loto/promoting/*, one per claimed batch
    integration,   \* refs/loto/integration as the batches that led to it
    flock,         \* the pusher holding loto-promote.flock
    pusher,        \* [Pushers -> where its round is]
    doctor,        \* [Doctors -> where its repair is]
    green,         \* history: chains some verify passed, with their parent
    redAlone       \* history: candidates some verify failed on their own

submitVars == <<leases, path_epochs, submit, envelope>>
refVars    == <<candidates, promoting, integration>>
pushVars   == <<flock, pusher, green, redAlone>>
vars == <<submitVars, claims, refVars, pushVars, doctor>>

------------------------------------------------------------------------------
Lease == [path : Paths, checkout : Checkouts, owner : Owners, epoch : Nat]

Chain == [members : SUBSET Candidates, tree : Tree]

(***************************************************************************)
(* snap: the batches below the snapshot of phase 1.  listed: candidates it *)
(* listed and no promoting ref it read names.  tip: the chain built on it. *)
(* todo: what the sweep after a red batch has still to try alone, in id    *)
(* order; a round is solo while it is not empty.  settling: retired        *)
(* candidates whose claims are still to be released.                       *)
(***************************************************************************)
Pusher == [pc : {"idle", "select", "verify", "commit", "drop", "reject",
                 "settle", "dead"},
           snap : Nat, listed : SUBSET Candidates, tip : Chain,
           todo : SUBSET Candidates, settling : SUBSET Candidates]

Idle == [pc |-> "idle", snap |-> 0, listed |-> {}, tip |-> Bootstrap,
         todo |-> {}, settling |-> {}]

TypeOK ==
    /\ leases \subseteq Lease
    /\ path_epochs \in [Paths -> Nat]
    /\ submit \in [Candidates -> {"new", "leased", "captured", "admitted",
                       "claimed", "accepted", "rejected", "failed"}]
    /\ \A k \in Candidates :
           /\ envelope[k].expected \in [WriteSet(k) -> Contents \union {Absent}]
           /\ envelope[k].epochs \in [WriteSet(k) -> Nat]
    /\ claims \subseteq Candidates
    /\ candidates \subseteq Candidates
    /\ promoting \subseteq [by : Pushers, members : SUBSET Candidates]
    /\ integration \in Seq(Chain) /\ Len(integration) > 0
    /\ flock \in Pushers \union {NoPusher}
    /\ pusher \in [Pushers -> Pusher]
    /\ doctor \in [Doctors -> [pc : {"idle", "listed", "release"},
                               ids : SUBSET Candidates]]
    /\ green \subseteq [parent : Nat, chain : Chain]
    /\ redAlone \subseteq Candidates

Init ==
    /\ leases = {}
    /\ path_epochs = [p \in Paths |-> 0]
    /\ submit = [k \in Candidates |-> "new"]
    /\ envelope = [k \in Candidates |->
           [expected |-> [p \in WriteSet(k) |-> Absent],
            epochs |-> [p \in WriteSet(k) |-> 0]]]
    /\ claims = {}
    /\ candidates = {}
    /\ promoting = {}
    /\ integration = <<Bootstrap>>
    /\ flock = NoPusher
    /\ pusher = [p \in Pushers |-> Idle]
    /\ doctor = [d \in Doctors |-> [pc |-> "idle", ids |-> {}]]
    /\ green = {}
    /\ redAlone = {}

------------------------------------------------------------------------------
(* Leases: granted on a path nobody holds in that checkout and no          *)
(* candidate claims, from whichever checkout; they end by release, reclaim *)
(* or break, whichever.                                                    *)

GrantLease(o, w, p) ==
    /\ \A l \in leases : ~(l.path = p /\ l.checkout = w)
    /\ \A k \in claims : p \notin WriteSet(k)
    /\ path_epochs[p] < MaxEpoch
    /\ path_epochs' = [path_epochs EXCEPT ![p] = @ + 1]
    /\ leases' = leases \union {[path |-> p, checkout |-> w, owner |-> o,
                                epoch |-> path_epochs[p] + 1]}
    /\ UNCHANGED <<submit, envelope, claims, refVars, pushVars, doctor>>

EndLease(l) ==
    /\ leases' = leases \ {l}
    /\ UNCHANGED <<path_epochs, submit, envelope, claims, refVars, pushVars, doctor>>

(* The author's leases on a path, in every checkout... *)
AuthorLeases(k, p) == {l \in leases : l.path = p /\ l.owner = Author[k]}

(* ...and the one LocksForOwnerAt finds, in the checkout of the submit.    *)
HoldsAt(k, p, epoch) ==
    \E l \in AuthorLeases(k, p) : l.checkout = CheckoutOf[k] /\ l.epoch = epoch

------------------------------------------------------------------------------
(* What a candidate needs of a tree. *)

(* checkTransitionsCurrent: the captured preimages still stand. *)
TransitionsCurrent(k, tree) ==
    \A p \in WriteSet(k) : tree[p] = envelope[k].expected[p]

(* Ancestor directories of the paths a candidate creates over tree. *)
Ancestry(k, expected) ==
    UNION {AncestorsOf(p) : p \in {q \in WriteSet(k) : expected[q] = Absent}}

(* checkAncestryCurrent: they are still directories. *)
AncestryCurrent(k, tree) ==
    \A d \in Ancestry(k, envelope[k].expected) : IsDir(tree, d)

(* classifyStale finds nothing to say. *)
Fresh(k, tree) == TransitionsCurrent(k, tree) /\ AncestryCurrent(k, tree)

Tip == integration[Len(integration)].tree

------------------------------------------------------------------------------
(* runSubmit, in the order of the code.                                    *)

SubmitStep(k, from, to) == submit[k] = from /\ submit' = [submit EXCEPT ![k] = to]

SubmitLeaseCheck(k) ==
    /\ SubmitStep(k, "new", "leased")
    /\ \E epochs \in [WriteSet(k) -> {l.epoch : l \in leases}] :
           /\ \A p \in WriteSet(k) : HoldsAt(k, p, epochs[p])
           /\ envelope' = [envelope EXCEPT ![k].epochs = epochs]
    /\ UNCHANGED <<leases, path_epochs, claims, refVars, pushVars, doctor>>

(* Capture, from the integration commit lane.Commit was based on. *)
CaptureRejects(k) ==
    \/ \E p \in WriteSet(k) : IsDir(Tip, p)
    \/ \E d \in Ancestry(k, Tip) : ~IsDir(Tip, d)

SubmitCapture(k) ==
    /\ \/ /\ ~CaptureRejects(k)
          /\ SubmitStep(k, "leased", "captured")
          /\ envelope' = [envelope EXCEPT ![k].expected =
                 [p \in WriteSet(k) |-> Tip[p]]]
       \/ /\ CaptureRejects(k)
          /\ SubmitStep(k, "leased", "rejected")
          /\ UNCHANGED envelope
    /\ UNCHANGED <<leases, path_epochs, claims, refVars, pushVars, doctor>>

(* Admit; violations is what the sensor has open on this checkout now. *)
Admissible(k, violations) ==
    /\ \A p \in WriteSet(k) : Result[k][p] # envelope[k].expected[p]
    /\ \A p \in WriteSet(k) : HoldsAt(k, p, envelope[k].epochs[p])
    /\ Fresh(k, Tip)
    /\ WriteSet(k) \intersect violations = {}

SubmitAdmit(k) ==
    /\ \E violations \in SUBSET WriteSet(k) :
           \/ Admissible(k, violations) /\ SubmitStep(k, "captured", "admitted")
           \/ ~Admissible(k, violations) /\ SubmitStep(k, "captured", "rejected")
    /\ UNCHANGED <<leases, path_epochs, envelope, claims, refVars, pushVars, doctor>>

(* LOTO_GATE=off: accepted without a verdict. *)
SubmitBypass(k) ==
    /\ SubmitStep(k, "captured", "admitted")
    /\ UNCHANGED <<leases, path_epochs, envelope, claims, refVars, pushVars, doctor>>

(* Seeded fault: the leases admission read are taken as current. *)
LeasesUnread(k) == TRUE

(* revalidateClaimLeasesTx looks the author's lease up by path alone: with *)
(* rows in several checkouts the last one scanned answers, any of them.    *)
LeasesStand(k) ==
    \A p \in WriteSet(k) :
        \E l \in AuthorLeases(k, p) : l.epoch = envelope[k].epochs[p]

LeasesFell(k) ==
    \E p \in WriteSet(k) :
        \/ AuthorLeases(k, p) = {}
        \/ \E l \in AuthorLeases(k, p) : l.epoch # envelope[k].epochs[p]

(* AcceptCandidate: the claims under a fresh look at the leases... *)
InsertClaims(k) ==
    /\ \/ /\ LeasesStand(k)
          /\ SubmitStep(k, "admitted", "claimed")
          /\ claims' = claims \union {k}
       \/ /\ LeasesFell(k)
          /\ SubmitStep(k, "admitted", "rejected")
          /\ UNCHANGED claims
    /\ UNCHANGED <<leases, path_epochs, envelope, refVars, pushVars, doctor>>

(* ...then the refs... *)
WriteCandidateRefs(k) ==
    /\ SubmitStep(k, "claimed", "accepted")
    /\ candidates' = candidates \union {k}
    /\ UNCHANGED <<leases, path_epochs, envelope, claims, promoting, integration, pushVars, doctor>>

(* ...or no refs: the claims are taken back, unless that fails as well or  *)
(* the process was killed.                                                 *)
AcceptFails(k) ==
    /\ SubmitStep(k, "claimed", "failed")
    /\ claims' = claims \ {k} \/ UNCHANGED claims
    /\ UNCHANGED <<leases, path_epochs, envelope, refVars, pushVars, doctor>>

------------------------------------------------------------------------------
(* Promote: phase 1. *)

Least(S) == {k \in S : \A j \in S : k <= j}

Rest(S) == S \ Least(S)

(* Seeded fault: no liveness probe, no batch is ever reclaimed. *)
NeverProvablyDead(p) == FALSE

ProvablyDead(p) == pusher[p].pc = "dead" /\ p \notin Unwitnessed

(* Seeded fault: phase 1 without the flock. *)
ScanQueueUnlocked(p) ==
    LET live == {b \in promoting : ~ProvablyDead(b.by)}
    IN  /\ pusher[p].pc = "idle"
        /\ promoting' = live
        /\ pusher' = [pusher EXCEPT ![p] = [@ EXCEPT
               !.pc = "select", !.snap = Len(integration),
               !.listed = candidates \ UNION {b.members : b \in live}]]
        /\ UNCHANGED <<submitVars, claims, candidates, integration, flock, doctor, green, redAlone>>

(* Under the flock: the snapshot, reclaimDeadPromotions, the candidates.   *)
(* A claim git fails to read is neither reclaimed nor respected.           *)
ScanQueue(p) ==
    /\ pusher[p].pc = "idle"
    /\ flock = NoPusher
    /\ flock' = p
    /\ \E unread \in IF p \in Misreading THEN SUBSET promoting ELSE {{}} :
           LET dead == {b \in promoting \ unread : ProvablyDead(b.by)}
               live == promoting \ (unread \union dead)
           IN  /\ promoting' = promoting \ dead
               /\ pusher' = [pusher EXCEPT ![p] = [@ EXCEPT
                      !.pc = "select", !.snap = Len(integration),
                      !.listed = candidates \ UNION {b.members : b \in live}]]
    /\ UNCHANGED <<submitVars, claims, candidates, integration, doctor, green, redAlone>>

(* Not another batch's, the one the sweep is at, and not stale. *)
Eligible(p) ==
    {k \in pusher[p].listed :
        /\ pusher[p].todo # {} => k \in Least(pusher[p].todo)
        /\ Fresh(k, integration[pusher[p].snap].tree)}

(* Seeded fault: overlapping write sets in one batch. *)
SelectedOverlapping(S, eligible, limit) ==
    \A k \in eligible : k \in S <=> Cardinality({j \in S : j < k}) < limit

(* selectCandidates: in id order, up to the limit, no overlap with those   *)
(* taken before.                                                           *)
Selected(S, eligible, limit) ==
    \A k \in eligible :
        LET before == {j \in S : j < k}
        IN  k \in S <=> /\ Cardinality(before) < limit
                        /\ \A j \in before : WriteSet(j) \intersect WriteSet(k) = {}

(* Still under the flock: the batch is chosen, built and claimed. *)
ClaimBatch(p) ==
    /\ pusher[p].pc = "select"
    /\ \E S \in SUBSET Eligible(p) :
           /\ Selected(S, Eligible(p), IF pusher[p].todo = {} THEN MaxBatch ELSE 1)
           /\ \/ /\ S = {}
                 /\ pusher' = [pusher EXCEPT ![p] = [Idle EXCEPT
                        !.todo = Rest(pusher[p].todo)]]
                 /\ UNCHANGED promoting
              \/ /\ S # {}
                 /\ pusher' = [pusher EXCEPT ![p] = [@ EXCEPT !.pc = "verify",
                        !.listed = {},
                        !.tip = Landing(integration[pusher[p].snap].tree, S)]]
                 /\ promoting' = promoting \union {[by |-> p, members |-> S]}
    /\ flock' = NoPusher
    /\ UNCHANGED <<submitVars, claims, candidates, integration, doctor, green, redAlone>>

------------------------------------------------------------------------------
(* Phase 2, with no lock held: the verify command passes, fails or does    *)
(* not reach a verdict.                                                    *)

VerifyPasses(p) ==
    /\ pusher[p].pc = "verify"
    /\ pusher' = [pusher EXCEPT ![p].pc = "commit"]
    /\ green' = green \union {[parent |-> pusher[p].snap, chain |-> pusher[p].tip]}
    /\ UNCHANGED <<submitVars, claims, refVars, flock, redAlone, doctor>>

(* Seeded fault: a red batch rejects its members. *)
VerifyRedRejectsBatch(p) ==
    /\ pusher[p].pc = "verify"
    /\ pusher' = [pusher EXCEPT ![p].pc = "reject"]
    /\ redAlone' = IF Cardinality(pusher[p].tip.members) = 1
                   THEN redAlone \union pusher[p].tip.members ELSE redAlone
    /\ UNCHANGED <<submitVars, claims, refVars, flock, green, doctor>>

(* A red batch is dropped and its members tried alone; alone, red rejects. *)
VerifyRed(p) ==
    /\ pusher[p].pc = "verify"
    /\ \/ /\ pusher[p].todo = {}
          /\ pusher' = [pusher EXCEPT ![p] = [@ EXCEPT !.pc = "drop",
                            !.todo = pusher[p].tip.members]]
          /\ UNCHANGED redAlone
       \/ /\ pusher[p].todo # {}
          /\ pusher' = [pusher EXCEPT ![p].pc = "reject"]
          /\ redAlone' = redAlone \union pusher[p].tip.members
    /\ UNCHANGED <<submitVars, claims, refVars, flock, green, doctor>>

(* Seeded fault: no verdict counts as a pass. *)
VerifyInfraPasses(p) ==
    /\ pusher[p].pc = "verify"
    /\ pusher' = [pusher EXCEPT ![p].pc = "commit"]
    /\ UNCHANGED <<submitVars, claims, refVars, flock, green, redAlone, doctor>>

VerifyInfra(p) ==
    /\ pusher[p].pc = "verify"
    /\ pusher' = [pusher EXCEPT ![p] = [@ EXCEPT !.pc = "drop", !.todo = {}]]
    /\ UNCHANGED <<submitVars, claims, refVars, flock, green, redAlone, doctor>>

------------------------------------------------------------------------------
(* Phase 3 and the ends of a round. *)

OwnBatch(p) == [by |-> p, members |-> pusher[p].tip.members]

(* releaseBatch. *)
DropBatch(p) ==
    /\ pusher[p].pc = "drop"
    /\ OwnBatch(p) \in promoting
    /\ promoting' = promoting \ {OwnBatch(p)}
    /\ pusher' = [pusher EXCEPT ![p] = [Idle EXCEPT !.todo = pusher[p].todo]]
    /\ UNCHANGED <<submitVars, claims, candidates, integration, flock, green, redAlone, doctor>>

(* Seeded fault: integration is set without comparing it. *)
CASHoldsOnRefs(p) ==
    /\ pusher[p].tip.members \subseteq candidates
    /\ OwnBatch(p) \in promoting

(* Every line of the phase 3 transaction finds the value it expects. *)
CASHolds(p) ==
    /\ Len(integration) = pusher[p].snap
    /\ pusher[p].tip.members \subseteq candidates
    /\ OwnBatch(p) \in promoting

(* Seeded fault: the candidate refs outlive the batch. *)
RetireClaimOnly(p) ==
    /\ candidates' = candidates
    /\ promoting' = promoting \ {OwnBatch(p)}

(* The deletes of the transaction. *)
RetireRefs(p) ==
    /\ candidates' = candidates \ pusher[p].tip.members
    /\ promoting' = promoting \ {OwnBatch(p)}

(* Seeded fault: the loop over the retired members is off by one. *)
SettleOffByOne(p) ==
    pusher' = [pusher EXCEPT ![p] = [Idle EXCEPT !.pc = "settle",
                  !.todo = Rest(pusher[p].todo),
                  !.settling = {k + 1 : k \in pusher[p].tip.members}]]

Settle(p) ==
    pusher' = [pusher EXCEPT ![p] = [Idle EXCEPT !.pc = "settle",
                  !.todo = Rest(pusher[p].todo),
                  !.settling = pusher[p].tip.members]]

CommitBatch(p) ==
    /\ pusher[p].pc = "commit"
    /\ flock = NoPusher
    /\ \/ /\ CASHolds(p)
          /\ integration' = Append(SubSeq(integration, 1, pusher[p].snap), pusher[p].tip)
          /\ RetireRefs(p)
          /\ Settle(p)
       \/ /\ ~CASHolds(p)
          /\ pusher' = [pusher EXCEPT ![p] = [@ EXCEPT !.pc = "drop",
                            !.todo = Rest(pusher[p].todo)]]
          /\ UNCHANGED refVars
    /\ UNCHANGED <<submitVars, claims, flock, green, redAlone, doctor>>

RejectSolo(p) ==
    /\ pusher[p].pc = "reject"
    /\ pusher[p].tip.members \subseteq candidates
    /\ OwnBatch(p) \in promoting
    /\ RetireRefs(p)
    /\ Settle(p)
    /\ UNCHANGED <<submitVars, claims, integration, flock, green, redAlone, doctor>>

(* A peer retired the candidate first: the transaction fails, and promote  *)
(* exits on it with its promoting ref standing.                            *)
RejectLost(p) ==
    /\ pusher[p].pc = "reject"
    /\ ~(pusher[p].tip.members \subseteq candidates /\ OwnBatch(p) \in promoting)
    /\ pusher' = [pusher EXCEPT ![p] = [Idle EXCEPT !.pc = "dead"]]
    /\ UNCHANGED <<submitVars, claims, refVars, flock, green, redAlone, doctor>>

(* The claims of the retired candidates go one by one; a failed release is *)
(* reported and left to doctor.                                            *)
ReleaseClaims(p) ==
    LET left == Rest(pusher[p].settling)
    IN  /\ pusher[p].pc = "settle"
        /\ claims' = claims \ Least(pusher[p].settling) \/ UNCHANGED claims
        /\ pusher' = [pusher EXCEPT ![p] = [@ EXCEPT !.settling = left,
                          !.pc = IF left = {} THEN "idle" ELSE "settle"]]
        /\ UNCHANGED <<submitVars, refVars, flock, green, redAlone, doctor>>

(* Killed, or left on an error: the kernel frees the flock, the promoting  *)
(* ref stays.                                                              *)
PusherDies(p) ==
    /\ p \in Mortal
    /\ pusher[p].pc \notin {"idle", "dead"}
    /\ pusher' = [pusher EXCEPT ![p] = [Idle EXCEPT !.pc = "dead"]]
    /\ flock' = IF flock = p THEN NoPusher ELSE flock
    /\ UNCHANGED <<submitVars, claims, refVars, green, redAlone, doctor>>

------------------------------------------------------------------------------
(* scanClaimResidue reads the claims, then the refs; releaseClaimResidue   *)
(* drops what had none, candidate by candidate.  Either stops at an error. *)

DoctorListsClaims(d) ==
    /\ doctor[d].pc = "idle"
    /\ claims # {}
    /\ doctor' = [doctor EXCEPT ![d] = [pc |-> "listed", ids |-> claims]]
    /\ UNCHANGED <<submitVars, claims, refVars, pushVars>>

(* Seeded fault: the ids with a ref are kept as residue. *)
DoctorListsRefsInverted(d) ==
    /\ doctor[d].pc = "listed"
    /\ doctor' = [doctor EXCEPT ![d] =
           [pc |-> "release", ids |-> @.ids \intersect candidates]]
    /\ UNCHANGED <<submitVars, claims, refVars, pushVars>>

(* Seeded fault: a failed read of the refs is taken for an empty list. *)
DoctorListsNoRefs(d) ==
    /\ doctor[d].pc = "listed"
    /\ doctor' = [doctor EXCEPT ![d].pc = "release"]
    /\ UNCHANGED <<submitVars, claims, refVars, pushVars>>

DoctorListsRefs(d) ==
    /\ doctor[d].pc = "listed"
    /\ doctor' = [doctor EXCEPT ![d] = [pc |-> "release", ids |-> @.ids \ candidates]]
    /\ UNCHANGED <<submitVars, claims, refVars, pushVars>>

DoctorReleases(d) ==
    /\ doctor[d].pc = "release"
    /\ claims' = claims \ Least(doctor[d].ids)
    /\ doctor' = [doctor EXCEPT ![d] =
           [pc |-> IF Rest(@.ids) = {} THEN "idle" ELSE "release", ids |-> Rest(@.ids)]]
    /\ UNCHANGED <<submitVars, refVars, pushVars>>

DoctorStops(d) ==
    /\ doctor[d].pc \in {"listed", "release"}
    /\ doctor' = [doctor EXCEPT ![d] = [pc |-> "idle", ids |-> {}]]
    /\ UNCHANGED <<submitVars, claims, refVars, pushVars>>

------------------------------------------------------------------------------
LeaseStep ==
    \/ \E o \in Owners, w \in Checkouts, p \in Paths : GrantLease(o, w, p)
    \/ \E l \in leases : EndLease(l)

Submit(k) ==
    \/ SubmitLeaseCheck(k) \/ SubmitCapture(k) \/ SubmitAdmit(k) \/ SubmitBypass(k)
    \/ InsertClaims(k) \/ WriteCandidateRefs(k) \/ AcceptFails(k)

Promote(p) ==
    \/ ScanQueue(p) \/ ClaimBatch(p)
    \/ VerifyPasses(p) \/ VerifyRed(p) \/ VerifyInfra(p)
    \/ DropBatch(p) \/ CommitBatch(p) \/ RejectSolo(p) \/ RejectLost(p)
    \/ ReleaseClaims(p) \/ PusherDies(p)

Doctor(d) ==
    \/ DoctorListsClaims(d) \/ DoctorListsRefs(d)
    \/ DoctorReleases(d) \/ DoctorStops(d)

Next ==
    \/ LeaseStep
    \/ \E k \in Candidates : Submit(k)
    \/ \E p \in Pushers : Promote(p)
    \/ \E d \in Doctors : Doctor(d)

Spec == Init /\ [][Next]_vars

------------------------------------------------------------------------------
(* Safety. *)

(* A pusher's batch stays claimed from phase 1 until its own transaction   *)
(* retires it, and no two live pushers hold a candidate in common, however *)
(* deaths, reclaims, drops and rejections outside the flock interleave.    *)
BatchesDisjoint ==
    /\ \A p \in Pushers :
           pusher[p].pc \in {"verify", "commit", "drop", "reject"}
               => OwnBatch(p) \in promoting
    /\ \A b, c \in promoting :
           b.by # c.by /\ ~ProvablyDead(b.by) /\ ~ProvablyDead(c.by)
               => b.members \intersect c.members = {}

(* Every candidate on integration replaced exactly the contents its author *)
(* captured, in the middle of a batch too (the "CAS theorem" of            *)
(* promotion.go), although it was only compared with a snapshot and the    *)
(* verify ran unlocked.                                                    *)
PreimageCAS ==
    \A i \in 2..Len(integration) : \A k \in integration[i].members :
        TransitionsCurrent(k, Parent(integration[i - 1].tree,
                                     integration[i].members, k))

(* Integration only ever stood at trees some verify passed, on the parent  *)
(* they were landed on: machine-verified integrated state.                 *)
VerifiedIntegration ==
    \A i \in 2..Len(integration) :
        [parent |-> i - 1, chain |-> integration[i]] \in green

(* A candidate is landed at most once and never still queued once landed,  *)
(* whichever pushers picked it up, retried it or died over it.             *)
LandedOnce ==
    /\ \A i, j \in 1..Len(integration) :
           i # j => integration[i].members \intersect integration[j].members = {}
    /\ \A i \in 1..Len(integration) : integration[i].members \intersect candidates = {}

(* From the lease check of a submit to the release of its claims, over a   *)
(* capture, an admission and a claim that each look again, no other owner  *)
(* comes to lease a path of the candidate in the checkout it was submitted *)
(* from, though the claim's last look does not ask for the checkout.  In a *)
(* linked checkout a peer's lease may stand, from before the claim.        *)
ClaimFencesPeers ==
    \A k \in claims, l \in leases :
        l.path \in WriteSet(k) /\ l.checkout = CheckoutOf[k] => l.owner = Author[k]

(* A candidate leaves the queue only by landing or after a red verdict on  *)
(* a chain of its own: not for being stale, in a red batch, without a      *)
(* verdict, or in the batch of a dead pusher.                              *)
LeavesResolved ==
    [][\A k \in candidates \ candidates' :
          k \in integration'[Len(integration')].members \union redAlone]_vars

------------------------------------------------------------------------------
(* The gate implements the abstract queue of Integration.                  *)

Gate == INSTANCE Integration WITH
    log      <- integration,
    queue    <- candidates,
    expected <- [k \in Candidates |->
                    IF submit[k] = "accepted" THEN envelope[k].expected ELSE <<>>],
    done     <- {k \in Candidates : submit[k] = "accepted"} \ candidates

ImplementsIntegration == Gate!Spec

------------------------------------------------------------------------------
(* What doctor holds for residue: claims it will release. *)
Residue(d, k) == doctor[d].pc = "release" /\ k \in doctor[d].ids

(* Doctor takes the claims of a queued candidate for residue in one way    *)
(* only: their acceptance wrote its refs after doctor had looked for them  *)
(* (a window the code has, cmd_doctor.go:497).  What was accepted before   *)
(* that look, however the reads of claims and refs fall between the steps  *)
(* of submits, promotions and other doctors, keeps its claims              *)
(* (scanClaimResidue).                                                     *)
DoctorSparesAccepted ==
    [][\A d \in Doctors, k \in Candidates :
          Residue(d, k)' /\ k \in candidates' =>
              \/ Residue(d, k) /\ k \in candidates
              \/ submit[k] = "claimed" /\ submit'[k] = "accepted"]_vars

(***************************************************************************)
(* Liveness.  Somebody keeps running `loto promote`: a pusher that does    *)
(* not die starts round after round and gets the flock within its 30s; any *)
(* other pusher, once inside a round, moves on or dies, its git and verify *)
(* subprocesses being time-limited.  Likewise for doctor.                  *)
(***************************************************************************)
PushFairness(p) ==
    /\ SF_vars(ScanQueue(p)) /\ WF_vars(ClaimBatch(p))
    /\ WF_vars(VerifyPasses(p) \/ VerifyRed(p) \/ VerifyInfra(p))
    /\ WF_vars(DropBatch(p)) /\ SF_vars(CommitBatch(p))
    /\ WF_vars(RejectSolo(p)) /\ WF_vars(ReleaseClaims(p))

DoctorFairness(d) ==
    /\ WF_vars(DoctorListsClaims(d))
    /\ SF_vars(DoctorListsRefs(d)) /\ SF_vars(DoctorReleases(d))

FairSpec ==
    /\ Spec
    /\ \A p \in Pushers \ Mortal : PushFairness(p)
    /\ \A p \in Mortal : WF_vars(pusher[p].pc # "idle" /\ Promote(p))
    /\ \A d \in Doctors : DoctorFairness(d)

(* The verify command comes to reach its verdicts. *)
VerdictsReached == <>[][\A p \in Pushers : ~VerifyInfra(p)]_vars

Resolves(k) == k \in candidates ~> (k \notin candidates \/ ~Fresh(k, Tip))

(* Once the mortal pushers have died or stopped, wherever that left their  *)
(* batches, no candidate is stuck behind them, behind red or stale peers   *)
(* or behind lost races: it lands, is rejected, or goes stale.             *)
QueueDrains ==
    /\ VerdictsReached
    /\ <>[](\A p \in Mortal : pusher[p].pc \in {"idle", "dead"})
    => \A k \in Candidates : Resolves(k)

(* Claims left by a failed acceptance or a failed release are cleared.     *)
ResidueCleared ==
    \A k \in Candidates :
        (k \in claims \ candidates /\ submit[k] \in {"accepted", "failed"})
            ~> k \notin claims
==============================================================================
