---------------------------- MODULE GitGateProofs ----------------------------
(***************************************************************************)
(* Proofs about GitGate, for any number of owners, candidates, pushers and *)
(* doctors, any write sets and any pattern of deaths.                      *)
(***************************************************************************)
EXTENDS GitGate, TLAPS

Accepted == {k \in Candidates : submit[k] = "accepted"}

(* No two members of a chain write one path. *)
Disjoint(S) ==
    \A j, k \in S : j # k => WriteSet(j) \intersect WriteSet(k) = {}

(* envelope is a table of records; TypeOK speaks of their fields. *)
Envelope == [expected : UNION {[WriteSet(k) -> Contents \union {Absent}] : k \in Candidates},
             epochs : UNION {[WriteSet(k) -> Nat] : k \in Candidates}]

EnvelopeShape == envelope \in [Candidates -> Envelope]

(* An epoch names one lease of its path, a checkout has one lease of it,   *)
(* and no epoch is ahead of the counter.                                   *)
LeasesIdentified ==
    /\ \A l \in leases : l.epoch \in 1..path_epochs[l.path]
    /\ \A l, m \in leases :
           l.path = m.path /\ (l.checkout = m.checkout \/ l.epoch = m.epoch) => l = m

(* An epoch a submit captured is that of a lease its author has, or had,   *)
(* in the checkout of the submit.                                          *)
EpochsCaptured ==
    \A k \in Candidates : submit[k] # "new" =>
        \A p \in WriteSet(k) :
            /\ envelope[k].epochs[p] <= path_epochs[p]
            /\ \A l \in leases :
                   l.path = p /\ l.epoch = envelope[k].epochs[p] =>
                       l.owner = Author[k] /\ l.checkout = CheckoutOf[k]

LeasesInv == LeasesIdentified /\ EpochsCaptured

(* A captured preimage is that of a state integration has been in. *)
CapturedFromHistory ==
    \A k \in Candidates :
        submit[k] \in {"captured", "admitted", "claimed", "accepted"} =>
            \E i \in 1..Len(integration) :
                envelope[k].expected = [p \in WriteSet(k) |-> integration[i].tree[p]]

(* The queue and the log are disjoint sets of accepted candidates. *)
QueueInv ==
    /\ candidates \subseteq Accepted
    /\ \A i \in 1..Len(integration) :
           integration[i].members \subseteq Accepted \ candidates
    /\ LandedOnce

(* Between ScanQueue and ClaimBatch a pusher has the flock. *)
SelectInv(p) ==
    pusher[p].pc = "select" =>
        /\ flock = p
        /\ pusher[p].snap \in 1..Len(integration)
        /\ pusher[p].listed \subseteq Accepted

(* A claimed batch: its chain is the landing of its members on the         *)
(* snapshot, and each found its preimage there.                            *)
BatchInv(p) ==
    pusher[p].pc \in {"verify", "commit", "drop", "reject"} =>
        /\ OwnBatch(p) \in promoting
        /\ pusher[p].snap \in 1..Len(integration)
        /\ pusher[p].tip = Landing(integration[pusher[p].snap].tree, pusher[p].tip.members)
        /\ pusher[p].tip.members # {}
        /\ pusher[p].tip.members \subseteq Accepted
        /\ Disjoint(pusher[p].tip.members)
        /\ \A k \in pusher[p].tip.members :
               TransitionsCurrent(k, integration[pusher[p].snap].tree)

(* What the verdict said, and that a solo round has one member. *)
VerdictInv(p) ==
    /\ pusher[p].pc = "commit" =>
           [parent |-> pusher[p].snap, chain |-> pusher[p].tip] \in green
    /\ pusher[p].pc = "reject" =>
           pusher[p].todo # {} /\ pusher[p].tip.members \subseteq redAlone
    /\ pusher[p].pc \in {"verify", "commit", "reject"} /\ pusher[p].todo # {} =>
           pusher[p].tip.members \subseteq Least(pusher[p].todo)

RoundInv == \A p \in Pushers : SelectInv(p) /\ BatchInv(p) /\ VerdictInv(p)

GateInv ==
    /\ TypeOK /\ EnvelopeShape /\ LeasesInv /\ CapturedFromHistory
    /\ QueueInv /\ RoundInv /\ PreimageCAS /\ VerifiedIntegration /\ ClaimFencesPeers

(* With every promoting ref readable: nothing a selecting pusher listed is *)
(* in a batch that stands.                                                 *)
ListedFree ==
    \A p \in Pushers : pusher[p].pc = "select" =>
        \A b \in promoting : pusher[p].listed \intersect b.members = {}

------------------------------------------------------------------------------
(* Chains. *)

(* A chain whose members write different paths has a tree. *)
LEMMA ChainTyped ==
    ASSUME NEW base \in Tree, NEW S \in SUBSET Candidates, Disjoint(S)
    PROVE  Landing(base, S) \in Chain
PROOF
  <1> USE CandidatesAssumption, ResultAssumption
  <1>1. ASSUME NEW p \in Paths PROVE ChainTree(base, S)[p] \in Contents \union {Absent}
    <2> DEFINE writers == {k \in S : p \in WriteSet(k)}
               last == CHOOSE k \in writers : \A j \in writers : j <= k
    <2>1. CASE writers = {}
      BY <2>1 DEF ChainTree, Tree
    <2>2. CASE writers # {}
      <3>1. PICK k \in writers : TRUE
        BY <2>2
      <3>2. \A j \in writers : j = k
        BY DEF Disjoint
      <3>3. k \in Nat
        OBVIOUS
      <3>4. \A j \in writers : j <= k
        BY <3>2, <3>3
      <3>5. last \in writers
        BY <3>4
      <3>6. Result[last][p] \in Contents \union {Absent}
        BY <3>5 DEF WriteSet
      <3>7. ChainTree(base, S)[p] = Result[last][p]
        BY <2>2 DEF ChainTree
      <3> QED BY <3>6, <3>7
    <2> QED BY <2>1, <2>2
  <1>2. ChainTree(base, S) \in Tree
    <2>1. ChainTree(base, S) = [p \in Paths |-> ChainTree(base, S)[p]]
      BY DEF ChainTree
    <2> QED BY <1>1, <2>1 DEF Tree
  <1> QED BY <1>2 DEF Landing, Chain

(* In a chain of disjoint write sets every member is applied to the        *)
(* contents the base has.                                                  *)
LEMMA ParentUntouched ==
    ASSUME NEW base, NEW S \in SUBSET Candidates, Disjoint(S), NEW k \in S,
           NEW p \in WriteSet(k)
    PROVE  Parent(base, S, k)[p] = base[p]
PROOF
  <1>1. p \in Paths
    BY ResultAssumption DEF WriteSet
  <1>2. ASSUME NEW j \in S, j < k, p \in WriteSet(j) PROVE FALSE
    <2>1. j # k
      BY <1>2, CandidatesAssumption
    <2> QED BY <1>2, <2>1 DEF Disjoint
  <1>3. {j \in {i \in S : i < k} : p \in WriteSet(j)} = {}
    BY <1>2
  <1> QED BY <1>1, <1>3 DEF Parent, ChainTree

(* selectCandidates never takes two candidates that write one path. *)
LEMMA SelectedDisjoint ==
    ASSUME NEW E \in SUBSET Candidates, NEW S \in SUBSET E, NEW limit,
           Selected(S, E, limit)
    PROVE  Disjoint(S)
PROOF
  <1> SUFFICES ASSUME NEW j \in S, NEW k \in S, j < k
               PROVE  WriteSet(j) \intersect WriteSet(k) = {}
    BY CandidatesAssumption DEF Disjoint
  <1> QED BY DEF Selected

(* Filling in one field of one envelope. *)
LEMMA ExpectedUpdate ==
    ASSUME EnvelopeShape, NEW k \in Candidates, NEW v \in [WriteSet(k) -> Contents \union {Absent}],
           envelope' = [envelope EXCEPT ![k].expected = v]
    PROVE  /\ EnvelopeShape'
           /\ \A j \in Candidates :
                  /\ envelope'[j].expected = IF j = k THEN v ELSE envelope[j].expected
                  /\ envelope'[j].epochs = envelope[j].epochs
PROOF
  <1> DEFINE E == UNION {[WriteSet(j) -> Contents \union {Absent}] : j \in Candidates}
             F == UNION {[WriteSet(j) -> Nat] : j \in Candidates}
  <1>1. envelope \in [Candidates -> [expected : E, epochs : F]]
    BY DEF EnvelopeShape, Envelope
  <1>2. v \in E
    OBVIOUS
  <1>3. Envelope = [expected : E, epochs : F]
    BY DEF Envelope
  <1> HIDE DEF E, F
  <1>4. EnvelopeShape'
    BY <1>1, <1>2, <1>3 DEF EnvelopeShape
  <1>5. ASSUME NEW j \in Candidates
        PROVE  /\ envelope'[j].expected = IF j = k THEN v ELSE envelope[j].expected
               /\ envelope'[j].epochs = envelope[j].epochs
    BY <1>1
  <1> QED BY <1>4, <1>5

LEMMA EpochsUpdate ==
    ASSUME EnvelopeShape, NEW k \in Candidates, NEW v \in [WriteSet(k) -> Nat],
           envelope' = [envelope EXCEPT ![k].epochs = v]
    PROVE  /\ EnvelopeShape'
           /\ \A j \in Candidates :
                  /\ envelope'[j].epochs = IF j = k THEN v ELSE envelope[j].epochs
                  /\ envelope'[j].expected = envelope[j].expected
PROOF
  <1> DEFINE E == UNION {[WriteSet(j) -> Contents \union {Absent}] : j \in Candidates}
             F == UNION {[WriteSet(j) -> Nat] : j \in Candidates}
  <1>1. envelope \in [Candidates -> [expected : E, epochs : F]]
    BY DEF EnvelopeShape, Envelope
  <1>2. v \in F
    OBVIOUS
  <1>3. Envelope = [expected : E, epochs : F]
    BY DEF Envelope
  <1> HIDE DEF E, F
  <1>4. EnvelopeShape'
    BY <1>1, <1>2, <1>3 DEF EnvelopeShape
  <1>5. ASSUME NEW j \in Candidates
        PROVE  /\ envelope'[j].epochs = IF j = k THEN v ELSE envelope[j].epochs
               /\ envelope'[j].expected = envelope[j].expected
    BY <1>1
  <1> QED BY <1>4, <1>5

(* The one solo candidate of a sweep. *)
LEMMA LeastUnique ==
    ASSUME NEW S \in SUBSET Candidates, NEW j \in Least(S), NEW k \in Least(S)
    PROVE  j = k
  BY CandidatesAssumption DEF Least

------------------------------------------------------------------------------
(* The side of submit, the leases and doctor: it leaves the refs and the   *)
(* pushers alone, and the envelopes of accepted candidates.                *)

SubmitSide ==
    /\ UNCHANGED <<refVars, pushVars>>
    /\ \A k \in Candidates :
           /\ submit'[k] = "accepted" <=> submit[k] = "accepted"
           /\ submit[k] = "accepted" => envelope'[k] = envelope[k]

EarlySubmit(k) ==
    \/ SubmitLeaseCheck(k) \/ SubmitCapture(k) \/ SubmitAdmit(k) \/ SubmitBypass(k)
    \/ InsertClaims(k) \/ AcceptFails(k)

LEMMA SubmitSteps ==
    ASSUME TypeOK, EnvelopeShape, NEW k \in Candidates, EarlySubmit(k)
    PROVE  SubmitSide
PROOF
  <1>1. DOMAIN envelope = Candidates
    BY DEF EnvelopeShape
  <1>2. CASE SubmitLeaseCheck(k)
    BY <1>1, <1>2 DEF SubmitLeaseCheck, SubmitStep, SubmitSide, TypeOK
  <1>3. CASE SubmitCapture(k)
    BY <1>1, <1>3 DEF SubmitCapture, SubmitStep, SubmitSide, TypeOK
  <1>4. CASE SubmitAdmit(k) \/ SubmitBypass(k)
    BY <1>1, <1>4 DEF SubmitAdmit, SubmitBypass, SubmitStep, SubmitSide, TypeOK
  <1>5. CASE InsertClaims(k) \/ AcceptFails(k)
    BY <1>1, <1>5 DEF InsertClaims, AcceptFails, SubmitStep, SubmitSide, TypeOK
  <1> QED BY <1>2, <1>3, <1>4, <1>5 DEF EarlySubmit

(* Such a step keeps what is known of the queue, the rounds and the log. *)
LEMMA SubmitSideKeeps ==
    ASSUME GateInv, SubmitSide
    PROVE  QueueInv' /\ RoundInv' /\ PreimageCAS' /\ VerifiedIntegration'
PROOF
  <1>1. Accepted' = Accepted
    BY DEF SubmitSide, Accepted
  <1>2. QueueInv'
    BY <1>1 DEF SubmitSide, GateInv, QueueInv, LandedOnce, refVars
  <1>3. RoundInv'
    <2> SUFFICES ASSUME NEW p \in Pushers
                 PROVE  SelectInv(p)' /\ BatchInv(p)' /\ VerdictInv(p)'
      BY DEF RoundInv
    <2>1. SelectInv(p) /\ BatchInv(p) /\ VerdictInv(p)
      BY DEF GateInv, RoundInv
    <2>2. SelectInv(p)' /\ VerdictInv(p)'
      BY <1>1, <2>1 DEF SubmitSide, refVars, pushVars, SelectInv, VerdictInv
    <2>3. BatchInv(p)'
      BY <1>1, <2>1 DEF SubmitSide, refVars, pushVars, BatchInv, OwnBatch, Disjoint,
                        TransitionsCurrent, Accepted
    <2> QED BY <2>2, <2>3
  <1>4. PreimageCAS'
    BY DEF SubmitSide, refVars, GateInv, QueueInv, PreimageCAS, TransitionsCurrent, Accepted
  <1>5. VerifiedIntegration'
    BY DEF SubmitSide, refVars, pushVars, GateInv, VerifiedIntegration
  <1> QED BY <1>2, <1>3, <1>4, <1>5

(* A lease comes or goes: none comes on the path of a claim. *)
LEMMA LeaseKeeps ==
    ASSUME GateInv, LeaseStep
    PROVE  GateInv'
PROOF
  <1> USE GateAssumption
  <1>1. UNCHANGED <<submit, envelope, claims, refVars, pushVars, doctor>>
    BY DEF LeaseStep, EndLease, GrantLease
  <1>2. /\ leases \subseteq Lease /\ path_epochs \in [Paths -> Nat]
        /\ LeasesIdentified /\ EpochsCaptured /\ ClaimFencesPeers
        /\ \A k \in Candidates : \A p \in WriteSet(k) :
               p \in Paths /\ envelope[k].epochs[p] \in Nat
    BY ResultAssumption DEF GateInv, TypeOK, LeasesInv, WriteSet
  <1>3. /\ leases' \subseteq Lease /\ path_epochs' \in [Paths -> Nat]
        /\ LeasesIdentified' /\ EpochsCaptured' /\ ClaimFencesPeers'
    <2>1. ASSUME NEW l \in leases, EndLease(l)
          PROVE  /\ leases' \subseteq Lease /\ path_epochs' \in [Paths -> Nat]
                 /\ LeasesIdentified' /\ EpochsCaptured' /\ ClaimFencesPeers'
      <3>1. leases' \subseteq leases /\ UNCHANGED <<path_epochs, submit, envelope, claims>>
        BY <2>1 DEF EndLease
      <3> QED BY <1>2, <3>1 DEF LeasesIdentified, EpochsCaptured, ClaimFencesPeers
    <2>2. ASSUME NEW o \in Owners, NEW w \in Checkouts, NEW p \in Paths, GrantLease(o, w, p)
          PROVE  /\ leases' \subseteq Lease /\ path_epochs' \in [Paths -> Nat]
                 /\ LeasesIdentified' /\ EpochsCaptured' /\ ClaimFencesPeers'
      <3> DEFINE new == [path |-> p, checkout |-> w, owner |-> o, epoch |-> path_epochs[p] + 1]
      <3>1. /\ leases' = leases \union {new}
            /\ \A l \in leases : ~(l.path = p /\ l.checkout = w)
            /\ \A k \in claims : p \notin WriteSet(k)
            /\ path_epochs' = [path_epochs EXCEPT ![p] = @ + 1]
        BY <2>2 DEF GrantLease
      <3>2. /\ new.path = p /\ new.checkout = w /\ new.epoch = path_epochs[p] + 1
            /\ new \in Lease
        BY <1>2 DEF Lease
      <3> HIDE DEF new
      <3>3. path_epochs' \in [Paths -> Nat] /\ leases' \subseteq Lease
        BY <1>2, <3>1, <3>2
      <3>4. \A q \in Paths : path_epochs[q] \in Nat /\ path_epochs[q] <= path_epochs'[q]
        BY <1>2, <3>1
      <3>5. path_epochs'[p] = path_epochs[p] + 1
        BY <1>2, <3>1
      <3>6. \A l \in leases : /\ l.path \in Paths /\ l.epoch \in Nat
                               /\ l.epoch \in 1..path_epochs[l.path]
        BY <1>2 DEF Lease, LeasesIdentified
      <3>7. \A l \in leases' : l.epoch \in 1..path_epochs'[l.path]
        BY <3>1, <3>2, <3>4, <3>5, <3>6
      <3>8. \A l \in leases : l.path = p => l.epoch # new.epoch
        BY <3>2, <3>4, <3>6
      <3>9. LeasesIdentified'
        BY <1>2, <3>1, <3>2, <3>7, <3>8 DEF LeasesIdentified
      <3>10. EpochsCaptured'
        <4> SUFFICES ASSUME NEW k \in Candidates, submit[k] # "new", NEW q \in WriteSet(k)
                     PROVE  /\ envelope[k].epochs[q] <= path_epochs'[q]
                            /\ \A l \in leases' :
                                   l.path = q /\ l.epoch = envelope[k].epochs[q] =>
                                       l.owner = Author[k] /\ l.checkout = CheckoutOf[k]
          BY <1>1 DEF EpochsCaptured
        <4>1. /\ envelope[k].epochs[q] <= path_epochs[q]
              /\ \A l \in leases :
                     l.path = q /\ l.epoch = envelope[k].epochs[q] =>
                         l.owner = Author[k] /\ l.checkout = CheckoutOf[k]
          BY <1>2 DEF EpochsCaptured
        <4>2. q \in Paths /\ envelope[k].epochs[q] \in Nat
          BY <1>2
        <4>3. envelope[k].epochs[q] <= path_epochs'[q]
          BY <3>3, <3>4, <4>1, <4>2
        <4>4. q = p => new.epoch # envelope[k].epochs[q]
          BY <3>2, <3>4, <4>1, <4>2
        <4> QED BY <3>1, <3>2, <4>1, <4>3, <4>4
      <3>11. ClaimFencesPeers'
        BY <1>1, <1>2, <3>1, <3>2 DEF ClaimFencesPeers
      <3> QED BY <3>3, <3>9, <3>10, <3>11
    <2> QED BY <2>1, <2>2 DEF LeaseStep
  <1>4. TypeOK'
    BY <1>1, <1>3 DEF GateInv, TypeOK, refVars, pushVars
  <1>5. EnvelopeShape' /\ CapturedFromHistory'
    BY <1>1 DEF GateInv, EnvelopeShape, CapturedFromHistory, refVars
  <1>6. SubmitSide
    BY <1>1 DEF SubmitSide
  <1> QED BY <1>3, <1>4, <1>5, <1>6, SubmitSideKeeps DEF GateInv, LeasesInv

(* doctor only ever takes claims away. *)
LEMMA DoctorKeeps ==
    ASSUME GateInv, NEW d \in Doctors, Doctor(d)
    PROVE  GateInv'
PROOF
  <1>1. /\ UNCHANGED <<submitVars, refVars, pushVars>>
        /\ claims' \subseteq claims
        /\ doctor' \in [Doctors -> [pc : {"idle", "listed", "release"}, ids : SUBSET Candidates]]
    BY DEF Doctor, DoctorListsClaims, DoctorListsRefs, DoctorReleases, DoctorStops,
           Rest, GateInv, TypeOK
  <1>2. TypeOK'
    BY <1>1 DEF GateInv, TypeOK, submitVars, refVars, pushVars
  <1>3. EnvelopeShape' /\ CapturedFromHistory' /\ LeasesInv'
    <2>1. EnvelopeShape'
      BY <1>1 DEF GateInv, EnvelopeShape, submitVars
    <2>2. CapturedFromHistory'
      BY <1>1 DEF GateInv, CapturedFromHistory, submitVars, refVars
    <2>3. LeasesInv'
      BY <1>1 DEF GateInv, LeasesInv, LeasesIdentified, EpochsCaptured, submitVars
    <2> QED BY <2>1, <2>2, <2>3
  <1>4. ClaimFencesPeers'
    BY <1>1 DEF GateInv, ClaimFencesPeers, submitVars
  <1>5. SubmitSide
    BY <1>1 DEF SubmitSide, submitVars
  <1> QED BY <1>2, <1>3, <1>4, <1>5, SubmitSideKeeps DEF GateInv

(* A submit up to its claims: the lease check reads positive epochs, the   *)
(* capture reads the tip, and claims are only inserted over leases that    *)
(* stand.                                                                  *)
LEMMA SubmitKeeps ==
    ASSUME GateInv, NEW k \in Candidates, EarlySubmit(k)
    PROVE  GateInv'
PROOF
  <1> USE GateAssumption
  <1>1. SubmitSide
    BY SubmitSteps DEF GateInv
  <1>2. TypeOK /\ EnvelopeShape
    BY DEF GateInv
  <1>3. WriteSet(k) \subseteq Paths /\ Author[k] \in Owners
    BY ResultAssumption DEF WriteSet
  <1>4. CASE SubmitLeaseCheck(k)
    <2>1. /\ submit[k] = "new" /\ submit' = [submit EXCEPT ![k] = "leased"]
          /\ UNCHANGED <<leases, path_epochs, claims, refVars, pushVars, doctor>>
      BY <1>4 DEF SubmitLeaseCheck, SubmitStep
    <2>2. PICK seen \in [WriteSet(k) -> {l.epoch : l \in leases}] :
              /\ \A p \in WriteSet(k) : HoldsAt(k, p, seen[p])
              /\ envelope' = [envelope EXCEPT ![k].epochs = seen]
      BY <1>4 DEF SubmitLeaseCheck
    <2>3. /\ EnvelopeShape'
          /\ seen \in [WriteSet(k) -> Nat]
          /\ \A j \in Candidates :
                 /\ envelope'[j].expected = envelope[j].expected
                 /\ envelope'[j].epochs = IF j = k THEN seen ELSE envelope[j].epochs
      <3>1. {l.epoch : l \in leases} \subseteq Nat
        BY <1>2 DEF TypeOK, Lease
      <3>2. seen \in [WriteSet(k) -> Nat]
        BY <3>1
      <3> QED BY <1>2, <2>2, <3>2, EpochsUpdate
    <2>4. TypeOK'
      <3>1. \A j \in Candidates :
               /\ envelope'[j].expected \in [WriteSet(j) -> Contents \union {Absent}]
               /\ envelope'[j].epochs \in [WriteSet(j) -> Nat]
        BY <1>2, <2>3 DEF TypeOK
      <3> QED BY <1>2, <2>1, <3>1 DEF TypeOK, refVars, pushVars
    <2>5. LeasesInv'
      <3>1. LeasesIdentified /\ EpochsCaptured
        BY DEF GateInv, LeasesInv
      <3>2. LeasesIdentified'
        BY <2>1, <3>1 DEF LeasesIdentified
      <3>3. ASSUME NEW p \in WriteSet(k)
            PROVE  /\ seen[p] <= path_epochs[p]
                   /\ \A l \in leases : l.path = p /\ l.epoch = seen[p] =>
                          l.owner = Author[k] /\ l.checkout = CheckoutOf[k]
        <4>1. PICK m \in leases : /\ m.path = p /\ m.owner = Author[k]
                                  /\ m.checkout = CheckoutOf[k] /\ m.epoch = seen[p]
          BY <2>2, <3>3 DEF HoldsAt, AuthorLeases
        <4> QED BY <3>1, <4>1 DEF LeasesIdentified
      <3>4. EpochsCaptured'
        <4> SUFFICES ASSUME NEW j \in Candidates, submit'[j] # "new", NEW q \in WriteSet(j)
                     PROVE  /\ envelope'[j].epochs[q] <= path_epochs'[q]
                            /\ \A l \in leases' :
                                   l.path = q /\ l.epoch = envelope'[j].epochs[q] =>
                                       l.owner = Author[j] /\ l.checkout = CheckoutOf[j]
          BY DEF EpochsCaptured
        <4>1. CASE j = k
          <5>1. envelope'[j].epochs[q] = seen[q]
            BY <2>3, <4>1
          <5> QED BY <2>1, <3>3, <4>1, <5>1
        <4>2. CASE j # k
          <5>1. submit[j] # "new" /\ envelope'[j].epochs = envelope[j].epochs
            BY <1>2, <2>1, <2>3, <4>2 DEF TypeOK
          <5> QED BY <2>1, <3>1, <5>1 DEF EpochsCaptured
        <4> QED BY <4>1, <4>2
      <3> QED BY <3>2, <3>4 DEF LeasesInv
    <2>6. CapturedFromHistory'
      <3> SUFFICES ASSUME NEW j \in Candidates,
                          submit'[j] \in {"captured", "admitted", "claimed", "accepted"}
                   PROVE  \E i \in 1..Len(integration) :
                              envelope'[j].expected = [p \in WriteSet(j) |-> integration[i].tree[p]]
        BY <2>1 DEF CapturedFromHistory, refVars
      <3> QED BY <1>2, <2>1, <2>3 DEF GateInv, CapturedFromHistory, TypeOK
    <2>7. ClaimFencesPeers'
      BY <2>1 DEF GateInv, ClaimFencesPeers
    <2> QED BY <1>1, <2>3, <2>4, <2>5, <2>6, <2>7, SubmitSideKeeps DEF GateInv
  <1>5. CASE SubmitCapture(k)
    <2> DEFINE seen == [p \in WriteSet(k) |-> Tip[p]]
    <2>1. CASE /\ submit[k] = "leased" /\ submit' = [submit EXCEPT ![k] = "captured"]
               /\ envelope' = [envelope EXCEPT ![k].expected = seen]
      <3>1. UNCHANGED <<leases, path_epochs, claims, refVars, pushVars, doctor>>
        BY <1>5 DEF SubmitCapture
      <3>2. Tip \in Tree
        <4>1. integration[Len(integration)] \in Chain
          BY <1>2 DEF TypeOK
        <4> QED BY <4>1 DEF Tip, Chain
      <3>3. seen \in [WriteSet(k) -> Contents \union {Absent}]
        BY <1>3, <3>2 DEF Tree
      <3>4. /\ EnvelopeShape'
            /\ \A j \in Candidates :
                   /\ envelope'[j].expected = IF j = k THEN seen ELSE envelope[j].expected
                   /\ envelope'[j].epochs = envelope[j].epochs
        <4> HIDE DEF seen
        <4> QED BY <1>2, <2>1, <3>3, ExpectedUpdate
      <3>5. TypeOK'
        <4>1. \A j \in Candidates :
                 /\ envelope'[j].expected \in [WriteSet(j) -> Contents \union {Absent}]
                 /\ envelope'[j].epochs \in [WriteSet(j) -> Nat]
          BY <1>2, <3>3, <3>4 DEF TypeOK
        <4> QED BY <1>2, <2>1, <3>1, <4>1 DEF TypeOK, refVars, pushVars
      <3>6. LeasesInv'
        BY <1>2, <2>1, <3>1, <3>4
           DEF GateInv, LeasesInv, LeasesIdentified, EpochsCaptured, TypeOK
      <3>7. CapturedFromHistory'
        <4>1. Len(integration) \in 1..Len(integration)
          BY <1>2 DEF TypeOK
        <4>2. seen = [p \in WriteSet(k) |-> integration[Len(integration)].tree[p]]
          BY DEF Tip
        <4> HIDE DEF seen
        <4>3. integration' = integration
          BY <3>1 DEF refVars
        <4> SUFFICES ASSUME NEW j \in Candidates,
                            submit'[j] \in {"captured", "admitted", "claimed", "accepted"}
                     PROVE  \E i \in 1..Len(integration) :
                                envelope'[j].expected = [p \in WriteSet(j) |-> integration[i].tree[p]]
          BY <4>3 DEF CapturedFromHistory
        <4>4. CASE j = k
          BY <3>4, <4>1, <4>2, <4>4
        <4>5. CASE j # k
          BY <1>2, <2>1, <3>4, <4>5 DEF GateInv, CapturedFromHistory, TypeOK
        <4> QED BY <4>4, <4>5
      <3>8. ClaimFencesPeers'
        BY <3>1 DEF GateInv, ClaimFencesPeers
      <3> QED BY <1>1, <3>4, <3>5, <3>6, <3>7, <3>8, SubmitSideKeeps DEF GateInv
    <2>2. CASE /\ submit[k] = "leased" /\ submit' = [submit EXCEPT ![k] = "rejected"]
               /\ UNCHANGED envelope
      <3>1. UNCHANGED <<leases, path_epochs, claims, refVars, pushVars, doctor>>
        BY <1>5 DEF SubmitCapture
      <3>2. TypeOK' /\ EnvelopeShape'
        BY <1>2, <2>2, <3>1 DEF TypeOK, EnvelopeShape, refVars, pushVars
      <3>3. LeasesInv' /\ ClaimFencesPeers'
        BY <1>2, <2>2, <3>1
           DEF GateInv, LeasesInv, LeasesIdentified, EpochsCaptured, TypeOK, ClaimFencesPeers
      <3>4. CapturedFromHistory'
        BY <1>2, <2>2, <3>1 DEF GateInv, CapturedFromHistory, TypeOK, refVars
      <3> QED BY <1>1, <3>2, <3>3, <3>4, SubmitSideKeeps DEF GateInv
    <2> QED BY <1>5, <2>1, <2>2 DEF SubmitCapture, SubmitStep
  <1>6. CASE SubmitAdmit(k) \/ SubmitBypass(k) \/ InsertClaims(k) \/ AcceptFails(k)
    <2>1. /\ UNCHANGED <<leases, path_epochs, envelope, refVars, pushVars, doctor>>
          /\ claims' \subseteq claims \union {k}
          /\ claims' \subseteq claims \/ (submit[k] = "admitted" /\ LeasesStand(k))
          /\ \E to \in {"admitted", "claimed", "rejected", "failed"} :
                 /\ submit' = [submit EXCEPT ![k] = to]
                 /\ to \in {"admitted", "claimed"} => submit[k] \in {"captured", "admitted"}
                 /\ submit[k] \in {"captured", "admitted", "claimed"}
      <3>1. CASE SubmitAdmit(k) \/ SubmitBypass(k)
        BY <3>1 DEF SubmitAdmit, SubmitBypass, SubmitStep
      <3>2. CASE InsertClaims(k)
        BY <3>2 DEF InsertClaims, SubmitStep
      <3>3. CASE AcceptFails(k)
        BY <3>3 DEF AcceptFails, SubmitStep
      <3> QED BY <1>6, <3>1, <3>2, <3>3
    <2>2. TypeOK' /\ EnvelopeShape'
      BY <1>2, <2>1 DEF TypeOK, EnvelopeShape, refVars, pushVars
    <2>3. LeasesInv'
      BY <1>2, <2>1 DEF GateInv, LeasesInv, LeasesIdentified, EpochsCaptured, TypeOK
    <2>4. CapturedFromHistory'
      <3>1. PICK to \in {"admitted", "claimed", "rejected", "failed"} :
               /\ submit' = [submit EXCEPT ![k] = to]
               /\ to \in {"admitted", "claimed"} => submit[k] \in {"captured", "admitted"}
        BY <2>1
      <3>2. ASSUME NEW j \in Candidates,
                   submit'[j] \in {"captured", "admitted", "claimed", "accepted"}
            PROVE  submit[j] \in {"captured", "admitted", "claimed", "accepted"}
        <4>1. submit' = [submit EXCEPT ![k] = to] /\ k \in DOMAIN submit /\ j \in DOMAIN submit
          BY <3>1 DEF GateInv, TypeOK
        <4>2. CASE j = k
          BY <3>1, <3>2, <4>1, <4>2
        <4>3. CASE j # k
          BY <3>1, <3>2, <4>1, <4>3
        <4> QED BY <4>2, <4>3
      <3>3. UNCHANGED <<envelope, integration>>
        BY <2>1 DEF refVars
      <3> QED BY <3>2, <3>3 DEF GateInv, CapturedFromHistory
    <2>5. LeasesStand(k) /\ submit[k] = "admitted" =>
              \A l \in leases :
                  l.path \in WriteSet(k) /\ l.checkout = CheckoutOf[k] => l.owner = Author[k]
      <3> SUFFICES ASSUME LeasesStand(k), submit[k] = "admitted", NEW l \in leases,
                          l.path \in WriteSet(k), l.checkout = CheckoutOf[k]
                   PROVE  l.owner = Author[k]
        OBVIOUS
      <3>1. PICK m \in leases : /\ m.path = l.path /\ m.owner = Author[k]
                                /\ m.epoch = envelope[k].epochs[l.path]
        BY DEF LeasesStand, AuthorLeases
      <3>2. m.checkout = CheckoutOf[k]
        BY <3>1 DEF GateInv, LeasesInv, EpochsCaptured
      <3>3. l = m
        BY <3>1, <3>2 DEF GateInv, LeasesInv, LeasesIdentified
      <3> QED BY <3>1, <3>3
    <2>6. ClaimFencesPeers'
      BY <2>1, <2>5 DEF GateInv, ClaimFencesPeers
    <2> QED BY <1>1, <2>2, <2>3, <2>4, <2>6, SubmitSideKeeps DEF GateInv
  <1> QED BY <1>4, <1>5, <1>6 DEF EarlySubmit

(* The candidate ref: the candidate joins the queue, nothing of it has     *)
(* landed.                                                                 *)
LEMMA AcceptKeeps ==
    ASSUME GateInv, NEW k \in Candidates, WriteCandidateRefs(k)
    PROVE  GateInv'
PROOF
  <1>1. /\ submit[k] = "claimed" /\ submit' = [submit EXCEPT ![k] = "accepted"]
        /\ candidates' = candidates \union {k}
        /\ UNCHANGED <<leases, path_epochs, envelope, claims, promoting, integration, pushVars, doctor>>
    BY DEF WriteCandidateRefs, SubmitStep
  <1>2. TypeOK
    BY DEF GateInv
  <1>3. Accepted' = Accepted \union {k} /\ k \notin Accepted
    BY <1>1, <1>2 DEF Accepted, TypeOK
  <1>4. TypeOK' /\ EnvelopeShape'
    BY <1>1, <1>2 DEF GateInv, TypeOK, EnvelopeShape, pushVars
  <1>5. LeasesInv'
    BY <1>1, <1>2 DEF GateInv, LeasesInv, LeasesIdentified, EpochsCaptured, TypeOK
  <1>6. CapturedFromHistory'
    BY <1>1, <1>2 DEF GateInv, CapturedFromHistory, TypeOK
  <1>7. QueueInv'
    BY <1>1, <1>3 DEF GateInv, QueueInv, LandedOnce
  <1>8. RoundInv'
    <2> SUFFICES ASSUME NEW p \in Pushers
                 PROVE  SelectInv(p)' /\ BatchInv(p)' /\ VerdictInv(p)'
      BY DEF RoundInv
    <2>1. SelectInv(p) /\ BatchInv(p) /\ VerdictInv(p)
      BY DEF GateInv, RoundInv
    <2>2. SelectInv(p)' /\ VerdictInv(p)'
      BY <1>1, <1>3, <2>1 DEF pushVars, SelectInv, VerdictInv
    <2>3. BatchInv(p)'
      BY <1>1, <1>3, <2>1 DEF pushVars, BatchInv, OwnBatch, TransitionsCurrent
    <2> QED BY <2>2, <2>3
  <1>9. PreimageCAS' /\ VerifiedIntegration' /\ ClaimFencesPeers'
    BY <1>1 DEF GateInv, PreimageCAS, TransitionsCurrent, VerifiedIntegration,
                ClaimFencesPeers, pushVars
  <1> QED BY <1>4, <1>5, <1>6, <1>7, <1>8, <1>9 DEF GateInv

------------------------------------------------------------------------------
(* The pushers leave the envelopes and the leases alone. *)

(* What a pusher's step does to the refs, apart from a landing, and to the *)
(* other pushers.                                                          *)
PusherSide(p) ==
    /\ UNCHANGED <<submitVars, integration, doctor>>
    /\ claims' \subseteq claims /\ candidates' \subseteq candidates
    /\ \A q \in Pushers \ {p} : pusher'[q] = pusher[q]
    /\ flock = p => flock' \in {p, NoPusher}
    /\ flock # p => flock' = flock \/ (flock = NoPusher /\ flock' = p)
    /\ green \subseteq green' /\ redAlone \subseteq redAlone'
    /\ \A b \in promoting : b.by # p /\ ~ProvablyDead(b.by) => b \in promoting'

(* It keeps everything but what is known of that pusher itself. *)
LEMMA PusherSideKeeps ==
    ASSUME GateInv, NEW p \in Pushers, PusherSide(p), TypeOK',
           SelectInv(p)' /\ BatchInv(p)' /\ VerdictInv(p)'
    PROVE  GateInv'
PROOF
  <1> USE GateAssumption
  <1>1. EnvelopeShape' /\ LeasesInv' /\ CapturedFromHistory'
    <2>1. EnvelopeShape' /\ LeasesInv'
      BY DEF PusherSide, submitVars, GateInv, EnvelopeShape, LeasesInv,
             LeasesIdentified, EpochsCaptured
    <2>2. CapturedFromHistory'
      BY DEF PusherSide, submitVars, GateInv, CapturedFromHistory
    <2> QED BY <2>1, <2>2
  <1>2. Accepted' = Accepted
    BY DEF PusherSide, submitVars, Accepted
  <1>3. QueueInv'
    BY <1>2 DEF PusherSide, GateInv, QueueInv, LandedOnce
  <1>4. PreimageCAS' /\ VerifiedIntegration' /\ ClaimFencesPeers'
    BY DEF PusherSide, submitVars, GateInv, PreimageCAS, TransitionsCurrent,
           VerifiedIntegration, ClaimFencesPeers
  <1>5. ASSUME NEW q \in Pushers, q # p
        PROVE  SelectInv(q)' /\ BatchInv(q)' /\ VerdictInv(q)'
    <2>1. SelectInv(q) /\ BatchInv(q) /\ VerdictInv(q)
      BY DEF GateInv, RoundInv
    <2>2. pusher'[q] = pusher[q]
      BY <1>5 DEF PusherSide
    <2>3. SelectInv(q)'
      BY <1>2, <1>5, <2>1, <2>2 DEF PusherSide, SelectInv
    <2>4. BatchInv(q)'
      <3>1. OwnBatch(q) \in promoting /\ pusher[q].pc # "dead" => OwnBatch(q) \in promoting'
        BY <1>5 DEF PusherSide, OwnBatch, ProvablyDead
      <3>2. OwnBatch(q)' = OwnBatch(q)
        BY <2>2 DEF OwnBatch
      <3> QED BY <1>2, <2>1, <2>2, <3>1, <3>2
              DEF PusherSide, submitVars, BatchInv, TransitionsCurrent
    <2>5. VerdictInv(q)'
      BY <2>1, <2>2 DEF PusherSide, VerdictInv
    <2> QED BY <2>3, <2>4, <2>5
  <1>6. RoundInv'
    BY <1>5 DEF RoundInv
  <1> QED BY <1>1, <1>3, <1>4, <1>6 DEF GateInv

(* One step per action of a pusher; the landing has a lemma of its own. *)

LEMMA ScanKeeps ==
    ASSUME GateInv, NEW p \in Pushers, ScanQueue(p)
    PROVE  GateInv'
PROOF
  <1> USE GateAssumption
  <1>1. TypeOK
    BY DEF GateInv
  <1>2. PICK unread \in SUBSET promoting :
            LET dead == {b \in promoting \ unread : ProvablyDead(b.by)}
                live == promoting \ (unread \union dead)
            IN  /\ promoting' = promoting \ dead
                /\ pusher' = [pusher EXCEPT ![p] = [@ EXCEPT
                       !.pc = "select", !.snap = Len(integration),
                       !.listed = candidates \ UNION {b.members : b \in live}]]
    BY DEF ScanQueue
  <1>3. /\ flock = NoPusher /\ flock' = p
        /\ UNCHANGED <<submitVars, claims, candidates, integration, doctor, green, redAlone>>
    BY DEF ScanQueue
  <1> DEFINE listed == candidates \ UNION {b.members :
                 b \in promoting \ (unread \union {b \in promoting \ unread : ProvablyDead(b.by)})}
  <1>4. pusher' = [pusher EXCEPT ![p] = [@ EXCEPT
            !.pc = "select", !.snap = Len(integration), !.listed = listed]]
    BY <1>2
  <1>5. listed \subseteq candidates
    OBVIOUS
  <1> HIDE DEF listed
  <1>6. /\ promoting' \subseteq promoting
        /\ \A b \in promoting : ~ProvablyDead(b.by) => b \in promoting'
    BY <1>2
  <1>7. pusher' \in [Pushers -> Pusher]
    <2>1. pusher[p] \in Pusher /\ Len(integration) \in Nat /\ listed \in SUBSET Candidates
      BY <1>1, <1>5 DEF TypeOK
    <2>2. [pusher[p] EXCEPT !.pc = "select", !.snap = Len(integration), !.listed = listed]
              \in Pusher
      BY <2>1 DEF Pusher
    <2> QED BY <1>1, <1>4, <2>2 DEF TypeOK
  <1>8. TypeOK'
    BY <1>1, <1>3, <1>6, <1>7 DEF TypeOK, submitVars
  <1>9. PusherSide(p)
    BY <1>1, <1>3, <1>4, <1>6 DEF PusherSide, TypeOK
  <1>10. /\ pusher'[p].pc = "select" /\ pusher'[p].snap = Len(integration)
         /\ pusher'[p].listed = listed
    BY <1>1, <1>4 DEF TypeOK, Pusher
  <1>11. SelectInv(p)'
    <2>1. Accepted' = Accepted /\ candidates \subseteq Accepted
      BY <1>3 DEF Accepted, submitVars, GateInv, QueueInv
    <2> QED BY <1>1, <1>3, <1>5, <1>10, <2>1 DEF SelectInv, TypeOK
  <1>12. BatchInv(p)' /\ VerdictInv(p)'
    BY <1>10 DEF BatchInv, VerdictInv
  <1> QED BY <1>8, <1>9, <1>11, <1>12, PusherSideKeeps

LEMMA ClaimKeeps ==
    ASSUME GateInv, NEW p \in Pushers, ClaimBatch(p)
    PROVE  GateInv'
PROOF
  <1> USE GateAssumption
  <1>1. TypeOK /\ SelectInv(p) /\ pusher[p].pc = "select"
    BY DEF GateInv, RoundInv, ClaimBatch
  <1>2. /\ flock' = NoPusher
        /\ UNCHANGED <<submitVars, claims, candidates, integration, doctor, green, redAlone>>
    BY DEF ClaimBatch
  <1>3. Accepted' = Accepted
    BY <1>2 DEF Accepted, submitVars
  <1>4. flock = p /\ pusher[p].snap \in 1..Len(integration) /\ pusher[p].listed \subseteq Accepted
    BY <1>1 DEF SelectInv
  <1>5. PICK S \in SUBSET Eligible(p) :
            /\ Selected(S, Eligible(p), IF pusher[p].todo = {} THEN MaxBatch ELSE 1)
            /\ \/ /\ S = {}
                  /\ pusher' = [pusher EXCEPT ![p] = [Idle EXCEPT !.todo = Rest(pusher[p].todo)]]
                  /\ UNCHANGED promoting
               \/ /\ S # {}
                  /\ pusher' = [pusher EXCEPT ![p] = [@ EXCEPT !.pc = "verify", !.listed = {},
                         !.tip = Landing(integration[pusher[p].snap].tree, S)]]
                  /\ promoting' = promoting \union {[by |-> p, members |-> S]}
    BY DEF ClaimBatch
  <1>6. CASE S = {}
    <2>1. /\ pusher' = [pusher EXCEPT ![p] = [Idle EXCEPT !.todo = Rest(pusher[p].todo)]]
          /\ UNCHANGED promoting
      BY <1>5, <1>6
    <2>2. [Idle EXCEPT !.todo = Rest(pusher[p].todo)] \in Pusher
      BY <1>1, ResultAssumption DEF TypeOK, Idle, Pusher, Rest, Bootstrap, Chain
    <2>3. TypeOK'
      BY <1>1, <1>2, <2>1, <2>2 DEF TypeOK, submitVars
    <2>4. PusherSide(p)
      BY <1>1, <1>2, <1>4, <2>1 DEF PusherSide, TypeOK
    <2>5. pusher'[p].pc = "idle"
      BY <1>1, <2>1 DEF TypeOK, Idle
    <2> QED BY <2>3, <2>4, <2>5, PusherSideKeeps DEF SelectInv, BatchInv, VerdictInv
  <1>7. CASE S # {}
    <2> DEFINE base == integration[pusher[p].snap].tree
               tip == Landing(base, S)
    <2>1. /\ pusher' = [pusher EXCEPT ![p] = [@ EXCEPT !.pc = "verify", !.listed = {}, !.tip = tip]]
          /\ promoting' = promoting \union {[by |-> p, members |-> S]}
      BY <1>5, <1>7
    <2>2. base \in Tree
      <3>1. integration[pusher[p].snap] \in Chain
        BY <1>1, <1>4 DEF TypeOK
      <3> QED BY <3>1 DEF Chain
    <2>3. Eligible(p) \subseteq Accepted /\ Accepted \subseteq Candidates
      BY <1>4 DEF Eligible, Accepted
    <2>4. S \in SUBSET Candidates /\ S \subseteq Accepted
      BY <2>3
    <2>5. Disjoint(S)
      BY <1>5, <2>3, SelectedDisjoint
    <2>6. tip \in Chain /\ tip.members = S
      BY <2>2, <2>4, <2>5, ChainTyped DEF Landing
    <2>7. \A k \in S : TransitionsCurrent(k, base)
      BY DEF Eligible, Fresh
    <2>8. pusher[p].todo # {} => S \subseteq Least(pusher[p].todo)
      BY DEF Eligible
    <2> HIDE DEF tip
    <2>9. /\ pusher'[p] = [pusher[p] EXCEPT !.pc = "verify", !.listed = {}, !.tip = tip]
          /\ pusher' \in [Pushers -> Pusher]
      <3>1. pusher[p] \in Pusher
        BY <1>1 DEF TypeOK
      <3>2. [pusher[p] EXCEPT !.pc = "verify", !.listed = {}, !.tip = tip] \in Pusher
        BY <2>6, <3>1 DEF Pusher
      <3> QED BY <1>1, <2>1, <3>2 DEF TypeOK
    <2>10. /\ pusher'[p].pc = "verify" /\ pusher'[p].tip = tip
           /\ pusher'[p].snap = pusher[p].snap /\ pusher'[p].todo = pusher[p].todo
      BY <1>1, <2>9 DEF TypeOK, Pusher
    <2>11. TypeOK'
      BY <1>1, <1>2, <2>1, <2>4, <2>9 DEF TypeOK, submitVars
    <2>12. PusherSide(p)
      BY <1>1, <1>2, <1>4, <2>1 DEF PusherSide, TypeOK
    <2>13. BatchInv(p)'
      <3>1. OwnBatch(p)' \in promoting'
        BY <2>1, <2>6, <2>10 DEF OwnBatch
      <3>2. tip = Landing(base, tip.members)
        BY <2>6 DEF tip
      <3> QED BY <1>2, <1>3, <1>4, <1>7, <2>4, <2>5, <2>6, <2>7, <2>10, <3>1, <3>2
              DEF BatchInv, TransitionsCurrent, submitVars
    <2>14. SelectInv(p)' /\ VerdictInv(p)'
      BY <2>6, <2>8, <2>10 DEF SelectInv, VerdictInv
    <2> QED BY <2>11, <2>12, <2>13, <2>14, PusherSideKeeps
  <1> QED BY <1>6, <1>7

(* A red batch, a missing verdict, a drop, a settlement, a rejection, a    *)
(* death: the log stays.                                                   *)
LEMMA VerifyKeeps ==
    ASSUME GateInv, NEW p \in Pushers, VerifyPasses(p) \/ VerifyRed(p) \/ VerifyInfra(p)
    PROVE  GateInv'
PROOF
  <1>1. TypeOK /\ BatchInv(p) /\ VerdictInv(p) /\ pusher[p].pc = "verify"
    BY DEF GateInv, RoundInv, VerifyPasses, VerifyRed, VerifyInfra
  <1>2. pusher[p] \in Pusher
    BY <1>1 DEF TypeOK
  <1>3. UNCHANGED <<submitVars, claims, refVars, flock, doctor>>
    BY DEF VerifyPasses, VerifyRed, VerifyInfra
  <1> DEFINE Outcome(pc, T) ==
            /\ pusher' = [pusher EXCEPT ![p] = [@ EXCEPT !.pc = pc, !.todo = T]]
            /\ pc = "commit" => [parent |-> pusher[p].snap, chain |-> pusher[p].tip] \in green'
            /\ pc \in {"commit", "reject"} => T = pusher[p].todo
            /\ pc = "reject" => T # {} /\ pusher[p].tip.members \subseteq redAlone'
            /\ green' \in SUBSET [parent : Nat, chain : Chain] /\ green \subseteq green'
            /\ redAlone' \in SUBSET Candidates /\ redAlone \subseteq redAlone'
  <1>4. \E pc \in {"commit", "drop", "reject"}, T \in SUBSET Candidates : Outcome(pc, T)
    <2>1. /\ pusher[p] = [pusher[p] EXCEPT !.todo = pusher[p].todo]
          /\ pusher[p].todo \in SUBSET Candidates /\ pusher[p].tip.members \in SUBSET Candidates
          /\ [parent |-> pusher[p].snap, chain |-> pusher[p].tip] \in [parent : Nat, chain : Chain]
      BY <1>2 DEF Pusher, Chain
    <2>2. CASE VerifyPasses(p)
      <3>1. pusher' = [pusher EXCEPT ![p] = [@ EXCEPT !.pc = "commit", !.todo = pusher[p].todo]]
        BY <1>1, <1>2, <2>2 DEF VerifyPasses, TypeOK, Pusher
      <3>2. Outcome("commit", pusher[p].todo)
        <4> DEFINE g == [parent |-> pusher[p].snap, chain |-> pusher[p].tip]
        <4>1. green' = green \union {g} /\ UNCHANGED redAlone
          BY <2>2 DEF VerifyPasses
        <4>2. g \in [parent : Nat, chain : Chain]
          BY <2>1
        <4>3. green \subseteq [parent : Nat, chain : Chain] /\ redAlone \subseteq Candidates
          BY <1>1 DEF TypeOK
        <4> HIDE DEF g
        <4>4. green' \in SUBSET [parent : Nat, chain : Chain] /\ green \subseteq green' /\ g \in green'
          BY <4>1, <4>2, <4>3
        <4> QED BY <3>1, <4>1, <4>3, <4>4 DEF g
      <3> QED BY <2>1, <3>2
    <2>3. CASE VerifyRed(p)
      <3>1. CASE /\ pusher[p].todo # {}
                 /\ pusher' = [pusher EXCEPT ![p].pc = "reject"]
                 /\ redAlone' = redAlone \union pusher[p].tip.members
        <4>1. pusher' = [pusher EXCEPT ![p] = [@ EXCEPT !.pc = "reject", !.todo = pusher[p].todo]]
          BY <1>1, <1>2, <3>1 DEF TypeOK, Pusher
        <4> QED BY <1>1, <2>1, <2>3, <3>1, <4>1 DEF VerifyRed, TypeOK
      <3>2. CASE /\ pusher' = [pusher EXCEPT ![p] = [@ EXCEPT !.pc = "drop",
                                   !.todo = pusher[p].tip.members]]
                 /\ UNCHANGED redAlone
        BY <1>1, <2>1, <2>3, <3>2 DEF VerifyRed, TypeOK
      <3> QED BY <2>3, <3>1, <3>2 DEF VerifyRed
    <2>4. CASE VerifyInfra(p)
      <3>1. Outcome("drop", {})
        BY <1>1, <2>4 DEF VerifyInfra, TypeOK
      <3> QED BY <3>1
    <2> QED BY <2>2, <2>3, <2>4
  <1>5. PICK pc \in {"commit", "drop", "reject"}, T \in SUBSET Candidates : Outcome(pc, T)
    BY <1>4
  <1>6. [pusher[p] EXCEPT !.pc = pc, !.todo = T] \in Pusher
    BY <1>2 DEF Pusher
  <1>7. TypeOK'
    BY <1>1, <1>3, <1>5, <1>6 DEF TypeOK, submitVars, refVars
  <1>8. PusherSide(p)
    BY <1>1, <1>3, <1>5 DEF PusherSide, TypeOK, refVars
  <1>9. /\ pusher'[p].pc = pc /\ pusher'[p].todo = T
        /\ pusher'[p].snap = pusher[p].snap /\ pusher'[p].tip = pusher[p].tip
    BY <1>1, <1>2, <1>5 DEF TypeOK, Pusher
  <1>10. BatchInv(p)'
    <2>1. Accepted' = Accepted
      BY <1>3 DEF Accepted, submitVars
    <2> QED BY <1>1, <1>3, <1>9, <2>1
            DEF BatchInv, OwnBatch, TransitionsCurrent, submitVars, refVars
  <1>11. SelectInv(p)' /\ VerdictInv(p)'
    BY <1>1, <1>5, <1>9 DEF SelectInv, VerdictInv
  <1> QED BY <1>7, <1>8, <1>10, <1>11, PusherSideKeeps

LEMMA IdleTyped ==
    ASSUME NEW T \in SUBSET Candidates, NEW S \in SUBSET Candidates,
           NEW pc \in {"idle", "settle", "dead"}
    PROVE  /\ [Idle EXCEPT !.todo = T] \in Pusher
           /\ [Idle EXCEPT !.pc = pc] \in Pusher
           /\ [Idle EXCEPT !.pc = pc, !.todo = T, !.settling = S] \in Pusher
  BY ResultAssumption DEF Idle, Pusher, Bootstrap, Chain

(* The steps after which a pusher has no batch of its own any more, and    *)
(* the ones that do not concern it.                                        *)
LEMMA EndsKeep ==
    ASSUME GateInv, NEW p \in Pushers,
           \/ DropBatch(p) \/ RejectSolo(p) \/ RejectLost(p) \/ ReleaseClaims(p) \/ PusherDies(p)
    PROVE  GateInv'
PROOF
  <1> USE GateAssumption
  <1>1. TypeOK /\ SelectInv(p)
    BY DEF GateInv, RoundInv
  <1>2. pusher[p] \in Pusher
    BY <1>1 DEF TypeOK
  <1>3. /\ pusher[p].todo \in SUBSET Candidates /\ Rest(pusher[p].todo) \in SUBSET Candidates
        /\ pusher[p].tip.members \in SUBSET Candidates /\ Rest(pusher[p].settling) \in SUBSET Candidates
    BY <1>2 DEF Pusher, Chain, Rest
  <1>4. /\ UNCHANGED <<submitVars, integration, doctor, green, redAlone>>
        /\ claims' \subseteq claims /\ candidates' \subseteq candidates
        /\ promoting' \subseteq promoting
        /\ \A b \in promoting : b.by # p => b \in promoting'
        /\ flock' = IF flock = p THEN flock' ELSE flock
        /\ flock' \in {flock, NoPusher}
    BY <1>1 DEF DropBatch, RejectSolo, RejectLost, ReleaseClaims, PusherDies, RetireRefs,
                OwnBatch, refVars
  <1>5. \E r \in Pusher : /\ pusher' = [pusher EXCEPT ![p] = r]
                          /\ r.pc \in {"idle", "settle", "dead"}
    <2>1. CASE DropBatch(p)
      BY <1>3, <2>1, IdleTyped DEF DropBatch, Idle
    <2>2. CASE RejectSolo(p)
      BY <1>3, <2>2, IdleTyped DEF RejectSolo, Settle, Idle
    <2>3. CASE RejectLost(p) \/ PusherDies(p)
      BY <1>3, <2>3, IdleTyped DEF RejectLost, PusherDies, Idle
    <2>4. CASE ReleaseClaims(p)
      <3> DEFINE left == Rest(pusher[p].settling)
                 r == [pusher[p] EXCEPT !.settling = left,
                           !.pc = IF left = {} THEN "idle" ELSE "settle"]
      <3>1. pusher' = [pusher EXCEPT ![p] = r]
        BY <2>4 DEF ReleaseClaims
      <3>2. left \in SUBSET Candidates
        BY <1>3
      <3> HIDE DEF left
      <3>3. r \in Pusher /\ r.pc \in {"idle", "settle"}
        BY <1>2, <3>2 DEF Pusher
      <3> QED BY <3>1, <3>3
    <2> QED BY <2>1, <2>2, <2>3, <2>4
  <1>6. pusher' \in [Pushers -> Pusher] /\ pusher'[p].pc \in {"idle", "settle", "dead"}
    BY <1>1, <1>5 DEF TypeOK
  <1>7. TypeOK'
    BY <1>1, <1>4, <1>6 DEF TypeOK, submitVars
  <1>8. PusherSide(p)
    BY <1>1, <1>4, <1>5 DEF PusherSide, TypeOK
  <1> QED BY <1>6, <1>7, <1>8, PusherSideKeeps DEF SelectInv, BatchInv, VerdictInv

(* A lost compare-and-swap: the batch goes on to be dropped. *)
LEMMA CommitLostKeeps ==
    ASSUME GateInv, NEW p \in Pushers, CommitBatch(p), ~CASHolds(p)
    PROVE  GateInv'
PROOF
  <1>1. TypeOK /\ BatchInv(p) /\ pusher[p].pc = "commit"
    BY DEF GateInv, RoundInv, CommitBatch
  <1>2. /\ pusher' = [pusher EXCEPT ![p] = [@ EXCEPT !.pc = "drop", !.todo = Rest(pusher[p].todo)]]
        /\ UNCHANGED <<submitVars, claims, refVars, flock, green, redAlone, doctor>>
    BY DEF CommitBatch
  <1>3. pusher[p] \in Pusher
    BY <1>1 DEF TypeOK
  <1>4. Rest(pusher[p].todo) \in SUBSET Candidates
    BY <1>3 DEF Pusher, Rest
  <1>5. [pusher[p] EXCEPT !.pc = "drop", !.todo = Rest(pusher[p].todo)] \in Pusher
    BY <1>3, <1>4 DEF Pusher
  <1>6. TypeOK'
    BY <1>1, <1>2, <1>5 DEF TypeOK, submitVars, refVars
  <1>7. PusherSide(p)
    BY <1>1, <1>2 DEF PusherSide, TypeOK, refVars
  <1>8. /\ pusher'[p].pc = "drop" /\ pusher'[p].snap = pusher[p].snap
        /\ pusher'[p].tip = pusher[p].tip
    BY <1>1, <1>2, <1>3 DEF TypeOK, Pusher
  <1>9. BatchInv(p)'
    <2>1. Accepted' = Accepted
      BY <1>2 DEF Accepted, submitVars
    <2> QED BY <1>1, <1>2, <1>8, <2>1
            DEF BatchInv, OwnBatch, TransitionsCurrent, submitVars, refVars
  <1> QED BY <1>6, <1>7, <1>8, <1>9, PusherSideKeeps DEF SelectInv, VerdictInv

(* A landing appends the verified chain to the log it was built on. *)
LEMMA Landed ==
    ASSUME GateInv, NEW p \in Pushers, CommitBatch(p), CASHolds(p)
    PROVE  /\ integration' = Append(integration, pusher[p].tip)
           /\ Len(integration') = Len(integration) + 1
           /\ \A i \in 1..Len(integration) : integration'[i] = integration[i]
           /\ integration'[Len(integration) + 1] = pusher[p].tip
           /\ integration' \in Seq(Chain)
           /\ pusher[p].snap = Len(integration)
           /\ candidates' = candidates \ pusher[p].tip.members
           /\ promoting' = promoting \ {OwnBatch(p)}
           /\ pusher' = [pusher EXCEPT ![p] = [Idle EXCEPT !.pc = "settle",
                             !.todo = Rest(pusher[p].todo), !.settling = pusher[p].tip.members]]
           /\ UNCHANGED <<submitVars, claims, flock, green, redAlone, doctor>>
PROOF
  <1>1. TypeOK
    BY DEF GateInv
  <1>2. /\ integration' = Append(SubSeq(integration, 1, pusher[p].snap), pusher[p].tip)
        /\ RetireRefs(p) /\ Settle(p)
        /\ pusher[p].snap = Len(integration)
        /\ UNCHANGED <<submitVars, claims, flock, green, redAlone, doctor>>
    BY DEF CommitBatch, CASHolds
  <1>3. integration \in Seq(Chain) /\ pusher[p].tip \in Chain
    BY <1>1 DEF TypeOK, Pusher
  <1>4. SubSeq(integration, 1, Len(integration)) = integration
    BY <1>3
  <1>5. integration' = Append(integration, pusher[p].tip)
    BY <1>2, <1>4
  <1> QED BY <1>2, <1>3, <1>5 DEF RetireRefs, Settle

LEMMA LandingKeeps ==
    ASSUME GateInv, NEW p \in Pushers, CommitBatch(p), CASHolds(p)
    PROVE  GateInv'
PROOF
  <1> USE GateAssumption
  <1>1. TypeOK /\ BatchInv(p) /\ VerdictInv(p) /\ pusher[p].pc = "commit"
    BY DEF GateInv, RoundInv, CommitBatch
  <1> DEFINE tip == pusher[p].tip
             n == Len(integration)
  <1>2. /\ Len(integration') = n + 1
        /\ \A i \in 1..n : integration'[i] = integration[i]
        /\ integration'[n + 1] = tip
        /\ integration' \in Seq(Chain)
        /\ pusher[p].snap = n
        /\ candidates' = candidates \ tip.members
        /\ promoting' = promoting \ {OwnBatch(p)}
        /\ pusher' = [pusher EXCEPT ![p] = [Idle EXCEPT !.pc = "settle",
                          !.todo = Rest(pusher[p].todo), !.settling = tip.members]]
        /\ UNCHANGED <<submitVars, claims, flock, green, redAlone, doctor>>
    BY Landed
  <1>3. n \in Nat /\ n > 0
    BY <1>1 DEF TypeOK
  <1>4. tip.members \subseteq candidates /\ tip.members \subseteq Candidates
    BY <1>1 DEF CASHolds, TypeOK
  <1>5. tip = Landing(integration[n].tree, tip.members) /\ Disjoint(tip.members)
        /\ \A k \in tip.members : TransitionsCurrent(k, integration[n].tree)
    BY <1>1, <1>2 DEF BatchInv
  <1>6. [parent |-> n, chain |-> tip] \in green
    BY <1>1, <1>2 DEF VerdictInv
  <1>7. Accepted' = Accepted
    BY <1>2 DEF Accepted, submitVars
  <1> HIDE DEF tip, n
  <1>8. TypeOK'
    <2>1. pusher[p] \in Pusher
      BY <1>1 DEF TypeOK
    <2>2. Rest(pusher[p].todo) \in SUBSET Candidates
      BY <2>1 DEF Pusher, Rest
    <2>3. pusher' \in [Pushers -> Pusher]
      BY <1>1, <1>2, <1>4, <2>2, IdleTyped DEF TypeOK
    <2> QED BY <1>1, <1>2, <1>3, <2>3 DEF TypeOK, submitVars
  <1>9. EnvelopeShape' /\ LeasesInv' /\ ClaimFencesPeers'
    BY <1>2 DEF GateInv, EnvelopeShape, LeasesInv, LeasesIdentified, EpochsCaptured,
                ClaimFencesPeers, submitVars
  <1>10. CapturedFromHistory'
    <2> SUFFICES ASSUME NEW k \in Candidates,
                        submit[k] \in {"captured", "admitted", "claimed", "accepted"}
                 PROVE  \E i \in 1..Len(integration') :
                            envelope[k].expected = [q \in WriteSet(k) |-> integration'[i].tree[q]]
      BY <1>2 DEF CapturedFromHistory, submitVars
    <2>1. PICK i \in 1..n :
              envelope[k].expected = [q \in WriteSet(k) |-> integration[i].tree[q]]
      BY DEF GateInv, CapturedFromHistory, n
    <2>2. i \in 1..Len(integration') /\ integration'[i] = integration[i]
      BY <1>2, <1>3
    <2> QED BY <2>1, <2>2
  <1>11. QueueInv'
    <2>1. /\ candidates \subseteq Accepted
          /\ \A i \in 1..n : integration[i].members \subseteq Accepted \ candidates
          /\ \A i, j \in 1..n : i # j => integration[i].members \intersect integration[j].members = {}
      BY DEF GateInv, QueueInv, LandedOnce, n
    <2>2. candidates' \subseteq Accepted'
      BY <1>2, <1>7, <2>1
    <2>3. \A i \in 1..(n + 1) : integration'[i].members \subseteq Accepted' \ candidates'
      BY <1>2, <1>3, <1>4, <1>7, <2>1
    <2>4. \A i, j \in 1..(n + 1) :
              i # j => integration'[i].members \intersect integration'[j].members = {}
      BY <1>2, <1>3, <1>4, <2>1
    <2>5. LandedOnce'
      BY <1>2, <2>3, <2>4 DEF LandedOnce
    <2> QED BY <1>2, <2>2, <2>3, <2>5 DEF QueueInv
  <1>12. PreimageCAS'
    <2> SUFFICES ASSUME NEW i \in 2..(n + 1), NEW k \in integration'[i].members
                 PROVE  \A q \in WriteSet(k) :
                            Parent(integration'[i - 1].tree, integration'[i].members, k)[q]
                                = envelope[k].expected[q]
      BY <1>2 DEF PreimageCAS, TransitionsCurrent, submitVars
    <2>1. CASE i \in 2..n
      <3>1. integration'[i] = integration[i] /\ integration'[i - 1] = integration[i - 1]
        BY <1>2, <1>3, <2>1
      <3>2. TransitionsCurrent(k, Parent(integration[i - 1].tree, integration[i].members, k))
        BY <2>1, <3>1 DEF GateInv, PreimageCAS, n
      <3> QED BY <1>2, <3>1, <3>2 DEF TransitionsCurrent, submitVars
    <2>2. CASE i = n + 1
      <3>1. integration'[i] = tip /\ integration'[i - 1] = integration[n]
        BY <1>2, <1>3, <2>2
      <3>2. \A q \in WriteSet(k) :
                Parent(integration[n].tree, tip.members, k)[q] = integration[n].tree[q]
        BY <1>4, <1>5, <3>1, ParentUntouched
      <3> QED BY <1>2, <1>5, <3>1, <3>2 DEF TransitionsCurrent, submitVars
    <2> QED BY <1>3, <2>1, <2>2
  <1>13. VerifiedIntegration'
    <2> SUFFICES ASSUME NEW i \in 2..(n + 1)
                 PROVE  [parent |-> i - 1, chain |-> integration'[i]] \in green
      BY <1>2 DEF VerifiedIntegration
    <2>1. CASE i \in 2..n
      BY <1>2, <2>1 DEF GateInv, VerifiedIntegration, n
    <2>2. CASE i = n + 1
      BY <1>2, <1>3, <1>6, <2>2
    <2> QED BY <1>3, <2>1, <2>2
  <1>14. RoundInv'
    <2>1. pusher'[p].pc = "settle"
      BY <1>1, <1>2 DEF TypeOK, Idle
    <2>2. ASSUME NEW q \in Pushers, q # p
          PROVE  SelectInv(q)' /\ BatchInv(q)' /\ VerdictInv(q)'
      <3>1. SelectInv(q) /\ BatchInv(q) /\ VerdictInv(q)
        BY DEF GateInv, RoundInv
      <3>2. pusher'[q] = pusher[q] /\ OwnBatch(q)' = OwnBatch(q) /\ OwnBatch(q) # OwnBatch(p)
        BY <1>1, <1>2, <2>2 DEF TypeOK, OwnBatch
      <3>3. pusher[q].snap \in 1..n =>
                /\ pusher[q].snap \in 1..Len(integration')
                /\ integration'[pusher[q].snap] = integration[pusher[q].snap]
        BY <1>2, <1>3
      <3>4. SelectInv(q)' /\ VerdictInv(q)'
        BY <1>2, <1>7, <3>1, <3>2, <3>3 DEF SelectInv, VerdictInv, n
      <3>5. BatchInv(q)'
        BY <1>2, <1>7, <3>1, <3>2, <3>3 DEF BatchInv, TransitionsCurrent, submitVars, n
      <3> QED BY <3>4, <3>5
    <2>3. SelectInv(p)' /\ BatchInv(p)' /\ VerdictInv(p)'
      BY <2>1 DEF SelectInv, BatchInv, VerdictInv
    <2> QED BY <2>2, <2>3 DEF RoundInv
  <1> QED BY <1>8, <1>9, <1>10, <1>11, <1>12, <1>13, <1>14 DEF GateInv

------------------------------------------------------------------------------
(* The gate's invariant, and what it says. *)

LEMMA GateInit ==
    ASSUME Init
    PROVE  GateInv
PROOF
  <1> USE GateAssumption, ResultAssumption
  <1>1. Bootstrap \in Chain /\ Idle \in Pusher
    BY DEF Bootstrap, Chain, Idle, Pusher
  <1>2. /\ Len(integration) = 1 /\ integration[1] = Bootstrap /\ integration \in Seq(Chain)
    BY <1>1 DEF Init
  <1>3. \A k \in Candidates :
            /\ envelope[k] \in Envelope
            /\ envelope[k].expected \in [WriteSet(k) -> Contents \union {Absent}]
            /\ envelope[k].epochs \in [WriteSet(k) -> Nat]
    BY DEF Init, Envelope
  <1>4. TypeOK
    BY <1>1, <1>2, <1>3 DEF Init, TypeOK
  <1>5. EnvelopeShape /\ LeasesInv
    BY <1>3 DEF Init, EnvelopeShape, LeasesInv, LeasesIdentified, EpochsCaptured
  <1>6. CapturedFromHistory /\ ClaimFencesPeers
    BY DEF Init, CapturedFromHistory, ClaimFencesPeers
  <1>7. QueueInv
    BY <1>2 DEF Init, QueueInv, LandedOnce, Bootstrap
  <1>8. RoundInv
    BY DEF Init, RoundInv, SelectInv, BatchInv, VerdictInv, Idle
  <1>9. PreimageCAS /\ VerifiedIntegration
    BY <1>2 DEF PreimageCAS, VerifiedIntegration
  <1> QED BY <1>4, <1>5, <1>6, <1>7, <1>8, <1>9 DEF GateInv

LEMMA GateStep ==
    ASSUME GateInv, [Next]_vars
    PROVE  GateInv'
PROOF
  <1>1. CASE UNCHANGED vars
    <2>1. TypeOK'
      BY <1>1 DEF vars, submitVars, refVars, pushVars, GateInv, TypeOK
    <2>2. EnvelopeShape' /\ LeasesInv' /\ ClaimFencesPeers'
      BY <1>1 DEF vars, submitVars, GateInv, EnvelopeShape, LeasesInv, LeasesIdentified,
                  EpochsCaptured, ClaimFencesPeers
    <2>3. CapturedFromHistory'
      BY <1>1 DEF vars, submitVars, refVars, GateInv, CapturedFromHistory
    <2>4. SubmitSide
      BY <1>1 DEF vars, submitVars, SubmitSide
    <2> QED BY <2>1, <2>2, <2>3, <2>4, SubmitSideKeeps DEF GateInv
  <1>2. CASE LeaseStep
    BY <1>2, LeaseKeeps
  <1>3. ASSUME NEW k \in Candidates, Submit(k) PROVE GateInv'
    BY <1>3, SubmitKeeps, AcceptKeeps DEF Submit, EarlySubmit
  <1>4. ASSUME NEW p \in Pushers, Promote(p) PROVE GateInv'
    BY <1>4, ScanKeeps, ClaimKeeps, VerifyKeeps, EndsKeep, CommitLostKeeps, LandingKeeps
       DEF Promote
  <1>5. ASSUME NEW d \in Doctors, Doctor(d) PROVE GateInv'
    BY <1>5, DoctorKeeps
  <1> QED BY <1>1, <1>2, <1>3, <1>4, <1>5 DEF Next

LEMMA GateCorrect == Spec => []GateInv
  BY GateInit, GateStep, PTL DEF Spec

(* Refs, rows and the state of every process keep their types, for any     *)
(* write sets; a chain has a tree because its members write different      *)
(* paths (TypeOK).                                                         *)
THEOREM GateTypeCorrect == Spec => []TypeOK
  BY GateCorrect, PTL DEF GateInv

(* Whatever pushers, deaths and rejections interleave, a landed candidate  *)
(* replaced exactly what its author captured (PreimageCAS).                *)
THEOREM LandsOnItsPreimage == Spec => []PreimageCAS
  BY GateCorrect, PTL DEF GateInv

(* Every commit of refs/loto/integration passed a verify on the parent it  *)
(* was landed on (VerifiedIntegration).                                    *)
THEOREM LandsVerified == Spec => []VerifiedIntegration
  BY GateCorrect, PTL DEF GateInv

(* No candidate lands twice or stays queued once landed (LandedOnce).      *)
THEOREM LandsOnce == Spec => []LandedOnce
  BY GateCorrect, PTL DEF GateInv, QueueInv

(* A candidate's claims keep every peer's lease off its write set in the   *)
(* checkout it was submitted from, over the lease check, the capture and   *)
(* the admission before them; a peer's lease in a linked checkout may      *)
(* stand (ClaimFencesPeers).                                               *)
THEOREM ClaimsFence == Spec => []ClaimFencesPeers
  BY GateCorrect, PTL DEF GateInv

(* What doctor takes for residue was accepted, if at all, after doctor     *)
(* looked for its refs (DoctorSparesAccepted).                             *)
THEOREM DoctorTakesResidue == Spec => DoctorSparesAccepted
PROOF
  <1> DEFINE A == \A d \in Doctors, k \in Candidates :
                     Residue(d, k)' /\ k \in candidates' =>
                         \/ Residue(d, k) /\ k \in candidates
                         \/ submit[k] = "claimed" /\ submit'[k] = "accepted"
  <1>1. GateInv /\ [Next]_vars => A
    <2> SUFFICES ASSUME GateInv, [Next]_vars PROVE A
      OBVIOUS
    <2>1. ASSUME doctor' = doctor, candidates' \subseteq candidates PROVE A
      BY <2>1 DEF Residue
    <2>2. CASE UNCHANGED vars
      BY <2>1, <2>2 DEF vars, refVars
    <2>3. CASE LeaseStep
      BY <2>1, <2>3 DEF LeaseStep, EndLease, GrantLease, refVars
    <2>4. ASSUME NEW j \in Candidates, Submit(j) PROVE A
      <3>1. CASE WriteCandidateRefs(j)
        <4>1. /\ doctor' = doctor /\ candidates' = candidates \union {j}
              /\ submit[j] = "claimed" /\ submit'[j] = "accepted"
          BY <3>1 DEF WriteCandidateRefs, SubmitStep, GateInv, TypeOK
        <4> QED BY <4>1 DEF Residue
      <3>2. CASE EarlySubmit(j)
        BY <2>1, <3>2 DEF EarlySubmit, SubmitLeaseCheck, SubmitCapture, SubmitAdmit,
                          SubmitBypass, InsertClaims, AcceptFails, refVars
      <3> QED BY <2>4, <3>1, <3>2 DEF Submit, EarlySubmit
    <2>5. ASSUME NEW e \in Doctors, Doctor(e) PROVE A
      <3>1. candidates' = candidates
        BY <2>5 DEF Doctor, DoctorListsClaims, DoctorListsRefs, DoctorReleases, DoctorStops,
                    refVars
      <3>2. doctor \in [Doctors -> [pc : {"idle", "listed", "release"}, ids : SUBSET Candidates]]
        BY DEF GateInv, TypeOK
      <3>3. /\ \A d \in Doctors \ {e} : doctor'[d] = doctor[d]
            /\ \/ doctor'[e].pc # "release"
               \/ doctor'[e].ids = doctor[e].ids \ candidates
               \/ doctor[e].pc = "release" /\ doctor'[e].ids \subseteq doctor[e].ids
        <4>1. CASE DoctorListsClaims(e)
          BY <3>2, <4>1 DEF DoctorListsClaims
        <4>2. CASE DoctorListsRefs(e)
          BY <3>2, <4>2 DEF DoctorListsRefs
        <4>3. CASE DoctorReleases(e)
          BY <3>2, <4>3 DEF DoctorReleases, Rest
        <4>4. CASE DoctorStops(e)
          BY <3>2, <4>4 DEF DoctorStops
        <4> QED BY <2>5, <4>1, <4>2, <4>3, <4>4 DEF Doctor
      <3> QED BY <3>1, <3>3 DEF Residue
    <2>6. ASSUME NEW p \in Pushers, Promote(p) PROVE A
      <3>1. candidates' \subseteq candidates
        BY <2>6 DEF Promote, ScanQueue, ClaimBatch, VerifyPasses, VerifyRed, VerifyInfra,
                    DropBatch, CommitBatch, RejectSolo, RejectLost, ReleaseClaims, PusherDies,
                    RetireRefs, refVars
      <3>2. doctor' = doctor
        BY <2>6 DEF Promote, ScanQueue, ClaimBatch, VerifyPasses, VerifyRed, VerifyInfra,
                    DropBatch, CommitBatch, RejectSolo, RejectLost, ReleaseClaims, PusherDies
      <3> QED BY <2>1, <3>1, <3>2
    <2> QED BY <2>2, <2>3, <2>4, <2>5, <2>6 DEF Next
  <1> HIDE DEF A
  <1>2. GateInv /\ [Next]_vars => [A]_vars
    BY <1>1
  <1>3. Spec => [][A]_vars
    BY <1>2, GateCorrect, PTL DEF Spec
  <1> QED BY <1>3 DEF A, DoctorSparesAccepted

(* A candidate leaves the queue by landing or after a red verdict of its   *)
(* own (LeavesResolved).                                                   *)
THEOREM QueueLeavesResolved == Spec => LeavesResolved
PROOF
  <1>1. ASSUME GateInv, [Next]_vars
        PROVE  [\A k \in candidates \ candidates' :
                    k \in integration'[Len(integration')].members \union redAlone]_vars
    <2>1. CASE candidates \subseteq candidates'
      BY <2>1
    <2>2. ASSUME NEW p \in Pushers, CommitBatch(p), CASHolds(p)
          PROVE  \A k \in candidates \ candidates' :
                     k \in integration'[Len(integration')].members \union redAlone
      BY <1>1, <2>2, Landed
    <2>3. ASSUME NEW p \in Pushers, RejectSolo(p)
          PROVE  \A k \in candidates \ candidates' :
                     k \in integration'[Len(integration')].members \union redAlone
      BY <1>1, <2>3 DEF RejectSolo, RetireRefs, GateInv, RoundInv, VerdictInv
    <2>4. CASE UNCHANGED vars
      BY <2>4 DEF vars, refVars
    <2>5. CASE LeaseStep
      BY <2>1, <2>5 DEF LeaseStep, EndLease, GrantLease, refVars
    <2>6. ASSUME NEW k \in Candidates, Submit(k) PROVE candidates \subseteq candidates'
      BY <2>6 DEF Submit, SubmitLeaseCheck, SubmitCapture, SubmitAdmit, SubmitBypass,
                  InsertClaims, WriteCandidateRefs, AcceptFails, refVars
    <2>7. ASSUME NEW d \in Doctors, Doctor(d) PROVE candidates \subseteq candidates'
      BY <2>7 DEF Doctor, DoctorListsClaims, DoctorListsRefs, DoctorReleases, DoctorStops, refVars
    <2>8. ASSUME NEW p \in Pushers, Promote(p)
          PROVE  \/ candidates \subseteq candidates'
                 \/ CommitBatch(p) /\ CASHolds(p)
                 \/ RejectSolo(p)
      BY <2>8 DEF Promote, ScanQueue, ClaimBatch, VerifyPasses, VerifyRed, VerifyInfra,
                  DropBatch, CommitBatch, RejectLost, ReleaseClaims, PusherDies, refVars
    <2> QED BY <1>1, <2>1, <2>2, <2>3, <2>4, <2>5, <2>6, <2>7, <2>8 DEF Next
  <1> QED BY <1>1, GateCorrect, PTL DEF Spec, LeavesResolved

------------------------------------------------------------------------------
(* Batches of live pushers are disjoint, as long as git reads every        *)
(* promoting ref.                                                          *)

(* Only a scan starts a selection, only a selection adds a batch, and a    *)
(* dead pusher takes no step.                                              *)
LEMMA PromoteKinds ==
    ASSUME TypeOK, NEW p \in Pushers, Promote(p)
    PROVE  /\ \A q \in Pushers \ {p} : pusher'[q] = pusher[q]
           /\ pusher[p].pc # "dead"
           /\ \/ ScanQueue(p) \/ ClaimBatch(p)
              \/ promoting' \subseteq promoting /\ pusher'[p].pc # "select"
PROOF
  <1>1. CASE ScanQueue(p) \/ ClaimBatch(p)
    BY <1>1 DEF ScanQueue, ClaimBatch, TypeOK
  <1>2. CASE VerifyPasses(p)
    BY <1>2 DEF VerifyPasses, refVars, TypeOK, Pusher
  <1>3. CASE VerifyRed(p) \/ VerifyInfra(p)
    <2>1. pusher[p].pc = "verify" /\ UNCHANGED promoting
      BY <1>3 DEF VerifyRed, VerifyInfra, refVars
    <2>2. \A q \in Pushers \ {p} : pusher'[q] = pusher[q]
      BY <1>3 DEF VerifyRed, VerifyInfra, TypeOK
    <2>3. pusher'[p].pc # "select"
      <3>1. CASE VerifyRed(p)
        <4>1. \/ pusher' = [pusher EXCEPT ![p] = [@ EXCEPT !.pc = "drop", !.todo = pusher[p].tip.members]]
              \/ pusher' = [pusher EXCEPT ![p].pc = "reject"]
          BY <3>1 DEF VerifyRed
        <4>2. pusher \in [Pushers -> Pusher]
          BY DEF TypeOK
        <4> QED BY <4>1, <4>2 DEF Pusher
      <3>2. CASE VerifyInfra(p)
        BY <3>2 DEF VerifyInfra, TypeOK, Pusher
      <3> QED BY <1>3, <3>1, <3>2
    <2> QED BY <2>1, <2>2, <2>3
  <1>4. CASE DropBatch(p) \/ RejectSolo(p) \/ RejectLost(p) \/ PusherDies(p) \/ CommitBatch(p)
    <2>1. pusher[p].pc # "dead" /\ promoting' \subseteq promoting
      BY <1>4 DEF DropBatch, RejectSolo, RejectLost, PusherDies, CommitBatch, RetireRefs, refVars
    <2>2. \A q \in Pushers \ {p} : pusher'[q] = pusher[q]
      <3>1. CASE DropBatch(p) \/ RejectLost(p) \/ PusherDies(p)
        BY <3>1 DEF DropBatch, RejectLost, PusherDies, TypeOK
      <3>2. CASE RejectSolo(p)
        BY <3>2 DEF RejectSolo, Settle, TypeOK
      <3>3. CASE CommitBatch(p)
        BY <3>3 DEF CommitBatch, Settle, TypeOK
      <3> QED BY <1>4, <3>1, <3>2, <3>3
    <2>3. pusher'[p].pc # "select"
      <3>1. CASE DropBatch(p)
        BY <3>1 DEF DropBatch, Idle, TypeOK
      <3>2. CASE RejectLost(p)
        BY <3>2 DEF RejectLost, Idle, TypeOK
      <3>3. CASE PusherDies(p)
        BY <3>3 DEF PusherDies, Idle, TypeOK
      <3>4. CASE RejectSolo(p)
        BY <3>4 DEF RejectSolo, Settle, Idle, TypeOK
      <3>5. CASE CommitBatch(p)
        <4>1. \/ Settle(p)
              \/ pusher' = [pusher EXCEPT ![p] = [@ EXCEPT !.pc = "drop",
                                !.todo = Rest(pusher[p].todo)]]
          BY <3>5 DEF CommitBatch
        <4>2. pusher \in [Pushers -> Pusher]
          BY DEF TypeOK
        <4>3. CASE Settle(p)
          BY <4>2, <4>3 DEF Settle, Idle
        <4> DEFINE t == Rest(pusher[p].todo)
        <4>4. CASE pusher' = [pusher EXCEPT ![p] = [@ EXCEPT !.pc = "drop", !.todo = t]]
          <5> HIDE DEF t
          <5> QED BY <4>2, <4>4 DEF Pusher
        <4> QED BY <4>1, <4>3, <4>4
      <3> QED BY <1>4, <3>1, <3>2, <3>3, <3>4, <3>5
    <2> QED BY <2>1, <2>2, <2>3
  <1>5. CASE ReleaseClaims(p)
    BY <1>5 DEF ReleaseClaims, refVars, TypeOK, Pusher
  <1> QED BY <1>1, <1>2, <1>3, <1>4, <1>5 DEF Promote

LEMMA NotPromoting ==
    ASSUME [Next]_vars, \A p \in Pushers : ~Promote(p)
    PROVE  UNCHANGED <<promoting, pusher>>
PROOF
  <1>1. CASE LeaseStep
    BY <1>1 DEF LeaseStep, EndLease, GrantLease, refVars, pushVars
  <1>2. ASSUME NEW k \in Candidates, Submit(k) PROVE UNCHANGED <<promoting, pusher>>
    BY <1>2 DEF Submit, SubmitLeaseCheck, SubmitCapture, SubmitAdmit, SubmitBypass,
                InsertClaims, WriteCandidateRefs, AcceptFails, refVars, pushVars
  <1>3. ASSUME NEW d \in Doctors, Doctor(d) PROVE UNCHANGED <<promoting, pusher>>
    BY <1>3 DEF Doctor, DoctorListsClaims, DoctorListsRefs, DoctorReleases, DoctorStops,
                refVars, pushVars
  <1>4. CASE UNCHANGED vars
    BY <1>4 DEF vars, refVars, pushVars
  <1> QED BY <1>1, <1>2, <1>3, <1>4 DEF Next

Apart ==
    \A b, c \in promoting :
        b.by # c.by /\ ~ProvablyDead(b.by) /\ ~ProvablyDead(c.by)
            => b.members \intersect c.members = {}

DisjointInv == Misreading = {} /\ Apart /\ ListedFree

(* No two live batches share a candidate, whichever pushers die, reclaim,  *)
(* drop or reject, when git reads every promoting ref (BatchesDisjoint).   *)
THEOREM LiveBatchesDisjoint == Misreading = {} /\ Spec => []BatchesDisjoint
PROOF
  <1>1. Misreading = {} /\ Init => DisjointInv
    BY DEF Init, DisjointInv, Apart, ListedFree, Idle
  <1>2. ASSUME GateInv, DisjointInv, [Next]_vars PROVE DisjointInv'
    <2> USE GateAssumption DEF DisjointInv, Apart
    <2>1. CASE \A p \in Pushers : ~Promote(p)
      <3>1. UNCHANGED <<promoting, pusher>>
        BY <1>2, <2>1, NotPromoting
      <3> QED BY <1>2, <3>1 DEF ListedFree, ProvablyDead
    <2>2. ASSUME NEW p \in Pushers, Promote(p) PROVE DisjointInv'
      <3>1. TypeOK
        BY <1>2 DEF GateInv
      <3>2. /\ \A q \in Pushers \ {p} : pusher'[q] = pusher[q]
            /\ pusher[p].pc # "dead"
            /\ \/ ScanQueue(p) \/ ClaimBatch(p)
               \/ promoting' \subseteq promoting /\ pusher'[p].pc # "select"
        BY <2>2, <3>1, PromoteKinds
      <3>3. \A q \in Pushers : ProvablyDead(q) => ProvablyDead(q)'
        BY <3>2 DEF ProvablyDead
      <3>4. \A b \in promoting : b.by \in Pushers
        BY <3>1 DEF TypeOK
      <3>5. CASE ScanQueue(p)
        <4>1. /\ promoting' = {b \in promoting : ~ProvablyDead(b.by)}
              /\ pusher'[p].listed = candidates \ UNION {b.members : b \in promoting'}
          <5> DEFINE dead == {b \in promoting \ {} : ProvablyDead(b.by)}
          <5>1. /\ promoting' = promoting \ dead
                /\ pusher' = [pusher EXCEPT ![p] = [@ EXCEPT
                       !.pc = "select", !.snap = Len(integration),
                       !.listed = candidates \ UNION {b.members : b \in promoting \ ({} \union dead)}]]
            BY <1>2, <3>5 DEF ScanQueue
          <5>2. promoting' = {b \in promoting : ~ProvablyDead(b.by)}
            BY <5>1
          <5>3. promoting \ ({} \union dead) = promoting'
            BY <5>1
          <5> QED BY <3>1, <5>1, <5>2, <5>3 DEF TypeOK, Pusher
        <4>2. Apart'
          BY <1>2, <3>3, <3>4, <4>1
        <4>3. ListedFree'
          <5> SUFFICES ASSUME NEW q \in Pushers, pusher'[q].pc = "select", NEW b \in promoting'
                       PROVE  pusher'[q].listed \intersect b.members = {}
            BY DEF ListedFree
          <5>1. CASE q = p
            BY <4>1, <5>1
          <5>2. CASE q # p
            BY <1>2, <3>2, <4>1, <5>2 DEF ListedFree
          <5> QED BY <5>1, <5>2
        <4> QED BY <1>2, <4>2, <4>3
      <3>6. CASE ClaimBatch(p)
        <4>1. /\ pusher[p].pc = "select"
              /\ \A q \in Pushers \ {p} : pusher[q].pc # "select"
          BY <1>2, <3>6 DEF ClaimBatch, GateInv, RoundInv, SelectInv
        <4>2. \E S \in SUBSET pusher[p].listed :
                  /\ promoting' \subseteq promoting \union {[by |-> p, members |-> S]}
                  /\ pusher'[p].pc # "select"
          <5>1. PICK S \in SUBSET Eligible(p) :
                    \/ /\ pusher' = [pusher EXCEPT ![p] = [Idle EXCEPT !.todo = Rest(pusher[p].todo)]]
                       /\ UNCHANGED promoting
                    \/ /\ pusher' = [pusher EXCEPT ![p] = [@ EXCEPT !.pc = "verify", !.listed = {},
                              !.tip = Landing(integration[pusher[p].snap].tree, S)]]
                       /\ promoting' = promoting \union {[by |-> p, members |-> S]}
            BY <3>6 DEF ClaimBatch
          <5>2. S \in SUBSET pusher[p].listed
            BY DEF Eligible
          <5>3. pusher'[p].pc # "select"
            <6>1. CASE pusher' = [pusher EXCEPT ![p] = [Idle EXCEPT !.todo = Rest(pusher[p].todo)]]
              BY <3>1, <6>1 DEF TypeOK, Idle
            <6>2. CASE pusher' = [pusher EXCEPT ![p] = [@ EXCEPT !.pc = "verify", !.listed = {},
                              !.tip = Landing(integration[pusher[p].snap].tree, S)]]
              BY <3>1, <6>2 DEF TypeOK, Pusher
            <6> QED BY <5>1, <6>1, <6>2
          <5> QED BY <5>1, <5>2, <5>3
        <4>3. PICK S \in SUBSET pusher[p].listed :
                  /\ promoting' \subseteq promoting \union {[by |-> p, members |-> S]}
                  /\ pusher'[p].pc # "select"
          BY <4>2
        <4>4. \A b \in promoting : S \intersect b.members = {}
          BY <1>2, <4>1 DEF ListedFree
        <4>5. Apart'
          BY <1>2, <3>3, <3>4, <4>3, <4>4
        <4>6. ListedFree'
          BY <3>2, <4>1, <4>3 DEF ListedFree
        <4> QED BY <1>2, <4>5, <4>6
      <3>7. CASE promoting' \subseteq promoting /\ pusher'[p].pc # "select"
        <4>1. Apart'
          BY <1>2, <3>3, <3>4, <3>7
        <4>2. ListedFree'
          BY <1>2, <3>2, <3>7 DEF ListedFree
        <4> QED BY <1>2, <4>1, <4>2
      <3> QED BY <3>2, <3>5, <3>6, <3>7
    <2> QED BY <2>1, <2>2
  <1>3. GateInv /\ DisjointInv => BatchesDisjoint
    BY DEF GateInv, RoundInv, BatchInv, BatchesDisjoint, DisjointInv, Apart
  <1> QED BY <1>1, <1>2, <1>3, GateCorrect, PTL DEF Spec

------------------------------------------------------------------------------
(* The gate implements the abstract queue: the refinement mapping sends    *)
(* the candidate ref to Accept, a landing to Promote, a rejection to       *)
(* Reject and every other step to a stutter.                               *)

Expected == [k \in Candidates |-> IF submit[k] = "accepted" THEN envelope[k].expected ELSE <<>>]
Done == {k \in Candidates : submit[k] = "accepted"} \ candidates

(* A chain is the same chain on both sides. *)
LEMMA SameChains ==
    /\ \A k : Gate!WriteSet(k) = WriteSet(k)
    /\ \A base, S : Gate!Landing(base, S) = Landing(base, S)
    /\ \A base, S, k : Gate!Parent(base, S, k) = Parent(base, S, k)
    /\ Gate!Bootstrap = Bootstrap
  BY DEF Gate!WriteSet, WriteSet, Gate!Landing, Landing, Gate!ChainTree, ChainTree,
         Gate!Parent, Parent, Gate!Bootstrap, Bootstrap

(* Steps that leave the log, the queue and the accepted envelopes. *)
LEMMA Stutters ==
    ASSUME UNCHANGED <<integration, candidates>>,
           \A k \in Candidates :
               /\ submit'[k] = "accepted" <=> submit[k] = "accepted"
               /\ submit[k] = "accepted" => envelope'[k] = envelope[k]
    PROVE  UNCHANGED <<integration, candidates, Expected, Done>>
  BY DEF Expected, Done

LEMMA AcceptRefines ==
    ASSUME GateInv, NEW k \in Candidates, WriteCandidateRefs(k)
    PROVE  Gate!Accept(k)
PROOF
  <1>1. /\ submit[k] = "claimed" /\ submit' = [submit EXCEPT ![k] = "accepted"]
        /\ candidates' = candidates \union {k}
        /\ UNCHANGED <<envelope, integration>>
    BY DEF WriteCandidateRefs, SubmitStep
  <1>2. submit \in [Candidates -> {"new", "leased", "captured", "admitted",
                       "claimed", "accepted", "rejected", "failed"}]
    BY DEF GateInv, TypeOK
  <1>3. k \notin candidates /\ k \notin Done
    BY <1>1 DEF GateInv, QueueInv, Accepted, Done
  <1>4. Done' = Done
    BY <1>1, <1>2, <1>3 DEF Done
  <1>5. PICK i \in 1..Len(integration) :
            envelope[k].expected = [p \in WriteSet(k) |-> integration[i].tree[p]]
    BY <1>1 DEF GateInv, CapturedFromHistory
  <1>6. Expected' = [Expected EXCEPT ![k] = [p \in WriteSet(k) |-> integration[i].tree[p]]]
    <2>1. Expected' = [Expected EXCEPT ![k] = envelope[k].expected]
      BY <1>1, <1>2 DEF Expected
    <2> QED BY <1>5, <2>1
  <1> QED BY <1>1, <1>3, <1>4, <1>6, SameChains DEF Gate!Accept, Expected, Done

LEMMA LandingRefines ==
    ASSUME GateInv, NEW p \in Pushers, CommitBatch(p), CASHolds(p),
           NEW S, S = pusher[p].tip.members
    PROVE  Gate!Promote(S)
PROOF
  <1> DEFINE base == integration[Len(integration)].tree
  <1>1. /\ pusher[p].snap = Len(integration)
        /\ integration' = Append(integration, pusher[p].tip)
        /\ candidates' = candidates \ S
        /\ UNCHANGED <<submit, envelope>>
    BY Landed DEF submitVars
  <1>2. BatchInv(p) /\ pusher[p].pc = "commit"
    BY DEF GateInv, RoundInv, CommitBatch
  <1>3. /\ pusher[p].tip = Landing(base, S) /\ S # {} /\ S \subseteq Accepted /\ Disjoint(S)
        /\ \A k \in S : TransitionsCurrent(k, base)
    BY <1>1, <1>2 DEF BatchInv
  <1>4. S \subseteq candidates
    BY DEF CASHolds
  <1>5. ASSUME NEW k \in S, NEW q \in WriteSet(k)
        PROVE  Parent(base, S, k)[q] = Expected[k][q]
    <2>1. S \in SUBSET Candidates
      BY <1>3 DEF Accepted
    <2>2. Parent(base, S, k)[q] = base[q]
      BY <1>3, <2>1, ParentUntouched
    <2>3. base[q] = envelope[k].expected[q]
      BY <1>3 DEF TransitionsCurrent
    <2>4. Expected[k] = envelope[k].expected
      BY <1>3 DEF Expected, Accepted
    <2> QED BY <2>2, <2>3, <2>4
  <1>6. Expected' = Expected
    BY <1>1 DEF Expected
  <1>7. Done' = Done \union S
    BY <1>1, <1>3, <1>4 DEF Done, Accepted
  <1>8. integration' = Append(integration, Landing(base, S))
    BY <1>1, <1>3
  <1>9. \A k \in S, q \in Paths : q \in WriteSet(k) => Parent(base, S, k)[q] = Expected[k][q]
    BY <1>5
  <1> QED BY <1>1, <1>3, <1>4, <1>6, <1>7, <1>8, <1>9, SameChains
          DEF Gate!Promote, Gate!Tip, Expected, Done

LEMMA RejectionRefines ==
    ASSUME GateInv, NEW p \in Pushers, RejectSolo(p)
    PROVE  \E k \in Candidates : Gate!Reject(k)
PROOF
  <1> DEFINE S == pusher[p].tip.members
  <1>1. /\ S \subseteq candidates /\ candidates' = candidates \ S
        /\ UNCHANGED <<submit, envelope, integration>>
        /\ pusher[p].pc = "reject"
    BY DEF RejectSolo, RetireRefs, submitVars
  <1>2. S # {} /\ S \subseteq Accepted /\ S \subseteq Least(pusher[p].todo)
    BY <1>1 DEF GateInv, RoundInv, BatchInv, VerdictInv
  <1>3. pusher[p].todo \in SUBSET Candidates
    BY DEF GateInv, TypeOK, Pusher
  <1>4. PICK k \in S : S = {k}
    BY <1>2, <1>3, LeastUnique
  <1>5. k \in Candidates /\ k \in candidates /\ candidates' = candidates \ {k}
    BY <1>1, <1>2, <1>4 DEF Accepted
  <1>6. Expected' = Expected /\ Done' = Done \union {k}
    BY <1>1, <1>2, <1>4, <1>5 DEF Expected, Done, Accepted
  <1> QED BY <1>1, <1>5, <1>6 DEF Gate!Reject, Expected, Done

(* Submit, promote and doctor, over all their interleavings and deaths,    *)
(* implement the queue of Integration (ImplementsIntegration).             *)
THEOREM GateImplements == Spec => ImplementsIntegration
PROOF
  <1>1. Init => Gate!Init
    BY SameChains DEF Init, Gate!Init
  <1>2. ASSUME GateInv, [Next]_vars
        PROVE  [Gate!Next]_<<integration, candidates, Expected, Done>>
    <2>1. CASE UNCHANGED vars
      BY <2>1, Stutters DEF vars, submitVars, refVars
    <2>2. CASE LeaseStep
      <3>1. UNCHANGED <<submit, envelope, integration, candidates>>
        BY <2>2 DEF LeaseStep, EndLease, GrantLease, refVars
      <3> QED BY <3>1, Stutters
    <2>3. ASSUME NEW d \in Doctors, Doctor(d)
          PROVE  UNCHANGED <<integration, candidates, Expected, Done>>
      <3>1. UNCHANGED <<submit, envelope, integration, candidates>>
        BY <2>3 DEF Doctor, DoctorListsClaims, DoctorListsRefs, DoctorReleases, DoctorStops,
                    submitVars, refVars
      <3> QED BY <3>1, Stutters
    <2>4. ASSUME NEW k \in Candidates, EarlySubmit(k)
          PROVE  UNCHANGED <<integration, candidates, Expected, Done>>
      BY <1>2, <2>4, SubmitSteps, Stutters DEF GateInv, SubmitSide, refVars
    <2>5. ASSUME NEW p \in Pushers, Promote(p), ~RejectSolo(p), ~(CommitBatch(p) /\ CASHolds(p))
          PROVE  UNCHANGED <<integration, candidates, Expected, Done>>
      <3>1. UNCHANGED <<submit, envelope, integration, candidates>>
        BY <2>5 DEF Promote, ScanQueue, ClaimBatch, VerifyPasses, VerifyRed, VerifyInfra,
                    DropBatch, CommitBatch, RejectLost, ReleaseClaims, PusherDies,
                    submitVars, refVars
      <3> QED BY <3>1, Stutters
    <2>6. ASSUME NEW k \in Candidates, WriteCandidateRefs(k) PROVE Gate!Next
      BY <1>2, <2>6, AcceptRefines DEF Gate!Next
    <2>7. ASSUME NEW p \in Pushers, RejectSolo(p) PROVE Gate!Next
      BY <1>2, <2>7, RejectionRefines DEF Gate!Next
    <2>8. ASSUME NEW p \in Pushers, CommitBatch(p), CASHolds(p) PROVE Gate!Next
      <3>1. pusher[p].tip.members \in SUBSET Candidates
        BY <1>2, <2>8 DEF GateInv, RoundInv, BatchInv, CommitBatch, Accepted
      <3>2. PICK S \in SUBSET Candidates : S = pusher[p].tip.members
        BY <3>1
      <3>3. Gate!Promote(S)
        BY <1>2, <2>8, <3>2, LandingRefines
      <3> QED BY <3>3 DEF Gate!Next
    <2> QED BY <1>2, <2>1, <2>2, <2>3, <2>4, <2>5, <2>6, <2>7, <2>8 DEF Next, Submit, EarlySubmit
  <1> QED BY <1>1, <1>2, GateCorrect, PTL
          DEF Spec, ImplementsIntegration, Gate!Spec, Expected, Done
==============================================================================
