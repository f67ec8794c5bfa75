-------------------------- MODULE ViolationsProofs --------------------------
(***************************************************************************)
(* Proofs about Violations, for any number of checkouts, files and passes. *)
(***************************************************************************)
EXTENDS Violations, FiniteSetTheorems, TLAPS

Fingerprint == Contents \union {Absent}

Row == [id : Nat, path : Paths, fingerprint : Fingerprint, baseline : Nat,
        worktree : Worktrees \union {WorktreeLegacy},
        resolution : {Open, "acked", "reverted"}]

Observations == {<<>>} \union UNION {[D -> Fingerprint] : D \in SUBSET Paths}

Scan == [pc : {"idle", "baseline", "diff", "hash", "authorize", "acked", "open", "resolve",
               "record", "admit", "done"},
         worktree : Worktrees \union {WorktreeLegacy}, submits : Paths \union {NoPath},
         baseline : Nat, clean : SUBSET Paths, changed : SUBSET Paths, obs : Observations,
         judged : SUBSET Paths, reverted : SUBSET Paths, recorded : BOOLEAN]

TypeInv ==
    /\ tree \in [Worktrees -> [Paths -> Fingerprint]]
    /\ integration \in [at : Nat, of : [Paths -> Contents]]
    /\ violations \subseteq Row
    /\ scan \in [Scans -> Scan]

(* A pass has a checkout once it began; after the diff every path is clean *)
(* or observed; what it takes for reverted was not observed.               *)
ScanInv ==
    \A s \in Scans :
        /\ scan[s].pc # "idle" => scan[s].worktree \in Worktrees
        /\ scan[s].pc = "hash" =>
               Paths \subseteq scan[s].clean \union scan[s].changed \union DOMAIN scan[s].obs
        /\ scan[s].pc \in {"authorize", "acked", "open", "resolve"} =>
               Paths \subseteq scan[s].clean \union DOMAIN scan[s].obs
        /\ scan[s].pc \in {"acked", "open", "resolve", "record"} => scan[s].judged \subseteq DOMAIN scan[s].obs
        /\ scan[s].pc = "resolve" => scan[s].reverted \intersect DOMAIN scan[s].obs = {}

(* The table numbers its rows, and has one open row per path and checkout. *)
RowsNumbered ==
    /\ \A u, v \in violations : u.id = v.id => u = v
    /\ IsFiniteSet(violations) /\ {v.id : v \in violations} = 1..Cardinality(violations)

OpenUnique ==
    \A u, v \in violations :
        u.resolution = Open /\ v.resolution = Open /\ u.path = v.path /\ u.worktree = v.worktree
            => u = v

TableInv == RowsNumbered /\ OpenUnique /\ AcknowledgedStays

------------------------------------------------------------------------------
(* Numbered rows can be counted by their numbers. *)
LEMMA CountedByIds ==
    ASSUME NEW V, NEW n \in Nat,
           \A u, v \in V : u.id = v.id => u = v,
           {v.id : v \in V} = 1..n
    PROVE  IsFiniteSet(V) /\ Cardinality(V) = n
PROOF
  <1> DEFINE f == [v \in V |-> v.id]
  <1>1. f \in Injection(V, 1..n) /\ f \in Surjection(V, 1..n)
    BY DEF Injection, Surjection, IsInjective
  <1>2. IsFiniteSet(1..n) /\ Cardinality(1..n) = n
    BY FS_Interval
  <1> QED BY <1>1, <1>2, FS_Injection

(* A step that closes some open rows and touches no other. *)
LEMMA ClosingKeeps ==
    ASSUME violations \subseteq Row, TableInv, NEW C \in SUBSET violations,
           \A v \in C : v.resolution = Open, NEW to \in {"acked", "reverted"},
           violations' = (violations \ C) \union {[v EXCEPT !.resolution = to] : v \in C}
    PROVE  violations' \subseteq Row /\ TableInv'
PROOF
  <1>1. \A x \in violations' : \E y \in violations :
            /\ IF y \in C THEN x = [y EXCEPT !.resolution = to] ELSE x = y
            /\ x \in Row /\ x.id = y.id /\ x.path = y.path /\ x.worktree = y.worktree
            /\ x.fingerprint = y.fingerprint /\ x.baseline = y.baseline
            /\ x.resolution = IF y \in C THEN to ELSE y.resolution
    <2>1. ASSUME NEW y \in C
          PROVE  LET x == [y EXCEPT !.resolution = to]
                 IN  /\ x \in Row /\ x.id = y.id /\ x.path = y.path /\ x.worktree = y.worktree
                     /\ x.fingerprint = y.fingerprint /\ x.baseline = y.baseline
                     /\ x.resolution = to
      BY DEF Row
    <2> TAKE x \in violations'
    <2>2. CASE x \in violations \ C
      BY <2>2
    <2>3. CASE \E y \in C : x = [y EXCEPT !.resolution = to]
      BY <2>1, <2>3
    <2> QED BY <2>2, <2>3
  <1>2. \A y \in violations : \E x \in violations' : x.id = y.id
    <2> TAKE y \in violations
    <2>1. CASE y \in C
      <3>1. [y EXCEPT !.resolution = to] \in violations'
        BY <2>1
      <3>2. [y EXCEPT !.resolution = to].id = y.id
        BY DEF Row
      <3> QED BY <3>1, <3>2
    <2>2. CASE y \notin C
      BY <2>2
    <2> QED BY <2>1, <2>2
  <1>3. RowsNumbered'
    <2>1. \A u, v \in violations' : u.id = v.id => u = v
      BY <1>1 DEF TableInv, RowsNumbered
    <2>2. {v.id : v \in violations'} = {v.id : v \in violations}
      <3>1. \A x \in violations' : \E y \in violations : x.id = y.id
        BY <1>1
      <3>2. {v.id : v \in violations'} \subseteq {v.id : v \in violations}
        BY <3>1
      <3>3. {v.id : v \in violations} \subseteq {v.id : v \in violations'}
        BY <1>2
      <3> QED BY <3>2, <3>3
    <2>3. IsFiniteSet(violations) /\ {v.id : v \in violations} = 1..Cardinality(violations)
      BY DEF TableInv, RowsNumbered
    <2>4. Cardinality(violations) \in Nat
      BY <2>3, FS_CardinalityType
    <2>5. IsFiniteSet(violations') /\ Cardinality(violations') = Cardinality(violations)
      BY <2>1, <2>2, <2>3, <2>4, CountedByIds
    <2> QED BY <2>1, <2>2, <2>3, <2>5 DEF RowsNumbered
  <1>4. OpenUnique'
    BY <1>1 DEF TableInv, OpenUnique, Open
  <1>5. AcknowledgedStays'
    <2> SUFFICES ASSUME NEW v \in violations', NEW u \in violations',
                        v.path = u.path, v.fingerprint = u.fingerprint, v.baseline = u.baseline,
                        v.worktree = u.worktree, u.resolution = "acked", v.resolution = Open
                 PROVE  FALSE
      BY DEF AcknowledgedStays
    <2>1. v \in violations /\ v \notin C
      BY <1>1 DEF Open
    <2>2. PICK y \in violations :
              /\ u.path = y.path /\ u.worktree = y.worktree /\ u.fingerprint = y.fingerprint
              /\ u.baseline = y.baseline
              /\ y \in C \/ y.resolution = "acked"
      BY <1>1
    <2>3. CASE y \in C
      BY <2>1, <2>2, <2>3 DEF TableInv, OpenUnique
    <2>4. CASE y.resolution = "acked"
      BY <2>1, <2>2, <2>4 DEF TableInv, AcknowledgedStays
    <2> QED BY <2>2, <2>3, <2>4
  <1> QED BY <1>1, <1>3, <1>4, <1>5 DEF TableInv

(* RecordViolations inserts only what no open row and no acknowledgement   *)
(* stands against, under numbers of their own.                             *)
LEMMA RecordKeeps ==
    ASSUME TypeInv, ScanInv, TableInv, NEW s \in Scans, ReconcileRecord(s)
    PROVE  violations' \subseteq Row /\ TableInv' /\ violations \subseteq violations'
PROOF
  <1> USE ViolationsAssumption
  <1> DEFINE R == Recordable(s)
             c == Cardinality(violations)
             n == Cardinality(R)
             new(id, p) == [id |-> id, path |-> p, fingerprint |-> scan[s].obs[p],
                            baseline |-> scan[s].baseline, worktree |-> scan[s].worktree,
                            resolution |-> Open]
  <1>1. PICK id \in [R -> 1..MaxRows] :
            /\ \A p, q \in R : p # q => id[p] # id[q]
            /\ {id[p] : p \in R} = (c + 1)..(c + n)
            /\ violations' = violations \union {new(id[p], p) : p \in R}
    BY DEF ReconcileRecord
  <1>2. c \in Nat /\ IsFiniteSet(violations) /\ {v.id : v \in violations} = 1..c
    BY FS_CardinalityType DEF TableInv, RowsNumbered
  <1>3. n \in Nat
    <2>1. id \in Injection(R, 1..MaxRows)
      BY <1>1 DEF Injection, IsInjective
    <2>2. IsFiniteSet(1..MaxRows)
      BY FS_Interval
    <2>3. IsFiniteSet(R)
      BY <2>1, <2>2, FS_Injection
    <2> QED BY <2>3, FS_CardinalityType
  <1>4. /\ scan[s].pc = "record" /\ scan[s] \in Scan
        /\ scan[s].worktree \in Worktrees /\ scan[s].baseline \in Nat
        /\ R \subseteq Paths
    <2>1. scan[s].pc = "record" /\ scan[s] \in Scan
      BY DEF ReconcileRecord, TypeInv
    <2> QED BY <2>1 DEF ScanInv, Scan, Recordable
  <1>5. \A p \in R : scan[s].obs[p] \in Fingerprint
    <2>1. R \subseteq DOMAIN scan[s].obs
      BY <1>4 DEF ScanInv, Recordable
    <2>2. scan[s].obs \in Observations
      BY <1>4 DEF Scan
    <2> QED BY <2>1, <2>2 DEF Observations
  <1>6. \A p \in R : new(id[p], p) \in Row /\ id[p] \in (c + 1)..(c + n)
    BY <1>1, <1>2, <1>4, <1>5 DEF Row
  <1>7. \A x \in violations' : x \in violations \/ \E p \in R : x = new(id[p], p)
    BY <1>1
  <1>8. \A v \in violations : v.id \in 1..c
    BY <1>2
  <1> HIDE DEF R, c, n
  <1>9. RowsNumbered'
    <2>1. \A u, v \in violations' : u.id = v.id => u = v
      <3> SUFFICES ASSUME NEW u \in violations', NEW v \in violations', u.id = v.id PROVE u = v
        OBVIOUS
      <3>1. CASE u \in violations /\ v \in violations
        BY <3>1 DEF TableInv, RowsNumbered
      <3>2. CASE (\E p \in R : u = new(id[p], p)) /\ (\E p \in R : v = new(id[p], p))
        BY <1>1, <3>2
      <3>3. CASE u \in violations /\ (\E p \in R : v = new(id[p], p))
        BY <1>2, <1>3, <1>6, <1>8, <3>3
      <3>4. CASE v \in violations /\ (\E p \in R : u = new(id[p], p))
        BY <1>2, <1>3, <1>6, <1>8, <3>4
      <3> QED BY <1>7, <3>1, <3>2, <3>3, <3>4
    <2>2. {v.id : v \in violations'} = 1..(c + n)
      <3>1. \A v \in violations' : v.id \in 1..(c + n)
        BY <1>2, <1>3, <1>6, <1>7, <1>8
      <3>2. \A i \in 1..(c + n) : \E v \in violations' : v.id = i
        <4> TAKE i \in 1..(c + n)
        <4>1. CASE i \in 1..c
          BY <1>1, <1>2, <4>1
        <4>2. CASE i \in (c + 1)..(c + n)
          <5>1. PICK p \in R : id[p] = i
            BY <1>1, <4>2
          <5>2. new(id[p], p) \in violations' /\ new(id[p], p).id = i
            BY <1>1, <5>1
          <5> QED BY <5>2
        <4> QED BY <1>2, <1>3, <4>1, <4>2
      <3> QED BY <3>1, <3>2
    <2>3. c + n \in Nat
      BY <1>2, <1>3
    <2>4. IsFiniteSet(violations') /\ Cardinality(violations') = c + n
      BY <2>1, <2>2, <2>3, CountedByIds
    <2> QED BY <2>1, <2>2, <2>4 DEF RowsNumbered
  <1>10. \A p \in R : /\ ~InTheWay(p, scan[s].worktree)
                      /\ ~Acked(p, scan[s].obs[p], scan[s].baseline, scan[s].worktree)
    BY DEF R, Recordable
  <1>11. OpenUnique'
    <2> SUFFICES ASSUME NEW u \in violations', NEW v \in violations', u.resolution = Open,
                        v.resolution = Open, u.path = v.path, u.worktree = v.worktree
                 PROVE  u = v
      BY DEF OpenUnique
    <2>1. CASE u \in violations /\ v \in violations
      BY <2>1 DEF TableInv, OpenUnique
    <2>2. CASE (\E p \in R : u = new(id[p], p)) /\ (\E p \in R : v = new(id[p], p))
      BY <2>2
    <2>3. CASE u \in violations /\ (\E p \in R : v = new(id[p], p))
      BY <1>10, <2>3 DEF InTheWay
    <2>4. CASE v \in violations /\ (\E p \in R : u = new(id[p], p))
      BY <1>10, <2>4 DEF InTheWay
    <2> QED BY <1>7, <2>1, <2>2, <2>3, <2>4
  <1>12. AcknowledgedStays'
    <2> SUFFICES ASSUME NEW v \in violations', NEW u \in violations',
                        v.path = u.path, v.fingerprint = u.fingerprint, v.baseline = u.baseline,
                        v.worktree = u.worktree, u.resolution = "acked", v.resolution = Open
                 PROVE  FALSE
      BY DEF AcknowledgedStays
    <2>1. u \in violations
      BY <1>7 DEF Open
    <2>2. CASE v \in violations
      BY <2>1, <2>2 DEF TableInv, AcknowledgedStays
    <2>3. CASE \E p \in R : v = new(id[p], p)
      BY <1>10, <2>1, <2>3 DEF Acked, Open
    <2> QED BY <1>7, <2>2, <2>3
  <1> QED BY <1>1, <1>6, <1>9, <1>11, <1>12 DEF TableInv, TypeInv

------------------------------------------------------------------------------
LEMMA InitHolds == Init => TypeInv /\ ScanInv /\ TableInv
PROOF
  <1> SUFFICES ASSUME Init PROVE TypeInv /\ ScanInv /\ TableInv
    OBVIOUS
  <1> USE ViolationsAssumption
  <1>1. Idle \in Scan
    BY DEF Idle, Scan, Observations
  <1>2. \A p \in Paths : LegacyRow(p) \in Row
    BY DEF LegacyRow, Row, Fingerprint, Open
  <1>3. TypeInv
    BY <1>1, <1>2 DEF Init, TypeInv, Fingerprint
  <1>4. ScanInv
    BY DEF Init, ScanInv, Idle
  <1>5. CASE violations = {}
    <2>1. IsFiniteSet(violations) /\ Cardinality(violations) = 0
      BY <1>5, FS_EmptySet
    <2>2. {v.id : v \in violations} = {} /\ 1..0 = {}
      BY <1>5
    <2> QED BY <1>3, <1>4, <1>5, <2>1, <2>2
        DEF TableInv, RowsNumbered, OpenUnique, AcknowledgedStays
  <1>6. CASE \E p \in Paths : violations = {LegacyRow(p)}
    <2>1. PICK p \in Paths : violations = {LegacyRow(p)}
      BY <1>6
    <2>2. IsFiniteSet(violations) /\ Cardinality(violations) = 1
      BY <2>1, FS_Singleton
    <2>3. {v.id : v \in violations} = 1..1
      BY <2>1 DEF LegacyRow
    <2>4. RowsNumbered
      BY <2>1, <2>2, <2>3 DEF RowsNumbered
    <2>5. OpenUnique /\ AcknowledgedStays
      BY <2>1 DEF OpenUnique, AcknowledgedStays, LegacyRow, Open
    <2> QED BY <1>3, <1>4, <2>4, <2>5 DEF TableInv
  <1> QED BY <1>5, <1>6 DEF Init

(* One pass takes a step of its own, the others stay. *)
LEMMA PassSteps ==
    ASSUME TypeInv, ScanInv, NEW s \in Scans, NEW r \in Scan, scan' = [scan EXCEPT ![s] = r],
           violations' \subseteq Row, UNCHANGED <<tree, integration>>,
           /\ r.pc # "idle" => r.worktree \in Worktrees
           /\ r.pc = "hash" => Paths \subseteq r.clean \union r.changed \union DOMAIN r.obs
           /\ r.pc \in {"authorize", "acked", "open", "resolve"} => Paths \subseteq r.clean \union DOMAIN r.obs
           /\ r.pc \in {"acked", "open", "resolve", "record"} => r.judged \subseteq DOMAIN r.obs
           /\ r.pc = "resolve" => r.reverted \intersect DOMAIN r.obs = {}
    PROVE  TypeInv' /\ ScanInv'
PROOF
  <1>1. scan \in [Scans -> Scan]
    BY DEF TypeInv
  <1>2. scan' \in [Scans -> Scan] /\ scan'[s] = r /\ \A t \in Scans \ {s} : scan'[t] = scan[t]
    BY <1>1
  <1>3. TypeInv'
    BY <1>2 DEF TypeInv
  <1>4. ScanInv'
    <2> SUFFICES ASSUME NEW t \in Scans
                 PROVE  /\ scan'[t].pc # "idle" => scan'[t].worktree \in Worktrees
                        /\ scan'[t].pc = "hash" =>
                               Paths \subseteq scan'[t].clean \union scan'[t].changed
                                                   \union DOMAIN scan'[t].obs
                        /\ scan'[t].pc \in {"authorize", "acked", "open", "resolve"} =>
                               Paths \subseteq scan'[t].clean \union DOMAIN scan'[t].obs
                        /\ scan'[t].pc \in {"acked", "open", "resolve", "record"} =>
                               scan'[t].judged \subseteq DOMAIN scan'[t].obs
                        /\ scan'[t].pc = "resolve" =>
                               scan'[t].reverted \intersect DOMAIN scan'[t].obs = {}
      BY DEF ScanInv
    <2>1. CASE t = s
      BY <1>2, <2>1
    <2>2. CASE t # s
      BY <1>2, <2>2 DEF ScanInv
    <2> QED BY <2>1, <2>2
  <1> QED BY <1>3, <1>4

(* A pass only looks, or gives up. *)
LEMMA LooksKeep ==
    ASSUME TypeInv, ScanInv, NEW s \in Scans,
           \/ ScanBegins(s) \/ SubmitBegins(s) \/ SubmitScans(s) \/ ScanDiff(s) \/ ScanHash(s)
           \/ ReconcileAuthorized(s) \/ ReconcileAcked(s) \/ ReconcileOpen(s) \/ ScanFails(s) \/ SubmitAdmits(s)
    PROVE  TypeInv' /\ ScanInv' /\ UNCHANGED violations /\ scan'[s].recorded = scan[s].recorded
PROOF
  <1> USE ViolationsAssumption
  <1>1. scan[s] \in Scan /\ scan \in [Scans -> Scan] /\ violations \subseteq Row
        /\ integration.at \in Nat
    BY DEF TypeInv
  <1>2. CASE ScanBegins(s)
    <2>1. PICK w \in Worktrees :
              scan' = [scan EXCEPT ![s] = [scan[s] EXCEPT !.pc = "diff", !.worktree = w,
                                                          !.baseline = integration.at]]
      BY <1>2 DEF ScanBegins
    <2> DEFINE r == [scan[s] EXCEPT !.pc = "diff", !.worktree = w, !.baseline = integration.at]
    <2>2. r \in Scan /\ r.pc = "diff" /\ r.worktree = w /\ r.recorded = scan[s].recorded
      BY <1>1 DEF Scan
    <2>3. UNCHANGED <<tree, integration, violations>>
      BY <1>2 DEF ScanBegins, world
    <2> HIDE DEF r
    <2>4. scan' = [scan EXCEPT ![s] = r] /\ scan'[s] = r
      BY <1>1, <2>1 DEF r
    <2> QED BY <1>1, <2>2, <2>3, <2>4, PassSteps
  <1>3. CASE SubmitBegins(s)
    <2>1. PICK w \in Worktrees, p \in Paths :
              scan' = [scan EXCEPT ![s] = [scan[s] EXCEPT !.pc = "baseline", !.worktree = w,
                                                          !.submits = p]]
      BY <1>3 DEF SubmitBegins
    <2> DEFINE r == [scan[s] EXCEPT !.pc = "baseline", !.worktree = w, !.submits = p]
    <2>2. r \in Scan /\ r.pc = "baseline" /\ r.worktree = w /\ r.recorded = scan[s].recorded
      BY <1>1 DEF Scan
    <2>3. UNCHANGED <<tree, integration, violations>>
      BY <1>3 DEF SubmitBegins, world
    <2> HIDE DEF r
    <2>4. scan' = [scan EXCEPT ![s] = r] /\ scan'[s] = r
      BY <1>1, <2>1 DEF r
    <2> QED BY <1>1, <2>2, <2>3, <2>4, PassSteps
  <1>4. CASE SubmitScans(s)
    <2> DEFINE r == [scan[s] EXCEPT !.pc = "diff", !.baseline = integration.at]
    <2>1. scan[s].pc = "baseline" /\ UNCHANGED <<tree, integration, violations>>
      BY <1>4 DEF SubmitScans, world
    <2>2. r \in Scan /\ r.pc = "diff" /\ r.worktree = scan[s].worktree
          /\ r.recorded = scan[s].recorded
      BY <1>1 DEF Scan
    <2>3. scan' = [scan EXCEPT ![s] = r]
      BY <1>1, <1>4 DEF SubmitScans
    <2> HIDE DEF r
    <2>4. scan'[s] = r
      BY <1>1, <2>3
    <2>5. r.worktree \in Worktrees
      BY <2>1, <2>2 DEF ScanInv
    <2> QED BY <1>1, <2>1, <2>2, <2>3, <2>4, <2>5, PassSteps
  <1>5. CASE ScanDiff(s)
    <2> DEFINE here == tree[scan[s].worktree]
               differs == {p \in Paths : here[p] # integration.of[p]}
               deleted == {p \in differs : here[p] = Absent}
               o == [p \in deleted |-> Absent]
               r == [scan[s] EXCEPT !.pc = "hash", !.clean = Paths \ differs,
                                    !.changed = differs \ deleted, !.obs = o]
    <2>1. scan[s].pc = "diff" /\ UNCHANGED <<tree, integration, violations>>
          /\ scan' = [scan EXCEPT ![s] = r]
      BY <1>5 DEF ScanDiff, world
    <2>2. o \in Observations /\ DOMAIN o = deleted
      <3>1. deleted \in SUBSET Paths
        OBVIOUS
      <3>2. o \in [deleted -> Fingerprint]
        BY DEF Fingerprint
      <3> QED BY <3>1, <3>2 DEF Observations
    <2>3. /\ differs \subseteq Paths /\ deleted \subseteq differs
          /\ Paths \subseteq (Paths \ differs) \union (differs \ deleted) \union deleted
      OBVIOUS
    <2> HIDE DEF differs, deleted, o
    <2>4. r \in Scan /\ r.pc = "hash" /\ r.clean = Paths \ differs
          /\ r.changed = differs \ deleted /\ r.obs = o /\ r.worktree = scan[s].worktree
          /\ r.recorded = scan[s].recorded
      BY <1>1, <2>2, <2>3 DEF Scan
    <2> HIDE DEF r
    <2>5. scan'[s] = r
      BY <1>1, <2>1
    <2>6. r.worktree \in Worktrees
      BY <2>1, <2>4 DEF ScanInv
    <2>7. Paths \subseteq r.clean \union r.changed \union DOMAIN r.obs
      BY <2>2, <2>3, <2>4
    <2> QED BY <1>1, <2>1, <2>4, <2>5, <2>6, <2>7, PassSteps
  <1>6. ASSUME GiveUp(s), scan[s].pc # "idle", UNCHANGED <<tree, integration, violations>>
        PROVE  TypeInv' /\ ScanInv' /\ scan'[s].recorded = scan[s].recorded
    <2> PICK to \in {"done", "admit"} : scan' = [scan EXCEPT ![s].pc = to]
      BY <1>6 DEF GiveUp
    <2> DEFINE r == [scan[s] EXCEPT !.pc = to]
    <2>1. r \in Scan /\ r.pc = to /\ r.worktree = scan[s].worktree /\ r.recorded = scan[s].recorded
      BY <1>1 DEF Scan
    <2>2. scan' = [scan EXCEPT ![s] = r]
      BY <1>1
    <2> HIDE DEF r
    <2>3. scan'[s] = r
      BY <1>1, <2>2
    <2>4. r.worktree \in Worktrees
      BY <1>6, <2>1 DEF ScanInv
    <2> QED BY <1>1, <1>6, <2>1, <2>2, <2>3, <2>4, PassSteps
  <1>7. CASE ScanHash(s)
    <2>1. scan[s].pc = "hash" /\ UNCHANGED <<tree, integration, violations>>
      BY <1>7 DEF ScanHash, world
    <2>2. CASE GiveUp(s)
      BY <1>6, <2>1, <2>2
    <2>3. CASE ~GiveUp(s)
      <3> DEFINE here == tree[scan[s].worktree]
                 D == DOMAIN scan[s].obs \union scan[s].changed
                 o == [p \in D |-> IF p \in DOMAIN scan[s].obs THEN scan[s].obs[p] ELSE here[p]]
                 r == [scan[s] EXCEPT !.pc = "authorize", !.obs = o]
      <3>1. scan' = [scan EXCEPT ![s] = r]
        BY <1>1, <1>7, <2>3 DEF ScanHash
      <3>2. scan[s].worktree \in Worktrees
            /\ Paths \subseteq scan[s].clean \union scan[s].changed \union DOMAIN scan[s].obs
        BY <2>1 DEF ScanInv
      <3>3. here \in [Paths -> Fingerprint]
        BY <3>2 DEF TypeInv
      <3>4. scan[s].obs \in Observations /\ scan[s].changed \subseteq Paths
        BY <1>1 DEF Scan
      <3>5. DOMAIN scan[s].obs \subseteq Paths
            /\ \A p \in DOMAIN scan[s].obs : scan[s].obs[p] \in Fingerprint
        BY <3>4 DEF Observations
      <3>6. o \in [D -> Fingerprint] /\ D \in SUBSET Paths
        BY <3>3, <3>4, <3>5
      <3>7. o \in Observations /\ DOMAIN o = D
        BY <3>6 DEF Observations
      <3> HIDE DEF o
      <3>8. r \in Scan /\ r.pc = "authorize" /\ r.obs = o /\ r.worktree = scan[s].worktree
            /\ r.clean = scan[s].clean /\ r.recorded = scan[s].recorded
        BY <1>1, <3>7 DEF Scan
      <3> HIDE DEF r
      <3>9. scan'[s] = r
        BY <1>1, <3>1
      <3>10. Paths \subseteq r.clean \union DOMAIN r.obs
        BY <3>2, <3>7, <3>8
      <3> QED BY <1>1, <2>1, <3>1, <3>2, <3>8, <3>9, <3>10, PassSteps
    <2> QED BY <2>1, <2>2, <2>3
  <1>8. CASE ReconcileAuthorized(s) \/ ReconcileAcked(s)
    <2>1. /\ scan[s].pc \in {"authorize", "acked"}
          /\ UNCHANGED <<tree, integration, violations>>
      BY <1>8 DEF ReconcileAuthorized, ReconcileAcked, world
    <2>2. PICK J \in SUBSET Paths, to \in {"acked", "open"} :
              /\ scan' = [scan EXCEPT ![s] = [scan[s] EXCEPT !.pc = to, !.judged = J]]
              /\ J \subseteq DOMAIN scan[s].obs
      <3>0. DOMAIN scan[s].obs \subseteq Paths
        BY <1>1 DEF Scan, Observations
      <3>1. CASE ReconcileAuthorized(s)
        <4> DEFINE K == {p \in DOMAIN scan[s].obs : ~Authorized(p)}
        <4>1. scan' = [scan EXCEPT ![s] = [scan[s] EXCEPT !.pc = "acked", !.judged = K]]
          BY <1>1, <3>1 DEF ReconcileAuthorized
        <4>2. K \subseteq DOMAIN scan[s].obs
          OBVIOUS
        <4> HIDE DEF K
        <4> QED BY <3>0, <4>1, <4>2
      <3>2. CASE ReconcileAcked(s)
        <4> DEFINE K == {p \in scan[s].judged :
                            ~Acked(p, scan[s].obs[p], scan[s].baseline, scan[s].worktree)}
        <4>1. scan' = [scan EXCEPT ![s] = [scan[s] EXCEPT !.pc = "open", !.judged = K]]
          BY <1>1, <3>2 DEF ReconcileAcked
        <4>2. K \subseteq DOMAIN scan[s].obs
          BY <3>2 DEF ReconcileAcked, ScanInv
        <4> HIDE DEF K
        <4> QED BY <3>0, <4>1, <4>2
      <3> QED BY <1>8, <3>1, <3>2
    <2> DEFINE r == [scan[s] EXCEPT !.pc = to, !.judged = J]
    <2>3. scan[s].obs \in Observations
      BY <1>1 DEF Scan
    <2>4. J \subseteq DOMAIN scan[s].obs /\ DOMAIN scan[s].obs \subseteq Paths
      BY <2>2, <2>3 DEF Observations
    <2>5. r \in Scan /\ r.pc = to /\ r.judged = J /\ r.obs = scan[s].obs
          /\ r.clean = scan[s].clean /\ r.worktree = scan[s].worktree
          /\ r.recorded = scan[s].recorded
      BY <1>1, <2>4 DEF Scan
    <2>6. scan' = [scan EXCEPT ![s] = r]
      BY <2>2
    <2> HIDE DEF r
    <2>7. scan'[s] = r
      BY <1>1, <2>6
    <2>8. r.worktree \in Worktrees /\ Paths \subseteq r.clean \union DOMAIN r.obs
      BY <2>1, <2>5 DEF ScanInv
    <2> QED BY <1>1, <2>1, <2>2, <2>4, <2>5, <2>6, <2>7, <2>8, PassSteps
  <1>9. CASE ReconcileOpen(s)
    <2> DEFINE V == {v.path : v \in OpenRows(scan[s].worktree)} \ DOMAIN scan[s].obs
               r == [scan[s] EXCEPT !.pc = "resolve", !.reverted = V]
    <2>1. scan[s].pc = "open" /\ UNCHANGED <<tree, integration, violations>>
      BY <1>9 DEF ReconcileOpen, world
    <2>2. scan' = [scan EXCEPT ![s] = r]
      BY <1>1, <1>9 DEF ReconcileOpen
    <2>3. V \intersect DOMAIN scan[s].obs = {}
      OBVIOUS
    <2>4. V \subseteq Paths
      BY <1>1 DEF OpenRows, Row
    <2> HIDE DEF V
    <2>5. r \in Scan /\ r.pc = "resolve" /\ r.judged = scan[s].judged /\ r.obs = scan[s].obs
          /\ r.clean = scan[s].clean /\ r.worktree = scan[s].worktree /\ r.reverted = V
          /\ r.recorded = scan[s].recorded
      BY <1>1, <2>4 DEF Scan
    <2> HIDE DEF r
    <2>6. scan'[s] = r
      BY <1>1, <2>2
    <2>7. r.worktree \in Worktrees /\ Paths \subseteq r.clean \union DOMAIN r.obs
          /\ r.judged \subseteq DOMAIN r.obs
      BY <2>1, <2>5 DEF ScanInv
    <2> QED BY <1>1, <2>1, <2>2, <2>3, <2>5, <2>6, <2>7, PassSteps
  <1>10. CASE ScanFails(s)
    <2>1. scan[s].pc # "idle" /\ UNCHANGED <<tree, integration, violations>> /\ GiveUp(s)
      BY <1>10 DEF ScanFails, world
    <2> QED BY <1>6, <2>1
  <1>11. CASE SubmitAdmits(s)
    <2> DEFINE r == [scan[s] EXCEPT !.pc = "done"]
    <2>1. scan[s].pc = "admit" /\ UNCHANGED <<tree, integration, violations>>
      BY <1>11 DEF SubmitAdmits
    <2>2. scan' = [scan EXCEPT ![s] = r]
      BY <1>1, <1>11 DEF SubmitAdmits
    <2>3. r \in Scan /\ r.pc = "done" /\ r.worktree = scan[s].worktree
          /\ r.recorded = scan[s].recorded
      BY <1>1 DEF Scan
    <2> HIDE DEF r
    <2>4. scan'[s] = r
      BY <1>1, <2>2
    <2>5. r.worktree \in Worktrees
      BY <2>1, <2>3 DEF ScanInv
    <2> QED BY <1>1, <2>1, <2>2, <2>3, <2>4, <2>5, PassSteps
  <1> QED BY <1>2, <1>3, <1>4, <1>5, <1>7, <1>8, <1>9, <1>10, <1>11

LEMMA ResolveKeeps ==
    ASSUME TypeInv, ScanInv, TableInv, NEW s \in Scans, ReconcileResolve(s)
    PROVE  TypeInv' /\ ScanInv' /\ TableInv' /\ scan'[s].recorded = scan[s].recorded
PROOF
  <1> DEFINE r == [scan[s] EXCEPT !.pc = "record"]
             C == ClearedBy(s)
  <1>1. scan[s] \in Scan /\ scan \in [Scans -> Scan] /\ violations \subseteq Row
    BY DEF TypeInv
  <1>2. C \in SUBSET violations /\ \A v \in C : v.resolution = Open
    BY DEF ClearedBy
  <1>3. violations' = (violations \ C) \union {[v EXCEPT !.resolution = "reverted"] : v \in C}
    BY DEF ReconcileResolve
  <1> HIDE DEF C
  <1>4. violations' \subseteq Row /\ TableInv'
    BY <1>1, <1>2, <1>3, ClosingKeeps
  <1>5. scan[s].pc = "resolve" /\ UNCHANGED <<tree, integration>> /\ scan' = [scan EXCEPT ![s] = r]
    BY <1>1 DEF ReconcileResolve, world
  <1>6. r \in Scan /\ r.pc = "record" /\ r.worktree = scan[s].worktree
        /\ r.judged = scan[s].judged /\ r.obs = scan[s].obs /\ r.recorded = scan[s].recorded
    BY <1>1 DEF Scan
  <1> HIDE DEF r
  <1>7. r.worktree \in Worktrees /\ r.judged \subseteq DOMAIN r.obs
    BY <1>5, <1>6 DEF ScanInv
  <1>8. scan'[s] = r
    BY <1>1, <1>5
  <1> QED BY <1>4, <1>5, <1>6, <1>7, <1>8, PassSteps

LEMMA RecordingKeeps ==
    ASSUME TypeInv, ScanInv, TableInv, NEW s \in Scans, ReconcileRecord(s)
    PROVE  TypeInv' /\ ScanInv' /\ TableInv'
PROOF
  <1>1. scan[s] \in Scan /\ scan \in [Scans -> Scan]
    BY DEF TypeInv
  <1>2. violations' \subseteq Row /\ TableInv'
    BY RecordKeeps
  <1>3. PICK to \in {"done", "admit"} :
            scan' = [scan EXCEPT ![s].recorded = TRUE, ![s].pc = to]
    BY DEF ReconcileRecord
  <1> DEFINE r == [scan[s] EXCEPT !.recorded = TRUE, !.pc = to]
  <1>4. r \in Scan /\ r.pc = to /\ r.worktree = scan[s].worktree
    BY <1>1 DEF Scan
  <1>5. scan' = [scan EXCEPT ![s] = r]
    BY <1>1, <1>3
  <1>6. scan[s].pc = "record" /\ UNCHANGED <<tree, integration>>
    BY DEF ReconcileRecord, world
  <1> HIDE DEF r
  <1>7. r.worktree \in Worktrees
    BY <1>4, <1>6 DEF ScanInv
  <1> QED BY <1>2, <1>4, <1>5, <1>6, <1>7, PassSteps

(* What the others do. *)
LEMMA OthersKeep ==
    ASSUME TypeInv, ScanInv, TableInv,
           ResolveViolation \/ Write \/ LeaseChanges \/ ClaimEnds \/ UNCHANGED vars
    PROVE  TypeInv' /\ ScanInv' /\ TableInv' /\ UNCHANGED scan
PROOF
  <1>1. CASE ResolveViolation
    <2>1. PICK v \in violations :
              /\ v.resolution = Open
              /\ \E why \in {"acked", "reverted"} :
                     violations' = (violations \ {v}) \union {[v EXCEPT !.resolution = why]}
      BY <1>1 DEF ResolveViolation
    <2>2. UNCHANGED <<tree, integration, scan>>
      BY <1>1 DEF ResolveViolation, world
    <2> DEFINE C == {v}
    <2>3. C \in SUBSET violations /\ (\A x \in C : x.resolution = Open)
      BY <2>1
    <2>4. PICK why \in {"acked", "reverted"} :
              violations' = (violations \ C) \union {[x EXCEPT !.resolution = why] : x \in C}
      BY <2>1
    <2>5. violations \subseteq Row
      BY DEF TypeInv
    <2> HIDE DEF C
    <2>6. violations' \subseteq Row /\ TableInv'
      BY <2>3, <2>4, <2>5, ClosingKeeps
    <2> QED BY <2>2, <2>6 DEF TypeInv, ScanInv
  <1>2. ASSUME UNCHANGED <<violations, scan>>
        PROVE  ScanInv' /\ TableInv' /\ scan' \in [Scans -> Scan] /\ violations' \subseteq Row
    BY <1>2 DEF ScanInv, TableInv, RowsNumbered, OpenUnique, AcknowledgedStays, TypeInv
  <1>3. CASE Write
    <2>1. PICK w \in Worktrees, p \in Paths, c \in Fingerprint : tree' = [tree EXCEPT ![w][p] = c]
      BY <1>3 DEF Write, Fingerprint
    <2>2. tree \in [Worktrees -> [Paths -> Fingerprint]]
      BY DEF TypeInv
    <2>3. tree' \in [Worktrees -> [Paths -> Fingerprint]]
      BY <2>1, <2>2
    <2>4. UNCHANGED <<integration, violations, scan>>
      BY <1>3 DEF Write
    <2> QED BY <1>2, <2>3, <2>4 DEF TypeInv
  <1>4. CASE LeaseChanges \/ UNCHANGED vars
    <2>1. UNCHANGED <<tree, integration, violations, scan>>
      BY <1>4 DEF LeaseChanges, vars, world
    <2> QED BY <1>2, <2>1 DEF TypeInv
  <1>5. CASE ClaimEnds
    <2>1. UNCHANGED <<tree, violations, scan>>
      BY <1>5 DEF ClaimEnds
    <2>2. integration' \in [at : Nat, of : [Paths -> Contents]]
      <3>1. integration.at \in Nat /\ integration.of \in [Paths -> Contents]
        BY DEF TypeInv
      <3>2. CASE UNCHANGED integration
        BY <3>2 DEF TypeInv
      <3>3. CASE \E p \in Paths, c \in Contents :
                    integration' = [at |-> integration.at + 1,
                                    of |-> [integration.of EXCEPT ![p] = c]]
        BY <3>1, <3>3
      <3> QED BY <1>5, <3>2, <3>3 DEF ClaimEnds
    <2> QED BY <1>2, <2>1, <2>2 DEF TypeInv
  <1> QED BY <1>1, <1>3, <1>4, <1>5

(* A step of one pass leaves the others where they are. *)
LEMMA OtherPassesStay ==
    ASSUME TypeInv, NEW s \in Scans, NEW t \in Scans \ {s},
           \/ ScanBegins(s) \/ SubmitBegins(s) \/ SubmitScans(s) \/ ScanDiff(s) \/ ScanHash(s)
           \/ ReconcileAuthorized(s) \/ ReconcileAcked(s) \/ ReconcileOpen(s) \/ ReconcileResolve(s) \/ ReconcileRecord(s)
           \/ ScanFails(s) \/ SubmitAdmits(s)
    PROVE  scan'[t] = scan[t]
PROOF
  <1>1. scan \in [Scans -> Scan]
    BY DEF TypeInv
  <1>2. CASE ScanBegins(s) \/ SubmitBegins(s) \/ SubmitScans(s)
    BY <1>1, <1>2 DEF ScanBegins, SubmitBegins, SubmitScans
  <1>3. CASE ScanDiff(s)
    BY <1>1, <1>3 DEF ScanDiff
  <1>4. CASE ScanHash(s) \/ ScanFails(s)
    BY <1>1, <1>4 DEF ScanHash, ScanFails, GiveUp
  <1>5. CASE ReconcileAuthorized(s) \/ ReconcileAcked(s) \/ ReconcileOpen(s)
    BY <1>1, <1>5 DEF ReconcileAuthorized, ReconcileAcked, ReconcileOpen
  <1>6. CASE ReconcileResolve(s) \/ ReconcileRecord(s)
    BY <1>1, <1>6 DEF ReconcileResolve, ReconcileRecord
  <1>7. CASE SubmitAdmits(s)
    BY <1>1, <1>7 DEF SubmitAdmits
  <1> QED BY <1>2, <1>3, <1>4, <1>5, <1>6, <1>7

LEMMA StepKeeps == TypeInv /\ ScanInv /\ TableInv /\ [Next]_vars => (TypeInv /\ ScanInv /\ TableInv)'
PROOF
  <1> SUFFICES ASSUME TypeInv, ScanInv, TableInv, [Next]_vars
               PROVE  (TypeInv /\ ScanInv /\ TableInv)'
    OBVIOUS
  <1>1. CASE ResolveViolation \/ Write \/ LeaseChanges \/ ClaimEnds \/ UNCHANGED vars
    BY <1>1, OthersKeep
  <1>2. ASSUME NEW s \in Scans,
               \/ ScanBegins(s) \/ SubmitBegins(s) \/ SubmitScans(s) \/ ScanDiff(s) \/ ScanHash(s)
               \/ ReconcileAuthorized(s) \/ ReconcileAcked(s) \/ ReconcileOpen(s) \/ ScanFails(s) \/ SubmitAdmits(s)
        PROVE  (TypeInv /\ ScanInv /\ TableInv)'
    <2>1. TypeInv' /\ ScanInv' /\ UNCHANGED violations
      BY <1>2, LooksKeep
    <2> QED BY <2>1 DEF TableInv, RowsNumbered, OpenUnique, AcknowledgedStays
  <1>3. ASSUME NEW s \in Scans, ReconcileResolve(s)
        PROVE  (TypeInv /\ ScanInv /\ TableInv)'
    BY <1>3, ResolveKeeps
  <1>4. ASSUME NEW s \in Scans, ReconcileRecord(s)
        PROVE  (TypeInv /\ ScanInv /\ TableInv)'
    BY <1>4, RecordingKeeps
  <1> QED BY <1>1, <1>2, <1>3, <1>4 DEF Next

LEMMA SensorInvariant == Spec => [](TypeInv /\ ScanInv /\ TableInv)
PROOF
  <1> QED BY InitHolds, StepKeeps, PTL DEF Spec

------------------------------------------------------------------------------
(* Bytes an operator acknowledged with `loto violations resolve` are on no *)
(* open row again, whatever a scan read of the table before: the WHERE NOT *)
(* EXISTS of RecordViolations is evaluated in the transaction that inserts,*)
(* and a checkout has one open row of a path to acknowledge.               *)
THEOREM AcknowledgementHolds == Spec => []AcknowledgedStays
PROOF
  <1>1. TypeInv /\ ScanInv /\ TableInv => AcknowledgedStays
    BY DEF TableInv
  <1> QED BY <1>1, SensorInvariant, PTL

LEMMA ClearingStep ==
    ASSUME TypeInv, ScanInv, TableInv, [Next]_vars, NEW v \in violations,
           v.resolution = Open, [v EXCEPT !.resolution = "reverted"] \in violations', scan' # scan
    PROVE  \E s \in Scans : /\ scan[s].pc = "resolve" /\ scan'[s].pc = "record"
                            /\ scan[s].worktree = v.worktree /\ v.path \in scan[s].clean
PROOF
  <1> DEFINE twin == [v EXCEPT !.resolution = "reverted"]
  <1>1. v \in Row /\ violations \subseteq Row
    BY DEF TypeInv
  <1>2. twin.id = v.id /\ twin.resolution = "reverted" /\ twin \in violations'
    BY <1>1 DEF Row
  <1> HIDE DEF twin
  <1>3. twin \notin violations
    BY <1>2 DEF TableInv, RowsNumbered, Open
  <1>4. CASE ResolveViolation
    BY <1>4 DEF ResolveViolation
  <1>5. CASE Write \/ LeaseChanges \/ ClaimEnds \/ UNCHANGED vars
    BY <1>2, <1>3, <1>5 DEF Write, LeaseChanges, ClaimEnds, vars
  <1>6. ASSUME NEW s \in Scans,
               \/ ScanBegins(s) \/ SubmitBegins(s) \/ SubmitScans(s) \/ ScanDiff(s) \/ ScanHash(s)
               \/ ReconcileAuthorized(s) \/ ReconcileAcked(s) \/ ReconcileOpen(s) \/ ScanFails(s) \/ SubmitAdmits(s)
        PROVE  FALSE
    BY <1>2, <1>3, <1>6, LooksKeep
  <1>7. ASSUME NEW s \in Scans, ReconcileRecord(s)
        PROVE  FALSE
    <2>1. \A x \in violations' : x \in violations \/ x.resolution = Open
      BY <1>7 DEF ReconcileRecord
    <2> QED BY <1>2, <1>3, <2>1 DEF Open
  <1>8. ASSUME NEW s \in Scans, ReconcileResolve(s)
        PROVE  /\ scan[s].pc = "resolve" /\ scan'[s].pc = "record"
               /\ scan[s].worktree = v.worktree /\ v.path \in scan[s].clean
    <2>1. PICK x \in ClearedBy(s) : twin = [x EXCEPT !.resolution = "reverted"]
      BY <1>2, <1>3, <1>8 DEF ReconcileResolve
    <2>2. x \in violations /\ x.id = twin.id
      BY <1>1, <2>1 DEF ClearedBy, Row
    <2>3. x = v
      BY <1>2, <2>2 DEF TableInv, RowsNumbered
    <2>4. v.path \in scan[s].reverted /\ v.worktree = scan[s].worktree
      BY <2>1, <2>3 DEF ClearedBy
    <2>5. scan[s].pc = "resolve"
      BY <1>8 DEF ReconcileResolve
    <2>6. v.path \in scan[s].clean
      BY <1>1, <2>4, <2>5 DEF ScanInv, Row
    <2>7. scan'[s].pc = "record"
      <3>1. scan \in [Scans -> Scan] /\ scan[s] \in Scan
        BY DEF TypeInv
      <3> QED BY <1>8, <3>1 DEF ReconcileResolve, Scan
    <2> QED BY <2>4, <2>5, <2>6, <2>7
  <1> QED BY <1>4, <1>5, <1>6, <1>7, <1>8 DEF Next

(* A pass of one checkout never clears the row of another, and clears its  *)
(* own only for a path its diff found in agreement with integration:       *)
(* ResolveViolationsForPaths matches the checkout, and what ReconcileScan  *)
(* hands it was not observed.                                              *)
THEOREM ClearsItsOwn == Spec => ClearedByItsOwnCheckout
PROOF
  <1> DEFINE A == \A v \in violations :
                      v.resolution = Open /\ [v EXCEPT !.resolution = "reverted"] \in violations'
                      /\ scan' # scan =>
                          \E s \in Scans : /\ scan[s].pc = "resolve" /\ scan'[s].pc = "record"
                                           /\ scan[s].worktree = v.worktree
                                           /\ v.path \in scan[s].clean
  <1>1. TypeInv /\ ScanInv /\ TableInv /\ [Next]_vars => A
    BY ClearingStep
  <1> HIDE DEF A
  <1>2. TypeInv /\ ScanInv /\ TableInv /\ [Next]_vars => [A]_vars
    BY <1>1
  <1>3. Spec => [][A]_vars
    BY <1>2, SensorInvariant, PTL DEF Spec
  <1> QED BY <1>3 DEF ClearedByItsOwnCheckout, A

LEMMA RecordingStep ==
    ASSUME TypeInv, ScanInv, TableInv, [Next]_vars, NEW s \in Scans,
           scan'[s].recorded, ~scan[s].recorded, NEW p \in scan[s].judged
    PROVE  \/ \E v \in violations' : /\ v.path = p /\ v.resolution = Open
                                     /\ v.worktree = scan[s].worktree
           \/ Acked(p, scan[s].obs[p], scan[s].baseline, scan[s].worktree)
PROOF
  <1>1. scan'[s] # scan[s]
    OBVIOUS
  <1>2. ReconcileRecord(s)
    <2>1. CASE ResolveViolation \/ Write \/ LeaseChanges \/ ClaimEnds \/ UNCHANGED vars
      BY <1>1, <2>1, OthersKeep
    <2>2. ASSUME NEW t \in Scans, t # s,
                 \/ ScanBegins(t) \/ SubmitBegins(t) \/ SubmitScans(t) \/ ScanDiff(t) \/ ScanHash(t)
                 \/ ReconcileAuthorized(t) \/ ReconcileAcked(t) \/ ReconcileOpen(t) \/ ReconcileResolve(t)
                 \/ ReconcileRecord(t) \/ ScanFails(t) \/ SubmitAdmits(t)
          PROVE  FALSE
      BY <1>1, <2>2, OtherPassesStay
    <2>3. ASSUME \/ ScanBegins(s) \/ SubmitBegins(s) \/ SubmitScans(s) \/ ScanDiff(s) \/ ScanHash(s)
                 \/ ReconcileAuthorized(s) \/ ReconcileAcked(s) \/ ReconcileOpen(s) \/ ScanFails(s) \/ SubmitAdmits(s)
          PROVE  FALSE
      BY <2>3, LooksKeep
    <2>4. ASSUME ReconcileResolve(s)
          PROVE  FALSE
      BY <2>4, ResolveKeeps
    <2> QED BY <2>1, <2>2, <2>3, <2>4 DEF Next
  <1>3. CASE p \in Recordable(s)
    <2>1. PICK n : [id |-> n, path |-> p, fingerprint |-> scan[s].obs[p],
                    baseline |-> scan[s].baseline, worktree |-> scan[s].worktree,
                    resolution |-> Open] \in violations'
      BY <1>2, <1>3 DEF ReconcileRecord
    <2> QED BY <2>1
  <1>4. CASE InTheWay(p, scan[s].worktree)
    <2>1. violations \subseteq violations'
      BY <1>2, RecordKeeps
    <2> QED BY <1>4, <2>1 DEF InTheWay
  <1> QED BY <1>3, <1>4 DEF Recordable

(* When a pass has recorded, every path it judged unauthorized has an open *)
(* row of the pass's own checkout, or was acknowledged: INSERT OR IGNORE   *)
(* passes a path over only for such a row.                                 *)
THEOREM RecordsAll == Spec => RecordsWhatItSaw
PROOF
  <1> DEFINE A == \A s \in Scans :
                      scan'[s].recorded /\ ~scan[s].recorded =>
                          \A p \in scan[s].judged :
                              \/ \E v \in violations' : /\ v.path = p /\ v.resolution = Open
                                                        /\ v.worktree = scan[s].worktree
                              \/ Acked(p, scan[s].obs[p], scan[s].baseline, scan[s].worktree)
  <1>1. TypeInv /\ ScanInv /\ TableInv /\ [Next]_vars => A
    BY RecordingStep
  <1> HIDE DEF A
  <1>2. TypeInv /\ ScanInv /\ TableInv /\ [Next]_vars => [A]_vars
    BY <1>1
  <1>3. Spec => [][A]_vars
    BY <1>2, SensorInvariant, PTL DEF Spec
  <1> QED BY <1>3 DEF RecordsWhatItSaw, A
=============================================================================
