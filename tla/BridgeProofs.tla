---------------------------- MODULE BridgeProofs ----------------------------
(***************************************************************************)
(* Proofs about Bridge, for any number of runs, beads, paths and commits:  *)
(* the marker of a bead is what its branch carries, published branches     *)
(* only grow, and merging a request reverts nothing others put on main.    *)
(***************************************************************************)
EXTENDS Bridge, FiniteSetTheorems, SequenceTheorems, TLAPS

------------------------------------------------------------------------------
(* Sets of numbers. *)

Less == {ss \in Nat \X Nat : ss[1] < ss[2]}

LEMMA Smallest ==
    ASSUME NEW T, T \subseteq Nat, T # {}
    PROVE  \E x \in T : \A y \in T : x <= y
PROOF
  <1>1. IsWellFoundedOn(Less, Nat)
    BY NatLessThanWellFounded DEF OpToRel, Less
  <1>2. PICK x \in T : \A y \in T : ~(<<y, x>> \in Less)
    BY <1>1, WFMin
  <1>3. \A y \in T : ~(y < x)
    BY <1>2 DEF Less
  <1> QED BY <1>3

LEMMA MinIn ==
    ASSUME NEW T, T \subseteq Nat, T # {}
    PROVE  Min(T) \in T
  BY Smallest DEF Min

LEMMA MaxIn ==
    ASSUME NEW n \in Nat, NEW A, A \subseteq 1..n, A # {}
    PROVE  Max(A) \in A /\ \A j \in A : j <= Max(A)
PROOF
  <1> DEFINE T == {n - i : i \in A}
  <1>1. \A i \in A : i \in Nat /\ n - i \in Nat
    OBVIOUS
  <1>2. T \subseteq Nat
    BY <1>1
  <1>3. T # {}
    OBVIOUS
  <1>4. PICK x \in T : \A y \in T : x <= y
    <2> HIDE DEF T
    <2> QED BY <1>2, <1>3, Smallest
  <1>5. PICK i \in A : x = n - i
    OBVIOUS
  <1>6. ASSUME NEW j \in A PROVE i >= j
    <2>1. x <= n - j
      BY <1>4
    <2> QED BY <1>1, <1>5, <2>1
  <1>7. Max(A) \in A /\ \A j \in A : Max(A) >= j
    BY <1>6 DEF Max
  <1> QED BY <1>1, <1>7

(* A set of commits has an order: the least bound of one that had none     *)
(* would itself be in the set, and could be put last.                      *)
Ordered(S) == \E s \in [1..Cardinality(S) -> S] : ToSet(s) = S /\ Increasing(s)

LEMMA FinitePart ==
    ASSUME NEW n \in Nat, NEW S, S \subseteq 1..n
    PROVE  IsFiniteSet(S) /\ Cardinality(S) \in Nat
PROOF
  <1>1. IsFiniteSet(1..n)
    BY FS_Interval
  <1>2. IsFiniteSet(S)
    BY <1>1, FS_Subset
  <1> QED BY <1>2, FS_CardinalityType

LEMMA OneMore ==
    ASSUME NEW n \in Nat, n > 0, NEW S, S \subseteq 1..n, n \in S, Ordered(S \ {n})
    PROVE  Ordered(S)
PROOF
  <1> DEFINE R == S \ {n}
             k == Cardinality(R)
  <1>1. IsFiniteSet(S) /\ R \subseteq 1..n
    BY FinitePart
  <1>2. IsFiniteSet(R) /\ k = Cardinality(S) - 1 /\ k \in Nat /\ Cardinality(S) \in Nat
    BY <1>1, FS_RemoveElement, FS_CardinalityType
  <1>3. PICK s \in [1..k -> R] : ToSet(s) = R /\ Increasing(s)
    BY DEF Ordered
  <1> DEFINE t == [i \in 1..(k + 1) |-> IF i = k + 1 THEN n ELSE s[i]]
  <1>4. t \in [1..Cardinality(S) -> S] /\ t \in [1..(k + 1) -> S]
    <2> HIDE DEF k
    <2>1. \A i \in 1..(k + 1) : i # k + 1 => s[i] \in S
      BY <1>2, <1>3
    <2>2. t \in [1..(k + 1) -> S]
      BY <2>1
    <2>3. k + 1 = Cardinality(S)
      BY <1>2
    <2> QED BY <2>2, <2>3
  <1> HIDE DEF k
  <1>5. ToSet(t) = S
    <2>1. ASSUME NEW x \in S PROVE \E i \in DOMAIN t : t[i] = x
      <3>1. CASE x = n
        <4>1. k + 1 \in DOMAIN t /\ t[k + 1] = n
          BY <1>2
        <4> QED BY <3>1, <4>1
      <3>2. CASE x \in R
        <4>1. PICK i \in 1..k : s[i] = x
          BY <1>3, <3>2 DEF ToSet
        <4>2. i \in DOMAIN t /\ t[i] = x
          BY <1>2, <4>1
        <4> QED BY <4>2
      <3> QED BY <3>1, <3>2
    <2> HIDE DEF t
    <2>2. S \subseteq ToSet(t)
      BY <2>1 DEF ToSet
    <2>3. ToSet(t) \subseteq S
      <3>1. DOMAIN t = 1..(k + 1) /\ \A i \in 1..(k + 1) : t[i] \in S
        BY <1>4
      <3> QED BY <3>1 DEF ToSet
    <2> QED BY <2>2, <2>3
  <1>6. Increasing(t)
    <2> SUFFICES ASSUME NEW i \in 1..(k + 1), NEW j \in 1..(k + 1), i < j
                 PROVE  t[i] < t[j]
      BY DEF Increasing
    <2>1. i \in 1..k /\ t[i] = s[i] /\ s[i] < n
      <3>1. i \in 1..k
        BY <1>2
      <3>2. s[i] \in R
        BY <1>3, <3>1
      <3>3. s[i] \in 1..n /\ s[i] # n
        BY <1>1, <3>2
      <3>4. t[i] = s[i]
        BY <1>2, <3>1
      <3> QED BY <3>1, <3>3, <3>4
    <2>2. CASE j = k + 1
      BY <2>1, <2>2
    <2>3. CASE j \in 1..k
      BY <1>3, <2>1, <2>3 DEF Increasing
    <2> QED BY <1>2, <2>2, <2>3
  <1> HIDE DEF t
  <1> QED BY <1>4, <1>5, <1>6 DEF Ordered

LEMMA OrderExists ==
    ASSUME NEW n \in Nat, NEW S, S \subseteq 1..n
    PROVE  Ordered(S)
PROOF
  <1> DEFINE Bad == {m \in Nat : \E R \in SUBSET (1..m) : ~Ordered(R)}
  <1>1. ASSUME Bad # {} PROVE FALSE
    <2>1. PICK m \in Bad : \A y \in Bad : m <= y
      <3>1. Bad \subseteq Nat
        OBVIOUS
      <3> HIDE DEF Bad
      <3> QED BY <1>1, <3>1, Smallest
    <2>2. PICK R \in SUBSET (1..m) : ~Ordered(R)
      BY <2>1
    <2>3. CASE m = 0
      <3>1. R = {} /\ Cardinality(R) = 0
        <4>1. 1..m = {}
          BY <2>3
        <4> QED BY <4>1, FS_EmptySet
      <3>2. ToSet(<<>>) = {} /\ Increasing(<<>>) /\ <<>> \in [1..0 -> {}]
        BY DEF ToSet, Increasing
      <3> QED BY <2>2, <3>1, <3>2 DEF Ordered
    <2>4. CASE m > 0
      <3>1. \A Q \in SUBSET (1..(m - 1)) : Ordered(Q)
        <4>1. m - 1 \in Nat /\ m - 1 \notin Bad
          BY <2>1, <2>4
        <4> QED BY <4>1
      <3>2. R \ {m} \in SUBSET (1..(m - 1))
        BY <2>4
      <3>3. CASE m \in R
        BY <2>2, <2>4, <3>1, <3>2, <3>3, OneMore
      <3>4. CASE m \notin R
        <4>1. R \ {m} = R
          BY <3>4
        <4> QED BY <2>2, <3>1, <3>2, <4>1
      <3> QED BY <3>3, <3>4
    <2> QED BY <2>3, <2>4
  <1> QED BY <1>1

LEMMA InOrderIs ==
    ASSUME NEW n \in Nat, NEW S, S \subseteq 1..n
    PROVE  /\ InOrder(S) \in Seq(S) /\ ToSet(InOrder(S)) = S /\ Increasing(InOrder(S))
           /\ InOrder(S) = <<>> <=> S = {}
PROOF
  <1>1. InOrder(S) \in [1..Cardinality(S) -> S] /\ ToSet(InOrder(S)) = S /\ Increasing(InOrder(S))
    BY OrderExists DEF Ordered, InOrder
  <1>2. IsFiniteSet(S) /\ Cardinality(S) \in Nat
    BY FinitePart
  <1>3. InOrder(S) \in Seq(S)
    BY <1>1, <1>2, IsASeq
  <1> DEFINE s == InOrder(S)
  <1>4. s = <<>> => S = {}
    BY <1>1 DEF ToSet
  <1>5. S = {} => s = <<>>
    <2>1. ASSUME S = {} PROVE s \in [1..0 -> {}]
      BY <1>1, <2>1, FS_EmptySet
    <2> QED BY <2>1
  <1> QED BY <1>1, <1>3, <1>4, <1>5

------------------------------------------------------------------------------
(* Sequences. *)

LEMMA IncreasingConcat ==
    ASSUME NEW s \in Seq(Nat), NEW t \in Seq(Nat), Increasing(s), Increasing(t),
           s # <<>> => \A i \in DOMAIN t : Last(s) < t[i]
    PROVE  Increasing(s \o t)
PROOF
  <1> DEFINE u == s \o t
  <1>1. /\ Len(u) = Len(s) + Len(t) /\ u \in Seq(Nat)
        /\ \A i \in 1..Len(s) : u[i] = s[i]
        /\ \A i \in 1..Len(t) : u[Len(s) + i] = t[i]
        /\ Len(u) \in Nat /\ Len(s) \in Nat /\ Len(t) \in Nat
        /\ DOMAIN u = 1..Len(u) /\ DOMAIN s = 1..Len(s) /\ DOMAIN t = 1..Len(t)
    OBVIOUS
  <1>2. ASSUME NEW i \in 1..Len(u), i > Len(s)
        PROVE  i - Len(s) \in 1..Len(t) /\ u[i] = t[i - Len(s)]
    <2> HIDE DEF u
    <2>1. i - Len(s) \in 1..Len(t) /\ Len(s) + (i - Len(s)) = i
      BY <1>1, <1>2
    <2> QED BY <1>1, <2>1
  <1> SUFFICES ASSUME NEW i \in 1..Len(u), NEW j \in 1..Len(u), i < j
               PROVE  u[i] < u[j]
    BY <1>1 DEF Increasing
  <1> HIDE DEF u
  <1>3. CASE j <= Len(s)
    <2>1. i \in 1..Len(s) /\ j \in 1..Len(s)
      BY <1>1, <1>3
    <2> QED BY <1>1, <2>1 DEF Increasing
  <1>4. CASE i > Len(s)
    <2>1. i - Len(s) \in 1..Len(t) /\ u[i] = t[i - Len(s)]
      BY <1>2, <1>4
    <2>2. j > Len(s) /\ i - Len(s) < j - Len(s)
      <3>1. i \in Nat /\ j \in Nat /\ Len(s) \in Nat
        BY <1>1
      <3> QED BY <1>4, <3>1
    <2>3. j - Len(s) \in 1..Len(t) /\ u[j] = t[j - Len(s)]
      BY <1>2, <2>2
    <2> QED BY <1>1, <2>1, <2>2, <2>3 DEF Increasing
  <1>5. CASE i <= Len(s) /\ j > Len(s)
    <2>1. i \in 1..Len(s) /\ s # <<>> /\ Len(s) \in 1..Len(s)
      BY <1>5
    <2>2. u[i] = s[i] /\ s[i] <= Last(s) /\ Last(s) \in Nat /\ s[i] \in Nat
      <3>1. i = Len(s) \/ i < Len(s)
        BY <2>1
      <3>2. s[i] \in Nat /\ s[Len(s)] \in Nat
        BY <2>1
      <3>3. u[i] = s[i]
        BY <1>1, <2>1
      <3>4. s[i] <= s[Len(s)]
        <4>1. CASE i = Len(s)
          BY <3>2, <4>1
        <4>2. CASE i < Len(s)
          <5>1. s[i] < s[Len(s)]
            BY <1>1, <2>1, <4>2 DEF Increasing
          <5> QED BY <3>2, <5>1
        <4> QED BY <3>1, <4>1, <4>2
      <3> QED BY <3>2, <3>3, <3>4 DEF Last
    <2>3. u[j] = t[j - Len(s)] /\ j - Len(s) \in 1..Len(t) /\ t[j - Len(s)] \in Nat
      BY <1>2, <1>5
    <2>4. Last(s) < t[j - Len(s)]
      BY <2>1, <2>3
    <2> QED BY <2>2, <2>3, <2>4
  <1> QED BY <1>1, <1>3, <1>4, <1>5

LEMMA PrefixOfConcat ==
    ASSUME NEW S, NEW s \in Seq(S), NEW t \in Seq(S)
    PROVE  IsPrefix(s, s \o t) /\ IsPrefix(s, s)
PROOF
  <1>1. Len(s) <= Len(s \o t)
    OBVIOUS
  <1>2. SubSeq(s, 1, Len(s)) = s /\ SubSeq(s \o t, 1, Len(s)) = s
    BY SubSeqFull, SubSeqOfConcat1
  <1> QED BY <1>1, <1>2 DEF IsPrefix

LEMMA ToSetConcat ==
    ASSUME NEW S, NEW s \in Seq(S), NEW t \in Seq(S)
    PROVE  ToSet(s \o t) = ToSet(s) \union ToSet(t)
PROOF
  <1>1. ToSet(s) \subseteq ToSet(s \o t)
    BY DEF ToSet
  <1>2. ASSUME NEW x \in ToSet(t) PROVE x \in ToSet(s \o t)
    <2>1. PICK i \in 1..Len(t) : x = t[i]
      BY DEF ToSet
    <2>2. Len(s) + i \in 1..Len(s \o t) /\ (s \o t)[Len(s) + i] = x
      BY <2>1
    <2> QED BY <2>2 DEF ToSet
  <1>3. ASSUME NEW x \in ToSet(s \o t) PROVE x \in ToSet(s) \union ToSet(t)
    <2>1. PICK i \in 1..Len(s \o t) : x = (s \o t)[i]
      BY <1>3 DEF ToSet
    <2>2. CASE i <= Len(s)
      BY <2>1, <2>2 DEF ToSet
    <2>3. CASE i > Len(s)
      <3>1. i - Len(s) \in 1..Len(t) /\ t[i - Len(s)] = x
        BY <2>1, <2>3
      <3> QED BY <3>1 DEF ToSet
    <2> QED BY <2>1, <2>2, <2>3
  <1> QED BY <1>1, <1>2, <1>3

------------------------------------------------------------------------------
(* The invariant. *)

Trees == [Paths -> Blobs]

Commit == [bead : Beads \union {NoBead}, path : Paths, from : Blobs, to : Blobs]

Branch == [base : Nat, floor : Trees, srcs : Seq(DOMAIN integ)]

Typed ==
    /\ integ \in Seq(Commit)
    /\ main \in [id : Nat, tree : Trees, has : Nat, own : BOOLEAN]
    /\ branch \in [Beads -> Branch \union {Nil}] /\ marker \in [Beads -> Nat]
    /\ remote \in [Beads -> Branch \union {Nil}]
    /\ pr \in [Beads -> {"none", "open", "merged"}]
    /\ merged \in [Beads -> Branch \union {Nil}]
    /\ DOMAIN run = Runs

(* What a run has decided to do with bead b, whatever became of the refs   *)
(* since: a build starts from the branch it read, or from main where there *)
(* was none, its commits are b's, apply there, and leave none of b's out   *)
(* but those that were on main or before the marker it read.               *)
Ready(b, e) ==
    /\ e.class \in {"up-to-date", "buildable"}
    /\ e.class = "buildable" =>
          /\ e.had \in Branch \union {Nil} /\ e.marker \in Nat /\ e.parent \in Branch
          /\ e.pending \in Seq(DOMAIN integ) /\ e.pending # <<>> /\ Increasing(e.pending)
          /\ \A i \in ToSet(e.pending) : integ[i].bead = b
          /\ ~StaleBase(Tree(e.parent), e.pending)
          /\ e.had = Nil => e.parent.srcs = <<>>
          /\ e.had # Nil => /\ e.parent = e.had /\ 0 < e.marker
                            /\ \A i \in ToSet(e.pending) : e.marker < i
          /\ \A i \in OfBead(b, 1..Last(e.pending)) :
                \/ i \in ToSet(e.pending) \/ i <= main.has
                \/ e.had # Nil /\ i <= e.marker

Planned(plan) == DOMAIN plan \subseteq Beads /\ \A b \in DOMAIN plan : Ready(b, plan[b])

(* A process p.  The commits it read are those after what main had: the    *)
(* ones before are read as well, or are on main.                           *)
RunOk(p) ==
    /\ p.pc \in {"idle", "log", "branch", "marker", "build", "push", "find", "create"}
    /\ p.pc \in {"log", "branch", "marker"} => p.parent \in Branch /\ p.parent.srcs = <<>>
    /\ p.pc = "log" => p.only \subseteq Beads
    /\ p.pc \in {"branch", "marker"} =>
          /\ p.commits \subseteq DOMAIN integ
          /\ \A i \in p.commits : 1..i \subseteq p.commits \union 1..main.has
          /\ p.todo \subseteq Beads /\ Planned(p.plan)
    /\ p.pc = "marker" => p.at \in Beads /\ p.had \in Branch \union {Nil}
    /\ p.pc \in {"build", "push", "find", "create"} =>
          DOMAIN p = {"pc", "plan"} /\ Planned(p.plan) /\ DOMAIN p.plan # {}
    /\ p.pc = "build" => p.plan[Order[First(DOMAIN p.plan)]].class = "buildable"

(* A branch made by hand has nothing on it and no marker. *)
HandsOff == \A b \in Beads : branch[b] # Nil /\ branch[b].srcs = <<>> => marker[b] = 0

(* The commits of a branch apply where it forked. *)
Applies ==
    \A b \in Beads :
        /\ branch[b] # Nil => ~StaleBase(branch[b].floor, branch[b].srcs)
        /\ remote[b] # Nil => ~StaleBase(remote[b].floor, remote[b].srcs)

BridgeInv ==
    /\ Typed /\ \A r \in Runs : RunOk(run[r])
    /\ MarkerIsBranch /\ HandsOff /\ Applies

------------------------------------------------------------------------------
(* Integration is only appended to and what main has of it only grows:     *)
(* what was said of commits stays true.                                    *)

Grows ==
    /\ integ' \in Seq(Commit) /\ Len(integ) <= Len(integ')
    /\ \A i \in DOMAIN integ : integ'[i] = integ[i]
    /\ main' \in [id : Nat, tree : Trees, has : Nat, own : BOOLEAN]
    /\ main.has <= main'.has

LEMMA Indices ==
    ASSUME Typed
    PROVE  DOMAIN integ = 1..Len(integ) /\ Len(integ) \in Nat /\ main.has \in Nat
  BY DEF Typed

LEMMA BranchGrows ==
    ASSUME Typed, Grows
    PROVE  /\ Branch \subseteq Branch' /\ DOMAIN integ \subseteq DOMAIN integ'
           /\ Seq(DOMAIN integ) \subseteq Seq(DOMAIN integ')
PROOF
  <1>1. DOMAIN integ \subseteq DOMAIN integ'
    BY DEF Typed, Grows
  <1>2. Seq(DOMAIN integ) \subseteq Seq(DOMAIN integ')
    BY <1>1, SeqMonotonic
  <1> QED BY <1>1, <1>2 DEF Branch

LEMMA StaleStays ==
    ASSUME Typed, Grows, NEW floor, NEW s \in Seq(DOMAIN integ)
    PROVE  StaleBase(floor, s)' <=> StaleBase(floor, s)
PROOF
  <1>1. \A i \in DOMAIN s : integ'[s[i]] = integ[s[i]] /\ \A j \in 1..(i - 1) : j \in DOMAIN s
    BY DEF Grows
  <1> QED BY <1>1 DEF StaleBase

LEMMA TreeStays ==
    ASSUME Typed, Grows, NEW br \in Branch
    PROVE  Tree(br)' = Tree(br)
PROOF
  <1>1. \A i \in DOMAIN br.srcs : integ'[br.srcs[i]] = integ[br.srcs[i]]
    BY DEF Branch, Grows
  <1>2. br.srcs \in Seq(DOMAIN integ)
    BY DEF Branch
  <1> DEFINE on(p) == {i \in DOMAIN br.srcs : integ[br.srcs[i]].path = p}
  <1>3. \A p : {i \in DOMAIN br.srcs : integ'[br.srcs[i]].path = p} = on(p)
    BY <1>1
  <1>4. ASSUME NEW p, on(p) # {} PROVE integ'[br.srcs[Max(on(p))]] = integ[br.srcs[Max(on(p))]]
    <2>1. on(p) \subseteq 1..Len(br.srcs) /\ Len(br.srcs) \in Nat
      BY <1>2
    <2>2. Max(on(p)) \in on(p)
      <3> HIDE DEF on
      <3> QED BY <1>4, <2>1, MaxIn
    <2> QED BY <1>1, <2>2
  <1>5. ASSUME NEW p \in Paths
        PROVE  (IF on(p) = {} THEN br.floor[p] ELSE integ'[br.srcs[Max(on(p))]].to)
               = (IF on(p) = {} THEN br.floor[p] ELSE integ[br.srcs[Max(on(p))]].to)
    BY <1>4
  <1>6. Tree(br) = [p \in Paths |-> IF on(p) = {} THEN br.floor[p]
                                    ELSE integ[br.srcs[Max(on(p))]].to]
    BY DEF Tree, Replayed
  <1>7. Tree(br)' = [p \in Paths |-> IF on(p) = {} THEN br.floor[p]
                                     ELSE integ'[br.srcs[Max(on(p))]].to]
    <2>1. Tree(br)' = [p \in Paths |->
              IF {i \in DOMAIN br.srcs : integ'[br.srcs[i]].path = p} = {} THEN br.floor[p]
              ELSE integ'[br.srcs[Max({i \in DOMAIN br.srcs : integ'[br.srcs[i]].path = p})]].to]
      BY DEF Tree, Replayed
    <2> HIDE DEF on
    <2> QED BY <1>3, <2>1
  <1> HIDE DEF on
  <1> QED BY <1>5, <1>6, <1>7

LEMMA OfBeadStays ==
    ASSUME Typed, Grows, NEW b, NEW S, S \subseteq DOMAIN integ
    PROVE  OfBead(b, S)' = OfBead(b, S)
  BY DEF OfBead, Grows

LEMMA LastIn ==
    ASSUME NEW S, NEW s \in Seq(S), s # <<>>
    PROVE  Last(s) \in ToSet(s) /\ Last(s) \in S
  BY DEF Last, ToSet

LEMMA ReadyStays ==
    ASSUME Typed, Grows, NEW b, NEW e, Ready(b, e)
    PROVE  Ready(b, e)'
PROOF
  <1> SUFFICES ASSUME e.class = "buildable" PROVE Ready(b, e)'
    BY DEF Ready
  <1>1. /\ e.had \in Branch' \union {Nil} /\ e.parent \in Branch'
        /\ e.pending \in Seq(DOMAIN integ) /\ e.pending \in Seq(DOMAIN integ')
        /\ e.pending # <<>>
    BY BranchGrows DEF Ready
  <1>2. \A i \in ToSet(e.pending) : i \in DOMAIN integ /\ integ'[i] = integ[i]
    BY <1>1 DEF ToSet, Grows
  <1>3. ~StaleBase(Tree(e.parent), e.pending)'
    <2>1. Tree(e.parent)' = Tree(e.parent) /\ ~StaleBase(Tree(e.parent), e.pending)
      BY TreeStays DEF Ready
    <2> QED BY <1>1, <2>1, StaleStays
  <1>4. Last(e.pending) \in DOMAIN integ /\ Last(e.pending) \in Nat
    BY <1>1, LastIn, Indices
  <1>5. OfBead(b, 1..Last(e.pending))' = OfBead(b, 1..Last(e.pending))
    <2>1. 1..Last(e.pending) \subseteq DOMAIN integ
      BY <1>4, Indices
    <2> QED BY <2>1, OfBeadStays
  <1>6. \A i \in OfBead(b, 1..Last(e.pending)) :
            \/ i \in ToSet(e.pending) \/ i <= main'.has
            \/ e.had # Nil /\ i <= e.marker
    <2>1. \A i \in OfBead(b, 1..Last(e.pending)) : i \in Nat
      BY <1>4 DEF OfBead
    <2>2. main.has \in Nat /\ main'.has \in Nat /\ main.has <= main'.has
      BY DEF Grows, Typed
    <2> QED BY <2>1, <2>2 DEF Ready
  <1> QED BY <1>1, <1>2, <1>3, <1>5, <1>6 DEF Ready

LEMMA PlannedStays ==
    ASSUME Typed, Grows, NEW plan, Planned(plan)
    PROVE  Planned(plan)'
  BY ReadyStays DEF Planned

LEMMA RunStays ==
    ASSUME Typed, Grows, NEW p, RunOk(p)
    PROVE  RunOk(p)'
PROOF
  <1>1. Branch \subseteq Branch' /\ DOMAIN integ \subseteq DOMAIN integ'
    BY BranchGrows
  <1>2. p.pc \in {"branch", "marker", "build", "push", "find", "create"} => Planned(p.plan)'
    BY PlannedStays DEF RunOk
  <1>3. p.pc \in {"branch", "marker"} =>
            \A i \in p.commits : 1..i \subseteq p.commits \union 1..main'.has
    <2>1. 1..main.has \subseteq 1..main'.has
      BY DEF Grows, Typed
    <2> QED BY <2>1 DEF RunOk
  <1> QED BY <1>1, <1>2, <1>3 DEF RunOk

------------------------------------------------------------------------------
(* The steps of a run, by what they make of its process. *)

LEMMA FirstBead ==
    ASSUME NEW B, B \subseteq Beads, B # {}
    PROVE  Order[First(B)] \in B
PROOF
  <1> DEFINE at == {i \in DOMAIN Order : Order[i] \in B}
  <1>1. at \subseteq Nat /\ at # {}
    BY BridgeAssumption DEF BridgeAssumption, ToSet
  <1>2. Min(at) \in at
    <2> HIDE DEF at
    <2> QED BY <1>1, MinIn
  <1> QED BY <1>2 DEF First

LEMMA CarryOk ==
    ASSUME NEW plan, Planned(plan)
    PROVE  RunOk(Carry(plan))
PROOF
  <1>1. CASE DOMAIN plan = {}
    BY <1>1 DEF Carry, RunOk, Idle
  <1>2. CASE DOMAIN plan # {}
    <2> DEFINE c == plan[Order[First(DOMAIN plan)]].class
               p == [pc |-> IF c = "up-to-date" THEN "push" ELSE "build", plan |-> plan]
    <2>1. c \in {"up-to-date", "buildable"}
      BY <1>2, FirstBead DEF Planned, Ready
    <2>2. Carry(plan) = p
      BY <1>2 DEF Carry
    <2>3. p.pc \in {"push", "build"} /\ p.plan = plan /\ (p.pc = "build" => c = "buildable")
          /\ DOMAIN p = {"pc", "plan"}
      <3> HIDE DEF c
      <3> QED BY <2>1
    <2> HIDE DEF p
    <2> QED BY <1>2, <2>2, <2>3 DEF RunOk
  <1> QED BY <1>1, <1>2

LEMMA PlanningOk ==
    ASSUME NEW p, p.parent \in Branch, p.parent.srcs = <<>>,
           NEW commits, commits \subseteq DOMAIN integ,
           \A i \in commits : 1..i \subseteq commits \union 1..main.has,
           NEW todo, todo \subseteq Beads, NEW plan, Planned(plan)
    PROVE  RunOk(Planning(p, commits, todo, plan))
  BY DEF RunOk, Planning

LEMMA IdleOk == RunOk(Idle)
  BY DEF RunOk, Idle

(* What planBead finds buildable is ready to be built. *)
LEMMA VerdictReady ==
    ASSUME Typed, NEW b, NEW had \in Branch \union {Nil}, NEW m \in Nat,
           NEW parent \in Branch, parent.srcs = <<>>,
           NEW commits, commits \subseteq DOMAIN integ,
           \A i \in commits : 1..i \subseteq commits \union 1..main.has
    PROVE  LET v == Verdict(b, had, m, parent, commits)
           IN  v.class \notin Blocked => Ready(b, v)
PROOF
  <1> DEFINE v == Verdict(b, had, m, parent, commits)
             mine == OfBead(b, commits)
             part == IF m \in mine THEN {i \in mine : i > m} ELSE mine
             pending == InOrder(part)
             onto == IF had = Nil THEN parent ELSE had
  <1> SUFFICES ASSUME v.class \notin Blocked PROVE Ready(b, v)
    OBVIOUS
  <1>1. CASE v.class = "up-to-date"
    BY <1>1 DEF Ready
  <1>2. CASE v.class # "up-to-date"
    <2>1. /\ ~(m \in mine <=> had = Nil) /\ pending # <<>> /\ ~StaleBase(Tree(onto), pending)
          /\ v = [class |-> "buildable", had |-> had, marker |-> m, parent |-> onto,
                  pending |-> pending]
      <3> HIDE DEF mine, part, pending, onto
      <3>1. CASE m \in mine <=> had = Nil
        BY <3>1 DEF Verdict, Blocked, mine, part, pending, onto
      <3>2. CASE ~(m \in mine <=> had = Nil) /\ pending = <<>>
        BY <1>2, <3>2 DEF Verdict, mine, part, pending, onto
      <3>3. CASE ~(m \in mine <=> had = Nil) /\ pending # <<>> /\ StaleBase(Tree(onto), pending)
        BY <3>3 DEF Verdict, Blocked, mine, part, pending, onto
      <3>4. CASE ~(m \in mine <=> had = Nil) /\ pending # <<>> /\ ~StaleBase(Tree(onto), pending)
        BY <3>4 DEF Verdict, mine, part, pending, onto
      <3> QED BY <3>1, <3>2, <3>3, <3>4
    <2>2. /\ v.class = "buildable" /\ v.had = had /\ v.marker = m /\ v.parent = onto
          /\ v.pending = pending
      <3> HIDE DEF v, pending, onto
      <3> QED BY <2>1
    <2>3. part \subseteq 1..Len(integ) /\ Len(integ) \in Nat /\ part \subseteq DOMAIN integ
          /\ \A i \in part : i \in commits /\ integ[i].bead = b
      BY Indices DEF OfBead
    <2>4. pending \in Seq(part) /\ ToSet(pending) = part /\ Increasing(pending)
      <3> HIDE DEF part
      <3> QED BY <2>3, InOrderIs
    <2>5. pending \in Seq(DOMAIN integ)
      <3> HIDE DEF part, pending
      <3> QED BY <2>3, <2>4, SeqMonotonic
    <2>6. Last(pending) \in part
      <3> HIDE DEF part, pending
      <3> QED BY <2>1, <2>4, LastIn
    <2>7. had # Nil => m \in mine /\ 0 < m /\ \A i \in part : m < i
      BY <2>1, Indices DEF OfBead
    <2>8. ASSUME NEW i \in OfBead(b, 1..Last(pending))
          PROVE  i \in part \/ i <= main.has \/ (had # Nil /\ i <= m)
      <3>1. i \in 1..Last(pending) /\ integ[i].bead = b /\ i \in Nat
        BY <2>3, <2>6, <2>8 DEF OfBead
      <3>2. i \in commits \/ i <= main.has
        BY <2>3, <2>6, <3>1, Indices
      <3>3. i \in commits => i \in mine
        BY <3>1 DEF OfBead
      <3>4. i \in mine => i \in part \/ (had # Nil /\ i <= m)
        BY <2>1, <3>1
      <3> QED BY <3>2, <3>3, <3>4
    <2> HIDE DEF v, mine, part, pending
    <2> QED BY <2>1, <2>2, <2>3, <2>4, <2>5, <2>7, <2>8 DEF Ready
  <1> QED BY <1>1, <1>2

------------------------------------------------------------------------------
(* What a build publishes. *)

(* Commits that apply where they are put, after commits that apply where   *)
(* the branch forked, apply there together: a path the pending commits are *)
(* the first to touch is as it was at the fork.                            *)
LEMMA AppliesTogether ==
    ASSUME Typed, NEW br \in Branch, NEW t \in Seq(DOMAIN integ),
           ~StaleBase(br.floor, br.srcs), ~StaleBase(Tree(br), t)
    PROVE  ~StaleBase(br.floor, br.srcs \o t)
PROOF
  <1> DEFINE s == br.srcs
             u == s \o t
  <1>0. s \in Seq(DOMAIN integ) /\ br.floor \in Trees
    BY DEF Branch
  <1>1. /\ Len(s) \in Nat /\ Len(t) \in Nat /\ Len(u) = Len(s) + Len(t)
        /\ DOMAIN s = 1..Len(s) /\ DOMAIN t = 1..Len(t) /\ DOMAIN u = 1..Len(u)
        /\ \A i \in 1..Len(s) : u[i] = s[i]
        /\ \A i \in 1..Len(t) : u[Len(s) + i] = t[i]
    BY <1>0
  <1> HIDE DEF u
  <1> SUFFICES ASSUME NEW i \in DOMAIN u,
                      \A j \in 1..(i - 1) : integ[u[j]].path # integ[u[i]].path
               PROVE  br.floor[integ[u[i]].path] = integ[u[i]].from
    BY DEF StaleBase, u
  <1>2. CASE i <= Len(s)
    <2>1. i \in 1..Len(s) /\ 1..(i - 1) \subseteq 1..Len(s)
      <3> HIDE DEF s
      <3> QED BY <1>1, <1>2
    <2>2. i \in DOMAIN s /\ u[i] = s[i] /\ \A j \in 1..(i - 1) : u[j] = s[j]
      BY <1>1, <2>1
    <2> QED BY <2>2 DEF StaleBase
  <1>3. CASE i > Len(s)
    <2> DEFINE k == i - Len(s)
               p == integ[u[i]].path
    <2>1. k \in 1..Len(t) /\ Len(s) + k = i
      <3>1. i \in Nat /\ i <= Len(s) + Len(t) /\ Len(s) \in Nat /\ Len(t) \in Nat
        BY <1>1
      <3> HIDE DEF s
      <3> QED BY <1>3, <3>1
    <2>2. u[i] = t[k]
      BY <1>1, <2>1
    <2>3. ASSUME NEW j \in 1..(k - 1) PROVE integ[t[j]].path # p
      <3>1. j \in 1..Len(t) /\ Len(s) + j \in 1..(i - 1)
        <4>1. j \in Nat /\ 0 < j /\ j < k /\ k \in Nat /\ k <= Len(t)
              /\ Len(s) \in Nat /\ Len(t) \in Nat
          <5> HIDE DEF k
          <5> QED BY <1>1, <2>1
        <4> HIDE DEF k, s
        <4> QED BY <2>1, <4>1
      <3>2. u[Len(s) + j] = t[j]
        BY <1>1, <3>1
      <3> QED BY <3>1, <3>2
    <2>4. Tree(br)[p] = integ[u[i]].from
      <3>1. k \in DOMAIN t /\ \A j \in 1..(k - 1) : integ[t[j]].path # integ[t[k]].path
        BY <1>1, <2>1, <2>2, <2>3
      <3> HIDE DEF k
      <3>2. Tree(br)[integ[t[k]].path] = integ[t[k]].from
        BY <3>1 DEF StaleBase
      <3> QED BY <2>2, <3>2
    <2>5. \A j \in DOMAIN s : integ[s[j]].path # p
      <3> SUFFICES ASSUME NEW j \in DOMAIN s PROVE integ[s[j]].path # p
        OBVIOUS
      <3>1. j \in 1..(i - 1) /\ j \in 1..Len(s)
        BY <1>1, <1>3
      <3> QED BY <1>1, <3>1
    <2>6. p \in Paths
      <3>1. t[k] \in DOMAIN integ
        BY <1>1, <2>1
      <3>2. integ[t[k]] \in Commit
        BY <3>1 DEF Typed
      <3> QED BY <2>2, <3>2 DEF Commit
    <2>7. Tree(br)[p] = br.floor[p]
      <3> HIDE DEF p
      <3> QED BY <2>5, <2>6 DEF Tree, Replayed
    <2> QED BY <2>4, <2>7
  <1> QED BY <1>1, <1>2, <1>3

LEMMA NothingApplies ==
    ASSUME NEW floor
    PROVE  ~StaleBase(floor, <<>>)
  BY DEF StaleBase

(* A build that finds the refs its plan read publishes a branch that       *)
(* continues the one it replaces, and a marker that says what is on it.    *)
LEMMA BuiltIs ==
    ASSUME BridgeInv, NEW b \in Beads, NEW e, Ready(b, e), e.class = "buildable", RefsStand(b, e)
    PROVE  LET br == Built(e)
           IN  /\ br \in Branch /\ br.base = e.parent.base /\ br.srcs = e.parent.srcs \o e.pending
               /\ br.srcs # <<>> /\ Last(e.pending) \in Nat
               /\ Last(br.srcs) = Last(e.pending) /\ Increasing(br.srcs)
               /\ OfBead(b, 1..Last(e.pending)) \subseteq ToSet(br.srcs) \union (1..main.has)
               /\ ToSet(br.srcs) = OfBead(b, ToSet(br.srcs))
               /\ ~StaleBase(br.floor, br.srcs)
               /\ branch[b] # Nil => Ancestor(branch[b], br)
PROOF
  <1> DEFINE br == Built(e)
             s == e.parent.srcs
             t == e.pending
  <1>0. /\ Typed /\ MarkerIsBranch /\ HandsOff /\ Applies
        /\ branch[b] = e.had /\ marker[b] = e.marker
    BY DEF BridgeInv, RefsStand
  <1>1. /\ s \in Seq(DOMAIN integ) /\ t \in Seq(DOMAIN integ) /\ t # <<>> /\ Increasing(t)
        /\ DOMAIN integ \subseteq Nat /\ e.parent \in Branch
    BY <1>0, Indices DEF Ready, Branch
  <1>2. /\ br \in Branch /\ br.base = e.parent.base /\ br.floor = e.parent.floor
        /\ br.srcs = s \o t
    <2>1. s \o t \in Seq(DOMAIN integ)
      BY <1>1
    <2> DEFINE u == s \o t
    <2>2. br = [e.parent EXCEPT !.srcs = u]
      BY <1>1 DEF Built, Branch
    <2> HIDE DEF u, br
    <2>3. e.parent \in [base : Nat, floor : Trees, srcs : Seq(DOMAIN integ)]
      BY <1>1 DEF Branch
    <2> QED BY <2>1, <2>2, <2>3 DEF u, Branch
  <1>3. /\ Last(s \o t) = Last(t) /\ s \o t # <<>> /\ Last(t) \in Nat /\ Last(t) \in DOMAIN integ
    <2>1. Len(s \o t) = Len(s) + Len(t) /\ Len(t) \in 1..Len(t)
      BY <1>1
    <2>2. (s \o t)[Len(s) + Len(t)] = t[Len(t)]
      <3> HIDE DEF s, t
      <3>1. s \in Seq(Nat) /\ t \in Seq(Nat) /\ Len(t) \in 1..Len(t) /\ Len(s) \in Nat
        BY <1>1, <2>1
      <3> QED BY <3>1
    <2> QED BY <1>1, <2>1, <2>2, LastIn DEF Last
  <1>4. ToSet(s \o t) = ToSet(s) \union ToSet(t)
    BY <1>1, ToSetConcat
  <1>5. /\ s # <<>> => /\ e.had # Nil /\ e.parent = branch[b] /\ e.marker = Last(s)
                       /\ Increasing(s) /\ ToSet(s) = OfBead(b, ToSet(s))
                       /\ OfBead(b, 1..e.marker) \subseteq ToSet(s) \union 1..main.has
                       /\ \A i \in ToSet(t) : Last(s) < i
        /\ s = <<>> => e.had = Nil
    <2>1. e.had # Nil => e.parent = branch[b] /\ branch[b] # Nil /\ 0 < e.marker
                         /\ \A i \in ToSet(t) : e.marker < i
      BY <1>0 DEF Ready
    <2>2. s # <<>> => e.had # Nil
      BY DEF Ready
    <2>3. e.had # Nil => s # <<>>
      BY <1>0, <2>1 DEF HandsOff
    <2> QED BY <1>0, <2>1, <2>2, <2>3 DEF MarkerIsBranch, Increasing
  <1>6. Increasing(s \o t)
    <2>1. s \in Seq(Nat) /\ t \in Seq(Nat)
      BY <1>1
    <2>2. s # <<>> => \A i \in DOMAIN t : Last(s) < t[i]
      BY <1>5 DEF ToSet
    <2>3. Increasing(s)
      <3>1. CASE s = <<>>
        BY <3>1 DEF Increasing
      <3> QED BY <1>5, <3>1
    <2> QED BY <1>1, <2>1, <2>2, <2>3, IncreasingConcat
  <1>7. OfBead(b, 1..Last(t)) \subseteq ToSet(s \o t) \union (1..main.has)
    <2> SUFFICES ASSUME NEW i \in OfBead(b, 1..Last(t)) PROVE i \in ToSet(s \o t) \union 1..main.has
      OBVIOUS
    <2>1. i \in 1..Last(t) /\ i \in Nat /\ i > 0 /\ integ[i].bead = b /\ main.has \in Nat
      BY <1>0, <1>3, Indices DEF OfBead
    <2>2. i \in ToSet(t) \/ i <= main.has \/ (e.had # Nil /\ i <= e.marker)
      BY DEF Ready
    <2>3. CASE e.had # Nil /\ i <= e.marker
      <3>1. i \in OfBead(b, 1..e.marker)
        BY <1>0, <2>1, <2>3 DEF OfBead, Typed
      <3> QED BY <1>4, <1>5, <2>3, <3>1
    <2> QED BY <1>4, <2>1, <2>2, <2>3
  <1>8. ToSet(s \o t) = OfBead(b, ToSet(s \o t))
    <2>1. \A i \in ToSet(t) : integ[i].bead = b
      BY DEF Ready
    <2>2. \A i \in ToSet(s) : integ[i].bead = b
      <3>1. CASE s = <<>>
        BY <3>1 DEF ToSet
      <3> QED BY <1>5, <3>1 DEF OfBead
    <2> QED BY <1>4, <2>1, <2>2 DEF OfBead
  <1>9. ~StaleBase(br.floor, br.srcs)
    <2>1. ~StaleBase(e.parent.floor, s)
      <3>1. CASE s = <<>>
        BY <3>1, NothingApplies
      <3>2. CASE s # <<>>
        BY <1>0, <1>5, <3>2 DEF Applies
      <3> QED BY <3>1, <3>2
    <2>2. ~StaleBase(Tree(e.parent), t)
      BY DEF Ready
    <2> HIDE DEF br
    <2> QED BY <1>0, <1>1, <1>2, <2>1, <2>2, AppliesTogether
  <1>10. branch[b] # Nil => Ancestor(branch[b], br)
    <2>1. branch[b] # Nil => branch[b] = e.parent
      BY <1>0 DEF Ready
    <2>2. IsPrefix(s, s \o t)
      BY <1>1, PrefixOfConcat
    <2> HIDE DEF br
    <2> QED BY <1>2, <2>1, <2>2 DEF Ancestor
  <1> HIDE DEF s, t
  <1> QED BY <1>2, <1>3, <1>6, <1>7, <1>8, <1>9, <1>10 DEF s, t

------------------------------------------------------------------------------
(* What a step makes of integration and main. *)

LEMMA ReplayedTyped ==
    ASSUME Typed, NEW floor \in Trees, NEW srcs \in Seq(DOMAIN integ)
    PROVE  Replayed(floor, srcs) \in Trees
PROOF
  <1> SUFFICES ASSUME NEW p \in Paths PROVE Replayed(floor, srcs)[p] \in Blobs
    BY DEF Trees, Replayed
  <1> DEFINE on == {i \in DOMAIN srcs : integ[srcs[i]].path = p}
  <1>1. CASE on = {}
    BY <1>1 DEF Replayed, Trees
  <1>2. CASE on # {}
    <2>1. on \subseteq 1..Len(srcs) /\ Len(srcs) \in Nat
      OBVIOUS
    <2>2. Max(on) \in on
      <3> HIDE DEF on
      <3> QED BY <1>2, <2>1, MaxIn
    <2>3. integ[srcs[Max(on)]] \in Commit
      BY <2>2 DEF Typed
    <2>4. Replayed(floor, srcs)[p] = integ[srcs[Max(on)]].to
      BY <1>2 DEF Replayed
    <2> QED BY <2>3, <2>4 DEF Commit
  <1> QED BY <1>1, <1>2

LEMMA TreeTyped ==
    ASSUME Typed, NEW br \in Branch
    PROVE  Tree(br) \in Trees
  BY ReplayedTyped DEF Tree, Branch

(* The tree of integration itself. *)
LEMMA WholeTyped ==
    ASSUME Typed
    PROVE  Replayed([q \in Paths |-> Blob0], [i \in DOMAIN integ |-> i]) \in Trees
PROOF
  <1>1. [q \in Paths |-> Blob0] \in Trees
    BY BridgeAssumption DEF BridgeAssumption, Trees
  <1>2. [i \in DOMAIN integ |-> i] \in Seq(DOMAIN integ)
    <2>1. [i \in 1..Len(integ) |-> i] \in [1..Len(integ) -> 1..Len(integ)]
      OBVIOUS
    <2>2. [i \in 1..Len(integ) |-> i] \in Seq(1..Len(integ))
      BY <2>1, Indices, IsASeq
    <2> QED BY <2>2, Indices
  <1> QED BY <1>1, <1>2, ReplayedTyped

LEMMA MainTyped ==
    ASSUME NEW m \in [id : Nat, tree : Trees, has : Nat, own : BOOLEAN],
           NEW i \in Nat, NEW t \in Trees, NEW h \in Nat, NEW o \in BOOLEAN
    PROVE  /\ [m EXCEPT !.id = i, !.own = o, !.tree = t]
                  \in [id : Nat, tree : Trees, has : Nat, own : BOOLEAN]
           /\ [m EXCEPT !.id = i, !.tree = t, !.own = o]
                  \in [id : Nat, tree : Trees, has : Nat, own : BOOLEAN]
           /\ [m EXCEPT !.id = i, !.has = h, !.tree = t]
                  \in [id : Nat, tree : Trees, has : Nat, own : BOOLEAN]
PROOF
  <1> DEFINE Main == [id : Nat, tree : Trees, has : Nat, own : BOOLEAN]
  <1>1. \A x \in Main : [x EXCEPT !.id = i] \in Main
    OBVIOUS
  <1>2. \A x \in Main : [x EXCEPT !.own = o] \in Main
    OBVIOUS
  <1>3. \A x \in Main : [x EXCEPT !.tree = t] \in Main
    OBVIOUS
  <1>4. \A x \in Main : [x EXCEPT !.has = h] \in Main
    OBVIOUS
  <1>5. m \in Main
    OBVIOUS
  <1> HIDE DEF Main
  <1>6. [m EXCEPT !.id = i, !.own = o, !.tree = t] \in Main
    BY <1>1, <1>2, <1>3, <1>5
  <1>7. [m EXCEPT !.id = i, !.tree = t, !.own = o] \in Main
    BY <1>1, <1>2, <1>3, <1>5
  <1>8. [m EXCEPT !.id = i, !.has = h, !.tree = t] \in Main
    BY <1>1, <1>3, <1>4, <1>5
  <1> QED BY <1>6, <1>7, <1>8 DEF Main

LEMMA WorldGrows ==
    ASSUME BridgeInv, [Next]_vars
    PROVE  Grows
PROOF
  <1>0. Typed /\ integ \in Seq(Commit) /\ main \in [id : Nat, tree : Trees, has : Nat, own : BOOLEAN]
        /\ Len(integ) \in Nat
    BY DEF BridgeInv, Typed
  <1>1. CASE UNCHANGED <<integ, main>>
    BY <1>0, <1>1 DEF Grows
  <1>2. ASSUME NEW r \in Runs, NEW only, NEW dry, NEW fails,
               \/ PRStart(r, only, dry) \/ PRLog(r) \/ PRBranch(r) \/ PRMarker(r) \/ PRFind(r)
               \/ PRDies(r) \/ PRBuild(r, fails) \/ PRPush(r, fails) \/ PRCreate(r, fails)
        PROVE  UNCHANGED <<integ, main>>
    BY <1>2 DEF PRStart, PRLog, PRBranch, PRMarker, PRFind, PRDies, PRBuild, PRPush, PRCreate
  <1>3. ASSUME NEW b \in Beads, ClosePR(b) \/ DeleteBranch(b) \/ HandBranch(b)
        PROVE  UNCHANGED <<integ, main>>
    BY <1>3 DEF ClosePR, DeleteBranch, HandBranch
  <1>4. ASSUME TakeIntegration PROVE Grows
    <2> DEFINE tree == Replayed([q \in Paths |-> Blob0], [i \in DOMAIN integ |-> i])
    <2>1. /\ main' = [main EXCEPT !.id = @ + 1, !.has = Len(integ), !.tree = tree]
          /\ main.has < Len(integ) /\ UNCHANGED integ
      BY <1>4 DEF TakeIntegration
    <2>2. tree \in Trees
      BY <1>0, WholeTyped
    <2> HIDE DEF tree
    <2>8. main' \in [id : Nat, tree : Trees, has : Nat, own : BOOLEAN]
      <3>1. main.id + 1 \in Nat
        BY <1>0
      <3> QED BY <1>0, <2>1, <2>2, <3>1, MainTyped
    <2>9. main.has \in Nat /\ main.has <= main'.has
      BY <1>0, <2>1
    <2> QED BY <1>0, <2>1, <2>8, <2>9 DEF Grows
  <1>5. ASSUME NEW b \in Beads, NEW cleanup, MergePR(b, cleanup) PROVE Grows
    <2> DEFINE tree == [p \in Paths |-> IF p \in Changes(b) THEN Tree(remote[b])[p] ELSE main.tree[p]]
    <2>1. main' = [main EXCEPT !.id = @ + 1, !.own = TRUE, !.tree = tree] /\ UNCHANGED integ
          /\ remote[b] # Nil
      BY <1>5 DEF MergePR
    <2>2. Tree(remote[b]) \in Trees /\ main.tree \in Trees
      BY <1>0, <2>1, TreeTyped DEF Typed
    <2>3. tree \in Trees
      BY <2>2 DEF Trees
    <2> HIDE DEF tree
    <2>8. main' \in [id : Nat, tree : Trees, has : Nat, own : BOOLEAN]
      <3>1. main.id + 1 \in Nat
        BY <1>0
      <3> QED BY <1>0, <2>1, <2>3, <3>1, MainTyped
    <2>9. main.has \in Nat /\ main.has <= main'.has
      BY <1>0, <2>1
    <2> QED BY <1>0, <2>1, <2>8, <2>9 DEF Grows
  <1>6. ASSUME NEW p \in Paths, NEW to \in Blobs, EditMain(p, to) PROVE Grows
    <2> DEFINE tree == [main.tree EXCEPT ![p] = to]
    <2>1. main' = [main EXCEPT !.id = @ + 1, !.tree = tree, !.own = TRUE] /\ UNCHANGED integ
      BY <1>0, <1>6 DEF EditMain
    <2>2. tree \in Trees
      BY <1>0 DEF Trees
    <2> HIDE DEF tree
    <2>8. main' \in [id : Nat, tree : Trees, has : Nat, own : BOOLEAN]
      <3>1. main.id + 1 \in Nat
        BY <1>0
      <3> QED BY <1>0, <2>1, <2>2, <3>1, MainTyped
    <2>9. main.has \in Nat /\ main.has <= main'.has
      BY <1>0, <2>1
    <2> QED BY <1>0, <2>1, <2>8, <2>9 DEF Grows
  <1>7. ASSUME NEW p \in Paths, NEW to \in Blobs, NEW b \in Beads \union {NoBead}, Promote(b, p, to)
        PROVE  Grows
    <2> DEFINE was == Replayed([q \in Paths |-> Blob0], [i \in DOMAIN integ |-> i])[p]
               c == [bead |-> b, path |-> p, from |-> was, to |-> to]
    <2>1. integ' = Append(integ, c) /\ UNCHANGED main
      BY <1>7 DEF Promote
    <2>2. was \in Blobs
      BY <1>0, WholeTyped DEF Trees
    <2>3. c \in Commit
      <3> HIDE DEF was
      <3> QED BY <1>7, <2>2 DEF Commit
    <2> HIDE DEF c
    <2>4. integ' \in Seq(Commit) /\ Len(integ') = Len(integ) + 1
      BY <1>0, <2>1, <2>3
    <2>5. \A i \in DOMAIN integ : integ'[i] = integ[i]
      BY <1>0, <2>1, <2>3
    <2>6. main.has \in Nat
      BY <1>0
    <2> QED BY <1>0, <2>1, <2>4, <2>5, <2>6 DEF Grows
  <1>8. CASE UNCHANGED vars
    BY <1>1, <1>8 DEF vars
  <1> QED BY <1>1, <1>2, <1>3, <1>4, <1>5, <1>6, <1>7, <1>8 DEF Next

------------------------------------------------------------------------------
(* What a step makes of the processes. *)

LEMMA RunsKept ==
    ASSUME Typed, Grows, \A q \in Runs : RunOk(run[q]),
           NEW r \in Runs, NEW p, RunOk(p), run' = [run EXCEPT ![r] = p]
    PROVE  DOMAIN run' = Runs /\ \A q \in Runs : RunOk(run[q])'
PROOF
  <1>1. DOMAIN run' = Runs
    BY DEF Typed
  <1>2. ASSUME NEW q \in Runs, NEW x, x = run'[q] PROVE RunOk(x)'
    <2>1. RunOk(x)
      BY <1>2 DEF Typed
    <2> QED BY <2>1, RunStays
  <1> QED BY <1>1, <1>2

LEMMA PlansAhead ==
    ASSUME BridgeInv, NEW r \in Runs,
           \/ \E only \in {Beads} \union {{b} : b \in Beads}, dry \in BOOLEAN : PRStart(r, only, dry)
           \/ PRLog(r) \/ PRBranch(r) \/ PRMarker(r)
    PROVE  \E p : RunOk(p) /\ run' = [run EXCEPT ![r] = p]
PROOF
  <1>0. Typed /\ RunOk(run[r]) /\ main.id \in Nat /\ main.tree \in Trees
    BY DEF BridgeInv, Typed
  <1>1. ASSUME NEW only \in {Beads} \union {{b} : b \in Beads}, NEW dry \in BOOLEAN, PRStart(r, only, dry)
        PROVE  \E p : RunOk(p) /\ run' = [run EXCEPT ![r] = p]
    <2> DEFINE parent == [base |-> main.id, floor |-> main.tree, srcs |-> <<>>]
               p == [pc |-> "log", only |-> only, dry |-> dry, parent |-> parent]
    <2>1. run' = [run EXCEPT ![r] = p]
      BY <1>1 DEF PRStart
    <2>2. parent \in Branch /\ parent.srcs = <<>>
      BY <1>0 DEF Branch
    <2>3. only \subseteq Beads
      BY <1>1
    <2>4. RunOk(p)
      <3> HIDE DEF parent
      <3> QED BY <2>2, <2>3 DEF RunOk
    <2> QED BY <2>1, <2>4
  <1>2. CASE PRLog(r)
    <2> DEFINE commits == (main.has + 1)..Len(integ)
               beads == {b \in run[r].only : OfBead(b, commits) # {}}
               p == IF beads = {} THEN Idle ELSE Planning(run[r], commits, beads, <<>>)
    <2>1. run' = [run EXCEPT ![r] = p] /\ run[r].pc = "log"
      BY <1>0, <1>2 DEF PRLog, BridgeInv, Typed
    <2>2. beads \subseteq Beads /\ run[r].parent \in Branch /\ run[r].parent.srcs = <<>>
      BY <1>0, <2>1 DEF RunOk
    <2>3. commits \subseteq DOMAIN integ /\ \A i \in commits : 1..i \subseteq commits \union 1..main.has
      BY <1>0, Indices
    <2>4. Planned(<<>>)
      BY DEF Planned
    <2>5. RunOk(p)
      <3> HIDE DEF commits, beads
      <3> QED BY <2>2, <2>3, <2>4, PlanningOk, IdleOk
    <2> QED BY <2>1, <2>5
  <1>3. CASE PRBranch(r)
    <2>1. PICK b \in run[r].todo :
             run' = [run EXCEPT ![r] =
                    [pc |-> "marker", dry |-> @.dry, parent |-> @.parent, commits |-> @.commits,
                     todo |-> @.todo \ {b}, plan |-> @.plan, at |-> b, had |-> branch[b]]]
      BY <1>3 DEF PRBranch
    <2> DEFINE p == [pc |-> "marker", dry |-> run[r].dry, parent |-> run[r].parent,
                     commits |-> run[r].commits, todo |-> run[r].todo \ {b},
                     plan |-> run[r].plan, at |-> b, had |-> branch[b]]
    <2>2. run' = [run EXCEPT ![r] = p] /\ run[r].pc = "branch"
      BY <1>0, <1>3, <2>1 DEF PRBranch, Typed
    <2>3. b \in Beads /\ branch[b] \in Branch \union {Nil}
      BY <1>0, <2>2 DEF RunOk, Typed
    <2>4. RunOk(p)
      BY <1>0, <2>2, <2>3 DEF RunOk
    <2> QED BY <2>2, <2>4
  <1>4. CASE PRMarker(r)
    <2> DEFINE b == run[r].at
               v == Verdict(b, run[r].had, marker[b], run[r].parent, run[r].commits)
               plan == IF v.class \in Blocked THEN run[r].plan
                       ELSE [x \in DOMAIN run[r].plan \union {b} |->
                                IF x = b THEN v ELSE run[r].plan[x]]
               p == CASE run[r].todo # {} -> Planning(run[r], run[r].commits, run[r].todo, plan)
                      [] run[r].todo = {} /\ run[r].dry -> Idle
                      [] OTHER -> Carry(plan)
    <2>1. run' = [run EXCEPT ![r] = p] /\ run[r].pc = "marker"
      BY <1>0, <1>4 DEF PRMarker, Typed
    <2>2. /\ b \in Beads /\ run[r].had \in Branch \union {Nil} /\ marker[b] \in Nat
          /\ run[r].parent \in Branch /\ run[r].parent.srcs = <<>>
          /\ run[r].commits \subseteq DOMAIN integ
          /\ \A i \in run[r].commits : 1..i \subseteq run[r].commits \union 1..main.has
          /\ run[r].todo \subseteq Beads /\ Planned(run[r].plan)
      BY <1>0, <2>1 DEF RunOk, Typed
    <2>3. v.class \notin Blocked => Ready(b, v)
      BY <1>0, <2>2, VerdictReady
    <2>4. Planned(plan)
      <3> HIDE DEF v, b
      <3> QED BY <2>2, <2>3 DEF Planned
    <2>5. RunOk(p)
      <3> HIDE DEF plan
      <3>1. RunOk(Planning(run[r], run[r].commits, run[r].todo, plan))
        BY <2>2, <2>4, PlanningOk
      <3>2. RunOk(Idle) /\ RunOk(Carry(plan))
        BY <2>4, CarryOk, IdleOk
      <3> QED BY <3>1, <3>2
    <2> QED BY <2>1, <2>5
  <1> QED BY <1>1, <1>2, <1>3, <1>4

LEMMA NextOk ==
    ASSUME Typed, NEW r \in Runs, RunOk(run[r]),
           run[r].pc \in {"push", "find", "create"}, NextBead(r)
    PROVE  \E p : RunOk(p) /\ run' = [run EXCEPT ![r] = p]
PROOF
  <1> DEFINE plan == [b \in DOMAIN run[r].plan \ {Bead(r)} |-> run[r].plan[b]]
  <1>1. Planned(plan)
    BY DEF RunOk, Planned
  <1>2. run' = [run EXCEPT ![r] = Carry(plan)]
    BY DEF NextBead, Typed
  <1> HIDE DEF plan
  <1> QED BY <1>1, <1>2, CarryOk

LEMMA StageOk ==
    ASSUME Typed, NEW r \in Runs, RunOk(run[r]), run[r].pc \in {"build", "push", "find", "create"},
           NEW pc \in {"push", "find", "create"}, run' = [run EXCEPT ![r].pc = pc]
    PROVE  \E p : RunOk(p) /\ run' = [run EXCEPT ![r] = p]
PROOF
  <1> DEFINE p == [run[r] EXCEPT !.pc = pc]
  <1>1. DOMAIN run[r] = {"pc", "plan"} /\ Planned(run[r].plan) /\ DOMAIN run[r].plan # {}
    BY DEF RunOk
  <1>2. DOMAIN p = {"pc", "plan"} /\ p.pc = pc /\ p.plan = run[r].plan
    BY <1>1
  <1>3. run' = [run EXCEPT ![r] = p]
    BY DEF Typed
  <1> HIDE DEF p
  <1>4. RunOk(p)
    BY <1>1, <1>2 DEF RunOk
  <1> QED BY <1>3, <1>4

LEMMA PlansCarried ==
    ASSUME BridgeInv, NEW r \in Runs, NEW fails \in BOOLEAN,
           \/ PRFind(r) \/ PRDies(r) \/ PRBuild(r, fails) \/ PRPush(r, fails) \/ PRCreate(r, fails)
    PROVE  \E p : RunOk(p) /\ run' = [run EXCEPT ![r] = p]
PROOF
  <1>0. Typed /\ RunOk(run[r])
    BY DEF BridgeInv
  <1>1. CASE run' = [run EXCEPT ![r] = Idle]
    BY <1>1, IdleOk
  <1>2. CASE PRFind(r)
    <2>1. run[r].pc = "find" /\ (NextBead(r) \/ run' = [run EXCEPT ![r].pc = "create"])
      BY <1>2 DEF PRFind
    <2> QED BY <1>0, <2>1, NextOk, StageOk
  <1>3. CASE PRBuild(r, fails)
    <2>1. run[r].pc = "build"
          /\ (run' = [run EXCEPT ![r].pc = "push"] \/ run' = [run EXCEPT ![r] = Idle])
      BY <1>3 DEF PRBuild
    <2> QED BY <1>0, <1>1, <2>1, StageOk
  <1>4. CASE PRPush(r, fails)
    <2>1. run[r].pc = "push"
          /\ (run' = [run EXCEPT ![r].pc = "find"] \/ run' = [run EXCEPT ![r] = Idle])
      BY <1>4 DEF PRPush
    <2> QED BY <1>0, <1>1, <2>1, StageOk
  <1>5. CASE PRCreate(r, fails)
    <2>1. run[r].pc = "create" /\ (NextBead(r) \/ run' = [run EXCEPT ![r] = Idle])
      BY <1>5 DEF PRCreate
    <2> QED BY <1>0, <1>1, <2>1, NextOk
  <1>6. CASE PRDies(r)
    BY <1>1, <1>6 DEF PRDies
  <1> QED BY <1>2, <1>3, <1>4, <1>5, <1>6

(* Every process is where a step of the program leaves it. *)
LEMMA ProcessesKept ==
    ASSUME BridgeInv, [Next]_vars
    PROVE  DOMAIN run' = Runs /\ \A q \in Runs : RunOk(run[q])'
PROOF
  <1>0. Typed /\ Grows /\ \A q \in Runs : RunOk(run[q])
    BY WorldGrows DEF BridgeInv
  <1>1. CASE UNCHANGED run
    <2>1. ASSUME NEW q \in Runs, NEW x, x = run[q] PROVE RunOk(x)'
      BY <1>0, <2>1, RunStays
    <2> QED BY <1>0, <1>1, <2>1 DEF Typed
  <1>2. ASSUME NEW r \in Runs, NEW only \in {Beads} \union {{b} : b \in Beads}, NEW dry \in BOOLEAN,
               PRStart(r, only, dry)
        PROVE  \E p : RunOk(p) /\ run' = [run EXCEPT ![r] = p]
    BY <1>2, PlansAhead
  <1>3. ASSUME NEW r \in Runs, PRLog(r) \/ PRBranch(r) \/ PRMarker(r)
        PROVE  \E p : RunOk(p) /\ run' = [run EXCEPT ![r] = p]
    BY <1>3, PlansAhead
  <1>4. ASSUME NEW r \in Runs, NEW fails \in BOOLEAN,
               \/ PRFind(r) \/ PRDies(r)
               \/ PRBuild(r, fails) \/ PRPush(r, fails) \/ PRCreate(r, fails)
        PROVE  \E p : RunOk(p) /\ run' = [run EXCEPT ![r] = p]
    BY <1>4, PlansCarried
  <1>5. ASSUME NEW r \in Runs, \E p : RunOk(p) /\ run' = [run EXCEPT ![r] = p]
        PROVE  DOMAIN run' = Runs /\ \A q \in Runs : RunOk(run[q])'
    BY <1>0, <1>5, RunsKept
  <1>6. CASE TakeIntegration
    BY <1>1, <1>6 DEF TakeIntegration
  <1>7. ASSUME NEW b \in Beads, NEW cleanup \in BOOLEAN,
               MergePR(b, cleanup) \/ ClosePR(b) \/ DeleteBranch(b) \/ HandBranch(b)
        PROVE  UNCHANGED run
    BY <1>7 DEF MergePR, ClosePR, DeleteBranch, HandBranch
  <1>8. ASSUME NEW p \in Paths, NEW to \in Blobs, NEW b \in Beads \union {NoBead},
               EditMain(p, to) \/ Promote(b, p, to)
        PROVE  UNCHANGED run
    BY <1>8 DEF EditMain, Promote
  <1>9. CASE UNCHANGED vars
    BY <1>1, <1>9 DEF vars
  <1>10. ASSUME NEW r \in Runs,
                \/ \E only \in {Beads} \union {{b} : b \in Beads}, dry \in BOOLEAN : PRStart(r, only, dry)
                \/ PRLog(r) \/ PRBranch(r) \/ PRMarker(r) \/ PRFind(r) \/ PRDies(r)
                \/ \E fails \in BOOLEAN : PRBuild(r, fails) \/ PRPush(r, fails) \/ PRCreate(r, fails)
         PROVE  \E p : RunOk(p) /\ run' = [run EXCEPT ![r] = p]
    <2>1. CASE \E only \in {Beads} \union {{b} : b \in Beads}, dry \in BOOLEAN : PRStart(r, only, dry)
      BY <1>2, <2>1
    <2>2. CASE PRLog(r) \/ PRBranch(r) \/ PRMarker(r)
      BY <1>3, <2>2
    <2>3. CASE PRFind(r) \/ PRDies(r)
      BY <1>4, <2>3
    <2>4. CASE \E fails \in BOOLEAN : PRBuild(r, fails) \/ PRPush(r, fails) \/ PRCreate(r, fails)
      BY <1>4, <2>4
    <2> QED BY <1>10, <2>1, <2>2, <2>3, <2>4
  <1> QED BY <1>1, <1>5, <1>6, <1>7, <1>8, <1>9, <1>10 DEF Next

------------------------------------------------------------------------------
(* What a step makes of the refs, of the remote and of the requests. *)

LEMMA BuildsWhatIsReady ==
    ASSUME BridgeInv, NEW r \in Runs, run[r].pc = "build"
    PROVE  /\ Bead(r) \in Beads /\ Ready(Bead(r), run[r].plan[Bead(r)])
           /\ run[r].plan[Bead(r)].class = "buildable"
PROOF
  <1>1. RunOk(run[r])
    BY DEF BridgeInv
  <1>2. Planned(run[r].plan) /\ DOMAIN run[r].plan # {}
        /\ run[r].plan[Bead(r)].class = "buildable"
    BY <1>1 DEF RunOk, Bead
  <1>3. Bead(r) \in DOMAIN run[r].plan /\ DOMAIN run[r].plan \subseteq Beads
    BY <1>2, FirstBead DEF Planned, Bead
  <1> QED BY <1>2, <1>3 DEF Planned

LEMMA RunBead ==
    ASSUME BridgeInv, NEW r \in Runs, run[r].pc \in {"push", "find", "create"}
    PROVE  Bead(r) \in Beads
PROOF
  <1>1. RunOk(run[r])
    BY DEF BridgeInv
  <1>2. DOMAIN run[r].plan \subseteq Beads /\ DOMAIN run[r].plan # {}
    BY <1>1 DEF RunOk, Planned
  <1> QED BY <1>2, FirstBead DEF Bead

Published ==
    \E b \in Beads : \E e :
        Ready(b, e) /\ e.class = "buildable" /\ RefsStand(b, e) /\ Publish(b, e)

Deleted == \E b \in Beads : branch' = [branch EXCEPT ![b] = Nil] /\ UNCHANGED marker

MadeByHand ==
    \E b \in Beads :
        /\ branch[b] = Nil /\ marker[b] = 0 /\ UNCHANGED marker
        /\ branch' = [branch EXCEPT ![b] = [base |-> main.id, floor |-> main.tree, srcs |-> <<>>]]

LEMMA RefsMove ==
    ASSUME BridgeInv, [Next]_vars
    PROVE  UNCHANGED refVars \/ Published \/ Deleted \/ MadeByHand
PROOF
  <1>1. ASSUME NEW r \in Runs, NEW only \in {Beads} \union {{b} : b \in Beads}, NEW dry \in BOOLEAN,
               PRStart(r, only, dry)
        PROVE  UNCHANGED refVars
    BY <1>1 DEF PRStart
  <1>2. ASSUME NEW r \in Runs, PRLog(r) \/ PRBranch(r) \/ PRMarker(r) \/ PRFind(r) \/ PRDies(r)
        PROVE  UNCHANGED refVars
    BY <1>2 DEF PRLog, PRBranch, PRMarker, PRFind, PRDies
  <1>3. ASSUME NEW r \in Runs, NEW fails \in BOOLEAN, PRPush(r, fails) \/ PRCreate(r, fails)
        PROVE  UNCHANGED refVars
    BY <1>3 DEF PRPush, PRCreate
  <1>4. ASSUME NEW r \in Runs, NEW fails \in BOOLEAN, PRBuild(r, fails)
        PROVE  UNCHANGED refVars \/ Published
    <2> DEFINE b == Bead(r)
               e == run[r].plan[b]
    <2>1. run[r].pc = "build"
          /\ (UNCHANGED refVars \/ (RefsStand(b, e) /\ Publish(b, e)))
      BY <1>4 DEF PRBuild
    <2>2. b \in Beads /\ Ready(b, e) /\ e.class = "buildable"
      BY <2>1, BuildsWhatIsReady
    <2> HIDE DEF b, e
    <2> QED BY <2>1, <2>2 DEF Published
  <1>5. ASSUME NEW b \in Beads, NEW cleanup \in BOOLEAN, MergePR(b, cleanup) \/ ClosePR(b)
        PROVE  UNCHANGED refVars
    BY <1>5 DEF MergePR, ClosePR
  <1>6. ASSUME NEW b \in Beads, DeleteBranch(b) \/ HandBranch(b)
        PROVE  Deleted \/ MadeByHand
    BY <1>6 DEF DeleteBranch, HandBranch, Deleted, MadeByHand
  <1>7. ASSUME NEW p \in Paths, NEW to \in Blobs, NEW b \in Beads \union {NoBead},
               Promote(b, p, to)
        PROVE  UNCHANGED refVars
    BY <1>7 DEF Promote
  <1>8. CASE TakeIntegration
    BY <1>8 DEF TakeIntegration
  <1>9. CASE UNCHANGED vars
    BY <1>9 DEF vars
  <1>10. ASSUME NEW p \in Paths, NEW to \in Blobs, EditMain(p, to)
         PROVE  UNCHANGED refVars
    BY <1>10 DEF EditMain
  <1> QED BY <1>1, <1>2, <1>3, <1>4, <1>5, <1>6, <1>7, <1>8, <1>9, <1>10 DEF Next

Pushed ==
    \E b \in Beads :
        /\ branch[b] # Nil /\ (remote[b] # Nil => Ancestor(remote[b], branch[b]))
        /\ remote' = [remote EXCEPT ![b] = branch[b]]

Cleaned == \E b \in Beads : remote' = [remote EXCEPT ![b] = Nil]

LEMMA RemoteMoves ==
    ASSUME BridgeInv, [Next]_vars
    PROVE  UNCHANGED remote \/ Pushed \/ Cleaned
PROOF
  <1>1. ASSUME NEW r \in Runs, NEW only \in {Beads} \union {{b} : b \in Beads}, NEW dry \in BOOLEAN,
               PRStart(r, only, dry)
        PROVE  UNCHANGED remote
    BY <1>1 DEF PRStart, hubVars
  <1>2. ASSUME NEW r \in Runs, PRLog(r) \/ PRBranch(r) \/ PRMarker(r) \/ PRFind(r) \/ PRDies(r)
        PROVE  UNCHANGED remote
    BY <1>2 DEF PRLog, PRBranch, PRMarker, PRFind, PRDies, hubVars
  <1>3. ASSUME NEW r \in Runs, NEW fails \in BOOLEAN, PRBuild(r, fails) \/ PRCreate(r, fails)
        PROVE  UNCHANGED remote
    BY <1>3 DEF PRBuild, PRCreate, hubVars
  <1>4. ASSUME NEW r \in Runs, NEW fails \in BOOLEAN, PRPush(r, fails)
        PROVE  UNCHANGED remote \/ Pushed
    <2> DEFINE b == Bead(r)
    <2>1. run[r].pc = "push"
          /\ \/ UNCHANGED remote
             \/ /\ branch[b] # Nil /\ (\A old \in {remote[b]} \ {Nil} : Ancestor(old, branch[b]))
                /\ remote' = [remote EXCEPT ![b] = branch[b]]
      BY <1>4 DEF PRPush
    <2>2. b \in Beads
      BY <2>1, RunBead
    <2> HIDE DEF b
    <2> QED BY <2>1, <2>2 DEF Pushed
  <1>5. ASSUME NEW b \in Beads, NEW cleanup \in BOOLEAN, MergePR(b, cleanup)
        PROVE  UNCHANGED remote \/ Cleaned
    BY <1>5 DEF MergePR, Cleaned
  <1>6. ASSUME NEW b \in Beads, ClosePR(b) \/ DeleteBranch(b) \/ HandBranch(b)
        PROVE  UNCHANGED remote
    BY <1>6 DEF ClosePR, DeleteBranch, HandBranch, hubVars
  <1>7. ASSUME NEW p \in Paths, NEW to \in Blobs, NEW b \in Beads \union {NoBead}, Promote(b, p, to)
        PROVE  UNCHANGED remote
    BY <1>7 DEF Promote, hubVars
  <1>8. CASE TakeIntegration
    BY <1>8 DEF TakeIntegration, hubVars
  <1>9. CASE UNCHANGED vars
    BY <1>9 DEF vars, hubVars
  <1>10. ASSUME NEW p \in Paths, NEW to \in Blobs, EditMain(p, to)
         PROVE  UNCHANGED remote
    BY <1>10 DEF EditMain, hubVars
  <1> QED BY <1>1, <1>2, <1>3, <1>4, <1>5, <1>6, <1>7, <1>8, <1>9, <1>10 DEF Next

Requested ==
    \E b \in Beads, x \in {"none", "open"} : pr' = [pr EXCEPT ![b] = x] /\ UNCHANGED merged

LEMMA RequestsMove ==
    ASSUME BridgeInv, [Next]_vars
    PROVE  \/ UNCHANGED <<pr, merged>> \/ Requested
           \/ \E b \in Beads, cleanup \in BOOLEAN : MergePR(b, cleanup)
PROOF
  <1>1. ASSUME NEW r \in Runs, NEW only \in {Beads} \union {{b} : b \in Beads}, NEW dry \in BOOLEAN,
               PRStart(r, only, dry)
        PROVE  UNCHANGED <<pr, merged>>
    BY <1>1 DEF PRStart, hubVars
  <1>2. ASSUME NEW r \in Runs, PRLog(r) \/ PRBranch(r) \/ PRMarker(r) \/ PRFind(r) \/ PRDies(r)
        PROVE  UNCHANGED <<pr, merged>>
    BY <1>2 DEF PRLog, PRBranch, PRMarker, PRFind, PRDies, hubVars
  <1>3. ASSUME NEW r \in Runs, NEW fails \in BOOLEAN, PRBuild(r, fails) \/ PRPush(r, fails)
        PROVE  UNCHANGED <<pr, merged>>
    BY <1>3 DEF PRBuild, PRPush, hubVars
  <1>4. ASSUME NEW r \in Runs, NEW fails \in BOOLEAN, PRCreate(r, fails)
        PROVE  UNCHANGED <<pr, merged>> \/ Requested
    <2> DEFINE b == Bead(r)
    <2>1. run[r].pc = "create" /\ UNCHANGED merged
          /\ (UNCHANGED pr \/ pr' = [pr EXCEPT ![b] = "open"])
      BY <1>4 DEF PRCreate
    <2>2. b \in Beads
      BY <2>1, RunBead
    <2> HIDE DEF b
    <2> QED BY <2>1, <2>2 DEF Requested
  <1>5. ASSUME NEW b \in Beads, ClosePR(b)
        PROVE  Requested
    BY <1>5 DEF ClosePR, Requested
  <1>6. ASSUME NEW b \in Beads, DeleteBranch(b) \/ HandBranch(b)
        PROVE  UNCHANGED <<pr, merged>>
    BY <1>6 DEF DeleteBranch, HandBranch, hubVars
  <1>7. ASSUME NEW p \in Paths, NEW to \in Blobs, NEW b \in Beads \union {NoBead}, Promote(b, p, to)
        PROVE  UNCHANGED <<pr, merged>>
    BY <1>7 DEF Promote, hubVars
  <1>8. CASE TakeIntegration
    BY <1>8 DEF TakeIntegration, hubVars
  <1>9. CASE UNCHANGED vars
    BY <1>9 DEF vars, hubVars
  <1>10. ASSUME NEW p \in Paths, NEW to \in Blobs, EditMain(p, to)
         PROVE  UNCHANGED <<pr, merged>>
    BY <1>10 DEF EditMain, hubVars
  <1> QED BY <1>1, <1>2, <1>3, <1>4, <1>5, <1>6, <1>7, <1>8, <1>9, <1>10 DEF Next

(* What a step makes of the refs of one bead. *)
LEMMA RefsOf ==
    ASSUME BridgeInv, [Next]_vars, NEW b \in Beads
    PROVE  \/ branch'[b] = branch[b] /\ marker'[b] = marker[b]
           \/ branch'[b] = Nil
           \/ /\ branch[b] = Nil /\ marker'[b] = 0
              /\ branch'[b] \in Branch /\ branch'[b].srcs = <<>>
           \/ \E e : /\ Ready(b, e) /\ e.class = "buildable" /\ RefsStand(b, e)
                     /\ branch'[b] = Built(e) /\ marker'[b] = Last(e.pending)
PROOF
  <1>0. Typed /\ main.id \in Nat /\ main.tree \in Trees /\ DOMAIN branch = Beads /\ DOMAIN marker = Beads
    BY DEF BridgeInv, Typed
  <1>1. CASE UNCHANGED refVars
    BY <1>1 DEF refVars
  <1>2. CASE Published
    <2>1. PICK c \in Beads : \E e :
              Ready(c, e) /\ e.class = "buildable" /\ RefsStand(c, e) /\ Publish(c, e)
      BY <1>2 DEF Published
    <2>2. PICK e : Ready(c, e) /\ e.class = "buildable" /\ RefsStand(c, e) /\ Publish(c, e)
      BY <2>1
    <2>3. branch' = [branch EXCEPT ![c] = Built(e)] /\ marker' = [marker EXCEPT ![c] = Last(e.pending)]
      BY <2>2 DEF Publish
    <2> DEFINE new == Built(e)
               last == Last(e.pending)
    <2> HIDE DEF new, last
    <2>4. branch' = [branch EXCEPT ![c] = new] /\ marker' = [marker EXCEPT ![c] = last]
      BY <2>3 DEF new, last
    <2>5. CASE b = c
      <3>1. branch'[b] = new /\ marker'[b] = last
        BY <1>0, <2>4, <2>5
      <3> QED BY <2>2, <2>5, <3>1 DEF new, last
    <2>6. CASE b # c
      BY <1>0, <2>4, <2>6
    <2> QED BY <2>5, <2>6
  <1>3. CASE Deleted
    BY <1>0, <1>3 DEF Deleted
  <1>4. CASE MadeByHand
    <2> DEFINE new == [base |-> main.id, floor |-> main.tree, srcs |-> <<>>]
    <2>1. PICK c \in Beads : branch[c] = Nil /\ marker[c] = 0 /\ UNCHANGED marker
                             /\ branch' = [branch EXCEPT ![c] = new]
      BY <1>4 DEF MadeByHand
    <2>2. new \in Branch /\ new.srcs = <<>>
      BY <1>0 DEF Branch
    <2> HIDE DEF new
    <2> QED BY <1>0, <2>1, <2>2
  <1> QED BY <1>1, <1>2, <1>3, <1>4, RefsMove

(* What a step makes of the remote branch of one bead. *)
LEMMA RemoteOf ==
    ASSUME BridgeInv, [Next]_vars, NEW b \in Beads
    PROVE  \/ remote'[b] = remote[b] \/ remote'[b] = Nil
           \/ /\ branch[b] # Nil /\ remote'[b] = branch[b]
              /\ remote[b] # Nil => Ancestor(remote[b], branch[b])
PROOF
  <1>0. DOMAIN remote = Beads
    BY DEF BridgeInv, Typed
  <1> QED BY <1>0, RemoteMoves DEF Pushed, Cleaned

LEMMA TypedKept ==
    ASSUME BridgeInv, [Next]_vars
    PROVE  Typed'
PROOF
  <1>0. Typed /\ Grows /\ Branch \subseteq Branch'
    BY WorldGrows, BranchGrows DEF BridgeInv
  <1>1. \A b \in Beads : branch'[b] \in Branch' \union {Nil} /\ marker'[b] \in Nat
    <2> SUFFICES ASSUME NEW b \in Beads PROVE branch'[b] \in Branch' \union {Nil} /\ marker'[b] \in Nat
      OBVIOUS
    <2>0. branch[b] \in Branch \union {Nil} /\ marker[b] \in Nat
      BY <1>0 DEF Typed
    <2>1. CASE branch'[b] = branch[b] /\ marker'[b] = marker[b]
      BY <1>0, <2>0, <2>1
    <2>2. CASE \E e : /\ Ready(b, e) /\ e.class = "buildable" /\ RefsStand(b, e)
                      /\ branch'[b] = Built(e) /\ marker'[b] = Last(e.pending)
      <3>1. PICK e : /\ Ready(b, e) /\ e.class = "buildable" /\ RefsStand(b, e)
                     /\ branch'[b] = Built(e) /\ marker'[b] = Last(e.pending)
        BY <2>2
      <3>2. Built(e) \in Branch /\ Last(e.pending) \in Nat
        BY <3>1, BuiltIs
      <3> QED BY <1>0, <3>1, <3>2
    <2>3. marker'[b] \in Nat
      <3>1. CASE UNCHANGED refVars \/ Deleted \/ MadeByHand
        BY <2>0, <3>1 DEF refVars, Deleted, MadeByHand
      <3>2. CASE Published
        <4>1. PICK c \in Beads : \E e :
                 Ready(c, e) /\ e.class = "buildable" /\ RefsStand(c, e) /\ Publish(c, e)
          BY <3>2 DEF Published
        <4>2. PICK e : Ready(c, e) /\ e.class = "buildable" /\ RefsStand(c, e) /\ Publish(c, e)
          BY <4>1
        <4>3. Last(e.pending) \in Nat
          BY <4>2, BuiltIs
        <4>4. marker' = [marker EXCEPT ![c] = Last(e.pending)]
          BY <4>2 DEF Publish
        <4> DEFINE last == Last(e.pending)
        <4> HIDE DEF last
        <4>5. marker' = [marker EXCEPT ![c] = last] /\ last \in Nat
          BY <4>3, <4>4 DEF last
        <4> QED BY <1>0, <4>5 DEF Typed
      <3> QED BY <3>1, <3>2, RefsMove
    <2> QED BY <1>0, <2>0, <2>1, <2>2, <2>3, RefsOf
  <1>2. /\ branch' = [b \in Beads |-> branch'[b]] /\ marker' = [b \in Beads |-> marker'[b]]
    <2>1. branch = [b \in Beads |-> branch[b]] /\ marker = [b \in Beads |-> marker[b]]
      BY <1>0 DEF Typed
    <2>2. CASE UNCHANGED refVars
      BY <2>1, <2>2 DEF refVars
    <2>3. CASE Published
      BY <2>1, <2>3 DEF Published, Publish
    <2>4. CASE Deleted
      BY <2>1, <2>4 DEF Deleted
    <2>5. CASE MadeByHand
      BY <2>1, <2>5 DEF MadeByHand
    <2> QED BY <2>2, <2>3, <2>4, <2>5, RefsMove
  <1>3. remote' \in [Beads -> Branch' \union {Nil}]
    <2>1. \A b \in Beads : remote'[b] \in Branch' \union {Nil}
      BY <1>0, RemoteOf DEF Typed
    <2>2. remote' = [b \in Beads |-> remote'[b]]
      <3>1. remote = [b \in Beads |-> remote[b]]
        BY <1>0 DEF Typed
      <3> QED BY <3>1, RemoteMoves DEF Pushed, Cleaned
    <2> QED BY <2>1, <2>2
  <1>4. /\ pr' \in [Beads -> {"none", "open", "merged"}]
        /\ merged' \in [Beads -> Branch' \union {Nil}]
    <2>1. merged \in [Beads -> Branch' \union {Nil}]
      BY <1>0 DEF Typed
    <2>2. CASE UNCHANGED <<pr, merged>>
      BY <1>0, <2>1, <2>2 DEF Typed
    <2>3. CASE Requested
      BY <1>0, <2>1, <2>3 DEF Typed, Requested
    <2>4. ASSUME NEW b \in Beads, NEW cleanup \in BOOLEAN, MergePR(b, cleanup)
          PROVE  /\ pr' \in [Beads -> {"none", "open", "merged"}]
                 /\ merged' \in [Beads -> Branch' \union {Nil}]
      <3>1. pr' = [pr EXCEPT ![b] = "merged"] /\ merged' = [merged EXCEPT ![b] = remote[b]]
        BY <2>4 DEF MergePR
      <3>2. remote[b] \in Branch' \union {Nil}
        BY <1>0 DEF Typed
      <3>3. pr \in [Beads -> {"none", "open", "merged"}]
        BY <1>0 DEF Typed
      <3> QED BY <2>1, <3>1, <3>2, <3>3
    <2> QED BY <2>2, <2>3, <2>4, RequestsMove
  <1>5. DOMAIN run' = Runs
    BY ProcessesKept
  <1>6. branch' \in [Beads -> Branch' \union {Nil}] /\ marker' \in [Beads -> Nat]
    BY <1>1, <1>2
  <1> QED BY <1>0, <1>3, <1>4, <1>5, <1>6 DEF Typed, Grows, Branch

(* What holds of a branch and its marker stays true as integration grows. *)
LEMMA MarkedStays ==
    ASSUME Typed, Grows, NEW b, NEW s \in Seq(DOMAIN integ), s # <<>>,
           OfBead(b, 1..Last(s)) \subseteq ToSet(s) \union (1..main.has),
           ToSet(s) = OfBead(b, ToSet(s))
    PROVE  /\ OfBead(b, 1..Last(s))' \subseteq ToSet(s) \union (1..main'.has)
           /\ ToSet(s) = OfBead(b, ToSet(s))'
PROOF
  <1>1. Last(s) \in DOMAIN integ /\ DOMAIN integ = 1..Len(integ) /\ Len(integ) \in Nat
    BY LastIn, Indices
  <1>2. 1..Last(s) \subseteq DOMAIN integ /\ ToSet(s) \subseteq DOMAIN integ
    BY <1>1 DEF ToSet
  <1>3. OfBead(b, 1..Last(s))' = OfBead(b, 1..Last(s)) /\ OfBead(b, ToSet(s))' = OfBead(b, ToSet(s))
    BY <1>2, OfBeadStays
  <1>4. 1..main.has \subseteq 1..main'.has
    BY DEF Grows, Typed
  <1> QED BY <1>3, <1>4

LEMMA MarkerKept ==
    ASSUME BridgeInv, [Next]_vars
    PROVE  MarkerIsBranch'
PROOF
  <1>0. Typed /\ Grows /\ MarkerIsBranch
    BY WorldGrows DEF BridgeInv
  <1> SUFFICES ASSUME NEW b \in Beads, branch'[b] # Nil, branch'[b].srcs # <<>>
               PROVE  /\ marker'[b] = Last(branch'[b].srcs)
                      /\ Increasing(branch'[b].srcs)
                      /\ OfBead(b, 1..marker[b])' \subseteq ToSet(branch'[b].srcs) \union (1..main'.has)
                      /\ ToSet(branch'[b].srcs) = OfBead(b, ToSet(branch[b].srcs))'
    BY DEF MarkerIsBranch
  <1>1. CASE branch'[b] = branch[b] /\ marker'[b] = marker[b]
    <2> DEFINE s == branch[b].srcs
    <2>1. s \in Seq(DOMAIN integ) /\ s # <<>> /\ marker[b] = Last(s) /\ Increasing(s)
          /\ OfBead(b, 1..Last(s)) \subseteq ToSet(s) \union (1..main.has)
          /\ ToSet(s) = OfBead(b, ToSet(s))
      BY <1>0, <1>1 DEF Typed, Branch, MarkerIsBranch
    <2>2. branch'[b].srcs = s /\ marker'[b] = Last(s)
      BY <1>1, <2>1
    <2>3. ASSUME NEW x, x = s PROVE /\ OfBead(b, 1..Last(x))' \subseteq ToSet(x) \union (1..main'.has)
                                    /\ ToSet(x) = OfBead(b, ToSet(x))'
      <3> HIDE DEF s
      <3> QED BY <1>0, <2>1, <2>3, MarkedStays
    <2> HIDE DEF s
    <2> QED BY <2>1, <2>2, <2>3 DEF OfBead
  <1>2. CASE \E e : /\ Ready(b, e) /\ e.class = "buildable" /\ RefsStand(b, e)
                    /\ branch'[b] = Built(e) /\ marker'[b] = Last(e.pending)
    <2>1. PICK e : /\ Ready(b, e) /\ e.class = "buildable" /\ RefsStand(b, e)
                   /\ branch'[b] = Built(e) /\ marker'[b] = Last(e.pending)
      BY <1>2
    <2> DEFINE s == Built(e).srcs
    <2>2. s \in Seq(DOMAIN integ) /\ s # <<>> /\ Last(e.pending) = Last(s) /\ Increasing(s)
          /\ OfBead(b, 1..Last(s)) \subseteq ToSet(s) \union (1..main.has)
          /\ ToSet(s) = OfBead(b, ToSet(s))
      <3>1. Built(e) \in Branch
        BY <2>1, BuiltIs
      <3> QED BY <2>1, <3>1, BuiltIs DEF Branch
    <2>3. branch'[b].srcs = s /\ marker'[b] = Last(s)
      BY <2>1, <2>2
    <2>4. ASSUME NEW x, x = s PROVE /\ OfBead(b, 1..Last(x))' \subseteq ToSet(x) \union (1..main'.has)
                                    /\ ToSet(x) = OfBead(b, ToSet(x))'
      <3> HIDE DEF s
      <3> QED BY <1>0, <2>2, <2>4, MarkedStays
    <2> HIDE DEF s
    <2> QED BY <2>2, <2>3, <2>4 DEF OfBead
  <1> QED BY <1>1, <1>2, RefsOf

LEMMA HandsKept ==
    ASSUME BridgeInv, [Next]_vars
    PROVE  HandsOff'
PROOF
  <1> SUFFICES ASSUME NEW b \in Beads, branch'[b] # Nil, branch'[b].srcs = <<>>
               PROVE  marker'[b] = 0
    BY DEF HandsOff
  <1>1. CASE branch'[b] = branch[b] /\ marker'[b] = marker[b]
    BY <1>1 DEF BridgeInv, HandsOff
  <1>2. ~\E e : /\ Ready(b, e) /\ e.class = "buildable" /\ RefsStand(b, e)
                /\ branch'[b] = Built(e) /\ marker'[b] = Last(e.pending)
    BY BuiltIs
  <1> QED BY <1>1, <1>2, RefsOf

LEMMA AppliesKept ==
    ASSUME BridgeInv, [Next]_vars
    PROVE  Applies'
PROOF
  <1>0. Typed /\ Grows /\ Applies
    BY WorldGrows DEF BridgeInv
  <1>1. ASSUME NEW br \in Branch, ~StaleBase(br.floor, br.srcs), NEW x, x = br
        PROVE  ~StaleBase(x.floor, x.srcs)'
    BY <1>0, <1>1, StaleStays DEF Branch
  <1>2. ASSUME NEW b \in Beads, NEW x, x = branch'[b], x # Nil
        PROVE  ~StaleBase(x.floor, x.srcs)'
    <2>1. CASE branch'[b] = branch[b] /\ marker'[b] = marker[b]
      BY <1>0, <1>1, <1>2, <2>1 DEF Typed, Applies
    <2>2. CASE branch'[b].srcs = <<>>
      <3>1. x.srcs = <<>>
        BY <1>2, <2>2
      <3> QED BY <3>1 DEF StaleBase
    <2>3. CASE \E e : /\ Ready(b, e) /\ e.class = "buildable" /\ RefsStand(b, e)
                      /\ branch'[b] = Built(e) /\ marker'[b] = Last(e.pending)
      <3>1. PICK e : /\ Ready(b, e) /\ e.class = "buildable" /\ RefsStand(b, e)
                     /\ branch'[b] = Built(e) /\ marker'[b] = Last(e.pending)
        BY <2>3
      <3>2. Built(e) \in Branch /\ ~StaleBase(Built(e).floor, Built(e).srcs)
        BY <3>1, BuiltIs
      <3> DEFINE br == Built(e)
      <3> HIDE DEF br
      <3>3. br \in Branch /\ ~StaleBase(br.floor, br.srcs) /\ x = br
        BY <1>2, <3>1, <3>2 DEF br
      <3> QED BY <1>1, <3>3
    <2> QED BY <1>2, <2>1, <2>2, <2>3, RefsOf
  <1>3. ASSUME NEW b \in Beads, NEW x, x = remote'[b], x # Nil
        PROVE  ~StaleBase(x.floor, x.srcs)'
    BY <1>0, <1>1, <1>3, RemoteOf DEF Typed, Applies
  <1> QED BY <1>2, <1>3 DEF Applies, StaleBase

LEMMA InvKept == BridgeInv /\ [Next]_vars => BridgeInv'
PROOF
  <1> SUFFICES ASSUME BridgeInv, [Next]_vars PROVE BridgeInv'
    OBVIOUS
  <1>1. \A r \in Runs : RunOk(run[r])'
    BY ProcessesKept
  <1> QED BY <1>1, TypedKept, MarkerKept, HandsKept, AppliesKept DEF BridgeInv

LEMMA InvAtFirst == Init => BridgeInv
PROOF
  <1> SUFFICES ASSUME Init PROVE BridgeInv
    OBVIOUS
  <1>1. Typed
    <2>1. integ \in Seq(Commit)
      BY DEF Init
    <2>2. [p \in Paths |-> Blob0] \in Trees
      BY BridgeAssumption DEF BridgeAssumption, Trees
    <2>3. main \in [id : Nat, tree : Trees, has : Nat, own : BOOLEAN]
      BY <2>2 DEF Init
    <2> QED BY <2>1, <2>3 DEF Init, Typed
  <1>2. \A r \in Runs : RunOk(run[r])
    BY IdleOk DEF Init
  <1>3. \A b \in Beads : branch[b] = Nil /\ remote[b] = Nil
    BY DEF Init
  <1> QED BY <1>1, <1>2, <1>3 DEF BridgeInv, MarkerIsBranch, HandsOff, Applies

LEMMA InvHolds == Spec => []BridgeInv
  BY InvAtFirst, InvKept, PTL DEF Spec

------------------------------------------------------------------------------
(* What a merge changes. *)

(* What a branch holds of a path: what its parent held if no commit on it  *)
(* touches the path, else what the last of them left.                      *)
LEMMA TreeAt ==
    ASSUME Typed, NEW br \in Branch, NEW p \in Paths
    PROVE  \/ /\ Tree(br)[p] = br.floor[p]
              /\ \A i \in DOMAIN br.srcs : integ[br.srcs[i]].path # p
           \/ \E i \in DOMAIN br.srcs :
                 /\ integ[br.srcs[i]].path = p /\ Tree(br)[p] = integ[br.srcs[i]].to
                 /\ \A j \in DOMAIN br.srcs : integ[br.srcs[j]].path = p => j <= i
PROOF
  <1> DEFINE on == {i \in DOMAIN br.srcs : integ[br.srcs[i]].path = p}
  <1>1. CASE on = {}
    BY <1>1 DEF Tree, Replayed
  <1>2. CASE on # {}
    <2>1. on \subseteq 1..Len(br.srcs) /\ Len(br.srcs) \in Nat
      BY DEF Branch
    <2>2. Max(on) \in on /\ \A j \in on : j <= Max(on)
      <3> HIDE DEF on
      <3> QED BY <1>2, <2>1, MaxIn
    <2>3. Tree(br)[p] = integ[br.srcs[Max(on)]].to
      BY <1>2 DEF Tree, Replayed
    <2> DEFINE i == Max(on)
    <2>4. i \in DOMAIN br.srcs /\ integ[br.srcs[i]].path = p
      BY <2>2
    <2>5. \A j \in DOMAIN br.srcs : integ[br.srcs[j]].path = p => j <= i
      BY <2>2
    <2> HIDE DEF i, on
    <2> QED BY <2>3, <2>4, <2>5 DEF i
  <1> QED BY <1>1, <1>2

(* The first commit of a branch to touch a path found it as it was where   *)
(* the branch forked.                                                      *)
LEMMA FirstOn ==
    ASSUME Typed, NEW br \in Branch, ~StaleBase(br.floor, br.srcs),
           NEW p \in Paths, NEW k \in DOMAIN br.srcs, integ[br.srcs[k]].path = p
    PROVE  \E i \in DOMAIN br.srcs :
              /\ integ[br.srcs[i]].path = p
              /\ \A j \in 1..(i - 1) : integ[br.srcs[j]].path # p
              /\ integ[br.srcs[i]].from = br.floor[p]
PROOF
  <1> DEFINE on == {i \in DOMAIN br.srcs : integ[br.srcs[i]].path = p}
  <1>0. DOMAIN br.srcs = 1..Len(br.srcs) /\ Len(br.srcs) \in Nat
    BY DEF Branch
  <1>1. on \subseteq Nat /\ on # {}
    BY <1>0
  <1>2. PICK i \in on : \A j \in on : i <= j
    <2> HIDE DEF on
    <2> QED BY <1>1, Smallest
  <1>3. i \in DOMAIN br.srcs /\ integ[br.srcs[i]].path = p
    BY <1>2
  <1>4. ASSUME NEW j \in 1..(i - 1) PROVE integ[br.srcs[j]].path # p
    <2>1. j \in DOMAIN br.srcs /\ ~(i <= j)
      BY <1>0, <1>3
    <2> QED BY <1>2, <2>1
  <1> HIDE DEF on
  <1> QED BY <1>3, <1>4 DEF StaleBase

LEMMA OnlyMerges ==
    ASSUME BridgeInv, [Next]_vars, NEW b \in Beads, pr[b] = "open", pr'[b] = "merged"
    PROVE  \E cleanup \in BOOLEAN : MergePR(b, cleanup)
PROOF
  <1>0. pr \in [Beads -> {"none", "open", "merged"}]
    BY DEF BridgeInv, Typed
  <1>1. PICK c \in Beads, cleanup \in BOOLEAN : MergePR(c, cleanup)
    BY <1>0, RequestsMove DEF Requested
  <1>2. pr' = [pr EXCEPT ![c] = "merged"]
    BY <1>1 DEF MergePR
  <1>3. b = c
    BY <1>0, <1>2
  <1> QED BY <1>1, <1>3

(* Path p is as the first commit on the branch of b to touch it found it,  *)
(* or as the last of its first old commits to touch it left it.            *)
AsFound(b, p, old) ==
    \E i \in DOMAIN remote[b].srcs :
        /\ integ[remote[b].srcs[i]].path = p
        /\ \/ /\ \A j \in 1..(i - 1) : integ[remote[b].srcs[j]].path # p
              /\ integ[remote[b].srcs[i]].from = main.tree[p]
           \/ /\ i <= old
              /\ \A j \in (i + 1)..old : integ[remote[b].srcs[j]].path # p
              /\ integ[remote[b].srcs[i]].to = main.tree[p]

(* A path a merge changes was as the branch's own first commit there found *)
(* it, or as its last merged commit there left it.                         *)
LEMMA MergeReverts ==
    ASSUME BridgeInv, NEW b \in Beads, NEW cleanup \in BOOLEAN, MergePR(b, cleanup),
           NEW p \in Paths, main'.tree[p] # main.tree[p],
           NEW old, old = IF merged[b] # Nil /\ Ancestor(merged[b], remote[b])
                          THEN Len(merged[b].srcs) ELSE 0
    PROVE  AsFound(b, p, old)
PROOF
  <1> DEFINE br == remote[b]
             tree == [q \in Paths |-> IF q \in Changes(b) THEN Tree(remote[b])[q] ELSE main.tree[q]]
  <1>1. /\ Typed /\ br \in Branch /\ ~StaleBase(br.floor, br.srcs)
        /\ main \in [id : Nat, tree : Trees, has : Nat, own : BOOLEAN]
        /\ merged[b] \in Branch \union {Nil}
    BY DEF BridgeInv, Typed, Applies, MergePR
  <1>2. main'.tree = tree
    <2>1. main' = [main EXCEPT !.id = @ + 1, !.own = TRUE, !.tree = tree]
      BY DEF MergePR
    <2> HIDE DEF tree
    <2> QED BY <1>1, <2>1
  <1>3. p \in Changes(b) /\ main.tree[p] = MergeBase(b)[p]
    <2>1. p \in Changes(b)
      BY <1>2
    <2> QED BY <2>1 DEF MergePR
  <1>4. Tree(br)[p] # main.tree[p]
    BY <1>3 DEF Changes
  <1>5. ASSUME MergeBase(b)[p] = br.floor[p]
        PROVE  \E i \in DOMAIN br.srcs :
                  /\ integ[br.srcs[i]].path = p
                  /\ \A j \in 1..(i - 1) : integ[br.srcs[j]].path # p
                  /\ integ[br.srcs[i]].from = main.tree[p]
    <2> HIDE DEF br
    <2>1. PICK k \in DOMAIN br.srcs : integ[br.srcs[k]].path = p
      BY <1>1, <1>3, <1>4, <1>5, TreeAt
    <2> QED BY <1>1, <1>3, <1>5, <2>1, FirstOn
  <1>6. CASE merged[b] # Nil /\ Ancestor(merged[b], remote[b])
    <2> DEFINE m == merged[b]
    <2>1. /\ m \in Branch /\ m.floor = br.floor /\ IsPrefix(m.srcs, br.srcs)
          /\ MergeBase(b) = Tree(m) /\ old = Len(m.srcs)
      BY <1>1, <1>6 DEF Ancestor, MergeBase
    <2>2. /\ m.srcs \in Seq(DOMAIN integ) /\ br.srcs \in Seq(DOMAIN integ) /\ Len(m.srcs) \in Nat
          /\ DOMAIN m.srcs = 1..Len(m.srcs) /\ DOMAIN br.srcs = 1..Len(br.srcs)
      BY <1>1, <2>1 DEF Branch
    <2> HIDE DEF m, br
    <2>3. /\ DOMAIN m.srcs \subseteq DOMAIN br.srcs
          /\ \A i \in DOMAIN m.srcs : br.srcs[i] = m.srcs[i]
      BY <2>1, <2>2 DEF IsPrefix
    <2>4. CASE Tree(m)[p] = m.floor[p]
      BY <1>5, <2>1, <2>4 DEF br, AsFound
    <2>5. CASE \E i \in DOMAIN m.srcs :
                 /\ integ[m.srcs[i]].path = p /\ Tree(m)[p] = integ[m.srcs[i]].to
                 /\ \A j \in DOMAIN m.srcs : integ[m.srcs[j]].path = p => j <= i
      <3>1. PICK i \in DOMAIN m.srcs :
                 /\ integ[m.srcs[i]].path = p /\ Tree(m)[p] = integ[m.srcs[i]].to
                 /\ \A j \in DOMAIN m.srcs : integ[m.srcs[j]].path = p => j <= i
        BY <2>5
      <3>2. i \in DOMAIN br.srcs /\ br.srcs[i] = m.srcs[i] /\ i <= old /\ i \in Nat
        BY <2>1, <2>2, <2>3
      <3>3. ASSUME NEW j \in (i + 1)..old PROVE integ[br.srcs[j]].path # p
        <4>1. j \in DOMAIN m.srcs /\ ~(j <= i)
          BY <2>1, <2>2, <3>2
        <4> QED BY <2>3, <3>1, <4>1
      <3>4. integ[br.srcs[i]].path = p /\ integ[br.srcs[i]].to = main.tree[p]
        BY <1>3, <2>1, <3>1, <3>2
      <3> QED BY <3>2, <3>3, <3>4 DEF br, AsFound
    <2> QED BY <1>1, <2>1, <2>4, <2>5, TreeAt
  <1>7. CASE ~(merged[b] # Nil /\ Ancestor(merged[b], remote[b]))
    <2>1. MergeBase(b)[p] = br.floor[p]
      BY <1>7 DEF MergeBase
    <2> QED BY <1>5, <2>1 DEF AsFound
  <1> QED BY <1>6, <1>7

------------------------------------------------------------------------------
(* The theorems. *)

(* The branch and its marker: every commit of a bead up to its marker is   *)
(* on the bead's branch, once and in integration's order, unless main has  *)
(* it, for any number of runs, of promotions, of moves by people and of    *)
(* kills between the reads and the two ref writes.                         *)
THEOREM MarkerAgrees == Spec => []MarkerIsBranch
PROOF
  <1>1. BridgeInv => MarkerIsBranch
    BY DEF BridgeInv
  <1> QED BY <1>1, InvHolds, PTL

(* No run takes back what another published: a bead's branch and its       *)
(* remote are only ever replaced by longer ones from the same fork.        *)
THEOREM NothingTakenBack == Spec => PublishedOnlyGrows
PROOF
  <1> DEFINE A == \A b \in Beads :
        /\ branch[b] # Nil /\ branch'[b] # Nil => Ancestor(branch[b], branch'[b])
        /\ remote[b] # Nil /\ remote'[b] # Nil => Ancestor(remote[b], remote'[b])
  <1>1. BridgeInv /\ [Next]_vars => A
    <2> SUFFICES ASSUME BridgeInv, [Next]_vars, NEW b \in Beads
                 PROVE  /\ branch[b] # Nil /\ branch'[b] # Nil => Ancestor(branch[b], branch'[b])
                        /\ remote[b] # Nil /\ remote'[b] # Nil => Ancestor(remote[b], remote'[b])
      OBVIOUS
    <2>1. \A x \in Branch : Ancestor(x, x)
      BY PrefixOfConcat DEF Branch, Ancestor
    <2>2. branch[b] \in Branch \union {Nil} /\ remote[b] \in Branch \union {Nil}
      BY DEF BridgeInv, Typed
    <2>3. branch[b] # Nil /\ branch'[b] # Nil => Ancestor(branch[b], branch'[b])
      <3>1. ASSUME NEW e, Ready(b, e), e.class = "buildable", RefsStand(b, e), branch[b] # Nil
            PROVE  Ancestor(branch[b], Built(e))
        BY <3>1, BuiltIs
      <3> QED BY <2>1, <2>2, <3>1, RefsOf
    <2>4. remote[b] # Nil /\ remote'[b] # Nil => Ancestor(remote[b], remote'[b])
      BY <2>1, <2>2, RemoteOf
    <2> QED BY <2>3, <2>4
  <1> HIDE DEF A
  <1>2. BridgeInv /\ [Next]_vars => [A]_vars
    BY <1>1
  <1>3. Spec => [][A]_vars
    BY <1>2, InvHolds, PTL DEF Spec
  <1> QED BY <1>3 DEF A, PublishedOnlyGrows

(* Merging a bead's request reverts nothing that others landed on main.    *)
THEOREM MergesRevertNothing == Spec => MergeRevertsNothing
PROOF
  <1> DEFINE A == \A b \in Beads :
        pr[b] = "open" /\ pr'[b] = "merged" =>
            LET srcs == remote[b].srcs
                old == IF merged[b] # Nil /\ Ancestor(merged[b], remote[b])
                       THEN Len(merged[b].srcs) ELSE 0
            IN  \A p \in Paths : main'.tree[p] # main.tree[p] =>
                    \E i \in DOMAIN srcs :
                        /\ integ[srcs[i]].path = p
                        /\ \/ /\ \A j \in 1..(i - 1) : integ[srcs[j]].path # p
                              /\ integ[srcs[i]].from = main.tree[p]
                           \/ /\ i <= old
                              /\ \A j \in (i + 1)..old : integ[srcs[j]].path # p
                              /\ integ[srcs[i]].to = main.tree[p]
  <1>1. BridgeInv /\ [Next]_vars => A
    <2> SUFFICES ASSUME BridgeInv, [Next]_vars, NEW b \in Beads, pr[b] = "open", pr'[b] = "merged",
                        NEW p \in Paths, main'.tree[p] # main.tree[p]
                 PROVE  LET old == IF merged[b] # Nil /\ Ancestor(merged[b], remote[b])
                                   THEN Len(merged[b].srcs) ELSE 0
                        IN  AsFound(b, p, old)
      BY DEF AsFound
    <2> DEFINE old == IF merged[b] # Nil /\ Ancestor(merged[b], remote[b])
                      THEN Len(merged[b].srcs) ELSE 0
    <2>1. PICK cleanup \in BOOLEAN : MergePR(b, cleanup)
      BY OnlyMerges
    <2>2. AsFound(b, p, old)
      BY <2>1, MergeReverts
    <2> QED BY <2>2
  <1> HIDE DEF A
  <1>2. BridgeInv /\ [Next]_vars => [A]_vars
    BY <1>1
  <1>3. Spec => [][A]_vars
    BY <1>2, InvHolds, PTL DEF Spec
  <1> QED BY <1>3 DEF A, MergeRevertsNothing
=============================================================================
