--------------------------- MODULE LockStoreProofs ---------------------------
(***************************************************************************)
(* Proofs about LockStore, for any number of owners, sessions, checkouts,  *)
(* targets and calls and for any bounds.                                   *)
(***************************************************************************)
EXTENDS LockStore, Integers, TLAPS

(* The primary key of the locks table: one row per target, owner and       *)
(* checkout.                                                               *)
KeyUnique ==
    \A r, q \in locks :
        r.target = q.target /\ r.owner = q.owner /\ r.worktree = q.worktree => r = q

(* The table part of the inductive invariant. *)
TableInv == KeyUnique /\ Exclusive /\ EpochsIdentify

------------------------------------------------------------------------------
(* Overlap does not depend on which target is named first, as the incoming *)
(* one or as the held one.                                                 *)
LEMMA OverlapSymmetric ==
    ASSUME NEW a, NEW b
    PROVE  PrefixOverlaps(a, b) <=> PrefixOverlaps(b, a)
  BY DEF PrefixOverlaps

LEMMA SameWorktreeSymmetric ==
    ASSUME NEW a, NEW b
    PROVE  SameWorktree(a, b) <=> SameWorktree(b, a)
  BY DEF SameWorktree

(* Deleting rows, by whichever verb, keeps the table sound. *)
LEMMA ShrinkPreserves ==
    ASSUME TableInv, locks' \subseteq locks, UNCHANGED path_epochs
    PROVE  TableInv'
  BY DEF TableInv, KeyUnique, Exclusive, EpochsIdentify

(* Moving the lease end of some rows keeps the table sound. *)
LEMMA RenewalPreserves ==
    ASSUME TypeOK, TableInv, UNCHANGED path_epochs,
           NEW E \in SUBSET locks, NEW e \in Nat,
           locks' = (locks \ E) \union {[r EXCEPT !.expires = e] : r \in E}
    PROVE  TableInv'
PROOF
  <1>1. \A x \in locks' : \E y \in locks :
            /\ x.target = y.target /\ x.owner = y.owner
            /\ x.worktree = y.worktree /\ x.epoch = y.epoch
            /\ IF y \in E THEN x = [y EXCEPT !.expires = e] ELSE x = y
    BY DEF TypeOK, Row
  <1>2. KeyUnique'
    BY <1>1 DEF TableInv, KeyUnique
  <1>3. Exclusive'
    BY <1>1 DEF TableInv, Exclusive
  <1>4. EpochsIdentify'
    BY <1>1 DEF TableInv, EpochsIdentify
  <1> QED BY <1>2, <1>3, <1>4 DEF TableInv

(* A grant: the rows it replaces and the peers it reclaims are gone, every *)
(* peer left standing does not contend, and each new row carries either    *)
(* the epoch of the row it renewed or the next one of its path.            *)
LEMMA AcquirePreserves ==
    ASSUME TypeOK, TableInv,
           NEW s \in Sessions, NEW w \in Worktrees, NEW T \in SUBSET Targets,
           NEW i \in Intents, NEW ttl \in TTLs \union {DegradedModeTTL}, NEW lag \in 0..MaxLag,
           AcquireLocks(s, w, T, i, ttl, lag)
    PROVE  TableInv'
PROOF
  <1> DEFINE o == SessionOwner[s]
             stale == {r \in Contending(o, w, T) : Stale(r)}
             fresh(t) == [target |-> t, owner |-> o, session |-> s, worktree |-> w,
                          intent |-> i, expires |-> now - lag + ttl,
                          epoch |-> ResolveEpoch(o, w, t)]
  <1>1. \A t \in T : \A r, q \in RenewedRow(o, w, t) : r = q
    BY DEF RenewedRow, TableInv, KeyUnique
  <1>2. \A t \in T : Renews(o, w, t) =>
            \E r \in RenewedRow(o, w, t) :
                /\ r \in locks /\ r.target = t /\ r.owner = o
                /\ r.epoch = ResolveEpoch(o, w, t)
                /\ path_epochs'[t] = path_epochs[t]
    <2> SUFFICES ASSUME NEW t \in T, Renews(o, w, t)
                 PROVE  \E r \in RenewedRow(o, w, t) :
                            /\ r \in locks /\ r.target = t /\ r.owner = o
                            /\ r.epoch = ResolveEpoch(o, w, t)
                            /\ path_epochs'[t] = path_epochs[t]
      OBVIOUS
    <2>1. PICK r \in RenewedRow(o, w, t) : ~Stale(r)
      BY DEF Renews
    <2>2. r = CHOOSE q \in RenewedRow(o, w, t) : TRUE
      BY <1>1, <2>1
    <2>3. r.epoch = ResolveEpoch(o, w, t)
      BY <2>2 DEF ResolveEpoch
    <2>4. r \in locks /\ r.target = t /\ r.owner = o
      BY <2>1 DEF RenewedRow
    <2>5. path_epochs'[t] = path_epochs[t]
      BY DEF AcquireLocks
    <2> QED BY <2>1, <2>3, <2>4, <2>5
  <1>3. \A t \in T : ~Renews(o, w, t) =>
            /\ ResolveEpoch(o, w, t) = path_epochs[t] + 1
            /\ path_epochs'[t] = path_epochs[t] + 1
    BY DEF AcquireLocks, ResolveEpoch
  <1>4. \A t \in Targets : /\ path_epochs[t] \in Nat /\ path_epochs'[t] \in Nat
                            /\ path_epochs[t] <= path_epochs'[t]
    BY DEF AcquireLocks, TypeOK
  <1>5. \A x \in locks' :
            \/ \E t \in T : x = fresh(t)
            \/ /\ x \in locks /\ x \notin stale
               /\ \A t \in T : x \notin RenewedRow(o, w, t)
    BY DEF AcquireLocks
  <1>6. KeyUnique'
    BY <1>5 DEF RenewedRow, TableInv, KeyUnique
  <1>7. Exclusive'
    <2>1. \A x \in locks, t \in T :
              x \notin stale /\ x.owner # o /\ SameWorktree(w, x.worktree)
              => ~PrefixOverlaps(x.target, t)
      BY DEF AcquireLocks, Contending, Refuses, Covers, LockHold
    <2> QED BY <1>5, <2>1, OverlapSymmetric, SameWorktreeSymmetric
            DEF TableInv, Exclusive
  <1>8. EpochsIdentify'
    <2>1. \A x \in locks' : x.epoch \in 1..path_epochs'[x.target]
      BY <1>2, <1>3, <1>4, <1>5 DEF TableInv, EpochsIdentify, TypeOK, Row
    <2>2. \A x \in locks, t \in T :
              (\A u \in T : x \notin RenewedRow(o, w, u)) /\ x.target = t
              => x.epoch # ResolveEpoch(o, w, t)
      BY <1>2, <1>3, <1>4 DEF TableInv, EpochsIdentify, TypeOK, Row
    <2> QED BY <1>5, <2>1, <2>2 DEF TableInv, EpochsIdentify
  <1> QED BY <1>6, <1>7, <1>8 DEF TableInv

------------------------------------------------------------------------------
(* Type correctness, one step per verb. *)

LEMMA RenewalTyped ==
    ASSUME locks \in SUBSET Row, NEW E \in SUBSET locks, NEW e \in Nat,
           locks' = (locks \ E) \union {[r EXCEPT !.expires = e] : r \in E}
    PROVE  locks' \in SUBSET Row
  BY DEF Row

LEMMA CallTyped ==
    ASSUME NEW c \in HookCall, NEW e \in Nat
    PROVE  /\ [c EXCEPT !.state = "dead", !.ended = e] \in HookCall
           /\ [c EXCEPT !.state = "posted", !.missing = FALSE, !.ended = e] \in HookCall
           /\ [c EXCEPT !.missing = TRUE] \in HookCall
PROOF
  <1>1. [c EXCEPT !.state = "dead", !.ended = e] \in HookCall
    BY DEF HookCall
  <1>2. [c EXCEPT !.state = "posted", !.missing = FALSE, !.ended = e] \in HookCall
    BY DEF HookCall
  <1>3. [c EXCEPT !.missing = TRUE] \in HookCall
    BY DEF HookCall
  <1> QED BY <1>1, <1>2, <1>3

(* A redirected break goes to some checkout, for the holds it was told.    *)
LEMMA RedirectKeepsRows ==
    ASSUME TypeOK, NEW rd \in Readers, NEW own \in Worktrees, ExpectedHolderWorktree(rd, own)
    PROVE  \E w \in Worktrees : snapshot' = [snapshot EXCEPT ![rd].worktree = w]
PROOF
  <1> DEFINE snap == snapshot[rd]
             named == {q \in locks : /\ q.target = snap.target
                                     /\ q.worktree # NoWorktree
                                     /\ <<q.owner, q.epoch>> \in HoldRefs(snap.rows)}
             sites == {IF SameWorktree(own, r.worktree) THEN own ELSE r.worktree : r \in named}
  <1>1. PICK w \in sites \union {own} : snapshot' = [snapshot EXCEPT ![rd].worktree = w]
    BY DEF ExpectedHolderWorktree
  <1>2. named \subseteq Row
    BY DEF TypeOK
  <1> HIDE DEF named
  <1>3. sites \subseteq Worktrees
    BY <1>2 DEF Row
  <1> QED BY <1>1, <1>3

LEMMA TypeStep ==
    ASSUME TypeOK, Next
    PROVE  TypeOK'
PROOF
  <1> USE SessionsAssumption, TimesAssumption
  <1>1. CASE Acquire
    <2>1. PICK s \in Sessions, w \in Worktrees, T \in (SUBSET Targets) \ {{}},
               i \in Intents, ttl \in TTLs \union {DegradedModeTTL}, lag \in 0..MaxLag :
                   AcquireLocks(s, w, T, i, ttl, lag)
      BY <1>1 DEF Acquire
    <2>2. \A t \in T : ResolveEpoch(SessionOwner[s], w, t) \in Nat
      <3> TAKE t \in T
      <3>1. CASE Renews(SessionOwner[s], w, t)
        <4>1. PICK r \in RenewedRow(SessionOwner[s], w, t) : ~Stale(r)
          BY <3>1 DEF Renews
        <4>2. (CHOOSE q \in RenewedRow(SessionOwner[s], w, t) : TRUE)
                  \in RenewedRow(SessionOwner[s], w, t)
          BY <4>1
        <4>3. RenewedRow(SessionOwner[s], w, t) \subseteq Row
          BY DEF RenewedRow, TypeOK
        <4> QED BY <3>1, <4>2, <4>3 DEF ResolveEpoch, Row
      <3>2. CASE ~Renews(SessionOwner[s], w, t)
        BY <3>2 DEF ResolveEpoch, TypeOK
      <3> QED BY <3>1, <3>2
    <2>3. now - lag + ttl \in Nat
      BY <2>1 DEF AcquireLocks, TypeOK
    <2>4. locks' \subseteq Row
      BY <2>1, <2>2, <2>3 DEF AcquireLocks, TypeOK, Row
    <2>5. path_epochs' \in [Targets -> Nat]
      BY <2>1 DEF AcquireLocks, TypeOK
    <2>6. audit' \subseteq Event
      BY <2>1 DEF AcquireLocks, Reclaimed, Contending, TypeOK, Row, Event
    <2> QED BY <2>1, <2>4, <2>5, <2>6 DEF AcquireLocks, TypeOK
  <1>2. CASE Release
    <2>1. PICK s \in Sessions, w \in Worktrees, T \in (SUBSET Targets) \ {{}} :
                   ReleaseLocks(s, w, T)
      BY <1>2 DEF Release
    <2>2. audit' \subseteq Event
      BY <2>1 DEF ReleaseLocks, Released, Reclaimed, Holders, TypeOK, Row, Event
    <2> QED BY <2>1, <2>2 DEF ReleaseLocks, TypeOK
  <1>3. CASE ReleaseAll
    BY <1>3 DEF ReleaseAll, ReleaseBySession, Released, TypeOK, Row, Event
  <1>4. CASE Break
    <2>1. PICK s \in Sessions, w \in Worktrees, T \in (SUBSET Targets) \ {{}},
               force \in BOOLEAN : BreakLocks(s, w, T, force)
      BY <1>4 DEF Break
    <2>2. audit' \subseteq Event
      BY <2>1 DEF BreakLocks, Holders, TypeOK, Row, Event
    <2> QED BY <2>1, <2>2 DEF BreakLocks, TypeOK
  <1>5. CASE BreakRead
    <2>1. PICK rd \in Readers :
              \/ \E t \in Targets, w \in Worktrees : ReadHolders(rd, t, w)
              \/ \E own \in Worktrees : ExpectedHolderWorktree(rd, own)
              \/ \E s \in Sessions : BreakAsRead(rd, s)
      BY <1>5 DEF BreakRead
    <2>2. ASSUME NEW t \in Targets, NEW w \in Worktrees, ReadHolders(rd, t, w)
          PROVE  TypeOK'
      BY <2>2 DEF ReadHolders, Holders, Snapshot, TypeOK
    <2>4. ASSUME NEW own \in Worktrees, ExpectedHolderWorktree(rd, own)
          PROVE  TypeOK'
      <3>1. PICK w \in Worktrees : snapshot' = [snapshot EXCEPT ![rd].worktree = w]
        BY <2>4, RedirectKeepsRows
      <3>2. snapshot[rd] \in Snapshot
        BY <2>4 DEF ExpectedHolderWorktree, TypeOK
      <3> DEFINE moved == [snapshot[rd] EXCEPT !.worktree = w]
      <3>3. moved \in Snapshot /\ snapshot' = [snapshot EXCEPT ![rd] = moved]
        BY <3>1, <3>2 DEF Snapshot, TypeOK
      <3> HIDE DEF moved
      <3>4. snapshot' \in [Readers -> Snapshot \union {NoSnapshot}]
        BY <3>3 DEF TypeOK
      <3> QED BY <2>4, <3>4 DEF ExpectedHolderWorktree, TypeOK
    <2>3. ASSUME NEW s \in Sessions, BreakAsRead(rd, s)
          PROVE  TypeOK'
      <3>1. audit' \subseteq Event
        BY <2>3 DEF BreakAsRead, Holders, TypeOK, Row, Event
      <3> QED BY <2>3, <3>1 DEF BreakAsRead, TypeOK
    <2> QED BY <2>1, <2>2, <2>3, <2>4
  <1>6. CASE Refresh
    <2>1. PICK s \in Sessions, w \in Worktrees, T \in (SUBSET Targets) \ {{}},
               ttl \in TTLs : RefreshLocks(s, w, T, ttl)
      BY <1>6 DEF Refresh
    <2> DEFINE extend == {r \in UNION {Holders(t, w) : t \in T} :
                              r.owner = SessionOwner[s] /\ r.expires > now}
    <2>2. extend \in SUBSET locks /\ now + ttl \in Nat
      BY DEF Holders, TypeOK
    <2>3. locks' = (locks \ extend) \union
                   {[r EXCEPT !.expires = now + ttl] : r \in extend}
      BY <2>1 DEF RefreshLocks
    <2> HIDE DEF extend
    <2>4. locks' \in SUBSET Row
      BY <2>2, <2>3, RenewalTyped DEF TypeOK
    <2> QED BY <2>1, <2>4 DEF RefreshLocks, TypeOK
  <1>7. CASE HookPre
    <2>1. PICK c \in CallIds, s \in Sessions, w \in Worktrees,
               d \in Targets \union {NoPath}, lag \in 0..MaxLag :
                   RecordCallPre(c, s, w, d, lag)
      BY <1>7 DEF HookPre
    <2>2. now - lag \in Nat
      BY <2>1 DEF RecordCallPre, TypeOK
    <2>3. locks' \in SUBSET Row
      <3> DEFINE due == BelowHalfTTL(SessionOwner[s], w, {d}, now - lag, now - lag)
      <3>1. due \in SUBSET locks
        BY DEF BelowHalfTTL
      <3>2. locks' = (locks \ due) \union
                     {[r EXCEPT !.expires = now - lag + DegradedModeTTL] : r \in due}
        BY <2>1 DEF RecordCallPre, RefreshCallerLocks
      <3>3. now - lag + DegradedModeTTL \in Nat
        BY <2>2
      <3> HIDE DEF due
      <3> QED BY <3>1, <3>2, <3>3, RenewalTyped DEF TypeOK
    <2>4. [id |-> c, owner |-> SessionOwner[s], session |-> s, worktree |-> w,
           declared |-> d, tpre |-> now - lag, state |-> "open",
           missing |-> FALSE, ended |-> 0] \in HookCall
      BY <2>2 DEF HookCall
    <2>5. calls' \subseteq HookCall
      BY <2>1, <2>4 DEF RecordCallPre, TypeOK
    <2> QED BY <2>1, <2>3, <2>5 DEF RecordCallPre, TypeOK
  <1>8. CASE HookPost
    <2>1. PICK k \in calls, changed \in SUBSET Targets, lag \in 0..MaxLag :
                   RecordCallPost(k, changed, lag)
      BY <1>8 DEF HookPost
    <2>2. now - lag \in Nat
      BY <2>1 DEF RecordCallPost, TypeOK, HookCall
    <2>3. locks' \in SUBSET Row
      <3> DEFINE due == BelowHalfTTL(k.owner, k.worktree, changed, k.tpre, now - lag)
      <3>1. due \in SUBSET locks
        BY DEF BelowHalfTTL
      <3>2. locks' = (locks \ due) \union
                     {[r EXCEPT !.expires = now - lag + DegradedModeTTL] : r \in due}
        BY <2>1 DEF RecordCallPost, RefreshCallerLocks
      <3>3. now - lag + DegradedModeTTL \in Nat
        BY <2>2
      <3> HIDE DEF due
      <3> QED BY <3>1, <3>2, <3>3, RenewalTyped DEF TypeOK
    <2>4. [k EXCEPT !.state = "posted", !.missing = FALSE, !.ended = now - lag]
              \in HookCall
      BY <2>1, <2>2, CallTyped DEF TypeOK
    <2>5. calls' \subseteq HookCall
      BY <2>1, <2>4 DEF RecordCallPost, TypeOK
    <2> QED BY <2>1, <2>3, <2>5 DEF RecordCallPost, TypeOK
  <1>9. CASE Sweep
    <2>1. PICK lag \in 0..MaxLag :
              /\ lag <= now
              /\ \/ MarkDeadOwnerCalls(now - lag)
                 \/ MarkPostMissing(now - lag)
                 \/ DropFinishedCalls(now - lag)
      BY <1>9 DEF Sweep
    <2>2. now - lag \in Nat
      BY <2>1 DEF TypeOK
    <2>3. CASE MarkDeadOwnerCalls(now - lag)
      <3> DEFINE at == now - lag
                 dead == {c \in calls : /\ c.state = "open"
                                        /\ \/ at > c.tpre + InFlightMaxAge
                                           \/ probe[c.session] = "dead"}
      <3>1. calls' = (calls \ dead) \union
                     {[c EXCEPT !.state = "dead", !.ended = at] : c \in dead}
        BY <2>3 DEF MarkDeadOwnerCalls
      <3>2. dead \subseteq HookCall /\ at \in Nat
        BY <2>2 DEF TypeOK
      <3> HIDE DEF dead, at
      <3>3. \A c \in dead : [c EXCEPT !.state = "dead", !.ended = at] \in HookCall
        BY <3>2, CallTyped
      <3>4. calls' \subseteq HookCall
        BY <3>1, <3>3, Zenon DEF TypeOK
      <3> QED BY <2>3, <3>4 DEF MarkDeadOwnerCalls, TypeOK
    <2>4. CASE MarkPostMissing(now - lag)
      <3>1. calls' \subseteq HookCall
        BY <2>2, <2>4, CallTyped DEF MarkPostMissing, TypeOK
      <3> QED BY <2>4, <3>1 DEF MarkPostMissing, TypeOK
    <2>5. CASE DropFinishedCalls(now - lag)
      BY <2>5 DEF DropFinishedCalls, TypeOK
    <2> QED BY <2>1, <2>3, <2>4, <2>5
  <1>10. CASE Claim
    <2>1. PICK k \in CandidateIds :
              \/ ReleaseCandidateClaims(k)
              \/ \E s \in Sessions, P \in (SUBSET Targets) \ {{}} :
                     \E epochs \in [P -> 1..MaxEpoch], lag \in 0..MaxLag :
                         InsertCandidateClaims(k, s, epochs, lag)
      BY <1>10 DEF Claim
    <2>2. CASE ReleaseCandidateClaims(k)
      BY <2>2 DEF ReleaseCandidateClaims, TypeOK
    <2>3. ASSUME NEW s \in Sessions, NEW P \in (SUBSET Targets) \ {{}},
                 NEW epochs \in [P -> 1..MaxEpoch], NEW lag \in 0..MaxLag,
                 InsertCandidateClaims(k, s, epochs, lag)
          PROVE  TypeOK'
      <3>1. now - lag \in Nat
        BY <2>3 DEF InsertCandidateClaims, TypeOK
      <3>2. claims' \subseteq CandidateClaim
        BY <2>3, <3>1 DEF InsertCandidateClaims, TypeOK, CandidateClaim
      <3> QED BY <2>3, <3>2 DEF InsertCandidateClaims, TypeOK
    <2> QED BY <2>1, <2>2, <2>3
  <1>11. CASE Doctor
    BY <1>11 DEF Doctor, DoctorRepair, Reclaimed, TypeOK, Row, Event
  <1>12. CASE \E s \in Sessions : SessionDies(s)
    BY <1>12 DEF SessionDies, TypeOK, Liveness
  <1>13. CASE Tick
    BY <1>13 DEF Tick, TypeOK
  <1> QED
    BY <1>1, <1>2, <1>3, <1>4, <1>5, <1>6, <1>7, <1>8, <1>9, <1>10, <1>11, <1>12,
       <1>13 DEF Next

(* Every value the store, the clock and the hooks write has its column's   *)
(* type, in every behaviour of the store.                                  *)
THEOREM TypeCorrect == Spec => []TypeOK
PROOF
  <1>1. Init => TypeOK
    BY DEF Init, TypeOK, Liveness
  <1>2. TypeOK /\ UNCHANGED vars => TypeOK'
    BY DEF vars, TypeOK
  <1> QED BY <1>1, <1>2, TypeStep, PTL DEF Spec

------------------------------------------------------------------------------
(* Seen from the lock table every verb is one of three kinds of step. *)

Shrinks == locks' \subseteq locks /\ UNCHANGED path_epochs

(* An extended lease ends in the future, also when the clock was read a    *)
(* flock wait ago.                                                         *)
Extends ==
    \E E \in SUBSET locks, e \in Nat :
        /\ now < e
        /\ locks' = (locks \ E) \union {[r EXCEPT !.expires = e] : r \in E}
        /\ UNCHANGED path_epochs

LEMMA ExtendingVerbs ==
    ASSUME TypeOK, Refresh \/ HookPre \/ HookPost
    PROVE  Extends
PROOF
  <1> USE SessionsAssumption, TimesAssumption, LeaseAssumption
  <1>1. CASE Refresh
    <2>1. PICK s \in Sessions, w \in Worktrees, T \in (SUBSET Targets) \ {{}},
               ttl \in TTLs : RefreshLocks(s, w, T, ttl)
      BY <1>1 DEF Refresh
    <2> DEFINE extend == {r \in UNION {Holders(t, w) : t \in T} :
                              r.owner = SessionOwner[s] /\ r.expires > now}
    <2>2. extend \in SUBSET locks /\ now + ttl \in Nat /\ now < now + ttl
      BY DEF Holders, TypeOK
    <2>3. /\ locks' = (locks \ extend) \union
                      {[r EXCEPT !.expires = now + ttl] : r \in extend}
          /\ UNCHANGED path_epochs
      BY <2>1 DEF RefreshLocks
    <2> HIDE DEF extend
    <2> QED BY <2>2, <2>3 DEF Extends
  <1>2. CASE HookPre
    <2>1. PICK c \in CallIds, s \in Sessions, w \in Worktrees,
               d \in Targets \union {NoPath}, lag \in 0..MaxLag :
                   RecordCallPre(c, s, w, d, lag)
      BY <1>2 DEF HookPre
    <2> DEFINE due == BelowHalfTTL(SessionOwner[s], w, {d}, now - lag, now - lag)
               end == now - lag + DegradedModeTTL
    <2>2. due \in SUBSET locks
      BY DEF BelowHalfTTL
    <2>3. end \in Nat /\ now < end
      BY <2>1 DEF RecordCallPre, TypeOK
    <2>4. /\ locks' = (locks \ due) \union {[r EXCEPT !.expires = end] : r \in due}
          /\ UNCHANGED path_epochs
      BY <2>1 DEF RecordCallPre, RefreshCallerLocks
    <2> HIDE DEF due, end
    <2> QED BY <2>2, <2>3, <2>4 DEF Extends
  <1>3. CASE HookPost
    <2>1. PICK k \in calls, changed \in SUBSET Targets, lag \in 0..MaxLag :
                   RecordCallPost(k, changed, lag)
      BY <1>3 DEF HookPost
    <2> DEFINE due == BelowHalfTTL(k.owner, k.worktree, changed, k.tpre, now - lag)
               end == now - lag + DegradedModeTTL
    <2>2. due \in SUBSET locks
      BY DEF BelowHalfTTL
    <2>3. end \in Nat /\ now < end
      BY <2>1 DEF RecordCallPost, TypeOK, HookCall
    <2>4. /\ locks' = (locks \ due) \union {[r EXCEPT !.expires = end] : r \in due}
          /\ UNCHANGED path_epochs
      BY <2>1 DEF RecordCallPost, RefreshCallerLocks
    <2> HIDE DEF due, end
    <2> QED BY <2>2, <2>3, <2>4 DEF Extends
  <1> QED BY <1>1, <1>2, <1>3

LEMMA StepKinds ==
    ASSUME TypeOK, Next
    PROVE  Acquire \/ Shrinks \/ Extends
PROOF
  <1>1. CASE Release \/ ReleaseAll \/ Break
    BY <1>1 DEF Release, ReleaseLocks, ReleaseAll, ReleaseBySession,
                Break, BreakLocks, Shrinks
  <1>2. CASE BreakRead
    BY <1>2 DEF BreakRead, ReadHolders, ExpectedHolderWorktree, BreakAsRead, Shrinks
  <1>3. CASE Refresh \/ HookPre \/ HookPost
    BY <1>3, ExtendingVerbs
  <1>4. CASE Sweep
    BY <1>4 DEF Sweep, MarkDeadOwnerCalls, MarkPostMissing, DropFinishedCalls, Shrinks
  <1>5. CASE Claim
    BY <1>5 DEF Claim, ReleaseCandidateClaims, InsertCandidateClaims, Shrinks
  <1>6. CASE Doctor
    BY <1>6 DEF Doctor, DoctorRepair, Shrinks
  <1>7. CASE (\E s \in Sessions : SessionDies(s)) \/ Tick
    BY <1>7 DEF SessionDies, Tick, Shrinks
  <1> QED BY <1>1, <1>2, <1>3, <1>4, <1>5, <1>6, <1>7 DEF Next

------------------------------------------------------------------------------
(* The lock table. *)

LEMMA TableStep ==
    ASSUME TypeOK, TableInv, Next
    PROVE  TableInv'
PROOF
  <1>1. CASE Acquire
    BY <1>1, AcquirePreserves DEF Acquire
  <1>2. CASE Shrinks
    BY <1>2, ShrinkPreserves DEF Shrinks
  <1>3. CASE Extends
    BY <1>3, RenewalPreserves DEF Extends
  <1> QED BY <1>1, <1>2, <1>3, StepKinds

LEMMA TableCorrect == Spec => [](TypeOK /\ TableInv)
PROOF
  <1>1. Init => TypeOK /\ TableInv
    BY DEF Init, TypeOK, Liveness, TableInv, KeyUnique, Exclusive, EpochsIdentify
  <1>2. TypeOK /\ TableInv /\ [Next]_vars => (TypeOK /\ TableInv)'
    <2>1. CASE UNCHANGED vars
      BY <2>1 DEF vars, TypeOK, TableInv, KeyUnique, Exclusive, EpochsIdentify
    <2> QED BY <2>1, TypeStep, TableStep
  <1> QED BY <1>1, <1>2, PTL DEF Spec

(* Overlapping targets of one checkout never have rows of two owners, for  *)
(* any number of agents, checkouts and nested paths (Exclusive).           *)
THEOREM MutualExclusion == Spec => []Exclusive
  BY TableCorrect, PTL DEF TableInv

(* owner@epoch names at most one row of a path, across owners and          *)
(* checkouts (EpochsIdentify).                                             *)
THEOREM EpochIdentity == Spec => []EpochsIdentify
  BY TableCorrect, PTL DEF TableInv

------------------------------------------------------------------------------
(* Epochs as fencing tokens. *)

(* What a reader saw never runs ahead of the path's counter. *)
SnapshotsBounded ==
    \A rd \in Readers : snapshot[rd] # NoSnapshot =>
        \A r \in snapshot[rd].rows :
            r \in Row /\ r.epoch <= path_epochs[r.target]

(* A row after a step either carries an epoch no earlier row of its path   *)
(* ever had, or continues a row from before the step.                      *)
LEMMA Lineage ==
    ASSUME TypeOK, TableInv, Next
    PROVE  /\ \A t \in Targets : path_epochs[t] <= path_epochs'[t]
           /\ \A x \in locks' :
                  \/ x.epoch > path_epochs[x.target]
                  \/ \E y \in locks :
                        /\ y.target = x.target /\ y.epoch = x.epoch
                        /\ y.owner = x.owner
                        /\ y.worktree \in {x.worktree, NoWorktree}
PROOF
  <1>1. CASE Shrinks
    BY <1>1 DEF Shrinks, TypeOK
  <1>2. CASE Extends
    BY <1>2 DEF Extends, TypeOK, Row
  <1>3. CASE Acquire
    <2>1. PICK s \in Sessions, w \in Worktrees, T \in (SUBSET Targets) \ {{}},
               i \in Intents, ttl \in TTLs \union {DegradedModeTTL}, lag \in 0..MaxLag :
                   AcquireLocks(s, w, T, i, ttl, lag)
      BY <1>3 DEF Acquire
    <2> DEFINE o == SessionOwner[s]
    <2>2. \A t \in Targets : path_epochs[t] <= path_epochs'[t]
      BY <2>1 DEF AcquireLocks, TypeOK
    <2>3. \A t \in T : ~Renews(o, w, t) => ResolveEpoch(o, w, t) > path_epochs[t]
      BY DEF ResolveEpoch, TypeOK
    <2>4. \A t \in T : Renews(o, w, t) =>
              \E y \in locks : /\ y.target = t /\ y.owner = o
                               /\ y.epoch = ResolveEpoch(o, w, t)
                               /\ y.worktree \in {w, NoWorktree}
      <3> SUFFICES ASSUME NEW t \in T, Renews(o, w, t)
                   PROVE  \E y \in locks : /\ y.target = t /\ y.owner = o
                                           /\ y.epoch = ResolveEpoch(o, w, t)
                                           /\ y.worktree \in {w, NoWorktree}
        OBVIOUS
      <3> DEFINE y == CHOOSE r \in RenewedRow(o, w, t) : TRUE
      <3>1. y \in RenewedRow(o, w, t)
        BY DEF Renews
      <3>2. y.epoch = ResolveEpoch(o, w, t)
        BY DEF ResolveEpoch
      <3> HIDE DEF y
      <3> QED BY <3>1, <3>2 DEF RenewedRow
    <2>5. \A x \in locks' :
              \/ x \in locks
              \/ \E t \in T : /\ x.target = t /\ x.owner = o /\ x.worktree = w
                              /\ x.epoch = ResolveEpoch(o, w, t)
      BY <2>1 DEF AcquireLocks
    <2> HIDE DEF o
    <2> QED BY <2>2, <2>3, <2>4, <2>5
  <1> QED BY <1>1, <1>2, <1>3, StepKinds

LEMMA SnapshotStep ==
    ASSUME TypeOK, Next
    PROVE  \A rd \in Readers :
               \/ snapshot'[rd] = snapshot[rd]
               \/ snapshot'[rd] = NoSnapshot
               \/ /\ snapshot[rd] # NoSnapshot
                  /\ snapshot'[rd].rows = snapshot[rd].rows
               \/ /\ snapshot'[rd].rows \subseteq locks
                  /\ UNCHANGED <<locks, path_epochs>>
PROOF
  <1>1. CASE BreakRead
    <2>1. PICK x \in Readers :
              \/ \E t \in Targets, w \in Worktrees : ReadHolders(x, t, w)
              \/ \E own \in Worktrees : ExpectedHolderWorktree(x, own)
              \/ \E s \in Sessions : BreakAsRead(x, s)
      BY <1>1 DEF BreakRead
    <2>2. ASSUME NEW own \in Worktrees, ExpectedHolderWorktree(x, own), NEW rd \in Readers
          PROVE  \/ snapshot'[rd] = snapshot[rd]
                 \/ snapshot[rd] # NoSnapshot /\ snapshot'[rd].rows = snapshot[rd].rows
      <3>1. PICK w \in Worktrees : snapshot' = [snapshot EXCEPT ![x].worktree = w]
        BY <2>2, RedirectKeepsRows
      <3>2. snapshot[x] # NoSnapshot /\ snapshot[x] \in Snapshot
        BY <2>2 DEF ExpectedHolderWorktree, TypeOK
      <3>3. [snapshot[x] EXCEPT !.worktree = w].rows = snapshot[x].rows
        BY <3>2 DEF Snapshot
      <3> QED BY <3>1, <3>2, <3>3 DEF TypeOK
    <2>3. CASE \E t \in Targets, w \in Worktrees : ReadHolders(x, t, w)
      BY <2>3 DEF ReadHolders, Holders, TypeOK
    <2>4. CASE \E s \in Sessions : BreakAsRead(x, s)
      BY <2>4 DEF BreakAsRead, TypeOK
    <2> QED BY <2>1, <2>2, <2>3, <2>4
  <1>2. CASE Acquire
    <2>1. PICK s \in Sessions, w \in Worktrees, T \in (SUBSET Targets) \ {{}},
               i \in Intents, ttl \in TTLs \union {DegradedModeTTL}, lag \in 0..MaxLag :
                   AcquireLocks(s, w, T, i, ttl, lag)
      BY <1>2 DEF Acquire
    <2>2. UNCHANGED snapshot
      BY <2>1 DEF AcquireLocks
    <2> QED BY <2>2
  <1>3. CASE Release \/ ReleaseAll
    BY <1>3 DEF Release, ReleaseLocks, ReleaseAll, ReleaseBySession
  <1>4. CASE Break \/ Refresh
    BY <1>4 DEF Break, BreakLocks, Refresh, RefreshLocks
  <1>5. CASE HookPre \/ HookPost \/ Sweep
    BY <1>5 DEF HookPre, RecordCallPre, HookPost, RecordCallPost, Sweep,
                MarkDeadOwnerCalls, MarkPostMissing, DropFinishedCalls
  <1>6. CASE Claim \/ Doctor
    BY <1>6 DEF Claim, InsertCandidateClaims, ReleaseCandidateClaims,
                Doctor, DoctorRepair
  <1>7. CASE (\E s \in Sessions : SessionDies(s)) \/ Tick
    BY <1>7 DEF SessionDies, Tick
  <1> QED BY <1>1, <1>2, <1>3, <1>4, <1>5, <1>6, <1>7 DEF Next

(* A hold granted after a reader looked never answers to the owner@epoch   *)
(* the reader saw (EpochNamesTenure): epochs are never handed out twice.   *)
THEOREM FencingTokens == Spec => []EpochNamesTenure
PROOF
  <1> DEFINE FenceInv == TypeOK /\ TableInv /\ SnapshotsBounded /\ EpochNamesTenure
  <1>1. Init => FenceInv
    BY DEF Init, TypeOK, Liveness, TableInv, KeyUnique, Exclusive, EpochsIdentify,
           SnapshotsBounded, EpochNamesTenure
  <1>2. ASSUME FenceInv, Next PROVE FenceInv'
    <2>1. TypeOK' /\ TableInv'
      BY <1>2, TypeStep, TableStep
    <2>2. SnapshotsBounded'
      <3> SUFFICES ASSUME NEW rd \in Readers, snapshot'[rd] # NoSnapshot,
                          NEW r \in snapshot'[rd].rows
                   PROVE  r \in Row /\ r.epoch <= path_epochs'[r.target]
        BY DEF SnapshotsBounded
      <3>1. CASE snapshot[rd] # NoSnapshot /\ snapshot'[rd].rows = snapshot[rd].rows
        <4>1. r \in Row /\ r.epoch <= path_epochs[r.target]
          BY <1>2, <3>1 DEF SnapshotsBounded
        <4>2. /\ path_epochs[r.target] <= path_epochs'[r.target]
              /\ r.epoch \in Nat /\ path_epochs[r.target] \in Nat
              /\ path_epochs'[r.target] \in Nat
          BY <1>2, <2>1, <4>1, Lineage DEF Row, TypeOK
        <4> QED BY <4>1, <4>2
      <3>2. CASE r \in locks /\ UNCHANGED <<locks, path_epochs>>
        BY <1>2, <3>2 DEF TypeOK, Row, TableInv, EpochsIdentify
      <3> QED BY <1>2, <3>1, <3>2, SnapshotStep
    <2>3. EpochNamesTenure'
      BY <1>2, Lineage, SnapshotStep
         DEF SnapshotsBounded, EpochNamesTenure, TypeOK, Row, TableInv, EpochsIdentify
    <2> QED BY <2>1, <2>2, <2>3
  <1>3. FenceInv /\ UNCHANGED vars => FenceInv'
    BY DEF vars, TypeOK, TableInv, KeyUnique, Exclusive, EpochsIdentify,
           SnapshotsBounded, EpochNamesTenure
  <1> QED BY <1>1, <1>2, <1>3, PTL DEF Spec

------------------------------------------------------------------------------
(* Claims. *)

LEMMA ClaimStep ==
    ASSUME TypeOK, TableInv, ClaimExcludesPeerLease, Next
    PROVE  ClaimExcludesPeerLease'
PROOF
  <1> SUFFICES ASSUME \A v, w \in Worktrees : SameWorktree(v, w)
               PROVE  \A c \in claims', r \in locks' : r.target = c.path => r.owner = c.owner
    BY DEF ClaimExcludesPeerLease
  <1>1. \A c \in claims, r \in locks : r.target = c.path => r.owner = c.owner
    BY DEF ClaimExcludesPeerLease
  <1>2. CASE Acquire
    <2>1. PICK s \in Sessions, w \in Worktrees, T \in (SUBSET Targets) \ {{}},
               i \in Intents, ttl \in TTLs \union {DegradedModeTTL}, lag \in 0..MaxLag :
                   AcquireLocks(s, w, T, i, ttl, lag)
      BY <1>2 DEF Acquire
    <2>2. \A x \in locks' : x \in locks \/ x.target \in T
      BY <2>1 DEF AcquireLocks
    <2>3. claims' = claims /\ ~BlockedByClaim(T)
      BY <2>1 DEF AcquireLocks
    <2> QED BY <1>1, <2>2, <2>3 DEF BlockedByClaim
  <1>3. CASE Claim
    <2>1. PICK k \in CandidateIds :
              \/ ReleaseCandidateClaims(k)
              \/ \E s \in Sessions, P \in (SUBSET Targets) \ {{}} :
                     \E epochs \in [P -> 1..MaxEpoch], lag \in 0..MaxLag :
                         InsertCandidateClaims(k, s, epochs, lag)
      BY <1>3 DEF Claim
    <2>2. CASE ReleaseCandidateClaims(k)
      BY <1>1, <2>2 DEF ReleaseCandidateClaims
    <2>3. ASSUME NEW s \in Sessions, NEW P \in (SUBSET Targets) \ {{}},
                 NEW epochs \in [P -> 1..MaxEpoch], NEW lag \in 0..MaxLag,
                 InsertCandidateClaims(k, s, epochs, lag)
          PROVE  \A c \in claims', r \in locks' : r.target = c.path => r.owner = c.owner
      <3>1. \A c \in claims' : c \in claims \/ (c.path \in P /\ c.owner = SessionOwner[s])
        BY <2>3 DEF InsertCandidateClaims
      <3>2. \A p \in P : \E q \in locks : q.owner = SessionOwner[s] /\ q.target = p
        BY <2>3 DEF InsertCandidateClaims, LeasesHold
      <3>3. \A r, q \in locks : r.target = q.target => r.owner = q.owner
        BY DEF TableInv, Exclusive, PrefixOverlaps, TypeOK, Row
      <3>4. locks' = locks
        BY <2>3 DEF InsertCandidateClaims
      <3> QED BY <1>1, <3>1, <3>2, <3>3, <3>4
    <2> QED BY <2>1, <2>2, <2>3
  <1>4. CASE ~Acquire /\ ~Claim
    <2>1. claims' \subseteq claims
      <3>1. CASE Release \/ ReleaseAll \/ Break \/ BreakRead
        BY <3>1 DEF Release, ReleaseLocks, ReleaseAll, ReleaseBySession, Break, BreakLocks,
                    BreakRead, ReadHolders, ExpectedHolderWorktree, BreakAsRead
      <3>2. CASE Refresh \/ HookPre \/ HookPost
        BY <3>2 DEF Refresh, RefreshLocks, HookPre, RecordCallPre, HookPost, RecordCallPost
      <3>3. CASE Sweep \/ Doctor
        BY <3>3 DEF Sweep, MarkDeadOwnerCalls, MarkPostMissing, DropFinishedCalls,
                    Doctor, DoctorRepair
      <3>4. CASE (\E s \in Sessions : SessionDies(s)) \/ Tick
        BY <3>4 DEF SessionDies, Tick
      <3> QED BY <1>4, <3>1, <3>2, <3>3, <3>4 DEF Next
    <2>2. \A x \in locks' : \E y \in locks : y.target = x.target /\ y.owner = x.owner
      <3>1. CASE Shrinks
        BY <3>1 DEF Shrinks
      <3>2. CASE Extends
        BY <3>2 DEF Extends, TypeOK, Row
      <3> QED BY <1>4, <3>1, <3>2, StepKinds
    <2> QED BY <1>1, <2>1, <2>2
  <1> QED BY <1>2, <1>3, <1>4

(* Within one checkout a peer never has a lease on the path of a candidate *)
(* that is not resolved, as revalidateClaimLeasesTx argues: it is inserted *)
(* beside its owner's lease, and blockOnCandidateClaims grants none after. *)
THEOREM ClaimsExclude == Spec => []ClaimExcludesPeerLease
PROOF
  <1>1. Init => ClaimExcludesPeerLease
    BY DEF Init, ClaimExcludesPeerLease
  <1>2. TypeOK /\ TableInv /\ ClaimExcludesPeerLease /\ [Next]_vars => ClaimExcludesPeerLease'
    <2>1. ASSUME ClaimExcludesPeerLease, UNCHANGED vars PROVE ClaimExcludesPeerLease'
      BY <2>1 DEF vars, ClaimExcludesPeerLease
    <2> QED BY <2>1, ClaimStep
  <1> QED BY <1>1, <1>2, TableCorrect, PTL DEF Spec

------------------------------------------------------------------------------
(* What a step may do to a hold. *)

(* Every row keeps a row of its epoch when leases are only extended. *)
LEMMA ExtendingLosesNone ==
    ASSUME TypeOK, Extends, NEW r \in locks
    PROVE  ~Lost(r)
PROOF
  <1>1. PICK E \in SUBSET locks, e \in Nat :
            locks' = (locks \ E) \union {[x EXCEPT !.expires = e] : x \in E}
    BY DEF Extends
  <1>2. CASE r \in E
    <2>1. [r EXCEPT !.expires = e] \in locks'
      BY <1>1, <1>2
    <2>2. [r EXCEPT !.expires = e].target = r.target /\ [r EXCEPT !.expires = e].epoch = r.epoch
      BY DEF TypeOK, Row
    <2> QED BY <2>1, <2>2 DEF Lost, SameRow
  <1>3. CASE r \notin E
    BY <1>1, <1>3 DEF Lost, SameRow
  <1> QED BY <1>2, <1>3

LEMMA KeptIsNotLost ==
    ASSUME NEW r \in locks, r \in locks'
    PROVE  ~Lost(r)
  BY DEF Lost, SameRow

(* The row is told of in the step's events, as released or broken unless   *)
(* it was stale.                                                           *)
Told(r) ==
    \E e \in audit' :
        /\ e.target = r.target /\ e.subject = r.owner
        /\ e.kind \in {"lock_released", "lock_broken"} \/ Stale(r)

LEMMA EventTells ==
    ASSUME NEW r, NEW o, NEW k,
           [kind |-> k, target |-> r.target, actor |-> o, subject |-> r.owner] \in audit',
           k \in {"lock_released", "lock_broken"} \/ Stale(r)
    PROVE  Told(r)
PROOF
  <1> DEFINE e == [kind |-> k, target |-> r.target, actor |-> o, subject |-> r.owner]
  <1>1. e.target = r.target /\ e.subject = r.owner /\ e.kind = k /\ e \in audit'
    OBVIOUS
  <1> HIDE DEF e
  <1> QED BY <1>1 DEF Told

(* A verb that deletes rows leaves an event for each. *)
LEMMA DeletionTold ==
    ASSUME Release \/ ReleaseAll \/ Break \/ BreakRead \/ Doctor,
           NEW r \in locks, r \notin locks'
    PROVE  Told(r)
PROOF
  <1>1. CASE Release
    <2>1. PICK s \in Sessions, w \in Worktrees, T \in (SUBSET Targets) \ {{}} :
                   ReleaseLocks(s, w, T)
      BY <1>1 DEF Release
    <2> DEFINE o == SessionOwner[s]
               owned == {t \in T : \E x \in Holders(t, w) : x.owner = o}
               reclaims == UNION {Holders(t, w) : t \in
                               {u \in T \ owned : \A x \in Holders(u, w) : Stale(x)}}
               deleted == {x \in UNION {Holders(t, w) : t \in owned} : x.owner = o}
    <2>2. locks' = locks \ (deleted \union reclaims)
          /\ audit' = Released(owned, o) \union Reclaimed(reclaims, o)
      BY <2>1 DEF ReleaseLocks
    <2>3. \A x \in deleted : x.owner = o /\ x.target \in owned
      BY DEF Holders
    <2>4. \A x \in reclaims : Stale(x)
      OBVIOUS
    <2> HIDE DEF reclaims, deleted, owned, o
    <2>5. CASE r \in deleted
      <3>1. [kind |-> "lock_released", target |-> r.target, actor |-> o, subject |-> r.owner]
                \in audit'
        BY <2>2, <2>3, <2>5 DEF Released
      <3> QED BY <3>1, EventTells
    <2>6. CASE r \in reclaims
      <3>1. [kind |-> "lock_reclaimed_stale", target |-> r.target, actor |-> o,
             subject |-> r.owner] \in audit'
        BY <2>2, <2>6 DEF Reclaimed
      <3> QED BY <2>4, <2>6, <3>1, EventTells
    <2> QED BY <2>2, <2>5, <2>6
  <1>2. CASE ReleaseAll
    <2>1. PICK s \in Sessions, pinned \in BOOLEAN, only \in Intents \union {AnyIntent} :
              ReleaseBySession(s, pinned, only)
      BY <1>2 DEF ReleaseAll
    <2>2. [kind |-> "lock_released", target |-> r.target, actor |-> SessionOwner[s],
           subject |-> r.owner] \in audit'
      BY <2>1 DEF ReleaseBySession, Released
    <2> QED BY <2>2, EventTells
  <1>3. CASE Break
    <2>1. PICK s \in Sessions, w \in Worktrees, T \in (SUBSET Targets) \ {{}},
               force \in BOOLEAN : BreakLocks(s, w, T, force)
      BY <1>3 DEF Break
    <2> DEFINE kind == IF force THEN "lock_broken" ELSE "lock_reclaimed_stale"
    <2>2. [kind |-> kind, target |-> r.target, actor |-> SessionOwner[s],
           subject |-> r.owner] \in audit'
      BY <2>1 DEF BreakLocks
    <2>3. kind = "lock_broken" \/ Stale(r)
      BY <2>1 DEF BreakLocks, AuthorizeHolders
    <2> HIDE DEF kind
    <2> QED BY <2>2, <2>3, EventTells
  <1>4. CASE BreakRead
    <2>1. PICK rd \in Readers, s \in Sessions : BreakAsRead(rd, s)
      BY <1>4 DEF BreakRead, ReadHolders, ExpectedHolderWorktree
    <2>2. [kind |-> "lock_broken", target |-> r.target, actor |-> SessionOwner[s],
           subject |-> r.owner] \in audit'
      BY <2>1 DEF BreakAsRead
    <2> QED BY <2>2, EventTells
  <1>5. CASE Doctor
    <2>1. PICK s \in Sessions, promotable \in SUBSET CandidateIds : DoctorRepair(s, promotable)
      BY <1>5 DEF Doctor
    <2>2. Stale(r) /\ [kind |-> "lock_reclaimed_stale", target |-> r.target,
                       actor |-> SessionOwner[s], subject |-> r.owner] \in audit'
      BY <2>1 DEF DoctorRepair, Reclaimed
    <2> QED BY <2>2, EventTells
  <1> QED BY <1>1, <1>2, <1>3, <1>4, <1>5

(* What a grant does to the rows it deletes: a stale peer is told of, and  *)
(* the owner's own row gives way to the new one.                           *)
LEMMA GrantDeletes ==
    ASSUME NEW s, NEW w, NEW T, NEW i, NEW ttl, NEW lag,
           AcquireLocks(s, w, T, i, ttl, lag), NEW r \in locks, r \notin locks'
    PROVE  \/ Told(r) /\ Stale(r)
           \/ /\ r.owner = SessionOwner[s] /\ r.target \in T /\ r.worktree \in {w, NoWorktree}
              /\ \E q \in locks' : /\ q.target = r.target /\ q.owner = r.owner /\ q.worktree = w
                                   /\ q.expires = now - lag + ttl
                                   /\ q.epoch = ResolveEpoch(q.owner, w, q.target)
PROOF
  <1> DEFINE o == SessionOwner[s]
             stale == {x \in Contending(o, w, T) : Stale(x)}
             fresh(t) == [target |-> t, owner |-> o, session |-> s, worktree |-> w,
                          intent |-> i, expires |-> now - lag + ttl,
                          epoch |-> ResolveEpoch(o, w, t)]
  <1>1. r \in stale \/ \E t \in T : r \in RenewedRow(o, w, t)
    BY DEF AcquireLocks
  <1>2. CASE r \in stale
    <2>1. [kind |-> "lock_reclaimed_stale", target |-> r.target, actor |-> o,
           subject |-> r.owner] \in audit'
      BY <1>2 DEF AcquireLocks, Reclaimed
    <2> QED BY <1>2, <2>1, EventTells
  <1>3. ASSUME NEW t \in T, r \in RenewedRow(o, w, t)
        PROVE  /\ r.owner = o /\ r.target \in T /\ r.worktree \in {w, NoWorktree}
               /\ \E q \in locks' : /\ q.target = r.target /\ q.owner = r.owner /\ q.worktree = w
                                    /\ q.expires = now - lag + ttl
                                    /\ q.epoch = ResolveEpoch(q.owner, w, q.target)
    <2>1. r.owner = o /\ r.target = t /\ r.worktree \in {w, NoWorktree}
      BY <1>3 DEF RenewedRow
    <2>2. fresh(t) \in locks'
      BY DEF AcquireLocks
    <2>3. fresh(t).target = t /\ fresh(t).owner = o /\ fresh(t).worktree = w
          /\ fresh(t).expires = now - lag + ttl /\ fresh(t).epoch = ResolveEpoch(o, w, t)
      OBVIOUS
    <2> HIDE DEF fresh
    <2> QED BY <2>1, <2>2, <2>3
  <1> QED BY <1>1, <1>2, <1>3

(* The verbs that touch no lock row. *)
LEMMA RowsUntouched ==
    ASSUME Sweep \/ Claim \/ (\E s \in Sessions : SessionDies(s)) \/ Tick \/ UNCHANGED vars
    PROVE  locks' = locks
  BY DEF Sweep, MarkDeadOwnerCalls, MarkPostMissing, DropFinishedCalls, Claim,
         ReleaseCandidateClaims, InsertCandidateClaims, SessionDies, Tick, vars

LEMMA DispossessionStep ==
    ASSUME TypeOK, [Next]_vars, NEW r \in locks, Lost(r),
           \A q \in locks' : r.target = q.target => r.owner # q.owner
    PROVE  \E e \in audit' : e.target = r.target /\ e.subject = r.owner
PROOF
  <1>1. r \notin locks' /\ ~Extends
    BY KeptIsNotLost, ExtendingLosesNone
  <1>2. CASE Acquire
    <2>1. PICK s \in Sessions, w \in Worktrees, T \in (SUBSET Targets) \ {{}},
               i \in Intents, ttl \in TTLs \union {DegradedModeTTL}, lag \in 0..MaxLag :
                   AcquireLocks(s, w, T, i, ttl, lag)
      BY <1>2 DEF Acquire
    <2>2. Told(r) \/ \E q \in locks' : q.target = r.target /\ q.owner = r.owner
      BY <1>1, <2>1, GrantDeletes
    <2> QED BY <2>2 DEF Told
  <1>3. CASE Release \/ ReleaseAll \/ Break \/ BreakRead \/ Doctor
    BY <1>1, <1>3, DeletionTold DEF Told
  <1>4. CASE Refresh \/ HookPre \/ HookPost
    BY <1>1, <1>4, ExtendingVerbs
  <1>5. CASE Sweep \/ Claim \/ (\E s \in Sessions : SessionDies(s)) \/ Tick \/ UNCHANGED vars
    BY <1>1, <1>5, RowsUntouched
  <1> QED BY <1>2, <1>3, <1>4, <1>5 DEF Next

(* Nobody's hold ends without an event that names its target and holder,   *)
(* whichever of the verbs that delete rows ends it; a hold that is granted *)
(* to its own owner again has not ended.                                   *)
THEOREM DispossessionIsTold == Spec => NoSilentDispossession
PROOF
  <1> DEFINE A == \A r \in locks :
                      Lost(r) /\ (\A q \in locks' : r.target = q.target => r.owner # q.owner)
                      => \E e \in audit' : e.target = r.target /\ e.subject = r.owner
  <1>1. TypeOK /\ [Next]_vars => A
    BY DispossessionStep
  <1> HIDE DEF A
  <1>2. TypeOK /\ [Next]_vars => [A]_vars
    BY <1>1
  <1>3. Spec => [][A]_vars
    BY <1>2, TypeCorrect, PTL DEF Spec
  <1> QED BY <1>3 DEF NoSilentDispossession, A

------------------------------------------------------------------------------
(* Tool calls. *)

(* The primary key of hook_calls, and a clock that was read in the past. *)
CallsInv ==
    /\ \A c, k \in calls : c.id = k.id => c = k
    /\ \A c \in calls : c.tpre <= now

LEMMA CallRewritten ==
    ASSUME NEW c \in HookCall, NEW e \in Nat
    PROVE  /\ [c EXCEPT !.state = "dead", !.ended = e].id = c.id
           /\ [c EXCEPT !.state = "dead", !.ended = e].tpre = c.tpre
           /\ [c EXCEPT !.state = "posted", !.missing = FALSE, !.ended = e].id = c.id
           /\ [c EXCEPT !.state = "posted", !.missing = FALSE, !.ended = e].tpre = c.tpre
           /\ [c EXCEPT !.state = "posted", !.missing = FALSE, !.ended = e].owner = c.owner
           /\ [c EXCEPT !.state = "posted", !.missing = FALSE, !.ended = e].state = "posted"
           /\ [c EXCEPT !.missing = TRUE].id = c.id
           /\ [c EXCEPT !.missing = TRUE].tpre = c.tpre
PROOF
  <1>1. [c EXCEPT !.state = "dead", !.ended = e].id = c.id
        /\ [c EXCEPT !.state = "dead", !.ended = e].tpre = c.tpre
    BY DEF HookCall
  <1>2. /\ [c EXCEPT !.state = "posted", !.missing = FALSE, !.ended = e].id = c.id
        /\ [c EXCEPT !.state = "posted", !.missing = FALSE, !.ended = e].tpre = c.tpre
        /\ [c EXCEPT !.state = "posted", !.missing = FALSE, !.ended = e].owner = c.owner
        /\ [c EXCEPT !.state = "posted", !.missing = FALSE, !.ended = e].state = "posted"
    BY DEF HookCall
  <1>3. [c EXCEPT !.missing = TRUE].id = c.id /\ [c EXCEPT !.missing = TRUE].tpre = c.tpre
    BY DEF HookCall
  <1> QED BY <1>1, <1>2, <1>3

(* Rewriting calls one for one keeps their key and their start. *)
LEMMA RewritingKeeps ==
    ASSUME CallsInv, now' = now, NEW f,
           \A x \in calls' : \E y \in calls : x = f[y],
           \A y \in calls : f[y].id = y.id /\ f[y].tpre = y.tpre
    PROVE  CallsInv'
  BY DEF CallsInv

LEMMA CallsStep ==
    ASSUME TypeOK, CallsInv, [Next]_vars
    PROVE  CallsInv'
PROOF
  <1>1. now \in Nat /\ calls \subseteq HookCall
    BY DEF TypeOK
  <1>2. CASE UNCHANGED <<calls, now>>
    BY <1>2 DEF CallsInv
  <1>3. CASE HookPre
    <2>1. PICK c \in CallIds, s \in Sessions, w \in Worktrees,
               d \in Targets \union {NoPath}, lag \in 0..MaxLag :
                   RecordCallPre(c, s, w, d, lag)
      BY <1>3 DEF HookPre
    <2> DEFINE new == [id |-> c, owner |-> SessionOwner[s], session |-> s, worktree |-> w,
                       declared |-> d, tpre |-> now - lag, state |-> "open",
                       missing |-> FALSE, ended |-> 0]
    <2>2. calls' = calls \union {new} /\ now' = now /\ (\A k \in calls : k.id # c)
      BY <2>1 DEF RecordCallPre
    <2>3. new.id = c /\ new.tpre = now - lag /\ now - lag <= now
      BY <1>1, TimesAssumption
    <2> HIDE DEF new
    <2> QED BY <2>2, <2>3 DEF CallsInv
  <1>4. CASE HookPost
    <2>1. PICK k \in calls, changed \in SUBSET Targets, lag \in 0..MaxLag :
                   RecordCallPost(k, changed, lag)
      BY <1>4 DEF HookPost
    <2>2. now - lag \in Nat
      BY <1>1, <2>1 DEF RecordCallPost, HookCall
    <2> DEFINE new == [k EXCEPT !.state = "posted", !.missing = FALSE, !.ended = now - lag]
    <2>3. calls' = (calls \ {k}) \union {new} /\ now' = now
      BY <2>1 DEF RecordCallPost
    <2>4. new.id = k.id /\ new.tpre = k.tpre
      BY <1>1, <2>2, CallRewritten
    <2> HIDE DEF new
    <2> QED BY <2>3, <2>4 DEF CallsInv
  <1>5. CASE Sweep
    <2>1. PICK lag \in 0..MaxLag :
              /\ lag <= now
              /\ \/ MarkDeadOwnerCalls(now - lag)
                 \/ MarkPostMissing(now - lag)
                 \/ DropFinishedCalls(now - lag)
      BY <1>5 DEF Sweep
    <2> DEFINE at == now - lag
    <2>2. at \in Nat
      BY <1>1, <2>1
    <2> HIDE DEF at
    <2>3. CASE MarkDeadOwnerCalls(at)
      <3> DEFINE C == {c \in calls : /\ c.state = "open"
                                     /\ \/ at > c.tpre + InFlightMaxAge
                                        \/ probe[c.session] = "dead"}
                 f == [c \in calls |-> IF c \in C THEN [c EXCEPT !.state = "dead", !.ended = at]
                                              ELSE c]
      <3>1. /\ calls' = (calls \ C) \union {[c EXCEPT !.state = "dead", !.ended = at] : c \in C}
            /\ now' = now
        BY <2>3 DEF MarkDeadOwnerCalls
      <3>2. C \in SUBSET calls
        OBVIOUS
      <3> HIDE DEF C
      <3>3. \A y \in calls : f[y].id = y.id /\ f[y].tpre = y.tpre
        BY <1>1, <2>2, CallRewritten
      <3>4. \A x \in calls' : \E y \in calls : x = f[y]
        BY <3>1, <3>2
      <3> HIDE DEF f
      <3> QED BY <3>1, <3>3, <3>4, RewritingKeeps
    <2>4. CASE MarkPostMissing(at)
      <3> DEFINE C == {c \in calls : /\ c.state = "open"
                                     /\ ~c.missing
                                     /\ c.tpre + TReport < at}
                 f == [c \in calls |-> IF c \in C THEN [c EXCEPT !.missing = TRUE] ELSE c]
      <3>1. /\ calls' = (calls \ C) \union {[c EXCEPT !.missing = TRUE] : c \in C}
            /\ now' = now
        BY <2>4 DEF MarkPostMissing
      <3>2. C \in SUBSET calls
        OBVIOUS
      <3> HIDE DEF C
      <3>3. \A y \in calls : f[y].id = y.id /\ f[y].tpre = y.tpre
        BY <1>1, <2>2, CallRewritten
      <3>4. \A x \in calls' : \E y \in calls : x = f[y]
        BY <3>1, <3>2
      <3> HIDE DEF f
      <3> QED BY <3>1, <3>3, <3>4, RewritingKeeps
    <2>5. CASE DropFinishedCalls(at)
      BY <2>5 DEF DropFinishedCalls, CallsInv
    <2> QED BY <2>1, <2>3, <2>4, <2>5 DEF at
  <1>6. CASE Tick
    BY <1>1, <1>6 DEF Tick, CallsInv, HookCall
  <1>7. CASE Acquire
    <2>1. UNCHANGED <<calls, now>>
      BY <1>7 DEF Acquire, AcquireLocks
    <2> QED BY <1>2, <2>1
  <1>8. CASE Release \/ ReleaseAll \/ Break \/ BreakRead \/ Refresh
    <2>1. UNCHANGED <<calls, now>>
      BY <1>8 DEF Release, ReleaseLocks, ReleaseAll, ReleaseBySession, Break, BreakLocks,
                  BreakRead, ReadHolders, ExpectedHolderWorktree, BreakAsRead, Refresh, RefreshLocks
    <2> QED BY <1>2, <2>1
  <1>9. CASE Claim \/ Doctor \/ (\E s \in Sessions : SessionDies(s)) \/ UNCHANGED vars
    <2>1. UNCHANGED <<calls, now>>
      BY <1>9 DEF Claim, ReleaseCandidateClaims, InsertCandidateClaims, Doctor, DoctorRepair,
                  SessionDies, vars
    <2> QED BY <1>2, <2>1
  <1> QED BY <1>3, <1>4, <1>5, <1>6, <1>7, <1>8, <1>9 DEF Next

LEMMA CallsCorrect == Spec => []CallsInv
PROOF
  <1>1. Init => CallsInv
    BY DEF Init, CallsInv
  <1> QED BY <1>1, CallsStep, TypeCorrect, PTL DEF Spec

(* An open, unflagged call keeps the hold it works under from going stale. *)
LEMMA CallPins ==
    ASSUME NEW c \in calls, NEW r, c.state = "open", ~c.missing, HoldOfCall(c, r),
           probe[r.session] # "dead"
    PROVE  ~Stale(r)
  BY DEF HoldOfCall, Stale, IsStale, InFlight

(* A row on the same target, of the same owner and checkout, whose lease   *)
(* reaches past at.                                                        *)
KeptPast(r, at) ==
    \E q \in locks' : /\ q.target = r.target /\ q.owner = r.owner
                      /\ q.worktree = r.worktree /\ at < q.expires

LEMMA GrantKeepsLive ==
    ASSUME TypeOK, TableInv, NEW s, NEW w, NEW T, NEW i, NEW ttl \in TTLs \union {DegradedModeTTL},
           NEW lag \in 0..MaxLag, AcquireLocks(s, w, T, i, ttl, lag),
           NEW r \in locks, ~Stale(r), r.worktree # NoWorktree,
           NEW at \in Nat, at <= now, at < r.expires
    PROVE  KeptPast(r, at) \/ Undercut(r, at)
PROOF
  <1>1. CASE r \in locks'
    BY <1>1 DEF KeptPast
  <1>2. CASE r \notin locks'
    <2>1. PICK q \in locks' : /\ q.target = r.target /\ q.owner = r.owner /\ q.worktree = w
                              /\ r.worktree = w
                              /\ q.expires = now - lag + ttl
                              /\ q.epoch = ResolveEpoch(r.owner, w, r.target)
      BY <1>2, GrantDeletes
    <2>2. CASE at < q.expires
      BY <2>1, <2>2 DEF KeptPast
    <2>3. CASE ~(at < q.expires)
      <3>1. q.expires \in Int /\ r.expires \in Nat /\ q.expires <= at /\ q.expires # r.expires
        BY <2>1, <2>3, TimesAssumption DEF TypeOK, Row
      <3>2. r \in RenewedRow(r.owner, w, r.target)
        BY <2>1 DEF RenewedRow
      <3>3. \A x \in RenewedRow(r.owner, w, r.target) : x = r
        BY <3>2 DEF RenewedRow, TableInv, KeyUnique
      <3>4. ResolveEpoch(r.owner, w, r.target) = r.epoch
        BY <3>2, <3>3 DEF ResolveEpoch, Renews
      <3>5. q \notin locks
        BY <2>1, <3>1, <3>4 DEF TableInv, EpochsIdentify
      <3> QED BY <2>1, <3>1, <3>4, <3>5 DEF Undercut, SameRow
    <2> QED BY <2>2, <2>3
  <1> QED BY <1>1, <1>2

LEMMA ExtendingKeeps ==
    ASSUME TypeOK, Extends, NEW r \in locks, NEW at \in Nat, at <= now, at < r.expires
    PROVE  KeptPast(r, at)
PROOF
  <1>1. PICK E \in SUBSET locks, e \in Nat :
            now < e /\ locks' = (locks \ E) \union {[x EXCEPT !.expires = e] : x \in E}
    BY DEF Extends
  <1>2. CASE r \in E
    <2> DEFINE q == [r EXCEPT !.expires = e]
    <2>1. q \in locks'
      BY <1>1, <1>2
    <2>2. q.owner = r.owner /\ q.target = r.target /\ q.worktree = r.worktree /\ q.expires = e
      BY DEF TypeOK, Row
    <2>3. at < e
      BY <1>1 DEF TypeOK
    <2> HIDE DEF q
    <2> QED BY <2>1, <2>2, <2>3 DEF KeptPast
  <1>3. CASE r \notin E
    BY <1>1, <1>3 DEF KeptPast
  <1> QED BY <1>2, <1>3

(* A hold that is not stale ends with its owner's release or short re-lock *)
(* or with a force.                                                        *)
LEMMA LiveHoldKept ==
    ASSUME TypeOK, TableInv, [Next]_vars, NEW r \in locks, ~Stale(r), r.worktree # NoWorktree,
           NEW at \in Nat, at <= now, at < r.expires
    PROVE  \/ KeptPast(r, at)
           \/ Undercut(r, at)
           \/ \E e \in audit' : /\ e.target = r.target
                                /\ e.subject = r.owner
                                /\ e.kind \in {"lock_released", "lock_broken"}
PROOF
  <1>1. CASE Acquire
    <2>1. PICK s \in Sessions, w \in Worktrees, T \in (SUBSET Targets) \ {{}},
               i \in Intents, ttl \in TTLs \union {DegradedModeTTL}, lag \in 0..MaxLag :
                   AcquireLocks(s, w, T, i, ttl, lag)
      BY <1>1 DEF Acquire
    <2> QED BY <2>1, GrantKeepsLive
  <1>2. CASE r \in locks'
    BY <1>2 DEF KeptPast
  <1>3. CASE (Release \/ ReleaseAll \/ Break \/ BreakRead \/ Doctor) /\ r \notin locks'
    <2>1. Told(r)
      BY <1>3, DeletionTold
    <2> QED BY <2>1 DEF Told
  <1>4. CASE Extends
    BY <1>4, ExtendingKeeps
  <1>5. CASE Sweep \/ Claim \/ (\E s \in Sessions : SessionDies(s)) \/ Tick \/ UNCHANGED vars
    BY <1>2, <1>5, RowsUntouched
  <1> QED BY <1>1, <1>2, <1>3, <1>4, <1>5, ExtendingVerbs DEF Next

LEMMA OpenCallStep ==
    ASSUME TypeOK, TableInv, CallsInv, [Next]_vars, NEW c \in calls, NEW r \in locks,
           c.state = "open", ~c.missing, HoldOfCall(c, r), r.worktree # NoWorktree,
           probe[r.session] # "dead"
    PROVE  \/ \E q \in locks' : HoldOfCall(c, q)
           \/ Undercut(r, c.tpre)
           \/ \E e \in audit' : /\ e.target = r.target
                                /\ e.subject = r.owner
                                /\ e.kind \in {"lock_released", "lock_broken"}
PROOF
  <1>1. ~Stale(r)
    BY CallPins
  <1>2. c.tpre \in Nat /\ c.tpre <= now /\ c.tpre < r.expires
    BY DEF TypeOK, HookCall, CallsInv, HoldOfCall
  <1>3. CASE KeptPast(r, c.tpre)
    BY <1>3 DEF KeptPast, HoldOfCall
  <1> QED BY <1>1, <1>2, <1>3, LiveHoldKept

(* A tool call that runs past its lease keeps the hold it works under      *)
(* while the call is open, unflagged, and the holder is not dead: only an  *)
(* operator's force takes it away, or its own owner, by a release or by    *)
(* locking again with a --ttl so short that the lease is over before the   *)
(* call began.                                                             *)
THEOREM CallKeepsHold == Spec => OpenCallKeepsHold
PROOF
  <1> DEFINE A == \A c \in calls, r \in locks :
                      /\ c.state = "open" /\ ~c.missing
                      /\ HoldOfCall(c, r)
                      /\ r.worktree # NoWorktree
                      /\ probe[r.session] # "dead"
                      => \/ \E q \in locks' : HoldOfCall(c, q)
                         \/ Undercut(r, c.tpre)
                         \/ \E e \in audit' : /\ e.target = r.target
                                              /\ e.subject = r.owner
                                              /\ e.kind \in {"lock_released", "lock_broken"}
  <1>1. TypeOK /\ TableInv /\ CallsInv /\ [Next]_vars => A
    BY OpenCallStep
  <1> HIDE DEF A
  <1>2. TypeOK /\ TableInv /\ CallsInv /\ [Next]_vars => [A]_vars
    BY <1>1
  <1>3. Spec => [][A]_vars
    BY <1>2, TableCorrect, CallsCorrect, PTL DEF Spec
  <1> QED BY <1>3 DEF OpenCallKeepsHold, A

(* The rows an extending verb extends are its caller's, and a lapsed one   *)
(* only under a call that enters the table, or is closed, with this step.  *)
LEMMA WhoExtends ==
    ASSUME TypeOK, CallsInv, Refresh \/ HookPre \/ HookPost
    PROVE  \E E \in SUBSET locks, e \in Nat :
               /\ locks' = (locks \ E) \union {[r EXCEPT !.expires = e] : r \in E}
               /\ \A r \in E :
                      \/ r.expires > now
                      \/ \E c \in calls' \ calls : c.owner = r.owner /\ c.tpre < r.expires
PROOF
  <1> USE SessionsAssumption, TimesAssumption
  <1>1. CASE Refresh
    <2>1. PICK s \in Sessions, w \in Worktrees, T \in (SUBSET Targets) \ {{}},
               ttl \in TTLs : RefreshLocks(s, w, T, ttl)
      BY <1>1 DEF Refresh
    <2> DEFINE E == {r \in UNION {Holders(t, w) : t \in T} :
                         r.owner = SessionOwner[s] /\ r.expires > now}
    <2>2. E \in SUBSET locks /\ now + ttl \in Nat
      BY DEF Holders, TypeOK
    <2>3. locks' = (locks \ E) \union {[r EXCEPT !.expires = now + ttl] : r \in E}
      BY <2>1 DEF RefreshLocks
    <2>4. \A r \in E : r.expires > now
      OBVIOUS
    <2> HIDE DEF E
    <2> QED BY <2>2, <2>3, <2>4
  <1>2. CASE HookPre
    <2>1. PICK c \in CallIds, s \in Sessions, w \in Worktrees,
               d \in Targets \union {NoPath}, lag \in 0..MaxLag :
                   RecordCallPre(c, s, w, d, lag)
      BY <1>2 DEF HookPre
    <2> DEFINE E == BelowHalfTTL(SessionOwner[s], w, {d}, now - lag, now - lag)
               end == now - lag + DegradedModeTTL
               new == [id |-> c, owner |-> SessionOwner[s], session |-> s, worktree |-> w,
                       declared |-> d, tpre |-> now - lag, state |-> "open",
                       missing |-> FALSE, ended |-> 0]
    <2>2. E \in SUBSET locks /\ \A r \in E : r.owner = SessionOwner[s] /\ r.expires > now - lag
      BY DEF BelowHalfTTL
    <2>3. end \in Nat
      BY <2>1 DEF RecordCallPre, TypeOK
    <2>4. locks' = (locks \ E) \union {[r EXCEPT !.expires = end] : r \in E}
      BY <2>1 DEF RecordCallPre, RefreshCallerLocks
    <2>5. calls' = calls \union {new} /\ (\A k \in calls : k.id # c)
      BY <2>1 DEF RecordCallPre
    <2>6. new.id = c /\ new.owner = SessionOwner[s] /\ new.tpre = now - lag
      OBVIOUS
    <2> HIDE DEF E, end, new
    <2>7. new \in calls' \ calls
      BY <2>5, <2>6
    <2>8. \A r \in E : new.owner = r.owner /\ new.tpre < r.expires
      <3> TAKE r \in E
      <3>1. r.expires \in Nat /\ now - lag \in Int /\ r.expires > now - lag
        BY <2>2 DEF TypeOK, Row
      <3> QED BY <2>2, <2>6, <3>1
    <2> QED BY <2>2, <2>3, <2>4, <2>7, <2>8
  <1>3. CASE HookPost
    <2>1. PICK k \in calls, changed \in SUBSET Targets, lag \in 0..MaxLag :
                   RecordCallPost(k, changed, lag)
      BY <1>3 DEF HookPost
    <2> DEFINE E == BelowHalfTTL(k.owner, k.worktree, changed, k.tpre, now - lag)
               end == now - lag + DegradedModeTTL
               new == [k EXCEPT !.state = "posted", !.missing = FALSE, !.ended = now - lag]
    <2>2. E \in SUBSET locks /\ \A r \in E : r.owner = k.owner /\ r.expires > k.tpre
      BY DEF BelowHalfTTL
    <2>3. end \in Nat /\ now - lag \in Nat /\ k \in HookCall
      BY <2>1 DEF RecordCallPost, TypeOK, HookCall
    <2>4. locks' = (locks \ E) \union {[r EXCEPT !.expires = end] : r \in E}
      BY <2>1 DEF RecordCallPost, RefreshCallerLocks
    <2>5. new \in calls' /\ k.state # "posted"
      BY <2>1 DEF RecordCallPost
    <2>6. new.id = k.id /\ new.owner = k.owner /\ new.tpre = k.tpre /\ new.state = "posted"
      BY <2>3, CallRewritten
    <2> HIDE DEF E, end, new
    <2>7. new \in calls' \ calls
      BY <2>5, <2>6 DEF CallsInv
    <2>8. \A r \in E : new.owner = r.owner /\ new.tpre < r.expires
      <3> TAKE r \in E
      <3>1. r.expires \in Nat /\ k.tpre \in Nat /\ r.expires > k.tpre
        BY <2>2, <2>3 DEF TypeOK, Row, HookCall
      <3> QED BY <2>2, <2>6, <3>1
    <2> QED BY <2>2, <2>3, <2>4, <2>7, <2>8
  <1> QED BY <1>1, <1>2, <1>3

LEMMA RegrantStep ==
    ASSUME TypeOK, TableInv, CallsInv, [Next]_vars, NEW r \in locks, NEW q \in locks',
           SameRow(r, q), q.expires # r.expires, now >= r.expires, ~InFlight(r)
    PROVE  \E c \in calls' \ calls : c.owner = r.owner /\ c.tpre < r.expires
PROOF
  <1>1. Stale(r) /\ r \in Row /\ r.expires \in Nat /\ now \in Nat
    BY DEF Stale, IsStale, TypeOK, Row
  <1>2. q \notin locks
    BY DEF TableInv, EpochsIdentify, SameRow
  <1>3. CASE Acquire
    <2>1. PICK s \in Sessions, w \in Worktrees, T \in (SUBSET Targets) \ {{}},
               i \in Intents, ttl \in TTLs \union {DegradedModeTTL}, lag \in 0..MaxLag :
                   AcquireLocks(s, w, T, i, ttl, lag)
      BY <1>3 DEF Acquire
    <2> DEFINE o == SessionOwner[s]
    <2>2. PICK t \in T : q.target = t /\ q.epoch = ResolveEpoch(o, w, t)
      BY <1>2, <2>1 DEF AcquireLocks
    <2>3. CASE Renews(o, w, t)
      <3>1. PICK y \in RenewedRow(o, w, t) : ~Stale(y)
        BY <2>3 DEF Renews
      <3>2. \A x \in RenewedRow(o, w, t) : x = y
        BY <3>1 DEF RenewedRow, TableInv, KeyUnique
      <3>3. y.epoch = ResolveEpoch(o, w, t) /\ y \in locks /\ y.target = t
        BY <2>3, <3>1, <3>2 DEF ResolveEpoch, RenewedRow
      <3>4. y = r
        BY <2>2, <3>3 DEF TableInv, EpochsIdentify, SameRow
      <3> QED BY <1>1, <3>1, <3>4
    <2>4. CASE ~Renews(o, w, t)
      <3>1. q.epoch = path_epochs[t] + 1
        BY <2>2, <2>4 DEF ResolveEpoch
      <3>2. r.epoch \in 1..path_epochs[t] /\ path_epochs[t] \in Nat
        BY <2>2, <1>1 DEF TableInv, EpochsIdentify, SameRow, TypeOK, Row
      <3> QED BY <3>1, <3>2 DEF SameRow
    <2> QED BY <2>3, <2>4
  <1>4. CASE Refresh \/ HookPre \/ HookPost
    <2>1. PICK E \in SUBSET locks, e \in Nat :
              /\ locks' = (locks \ E) \union {[x EXCEPT !.expires = e] : x \in E}
              /\ \A x \in E :
                     \/ x.expires > now
                     \/ \E c \in calls' \ calls : c.owner = x.owner /\ c.tpre < x.expires
      BY <1>4, WhoExtends
    <2>2. PICK y \in E : q = [y EXCEPT !.expires = e]
      BY <1>2, <2>1
    <2>3. y \in locks /\ y.target = q.target /\ y.epoch = q.epoch
      BY <2>2 DEF TypeOK, Row
    <2>4. y = r
      BY <2>3 DEF TableInv, EpochsIdentify, SameRow
    <2> QED BY <1>1, <2>1, <2>4
  <1>5. CASE Release \/ ReleaseAll \/ Break \/ BreakRead \/ Doctor
    <2>1. locks' \subseteq locks
      BY <1>5 DEF Release, ReleaseLocks, ReleaseAll, ReleaseBySession, Break, BreakLocks,
                  BreakRead, ReadHolders, ExpectedHolderWorktree, BreakAsRead, Doctor, DoctorRepair
    <2> QED BY <1>2, <2>1
  <1>6. CASE Sweep \/ Claim \/ (\E s \in Sessions : SessionDies(s)) \/ Tick \/ UNCHANGED vars
    BY <1>2, <1>6, RowsUntouched
  <1> QED BY <1>3, <1>4, <1>5, <1>6 DEF Next

(* A lease that lapsed with no call in flight never gets its epoch back,   *)
(* except under a call that began before the lapse and is entered late:    *)
(* RefreshLocks refuses it and AcquireLocks takes the next epoch, so what  *)
(* was fenced out by the lapse stays fenced out.                           *)
THEOREM LapseFences == Spec => LapsedLeaseIsRegranted
PROOF
  <1> DEFINE A == \A r \in locks, q \in locks' :
                      /\ SameRow(r, q)
                      /\ q.expires # r.expires
                      /\ now >= r.expires
                      /\ ~InFlight(r)
                      => \E c \in calls' \ calls : c.owner = r.owner /\ c.tpre < r.expires
  <1>1. TypeOK /\ TableInv /\ CallsInv /\ [Next]_vars => A
    BY RegrantStep
  <1> HIDE DEF A
  <1>2. TypeOK /\ TableInv /\ CallsInv /\ [Next]_vars => [A]_vars
    BY <1>1
  <1>3. Spec => [][A]_vars
    BY <1>2, TableCorrect, CallsCorrect, PTL DEF Spec
  <1> QED BY <1>3 DEF LapsedLeaseIsRegranted, A

------------------------------------------------------------------------------
(* A row belongs to the owner of the session that took it, and the dead    *)
(* stay dead.                                                              *)
RowsOwned == \A r \in locks : r.session \in Sessions /\ r.owner = SessionOwner[r.session]

LEMMA RowsOwnedStep ==
    ASSUME TypeOK, RowsOwned, [Next]_vars
    PROVE  RowsOwned'
PROOF
  <1>1. CASE Shrinks \/ UNCHANGED vars
    BY <1>1 DEF Shrinks, RowsOwned, vars
  <1>2. CASE Extends
    BY <1>2 DEF Extends, RowsOwned, TypeOK, Row
  <1>3. CASE Acquire
    <2>1. PICK s \in Sessions, w \in Worktrees, T \in (SUBSET Targets) \ {{}},
               i \in Intents, ttl \in TTLs \union {DegradedModeTTL}, lag \in 0..MaxLag :
                   AcquireLocks(s, w, T, i, ttl, lag)
      BY <1>3 DEF Acquire
    <2>2. \A x \in locks' : x \in locks \/ (x.session = s /\ x.owner = SessionOwner[s])
      BY <2>1 DEF AcquireLocks
    <2> QED BY <2>2 DEF RowsOwned
  <1> QED BY <1>1, <1>2, <1>3, StepKinds

LEMMA RowsOwnedCorrect == Spec => []RowsOwned
PROOF
  <1>1. Init => RowsOwned
    BY DEF Init, RowsOwned
  <1> QED BY <1>1, RowsOwnedStep, TypeCorrect, PTL DEF Spec

LEMMA DeadStay ==
    ASSUME TypeOK, [Next]_vars, NEW s \in Sessions, probe[s] = "dead"
    PROVE  probe'[s] = "dead"
PROOF
  <1>1. CASE \E x \in Sessions : SessionDies(x)
    BY <1>1 DEF SessionDies, TypeOK
  <1>2. CASE Acquire
    BY <1>2 DEF Acquire, AcquireLocks
  <1>3. CASE Release \/ ReleaseAll \/ Break \/ BreakRead \/ Refresh
    BY <1>3 DEF Release, ReleaseLocks, ReleaseAll, ReleaseBySession, Break, BreakLocks,
                BreakRead, ReadHolders, ExpectedHolderWorktree, BreakAsRead, Refresh, RefreshLocks
  <1>4. CASE HookPre \/ HookPost \/ Sweep
    BY <1>4 DEF HookPre, RecordCallPre, HookPost, RecordCallPost, Sweep,
                MarkDeadOwnerCalls, MarkPostMissing, DropFinishedCalls
  <1>5. CASE Claim \/ Doctor \/ Tick \/ UNCHANGED vars
    BY <1>5 DEF Claim, ReleaseCandidateClaims, InsertCandidateClaims, Doctor, DoctorRepair,
                Tick, vars
  <1> QED BY <1>1, <1>2, <1>3, <1>4, <1>5 DEF Next
=============================================================================
