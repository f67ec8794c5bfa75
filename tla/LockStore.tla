------------------------------ MODULE LockStore ------------------------------
(***************************************************************************)
(* The coordination store of loto: lock rows, path generations (epochs),   *)
(* tool calls in flight and candidate claims (internal/store).  Every CLI  *)
(* process and every hook of every agent shares this one SQLite store.     *)
(*                                                                         *)
(* An action is one committed transaction.  The batch verbs take the       *)
(* project op-flock, the hook verbs only an immediate-mode transaction;    *)
(* either way SQLite serializes the commits, so what interleaves is whole  *)
(* transactions.  A transaction that is refused rolls back, reclaims       *)
(* included, and is no step here.                                          *)
(*                                                                         *)
(* A verb stamps its record before it waits for the flock: lag is how old  *)
(* that clock reading is when the transaction commits.                     *)
(***************************************************************************)
EXTENDS LotoDomain

CONSTANTS
    Owners,          \* agent uuids; an actor in docs/write-gate.md
    Sessions,        \* session uuids, what the liveness probe is asked about
    SessionOwner,    \* the owner each session runs as
    Unwitnessed,     \* sessions of another host or without a record to probe
    Pidless,         \* sessions whose claims record no durable pid
    Worktrees,       \* checkout keys, NoWorktree included where it can occur
    Targets,         \* lockable paths, as sequences of segments
    NoPath,          \* a call that declares no path (Bash)
    Intents,
    AnyIntent,       \* `unlock --all` without --only-intent
    CallIds,         \* tool_use ids
    CandidateIds,
    Readers,         \* `loto status` readers who may break by what they read
    NoSnapshot,
    TTLs,            \* lease lengths a caller may ask for
    DegradedModeTTL, \* the fixed lease of the hooks
    MaxLag,          \* bound: clock reading to commit (the flock wait)
    TReport,         \* age past which an open call is flagged post_missing
    InFlightMaxAge,  \* age past which an open call is ended unproven
    ReclaimGrace,    \* age past which an unwitnessed claim is abandoned
    MaxTime,         \* bound: the clock stops here
    MaxEpoch         \* bound: fresh grants per path

ASSUME SessionsAssumption ==
    SessionOwner \in [Sessions -> Owners] /\ Pidless \subseteq Sessions

ASSUME TimesAssumption ==
    /\ TTLs \subseteq Nat /\ DegradedModeTTL \in Nat
    /\ MaxLag \in Nat /\ MaxTime \in Nat /\ MaxEpoch \in Nat
    /\ TReport \in Nat /\ InFlightMaxAge \in Nat /\ ReclaimGrace \in Nat

(* The hooks' lease outlasts the longest wait for the op-flock (30m        *)
(* against 30s).  A caller's --ttl need only be positive: a lease no       *)
(* longer than the wait for the flock is over before its row is committed. *)
ASSUME LeaseAssumption ==
    DegradedModeTTL > MaxLag /\ \A ttl \in TTLs : ttl > 0

ASSUME NoPathAssumption == NoPath \notin Targets

VARIABLES
    locks,        \* the lock rows
    path_epochs,  \* [Targets -> Nat], the generation counter of each path
    calls,        \* the hook_calls rows
    claims,       \* the candidate_claims rows
    probe,        \* [Sessions -> Liveness], what the oracle answers now
    now,          \* the wall clock
    snapshot,     \* [Readers -> what the reader last saw of one target]
    audit         \* the dispossession events of the last transaction

vars == <<locks, path_epochs, calls, claims, probe, now, snapshot, audit>>

------------------------------------------------------------------------------
(* The tables. *)

Row == [target : Targets, owner : Owners, session : Sessions,
        worktree : Worktrees, intent : Intents, expires : Nat, epoch : Nat]

(* state "dead" is dead_at set and t_post not; ended is COALESCE of both.  *)
HookCall == [id : CallIds, owner : Owners, session : Sessions,
             worktree : Worktrees, declared : Targets \union {NoPath},
             tpre : Nat, state : {"open", "dead", "posted"},
             missing : BOOLEAN, ended : Nat]

CandidateClaim == [path : Targets, candidate : CandidateIds, owner : Owners,
                   session : Sessions, created : Nat]

Event == [kind : {"lock_released", "lock_reclaimed_stale", "lock_broken"},
          target : Targets, actor : Owners, subject : Owners]

Snapshot == [target : Targets, worktree : Worktrees, rows : SUBSET Row]

TypeOK ==
    /\ locks \subseteq Row
    /\ path_epochs \in [Targets -> Nat]
    /\ calls \subseteq HookCall
    /\ claims \subseteq CandidateClaim
    /\ probe \in [Sessions -> Liveness]
    /\ now \in Nat
    /\ snapshot \in [Readers -> Snapshot \union {NoSnapshot}]
    /\ audit \subseteq Event

(* An empty store.  A session with a witness on this host probes alive     *)
(* until it dies, any other probes unknown for ever.                       *)
Init ==
    /\ locks = {}
    /\ path_epochs = [t \in Targets |-> 0]
    /\ calls = {}
    /\ claims = {}
    /\ probe = [s \in Sessions |-> IF s \in Unwitnessed THEN "unknown" ELSE "alive"]
    /\ now = 0
    /\ snapshot = [r \in Readers |-> NoSnapshot]
    /\ audit = {}

------------------------------------------------------------------------------
(* What the transactions read. *)

(* lockInFlightSQL: the holder has a call open, not flagged post_missing,  *)
(* that began before the lease expired.                                    *)
InFlight(r) ==
    \E c \in calls : /\ c.owner = r.owner
                     /\ c.state = "open"
                     /\ ~c.missing
                     /\ c.tpre < r.expires

(* Seeded fault: staleness by lease and death alone, no call in flight.    *)
StaleMidCall(r) == IsStale(now, r.expires, FALSE, probe[r.session])

Stale(r) == IsStale(now, r.expires, InFlight(r), probe[r.session])

LockHold(r) == [actor |-> r.owner, worktree |-> r.worktree,
                target |-> r.target, live |-> ~Stale(r)]

(* The rows at t a store opened in worktree w may see (scopeToWorktree).   *)
Holders(t, w) ==
    {r \in locks : r.target = t /\ SameWorktree(w, r.worktree)}

(* A HoldRef is what a reader can name of a row: owner and epoch.          *)
HoldRefs(rows) == {<<r.owner, r.epoch>> : r \in rows}

(* Seeded fault: the reclaim event names the reclaimer as its subject.     *)
ReclaimedByItself(rows, byAgent) ==
    {[kind |-> "lock_reclaimed_stale", target |-> r.target,
      actor |-> byAgent, subject |-> byAgent] : r \in rows}

(* reclaimStaleTx leaves one event per deleted row. *)
Reclaimed(rows, byAgent) ==
    {[kind |-> "lock_reclaimed_stale", target |-> r.target,
      actor |-> byAgent, subject |-> r.owner] : r \in rows}

(* Seeded fault: target and agent transposed in the event. *)
ReleasedTransposed(targets, byAgent) ==
    {[kind |-> "lock_released", target |-> byAgent,
      actor |-> t, subject |-> t] : t \in targets}

Released(targets, byAgent) ==
    {[kind |-> "lock_released", target |-> t,
      actor |-> byAgent, subject |-> byAgent] : t \in targets}

------------------------------------------------------------------------------
(* AcquireLocks: `loto lock`, `loto claim` and the pre-hook's own take.    *)

(* renewedRow: the row the upsert lands on, this worktree's own one or     *)
(* else a legacy row without a worktree.                                   *)
RenewedRow(o, w, t) ==
    LET own(k) == {r \in locks : r.owner = o /\ r.target = t /\ r.worktree = k}
    IN  IF own(w) # {} THEN own(w) ELSE own(NoWorktree)

(* Seeded fault: an upsert on a lapsed row counts as a renewal. *)
RenewsLapsed(o, w, t) == RenewedRow(o, w, t) # {}

Renews(o, w, t) == \E r \in RenewedRow(o, w, t) : ~Stale(r)

(* Seeded fault: the owner's live row of any checkout lends its epoch. *)
ResolveEpochAnyWorktree(o, w, t) ==
    LET mine == {r \in locks : r.owner = o /\ r.target = t /\ ~Stale(r)}
    IN  IF mine # {} THEN (CHOOSE r \in mine : TRUE).epoch ELSE path_epochs[t] + 1

(* Seeded fault: generations counted over the standing rows only. *)
ResolveEpochOfRows(o, w, t) ==
    IF Renews(o, w, t)
    THEN (CHOOSE r \in RenewedRow(o, w, t) : TRUE).epoch
    ELSE IF \E r \in locks : r.target = t THEN path_epochs[t] + 1 ELSE 1

ResolveEpoch(o, w, t) ==
    IF Renews(o, w, t)
    THEN (CHOOSE r \in RenewedRow(o, w, t) : TRUE).epoch
    ELSE path_epochs[t] + 1

(* Seeded fault: contention on the exact path only. *)
ContendingExact(o, w, T) ==
    {r \in locks : r.owner # o /\ SameWorktree(w, r.worktree) /\ r.target \in T}

(* Seeded fault: a legacy row without a checkout contends with nobody. *)
ContendingKnownWorktree(o, w, T) ==
    {r \in locks : /\ r.owner # o
                   /\ w = r.worktree
                   /\ \E t \in T : PrefixOverlaps(r.target, t)}

(* Rows of other owners contending with a target of the batch. *)
Contending(o, w, T) ==
    {r \in locks : /\ r.owner # o
                   /\ SameWorktree(w, r.worktree)
                   /\ \E t \in T : PrefixOverlaps(r.target, t)}

(* Seeded fault: the claim of a dead submitter blocks nobody. *)
BlockedByLiveClaim(T) ==
    \E c \in claims : c.path \in T /\ probe[c.session] # "dead"

(* blockOnCandidateClaims: exact path, whoever claimed it, dead or not.    *)
BlockedByClaim(T) == \E c \in claims : c.path \in T

AcquireLocks(s, w, T, i, ttl, lag) ==
    LET o       == SessionOwner[s]
        stale   == {r \in Contending(o, w, T) : Stale(r)}
        granted == {[target |-> t, owner |-> o, session |-> s, worktree |-> w,
                     intent |-> i, expires |-> now - lag + ttl,
                     epoch |-> ResolveEpoch(o, w, t)] : t \in T}
    IN  /\ lag <= now
        /\ ~BlockedByClaim(T)
        /\ \A r \in Contending(o, w, T), t \in T :
               ~Refuses(o, w, t, LockHold(r))
        /\ \A t \in T : path_epochs[t] < MaxEpoch
        /\ locks' = (locks \ (stale \union UNION {RenewedRow(o, w, t) : t \in T}))
                        \union granted
        /\ path_epochs' = [t \in Targets |->
               IF t \in T /\ ~Renews(o, w, t) THEN path_epochs[t] + 1
                                              ELSE path_epochs[t]]
        /\ audit' = Reclaimed(stale, o)
        /\ UNCHANGED <<calls, claims, probe, now, snapshot>>

------------------------------------------------------------------------------
(* Releases and breaks. *)

(* ReleaseLocks (`loto unlock`, `loto unclaim`): per target the caller's   *)
(* own rows, or else every foreign holder if all of them are stale.        *)
ReleaseLocks(s, w, T) ==
    LET o        == SessionOwner[s]
        owned    == {t \in T : \E r \in Holders(t, w) : r.owner = o}
        reclaims == UNION {Holders(t, w) : t \in
                           {u \in T \ owned : \A r \in Holders(u, w) : Stale(r)}}
        deleted  == {r \in UNION {Holders(t, w) : t \in owned} : r.owner = o}
    IN  /\ deleted \union reclaims # {}
        /\ locks' = locks \ (deleted \union reclaims)
        /\ audit' = Released(owned, o) \union Reclaimed(reclaims, o)
        /\ UNCHANGED <<path_epochs, calls, claims, probe, now, snapshot>>

(* ReleaseBySession (`loto unlock --all`, SessionEnd): every row of the    *)
(* owner in every worktree, narrowed to its session and to one intent.     *)
ReleaseBySession(s, pinned, only) ==
    LET o     == SessionOwner[s]
        swept == {r \in locks : /\ r.owner = o
                                /\ pinned => r.session = s
                                /\ only # AnyIntent => r.intent = only}
    IN  /\ swept # {}
        /\ locks' = locks \ swept
        /\ audit' = Released({r.target : r \in swept}, o)
        /\ UNCHANGED <<path_epochs, calls, claims, probe, now, snapshot>>

(* The holders of t may all be broken: forced, or not one of them is live. *)
AuthorizeHolders(t, w, force) ==
    force \/ \A r \in Holders(t, w) : Stale(r)

(* BreakLocks without expectations: the blind break of a batch. *)
BreakLocks(s, w, T, force) ==
    LET o      == SessionOwner[s]
        broken == UNION {Holders(t, w) : t \in
                         {u \in T : AuthorizeHolders(u, w, force)}}
        kind   == IF force THEN "lock_broken" ELSE "lock_reclaimed_stale"
    IN  /\ broken # {}
        /\ locks' = locks \ broken
        /\ audit' = {[kind |-> kind, target |-> r.target, actor |-> o,
                      subject |-> r.owner] : r \in broken}
        /\ UNCHANGED <<path_epochs, calls, claims, probe, now, snapshot>>

(* A reader (`loto status`) learns who holds one target... *)
ReadHolders(rd, t, w) ==
    /\ snapshot' = [snapshot EXCEPT ![rd] =
           [target |-> t, worktree |-> w, rows |-> Holders(t, w)]]
    /\ audit' = {}
    /\ UNCHANGED <<locks, path_epochs, calls, claims, probe, now>>

(* checkBreakExpectation: the target carries exactly the holds named. *)
ExpectationHolds(rd) ==
    LET snap == snapshot[rd]
    IN  HoldRefs(Holders(snap.target, snap.worktree)) = HoldRefs(snap.rows)

(* ...which, if every row there of the holds it named that stands in a     *)
(* named checkout stands in one, takes the break to that checkout, from    *)
(* its own checkout or wherever it runs (expectedHolderWorktree); rows in  *)
(* two checkouts refuse it...                                              *)
ExpectedHolderWorktree(rd, own) ==
    /\ snapshot[rd] # NoSnapshot
    /\ LET snap  == snapshot[rd]
           sites == {IF SameWorktree(own, r.worktree) THEN own ELSE r.worktree :
                     r \in {q \in locks : /\ q.target = snap.target
                                         /\ q.worktree # NoWorktree
                                         /\ <<q.owner, q.epoch>> \in HoldRefs(snap.rows)}}
       IN  \E w \in sites \union {own} :
               /\ sites \subseteq {w}
               /\ snapshot' = [snapshot EXCEPT ![rd].worktree = w]
    /\ audit' = {}
    /\ UNCHANGED <<locks, path_epochs, calls, claims, probe, now>>

(* ...and later force-breaks exactly the holds it read (`unlock --force`   *)
(* with owner@epoch), or is refused with holder-changed.                   *)
BreakAsRead(rd, s) ==
    /\ snapshot[rd] # NoSnapshot
    /\ ExpectationHolds(rd)
    /\ LET broken == Holders(snapshot[rd].target, snapshot[rd].worktree)
       IN  /\ broken # {}
           /\ locks' = locks \ broken
           /\ audit' = {[kind |-> "lock_broken", target |-> r.target,
                         actor |-> SessionOwner[s],
                         subject |-> r.owner] : r \in broken}
    /\ snapshot' = [snapshot EXCEPT ![rd] = NoSnapshot]
    /\ UNCHANGED <<path_epochs, calls, claims, probe, now>>

------------------------------------------------------------------------------
(* Renewals. *)

(* RefreshLocks (`loto refresh`): own rows whose lease has not lapsed.     *)
RefreshLocks(s, w, T, ttl) ==
    LET extend == {r \in UNION {Holders(t, w) : t \in T} :
                       r.owner = SessionOwner[s] /\ r.expires > now}
    IN  /\ extend # {}
        /\ locks' = (locks \ extend) \union
                    {[r EXCEPT !.expires = now + ttl] : r \in extend}
        /\ audit' = {}
        /\ UNCHANGED <<path_epochs, calls, claims, probe, now, snapshot>>

(* refreshOwnLocksBelowHalfTTLTx: the heartbeat inside a hook transaction, *)
(* on the caller's rows at paths that had not lapsed by since.             *)
BelowHalfTTL(o, w, paths, since, at) ==
    {r \in locks : /\ r.owner = o
                   /\ r.target \in paths
                   /\ SameWorktree(w, r.worktree)
                   /\ r.expires > since
                   /\ r.expires < at + DegradedModeTTL \div 2}

RefreshCallerLocks(o, w, paths, since, at) ==
    LET due == BelowHalfTTL(o, w, paths, since, at)
    IN  locks' = (locks \ due) \union
                 {[r EXCEPT !.expires = at + DegradedModeTTL] : r \in due}

------------------------------------------------------------------------------
(* Tool calls (hook_calls). *)

RecordCallPre(c, s, w, declared, lag) ==
    /\ lag <= now
    /\ \A k \in calls : k.id # c
    /\ calls' = calls \union
           {[id |-> c, owner |-> SessionOwner[s], session |-> s, worktree |-> w,
             declared |-> declared, tpre |-> now - lag, state |-> "open",
             missing |-> FALSE, ended |-> 0]}
    /\ RefreshCallerLocks(SessionOwner[s], w, {declared}, now - lag, now - lag)
    /\ audit' = {}
    /\ UNCHANGED <<path_epochs, claims, probe, now, snapshot>>

(* A post closes the call even if a sweep declared it dead meanwhile, and  *)
(* renews the caller's rows on the files the call changed.                 *)
RecordCallPost(k, changed, lag) ==
    /\ k \in calls
    /\ k.state # "posted"
    /\ k.tpre + lag <= now
    /\ calls' = (calls \ {k}) \union
           {[k EXCEPT !.state = "posted", !.missing = FALSE, !.ended = now - lag]}
    /\ RefreshCallerLocks(k.owner, k.worktree, changed, k.tpre, now - lag)
    /\ audit' = {}
    /\ UNCHANGED <<path_epochs, claims, probe, now, snapshot>>

(* The three sweeps every pre-hook runs first, by the clock it read at its *)
(* start.  The probe runs between a read and the marking UPDATE, which     *)
(* re-asserts that the call is open: one step.                             *)
MarkDeadOwnerCalls(at) ==
    LET dead == {c \in calls : /\ c.state = "open"
                               /\ \/ at > c.tpre + InFlightMaxAge
                                  \/ probe[c.session] = "dead"}
    IN  /\ calls' = (calls \ dead) \union
               {[c EXCEPT !.state = "dead", !.ended = at] : c \in dead}
        /\ audit' = {}
        /\ UNCHANGED <<locks, path_epochs, claims, probe, now, snapshot>>

MarkPostMissing(at) ==
    LET toFlag == {c \in calls : /\ c.state = "open"
                                 /\ ~c.missing
                                 /\ c.tpre + TReport < at}
    IN  /\ calls' = (calls \ toFlag) \union
               {[c EXCEPT !.missing = TRUE] : c \in toFlag}
        /\ audit' = {}
        /\ UNCHANGED <<locks, path_epochs, claims, probe, now, snapshot>>

(* A finished call stays while an open call began before it ended. *)
DropFinishedCalls(at) ==
    LET droppable == {c \in calls :
            /\ c.state # "open"
            /\ c.ended + TReport < at
            /\ ~ \E k \in calls : k.state = "open" /\ k.tpre < c.ended}
    IN  /\ calls' = calls \ droppable
        /\ audit' = {}
        /\ UNCHANGED <<locks, path_epochs, claims, probe, now, snapshot>>

------------------------------------------------------------------------------
(* Candidate claims. *)

(* revalidateClaimLeasesTx looks the owner's lease up by path alone: with  *)
(* rows in several worktrees the last one scanned answers, so any of them  *)
(* may.  epochs is what the candidate's envelope captured.                 *)
LeasesHold(o, epochs) ==
    \A p \in DOMAIN epochs :
        \E r \in locks : /\ r.owner = o
                         /\ r.target = p
                         /\ ~Stale(r)
                         /\ r.epoch = epochs[p]

InsertCandidateClaims(k, s, epochs, lag) ==
    /\ lag <= now
    /\ LeasesHold(SessionOwner[s], epochs)
    /\ \A c \in claims : c.candidate # k
    /\ claims' = claims \union
           {[path |-> p, candidate |-> k, owner |-> SessionOwner[s],
             session |-> s, created |-> now - lag] : p \in DOMAIN epochs}
    /\ audit' = {}
    /\ UNCHANGED <<locks, path_epochs, calls, probe, now, snapshot>>

(* Promoted, rejected or withdrawn: the store does not say which. *)
ReleaseCandidateClaims(k) ==
    /\ \E c \in claims : c.candidate = k
    /\ claims' = {c \in claims : c.candidate # k}
    /\ audit' = {}
    /\ UNCHANGED <<locks, path_epochs, calls, probe, now, snapshot>>

(* CandidateClaimIsAbandoned: an unknown verdict gives a claim up after    *)
(* the grace only if its submitter recorded no durable pid.                *)
Abandoned(c) ==
    \/ probe[c.session] = "dead"
    \/ /\ probe[c.session] = "unknown"
       /\ c.session \in Pidless
       /\ now >= c.created + ReclaimGrace

(* DoctorRepair (`loto doctor --repair`): every stale row goes, whoever    *)
(* and wherever, and every abandoned claim no standing candidate needs.    *)
DoctorRepair(s, promotable) ==
    LET stale     == {r \in locks : Stale(r)}
        abandoned == {c \in claims : Abandoned(c) /\ c.candidate \notin promotable}
    IN  /\ stale # {} \/ abandoned # {}
        /\ locks' = locks \ stale
        /\ claims' = claims \ abandoned
        /\ audit' = Reclaimed(stale, SessionOwner[s])
        /\ UNCHANGED <<path_epochs, calls, probe, now, snapshot>>

------------------------------------------------------------------------------
(* The environment. *)

SessionDies(s) ==
    /\ probe[s] = "alive"
    /\ probe' = [probe EXCEPT ![s] = "dead"]
    /\ audit' = {}
    /\ UNCHANGED <<locks, path_epochs, calls, claims, now, snapshot>>

Tick ==
    /\ now < MaxTime
    /\ now' = now + 1
    /\ audit' = {}
    /\ UNCHANGED <<locks, path_epochs, calls, claims, probe, snapshot>>

------------------------------------------------------------------------------
Acquire ==
    \E s \in Sessions, w \in Worktrees, T \in (SUBSET Targets) \ {{}},
       i \in Intents, ttl \in TTLs \union {DegradedModeTTL}, lag \in 0..MaxLag :
        AcquireLocks(s, w, T, i, ttl, lag)

Release ==
    \E s \in Sessions, w \in Worktrees, T \in (SUBSET Targets) \ {{}} :
        ReleaseLocks(s, w, T)

ReleaseAll ==
    \E s \in Sessions, pinned \in BOOLEAN, only \in Intents \union {AnyIntent} :
        ReleaseBySession(s, pinned, only)

Break ==
    \E s \in Sessions, w \in Worktrees, T \in (SUBSET Targets) \ {{}},
       force \in BOOLEAN : BreakLocks(s, w, T, force)

BreakRead ==
    \E rd \in Readers :
        \/ \E t \in Targets, w \in Worktrees : ReadHolders(rd, t, w)
        \/ \E own \in Worktrees : ExpectedHolderWorktree(rd, own)
        \/ \E s \in Sessions : BreakAsRead(rd, s)

Refresh ==
    \E s \in Sessions, w \in Worktrees, T \in (SUBSET Targets) \ {{}},
       ttl \in TTLs : RefreshLocks(s, w, T, ttl)

HookPre ==
    \E c \in CallIds, s \in Sessions, w \in Worktrees,
       d \in Targets \union {NoPath}, lag \in 0..MaxLag :
        RecordCallPre(c, s, w, d, lag)

HookPost ==
    \E k \in calls, changed \in SUBSET Targets, lag \in 0..MaxLag :
        RecordCallPost(k, changed, lag)

Sweep ==
    \E lag \in 0..MaxLag :
        /\ lag <= now
        /\ \/ MarkDeadOwnerCalls(now - lag)
           \/ MarkPostMissing(now - lag)
           \/ DropFinishedCalls(now - lag)

Claim ==
    \E k \in CandidateIds :
        \/ ReleaseCandidateClaims(k)
        \/ \E s \in Sessions, P \in (SUBSET Targets) \ {{}} :
               \E epochs \in [P -> 1..MaxEpoch], lag \in 0..MaxLag :
                   InsertCandidateClaims(k, s, epochs, lag)

Doctor ==
    \E s \in Sessions, promotable \in SUBSET CandidateIds :
        DoctorRepair(s, promotable)

Next ==
    \/ Acquire \/ Release \/ ReleaseAll \/ Break \/ BreakRead
    \/ Refresh \/ HookPre \/ HookPost \/ Sweep
    \/ Claim \/ Doctor
    \/ \E s \in Sessions : SessionDies(s)
    \/ Tick

Spec == Init /\ [][Next]_vars

------------------------------------------------------------------------------
(* Safety. *)

(* Two owners never have rows on overlapping targets of one checkout, not  *)
(* even a stale row beside a live one: whatever order acquires, reclaims,  *)
(* adoptions of legacy rows, breaks and renewals commit in.                *)
Exclusive ==
    \A r, q \in locks :
        /\ r.owner # q.owner
        /\ SameWorktree(r.worktree, q.worktree)
        => ~PrefixOverlaps(r.target, q.target)

(* No row is ahead of its path's counter and no two rows on a path carry   *)
(* one epoch, whoever holds them in whichever checkout: owner@epoch names  *)
(* one row (what holdRefsOf and the admission fence rely on).              *)
EpochsIdentify ==
    /\ \A r \in locks : r.epoch \in 1..path_epochs[r.target]
    /\ \A r, q \in locks :
           r.target = q.target /\ r.epoch = q.epoch => r = q

(* A row seen earlier and a row standing now with the same epoch are one   *)
(* tenure: same owner, same checkout (or a legacy row since adopted).  So  *)
(* a break by owner@epoch cannot hit a hold granted after the read.        *)
EpochNamesTenure ==
    \A rd \in Readers : snapshot[rd] # NoSnapshot =>
        \A r \in snapshot[rd].rows, q \in locks :
            r.target = q.target /\ r.epoch = q.epoch =>
                /\ r.owner = q.owner
                /\ r.worktree \in {q.worktree, NoWorktree}

(* Where all rows are of one checkout, or do not say of which, no lease of *)
(* another owner stands on the path of an unresolved claim, though claims  *)
(* outlive leases and their authors: revalidateClaimLeasesTx says that the *)
(* claimer's own lease excludes the peer's.  Linked checkouts are outside  *)
(* that argument: their leases on one path stand side by side.             *)
ClaimExcludesPeerLease ==
    (\A v, w \in Worktrees : SameWorktree(v, w)) =>
        \A c \in claims, r \in locks : r.target = c.path => r.owner = c.owner

------------------------------------------------------------------------------
(* What a step may never do. *)

SameRow(r, q) == r.target = q.target /\ r.epoch = q.epoch

Lost(r) == \A q \in locks' : ~SameRow(r, q)

(* A hold that ends leaves an event naming its holder, or is ended by the  *)
(* owner itself; a hold re-granted to its own owner is not an ending.      *)
NoSilentDispossession ==
    [][\A r \in locks :
          Lost(r) /\ (\A q \in locks' : r.target = q.target => r.owner # q.owner)
          => \E e \in audit' : e.target = r.target /\ e.subject = r.owner]_vars

(* A lapsed lease keeps its epoch only across a call that began before the *)
(* lapse: a refresh refuses it, a re-acquire takes a new epoch.            *)
LapsedLeaseIsRegranted ==
    [][\A r \in locks, q \in locks' :
          /\ SameRow(r, q)
          /\ q.expires # r.expires
          /\ now >= r.expires
          /\ ~InFlight(r)
          => \E c \in calls' \ calls : c.owner = r.owner /\ c.tpre < r.expires]_vars

(* The hold a call works under: its owner's row on the declared path, in   *)
(* the call's checkout, unexpired when the call began.                     *)
HoldOfCall(c, r) ==
    /\ r.owner = c.owner
    /\ r.target = c.declared
    /\ SameWorktree(c.worktree, r.worktree)
    /\ c.tpre < r.expires

(* The owner took its live row again for a lease that was over at that     *)
(* time already: a --ttl no longer than the wait for the op-flock.         *)
Undercut(r, at) ==
    \E q \in locks' \ locks :
        SameRow(r, q) /\ q.owner = r.owner /\ q.expires <= at

(* While a call is open and unflagged and the session that took the hold   *)
(* is not provably dead, the hold the call works under is taken away by    *)
(* nobody except its owner or an operator's force, however long past the   *)
(* lease it runs.  The owner's own doings are its release and a re-lock    *)
(* with a lease that ends before the call began (see LeaseAssumption); a   *)
(* legacy row without a checkout may still be adopted by another checkout  *)
(* of its owner.                                                           *)
OpenCallKeepsHold ==
    [][\A c \in calls, r \in locks :
          /\ c.state = "open" /\ ~c.missing
          /\ HoldOfCall(c, r)
          /\ r.worktree # NoWorktree
          /\ probe[r.session] # "dead"
          => \/ \E q \in locks' : HoldOfCall(c, q)
             \/ Undercut(r, c.tpre)
             \/ \E e \in audit' : /\ e.target = r.target
                                  /\ e.subject = r.owner
                                  /\ e.kind \in {"lock_released", "lock_broken"}]_vars
=============================================================================
