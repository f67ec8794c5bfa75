------------------------------ MODULE WriteGate ------------------------------
(***************************************************************************)
(* The write gate: `loto hook pre` and `loto hook post` around an          *)
(* Edit-family tool call, run against the shared store by every agent      *)
(* (internal/cli/cmd_hook.go).  A hook is a process of its own that        *)
(* sweeps, reads, locks and records in separate transactions; anything     *)
(* may commit in between, other hooks and the other verbs of LockStore.    *)
(*                                                                         *)
(* Left out: candidate claims (to the gate one more reason why an acquire  *)
(* fails) and the observation of file contents (digests, drift reports).   *)
(***************************************************************************)
EXTENDS LockStore

CONSTANTS
    Request,      \* what each tool call asks: [session, worktree, path]
    HookIntent    \* hookAdmitIntent, the intent of a lock the hook takes

ASSUME RequestAssumption ==
    /\ Request \in [CallIds -> [session : Sessions, worktree : Worktrees,
                                path : Targets]]
    /\ HookIntent \in Intents

VARIABLE hook     \* [CallIds -> Hook], where each tool call is

gateVars == <<locks, path_epochs, calls, claims, probe, now, snapshot, audit, hook>>

(***************************************************************************)
(* pc: the hook's next step, then "running" while the tool may write.      *)
(* mode: why the write was let through.  tpre: the clock hookPre read      *)
(* first; at: the clock hookAdmit decided by; both forgotten once used.    *)
(* Two history fields serve the properties: covered, see Covering, as of   *)
(* the commit of the pre-record; ceded, the hold it was admitted on was    *)
(* released by its owner, broken by force, or taken again by its owner for *)
(* a lease that ends before the call began.                                *)
(***************************************************************************)
Hook == [pc : {"idle", "dead", "missing", "drop", "admit", "take", "reread",
               "record", "running", "refused", "posted"},
         mode : {"none", "held", "taken", "raced", "unchecked"},
         tpre : Nat, at : Nat, covered : BOOLEAN, ceded : BOOLEAN]

GateTypeOK == TypeOK /\ hook \in [CallIds -> Hook]

GateInit ==
    /\ Init
    /\ hook = [c \in CallIds |->
           [pc |-> "idle", mode |-> "none", tpre |-> 0, at |-> 0,
            covered |-> FALSE, ceded |-> FALSE]]

------------------------------------------------------------------------------
Owner(c) == SessionOwner[Request[c].session]

(* HoldsCovering: the rows on the path or on a directory above it. *)
HoldsCovering(p) == {r \in locks : CoversPath(r.target, p)}

(* A row of the caller's owner on the very path in its checkout. *)
OwnRows(c) ==
    {r \in locks : /\ r.owner = Owner(c)
                   /\ r.target = Request[c].path
                   /\ SameWorktree(Request[c].worktree, r.worktree)}

(* hookRowsDecide, first half: a row of mine authorizes the write, lapsed  *)
(* or not.                                                                 *)
HeldByMe(c) == OwnRows(c) # {}

(* hookBlocker: a covering row of another actor, live by the clock at. *)
Blocked(c, at) ==
    \E r \in HoldsCovering(Request[c].path) :
        Refuses(Owner(c), Request[c].worktree, Request[c].path,
                [LockHold(r) EXCEPT !.live =
                     ~IsStale(at, r.expires, InFlight(r), probe[r.session])])

Step(c, from, to) == hook[c].pc = from /\ hook' = [hook EXCEPT ![c].pc = to]

Stop(c, pc) == hook' = [hook EXCEPT ![c].pc = pc, ![c].tpre = 0, ![c].at = 0]

Admit(c, mode) ==
    hook' = [hook EXCEPT ![c].pc = "record", ![c].mode = mode, ![c].at = 0]

------------------------------------------------------------------------------
(* hookPre, in the order of the code. *)

HookBegin(c) ==
    /\ hook[c].pc = "idle"
    /\ hook' = [hook EXCEPT ![c].pc = "dead", ![c].tpre = now]
    /\ UNCHANGED vars

HookSweep(c) ==
    \/ Step(c, "dead", "missing") /\ MarkDeadOwnerCalls(hook[c].tpre)
    \/ Step(c, "missing", "drop") /\ MarkPostMissing(hook[c].tpre)
    \/ Step(c, "drop", "admit")   /\ DropFinishedCalls(hook[c].tpre)

(* A sweep that fails is reported and passed over. *)
HookSweepFails(c) ==
    /\ \/ Step(c, "dead", "missing") \/ Step(c, "missing", "drop")
       \/ Step(c, "drop", "admit")
    /\ UNCHANGED vars

(* hookAdmit: read the covering rows and decide, or go on to take the path.*)
HookAdmit(c) ==
    /\ hook[c].pc = "admit"
    /\ \/ /\ HeldByMe(c)
          /\ Admit(c, "held")
       \/ /\ ~HeldByMe(c) /\ Blocked(c, now)
          /\ Stop(c, "refused")
       \/ /\ ~HeldByMe(c) /\ ~Blocked(c, now)
          /\ hook' = [hook EXCEPT ![c].pc = "take", ![c].at = now]
    /\ UNCHANGED vars

(* hookTakeLock: the store's acquire arbitrates the race since the read... *)
HookTake(c) ==
    /\ hook[c].pc = "take"
    /\ \/ /\ Admit(c, "taken")
          /\ \E lag \in 0..MaxLag :
                 AcquireLocks(Request[c].session, Request[c].worktree,
                              {Request[c].path}, HookIntent, DegradedModeTTL, lag)
       \/ Step(c, "take", "reread") /\ UNCHANGED vars

(* ...and a failed acquire reads again, by the clock of the first read.    *)
HookReread(c) ==
    /\ hook[c].pc = "reread"
    /\ \/ /\ HeldByMe(c)
          /\ Admit(c, "raced")
       \/ /\ ~HeldByMe(c) /\ Blocked(c, hook[c].at)
          /\ Stop(c, "refused")
       \/ /\ ~HeldByMe(c) /\ ~Blocked(c, hook[c].at)
          /\ Admit(c, "unchecked")
    /\ UNCHANGED vars

(* Either read may fail: the write goes unchecked, its call is recorded.   *)
HookAdmitFails(c) ==
    /\ hook[c].pc \in {"admit", "reread"}
    /\ Admit(c, "unchecked")
    /\ UNCHANGED vars

(* A lost race and an unchecked write declare no path. *)
Declared(c) == IF hook[c].mode \in {"held", "taken"} THEN Request[c].path ELSE NoPath

(* The owner has an unlapsed hold on the path that names the call's        *)
(* checkout: a legacy row without one may be adopted by another checkout   *)
(* of its owner in mid-call.                                               *)
Covering(c) ==
    \E r \in OwnRows(c) : /\ hook[c].tpre < r.expires
                          /\ NoWorktree \notin {r.worktree, Request[c].worktree}

(* Seeded fault: the call is stamped when it commits, not when the hook    *)
(* read the clock its admission rests on.                                  *)
HookRecordAtCommit(c) ==
    /\ hook[c].pc = "record"
    /\ RecordCallPre(c, Request[c].session, Request[c].worktree, Declared(c), 0)
    /\ hook' = [hook EXCEPT ![c].pc = "running", ![c].tpre = 0,
                   ![c].covered = Covering(c)]

HookRecord(c) ==
    /\ hook[c].pc = "record"
    /\ RecordCallPre(c, Request[c].session, Request[c].worktree, Declared(c),
                     now - hook[c].tpre)
    /\ hook' = [hook EXCEPT ![c].pc = "running", ![c].tpre = 0,
                   ![c].covered = Covering(c)]

(* hookFailOpen: a failed observation or record, or the harness's own      *)
(* timeout, lets the tool run without a record.                            *)
Preparing(c) ==
    hook[c].pc \in {"dead", "missing", "drop", "admit", "take", "reread", "record"}

HookFailOpen(c) ==
    /\ Preparing(c)
    /\ hook' = [hook EXCEPT ![c].pc = "running", ![c].mode = "unchecked",
                   ![c].tpre = 0, ![c].at = 0]
    /\ UNCHANGED vars

(* hookPost; without a pre-record the post is an ErrUnknownCall skip.  A   *)
(* post may also never come: the harness or its session died.              *)
HookEnd(c) ==
    /\ hook[c].pc = "running"
    /\ hook' = [hook EXCEPT ![c] = [@ EXCEPT !.pc = "posted", !.mode = "none",
                                            !.covered = FALSE, !.ceded = FALSE]]
    /\ \/ \E k \in calls, changed \in SUBSET {Request[c].path} :
              k.id = c /\ RecordCallPost(k, changed, 0)
       \/ (\A k \in calls : k.id # c) /\ UNCHANGED vars

------------------------------------------------------------------------------
(* The other verbs, by anyone. *)

Cede(c) ==
    /\ hook[c].pc \in {"record", "running"}
    /\ \/ \E e \in audit' : /\ e.target = Request[c].path
                            /\ e.subject = Owner(c)
                            /\ e.kind \in {"lock_released", "lock_broken"}
       \/ \E k \in calls, r \in OwnRows(c) : k.id = c /\ Undercut(r, k.tpre)

StoreStep ==
    /\ \/ Acquire \/ Release \/ ReleaseAll \/ Break \/ Refresh \/ Doctor
       \/ \E s \in Sessions : SessionDies(s)
    /\ hook' = [c \in CallIds |-> [hook[c] EXCEPT !.ceded = @ \/ Cede(c)]]

(* MaxLag also bounds how long a pre-hook may take. *)
GateTick ==
    /\ \A c \in CallIds : Preparing(c) => now < hook[c].tpre + MaxLag
    /\ Tick
    /\ UNCHANGED hook

GateNext ==
    \/ \E c \in CallIds :
           \/ HookBegin(c) \/ HookSweep(c) \/ HookSweepFails(c)
           \/ HookAdmit(c) \/ HookTake(c) \/ HookReread(c) \/ HookAdmitFails(c)
           \/ HookRecord(c) \/ HookFailOpen(c) \/ HookEnd(c)
    \/ StoreStep
    \/ GateTick

GateSpec == GateInit /\ [][GateNext]_gateVars

------------------------------------------------------------------------------
(* The tool of call c may be writing under a checked admission, its call   *)
(* is in flight in the store's eyes, and no session of its owner is        *)
(* provably dead (a row is judged by the session that took it).            *)
Writing(c) ==
    /\ hook[c].pc = "running"
    /\ hook[c].mode \in {"held", "taken", "raced"}
    /\ ~hook[c].ceded
    /\ \E k \in calls : k.id = c /\ k.state = "open" /\ ~k.missing
    /\ \A s \in Sessions : SessionOwner[s] = Owner(c) => probe[s] # "dead"

Collide(c, d) ==
    /\ Owner(c) # Owner(d)
    /\ SameWorktree(Request[c].worktree, Request[d].worktree)
    /\ Request[c].path = Request[d].path

(* The conflict rule of docs/write-gate.md, for the calls with a Covering  *)
(* hold when their pre-record committed: two actors never write one file   *)
(* of one checkout at the same time, and nobody else's live hold comes to  *)
(* cover a file while such a call may write it, however long the call runs *)
(* past its lease.  It ends where the owner gives the hold up: releases    *)
(* it, or takes it again with a --ttl that ends before the call began.     *)
CoveredWriterExcludes ==
    LET covered == {c \in CallIds : Writing(c) /\ hook[c].covered}
    IN  /\ \A c, d \in covered : ~Collide(c, d)
        /\ \A c \in covered, r \in locks :
               ~Refuses(Owner(c), Request[c].worktree, Request[c].path, LockHold(r))
=============================================================================
