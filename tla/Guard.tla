------------------------------- MODULE Guard -------------------------------
(***************************************************************************)
(* The reference-transaction guard (`loto hook ref`,                       *)
(* internal/cli/cmd_hook_ref.go) and the session records it counts         *)
(* (internal/identity).  git calls the hook in the `prepared` phase of a   *)
(* transaction, with the HEAD.lock of the HEAD it will write already       *)
(* holding the new value; the hook refuses three shapes (a HEAD pointed at *)
(* a branch, a stash, a branch deletion) while two or more owners are live *)
(* in the caller's checkout.  Sessions start, rotate their id (/clear),    *)
(* resume an id, die with or without their socket, and have their pid      *)
(* recycled, between any two steps of the hook.                            *)
(*                                                                         *)
(* One transaction carries one row.  An owner is a process when its start  *)
(* time is known and a session id otherwise (actorOwner).                  *)
(***************************************************************************)
EXTENDS Naturals, FiniteSets

CONSTANTS Procs,      \* session processes, each a distinct (pid, start time)
          Pid,        \* [Procs -> pid numbers]: two processes may share one
          Shaky,      \* processes whose environment or start time may be unreadable
          Shells,     \* processes that may start as a bare shell, with no session
          Sids,       \* session ids
          Dirs,       \* git dirs, each with the checkout it serves
          Main,       \* the common dir
          Branches, Oids,
          First,      \* the branch checked out in the common dir at first
          Tips,       \* [Branches -> Oids \cup {None}]: where the branches are at first
          None,
          MaxTxns,    \* bound on protected transactions begun
          MaxEvents   \* bound on what happens besides: a /clear, a session entering
                      \* another checkout, a pid recycled, a claim, a HEAD detached, a
                      \* branch made, a killed git, an unreadable store, an
                      \* unreadable session record, a record a month old

ASSUME GuardAssumption ==
    /\ Pid \in [Procs -> Nat] /\ Shaky \subseteq Procs /\ Shells \subseteq Procs
    /\ Main \in Dirs /\ First \in Branches /\ Tips \in [Branches -> Oids \cup {None}]
    /\ None \notin Procs \cup Sids \cup Dirs \cup Branches \cup Oids
    /\ Branches \cap Oids = {} /\ Procs \cap Sids = {} /\ IsFiniteSet(Sids)
    /\ MaxTxns \in Nat /\ MaxEvents \in Nat

VARIABLES
    up,      \* [Procs -> {"new", "up", "gone"}]
    sock,    \* processes whose messaging socket file exists
    sid,     \* the session id each process answers to, None for a bare shell
    at,      \* the checkout each process works in
    rec,     \* ~/.loto/session/<sid>.json
    head,    \* the HEAD of each git dir: a branch, an oid, or None (no HEAD file)
    lock,    \* the branch each HEAD.lock names
    marker,  \* git dirs with the `locked` file
    tip,     \* the oid of each branch
    claim,   \* the owner holding the checkout-wide claim
    txn,     \* the transaction each process has under way
    txns, events

people == <<up, sock, sid, at>>
repo == <<head, lock, marker, tip>>
bounds == <<txns, events>>
vars == <<up, sock, sid, at, rec, head, lock, marker, tip, claim, txn, txns, events>>

Owners == Procs \cup Sids
NoRec == [uuid |-> None, pid |-> None, start |-> None, sock |-> None,
          repo |-> None, old |-> FALSE]
Idle == [pc |-> "idle", shape |-> "none", dir |-> None, to |-> None, birth |-> FALSE,
         unread |-> {}]     \* the records the count of this transaction skipped

Init ==
    /\ up = [p \in Procs |-> "new"] /\ sock = {}
    /\ sid = [p \in Procs |-> None] /\ at = [p \in Procs |-> Main]
    /\ rec = [s \in Sids |-> NoRec]
    /\ head = [d \in Dirs |-> IF d = Main THEN First ELSE None]
    /\ lock = [d \in Dirs |-> None] /\ marker = {}
    /\ tip = Tips
    /\ claim = None
    /\ txn = [p \in Procs |-> Idle]
    /\ txns = 0 /\ events = 0

Up(p) == up[p] = "up"
Event == events < MaxEvents /\ events' = events + 1
InUse == {sid[p] : p \in {q \in Procs : Up(q)}}

----------------------------------------------------------------------------
(* What one call of a process can read of itself: its pid (CLAUDE_PID,     *)
(* LOTO_PID or a numeric socket name), the start time of that pid, and its *)
(* socket.  Without a pid there is no start time; pid and socket may each  *)
(* be known without the other.                                             *)
Looks(p) ==
    IF p \in Shaky
    THEN {l \in [pid: BOOLEAN, start: BOOLEAN, sock: BOOLEAN] : l.start => l.pid}
    ELSE {[pid |-> TRUE, start |-> TRUE, sock |-> TRUE]}

(* The owner a call of p resolves to: its process when the start time is    *)
(* known from the environment or from the session's record, else the        *)
(* session id.                                                              *)
ActorOwner(p, look) ==
    CASE look.start -> p
      [] ~look.start /\ rec[sid[p]].start # None -> rec[sid[p]].start
      [] OTHER -> sid[p]

(* Seeded fault: each witness the new call cannot read is kept from the old  *)
(* record on its own.                                                        *)
RecordSessionByField(p, owner, look) ==
    LET old == rec[sid[p]]
        Or(known, before) == IF known THEN p ELSE before
    IN  [uuid |-> owner, pid |-> Or(look.pid, old.pid),
         start |-> Or(look.start, old.start), sock |-> Or(look.sock, old.sock),
         repo |-> at[p], old |-> FALSE]

(* The record whoami leaves: pid and start time are replaced together, or    *)
(* kept together when no pid is known and the old record is this owner's.    *)
RecordSession(p, owner, look) ==
    LET old == rec[sid[p]]
        keep == ~look.pid /\ old.uuid = owner
        Or(known, before) == IF known THEN p ELSE IF keep THEN before ELSE None
    IN  [uuid |-> owner, pid |-> Or(look.pid, old.pid),
         start |-> Or(look.start, old.start), sock |-> Or(look.sock, old.sock),
         repo |-> at[p], old |-> FALSE]

(* `loto whoami`, the SessionStart hook's command.  *)
Whoami(p) ==
    /\ Up(p) /\ sid[p] # None
    /\ \E look \in Looks(p) :
          rec' = [rec EXCEPT ![sid[p]] = RecordSession(p, ActorOwner(p, look), look)]
    /\ UNCHANGED <<people, repo, claim, txn, bounds>>

(* The process, if any, that has the pid of q now. *)
OccupantsOf(q) == {r \in Procs : Up(r) /\ Pid[r] = Pid[q]}

(* Seeded fault: a start time that cannot be read again counts as a mismatch. *)
SessionVerdictUnreadableDead(r, blind) ==
    CASE r.sock # None /\ r.sock \notin sock -> "dead"
      [] r.pid = None -> IF r.sock # None THEN "live" ELSE "unknown"
      [] OccupantsOf(r.pid) = {} -> "dead"
      [] r.start # None -> IF OccupantsOf(r.pid) = {r.start} \ blind THEN "proven" ELSE "dead"
      [] OTHER -> "live"

(* The session oracle over one record; blind holds the processes whose start  *)
(* time cannot be read now.                                                   *)
SessionVerdict(r, blind) ==
    CASE r.sock # None /\ r.sock \notin sock -> "dead"
      [] r.pid = None -> IF r.sock # None THEN "live" ELSE "unknown"
      [] OccupantsOf(r.pid) = {} -> "dead"
      [] r.start # None /\ OccupantsOf(r.pid) \cap blind = {}
            -> IF OccupantsOf(r.pid) = {r.start} THEN "proven" ELSE "dead"
      [] OTHER -> "live"

Counts(r, blind) == r.uuid # None /\ SessionVerdict(r, blind) \in {"live", "proven"}

(* A record written by the process p, both sides' start times known. *)
SameProcess(r, p, look) ==
    look.start /\ r.start # None /\ r.pid = p /\ r.start = p

(* The caller's other ids, when its current record is its own process's.     *)
DropRotatedSelfIDs(live, p, look) ==
    IF sid[p] \in live /\ SameProcess(rec[sid[p]], p, look)
    THEN {s \in live : s = sid[p] \/ ~SameProcess(rec[s], p, look)}
    ELSE live

(* Seeded fault: the live owners of the machine. *)
LiveOwnerUUIDs(d, p, look, blind, unread) ==
    LET live == {s \in Sids \ unread : Counts(rec[s], blind)}
    IN  {rec[s].uuid : s \in DropRotatedSelfIDs(live, p, look)}

(* The live owners whose record names checkout d.  A record that cannot be    *)
(* read or parsed is skipped, and a session directory that cannot be read is  *)
(* an empty one: unread.                                                      *)
LiveOwnerUUIDsInRepo(d, p, look, blind, unread) ==
    LET live == {s \in Sids \ unread : rec[s].repo = d /\ Counts(rec[s], blind)}
    IN  {rec[s].uuid : s \in DropRotatedSelfIDs(live, p, look)}

----------------------------------------------------------------------------
(* Sessions (external: Claude Code and the operating system).  *)

Starts(p) ==
    /\ up[p] = "new" /\ OccupantsOf(p) = {}
    /\ \/ \E s \in Sids \ InUse : sid' = [sid EXCEPT ![p] = s]
       \/ p \in Shells /\ UNCHANGED sid
    /\ IF \E q \in Procs : up[q] = "gone" /\ Pid[q] = Pid[p] THEN Event ELSE UNCHANGED events
    /\ up' = [up EXCEPT ![p] = "up"] /\ sock' = sock \cup {p}
    /\ UNCHANGED <<at, rec, repo, claim, txn, txns>>

(* /clear: a fresh id, the process stays. *)
Clears(p) ==
    /\ Up(p) /\ sid[p] # None /\ txn[p] = Idle /\ Event
    /\ \E s \in Sids \ InUse :
          rec[s] = NoRec /\ sid' = [sid EXCEPT ![p] = s]
    /\ UNCHANGED <<up, sock, at, rec, repo, claim, txn, txns>>

Enters(p, d) ==
    /\ Up(p) /\ txn[p] = Idle /\ head[d] # None /\ at[p] # d /\ Event
    /\ at' = [at EXCEPT ![p] = d]
    /\ UNCHANGED <<up, sock, sid, rec, repo, claim, txn, txns>>

(* The process ends; a killed one leaves its socket file. *)
Dies(p) ==
    /\ Up(p) /\ txn[p] = Idle
    /\ up' = [up EXCEPT ![p] = "gone"]
    /\ sock' \in {sock, sock \ {p}}
    /\ UNCHANGED <<sid, at, rec, repo, claim, txn, bounds>>

(* A record is not refreshed for sessionGCMaxAge. *)
Ages(s) ==
    /\ Event /\ rec[s] # NoRec /\ ~rec[s].old
    /\ rec' = [rec EXCEPT ![s].old = TRUE]
    /\ UNCHANGED <<people, repo, claim, txn, txns>>

(* GCSessions: old records go, unless the caller's own or pinned by the owner *)
(* of a hold.                                                                 *)
GCSessions(p) ==
    LET stale == {s \in Sids : rec[s].old /\ s # sid[p] /\ rec[s].uuid # claim}
    IN  /\ Up(p) /\ stale # {}
        /\ rec' = [s \in Sids |-> IF s \in stale THEN NoRec ELSE rec[s]]
        /\ UNCHANGED <<people, repo, claim, txn, bounds>>

(* `loto claim .`, refused while another owner holds; the lease lapses or is  *)
(* given back.                                                                *)
ClaimsAll(p) ==
    /\ Up(p) /\ sid[p] # None /\ claim = None /\ Event
    /\ \E l \in Looks(p) : claim' = ActorOwner(p, l)
    /\ UNCHANGED <<people, rec, repo, txn, txns>>

ClaimEnds ==
    /\ claim # None /\ claim' = None
    /\ UNCHANGED <<people, rec, repo, txn, bounds>>

----------------------------------------------------------------------------
(* git (external): the transactions that reach the hook. *)

HeadOid(d) == IF head[d] \in Branches THEN tip[head[d]] ELSE head[d]

Begins(p, shape, dir, to) ==
    /\ Up(p) /\ txn[p] = Idle /\ txns < MaxTxns
    /\ txns' = txns + 1
    /\ txn' = [txn EXCEPT ![p] = [Idle EXCEPT !.pc = "prepared", !.shape = shape,
                                              !.dir = dir, !.to = to]]
    /\ UNCHANGED <<people, rec, claim, events, head>>

CheckedOut(b) == \E d \in Dirs : head[d] = b

Switch(p, b) ==
    /\ lock[at[p]] = None /\ tip[b] # None /\ ~CheckedOut(b)
    /\ Begins(p, "head-symref", at[p], b)
    /\ lock' = [lock EXCEPT ![at[p]] = b]
    /\ UNCHANGED <<marker, tip>>

WorktreeAdd(p, d, b) ==
    /\ head[d] = None /\ lock[d] = None /\ d \notin marker
    /\ tip[b] # None /\ ~CheckedOut(b)
    /\ Begins(p, "add", d, b)
    /\ lock' = [lock EXCEPT ![d] = b] /\ marker' = marker \cup {d}
    /\ UNCHANGED tip

(* `git branch -m`: the branch is renamed, then the HEAD of the git dir that  *)
(* has it checked out, whichever that is, is pointed at the new name.         *)
Rename(p, d, b) ==
    /\ head[d] \in Branches /\ tip[head[d]] # None /\ tip[b] = None /\ lock[d] = None
    /\ Begins(p, "head-symref", d, b)
    /\ tip' = [tip EXCEPT ![b] = tip[head[d]], ![head[d]] = None]
    /\ lock' = [lock EXCEPT ![d] = b]
    /\ UNCHANGED marker

Stash(p) ==
    /\ Begins(p, "stash", at[p], None)
    /\ UNCHANGED <<lock, marker, tip>>

BranchDelete(p, b) ==
    /\ tip[b] # None /\ ~CheckedOut(b)
    /\ Begins(p, "branch-delete", None, b)
    /\ UNCHANGED <<lock, marker, tip>>

(* Updates no shape names: a new branch, a commit or a HEAD set to an oid.    *)
(* The hook passes them at the shape test.                                    *)
Unprotected(p) ==
    /\ Up(p) /\ txn[p] = Idle /\ Event
    /\ \/ \E b \in Branches : /\ tip[b] = None /\ HeadOid(at[p]) # None
                              /\ tip' = [tip EXCEPT ![b] = HeadOid(at[p])]
                              /\ UNCHANGED head
       \/ \E o \in Oids : /\ lock[at[p]] = None /\ head[at[p]] # o
                          /\ head' = [head EXCEPT ![at[p]] = o] /\ UNCHANGED tip
    /\ UNCHANGED <<people, rec, lock, marker, claim, txn, txns>>

----------------------------------------------------------------------------
(* The hook. *)

Goes(p, pc) == txn' = [txn EXCEPT ![p].pc = pc]

HeadShape(p) == txn[p].shape \in {"head-symref", "add"}

(* The caller's HEAD is detached at the commit the row's branch names. *)
HeadReattach(p) ==
    LET h == head[at[p]] IN h \in Oids /\ tip[txn[p].to] = h

(* Shape, session and re-attach tests. *)
HookShape(p) ==
    /\ txn[p].pc = "prepared"
    /\ CASE sid[p] = None -> Goes(p, "admitted")
         [] sid[p] # None /\ HeadShape(p) /\ HeadReattach(p) -> Goes(p, "admitted")
         [] OTHER -> Goes(p, "live")
    /\ UNCHANGED <<people, rec, repo, claim, bounds>>

(* The checkout or, later, the store cannot be read: exit 3, which the        *)
(* dispatcher passes.                                                         *)
HookFailsOpen(p) ==
    /\ txn[p].pc \in {"prepared", "verdict"} /\ sid[p] # None /\ Event
    /\ Goes(p, "admitted")
    /\ UNCHANGED <<people, rec, repo, claim, txns>>

(* Records a sweep of the session directory cannot read. *)
Misses(unread) == IF unread = {} THEN UNCHANGED events ELSE Event

(* Where the live gate's verdict leads. *)
Gated(p, alone, unread) ==
    txn' = [txn EXCEPT ![p].pc = IF alone THEN "admitted" ELSE "birth", ![p].unread = unread]

(* The live gate: fewer than two owners, no peer to protect. *)
HookLive(p) ==
    /\ txn[p].pc = "live"
    /\ \E unread \in SUBSET Sids :
          /\ Misses(unread)
          /\ \E alone \in {Cardinality(LiveOwnerUUIDsInRepo(at[p], p, look, blind, unread)) < 2 :
                              look \in Looks(p), blind \in SUBSET Shaky} :
                Gated(p, alone, unread)
    /\ UNCHANGED <<people, rec, repo, claim, txns>>

(* Git dirs whose HEAD.lock is about to write b. *)
HeadLockClaimants(b) == {d \in Dirs : lock[d] = b}

WorktreeUnborn(d) == head[d] = None /\ d \in marker

WorktreeOccupied(d, p, look, blind, unread) ==
    LiveOwnerUUIDsInRepo(d, p, look, blind, unread) # {}

(* Seeded fault: some unborn claimant is enough. *)
HeadWorktreeBirthAny(p, look, blind, unread) ==
    \E d \in HeadLockClaimants(txn[p].to) :
        WorktreeUnborn(d) /\ ~WorktreeOccupied(d, p, look, blind, unread)

(* The one git dir that is about to write the row's value is being built. *)
HeadWorktreeBirth(p, look, blind, unread) ==
    \E d \in Dirs :
        /\ HeadLockClaimants(txn[p].to) = {d}
        /\ WorktreeUnborn(d) /\ ~WorktreeOccupied(d, p, look, blind, unread)

HookBirth(p) ==
    /\ txn[p].pc = "birth"
    /\ \E unread \in SUBSET Sids :
          /\ Misses(unread)
          /\ \E birth \in {HeadShape(p) /\ HeadWorktreeBirth(p, look, blind, unread) :
                              look \in Looks(p), blind \in SUBSET Shaky} :
                IF birth THEN txn' = [txn EXCEPT ![p].pc = "admitted", ![p].birth = TRUE]
                ELSE Goes(p, "verdict")
    /\ UNCHANGED <<people, rec, repo, claim, txns>>

(* The caller's own checkout-wide claim, the environment override, or the     *)
(* refusal.                                                                   *)
HookVerdict(p) ==
    /\ txn[p].pc = "verdict"
    /\ \E look \in Looks(p) :
          IF claim = ActorOwner(p, look) THEN Goes(p, "admitted")
          ELSE Goes(p, "admitted") \/ Goes(p, "refused")
    /\ UNCHANGED <<people, rec, repo, claim, bounds>>

Ends(p) == txn' = [txn EXCEPT ![p] = Idle]

Unlocked(p) == IF HeadShape(p) THEN [lock EXCEPT ![txn[p].dir] = None] ELSE lock

(* git renames HEAD.lock over HEAD; `worktree add` then drops its marker. *)
Commits(p) ==
    LET t == txn[p] IN
    /\ t.pc = "admitted"
    /\ head' = IF HeadShape(p) THEN [head EXCEPT ![t.dir] = t.to] ELSE head
    /\ tip' = IF t.shape = "branch-delete" THEN [tip EXCEPT ![t.to] = None] ELSE tip
    /\ marker' = IF t.shape = "add" THEN marker \ {t.dir} ELSE marker
    /\ lock' = Unlocked(p) /\ Ends(p)
    /\ UNCHANGED <<people, rec, claim, bounds>>

(* git aborts; `worktree add` removes what it had built. *)
Aborts(p) ==
    /\ txn[p].pc = "refused"
    /\ marker' = IF txn[p].shape = "add" THEN marker \ {txn[p].dir} ELSE marker
    /\ lock' = Unlocked(p) /\ Ends(p)
    /\ UNCHANGED <<people, rec, claim, head, tip, bounds>>

(* git is killed before either: HEAD.lock and the marker stay for good. *)
Killed(p) ==
    /\ txn[p].pc # "idle" /\ Event
    /\ Ends(p)
    /\ UNCHANGED <<people, rec, repo, claim, txns>>

----------------------------------------------------------------------------
Next ==
    \/ ClaimEnds
    \/ \E s \in Sids : Ages(s)
    \/ \E p \in Procs :
          \/ Starts(p) \/ Clears(p) \/ Dies(p) \/ Whoami(p) \/ GCSessions(p)
          \/ ClaimsAll(p) \/ Stash(p) \/ Unprotected(p)
          \/ \E d \in Dirs : Enters(p, d)
          \/ \E b \in Branches : Switch(p, b) \/ BranchDelete(p, b)
          \/ \E d \in Dirs, b \in Branches : WorktreeAdd(p, d, b) \/ Rename(p, d, b)
          \/ HookShape(p) \/ HookFailsOpen(p) \/ HookLive(p) \/ HookBirth(p)
          \/ HookVerdict(p) \/ Commits(p) \/ Aborts(p) \/ Killed(p)

Spec == Init /\ [][Next]_vars

----------------------------------------------------------------------------
(* The records whose witnesses are all of one process.  A whoami that knows   *)
(* its socket and not its pid keeps the pid and the start time of the record  *)
(* it replaces (RecordSession), which may be another process's.               *)
Coherent == {s \in Sids : rec[s].sock \in {rec[s].pid, None}}

(* The probe tells the truth about the process whose pid, and socket if any,  *)
(* a record carries:                                                          *)
(* it answers dead only once that process is gone, and proven (a pid matched  *)
(* with its start time) only while it is up.  Pids are recycled, sockets      *)
(* outlive their process, ids are resumed by other processes and whoami runs  *)
(* with part of its environment in between (SessionRecord.Verdict,            *)
(* RecordSession).                                                            *)
ProbeSound ==
    \A s \in Coherent, blind \in SUBSET Shaky :
        rec[s].pid # None =>
            /\ SessionVerdict(rec[s], blind) = "dead" => ~Up(rec[s].pid)
            /\ SessionVerdict(rec[s], blind) = "proven" => Up(rec[s].pid)

(* The other owners that one of these records places, with a process that is  *)
(* up, in p's checkout.                                                       *)
PeersOf(p, records) ==
    {q \in Procs \ {p} : Up(q) /\ \E s \in records : /\ rec[s].pid = q /\ rec[s].repo = at[p]
                                                    /\ rec[s].uuid # rec[sid[p]].uuid}

(* The caller's own record places its process in the checkout it works in. *)
RecordedHere(p) == rec[sid[p]].pid = p /\ rec[sid[p]].repo = at[p]

Passes(p) == txn[p].pc = "live" /\ txn'[p].pc = "admitted"
Counted(p) == txn[p].pc = "live" /\ txn'[p].pc = "birth"

(* The live gate passes the move of a session recorded in this checkout only  *)
(* when no other owner is found in the records it could read: if it read the  *)
(* caller's own record, then no process that another one it read, and whose   *)
(* witnesses are all of that process, places here under another owner is up   *)
(* when it counts, whatever start times are unreadable and whatever ids were  *)
(* rotated (runHookRef, liveOwnerUUIDs).  The gate fails open for the rest: a *)
(* record it could not read, and a record with the witnesses of two processes *)
(* (session.go:84), may each hide a peer.                                     *)
AloneMeansAlone ==
    [][\A p \in Procs :
          Passes(p) /\ RecordedHere(p) /\ sid[p] \notin txn'[p].unread
          => PeersOf(p, Coherent \ txn'[p].unread) = {}]_vars

(* A refusal protects somebody: among sessions whose start times are known, a *)
(* move goes on to be refused only if another process recorded in this very   *)
(* checkout is up, never over the caller's own earlier ids, a dead peer or a  *)
(* session in another checkout (dropRotatedSelfIDs, the Repo filter).         *)
RefusedForAPeer ==
    [][\A p \in Procs \ Shaky :
          /\ Counted(p)
          /\ \A s \in Sids : rec[s].repo = at[p] =>
                rec[s].pid # None /\ ({rec[s].pid} \cup OccupantsOf(rec[s].pid)) \cap Shaky = {}
          => PeersOf(p, Sids) # {}]_vars

(* The birth carve-out writes the HEAD of a worktree being created and of no  *)
(* other: whatever killed `worktree add`s have left behind, a transaction it  *)
(* admits never rewrites a HEAD that exists (headWorktreeBirth).              *)
BirthAdmitsOnlyBirths ==
    [][\A p \in Procs :
          txn[p].birth /\ Commits(p) => head[txn[p].dir] = None]_vars

(* The count is never too low, not even for a session that never ran whoami   *)
(* in this checkout: with every record read, no peer's working tree is handed *)
(* to its branch switch (dropRotatedSelfIDs).                                 *)
NeverTooLow ==
    [][\A p \in Procs :
          Passes(p) /\ txn'[p].unread = {} => PeersOf(p, Coherent) = {}]_vars
============================================================================
