----------------------------- MODULE Observation -----------------------------
(***************************************************************************)
(* What the tree hooks saw: the per-path half of `loto hook pre` and       *)
(* `loto hook post` (internal/cli/cmd_hook.go) over the path tables of the *)
(* store (hook_calls.go) and the drift layer (tree_events.go).  A hook     *)
(* reads numbers and bytes outside the transaction it later records them   *)
(* in; tools, people and other hooks go on meanwhile.                      *)
(*                                                                         *)
(* The tables are keyed by checkout as well as path, so files of sibling   *)
(* checkouts never meet: the model has one checkout.  Locks are reduced to *)
(* the one live holder of each file and its epoch (LockStore has the rest, *)
(* WriteGate the admission).  A hook reads all its files in one step.      *)
(***************************************************************************)
EXTENDS Naturals, FiniteSets

CONSTANTS
    Files, Owners, Calls,
    Declares,       \* [Calls -> SUBSET Files], the path an Edit was admitted on
    Subagents,      \* the calls whose event carries an agent_id
    Digests,        \* content hashes
    Committed,      \* the hash HEAD has for every file
    Results,        \* what a write may leave: <<digest, still there>>
    NoOwner, NoDigest, NoTime, NoState, Outside,
    TReport, InFlightMaxAge, TreeActedWindow,
    UndeliveredAge,     \* treeReportUndeliveredAge
    RetentionMax,       \* treeEventsRetentionMax
    MaxHook,            \* the longest a pre-hook takes
    MaxTime, MaxEpoch, MaxDeaths,
    MaxWrites,          \* of one file, MaxOutside of them from outside
    MaxOutside

ASSUME ObservationAssumption ==
    /\ Declares \in [Calls -> SUBSET Files]
    /\ Subagents \subseteq Calls /\ Committed \in Digests
    /\ Results \subseteq (Digests \X {TRUE}) \union ({NoDigest} \X BOOLEAN)
    /\ NoOwner \notin Owners /\ NoDigest \notin Digests /\ Outside \notin Calls
    /\ NoTime \notin Nat
    /\ NoState \notin [digest : Digests \union {NoDigest}, stat : Nat]
    /\ {TReport, InFlightMaxAge, TreeActedWindow, UndeliveredAge, RetentionMax,
        MaxHook, MaxTime, MaxWrites, MaxOutside, MaxEpoch, MaxDeaths} \subseteq Nat
    /\ MaxHook <= TReport

VARIABLES
    disk,       \* [Files -> [digest, stat]], the work tree; stat 0 is "absent"
    wrote,      \* history: [file, digest, stat, by], who wrote what
    writes,     \* history: [Files -> how often a tool and others wrote it]
    lock,       \* [Files -> [owner, epoch, last]], the holder hookLiveHolders names,
                \* and the last epoch given out
    path_seq,   \* [Files -> [Epochs -> [seq, digest]]]
    observed,   \* [Files -> [Epochs -> [digest, stat] or NoState]]
    calls,      \* hook_calls joined with hook_call_paths, by call id
    hook,       \* [Calls -> where the tool call is, what its hook has read]
    events,     \* tree_events with their spanners
    reports,    \* tree_reports
    handed,     \* history: <<report, call>>, marked as given to its model
    overtaken,  \* history: files of which an observation was recorded after the
                \* file changed again, drift after the tenure it was seen in, or
                \* bytes numbered twice, by a call that first saw them at post
    filed,      \* the tree_change_reported rows
    expired,    \* the tree_report_dropped rows
    owner,      \* [Calls -> Owners], fixed; an owner is one session here
    dead,       \* owners whose session is provably gone
    now

treeVars == <<disk, wrote, writes, lock>>
storeVars == <<path_seq, observed, calls, events, reports, filed, expired, overtaken>>
vars == <<treeVars, storeVars, hook, handed, owner, dead, now>>

Epochs == 0..MaxEpoch      \* 0 is the epoch of a file nobody holds

Idle == [pc |-> "idle", tpre |-> 0, obs |-> <<>>, pending |-> {},
         noted |-> {}, lost |-> FALSE]

Init ==
    /\ disk = [f \in Files |-> [digest |-> Committed, stat |-> 1]]
    /\ wrote = {[file |-> f, digest |-> Committed, stat |-> 1, by |-> Outside] : f \in Files}
    /\ writes = [f \in Files |-> [all |-> 0, outside |-> 0]]
    /\ lock = [f \in Files |-> [owner |-> NoOwner, epoch |-> 0, last |-> 0]]
    /\ path_seq = [f \in Files |-> [e \in Epochs |-> [seq |-> 0, digest |-> NoDigest]]]
    /\ observed = [f \in Files |-> [e \in Epochs |-> NoState]]
    /\ calls = <<>>
    /\ hook = [c \in Calls |-> Idle]
    /\ events = {} /\ reports = {} /\ filed = {} /\ expired = {}
    /\ handed = {} /\ overtaken = {}
    /\ owner \in [Calls -> Owners] /\ dead = {}
    /\ now = 0

Alive(c) == owner[c] \notin dead

Preparing(c) == hook[c].pc \in {"read", "drift", "pending", "deliver", "record"}

------------------------------------------------------------------------------
(* Who spans a transition, and what is filed about it. *)

Open(c) == c \in DOMAIN calls /\ calls[c].state = "open"

(* spannersTx: by interval of numbers, a call that has not posted has no   *)
(* upper end.                                                              *)
Spanners(f, epoch, seq, observer) ==
    {c \in DOMAIN calls :
        /\ owner[c] # observer
        /\ f \in DOMAIN calls[c].paths
        /\ calls[c].paths[f].epoch = epoch
        /\ calls[c].paths[f].seq < seq
        /\ \/ Open(c)
           \/ f \in DOMAIN calls[c].post /\ calls[c].post[f] >= seq}

(* classifyTreeEvent, the rows of the verdict table from the top. *)
Verdict(in, contested) ==
    CASE in.drift                         -> "drift"
      [] ~in.drift /\ in.epochNow # in.epoch -> "row1"
      [] ~in.drift /\ in.epochNow = in.epoch /\ in.holder = in.observer ->
             IF ~contested THEN "row2" ELSE IF in.declared THEN "row3" ELSE "row4"
      [] ~in.drift /\ in.epochNow = in.epoch /\ in.holder \notin {in.observer, NoOwner} ->
             IF contested THEN "row6" ELSE "row5"
      [] OTHER -> IF contested THEN "row7" ELSE "row8"

Addressees(in, rule, spanners) ==
    IF rule = "row8" \/ (rule = "row2" /\ in.declared) THEN {}
    ELSE ({in.holder, in.observer} \union {owner[c] : c \in spanners}
          \union (IF in.epochNow # in.epoch THEN {in.holderNow} ELSE {})) \ {NoOwner}

(* fileTreeEventTx.  History: seen, the observer had looked at the file    *)
(* before.                                                                 *)
TreeEvent(in) ==
    LET spanners == Spanners(in.file, in.epoch, in.seq, in.observer)
    IN  [id |-> in.id, call |-> in.id[1], file |-> in.file, epoch |-> in.epoch,
         seq |-> in.seq, pre |-> in.pre, post |-> in.post, at |-> in.at,
         rule |-> Verdict(in, spanners # {}), spanners |-> spanners,
         seen |-> in.seen]

NewReports(ins) ==
    UNION {{[event |-> in.id, to |-> o, at |-> in.at, delivered |-> NoTime, acted |-> FALSE]
              : o \in Addressees(in, TreeEvent(in).rule, TreeEvent(in).spanners)} : in \in ins}

ReportId(r) == <<r.event, r.to>>

File(ins, standing) ==
    /\ events' = events \union {TreeEvent(in) : in \in ins}
    /\ reports' = standing \union NewReports(ins)
    /\ filed' = filed \union {ReportId(r) : r \in NewReports(ins)}

------------------------------------------------------------------------------
(* hookObserve: the files under a live lock, the files git status lists    *)
(* and the declared one, with the numbers that hold before any byte is     *)
(* read (line: what the numbers were, per epoch).                          *)

Watched(declared) ==
    declared \union {f \in Files : lock[f].owner # NoOwner \/ disk[f].digest # Committed}

Look(declared) ==
    [f \in Watched(declared) |->
        [locked |-> lock[f].owner # NoOwner, declared |-> f \in declared,
         holder |-> lock[f].owner, epoch |-> lock[f].epoch,
         line |-> path_seq[f], state |-> NoState]]

HookLook(c) ==
    /\ hook[c].pc = "idle" /\ Alive(c)
    /\ hook' = [hook EXCEPT ![c] = [@ EXCEPT !.pc = "read", !.tpre = now,
                                            !.obs = Look(Declares[c])]]
    /\ UNCHANGED <<treeVars, storeVars, handed, owner, dead, now>>

(* hookReadPaths. *)
HookRead(c) ==
    /\ hook[c].pc = "read" /\ Alive(c)
    /\ hook' = [hook EXCEPT ![c].pc = "drift",
                            ![c].obs = [f \in DOMAIN @ |-> [@[f] EXCEPT !.state = disk[f]]]]
    /\ UNCHANGED <<treeVars, storeVars, handed, owner, dead, now>>

(* inFlightCallRecordedTx. *)
Covered(f, epoch) ==
    \E k \in DOMAIN calls : /\ Open(k)
                            /\ f \in DOMAIN calls[k].paths
                            /\ calls[k].paths[f].epoch = epoch

(* Seeded fault: a change is drift whether or not a call covers it. *)
DriftedCoveredToo(obs) ==
    {f \in DOMAIN obs :
        /\ obs[f].locked
        /\ observed[f][obs[f].epoch] \notin {NoState, obs[f].state}}

(* driftOnePathTx: a known file that differs and that no open call covers. *)
Drifted(obs) ==
    {f \in DOMAIN obs :
        /\ obs[f].locked
        /\ observed[f][obs[f].epoch] \notin {NoState, obs[f].state}
        /\ ~Covered(f, obs[f].epoch)}

FirstSeen(obs) ==
    {f \in DOMAIN obs : obs[f].locked /\ observed[f][obs[f].epoch] = NoState}

(* RecordDrift. *)
RecordDrift(c) ==
    LET obs == hook[c].obs
        drifted == Drifted(obs)
        next(f) == [seq |-> path_seq[f][obs[f].epoch].seq + 1, digest |-> obs[f].state.digest]
        input(f) ==
            [id |-> <<c, "drift", f>>, drift |-> TRUE, file |-> f, epoch |-> obs[f].epoch,
             epochNow |-> obs[f].epoch, holder |-> obs[f].holder, holderNow |-> obs[f].holder,
             observer |-> owner[c], declared |-> FALSE, seq |-> next(f).seq,
             pre |-> observed[f][obs[f].epoch].digest, post |-> obs[f].state.digest,
             at |-> hook[c].tpre, seen |-> FALSE]
    IN  /\ path_seq' = [f \in Files |->
               IF f \in drifted THEN [path_seq[f] EXCEPT ![obs[f].epoch] = next(f)]
                                ELSE path_seq[f]]
        /\ observed' = [f \in Files |->
               IF f \in drifted \union FirstSeen(obs)
               THEN [observed[f] EXCEPT ![obs[f].epoch] = obs[f].state]
               ELSE observed[f]]
        /\ File({input(f) : f \in drifted}, reports)
        /\ overtaken' = overtaken
               \union {f \in drifted \union FirstSeen(obs) : obs[f].state # disk[f]}
               \union {f \in drifted : obs[f].epoch # lock[f].epoch}
        /\ UNCHANGED <<calls, expired>>

AfterDrift(c) == IF c \in Subagents THEN "record" ELSE "pending"

(* A drift pass that fails is reported and passed over. *)
HookDrift(c) ==
    /\ hook[c].pc = "drift" /\ Alive(c)
    /\ hook' = [hook EXCEPT ![c].pc = AfterDrift(c)]
    /\ RecordDrift(c) \/ UNCHANGED storeVars
    /\ UNCHANGED <<treeVars, handed, owner, dead, now>>

(* DeliverReports reads what waits for its owner...                        *)
HookPending(c) ==
    LET waiting == {ReportId(r) : r \in {q \in reports : q.to = owner[c] /\ q.delivered = NoTime}}
    IN  /\ hook[c].pc = "pending" /\ Alive(c)
        /\ hook' = [hook EXCEPT ![c].pc = IF waiting = {} THEN "record" ELSE "deliver",
                                ![c].pending = waiting]
        /\ UNCHANGED <<treeVars, storeVars, handed, owner, dead, now>>

(* ...and takes, in one transaction, what nobody took since. *)
Taken(c) ==
    {r \in reports : ReportId(r) \in hook[c].pending /\ r.delivered = NoTime}

(* Seeded fault: all that was read is handed over, taken by now or not. *)
HookDeliverAsRead(c) ==
    /\ hook[c].pc = "deliver" /\ Alive(c)
    /\ hook' = [hook EXCEPT ![c].pc = "record", ![c].pending = {}]
    /\ reports' = (reports \ Taken(c)) \union
                  {[r EXCEPT !.delivered = hook[c].tpre] : r \in Taken(c)}
    /\ handed' = handed \union {<<id, c>> : id \in hook[c].pending}
    /\ UNCHANGED <<treeVars, path_seq, observed, calls, events, filed, expired, overtaken,
                   owner, dead, now>>

(* A report counts as handed with the commit that marks it delivered.  The *)
(* hook prints it only after that: a hook killed in between leaves it      *)
(* marked and unseen, which this step does not tell apart.                 *)
HookDeliver(c) ==
    /\ hook[c].pc = "deliver" /\ Alive(c)
    /\ hook' = [hook EXCEPT ![c].pc = "record", ![c].pending = {}]
    /\ reports' = (reports \ Taken(c)) \union
                  {[r EXCEPT !.delivered = hook[c].tpre] : r \in Taken(c)}
    /\ handed' = handed \union {<<ReportId(r), c>> : r \in Taken(c)}
    /\ UNCHANGED <<treeVars, path_seq, observed, calls, events, filed, expired, overtaken,
                   owner, dead, now>>

HookDeliverFails(c) ==
    /\ hook[c].pc \in {"pending", "deliver"} /\ Alive(c)
    /\ hook' = [hook EXCEPT ![c].pc = "record", ![c].pending = {}]
    /\ UNCHANGED <<treeVars, storeVars, handed, owner, dead, now>>

(* Seeded fault: the number in force when the record commits. *)
SeqPreAtCommit(o, f) == path_seq[f][o.epoch].seq

(* The lower of the number read with the bytes and the one in force now.   *)
SeqPre(o, f) ==
    LET seen == o.line[o.epoch].seq
        current == path_seq[f][o.epoch].seq
    IN  IF seen < current THEN seen ELSE current

(* RecordCallPre, its paths. *)
HookRecord(c) ==
    LET obs == hook[c].obs
        row(f) == [locked |-> obs[f].locked, declared |-> obs[f].declared,
                   holder |-> obs[f].holder, epoch |-> obs[f].epoch,
                   seq |-> SeqPre(obs[f], f), state |-> obs[f].state]
    IN  /\ hook[c].pc = "record" /\ Alive(c)
        /\ calls' = [k \in DOMAIN calls \union {c} |->
               IF k = c THEN [tpre |-> hook[c].tpre, ended |-> NoTime, state |-> "open",
                              paths |-> [f \in DOMAIN obs |-> row(f)], post |-> <<>>]
                        ELSE calls[k]]
        /\ hook' = [hook EXCEPT ![c] = [@ EXCEPT !.pc = "running", !.obs = <<>>, !.tpre = 0,
                       !.noted = {<<f, obs[f].epoch>> : f \in DOMAIN obs}]]
        /\ UNCHANGED <<treeVars, path_seq, observed, events, reports, filed, expired,
                       overtaken, handed, owner, dead, now>>

(* hookFailOpen: the tool runs, its call is not on record.  What it writes *)
(* from now on are outside writes to the model, and its post is a skip.    *)
HookFailOpen(c) ==
    /\ hook[c].pc = "record" /\ Alive(c)
    /\ hook' = [hook EXCEPT ![c] = [Idle EXCEPT !.pc = "done"]]
    /\ UNCHANGED <<treeVars, storeVars, handed, owner, dead, now>>

------------------------------------------------------------------------------
(* hookPost. *)

(* hookAddRecordedPaths: a recorded file that is clean and unlocked now is *)
(* read again and keeps what the record says of its lock.  The locks, the  *)
(* numbers and the bytes, which the pre-hook reads one after the other,    *)
(* are one look here: the call has ended, and only an outsider's write or  *)
(* another call's could fall between the reads.                            *)
Recorded(c) == IF c \in DOMAIN calls THEN calls[c].paths ELSE <<>>

PostObserve(c) ==
    LET seen == Look({})
        again(f) == [locked |-> Recorded(c)[f].locked, declared |-> Recorded(c)[f].declared,
                     holder |-> Recorded(c)[f].holder, epoch |-> Recorded(c)[f].epoch,
                     line |-> path_seq[f], state |-> disk[f]]
    IN  /\ hook[c].pc = "running" /\ Alive(c)
        /\ hook' = [hook EXCEPT ![c].pc = "post",
               ![c].obs = [f \in DOMAIN seen \union DOMAIN Recorded(c) |->
                              IF f \in DOMAIN seen THEN [seen[f] EXCEPT !.state = disk[f]]
                                                   ELSE again(f)]]
        /\ UNCHANGED <<treeVars, storeVars, handed, owner, dead, now>>

(* postOnePathTx: a file first seen at post has no pre-state. *)
Before(c, f, o) ==
    IF f \in DOMAIN Recorded(c)
    THEN Recorded(c)[f]
    ELSE [locked |-> o.locked, declared |-> o.declared, holder |-> o.holder,
          epoch |-> o.epoch, seq |-> path_seq[f][o.epoch].seq,
          state |-> [digest |-> NoDigest, stat |-> 0]]

(* pathChanged: by digest; where neither side has one, by stat. *)
PathChanged(before, o) ==
    \/ before.state.digest # o.state.digest
    \/ /\ before.state.digest = NoDigest
       /\ before.state.stat # o.state.stat

(* A change whose bytes are the numbered ones has its number already. *)
AlreadyNumbered(f, before, o) ==
    LET current == path_seq[f][before.epoch]
    IN  current.seq > before.seq /\ current.digest = o.state.digest

(* answeredReportsTx: handed over within the window, and the bytes the     *)
(* report says the file had are back.                                      *)
Answered(c, f, o) ==
    {r \in reports : /\ r.to = owner[c] /\ ~r.acted
                     /\ r.delivered # NoTime /\ r.delivered + TreeActedWindow >= now
                     /\ o.state.digest # NoDigest
                     /\ \E e \in events : /\ e.id = r.event /\ e.file = f
                                          /\ e.pre = o.state.digest}

(* RecordCallPost.  Its stamp, which the hook takes before it waits for    *)
(* the op-flock, is that of the commit here.                               *)
RecordCallPost(c) ==
    LET obs == hook[c].obs
        before(f) == Before(c, f, obs[f])
        changed == {f \in DOMAIN obs : PathChanged(before(f), obs[f])}
        numbered == {f \in changed : ~AlreadyNumbered(f, before(f), obs[f])}
        current(f) == path_seq[f][before(f).epoch].seq
        seqPost(f) == IF f \in numbered THEN current(f) + 1
                      ELSE IF f \in changed THEN current(f) ELSE before(f).seq
        answered == UNION {Answered(c, f, obs[f]) : f \in DOMAIN obs}
        input(f) ==
            [id |-> <<c, "post", f>>, drift |-> FALSE, file |-> f, epoch |-> before(f).epoch,
             epochNow |-> obs[f].epoch, holder |-> before(f).holder,
             holderNow |-> obs[f].holder, observer |-> owner[c],
             declared |-> before(f).declared, seq |-> seqPost(f),
             pre |-> before(f).state.digest, post |-> obs[f].state.digest, at |-> now,
             seen |-> f \in DOMAIN Recorded(c)]
    IN  /\ path_seq' = [f \in Files |->
               IF f \in numbered
               THEN [path_seq[f] EXCEPT ![before(f).epoch] =
                         [seq |-> seqPost(f), digest |-> obs[f].state.digest]]
               ELSE path_seq[f]]
        /\ observed' = [f \in Files |->
               IF f \in DOMAIN obs /\ obs[f].locked
               THEN [observed[f] EXCEPT ![obs[f].epoch] = obs[f].state]
               ELSE observed[f]]
        /\ calls' = [calls EXCEPT ![c].state = "posted", ![c].ended = now,
                         ![c].paths = [f \in DOMAIN obs |-> before(f)],
                         ![c].post = [f \in DOMAIN obs |-> seqPost(f)]]
        /\ File({input(f) : f \in changed},
                (reports \ answered) \union {[r EXCEPT !.acted = TRUE] : r \in answered})
        /\ overtaken' = overtaken \union {f \in DOMAIN obs : obs[f].state # disk[f]}
               \union {f \in numbered \ DOMAIN Recorded(c) :
                          path_seq[f][before(f).epoch].digest = obs[f].state.digest}
        /\ UNCHANGED expired

(* Without a record the post is an ErrUnknownCall skip.  A post that fails *)
(* leaves the call open, as one that never comes does.                     *)
HookPost(c) ==
    /\ hook[c].pc = "post" /\ Alive(c)
    /\ hook' = [hook EXCEPT ![c].pc = "done", ![c].obs = <<>>]
    /\ \/ c \in DOMAIN calls /\ RecordCallPost(c)
       \/ c \notin DOMAIN calls /\ UNCHANGED storeVars
    /\ UNCHANGED <<treeVars, handed, owner, dead, now>>

------------------------------------------------------------------------------
(* The sweeps, by a pre-hook of any checkout. *)

(* MarkDeadOwnerCalls: proven dead, or in flight too long. *)
MarkDeadOwnerCalls ==
    LET ended == {c \in DOMAIN calls :
                    Open(c) /\ (~Alive(c) \/ now > calls[c].tpre + InFlightMaxAge)}
    IN  /\ ended # {}
        /\ calls' = [c \in DOMAIN calls |->
               IF c \in ended THEN [calls[c] EXCEPT !.state = "dead", !.ended = now] ELSE calls[c]]
        /\ hook' = [c \in Calls |-> [hook[c] EXCEPT !.lost = @ \/ c \in ended]]
        /\ UNCHANGED <<treeVars, path_seq, observed, events, reports, filed, expired,
                       overtaken, handed, owner, dead, now>>

(* DropFinishedCalls: a finished call stays while a call that began before *)
(* it ended is open, and for TReport in any case.  Stamps are nanoseconds  *)
(* in the code and ticks here: a begin of the same tick counts as earlier. *)
DropFinishedCalls ==
    LET dropped == {c \in DOMAIN calls :
                      /\ ~Open(c)
                      /\ calls[c].ended + TReport < now
                      /\ \A k \in DOMAIN calls : Open(k) => calls[k].tpre > calls[c].ended}
    IN  /\ dropped # {}
        /\ calls' = [c \in DOMAIN calls \ dropped |-> calls[c]]
        /\ UNCHANGED <<treeVars, path_seq, observed, events, reports, filed, expired,
                       overtaken, hook, handed, owner, dead, now>>

(* Seeded fault: the row cap counts every event. *)
CappableAll(rs) == events

(* The row cap is over the events no undelivered report waits on. *)
Cappable(rs) == {e \in events : \A r \in rs : r.event = e.id => r.delivered # NoTime}

(* DropOldTreeEvents: undelivered reports go by age and leave a row, the   *)
(* oldest of the other events by count, with their reports.                *)
DropOldTreeEvents ==
    LET aged == {r \in reports : r.delivered = NoTime /\ r.at + UndeliveredAge < now}
        left == reports \ aged
        pool == Cappable(left)
    IN  \E gone \in SUBSET pool :
            /\ \/ Cardinality(gone) + RetentionMax = Cardinality(pool)
               \/ gone = {} /\ Cardinality(pool) <= RetentionMax
            /\ \A e \in gone, k \in pool \ gone : e.at <= k.at
            /\ aged # {} \/ gone # {}
            /\ events' = events \ gone
            /\ reports' = {r \in left : \A e \in gone : r.event # e.id}
            /\ expired' = expired \union {ReportId(r) : r \in aged}
            /\ UNCHANGED <<treeVars, path_seq, observed, calls, filed, overtaken, hook,
                           handed, owner, dead, now>>

------------------------------------------------------------------------------
(* The world the hooks watch. *)

(* Every write leaves a stat of its own. *)
Write(f, by) ==
    /\ writes[f].all < MaxWrites
    /\ by = Outside => writes[f].outside < MaxOutside
    /\ writes' = [writes EXCEPT ![f].all = @ + 1,
                                ![f].outside = IF by = Outside THEN @ + 1 ELSE @]
    /\ \E w \in Results :
           LET stat == IF w[2] THEN writes[f].all + 2 ELSE 0
           IN  /\ disk' = [disk EXCEPT ![f] = [digest |-> w[1], stat |-> stat]]
               /\ wrote' = wrote \union {[file |-> f, digest |-> w[1], stat |-> stat, by |-> by]}
    /\ UNCHANGED <<lock, storeVars, hook, handed, owner, dead, now>>

ToolWrites(c) == hook[c].pc = "running" /\ Alive(c) /\ \E f \in Files : Write(f, c)

OutsideWrites == \E f \in Files : Write(f, Outside)

(* A tenure of the file begins with a fresh epoch, and ends. *)
LockTaken ==
    \E f \in Files, o \in Owners \ dead :
        /\ lock[f].owner = NoOwner /\ lock[f].last < MaxEpoch
        /\ lock' = [lock EXCEPT ![f] = [owner |-> o, epoch |-> @.last + 1, last |-> @.last + 1]]
        /\ UNCHANGED <<disk, wrote, writes, storeVars, hook, handed, owner, dead, now>>

LockEnds ==
    \E f \in Files :
        /\ lock[f].owner # NoOwner
        /\ lock' = [lock EXCEPT ![f].owner = NoOwner, ![f].epoch = 0]
        /\ UNCHANGED <<disk, wrote, writes, storeVars, hook, handed, owner, dead, now>>

(* A session with no call under way that dies is one that calls no more.   *)
SessionDies ==
    \E o \in Owners \ dead :
        /\ Cardinality(dead) < MaxDeaths
        /\ \E c \in Calls : owner[c] = o /\ (Open(c) \/ Preparing(c))
        /\ dead' = dead \union {o}
        /\ UNCHANGED <<treeVars, storeVars, hook, handed, owner, now>>

Tick ==
    /\ now < MaxTime
    /\ \A c \in Calls : Preparing(c) /\ Alive(c) => now < hook[c].tpre + MaxHook
    /\ now' = now + 1
    /\ UNCHANGED <<treeVars, storeVars, hook, handed, owner, dead>>

Next ==
    \/ \E c \in Calls :
           \/ HookLook(c) \/ HookRead(c) \/ HookDrift(c) \/ HookPending(c)
           \/ HookDeliver(c) \/ HookDeliverFails(c) \/ HookRecord(c) \/ HookFailOpen(c)
           \/ PostObserve(c) \/ HookPost(c)
           \/ ToolWrites(c)
    \/ MarkDeadOwnerCalls \/ DropFinishedCalls \/ DropOldTreeEvents
    \/ OutsideWrites \/ LockTaken \/ LockEnds \/ SessionDies
    \/ Tick

Spec == Init /\ [][Next]_vars

------------------------------------------------------------------------------
(* Whose bytes these are: the one call that ever wrote digest d to f, if   *)
(* its pre-record has the file at that epoch and no sweep ended it.        *)
KnownWriter(c, f, epoch, d) ==
    /\ {w.by : w \in {v \in wrote : v.file = f /\ v.digest = d}} = {c}
    /\ <<f, epoch>> \in hook[c].noted
    /\ ~hook[c].lost

(* Content no write ever left twice, and no deletion. *)
WrittenOnce(f, d) ==
    /\ d # NoDigest
    /\ \A v, w \in wrote : v.file = f /\ v.digest = d /\ w.file = f /\ w.digest = d => v = w

(* HookPathState.SeqAtObserve: "the call may span a transition it did not, *)
(* never miss one it did".  An event filed by a call that had looked at    *)
(* the file before names the call of another owner whose bytes it found,   *)
(* however the two calls, their hooks and the retention interleave, as     *)
(* long as observations are recorded before the file changes again.        *)
(* Outside the claim are bytes that come back (a change is taken for an    *)
(* earlier one that left the same digest, and its number is too low) and   *)
(* bytes a call numbers again that had not looked at the file before.      *)
NamesTheWriter ==
    \A e \in events, c \in Calls :
        /\ e.rule # "drift" /\ e.seen /\ ~hook[e.call].lost
        /\ c # e.call /\ owner[c] # owner[e.call]
        /\ KnownWriter(c, e.file, e.epoch, e.post)
        /\ WrittenOnce(e.file, e.post)
        /\ e.file \notin overtaken
        => c \in e.spanners

(* treeRuleNote: drift is "changed with no call covering it".  No drift    *)
(* event names a spanning call, nor reports what a recorded call wrote.    *)
DriftIsUncovered ==
    \A e \in events :
        e.rule = "drift" =>
            /\ e.spanners = {}
            /\ e.file \notin overtaken =>
                   \A c \in Calls : ~KnownWriter(c, e.file, e.epoch, e.post)

(* DropOldTreeEvents: a report is handed to its addressee, waits, or left  *)
(* a row that says it was dropped; no retention loses it silently.  Handed *)
(* is what a transaction marked delivered; see HookDeliver.                *)
ReportsAccounted ==
    \A id \in filed :
        \/ \E r \in reports : ReportId(r) = id /\ r.delivered = NoTime
        \/ \E c \in Calls : <<id, c>> \in handed
        \/ id \in expired

(* DeliverReports: "delivering it twice is the one outcome worth           *)
(* preventing", with two pre-hooks of one owner between read and update;   *)
(* nor is a report handed over that the retention called dropped.          *)
HandedOnce ==
    \A h, g \in handed :
        /\ h[1] = g[1] => h = g
        /\ h[1] \notin expired
=============================================================================
