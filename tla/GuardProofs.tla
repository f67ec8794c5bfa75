---------------------------- MODULE GuardProofs ----------------------------
(***************************************************************************)
(* Proofs about Guard, for any number of processes, session ids, git dirs  *)
(* and branches: what the session oracle answers is true, the live gate    *)
(* counts every peer and only peers, and the birth carve-out rewrites no   *)
(* HEAD that exists.                                                       *)
(***************************************************************************)
EXTENDS Guard, FiniteSetTheorems, TLAPS

----------------------------------------------------------------------------
(* Types. *)

Record == [uuid : Owners \cup {None}, pid : Procs \cup {None}, start : Procs \cup {None},
           sock : Procs \cup {None}, repo : Dirs \cup {None}, old : BOOLEAN]

Txn == [pc : {"idle", "prepared", "live", "birth", "verdict", "admitted", "refused"},
        shape : {"none", "head-symref", "add", "stash", "branch-delete"},
        dir : Dirs \cup {None}, to : Branches \cup {None}, birth : BOOLEAN,
        unread : SUBSET Sids]

Look == [pid : BOOLEAN, start : BOOLEAN, sock : BOOLEAN]

TypeInv ==
    /\ up \in [Procs -> {"new", "up", "gone"}]
    /\ sid \in [Procs -> Sids \cup {None}]
    /\ at \in [Procs -> Dirs]
    /\ rec \in [Sids -> Record]
    /\ head \in [Dirs -> Branches \cup Oids \cup {None}]
    /\ lock \in [Dirs -> Branches \cup {None}]
    /\ txn \in [Procs -> Txn]

(* A start time is that of the pid beside it, and then the record's owner  *)
(* is that process; whose start time is always readable records it.        *)
RecordTrue(s) ==
    /\ rec[s].start \in {None, rec[s].pid}
    /\ rec[s].start # None => rec[s].uuid = rec[s].start
    /\ rec[s].pid # None => rec[s].uuid # None /\ up[rec[s].pid] # "new"
    /\ rec[s].pid \notin Shaky \cup {None} => rec[s].start = rec[s].pid

(* Processes that are up have their socket, and share neither pid nor      *)
(* session id.                                                             *)
Distinct ==
    /\ \A p \in Procs : Up(p) => p \in sock
    /\ \A p, q \in Procs : Up(p) /\ Up(q) /\ Pid[p] = Pid[q] => p = q
    /\ \A p, q \in Procs : Up(p) /\ Up(q) /\ sid[p] = sid[q] /\ sid[p] # None => p = q

(* A process writes the record of its current id, and no other does.       *)
OwnRecord(p) ==
    Up(p) /\ sid[p] # None =>
        /\ rec[sid[p]].pid = p => rec[sid[p]].sock \in {p, None}
        /\ \/ p \in Shaky \/ rec[sid[p]] = NoRec \/ rec[sid[p]].pid = p
           \/ \A s \in Sids : rec[s].pid # p

Active(p) ==
    /\ up[p] = "new" => sid[p] = None
    /\ txn[p].pc # "idle" => Up(p)
    /\ txn[p].pc = "live" => sid[p] # None

SessionInv ==
    /\ Distinct
    /\ \A s \in Sids : RecordTrue(s)
    /\ \A p \in Procs : OwnRecord(p) /\ Active(p)

(* A transaction that moves a HEAD has that HEAD's lock to itself, and one *)
(* the carve-out admitted still finds no HEAD there.                       *)
Locks(p) ==
    HeadShape(p) => txn[p].dir \in Dirs /\ txn[p].to # None /\ lock[txn[p].dir] = txn[p].to

BirthInv ==
    /\ \A p \in Procs : Locks(p)
    /\ \A p, q \in Procs :
           HeadShape(p) /\ HeadShape(q) /\ txn[p].dir = txn[q].dir => p = q
    /\ \A p \in Procs : txn[p].birth => HeadShape(p) /\ head[txn[p].dir] = None

GuardInv == TypeInv /\ SessionInv /\ BirthInv

----------------------------------------------------------------------------
(* The record whoami leaves. *)

LEMMA LooksTyped ==
    ASSUME NEW p \in Procs, NEW look \in Looks(p)
    PROVE  /\ look \in Look /\ (look.start => look.pid)
           /\ p \in Shaky \/ (look.pid /\ look.start /\ look.sock)
PROOF
  <1>1. CASE p \in Shaky
    <2>1. look \in {l \in Look : l.start => l.pid}
      BY <1>1 DEF Looks, Look
    <2> QED BY <1>1, <2>1
  <1>2. CASE p \notin Shaky
    <2>1. look = [pid |-> TRUE, start |-> TRUE, sock |-> TRUE]
      BY <1>2 DEF Looks
    <2> QED BY <2>1 DEF Look
  <1> QED BY <1>1, <1>2

LEMMA NoRecTyped ==
    /\ NoRec \in Record /\ NoRec.pid = None /\ NoRec.start = None /\ NoRec.sock = None
    /\ NoRec.uuid = None /\ NoRec.repo = None
  BY DEF NoRec, Record

LEMMA NoneApart ==
    None \notin Procs /\ None \notin Sids /\ None \notin Owners
  BY GuardAssumption DEF Owners

LEMMA OwnerTyped ==
    ASSUME TypeInv, NEW p \in Procs, sid[p] # None, NEW look \in Looks(p)
    PROVE  /\ ActorOwner(p, look) \in Owners
           /\ look.start => ActorOwner(p, look) = p
           /\ ~look.start /\ rec[sid[p]].start # None => ActorOwner(p, look) = rec[sid[p]].start
PROOF
  <1>1. sid[p] \in Sids /\ rec[sid[p]] \in Record /\ look \in Look
    BY LooksTyped DEF TypeInv
  <1>2. rec[sid[p]].start \in Procs \cup {None} /\ look.start \in BOOLEAN
    BY <1>1 DEF Record, Look
  <1> QED BY <1>1, <1>2 DEF ActorOwner, Owners

(* Pid and start time are the caller's, or the old record's together, or   *)
(* unknown together.                                                       *)
LEMMA RecordView ==
    ASSUME TypeInv, NEW p \in Procs, sid[p] # None, NEW look \in Looks(p),
           RecordTrue(sid[p]),
           NEW r, r = RecordSession(p, ActorOwner(p, look), look)
    PROVE  /\ r \in Record /\ r.uuid \in Owners
           /\ \/ /\ r.pid = p /\ r.sock \in {p, None}
                 /\ \/ r.start = p /\ r.uuid = p
                    \/ r.start = None /\ p \in Shaky
              \/ /\ p \in Shaky /\ r.pid = rec[sid[p]].pid /\ r.start = rec[sid[p]].start
                 /\ r.uuid = rec[sid[p]].uuid /\ r.sock \in {p, rec[sid[p]].sock}
              \/ p \in Shaky /\ r.pid = None /\ r.start = None
PROOF
  <1> DEFINE old == rec[sid[p]]
             owner == ActorOwner(p, look)
             keep == ~look.pid /\ old.uuid = owner
             pid == IF look.pid THEN p ELSE IF keep THEN old.pid ELSE None
             start == IF look.start THEN p ELSE IF keep THEN old.start ELSE None
             soc == IF look.sock THEN p ELSE IF keep THEN old.sock ELSE None
  <1>1. /\ sid[p] \in Sids /\ old \in Record /\ at[p] \in Dirs
        /\ look \in Look /\ (look.start => look.pid)
        /\ p \in Shaky \/ (look.pid /\ look.start /\ look.sock)
    BY LooksTyped DEF TypeInv
  <1>2. /\ owner \in Owners /\ (look.start => owner = p)
        /\ (~look.start /\ old.start # None => owner = old.start)
    BY OwnerTyped
  <1>3. /\ look.pid \in BOOLEAN /\ look.start \in BOOLEAN /\ look.sock \in BOOLEAN
        /\ old.pid \in Procs \cup {None} /\ old.start \in Procs \cup {None}
        /\ old.sock \in Procs \cup {None}
    BY <1>1 DEF Look, Record
  <1>4. r = [uuid |-> owner, pid |-> pid, start |-> start, sock |-> soc, repo |-> at[p], old |-> FALSE]
    BY DEF RecordSession
  <1>5. pid \in Procs \cup {None} /\ start \in Procs \cup {None} /\ soc \in Procs \cup {None}
    BY <1>3
  <1>6. r \in Record /\ r.uuid = owner /\ r.pid = pid /\ r.start = start /\ r.sock = soc
    <2> HIDE DEF owner, pid, start, soc
    <2> QED BY <1>1, <1>2, <1>4, <1>5 DEF Record
  <1>7. CASE look.pid
    BY <1>1, <1>2, <1>6, <1>7
  <1>8. CASE ~look.pid /\ keep
    BY <1>1, <1>2, <1>6, <1>8
  <1>9. CASE ~look.pid /\ ~keep
    BY <1>1, <1>2, <1>6, <1>9
  <1> QED BY <1>7, <1>8, <1>9

----------------------------------------------------------------------------
(* What a step does to the transactions. *)

Kept == txn' = txn

Begun(p) ==
    /\ Up(p) /\ txn[p] = Idle
    /\ txn'[p].pc = "prepared" /\ ~txn'[p].birth

Moved(p) ==
    /\ txn[p].pc # "idle" /\ txn'[p].pc # "idle"
    /\ txn'[p].pc = "live" => sid[p] # None
    /\ txn'[p].shape = txn[p].shape /\ txn'[p].dir = txn[p].dir /\ txn'[p].to = txn[p].to
    /\ \/ txn'[p].birth = txn[p].birth
       \/ txn'[p].birth /\ HeadShape(p) /\ \E d \in Dirs :
              HeadLockClaimants(txn[p].to) = {d} /\ WorktreeUnborn(d)

Ended(p) == txn'[p] = Idle

LEMMA IdleTyped ==
    Idle \in Txn /\ Idle.pc = "idle" /\ Idle.shape = "none" /\ ~Idle.birth
  BY DEF Idle, Txn

LEMMA BeginsTxn ==
    ASSUME TypeInv, NEW p \in Procs, NEW shape \in {"head-symref", "add", "stash", "branch-delete"},
           NEW dir \in Dirs \cup {None}, NEW to \in Branches \cup {None}, Begins(p, shape, dir, to)
    PROVE  /\ Begun(p) /\ txn' \in [Procs -> Txn] /\ \A q \in Procs : q # p => txn'[q] = txn[q]
           /\ txn'[p].shape = shape /\ txn'[p].dir = dir /\ txn'[p].to = to
           /\ UNCHANGED <<people, rec, head>>
PROOF
  <1> DEFINE t == [Idle EXCEPT !.pc = "prepared", !.shape = shape, !.dir = dir, !.to = to]
  <1>1. txn' = [txn EXCEPT ![p] = t] /\ Up(p) /\ txn[p] = Idle /\ UNCHANGED <<people, rec, head>>
    BY DEF Begins
  <1>2. /\ t \in Txn /\ t.pc = "prepared" /\ ~t.birth /\ t.shape = shape /\ t.dir = dir /\ t.to = to
    BY DEF Idle, Txn
  <1>3. txn \in [Procs -> Txn]
    BY DEF TypeInv
  <1> HIDE DEF t
  <1> QED BY <1>1, <1>2, <1>3 DEF Begun

LEMMA GoesTxn ==
    ASSUME TypeInv, NEW p \in Procs,
           NEW pc \in {"prepared", "live", "birth", "verdict", "admitted", "refused"}, Goes(p, pc)
    PROVE  /\ txn' \in [Procs -> Txn] /\ \A q \in Procs : q # p => txn'[q] = txn[q]
           /\ txn'[p].pc = pc /\ txn'[p].shape = txn[p].shape /\ txn'[p].dir = txn[p].dir
           /\ txn'[p].to = txn[p].to /\ txn'[p].birth = txn[p].birth
PROOF
  <1>1. txn \in [Procs -> Txn] /\ txn[p] \in Txn
    BY DEF TypeInv
  <1> DEFINE t == [txn[p] EXCEPT !.pc = pc]
  <1>2. txn' = [txn EXCEPT ![p] = t]
    BY DEF Goes
  <1>3. /\ t \in Txn /\ t.pc = pc /\ t.shape = txn[p].shape /\ t.dir = txn[p].dir
        /\ t.to = txn[p].to /\ t.birth = txn[p].birth
    BY <1>1 DEF Txn
  <1> HIDE DEF t
  <1> QED BY <1>1, <1>2, <1>3

LEMMA GatedTxn ==
    ASSUME TypeInv, NEW p \in Procs, NEW alone \in BOOLEAN, NEW unread \in SUBSET Sids,
           Gated(p, alone, unread)
    PROVE  /\ txn' \in [Procs -> Txn] /\ \A q \in Procs : q # p => txn'[q] = txn[q]
           /\ txn'[p].pc = IF alone THEN "admitted" ELSE "birth"
           /\ txn'[p].unread = unread /\ txn'[p].shape = txn[p].shape
           /\ txn'[p].dir = txn[p].dir /\ txn'[p].to = txn[p].to
           /\ txn'[p].birth = txn[p].birth
PROOF
  <1> DEFINE pc == IF alone THEN "admitted" ELSE "birth"
             t == [txn[p] EXCEPT !.pc = pc, !.unread = unread]
  <1>1. txn \in [Procs -> Txn] /\ txn[p] \in Txn
    BY DEF TypeInv
  <1>2. pc \in {"admitted", "birth"}
    OBVIOUS
  <1> HIDE DEF pc
  <1>3. /\ t \in Txn /\ t.pc = pc /\ t.unread = unread /\ t.shape = txn[p].shape
        /\ t.dir = txn[p].dir /\ t.to = txn[p].to /\ t.birth = txn[p].birth
    BY <1>1, <1>2 DEF Txn
  <1>4. txn' = [txn EXCEPT ![p] = t]
    BY <1>1 DEF Gated, pc
  <1> HIDE DEF t
  <1> QED BY <1>1, <1>3, <1>4 DEF pc

LEMMA LiveGates ==
    ASSUME NEW p \in Procs, HookLive(p)
    PROVE  \E unread \in SUBSET Sids, look \in Looks(p), blind \in SUBSET Shaky :
               \E alone \in BOOLEAN :
                   /\ alone <=> Cardinality(LiveOwnerUUIDsInRepo(at[p], p, look, blind, unread)) < 2
                   /\ Gated(p, alone, unread)
PROOF
  <1> DEFINE few(look, blind, unread) ==
                 Cardinality(LiveOwnerUUIDsInRepo(at[p], p, look, blind, unread)) < 2
  <1>1. PICK unread \in SUBSET Sids :
           \E alone \in {few(look, blind, unread) : look \in Looks(p), blind \in SUBSET Shaky} :
               Gated(p, alone, unread)
    <2> DEFINE verdicts(unread) ==
                   {few(look, blind, unread) : look \in Looks(p), blind \in SUBSET Shaky}
    <2>1. \E unread \in SUBSET Sids :
             Misses(unread) /\ \E alone \in verdicts(unread) : Gated(p, alone, unread)
      BY DEF HookLive
    <2> HIDE DEF verdicts
    <2>2. \E unread \in SUBSET Sids : \E alone \in verdicts(unread) : Gated(p, alone, unread)
      BY <2>1
    <2> QED BY <2>2 DEF verdicts
  <1>2. \A l, b : few(l, b, unread) \in BOOLEAN
    OBVIOUS
  <1> HIDE DEF few
  <1>3. PICK look \in Looks(p), blind \in SUBSET Shaky : Gated(p, few(look, blind, unread), unread)
    BY <1>1
  <1>4. few(look, blind, unread) \in BOOLEAN
    BY <1>2
  <1> QED BY <1>3, <1>4 DEF few

Hook(p) == HookShape(p) \/ HookFailsOpen(p) \/ HookLive(p) \/ HookBirth(p) \/ HookVerdict(p)

LEMMA HookTxn ==
    ASSUME TypeInv, NEW p \in Procs, Hook(p)
    PROVE  /\ Moved(p) /\ txn' \in [Procs -> Txn] /\ \A q \in Procs : q # p => txn'[q] = txn[q]
           /\ UNCHANGED <<people, rec, repo>>
PROOF
  <1>0. UNCHANGED <<people, rec, repo>>
    BY DEF Hook, HookShape, HookFailsOpen, HookLive, HookBirth, HookVerdict
  <1>1. ASSUME NEW pc \in {"live", "birth", "verdict", "admitted", "refused"}, Goes(p, pc),
               txn[p].pc # "idle", pc = "live" => sid[p] # None
        PROVE  Moved(p) /\ txn' \in [Procs -> Txn] /\ \A q \in Procs : q # p => txn'[q] = txn[q]
    BY <1>1, GoesTxn DEF Moved
  <1>2. CASE HookShape(p)
    <2>1. txn[p].pc = "prepared" /\ (Goes(p, "admitted") \/ (Goes(p, "live") /\ sid[p] # None))
      BY <1>2 DEF HookShape
    <2> QED BY <1>0, <1>1, <2>1
  <1>3. CASE HookFailsOpen(p)
    <2>1. txn[p].pc # "idle" /\ Goes(p, "admitted")
      BY <1>3 DEF HookFailsOpen
    <2> QED BY <1>0, <1>1, <2>1
  <1>4. CASE HookLive(p)
    <2>1. PICK unread \in SUBSET Sids, alone \in BOOLEAN : Gated(p, alone, unread)
      BY <1>4, LiveGates
    <2>2. txn[p].pc = "live"
      BY <1>4 DEF HookLive
    <2> QED BY <1>0, <2>1, <2>2, GatedTxn DEF Moved
  <1>5. CASE HookBirth(p)
    <2>1. /\ txn[p].pc = "birth"
          /\ \/ Goes(p, "verdict")
             \/ /\ txn' = [txn EXCEPT ![p].pc = "admitted", ![p].birth = TRUE]
                /\ HeadShape(p)
                /\ \E d \in Dirs : HeadLockClaimants(txn[p].to) = {d} /\ WorktreeUnborn(d)
      <3> DEFINE found(look, blind, unread) ==
                     HeadShape(p) /\ HeadWorktreeBirth(p, look, blind, unread)
                 set == txn' = [txn EXCEPT ![p].pc = "admitted", ![p].birth = TRUE]
      <3>1. \E unread \in SUBSET Sids, look \in Looks(p), blind \in SUBSET Shaky :
               IF found(look, blind, unread) THEN set ELSE Goes(p, "verdict")
        <4> HIDE DEF found, set
        <4>1. PICK unread \in SUBSET Sids :
                 \E birth \in {found(look, blind, unread) :
                                  look \in Looks(p), blind \in SUBSET Shaky} :
                     IF birth THEN set ELSE Goes(p, "verdict")
          BY <1>5 DEF HookBirth, found, set
        <4> QED BY <4>1
      <3>2. PICK unread \in SUBSET Sids, look \in Looks(p), blind \in SUBSET Shaky :
               IF found(look, blind, unread) THEN set ELSE Goes(p, "verdict")
        BY <3>1
      <3>3. found(look, blind, unread) => HeadShape(p) /\ \E d \in Dirs :
                        HeadLockClaimants(txn[p].to) = {d} /\ WorktreeUnborn(d)
        BY DEF HeadWorktreeBirth
      <3>4. txn[p].pc = "birth"
        BY <1>5 DEF HookBirth
      <3> HIDE DEF found
      <3> QED BY <3>2, <3>3, <3>4
    <2>2. CASE Goes(p, "verdict")
      BY <1>0, <1>1, <2>1, <2>2
    <2>3. CASE ~Goes(p, "verdict")
      <3>1. txn \in [Procs -> Txn] /\ txn[p] \in Txn
        BY DEF TypeInv
      <3> DEFINE t == [txn[p] EXCEPT !.pc = "admitted", !.birth = TRUE]
      <3>2. txn' = [txn EXCEPT ![p] = t]
        BY <2>1, <2>3, <3>1
      <3>3. /\ t \in Txn /\ t.pc = "admitted" /\ t.shape = txn[p].shape /\ t.dir = txn[p].dir
            /\ t.to = txn[p].to /\ t.birth
        BY <3>1 DEF Txn
      <3> HIDE DEF t
      <3>4. Moved(p)
        BY <2>1, <2>3, <3>1, <3>2, <3>3 DEF Moved
      <3> QED BY <1>0, <3>1, <3>2, <3>3, <3>4
    <2> QED BY <2>2, <2>3
  <1>6. CASE HookVerdict(p)
    <2>1. txn[p].pc # "idle" /\ (Goes(p, "admitted") \/ Goes(p, "refused"))
      BY <1>6 DEF HookVerdict
    <2> QED BY <1>0, <1>1, <2>1
  <1> QED BY <1>2, <1>3, <1>4, <1>5, <1>6 DEF Hook

LEMMA EndsTxn ==
    ASSUME TypeInv, NEW p \in Procs, Commits(p) \/ Aborts(p) \/ Killed(p)
    PROVE  /\ Ended(p) /\ txn' \in [Procs -> Txn] /\ \A q \in Procs : q # p => txn'[q] = txn[q]
           /\ UNCHANGED <<people, rec>>
PROOF
  <1>1. txn' = [txn EXCEPT ![p] = Idle] /\ UNCHANGED <<people, rec>>
    BY DEF Commits, Aborts, Killed, Ends
  <1>2. txn \in [Procs -> Txn]
    BY DEF TypeInv
  <1> QED BY <1>1, <1>2, IdleTyped DEF Ended

Starting(p) ==
    \/ Stash(p)
    \/ \E b \in Branches : Switch(p, b) \/ BranchDelete(p, b)
    \/ \E d \in Dirs, b \in Branches : WorktreeAdd(p, d, b) \/ Rename(p, d, b)

LEMMA StartingBegins ==
    ASSUME TypeInv, NEW p \in Procs, Starting(p)
    PROVE  \E shape \in {"head-symref", "add", "stash", "branch-delete"},
              dir \in Dirs \cup {None}, to \in Branches \cup {None} :
              /\ Begins(p, shape, dir, to)
              /\ IF shape \in {"head-symref", "add"}
                 THEN /\ dir \in Dirs /\ to \in Branches /\ lock[dir] = None
                      /\ lock' = [lock EXCEPT ![dir] = to]
                 ELSE lock' = lock
PROOF
  <1>0. at[p] \in Dirs
    BY DEF TypeInv
  <1>1. CASE Stash(p)
    BY <1>0, <1>1 DEF Stash
  <1>2. CASE \E b \in Branches : Switch(p, b)
    BY <1>0, <1>2 DEF Switch
  <1>3. CASE \E b \in Branches : BranchDelete(p, b)
    BY <1>3 DEF BranchDelete
  <1>4. CASE \E d \in Dirs, b \in Branches : WorktreeAdd(p, d, b)
    BY <1>4 DEF WorktreeAdd
  <1>5. CASE \E d \in Dirs, b \in Branches : Rename(p, d, b)
    BY <1>5 DEF Rename
  <1> QED BY <1>1, <1>2, <1>3, <1>4, <1>5 DEF Starting

Around(p) ==
    \/ Starts(p) \/ Clears(p) \/ Dies(p) \/ Whoami(p) \/ GCSessions(p) \/ ClaimsAll(p)
    \/ Unprotected(p) \/ \E d \in Dirs : Enters(p, d)

Finishing(p) == Commits(p) \/ Aborts(p) \/ Killed(p)

LEMMA NextCases ==
    ASSUME Next
    PROVE  \/ ClaimEnds \/ \E s \in Sids : Ages(s)
           \/ \E p \in Procs : Around(p) \/ Starting(p) \/ Hook(p) \/ Finishing(p)
  BY DEF Next, Around, Starting, Hook, Finishing

LEMMA StillTxn ==
    ASSUME NEW p, NEW s, ClaimEnds \/ Ages(s) \/ Around(p)
    PROVE  txn' = txn /\ lock' = lock
  BY DEF ClaimEnds, Ages, Around, Starts, Clears, Dies, Whoami, GCSessions, ClaimsAll, Unprotected,
         Enters, repo

(* People and records change only around the transactions. *)
LEMMA TxnView ==
    ASSUME TypeInv, [Next]_vars
    PROVE  /\ txn' \in [Procs -> Txn]
           /\ \A q \in Procs : txn'[q] = txn[q] \/ Begun(q) \/ Moved(q) \/ Ended(q)
           /\ txn' = txn \/ UNCHANGED <<people, rec>>
PROOF
  <1>0. txn \in [Procs -> Txn]
    BY DEF TypeInv
  <1>1. CASE UNCHANGED vars
    BY <1>0, <1>1 DEF vars
  <1>2. CASE ClaimEnds \/ \E s \in Sids : Ages(s)
    BY <1>0, <1>2, StillTxn
  <1>3. ASSUME NEW p \in Procs, Around(p)
        PROVE txn' = txn
    BY <1>3, StillTxn
  <1>4. ASSUME NEW p \in Procs, Starting(p)
        PROVE  /\ Begun(p) /\ txn' \in [Procs -> Txn] /\ \A q \in Procs : q # p => txn'[q] = txn[q]
               /\ UNCHANGED <<people, rec>>
    BY <1>4, StartingBegins, BeginsTxn
  <1>5. ASSUME NEW p \in Procs, Hook(p)
        PROVE  /\ Moved(p) /\ txn' \in [Procs -> Txn] /\ \A q \in Procs : q # p => txn'[q] = txn[q]
               /\ UNCHANGED <<people, rec>>
    BY <1>5, HookTxn
  <1>6. ASSUME NEW p \in Procs, Finishing(p)
        PROVE  /\ Ended(p) /\ txn' \in [Procs -> Txn] /\ \A q \in Procs : q # p => txn'[q] = txn[q]
               /\ UNCHANGED <<people, rec>>
    BY <1>6, EndsTxn DEF Finishing
  <1> QED BY <1>0, <1>1, <1>2, <1>3, <1>4, <1>5, <1>6, NextCases

----------------------------------------------------------------------------
(* What a step does to the people and to the records. *)

Still == UNCHANGED <<up, sock, sid>>

Rewrites(p) ==
    /\ Up(p) /\ sid[p] \in Sids
    /\ \E look \in Looks(p) : rec'[sid[p]] = RecordSession(p, ActorOwner(p, look), look)
    /\ \A s \in Sids : s # sid[p] => rec'[s] = rec[s]

LEMMA PeopleView ==
    ASSUME TypeInv, [Next]_vars
    PROVE  /\ at' \in [Procs -> Dirs]
           /\ \/ Still
              \/ \E p \in Procs : Starts(p) \/ Clears(p) \/ Dies(p)
PROOF
  <1>0. at \in [Procs -> Dirs]
    BY DEF TypeInv
  <1>1. CASE txn' # txn \/ UNCHANGED vars
    BY <1>0, <1>1, TxnView DEF people, vars, Still
  <1>2. CASE ClaimEnds \/ \E s \in Sids : Ages(s)
    BY <1>0, <1>2 DEF ClaimEnds, Ages, people, Still
  <1>3. ASSUME NEW p \in Procs, Around(p)
        PROVE  /\ at' \in [Procs -> Dirs]
               /\ Still \/ Starts(p) \/ Clears(p) \/ Dies(p)
    <2>1. CASE Starts(p) \/ Clears(p) \/ Dies(p)
      BY <1>0, <2>1 DEF Starts, Clears, Dies
    <2>2. CASE Whoami(p) \/ GCSessions(p) \/ ClaimsAll(p) \/ Unprotected(p)
      BY <1>0, <2>2 DEF Whoami, GCSessions, ClaimsAll, Unprotected, people, Still
    <2>3. CASE \E d \in Dirs : Enters(p, d)
      BY <1>0, <2>3 DEF Enters, Still
    <2> QED BY <1>3, <2>1, <2>2, <2>3 DEF Around
  <1>4. ASSUME NEW p \in Procs, Starting(p) \/ Hook(p) \/ Finishing(p)
        PROVE  UNCHANGED people
    <2>1. CASE Starting(p)
      BY <2>1, StartingBegins, BeginsTxn DEF people
    <2>2. CASE Hook(p)
      BY <2>2, HookTxn DEF people
    <2>3. CASE Finishing(p)
      BY <2>3, EndsTxn DEF Finishing, people
    <2> QED BY <1>4, <2>1, <2>2, <2>3
  <1> QED BY <1>0, <1>1, <1>2, <1>3, <1>4, NextCases DEF Still, people

IsFcn(f) == f = [s \in Sids |-> f[s]]

LEMMA RecView ==
    ASSUME TypeInv, [Next]_vars
    PROVE  /\ IsFcn(rec')
           /\ \/ rec' = rec
              \/ Still /\ \E p \in Procs : Rewrites(p)
              \/ /\ Still
                 /\ \A s \in Sids : \/ rec'[s] = rec[s]
                                    \/ rec'[s] = NoRec
                                    \/ rec[s] # NoRec /\ rec'[s] = [rec[s] EXCEPT !.old = TRUE]
PROOF
  <1>0. /\ rec \in [Sids -> Record] /\ sid \in [Procs -> Sids \cup {None}]
        /\ IsFcn(rec)
    BY DEF TypeInv, IsFcn
  <1>8. rec' = rec => IsFcn(rec')
    BY <1>0 DEF IsFcn
  <1>1. CASE txn' # txn \/ UNCHANGED vars
    BY <1>1, <1>8, TxnView DEF vars
  <1>2. CASE ClaimEnds
    BY <1>2, <1>8 DEF ClaimEnds
  <1>3. CASE \E s \in Sids : Ages(s)
    <2>1. PICK s \in Sids : Ages(s)
      BY <1>3
    <2> DEFINE r == [rec[s] EXCEPT !.old = TRUE]
    <2>2. rec' = [rec EXCEPT ![s] = r] /\ rec[s] # NoRec /\ Still
      BY <1>0, <2>1 DEF Ages, people, Still
    <2> HIDE DEF r
    <2>3. IsFcn(rec') /\ \A t \in Sids : rec'[t] = rec[t] \/ (t = s /\ rec'[t] = r)
      BY <1>0, <2>2 DEF IsFcn
    <2> QED BY <2>2, <2>3 DEF r
  <1>4. ASSUME NEW p \in Procs, Whoami(p) PROVE IsFcn(rec') /\ Still /\ Rewrites(p)
    <2>1. /\ Up(p) /\ sid[p] \in Sids /\ Still
          /\ \E look \in Looks(p) :
                rec' = [rec EXCEPT ![sid[p]] = RecordSession(p, ActorOwner(p, look), look)]
      BY <1>0, <1>4 DEF Whoami, people, Still
    <2>2. PICK look \in Looks(p) :
             rec' = [rec EXCEPT ![sid[p]] = RecordSession(p, ActorOwner(p, look), look)]
      BY <2>1
    <2> DEFINE r == RecordSession(p, ActorOwner(p, look), look)
    <2>3. rec' = [rec EXCEPT ![sid[p]] = r]
      BY <2>2
    <2>4. /\ IsFcn(rec') /\ rec'[sid[p]] = r
          /\ \A s \in Sids : s # sid[p] => rec'[s] = rec[s]
      <3> HIDE DEF r
      <3> QED BY <1>0, <2>1, <2>3 DEF IsFcn
    <2> QED BY <2>1, <2>4 DEF Rewrites
  <1>5. ASSUME NEW p \in Procs, GCSessions(p)
        PROVE  /\ IsFcn(rec') /\ Still
               /\ \A s \in Sids : rec'[s] = rec[s] \/ rec'[s] = NoRec
    BY <1>0, <1>5 DEF GCSessions, people, Still, IsFcn
  <1>6. ASSUME NEW p \in Procs, Around(p), ~Whoami(p), ~GCSessions(p) PROVE rec' = rec
    <2>1. \/ Starts(p) \/ Clears(p) \/ Dies(p) \/ ClaimsAll(p) \/ Unprotected(p)
          \/ \E d \in Dirs : Enters(p, d)
      BY <1>6 DEF Around
    <2> QED BY <2>1 DEF Starts, Clears, Dies, ClaimsAll, Unprotected, Enters
  <1>7. ASSUME NEW p \in Procs, Starting(p) \/ Hook(p) \/ Finishing(p) PROVE rec' = rec
    <2>1. CASE Starting(p)
      BY <2>1, StartingBegins, BeginsTxn
    <2>2. CASE Hook(p)
      BY <2>2, HookTxn
    <2>3. CASE Finishing(p)
      BY <2>3, EndsTxn DEF Finishing
    <2> QED BY <1>7, <2>1, <2>2, <2>3
  <1> QED BY <1>8, <1>1, <1>2, <1>3, <1>4, <1>5, <1>6, <1>7, NextCases

----------------------------------------------------------------------------
(* Types are kept. *)

LEMMA PeopleTyped ==
    ASSUME TypeInv, [Next]_vars
    PROVE  up' \in [Procs -> {"new", "up", "gone"}] /\ sid' \in [Procs -> Sids \cup {None}]
PROOF
  <1>0. up \in [Procs -> {"new", "up", "gone"}] /\ sid \in [Procs -> Sids \cup {None}]
    BY DEF TypeInv
  <1>1. CASE Still
    BY <1>0, <1>1 DEF Still
  <1>2. ASSUME NEW p \in Procs, Starts(p)
        PROVE  up' \in [Procs -> {"new", "up", "gone"}] /\ sid' \in [Procs -> Sids \cup {None}]
    <2>1. /\ up' = [up EXCEPT ![p] = "up"]
          /\ sid' = sid \/ \E s \in Sids : sid' = [sid EXCEPT ![p] = s]
      BY <1>2 DEF Starts
    <2> QED BY <1>0, <2>1
  <1>3. ASSUME NEW p \in Procs, Clears(p)
        PROVE  up' \in [Procs -> {"new", "up", "gone"}] /\ sid' \in [Procs -> Sids \cup {None}]
    <2>1. up' = up /\ \E s \in Sids : sid' = [sid EXCEPT ![p] = s]
      BY <1>3 DEF Clears
    <2> QED BY <1>0, <2>1
  <1>4. ASSUME NEW p \in Procs, Dies(p)
        PROVE  up' \in [Procs -> {"new", "up", "gone"}] /\ sid' \in [Procs -> Sids \cup {None}]
    <2>1. up' = [up EXCEPT ![p] = "gone"] /\ sid' = sid
      BY <1>4 DEF Dies
    <2> QED BY <1>0, <2>1
  <1> QED BY <1>1, <1>2, <1>3, <1>4, PeopleView

LEMMA RecTyped ==
    ASSUME TypeInv, [Next]_vars, \A s \in Sids : RecordTrue(s)
    PROVE  rec' \in [Sids -> Record]
PROOF
  <1>0. /\ rec \in [Sids -> Record] /\ sid \in [Procs -> Sids \cup {None}]
        /\ None \notin Sids
    BY NoneApart DEF TypeInv
  <1>1. ASSUME NEW s \in Sids PROVE rec'[s] \in Record
    <2>1. ASSUME NEW p \in Procs, Rewrites(p) PROVE rec'[s] \in Record
      <3>1. CASE s # sid[p]
        BY <1>0, <2>1, <3>1 DEF Rewrites
      <3>2. CASE s = sid[p]
        <4>1. sid[p] # None /\ RecordTrue(sid[p])
          BY <1>0, <3>2
        <4>2. PICK look \in Looks(p) : rec'[sid[p]] = RecordSession(p, ActorOwner(p, look), look)
          BY <2>1 DEF Rewrites
        <4> QED BY <3>2, <4>1, <4>2, RecordView
      <3> QED BY <3>1, <3>2
    <2>2. [rec[s] EXCEPT !.old = TRUE] \in Record
      BY <1>0 DEF Record
    <2> QED BY <1>0, <2>1, <2>2, NoRecTyped, RecView
  <1> QED BY <1>1, RecView DEF IsFcn

----------------------------------------------------------------------------
(* What a step does to the HEADs, their locks and the transactions that    *)
(* move them.                                                              *)

Others(p) == \A q \in Procs : q # p => txn'[q] = txn[q]

LocksIt(p) ==
    IF txn'[p].shape \in {"head-symref", "add"}
    THEN /\ txn'[p].dir \in Dirs /\ txn'[p].to \in Branches /\ lock[txn'[p].dir] = None
         /\ lock' = [lock EXCEPT ![txn'[p].dir] = txn'[p].to]
    ELSE lock' = lock

OwnHeadOnly(p) ==
    \A d \in Dirs : \/ lock'[d] = lock[d] /\ head'[d] = head[d]
                    \/ HeadShape(p) /\ d = txn[p].dir

LEMMA FinishingView ==
    ASSUME TypeInv, NEW p \in Procs, Finishing(p)
    PROVE  /\ head' \in [Dirs -> Branches \cup Oids \cup {None}]
           /\ lock' \in [Dirs -> Branches \cup {None}]
           /\ OwnHeadOnly(p)
PROOF
  <1>0. /\ head \in [Dirs -> Branches \cup Oids \cup {None}]
        /\ lock \in [Dirs -> Branches \cup {None}]
        /\ txn[p].to \in Branches \cup {None}
    BY DEF TypeInv, Txn
  <1>1. CASE Commits(p)
    <2>1. /\ lock' = IF HeadShape(p) THEN [lock EXCEPT ![txn[p].dir] = None] ELSE lock
          /\ head' = IF HeadShape(p) THEN [head EXCEPT ![txn[p].dir] = txn[p].to] ELSE head
      BY <1>1 DEF Commits, Unlocked
    <2> QED BY <1>0, <2>1 DEF OwnHeadOnly
  <1>2. CASE Aborts(p)
    <2>1. /\ lock' = IF HeadShape(p) THEN [lock EXCEPT ![txn[p].dir] = None] ELSE lock
          /\ head' = head
      BY <1>2 DEF Aborts, Unlocked
    <2> QED BY <1>0, <2>1 DEF OwnHeadOnly
  <1>3. CASE Killed(p)
    BY <1>0, <1>3 DEF Killed, repo, OwnHeadOnly
  <1> QED BY <1>1, <1>2, <1>3 DEF Finishing

LEMMA UnprotectedView ==
    ASSUME TypeInv, NEW p \in Procs, Unprotected(p)
    PROVE  /\ head' \in [Dirs -> Branches \cup Oids \cup {None}] /\ lock' = lock
           /\ \A d \in Dirs : head'[d] = head[d] \/ lock[d] = None
PROOF
  <1>0. head \in [Dirs -> Branches \cup Oids \cup {None}] /\ at[p] \in Dirs
    BY DEF TypeInv
  <1>1. /\ lock' = lock
        /\ \/ head' = head
           \/ \E o \in Oids : lock[at[p]] = None /\ head' = [head EXCEPT ![at[p]] = o]
    BY DEF Unprotected
  <1> QED BY <1>0, <1>1

LEMMA RepoView ==
    ASSUME TypeInv, [Next]_vars
    PROVE  /\ head' \in [Dirs -> Branches \cup Oids \cup {None}]
           /\ lock' \in [Dirs -> Branches \cup {None}]
           /\ \/ /\ txn' = txn /\ lock' = lock
                 /\ \A d \in Dirs : head'[d] = head[d] \/ lock[d] = None
              \/ \E p \in Procs : Begun(p) /\ Others(p) /\ LocksIt(p) /\ head' = head
              \/ \E p \in Procs : Moved(p) /\ Others(p) /\ lock' = lock /\ head' = head
              \/ \E p \in Procs : Ended(p) /\ Others(p) /\ OwnHeadOnly(p)
PROOF
  <1>0. /\ head \in [Dirs -> Branches \cup Oids \cup {None}]
        /\ lock \in [Dirs -> Branches \cup {None}]
    BY DEF TypeInv
  <1>1. CASE UNCHANGED vars
    BY <1>0, <1>1 DEF vars
  <1>2. CASE ClaimEnds \/ \E s \in Sids : Ages(s)
    BY <1>0, <1>2 DEF ClaimEnds, Ages, repo
  <1>3. ASSUME NEW p \in Procs, Around(p)
        PROVE  /\ txn' = txn /\ lock' = lock
               /\ head' \in [Dirs -> Branches \cup Oids \cup {None}]
               /\ \A d \in Dirs : head'[d] = head[d] \/ lock[d] = None
    <2>1. CASE Unprotected(p)
      BY <1>3, <2>1, UnprotectedView, StillTxn
    <2>2. CASE ~Unprotected(p)
      <3>1. \/ Starts(p) \/ Clears(p) \/ Dies(p) \/ Whoami(p) \/ GCSessions(p) \/ ClaimsAll(p)
            \/ \E d \in Dirs : Enters(p, d)
        BY <1>3, <2>2 DEF Around
      <3>2. UNCHANGED repo
        BY <3>1 DEF Starts, Clears, Dies, Whoami, GCSessions, ClaimsAll, Enters
      <3> QED BY <1>0, <1>3, <3>2, StillTxn DEF repo
    <2> QED BY <2>1, <2>2
  <1>4. ASSUME NEW p \in Procs, Starting(p)
        PROVE  /\ Begun(p) /\ Others(p) /\ LocksIt(p) /\ head' = head
               /\ lock' \in [Dirs -> Branches \cup {None}]
    <2>1. PICK shape \in {"head-symref", "add", "stash", "branch-delete"},
               dir \in Dirs \cup {None}, to \in Branches \cup {None} :
              /\ Begins(p, shape, dir, to)
              /\ IF shape \in {"head-symref", "add"}
                 THEN /\ dir \in Dirs /\ to \in Branches /\ lock[dir] = None
                      /\ lock' = [lock EXCEPT ![dir] = to]
                 ELSE lock' = lock
      BY <1>4, StartingBegins
    <2>2. /\ Begun(p) /\ Others(p) /\ head' = head
          /\ txn'[p].shape = shape /\ txn'[p].dir = dir /\ txn'[p].to = to
      BY <2>1, BeginsTxn DEF Others
    <2>3. LocksIt(p)
      BY <2>1, <2>2 DEF LocksIt
    <2> QED BY <1>0, <2>1, <2>2, <2>3
  <1>5. ASSUME NEW p \in Procs, Hook(p)
        PROVE  Moved(p) /\ Others(p) /\ lock' = lock /\ head' = head
    BY <1>5, HookTxn DEF Others, repo
  <1>6. ASSUME NEW p \in Procs, Finishing(p)
        PROVE  /\ Ended(p) /\ Others(p) /\ OwnHeadOnly(p)
               /\ head' \in [Dirs -> Branches \cup Oids \cup {None}]
               /\ lock' \in [Dirs -> Branches \cup {None}]
    BY <1>6, FinishingView, EndsTxn DEF Others, Finishing
  <1> QED BY <1>0, <1>1, <1>2, <1>3, <1>4, <1>5, <1>6, NextCases

LEMMA TypeStep ==
    ASSUME TypeInv, [Next]_vars, \A s \in Sids : RecordTrue(s)
    PROVE  TypeInv'
  BY PeopleTyped, PeopleView, RecTyped, RepoView, TxnView DEF TypeInv

(* The locks of the HEADs that move. *)
LEMMA BirthStep ==
    ASSUME TypeInv, BirthInv, [Next]_vars
    PROVE  BirthInv'
PROOF
  <1>0. /\ \A p \in Procs : Locks(p)
        /\ \A p, q \in Procs : HeadShape(p) /\ HeadShape(q) /\ txn[p].dir = txn[q].dir => p = q
        /\ \A p \in Procs : txn[p].birth => HeadShape(p) /\ head[txn[p].dir] = None
    BY DEF BirthInv
  <1>1. CASE /\ txn' = txn /\ lock' = lock
             /\ \A d \in Dirs : head'[d] = head[d] \/ lock[d] = None
    <2>1. \A p \in Procs : Locks(p)' /\ (HeadShape(p)' <=> HeadShape(p))
      BY <1>0, <1>1 DEF Locks, HeadShape
    <2>2. \A p \in Procs : txn'[p].birth => head'[txn'[p].dir] = None
      BY <1>0, <1>1 DEF Locks
    <2> QED BY <1>0, <1>1, <2>1, <2>2 DEF BirthInv
  <1>2. ASSUME NEW p \in Procs, Begun(p), Others(p), LocksIt(p), head' = head
        PROVE  BirthInv'
    <2>0. /\ lock \in [Dirs -> Branches \cup {None}] /\ txn[p] = Idle /\ ~txn'[p].birth
          /\ ~HeadShape(p) /\ None \notin Branches
      BY <1>2, IdleTyped, GuardAssumption DEF TypeInv, Begun, HeadShape
    <2>1. \A q \in Procs : q # p => (HeadShape(q)' <=> HeadShape(q))
      BY <1>2 DEF Others, HeadShape
    <2>2. ASSUME NEW q \in Procs, q # p, HeadShape(q)
          PROVE  /\ lock'[txn[q].dir] = txn[q].to /\ txn[q].dir \in Dirs /\ txn[q].to # None
                 /\ HeadShape(p)' => txn'[p].dir # txn[q].dir
      <3>1. txn[q].dir \in Dirs /\ txn[q].to # None /\ lock[txn[q].dir] = txn[q].to
        BY <1>0, <2>2 DEF Locks
      <3> QED BY <1>2, <2>0, <3>1 DEF LocksIt, HeadShape
    <2>3. Locks(p)'
      BY <1>2, <2>0 DEF LocksIt, Locks, HeadShape
    <2>4. \A q \in Procs : Locks(q)'
      BY <1>2, <2>1, <2>2, <2>3 DEF Others, Locks
    <2>5. \A q, r \in Procs : HeadShape(q)' /\ HeadShape(r)' /\ txn'[q].dir = txn'[r].dir => q = r
      BY <1>0, <1>2, <2>1, <2>2 DEF Others
    <2>6. \A q \in Procs : txn'[q].birth => HeadShape(q)' /\ head'[txn'[q].dir] = None
      BY <1>0, <1>2, <2>0, <2>1 DEF Others
    <2> QED BY <2>4, <2>5, <2>6 DEF BirthInv
  <1>3. ASSUME NEW p \in Procs, Moved(p), Others(p), lock' = lock, head' = head
        PROVE  BirthInv'
    <2>1. \A q \in Procs : /\ txn'[q].shape = txn[q].shape /\ txn'[q].dir = txn[q].dir
                           /\ txn'[q].to = txn[q].to
      BY <1>3 DEF Moved, Others
    <2>2. \A q \in Procs : Locks(q)' /\ (HeadShape(q)' <=> HeadShape(q))
      BY <1>0, <1>3, <2>1 DEF Locks, HeadShape
    <2>3. ASSUME NEW q \in Procs, txn'[q].birth
          PROVE  HeadShape(q) /\ head[txn[q].dir] = None
      <3>1. CASE txn[q].birth
        BY <1>0, <3>1
      <3>2. CASE ~txn[q].birth
        <4>1. PICK d \in Dirs : HeadLockClaimants(txn[q].to) = {d} /\ WorktreeUnborn(d)
          BY <1>3, <2>3, <3>2 DEF Moved, Others
        <4>2. HeadShape(q) /\ Locks(q)
          BY <1>0, <1>3, <2>3, <3>2 DEF Moved, Others
        <4>3. txn[q].dir \in HeadLockClaimants(txn[q].to)
          BY <4>2 DEF Locks, HeadLockClaimants
        <4> QED BY <4>1, <4>2, <4>3 DEF WorktreeUnborn
      <3> QED BY <3>1, <3>2
    <2> QED BY <1>0, <1>3, <2>1, <2>2, <2>3 DEF BirthInv
  <1>4. ASSUME NEW p \in Procs, Ended(p), Others(p), OwnHeadOnly(p)
        PROVE  BirthInv'
    <2>1. ~HeadShape(p)' /\ ~txn'[p].birth
      BY <1>4, IdleTyped DEF Ended, HeadShape
    <2>2. \A q \in Procs : q # p => (HeadShape(q)' <=> HeadShape(q))
      BY <1>4 DEF Others, HeadShape
    <2>3. ASSUME NEW q \in Procs, q # p, HeadShape(q)
          PROVE  /\ txn[q].dir \in Dirs /\ txn[q].to # None
                 /\ lock'[txn[q].dir] = txn[q].to /\ head'[txn[q].dir] = head[txn[q].dir]
      <3>1. txn[q].dir \in Dirs /\ txn[q].to # None /\ lock[txn[q].dir] = txn[q].to
        BY <1>0, <2>3 DEF Locks
      <3>2. HeadShape(p) => txn[q].dir # txn[p].dir
        BY <1>0, <2>3
      <3> QED BY <1>4, <3>1, <3>2 DEF OwnHeadOnly
    <2>4. \A q \in Procs : Locks(q)'
      BY <1>4, <2>1, <2>2, <2>3 DEF Others, Locks
    <2>5. \A q, r \in Procs : HeadShape(q)' /\ HeadShape(r)' /\ txn'[q].dir = txn'[r].dir => q = r
      BY <1>0, <1>4, <2>1, <2>2 DEF Others
    <2>6. \A q \in Procs : txn'[q].birth => HeadShape(q)' /\ head'[txn'[q].dir] = None
      BY <1>0, <1>4, <2>1, <2>2, <2>3 DEF Others
    <2> QED BY <2>4, <2>5, <2>6 DEF BirthInv
  <1> QED BY <1>1, <1>2, <1>3, <1>4, RepoView

----------------------------------------------------------------------------
(* Sessions: who is up, under which id, and what their records say.        *)

LEMMA ActiveStep ==
    ASSUME TypeInv, [Next]_vars, \A p \in Procs : Active(p), NEW p \in Procs
    PROVE  Active(p)'
PROOF
  <1>0. /\ txn \in [Procs -> Txn] /\ up \in [Procs -> {"new", "up", "gone"}]
        /\ sid \in [Procs -> Sids \cup {None}] /\ None \notin Sids /\ Active(p)
    BY NoneApart DEF TypeInv
  <1>1. CASE UNCHANGED people
    <2>1. txn'[p] = txn[p] \/ Begun(p) \/ Moved(p) \/ Ended(p)
      BY TxnView
    <2> QED BY <1>0, <1>1, <2>1, IdleTyped DEF people, Begun, Moved, Ended, Active, Up
  <1>2. CASE txn' = txn /\ Still
    BY <1>0, <1>2 DEF Active, Up, Still
  <1>3. ASSUME txn' = txn, NEW q \in Procs, Starts(q)
        PROVE  Active(p)'
    <2>1. /\ up' = [up EXCEPT ![q] = "up"] /\ up[q] = "new"
          /\ sid' = sid \/ \E s \in Sids : sid' = [sid EXCEPT ![q] = s]
      BY <1>3 DEF Starts
    <2>2. Active(q)
      OBVIOUS
    <2> QED BY <1>0, <1>3, <2>1, <2>2 DEF Active, Up
  <1>4. ASSUME txn' = txn, NEW q \in Procs, Clears(q)
        PROVE  Active(p)'
    <2>1. /\ up' = up /\ up[q] = "up" /\ txn[q] = Idle
          /\ \E s \in Sids : sid' = [sid EXCEPT ![q] = s]
      BY <1>4 DEF Clears, Up
    <2> QED BY <1>0, <1>4, <2>1, IdleTyped DEF Active, Up
  <1>5. ASSUME txn' = txn, NEW q \in Procs, Dies(q)
        PROVE  Active(p)'
    <2>1. up' = [up EXCEPT ![q] = "gone"] /\ txn[q] = Idle /\ sid' = sid
      BY <1>5 DEF Dies
    <2> QED BY <1>0, <1>5, <2>1, IdleTyped DEF Active, Up
  <1> QED BY <1>1, <1>2, <1>3, <1>4, <1>5, PeopleView, TxnView DEF people

LEMMA DistinctStep ==
    ASSUME TypeInv, [Next]_vars, Distinct, \A p \in Procs : Active(p)
    PROVE  Distinct'
PROOF
  <1>0. /\ up \in [Procs -> {"new", "up", "gone"}] /\ sid \in [Procs -> Sids \cup {None}]
        /\ None \notin Sids
    BY NoneApart DEF TypeInv
  <1>1. CASE Still
    BY <1>1 DEF Distinct, Up, Still
  <1>2. ASSUME NEW q \in Procs, Starts(q)
        PROVE  Distinct'
    <2>1. /\ up' = [up EXCEPT ![q] = "up"] /\ up[q] = "new" /\ sock' = sock \cup {q}
          /\ OccupantsOf(q) = {}
          /\ sid' = sid \/ \E s \in Sids \ InUse : sid' = [sid EXCEPT ![q] = s]
      BY <1>2 DEF Starts
    <2>2. \A p \in Procs : Up(p) => Pid[p] # Pid[q]
      BY <2>1 DEF OccupantsOf
    <2>3. \A p \in Procs : Up(p)' <=> Up(p) \/ p = q
      BY <1>0, <2>1 DEF Up
    <2>4. sid[q] = None
      BY <2>1 DEF Active
    <2>5. \A p \in Procs : p # q => sid'[p] = sid[p]
      BY <1>0, <2>1
    <2>6. \A p \in Procs : Up(p) /\ p # q => sid'[p] # sid'[q] \/ sid'[p] = None
      BY <1>0, <2>1, <2>4, <2>5 DEF InUse
    <2> QED BY <2>1, <2>2, <2>3, <2>5, <2>6 DEF Distinct
  <1>3. ASSUME NEW q \in Procs, Clears(q)
        PROVE  Distinct'
    <2>1. /\ up' = up /\ sock' = sock
          /\ \E s \in Sids \ InUse : sid' = [sid EXCEPT ![q] = s]
      BY <1>3 DEF Clears
    <2>2. \A p \in Procs : Up(p)' <=> Up(p)
      BY <2>1 DEF Up
    <2>3. \A p \in Procs : p # q => sid'[p] = sid[p]
      BY <1>0, <2>1
    <2>4. \A p \in Procs : Up(p) /\ p # q => sid'[p] # sid'[q]
      BY <1>0, <2>1, <2>3 DEF InUse
    <2> QED BY <2>1, <2>2, <2>3, <2>4 DEF Distinct
  <1>4. ASSUME NEW q \in Procs, Dies(q)
        PROVE  Distinct'
    <2>1. /\ up' = [up EXCEPT ![q] = "gone"] /\ sid' = sid /\ sock' \in {sock, sock \ {q}}
      BY <1>4 DEF Dies
    <2>2. \A p \in Procs : Up(p)' <=> Up(p) /\ p # q
      BY <1>0, <2>1 DEF Up
    <2> QED BY <2>1, <2>2 DEF Distinct
  <1> QED BY <1>1, <1>2, <1>3, <1>4, PeopleView

LEMMA StaysStarted ==
    ASSUME TypeInv, [Next]_vars, NEW p \in Procs, up[p] # "new"
    PROVE  up'[p] # "new"
PROOF
  <1>0. up \in [Procs -> {"new", "up", "gone"}]
    BY DEF TypeInv
  <1>1. ASSUME NEW q \in Procs, Starts(q) \/ Clears(q) \/ Dies(q)
        PROVE  up' = up \/ up' = [up EXCEPT ![q] = "up"] \/ up' = [up EXCEPT ![q] = "gone"]
    BY <1>1 DEF Starts, Clears, Dies
  <1> QED BY <1>0, <1>1, PeopleView DEF Still

(* What whoami may leave in a record, by the record it replaces. *)
LEMMA RewriteView ==
    ASSUME TypeInv, NEW p \in Procs, Rewrites(p), \A s \in Sids : RecordTrue(s)
    PROVE  /\ rec'[sid[p]].uuid \in Owners
           /\ \/ /\ rec'[sid[p]].pid = p /\ rec'[sid[p]].sock \in {p, None}
                 /\ \/ rec'[sid[p]].start = p /\ rec'[sid[p]].uuid = p
                    \/ rec'[sid[p]].start = None /\ p \in Shaky
              \/ /\ p \in Shaky
                 /\ rec'[sid[p]].pid = rec[sid[p]].pid /\ rec'[sid[p]].start = rec[sid[p]].start
                 /\ rec'[sid[p]].uuid = rec[sid[p]].uuid
                 /\ rec'[sid[p]].sock \in {p, rec[sid[p]].sock}
              \/ p \in Shaky /\ rec'[sid[p]].pid = None /\ rec'[sid[p]].start = None
PROOF
  <1>1. PICK look \in Looks(p) : rec'[sid[p]] = RecordSession(p, ActorOwner(p, look), look)
    BY DEF Rewrites
  <1>2. sid[p] \in Sids /\ sid[p] # None /\ RecordTrue(sid[p])
    BY NoneApart DEF Rewrites
  <1> DEFINE r == rec'[sid[p]]
  <1>3. r = RecordSession(p, ActorOwner(p, look), look)
    BY <1>1
  <1> HIDE DEF r
  <1>4. /\ r \in Record /\ r.uuid \in Owners
        /\ \/ /\ r.pid = p /\ r.sock \in {p, None}
              /\ \/ r.start = p /\ r.uuid = p
                 \/ r.start = None /\ p \in Shaky
           \/ /\ p \in Shaky /\ r.pid = rec[sid[p]].pid /\ r.start = rec[sid[p]].start
              /\ r.uuid = rec[sid[p]].uuid /\ r.sock \in {p, rec[sid[p]].sock}
           \/ p \in Shaky /\ r.pid = None /\ r.start = None
    BY <1>2, <1>3, RecordView
  <1> QED BY <1>4 DEF r

LEMMA AgedFields ==
    ASSUME TypeInv, NEW s \in Sids, rec'[s] = [rec[s] EXCEPT !.old = TRUE]
    PROVE  /\ rec'[s].pid = rec[s].pid /\ rec'[s].start = rec[s].start
           /\ rec'[s].uuid = rec[s].uuid /\ rec'[s].sock = rec[s].sock
PROOF
  <1>1. rec[s] \in Record
    BY DEF TypeInv
  <1> QED BY <1>1 DEF Record

LEMMA RecordStep ==
    ASSUME TypeInv, [Next]_vars, \A s \in Sids : RecordTrue(s), NEW s \in Sids
    PROVE  RecordTrue(s)'
PROOF
  <1>0. /\ rec \in [Sids -> Record] /\ rec[s] \in Record /\ RecordTrue(s)
        /\ rec[s].pid \in Procs \cup {None} /\ None \notin Owners /\ None \notin Procs
    BY NoneApart DEF TypeInv, Record
  <1>1. rec[s].pid # None => up'[rec[s].pid] # "new"
    BY <1>0, StaysStarted DEF RecordTrue
  <1>2. CASE rec'[s] = rec[s]
    BY <1>0, <1>1, <1>2 DEF RecordTrue
  <1>3. CASE rec'[s] = NoRec
    BY <1>0, <1>3, NoRecTyped DEF RecordTrue
  <1>4. CASE rec'[s] = [rec[s] EXCEPT !.old = TRUE]
    <2>1. /\ rec'[s].pid = rec[s].pid /\ rec'[s].start = rec[s].start
          /\ rec'[s].uuid = rec[s].uuid
      BY <1>4, AgedFields
    <2> QED BY <1>0, <1>1, <2>1 DEF RecordTrue
  <1>5. ASSUME NEW p \in Procs, Rewrites(p), Still, s = sid[p]
        PROVE  RecordTrue(s)'
    <2>1. up'[p] # "new"
      BY <1>5 DEF Rewrites, Still, Up
    <2>2. CASE /\ rec'[s].pid = p
               /\ \/ rec'[s].start = p /\ rec'[s].uuid = p
                  \/ rec'[s].start = None /\ p \in Shaky
      BY <1>0, <1>5, <2>1, <2>2, RewriteView DEF RecordTrue
    <2>3. CASE /\ rec'[s].pid = rec[s].pid /\ rec'[s].start = rec[s].start
               /\ rec'[s].uuid = rec[s].uuid
      BY <1>0, <1>1, <2>3 DEF RecordTrue
    <2>4. CASE rec'[s].pid = None /\ rec'[s].start = None
      BY <2>4 DEF RecordTrue
    <2> QED BY <1>5, <2>2, <2>3, <2>4, RewriteView
  <1>6. ASSUME NEW p \in Procs, Rewrites(p), s # sid[p]
        PROVE  rec'[s] = rec[s]
    BY <1>6 DEF Rewrites
  <1> QED BY <1>2, <1>3, <1>4, <1>5, <1>6, RecView

LEMMA OwnRecordStep ==
    ASSUME TypeInv, [Next]_vars, SessionInv, NEW p \in Procs
    PROVE  OwnRecord(p)'
PROOF
  <1>0. /\ rec \in [Sids -> Record] /\ sid \in [Procs -> Sids \cup {None}]
        /\ up \in [Procs -> {"new", "up", "gone"}]
        /\ None \notin Sids /\ None \notin Procs
        /\ \A s \in Sids : RecordTrue(s)
        /\ OwnRecord(p) /\ Active(p) /\ Distinct
    BY NoneApart DEF TypeInv, SessionInv
  <1> SUFFICES ASSUME up'[p] = "up", sid'[p] # None
               PROVE  /\ rec'[sid'[p]].pid = p => rec'[sid'[p]].sock \in {p, None}
                      /\ \/ p \in Shaky \/ rec'[sid'[p]] = NoRec \/ rec'[sid'[p]].pid = p
                         \/ \A s \in Sids : rec'[s].pid # p
    BY DEF OwnRecord, Up
  <1>1. CASE rec' = rec /\ Still
    BY <1>0, <1>1 DEF OwnRecord, Still, Up
  <1>2. ASSUME rec' = rec, NEW q \in Procs, Starts(q)
        PROVE  /\ rec'[sid'[p]].pid = p => rec'[sid'[p]].sock \in {p, None}
               /\ \/ p \in Shaky \/ rec'[sid'[p]] = NoRec \/ rec'[sid'[p]].pid = p
                  \/ \A s \in Sids : rec'[s].pid # p
    <2>1. /\ up' = [up EXCEPT ![q] = "up"] /\ up[q] = "new"
          /\ sid' = sid \/ \E s \in Sids : sid' = [sid EXCEPT ![q] = s]
      BY <1>2 DEF Starts
    <2>2. CASE q = p
      <3>1. \A s \in Sids : rec[s].pid # p
        BY <1>0, <2>1, <2>2 DEF RecordTrue
      <3>2. sid'[p] \in Sids
        BY <1>0, <2>1
      <3> QED BY <1>2, <3>1, <3>2
    <2>3. CASE q # p
      <3>1. up[p] = "up" /\ sid'[p] = sid[p]
        BY <1>0, <2>1, <2>3
      <3> QED BY <1>0, <1>2, <3>1 DEF OwnRecord, Up
    <2> QED BY <2>2, <2>3
  <1>3. ASSUME rec' = rec, NEW q \in Procs, Clears(q)
        PROVE  /\ rec'[sid'[p]].pid = p => rec'[sid'[p]].sock \in {p, None}
               /\ \/ p \in Shaky \/ rec'[sid'[p]] = NoRec \/ rec'[sid'[p]].pid = p
                  \/ \A s \in Sids : rec'[s].pid # p
    <2>1. up' = up /\ \E s \in Sids : rec[s] = NoRec /\ sid' = [sid EXCEPT ![q] = s]
      BY <1>3 DEF Clears
    <2>2. CASE q = p
      <3>1. rec'[sid'[p]] = NoRec
        BY <1>0, <1>3, <2>1, <2>2
      <3> QED BY <1>0, <3>1, NoRecTyped
    <2>3. CASE q # p
      <3>1. up[p] = "up" /\ sid'[p] = sid[p]
        BY <1>0, <2>1, <2>3
      <3> QED BY <1>0, <1>3, <3>1 DEF OwnRecord, Up
    <2> QED BY <2>2, <2>3
  <1>4. ASSUME rec' = rec, NEW q \in Procs, Dies(q)
        PROVE  /\ rec'[sid'[p]].pid = p => rec'[sid'[p]].sock \in {p, None}
               /\ \/ p \in Shaky \/ rec'[sid'[p]] = NoRec \/ rec'[sid'[p]].pid = p
                  \/ \A s \in Sids : rec'[s].pid # p
    <2>1. up' = [up EXCEPT ![q] = "gone"] /\ sid' = sid
      BY <1>4 DEF Dies
    <2>2. up[p] = "up"
      BY <1>0, <2>1
    <2> QED BY <1>0, <1>4, <2>1, <2>2 DEF OwnRecord, Up
  <1>5. ASSUME Still, NEW q \in Procs, Rewrites(q)
        PROVE  /\ rec'[sid'[p]].pid = p => rec'[sid'[p]].sock \in {p, None}
               /\ \/ p \in Shaky \/ rec'[sid'[p]] = NoRec \/ rec'[sid'[p]].pid = p
                  \/ \A s \in Sids : rec'[s].pid # p
    <2>1. /\ up[p] = "up" /\ sid'[p] = sid[p] /\ sid[p] # None /\ sid[p] \in Sids
          /\ \A s \in Sids : s # sid[q] => rec'[s] = rec[s]
          /\ Up(q) /\ sid[q] \in Sids
      BY <1>0, <1>5 DEF Still, Rewrites
    <2>2. /\ rec[sid[p]].pid = p => rec[sid[p]].sock \in {p, None}
          /\ \/ p \in Shaky \/ rec[sid[p]] = NoRec \/ rec[sid[p]].pid = p
             \/ \A s \in Sids : rec[s].pid # p
      BY <1>0, <2>1 DEF OwnRecord, Up
    <2>3. /\ \/ rec'[sid[q]].pid = q /\ rec'[sid[q]].sock \in {q, None}
             \/ /\ q \in Shaky /\ rec'[sid[q]].pid = rec[sid[q]].pid
                /\ rec'[sid[q]].sock \in {q, rec[sid[q]].sock}
             \/ q \in Shaky /\ rec'[sid[q]].pid = None
      BY <1>0, <1>5, RewriteView
    <2>4. CASE q = p
      BY <1>0, <2>1, <2>2, <2>3, <2>4
    <2>5. CASE q # p
      <3>1. sid[q] # sid[p]
        BY <1>0, <2>1, <2>5 DEF Distinct, Up
      <3>2. \A s \in Sids : rec'[s].pid \in {rec[s].pid, q, None}
        BY <2>1, <2>3
      <3> QED BY <1>0, <2>1, <2>2, <2>5, <3>1, <3>2
    <2> QED BY <2>4, <2>5
  <1>6. ASSUME Still,
               \A s \in Sids : \/ rec'[s] = rec[s]
                               \/ rec'[s] = NoRec
                               \/ rec[s] # NoRec /\ rec'[s] = [rec[s] EXCEPT !.old = TRUE]
        PROVE  /\ rec'[sid'[p]].pid = p => rec'[sid'[p]].sock \in {p, None}
               /\ \/ p \in Shaky \/ rec'[sid'[p]] = NoRec \/ rec'[sid'[p]].pid = p
                  \/ \A s \in Sids : rec'[s].pid # p
    <2>1. up[p] = "up" /\ sid'[p] = sid[p] /\ sid[p] # None /\ sid[p] \in Sids
      BY <1>0, <1>6 DEF Still
    <2>2. /\ rec[sid[p]].pid = p => rec[sid[p]].sock \in {p, None}
          /\ \/ p \in Shaky \/ rec[sid[p]] = NoRec \/ rec[sid[p]].pid = p
             \/ \A s \in Sids : rec[s].pid # p
      BY <1>0, <2>1 DEF OwnRecord, Up
    <2>3. \A s \in Sids : \/ rec'[s] = rec[s]
                          \/ rec'[s] = NoRec
                          \/ /\ rec[s] # NoRec
                             /\ rec'[s].pid = rec[s].pid /\ rec'[s].sock = rec[s].sock
      BY <1>6, AgedFields
    <2> QED BY <1>0, <2>1, <2>2, <2>3, NoRecTyped
  <1> QED BY <1>1, <1>2, <1>3, <1>4, <1>5, <1>6, PeopleView, RecView

LEMMA SessionStep ==
    ASSUME TypeInv, SessionInv, [Next]_vars
    PROVE  SessionInv'
PROOF
  <1>1. \A p \in Procs : Active(p)'
    BY ActiveStep DEF SessionInv
  <1>2. Distinct'
    BY DistinctStep DEF SessionInv
  <1>3. \A s \in Sids : RecordTrue(s)'
    BY RecordStep DEF SessionInv
  <1>4. \A p \in Procs : OwnRecord(p)'
    BY OwnRecordStep
  <1> QED BY <1>1, <1>2, <1>3, <1>4 DEF SessionInv

LEMMA GuardInit ==
    ASSUME Init
    PROVE  GuardInv
PROOF
  <1>1. TypeInv
    BY GuardAssumption, NoRecTyped, IdleTyped DEF Init, TypeInv
  <1>2. SessionInv
    BY IdleTyped, NoRecTyped
       DEF Init, SessionInv, Distinct, Active, RecordTrue, OwnRecord, Up
  <1>3. BirthInv
    BY IdleTyped DEF Init, BirthInv, Locks, HeadShape
  <1> QED BY <1>1, <1>2, <1>3 DEF GuardInv

(* Sessions that are up have their sockets, pids and ids to themselves and  *)
(* their records say nothing false of a process (RecordSession), and every  *)
(* HEAD that is moved is moved by one transaction (the HEAD.lock protocol   *)
(* that headWorktreeBirth reads).                                           *)
THEOREM RecordsAndLocksHold == Spec => []GuardInv
PROOF
  <1>1. GuardInv /\ [Next]_vars => GuardInv'
    BY TypeStep, SessionStep, BirthStep DEF GuardInv, SessionInv
  <1> QED BY <1>1, GuardInit, PTL DEF Spec

----------------------------------------------------------------------------
(* The oracle. *)

LEMMA OccupantsAre ==
    ASSUME TypeInv, Distinct, NEW q \in Procs, Up(q)
    PROVE  OccupantsOf(q) = {q}
  BY DEF OccupantsOf, Distinct

LEMMA UpCounts ==
    ASSUME GuardInv, NEW s \in Coherent, NEW blind, NEW q \in Procs, rec[s].pid = q, Up(q)
    PROVE  SessionVerdict(rec[s], blind) \in {"live", "proven"}
PROOF
  <1>1. /\ s \in Sids /\ rec[s].sock \in {q, None} /\ None \notin Procs
        /\ rec[s].start \in {None, q} /\ q \in sock /\ Distinct /\ TypeInv
    BY NoneApart DEF Coherent, GuardInv, SessionInv, RecordTrue, Distinct
  <1>2. OccupantsOf(rec[s].pid) = {q}
    BY <1>1, OccupantsAre
  <1>3. /\ ~(rec[s].sock # None /\ rec[s].sock \notin sock) /\ rec[s].pid # None
        /\ OccupantsOf(rec[s].pid) # {}
        /\ rec[s].start # None => OccupantsOf(rec[s].pid) = {rec[s].start}
    BY <1>1, <1>2
  <1>4. SessionVerdict(rec[s], blind) =
            IF rec[s].start # None /\ OccupantsOf(rec[s].pid) \cap blind = {} THEN "proven" ELSE "live"
    BY <1>3 DEF SessionVerdict
  <1> QED BY <1>4

LEMMA ProvenIsUp ==
    ASSUME GuardInv, NEW s \in Sids, NEW blind, rec[s].pid # None,
           SessionVerdict(rec[s], blind) = "proven"
    PROVE  Up(rec[s].pid)
PROOF
  <1>1. rec[s].start \in {None, rec[s].pid}
    BY DEF GuardInv, SessionInv, RecordTrue
  <1>2. rec[s].start # None /\ OccupantsOf(rec[s].pid) = {rec[s].start}
    BY DEF SessionVerdict
  <1>3. rec[s].pid \in OccupantsOf(rec[s].pid)
    BY <1>1, <1>2
  <1> QED BY <1>3 DEF OccupantsOf

(* The probe never calls a running process dead, nor a finished one proven, *)
(* on a record of one process (SessionRecord.Verdict).                      *)
THEOREM OracleIsSound == Spec => []ProbeSound
PROOF
  <1>1. GuardInv => ProbeSound
    <2> SUFFICES ASSUME GuardInv, NEW s \in Coherent, NEW blind \in SUBSET Shaky, rec[s].pid # None
                 PROVE  /\ SessionVerdict(rec[s], blind) = "dead" => ~Up(rec[s].pid)
                        /\ SessionVerdict(rec[s], blind) = "proven" => Up(rec[s].pid)
      BY DEF ProbeSound
    <2>1. s \in Sids /\ rec[s].pid \in Procs
      BY DEF Coherent, GuardInv, TypeInv, Record
    <2> QED BY <2>1, UpCounts, ProvenIsUp
  <1> QED BY <1>1, RecordsAndLocksHold, PTL

(* Whatever killed `worktree add`s leave behind, a transaction the birth    *)
(* carve-out admits finds no HEAD where it writes one (headWorktreeBirth).  *)
THEOREM CarveOutWritesNewHeads == Spec => BirthAdmitsOnlyBirths
PROOF
  <1> DEFINE A == \A p \in Procs : txn[p].birth /\ Commits(p) => head[txn[p].dir] = None
  <1>1. GuardInv /\ [Next]_vars => A
    BY DEF GuardInv, BirthInv
  <1> HIDE DEF A
  <1>2. GuardInv /\ [Next]_vars => [A]_vars
    BY <1>1
  <1>3. Spec => [][A]_vars
    BY <1>2, RecordsAndLocksHold, PTL DEF Spec
  <1> QED BY <1>3 DEF A, BirthAdmitsOnlyBirths

----------------------------------------------------------------------------
(* The live gate. *)

LEMMA LiveStep ==
    ASSUME TypeInv, [Next]_vars, NEW p \in Procs,
           txn[p].pc = "live", txn'[p].pc \in {"admitted", "birth"}
    PROVE  /\ txn'[p].unread \in SUBSET Sids
           /\ \E look \in Looks(p), blind \in SUBSET Shaky :
                  (txn'[p].pc = "admitted") <=>
                      Cardinality(LiveOwnerUUIDsInRepo(at[p], p, look, blind, txn'[p].unread)) < 2
PROOF
  <1>1. HookLive(p)
    <2>1. txn'[p] # txn[p] /\ ~Begun(p) /\ ~Ended(p)
      BY IdleTyped DEF Begun, Ended
    <2>2. \E q \in Procs : Hook(q) \/ Starting(q) \/ Finishing(q)
      BY <2>1, NextCases, StillTxn DEF vars
    <2>3. ~\E q \in Procs : Starting(q)
      BY <2>1, StartingBegins, BeginsTxn
    <2>4. ~\E q \in Procs : Finishing(q)
      BY <2>1, EndsTxn DEF Finishing
    <2>5. Hook(p)
      BY <2>1, <2>2, <2>3, <2>4, HookTxn
    <2> QED BY <2>5 DEF Hook, HookShape, HookFailsOpen, HookBirth, HookVerdict
  <1> DEFINE few(look, blind, unread) ==
                 Cardinality(LiveOwnerUUIDsInRepo(at[p], p, look, blind, unread)) < 2
  <1>2. PICK unread \in SUBSET Sids, look \in Looks(p), blind \in SUBSET Shaky :
           \E alone \in BOOLEAN : (alone <=> few(look, blind, unread)) /\ Gated(p, alone, unread)
    BY <1>1, LiveGates
  <1>3. PICK alone \in BOOLEAN : (alone <=> few(look, blind, unread)) /\ Gated(p, alone, unread)
    BY <1>2
  <1> HIDE DEF few
  <1>4. txn'[p].unread = unread /\ ((txn'[p].pc = "admitted") <=> alone)
    BY <1>3, GatedTxn
  <1>5. (txn'[p].pc = "admitted") <=> few(look, blind, txn'[p].unread)
    BY <1>3, <1>4
  <1> QED BY <1>4, <1>5 DEF few

LEMMA LiveOwnersFinite ==
    ASSUME TypeInv, NEW d, NEW p, NEW look, NEW blind, NEW unread
    PROVE  IsFiniteSet(LiveOwnerUUIDsInRepo(d, p, look, blind, unread))
PROOF
  <1> DEFINE live == {s \in Sids \ unread : rec[s].repo = d /\ Counts(rec[s], blind)}
             D == DropRotatedSelfIDs(live, p, look)
             L == LiveOwnerUUIDsInRepo(d, p, look, blind, unread)
             f == [s \in D |-> rec[s].uuid]
  <1>1. D \subseteq Sids
    BY DEF DropRotatedSelfIDs
  <1>2. L = {rec[s].uuid : s \in D}
    BY DEF LiveOwnerUUIDsInRepo
  <1> HIDE DEF D, L
  <1>3. IsFiniteSet(D)
    BY <1>1, GuardAssumption, FS_Subset
  <1>4. f \in Surjection(D, L)
    BY <1>2 DEF Surjection
  <1>5. IsFiniteSet(L)
    BY <1>3, <1>4, FS_Surjection
  <1> QED BY <1>5 DEF L

LEMMA TwoOwners ==
    ASSUME NEW L, IsFiniteSet(L)
    PROVE  Cardinality(L) < 2 <=> \A u, v \in L : u = v
PROOF
  <1>1. Cardinality(L) \in Nat
    BY FS_CardinalityType
  <1>2. ASSUME NEW u \in L, NEW v \in L, u # v
        PROVE  Cardinality(L) >= 2
    <2>1. IsFiniteSet({u}) /\ Cardinality({u}) = 1
      BY FS_Singleton
    <2>2. Cardinality({u} \cup {v}) = IF v \in {u} THEN Cardinality({u}) ELSE Cardinality({u}) + 1
      BY <2>1, FS_AddElement
    <2>5. Cardinality({u} \cup {v}) = 2
      BY <1>2, <2>1, <2>2
    <2>3. ({u} \cup {v}) \in SUBSET L
      OBVIOUS
    <2>4. Cardinality({u} \cup {v}) <= Cardinality(L)
      BY <2>3, FS_Subset
    <2> QED BY <1>1, <2>4, <2>5
  <1>3. ASSUME \A u, v \in L : u = v
        PROVE  Cardinality(L) < 2
    <2>1. CASE L = {}
      BY <2>1, FS_EmptySet
    <2>2. CASE L # {}
      <3>1. PICK u \in L : TRUE
        BY <2>2
      <3>2. L = {u}
        BY <1>3, <3>1
      <3> QED BY <3>2, FS_Singleton
    <2> QED BY <2>1, <2>2
  <1> QED BY <1>1, <1>2, <1>3

LEMMA SameProcessIs ==
    ASSUME NEW r, NEW p, NEW look, SameProcess(r, p, look)
    PROVE  r.pid = p
  BY DEF SameProcess

(* The live gate passes a session recorded in its checkout, whose record it *)
(* could read, only when no other owner is up among the records it could    *)
(* read whose witnesses are all of one process; it fails open for a record  *)
(* it could not read or with the witnesses of two processes (runHookRef,    *)
(* liveOwnerUUIDs).                                                         *)
THEOREM GateCountsEveryPeer == Spec => AloneMeansAlone
PROOF
  <1> DEFINE A == \A p \in Procs :
          Passes(p) /\ RecordedHere(p) /\ sid[p] \notin txn'[p].unread
          => PeersOf(p, Coherent \ txn'[p].unread) = {}
  <1>1. GuardInv /\ [Next]_vars => A
    <2> SUFFICES ASSUME GuardInv, [Next]_vars, NEW p \in Procs, Passes(p), RecordedHere(p),
                        sid[p] \notin txn'[p].unread,
                        NEW q \in PeersOf(p, Coherent \ txn'[p].unread)
                 PROVE  FALSE
      OBVIOUS
    <2>1. PICK look \in Looks(p), blind \in SUBSET Shaky :
             (txn'[p].pc = "admitted") <=>
                 Cardinality(LiveOwnerUUIDsInRepo(at[p], p, look, blind, txn'[p].unread)) < 2
      BY LiveStep DEF GuardInv, Passes
    <2> DEFINE live == {s \in Sids \ txn'[p].unread : rec[s].repo = at[p] /\ Counts(rec[s], blind)}
               D == DropRotatedSelfIDs(live, p, look)
               L == LiveOwnerUUIDsInRepo(at[p], p, look, blind, txn'[p].unread)
    <2>2. L = {rec[s].uuid : s \in D}
      BY DEF LiveOwnerUUIDsInRepo
    <2>3. \A u, v \in L : u = v
      BY <2>1, LiveOwnersFinite, TwoOwners DEF GuardInv, Passes
    <2>4. /\ sid[p] \in Sids /\ Up(p) /\ rec[sid[p]].pid = p /\ rec[sid[p]].repo = at[p]
          /\ rec[sid[p]].sock \in {p, None}
      <3>1. Up(p) /\ sid[p] # None /\ sid[p] \in Sids \cup {None}
        BY DEF GuardInv, SessionInv, Active, Passes, TypeInv
      <3> QED BY <3>1 DEF GuardInv, SessionInv, OwnRecord, RecordedHere
    <2>5. sid[p] \in live
      <3>1. sid[p] \in Coherent /\ SessionVerdict(rec[sid[p]], blind) \in {"live", "proven"}
        BY <2>4, UpCounts DEF Coherent
      <3>2. rec[sid[p]].uuid # None
        BY <2>4, NoneApart DEF GuardInv, SessionInv, RecordTrue
      <3> QED BY <2>4, <3>1, <3>2 DEF Counts
    <2>6. PICK s \in Coherent \ txn'[p].unread : /\ rec[s].pid = q /\ rec[s].repo = at[p]
                                /\ rec[s].uuid # rec[sid[p]].uuid
      BY DEF PeersOf
    <2>7. s \in live /\ s \in Sids
      <3>1. /\ s \in Sids /\ q \in Procs /\ Up(q)
            /\ SessionVerdict(rec[s], blind) \in {"live", "proven"}
        BY <2>6, UpCounts DEF Coherent, PeersOf
      <3>2. rec[s].uuid # None
        BY <2>6, <3>1, NoneApart DEF GuardInv, SessionInv, RecordTrue
      <3> QED BY <2>6, <3>1, <3>2 DEF Counts
    <2>8. ~SameProcess(rec[s], p, look)
      BY <2>6, SameProcessIs DEF PeersOf
    <2> HIDE DEF live, L
    <2>9. sid[p] \in D /\ s \in D
      BY <2>5, <2>7, <2>8 DEF DropRotatedSelfIDs
    <2> QED BY <2>2, <2>3, <2>6, <2>9
  <1> HIDE DEF A
  <1>2. GuardInv /\ [Next]_vars => [A]_vars
    BY <1>1
  <1>3. Spec => [][A]_vars
    BY <1>2, RecordsAndLocksHold, PTL DEF Spec
  <1> QED BY <1>3 DEF A, AloneMeansAlone

(* Among sessions whose start times are known, a move is kept from passing  *)
(* only by another process that is up and recorded in the same checkout     *)
(* (dropRotatedSelfIDs, the Repo filter of liveOwnerUUIDs).                 *)
THEOREM GateCountsOnlyPeers == Spec => RefusedForAPeer
PROOF
  <1> DEFINE A == \A p \in Procs \ Shaky :
          /\ Counted(p)
          /\ \A s \in Sids : rec[s].repo = at[p] =>
                rec[s].pid # None /\ ({rec[s].pid} \cup OccupantsOf(rec[s].pid)) \cap Shaky = {}
          => PeersOf(p, Sids) # {}
  <1>1. GuardInv /\ [Next]_vars => A
    <2> SUFFICES ASSUME GuardInv, [Next]_vars, NEW p \in Procs \ Shaky, Counted(p),
                        \A s \in Sids : rec[s].repo = at[p] =>
                           /\ rec[s].pid # None
                           /\ ({rec[s].pid} \cup OccupantsOf(rec[s].pid)) \cap Shaky = {}
                 PROVE  PeersOf(p, Sids) # {}
      OBVIOUS
    <2>1. PICK look \in Looks(p), blind \in SUBSET Shaky :
             (txn'[p].pc = "admitted") <=>
                 Cardinality(LiveOwnerUUIDsInRepo(at[p], p, look, blind, txn'[p].unread)) < 2
      BY LiveStep DEF GuardInv, Counted
    <2> DEFINE live == {s \in Sids \ txn'[p].unread : rec[s].repo = at[p] /\ Counts(rec[s], blind)}
               D == DropRotatedSelfIDs(live, p, look)
               L == LiveOwnerUUIDsInRepo(at[p], p, look, blind, txn'[p].unread)
    <2>2. L = {rec[s].uuid : s \in D} /\ D \subseteq live
      BY DEF LiveOwnerUUIDsInRepo, DropRotatedSelfIDs
    <2>3. \E u, v \in L : u # v
      BY <2>1, LiveOwnersFinite, TwoOwners DEF GuardInv, Counted
    <2>4. ASSUME NEW s \in live
          PROVE  /\ s \in Sids /\ rec[s].repo = at[p] /\ rec[s].pid \in Procs
                 /\ rec[s].uuid = rec[s].pid /\ Up(rec[s].pid)
      <3>1. /\ s \in Sids /\ rec[s].repo = at[p]
            /\ SessionVerdict(rec[s], blind) \in {"live", "proven"}
        BY DEF Counts
      <3>2. /\ rec[s].pid # None /\ rec[s].pid \notin Shaky
            /\ OccupantsOf(rec[s].pid) \cap blind = {}
        BY <3>1
      <3>3. rec[s].pid \in Procs /\ rec[s].start = rec[s].pid /\ rec[s].uuid = rec[s].pid
        BY <3>1, <3>2 DEF GuardInv, SessionInv, RecordTrue, TypeInv, Record
      <3>4. SessionVerdict(rec[s], blind) = "proven"
        BY <3>1, <3>2, <3>3, NoneApart DEF SessionVerdict
      <3> QED BY <3>1, <3>2, <3>3, <3>4, ProvenIsUp
    <2> HIDE DEF live, D, L
    <2>5. PICK s \in live, t \in live : rec[s].uuid # rec[t].uuid
      BY <2>2, <2>3
    <2>6. \/ rec[sid[p]].uuid \in {p, None}
          \/ rec[s].pid # p /\ rec[t].pid # p
      <3>1. Up(p) /\ sid[p] # None /\ sid[p] \in Sids \cup {None}
        BY DEF GuardInv, SessionInv, Active, Counted, TypeInv
      <3>2. \/ rec[sid[p]] = NoRec \/ rec[sid[p]].pid = p
            \/ \A r \in Sids : rec[r].pid # p
        BY <3>1 DEF GuardInv, SessionInv, OwnRecord
      <3>3. CASE rec[sid[p]].pid = p
        BY <3>1, <3>3, NoneApart DEF GuardInv, SessionInv, RecordTrue
      <3> QED BY <2>4, <3>2, <3>3, NoRecTyped
    <2>7. \E r \in {s, t} : rec[r].pid # p /\ rec[r].uuid # rec[sid[p]].uuid
      BY <2>4, <2>5, <2>6, NoneApart
    <2> QED BY <2>4, <2>7 DEF PeersOf
  <1> HIDE DEF A
  <1>2. GuardInv /\ [Next]_vars => [A]_vars
    BY <1>1
  <1>3. Spec => [][A]_vars
    BY <1>2, RecordsAndLocksHold, PTL DEF Spec
  <1> QED BY <1>3 DEF A, RefusedForAPeer
============================================================================
