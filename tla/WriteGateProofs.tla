--------------------------- MODULE WriteGateProofs ---------------------------
(***************************************************************************)
(* Proofs about WriteGate, for any number of agents, checkouts, files and  *)
(* tool calls: the hooks only do what the store's verbs allow, so what is  *)
(* proved of the store holds under the hooks, and a covered write is alone.*)
(***************************************************************************)
EXTENDS WriteGate, LockStoreProofs

(* A pre-hook takes no longer than the bound between the clock it read     *)
(* first and its last commit.                                              *)
HooksTimely ==
    \A c \in CallIds : Preparing(c) => hook[c].tpre <= now /\ now <= hook[c].tpre + MaxLag

HooksInv == hook \in [CallIds -> Hook] /\ HooksTimely

------------------------------------------------------------------------------
(* The process of one call moves, the others stay where they are. *)
LEMMA HookMoves ==
    ASSUME HooksInv, now \in Nat, UNCHANGED now, NEW c \in CallIds, NEW h \in Hook,
           hook' = [hook EXCEPT ![c] = h],
           h.pc \in {"dead", "missing", "drop", "admit", "take", "reread", "record"}
               => h.tpre <= now /\ now <= h.tpre + MaxLag
    PROVE  HooksInv'
PROOF
  <1>1. hook' \in [CallIds -> Hook] /\ hook'[c] = h
        /\ \A d \in CallIds \ {c} : hook'[d] = hook[d]
    BY DEF HooksInv
  <1>2. HooksTimely'
    <2> SUFFICES ASSUME NEW d \in CallIds, Preparing(d)'
                 PROVE  hook'[d].tpre <= now' /\ now' <= hook'[d].tpre + MaxLag
      BY DEF HooksTimely
    <2>1. CASE d = c
      BY <1>1, <2>1 DEF Preparing
    <2>2. CASE d # c
      BY <1>1, <2>2 DEF HooksInv, HooksTimely, Preparing
    <2> QED BY <2>1, <2>2
  <1> QED BY <1>1, <1>2 DEF HooksInv

(* A step of a pre-hook that keeps the clock it read, or forgets it. *)
LEMMA HookAdvances ==
    ASSUME HooksInv, now \in Nat, UNCHANGED now, NEW c \in CallIds, NEW h \in Hook,
           hook' = [hook EXCEPT ![c] = h],
           \/ Preparing(c) /\ h.tpre = hook[c].tpre
           \/ h.pc \in {"running", "refused", "posted"}
    PROVE  HooksInv'
PROOF
  <1>1. h.pc \in {"dead", "missing", "drop", "admit", "take", "reread", "record"}
            => h.tpre <= now /\ now <= h.tpre + MaxLag
    BY DEF HooksInv, HooksTimely
  <1> QED BY <1>1, HookMoves

LEMMA HooksStep ==
    ASSUME TypeOK, HooksInv, [GateNext]_gateVars
    PROVE  HooksInv'
PROOF
  <1> USE TimesAssumption
  <1>1. now \in Nat /\ hook \in [CallIds -> Hook]
    BY DEF TypeOK, HooksInv
  <1>2. ASSUME NEW c \in CallIds, NEW pc \in {"missing", "drop", "admit", "reread"},
               Preparing(c), hook' = [hook EXCEPT ![c].pc = pc], UNCHANGED now
        PROVE  HooksInv'
    <2> DEFINE h == [hook[c] EXCEPT !.pc = pc]
    <2>1. hook' = [hook EXCEPT ![c] = h]
      BY <1>1, <1>2
    <2>2. hook[c] \in Hook
      BY <1>1
    <2>3. h \in Hook /\ h.tpre = hook[c].tpre
      BY <2>2 DEF Hook
    <2> HIDE DEF h
    <2> QED BY <1>1, <1>2, <2>1, <2>3, HookAdvances
  <1>3. ASSUME NEW c \in CallIds, NEW m \in {"held", "taken", "raced", "unchecked"},
               Preparing(c), Admit(c, m), UNCHANGED now
        PROVE  HooksInv'
    <2> DEFINE h == [hook[c] EXCEPT !.pc = "record", !.mode = m, !.at = 0]
    <2>1. hook' = [hook EXCEPT ![c] = h]
      BY <1>1, <1>3 DEF Admit
    <2>2. hook[c] \in Hook
      BY <1>1
    <2>3. h \in Hook /\ h.tpre = hook[c].tpre
      BY <2>2 DEF Hook
    <2> HIDE DEF h
    <2> QED BY <1>1, <1>3, <2>1, <2>3, HookAdvances
  <1>4. ASSUME NEW c \in CallIds, HookBegin(c)
        PROVE  HooksInv'
    <2> DEFINE h == [hook[c] EXCEPT !.pc = "dead", !.tpre = now]
    <2>1. hook' = [hook EXCEPT ![c] = h] /\ UNCHANGED now
      BY <1>1, <1>4 DEF HookBegin, vars
    <2>2. hook[c] \in Hook
      BY <1>1
    <2>3. h \in Hook /\ h.tpre = now
      BY <1>1, <2>2 DEF Hook
    <2>4. h.tpre <= now /\ now <= h.tpre + MaxLag
      BY <1>1, <2>3
    <2> HIDE DEF h
    <2> QED BY <1>1, <2>1, <2>3, <2>4, HookMoves
  <1>5. ASSUME NEW c \in CallIds, HookSweep(c) \/ HookSweepFails(c)
        PROVE  HooksInv'
    <2>1. UNCHANGED now
      BY <1>5 DEF HookSweep, HookSweepFails, MarkDeadOwnerCalls, MarkPostMissing,
                  DropFinishedCalls, vars
    <2>2. \/ Step(c, "dead", "missing") \/ Step(c, "missing", "drop") \/ Step(c, "drop", "admit")
      BY <1>5 DEF HookSweep, HookSweepFails
    <2> QED BY <1>2, <2>1, <2>2 DEF Step, Preparing
  <1>6. ASSUME NEW c \in CallIds, Stop(c, "refused"), UNCHANGED now
        PROVE  HooksInv'
    <2> DEFINE h == [hook[c] EXCEPT !.pc = "refused", !.tpre = 0, !.at = 0]
    <2>1. hook' = [hook EXCEPT ![c] = h]
      BY <1>1, <1>6 DEF Stop
    <2>2. hook[c] \in Hook
      BY <1>1
    <2>3. h \in Hook /\ h.pc = "refused"
      BY <2>2 DEF Hook
    <2> HIDE DEF h
    <2> QED BY <1>1, <1>6, <2>1, <2>3, HookAdvances
  <1>7. ASSUME NEW c \in CallIds, HookAdmit(c) \/ HookReread(c) \/ HookAdmitFails(c)
        PROVE  HooksInv'
    <2>1. Preparing(c) /\ UNCHANGED now
      BY <1>7 DEF HookAdmit, HookReread, HookAdmitFails, Preparing, vars
    <2>2. CASE hook' = [hook EXCEPT ![c].pc = "take", ![c].at = now]
      <3> DEFINE h == [hook[c] EXCEPT !.pc = "take", !.at = now]
      <3>1. hook' = [hook EXCEPT ![c] = h]
        BY <1>1, <2>2
      <3>2. hook[c] \in Hook
        BY <1>1
      <3>3. h \in Hook /\ h.tpre = hook[c].tpre
        BY <1>1, <3>2 DEF Hook
      <3> HIDE DEF h
      <3> QED BY <1>1, <2>1, <3>1, <3>3, HookAdvances
    <2>3. \/ Admit(c, "held") \/ Admit(c, "raced") \/ Admit(c, "unchecked") \/ Stop(c, "refused")
          \/ hook' = [hook EXCEPT ![c].pc = "take", ![c].at = now]
      BY <1>7 DEF HookAdmit, HookReread, HookAdmitFails
    <2> QED BY <1>3, <1>6, <2>1, <2>2, <2>3
  <1>8. ASSUME NEW c \in CallIds, HookTake(c)
        PROVE  HooksInv'
    <2>1. Preparing(c)
      BY <1>8 DEF HookTake, Preparing
    <2>2. UNCHANGED now /\ (Admit(c, "taken") \/ Step(c, "take", "reread"))
      BY <1>8 DEF HookTake, AcquireLocks, vars
    <2> QED BY <1>2, <1>3, <2>1, <2>2 DEF Step
  <1>9. ASSUME NEW c \in CallIds, HookRecord(c)
        PROVE  HooksInv'
    <2> DEFINE b == Covering(c)
               h == [hook[c] EXCEPT !.pc = "running", !.tpre = 0, !.covered = b]
    <2>1. hook' = [hook EXCEPT ![c] = h] /\ UNCHANGED now
      BY <1>1, <1>9 DEF HookRecord, RecordCallPre
    <2>2. hook[c] \in Hook /\ b \in BOOLEAN
      BY <1>1 DEF Covering
    <2> HIDE DEF b
    <2>3. h \in Hook /\ h.pc = "running"
      BY <2>2 DEF Hook
    <2> HIDE DEF h
    <2> QED BY <1>1, <2>1, <2>3, HookAdvances
  <1>10. ASSUME NEW c \in CallIds, HookFailOpen(c)
         PROVE  HooksInv'
    <2> DEFINE h == [hook[c] EXCEPT !.pc = "running", !.mode = "unchecked", !.tpre = 0, !.at = 0]
    <2>1. hook' = [hook EXCEPT ![c] = h] /\ UNCHANGED now
      BY <1>1, <1>10 DEF HookFailOpen, vars
    <2>2. hook[c] \in Hook
      BY <1>1
    <2>3. h \in Hook /\ h.pc = "running"
      BY <2>2 DEF Hook
    <2> HIDE DEF h
    <2> QED BY <1>1, <2>1, <2>3, HookAdvances
  <1>11. ASSUME NEW c \in CallIds, HookEnd(c)
         PROVE  HooksInv'
    <2> DEFINE h == [hook[c] EXCEPT !.pc = "posted", !.mode = "none",
                                    !.covered = FALSE, !.ceded = FALSE]
    <2>1. hook' = [hook EXCEPT ![c] = h] /\ UNCHANGED now
      BY <1>1, <1>11 DEF HookEnd, RecordCallPost, vars
    <2>2. hook[c] \in Hook
      BY <1>1
    <2>3. h \in Hook /\ h.pc = "posted"
      BY <2>2 DEF Hook
    <2> HIDE DEF h
    <2> QED BY <1>1, <2>1, <2>3, HookAdvances
  <1>12. CASE StoreStep
    <2>1. UNCHANGED now
      <3>1. CASE Acquire
        BY <3>1 DEF Acquire, AcquireLocks
      <3>2. CASE Release \/ ReleaseAll
        BY <3>2 DEF Release, ReleaseLocks, ReleaseAll, ReleaseBySession
      <3>3. CASE Break \/ Refresh \/ Doctor \/ \E s \in Sessions : SessionDies(s)
        BY <3>3 DEF Break, BreakLocks, Refresh, RefreshLocks, Doctor, DoctorRepair, SessionDies
      <3> QED BY <1>12, <3>1, <3>2, <3>3 DEF StoreStep
    <2>2. \A c \in CallIds : /\ hook'[c] \in Hook /\ hook'[c].tpre = hook[c].tpre
                             /\ hook'[c].pc = hook[c].pc
      <3> TAKE c \in CallIds
      <3>1. hook[c] \in Hook
        BY <1>1
      <3> DEFINE b == hook[c].ceded \/ Cede(c)
      <3>2. hook'[c] = [hook[c] EXCEPT !.ceded = b]
        BY <1>12 DEF StoreStep
      <3>3. b \in BOOLEAN
        BY <3>1 DEF Hook, Cede
      <3> HIDE DEF b
      <3> QED BY <3>1, <3>2, <3>3 DEF Hook
    <2>3. hook' \in [CallIds -> Hook]
      BY <1>12, <2>2 DEF StoreStep
    <2> QED BY <2>1, <2>2, <2>3 DEF HooksInv, HooksTimely, Preparing
  <1>13. CASE GateTick
    <2>1. UNCHANGED hook /\ now' = now + 1
          /\ \A c \in CallIds : Preparing(c) => now < hook[c].tpre + MaxLag
      BY <1>13 DEF GateTick, Tick
    <2>2. ASSUME NEW c \in CallIds, Preparing(c)'
          PROVE  hook'[c].tpre <= now' /\ now' <= hook'[c].tpre + MaxLag
      <3>1. Preparing(c) /\ hook'[c] = hook[c]
        BY <2>1, <2>2 DEF Preparing
      <3>2. hook[c].tpre \in Nat
        BY <1>1 DEF Hook
      <3>3. hook[c].tpre <= now /\ now < hook[c].tpre + MaxLag
        BY <2>1, <3>1 DEF HooksInv, HooksTimely
      <3> QED BY <1>1, <2>1, <3>1, <3>2, <3>3
    <2> QED BY <1>1, <2>1, <2>2 DEF HooksInv, HooksTimely
  <1>14. CASE UNCHANGED gateVars
    BY <1>14 DEF gateVars, HooksInv, HooksTimely, Preparing
  <1> QED BY <1>4, <1>5, <1>7, <1>8, <1>9, <1>10, <1>11, <1>12, <1>13, <1>14 DEF GateNext

------------------------------------------------------------------------------
(* Every step of a hook is a verb of the store, or leaves the store alone. *)
LEMMA StepRefines ==
    ASSUME TypeOK, HooksInv, [GateNext]_gateVars
    PROVE  [Next]_vars
PROOF
  <1> USE TimesAssumption, RequestAssumption
  <1>1. now \in Nat /\ hook \in [CallIds -> Hook]
    BY DEF TypeOK, HooksInv
  <1>2. \A c \in CallIds : Preparing(c) =>
            /\ now - hook[c].tpre \in 0..MaxLag
            /\ now - (now - hook[c].tpre) = hook[c].tpre
            /\ now - hook[c].tpre <= now
    <2> TAKE c \in CallIds
    <2>1. hook[c].tpre \in Nat
      BY <1>1 DEF Hook
    <2> QED BY <1>1, <2>1 DEF HooksInv, HooksTimely
  <1>3. ASSUME NEW c \in CallIds, HookSweep(c)
        PROVE  Next
    <2>1. Preparing(c)
      BY <1>3 DEF HookSweep, Step, Preparing
    <2> DEFINE lag == now - hook[c].tpre
    <2>2. lag \in 0..MaxLag /\ lag <= now /\ now - lag = hook[c].tpre
      BY <1>2, <2>1
    <2>3. \/ MarkDeadOwnerCalls(hook[c].tpre) \/ MarkPostMissing(hook[c].tpre)
          \/ DropFinishedCalls(hook[c].tpre)
      BY <1>3 DEF HookSweep
    <2> HIDE DEF lag
    <2>4. Sweep
      BY <2>2, <2>3 DEF Sweep
    <2> QED BY <2>4 DEF Next
  <1>4. ASSUME NEW c \in CallIds, HookTake(c)
        PROVE  Next \/ UNCHANGED vars
    <2>1. CASE UNCHANGED vars
      BY <2>1
    <2>2. ASSUME NEW lag \in 0..MaxLag,
                 AcquireLocks(Request[c].session, Request[c].worktree,
                              {Request[c].path}, HookIntent, DegradedModeTTL, lag)
          PROVE  Next
      <3>1. Request[c].session \in Sessions /\ Request[c].worktree \in Worktrees
            /\ {Request[c].path} \in (SUBSET Targets) \ {{}}
        OBVIOUS
      <3>2. Acquire
        BY <2>2, <3>1 DEF Acquire
      <3> QED BY <3>2 DEF Next
    <2> QED BY <1>4, <2>1, <2>2 DEF HookTake
  <1>5. ASSUME NEW c \in CallIds, HookRecord(c)
        PROVE  Next
    <2>1. Preparing(c)
      BY <1>5 DEF HookRecord, Preparing
    <2> DEFINE lag == now - hook[c].tpre
    <2>2. lag \in 0..MaxLag
      BY <1>2, <2>1
    <2>3. Request[c].session \in Sessions /\ Request[c].worktree \in Worktrees
          /\ Declared(c) \in Targets \union {NoPath}
      BY DEF Declared
    <2>4. RecordCallPre(c, Request[c].session, Request[c].worktree, Declared(c), lag)
      BY <1>5 DEF HookRecord
    <2> HIDE DEF lag
    <2>5. HookPre
      BY <2>2, <2>3, <2>4 DEF HookPre
    <2> QED BY <2>5 DEF Next
  <1>6. ASSUME NEW c \in CallIds, HookEnd(c)
        PROVE  Next \/ UNCHANGED vars
    <2>1. ASSUME NEW k \in calls, NEW changed \in SUBSET {Request[c].path},
                 RecordCallPost(k, changed, 0)
          PROVE  Next
      <3>1. changed \in SUBSET Targets /\ 0 \in 0..MaxLag
        OBVIOUS
      <3>2. HookPost
        BY <2>1, <3>1 DEF HookPost
      <3> QED BY <3>2 DEF Next
    <2> QED BY <1>6, <2>1 DEF HookEnd
  <1>7. ASSUME NEW c \in CallIds,
               \/ HookBegin(c) \/ HookSweepFails(c) \/ HookAdmit(c) \/ HookReread(c)
               \/ HookAdmitFails(c) \/ HookFailOpen(c)
        PROVE  UNCHANGED vars
    BY <1>7 DEF HookBegin, HookSweepFails, HookAdmit, HookReread, HookAdmitFails, HookFailOpen
  <1>8. CASE StoreStep
    BY <1>8 DEF StoreStep, Next
  <1>9. CASE GateTick
    BY <1>9 DEF GateTick, Next
  <1>10. CASE UNCHANGED gateVars
    BY <1>10 DEF gateVars, vars
  <1> QED BY <1>3, <1>4, <1>5, <1>6, <1>7, <1>8, <1>9, <1>10 DEF GateNext

LEMMA HooksCorrect == GateSpec => [](TypeOK /\ HooksInv)
PROOF
  <1>1. GateInit => TypeOK /\ HooksInv
    <2>1. Init => TypeOK
      BY DEF Init, TypeOK, Liveness
    <2> QED BY <2>1 DEF GateInit, HooksInv, HooksTimely, Hook, Preparing
  <1>2. TypeOK /\ [Next]_vars => TypeOK'
    <2>1. TypeOK /\ UNCHANGED vars => TypeOK'
      BY DEF vars, TypeOK
    <2> QED BY <2>1, TypeStep
  <1>3. TypeOK /\ HooksInv /\ [GateNext]_gateVars => (TypeOK /\ HooksInv)'
    BY <1>2, HooksStep, StepRefines
  <1> QED BY <1>1, <1>3, PTL DEF GateSpec

(* The hooks use the store as its own verbs do, though a hook spreads over *)
(* several transactions and its clock is read before the first: the write  *)
(* gate implements the store, so that what is proved of the store holds    *)
(* while hooks run.                                                        *)
THEOREM GateUsesStore == GateSpec => Spec
PROOF
  <1>1. GateInit => Init
    BY DEF GateInit
  <1>2. TypeOK /\ HooksInv /\ [GateNext]_gateVars => [Next]_vars
    BY StepRefines
  <1> QED BY <1>1, <1>2, HooksCorrect, PTL DEF GateSpec, Spec

------------------------------------------------------------------------------
(* The covered writer. *)

(* Its call is in the table as recorded, and its owner still has the row   *)
(* it was covered by, of its own checkout, with a lease past the start of  *)
(* the call.                                                               *)
Shielded(c) ==
    /\ Request[c].worktree # NoWorktree
    /\ \E r \in locks, k \in calls :
           /\ k.id = c /\ k.state = "open" /\ ~k.missing /\ k.owner = Owner(c)
           /\ r.owner = Owner(c) /\ r.target = Request[c].path
           /\ r.worktree = Request[c].worktree
           /\ k.tpre < r.expires

WriterInv == \A c \in CallIds : Writing(c) /\ hook[c].covered => Shielded(c)

(* A call after a step was there before, is over or flagged, or has just   *)
(* been recorded.                                                          *)
LEMMA CallLineage ==
    ASSUME TypeOK, HooksInv, [GateNext]_gateVars, NEW x \in calls'
    PROVE  \/ x \in calls
           \/ ~(x.state = "open" /\ ~x.missing)
           \/ \E c \in CallIds : HookRecord(c) /\ x.id = c
PROOF
  <1>1. calls \subseteq HookCall /\ now \in Nat /\ hook \in [CallIds -> Hook]
    BY DEF TypeOK, HooksInv
  <1>2. ASSUME NEW c \in CallIds, HookSweep(c)
        PROVE  x \in calls \/ ~(x.state = "open" /\ ~x.missing)
    <2> DEFINE at == hook[c].tpre
    <2>1. at \in Nat
      BY <1>1 DEF Hook
    <2>2. CASE MarkDeadOwnerCalls(at)
      <3>1. \A k \in HookCall : [k EXCEPT !.state = "dead", !.ended = at].state = "dead"
        BY DEF HookCall
      <3>2. x \in calls \/ \E k \in calls : x = [k EXCEPT !.state = "dead", !.ended = at]
        BY <2>2 DEF MarkDeadOwnerCalls
      <3> QED BY <1>1, <3>1, <3>2
    <2>3. CASE MarkPostMissing(at)
      <3>1. \A k \in HookCall : [k EXCEPT !.missing = TRUE].missing = TRUE
        BY DEF HookCall
      <3>2. x \in calls \/ \E k \in calls : x = [k EXCEPT !.missing = TRUE]
        BY <2>3 DEF MarkPostMissing
      <3> QED BY <1>1, <3>1, <3>2
    <2>4. CASE DropFinishedCalls(at)
      BY <2>4 DEF DropFinishedCalls
    <2> QED BY <1>2, <2>2, <2>3, <2>4 DEF HookSweep
  <1>3. ASSUME NEW c \in CallIds, HookEnd(c)
        PROVE  x \in calls \/ ~(x.state = "open" /\ ~x.missing)
    <2>1. CASE UNCHANGED vars
      BY <2>1 DEF vars
    <2>2. ASSUME NEW k \in calls, NEW changed, RecordCallPost(k, changed, 0)
          PROVE  x \in calls \/ ~(x.state = "open" /\ ~x.missing)
      <3>1. x \in calls
            \/ x = [k EXCEPT !.state = "posted", !.missing = FALSE, !.ended = now - 0]
        BY <2>2 DEF RecordCallPost
      <3>2. [k EXCEPT !.state = "posted", !.missing = FALSE, !.ended = now - 0].state = "posted"
        BY <1>1 DEF HookCall
      <3> QED BY <3>1, <3>2
    <2> QED BY <1>3, <2>1, <2>2 DEF HookEnd
  <1>4. ASSUME NEW c \in CallIds, HookRecord(c)
        PROVE  x \in calls \/ x.id = c
    BY <1>4 DEF HookRecord, RecordCallPre
  <1>5. ASSUME NEW c \in CallIds,
               \/ HookBegin(c) \/ HookSweepFails(c) \/ HookAdmit(c) \/ HookReread(c)
               \/ HookAdmitFails(c) \/ HookFailOpen(c)
        PROVE  x \in calls
    BY <1>5 DEF HookBegin, HookSweepFails, HookAdmit, HookReread, HookAdmitFails, HookFailOpen,
                vars
  <1>6. ASSUME NEW c \in CallIds, HookTake(c)
        PROVE  x \in calls
    BY <1>6 DEF HookTake, AcquireLocks, vars
  <1>7. CASE StoreStep
    <2>1. CASE Acquire
      BY <2>1 DEF Acquire, AcquireLocks
    <2>2. CASE Release \/ ReleaseAll
      BY <2>2 DEF Release, ReleaseLocks, ReleaseAll, ReleaseBySession
    <2>3. CASE Break \/ Refresh \/ Doctor \/ \E s \in Sessions : SessionDies(s)
      BY <2>3 DEF Break, BreakLocks, Refresh, RefreshLocks, Doctor, DoctorRepair, SessionDies
    <2> QED BY <1>7, <2>1, <2>2, <2>3 DEF StoreStep
  <1>8. CASE GateTick \/ UNCHANGED gateVars
    BY <1>8 DEF GateTick, Tick, gateVars
  <1> QED BY <1>2, <1>3, <1>4, <1>5, <1>6, <1>7, <1>8 DEF GateNext

(* A checked write begins with the record of its call, and what is known   *)
(* of it stays until it ends, ceding apart.                                *)
LEMMA RunningSince ==
    ASSUME HooksInv, [GateNext]_gateVars, NEW c \in CallIds, ~HookRecord(c),
           hook'[c].pc = "running", hook'[c].mode # "unchecked"
    PROVE  /\ hook[c].pc = "running" /\ hook'[c].mode = hook[c].mode
           /\ hook'[c].covered = hook[c].covered
           /\ ~hook'[c].ceded => ~hook[c].ceded
           /\ StoreStep /\ Cede(c) => hook'[c].ceded
PROOF
  <1>1. hook \in [CallIds -> Hook] /\ hook[c] \in Hook
    BY DEF HooksInv
  <1>2. ASSUME NEW d \in CallIds, d # c,
               \/ HookBegin(d) \/ HookSweep(d) \/ HookSweepFails(d)
               \/ HookAdmit(d) \/ HookTake(d) \/ HookReread(d) \/ HookAdmitFails(d)
               \/ HookRecord(d) \/ HookFailOpen(d) \/ HookEnd(d)
        PROVE  hook'[c] = hook[c]
    <2>1. CASE HookBegin(d) \/ HookSweep(d) \/ HookSweepFails(d)
      BY <1>1, <1>2, <2>1 DEF HookBegin, HookSweep, HookSweepFails, Step
    <2>2. CASE HookAdmit(d) \/ HookTake(d) \/ HookReread(d) \/ HookAdmitFails(d)
      BY <1>1, <1>2, <2>2 DEF HookAdmit, HookTake, HookReread, HookAdmitFails, Step, Stop, Admit
    <2>3. CASE HookRecord(d) \/ HookFailOpen(d) \/ HookEnd(d)
      BY <1>1, <1>2, <2>3 DEF HookRecord, HookFailOpen, HookEnd
    <2> QED BY <1>2, <2>1, <2>2, <2>3
  <1>3. ASSUME \/ HookBegin(c) \/ HookSweep(c) \/ HookSweepFails(c)
               \/ HookAdmit(c) \/ HookTake(c) \/ HookReread(c) \/ HookAdmitFails(c)
               \/ HookFailOpen(c) \/ HookEnd(c)
        PROVE  FALSE
    <2>1. CASE HookBegin(c) \/ HookSweep(c) \/ HookSweepFails(c)
      BY <1>1, <2>1 DEF HookBegin, HookSweep, HookSweepFails, Step, Hook
    <2>2. CASE HookAdmit(c) \/ HookTake(c) \/ HookReread(c) \/ HookAdmitFails(c)
      BY <1>1, <2>2 DEF HookAdmit, HookTake, HookReread, HookAdmitFails, Step, Stop, Admit, Hook
    <2>3. CASE HookFailOpen(c)
      <3> DEFINE h == [hook[c] EXCEPT !.pc = "running", !.mode = "unchecked", !.tpre = 0, !.at = 0]
      <3>1. hook'[c] = h
        BY <1>1, <2>3 DEF HookFailOpen
      <3>2. h.mode = "unchecked"
        BY <1>1 DEF Hook
      <3> QED BY <3>1, <3>2
    <2>4. CASE HookEnd(c)
      <3> DEFINE h == [hook[c] EXCEPT !.pc = "posted", !.mode = "none",
                                      !.covered = FALSE, !.ceded = FALSE]
      <3>1. hook'[c] = h
        BY <1>1, <2>4 DEF HookEnd
      <3>2. h.pc = "posted"
        BY <1>1 DEF Hook
      <3> QED BY <3>1, <3>2
    <2> QED BY <1>3, <2>1, <2>2, <2>3, <2>4
  <1>4. CASE StoreStep
    <2> DEFINE b == hook[c].ceded \/ Cede(c)
    <2>1. hook'[c] = [hook[c] EXCEPT !.ceded = b]
      BY <1>4 DEF StoreStep
    <2>2. b \in BOOLEAN /\ (hook[c].ceded => b) /\ (Cede(c) => b)
      BY <1>1 DEF Hook, Cede
    <2> HIDE DEF b
    <2>3. /\ [hook[c] EXCEPT !.ceded = b].pc = hook[c].pc
          /\ [hook[c] EXCEPT !.ceded = b].mode = hook[c].mode
          /\ [hook[c] EXCEPT !.ceded = b].covered = hook[c].covered
          /\ [hook[c] EXCEPT !.ceded = b].ceded = b
      BY <1>1, <2>2 DEF Hook
    <2> QED BY <2>1, <2>2, <2>3
  <1>5. CASE ~StoreStep /\ hook'[c] = hook[c]
    BY <1>5
  <1>6. CASE GateTick \/ UNCHANGED gateVars
    BY <1>4, <1>5, <1>6 DEF GateTick, gateVars
  <1> QED BY <1>2, <1>3, <1>4, <1>5, <1>6 DEF GateNext

(* The hooks' heartbeats extend leases. *)
LEMMA RecordExtends ==
    ASSUME TypeOK, HooksInv, NEW c \in CallIds, HookRecord(c)
    PROVE  Extends
PROOF
  <1> DEFINE lag == now - hook[c].tpre
  <1>1. lag \in 0..MaxLag
    <2>1. hook[c] \in Hook /\ now \in Nat /\ Preparing(c)
      BY DEF HooksInv, TypeOK, HookRecord, Preparing
    <2>2. hook[c].tpre \in Nat
      BY <2>1 DEF Hook
    <2> QED BY <2>1, <2>2, TimesAssumption DEF HooksInv, HooksTimely
  <1>2. Request[c].session \in Sessions /\ Request[c].worktree \in Worktrees
        /\ Declared(c) \in Targets \union {NoPath}
    BY RequestAssumption DEF Declared
  <1>3. RecordCallPre(c, Request[c].session, Request[c].worktree, Declared(c), lag)
    BY DEF HookRecord
  <1> HIDE DEF lag
  <1>4. HookPre
    BY <1>1, <1>2, <1>3 DEF HookPre
  <1> QED BY <1>4, ExtendingVerbs

LEMMA EndExtends ==
    ASSUME TypeOK, NEW c \in CallIds, HookEnd(c)
    PROVE  Extends \/ UNCHANGED vars
PROOF
  <1>1. ASSUME NEW k \in calls, NEW changed \in SUBSET {Request[c].path},
               RecordCallPost(k, changed, 0)
        PROVE  Extends
    <2>1. changed \in SUBSET Targets /\ 0 \in 0..MaxLag
      BY TimesAssumption, RequestAssumption
    <2>2. HookPost
      BY <1>1, <2>1 DEF HookPost
    <2> QED BY <2>2, ExtendingVerbs
  <1> QED BY <1>1 DEF HookEnd

(* Outside the verbs nothing is released or broken. *)
LEMMA OnlyVerbsCede ==
    ASSUME [GateNext]_gateVars, ~StoreStep, NEW e \in audit',
           e.kind \in {"lock_released", "lock_broken"}
    PROVE  UNCHANGED vars
PROOF
  <1>1. ASSUME NEW c \in CallIds, HookTake(c)
        PROVE  UNCHANGED vars
    <2>1. ASSUME NEW lag \in 0..MaxLag,
                 AcquireLocks(Request[c].session, Request[c].worktree,
                              {Request[c].path}, HookIntent, DegradedModeTTL, lag)
          PROVE  FALSE
      <3>1. \E rows, o : audit' = Reclaimed(rows, o)
        BY <2>1 DEF AcquireLocks
      <3> QED BY <3>1 DEF Reclaimed
    <2> QED BY <1>1, <2>1 DEF HookTake
  <1>2. ASSUME NEW c \in CallIds, HookSweep(c)
        PROVE  FALSE
    BY <1>2 DEF HookSweep, MarkDeadOwnerCalls, MarkPostMissing, DropFinishedCalls
  <1>3. ASSUME NEW c \in CallIds, HookRecord(c)
        PROVE  FALSE
    BY <1>3 DEF HookRecord, RecordCallPre
  <1>4. ASSUME NEW c \in CallIds, HookEnd(c)
        PROVE  UNCHANGED vars
    BY <1>4 DEF HookEnd, RecordCallPost
  <1>5. ASSUME NEW c \in CallIds,
               \/ HookBegin(c) \/ HookSweepFails(c) \/ HookAdmit(c) \/ HookReread(c)
               \/ HookAdmitFails(c) \/ HookFailOpen(c)
        PROVE  UNCHANGED vars
    BY <1>5 DEF HookBegin, HookSweepFails, HookAdmit, HookReread, HookAdmitFails, HookFailOpen
  <1>6. CASE GateTick \/ UNCHANGED gateVars
    BY <1>6 DEF GateTick, Tick, gateVars, vars
  <1> QED BY <1>1, <1>2, <1>3, <1>4, <1>5, <1>6 DEF GateNext

(* What the hooks themselves grant or renew ends in the future. *)
LEMMA OnlyVerbsUndercut ==
    ASSUME TypeOK, HooksInv, [GateNext]_gateVars, ~StoreStep, NEW q \in locks', q \notin locks
    PROVE  now < q.expires
PROOF
  <1> USE TimesAssumption, LeaseAssumption
  <1>1. now \in Nat
    BY DEF TypeOK
  <1>2. ASSUME NEW c \in CallIds, HookTake(c)
        PROVE  now < q.expires
    <2>1. PICK lag \in 0..MaxLag :
              AcquireLocks(Request[c].session, Request[c].worktree,
                           {Request[c].path}, HookIntent, DegradedModeTTL, lag)
      BY <1>2 DEF HookTake, vars
    <2>2. q.expires = now - lag + DegradedModeTTL
      BY <2>1 DEF AcquireLocks
    <2> QED BY <1>1, <2>2
  <1>3. ASSUME Extends
        PROVE  now < q.expires
    BY <1>3 DEF Extends, TypeOK, Row
  <1>4. CASE \E c \in CallIds : HookSweep(c)
    BY <1>4 DEF HookSweep, MarkDeadOwnerCalls, MarkPostMissing, DropFinishedCalls
  <1>5. CASE \E c \in CallIds : HookRecord(c)
    BY <1>3, <1>5, RecordExtends
  <1>6. CASE \E c \in CallIds : HookEnd(c)
    BY <1>3, <1>6, EndExtends DEF vars
  <1>7. CASE \E c \in CallIds :
                 \/ HookBegin(c) \/ HookSweepFails(c) \/ HookAdmit(c) \/ HookReread(c)
                 \/ HookAdmitFails(c) \/ HookFailOpen(c)
    BY <1>7 DEF HookBegin, HookSweepFails, HookAdmit, HookReread, HookAdmitFails,
                HookFailOpen, vars
  <1>8. CASE GateTick \/ UNCHANGED gateVars
    BY <1>8 DEF GateTick, Tick, gateVars
  <1> QED BY <1>2, <1>4, <1>5, <1>6, <1>7, <1>8 DEF GateNext

(* The commit of the pre-record puts the shield up, whatever lease the     *)
(* heartbeat inside it renews.                                             *)
LEMMA RecordShields ==
    ASSUME TypeOK, HooksInv, NEW c \in CallIds, HookRecord(c), hook'[c].covered
    PROVE  Shielded(c)'
PROOF
  <1> DEFINE t == hook[c].tpre
             d == Declared(c)
             w == Request[c].worktree
             s == Request[c].session
  <1> USE TimesAssumption, RequestAssumption
  <1>1. now \in Nat /\ hook[c] \in Hook /\ locks \subseteq Row /\ Preparing(c)
    BY DEF TypeOK, HooksInv, HookRecord, Preparing
  <1>2. t \in Nat /\ t <= now /\ now - (now - t) = t /\ now - t \in 0..MaxLag
    <2>1. t \in Nat
      BY <1>1 DEF Hook
    <2> QED BY <1>1, <2>1 DEF HooksInv, HooksTimely
  <1>3. Covering(c)
    <2> DEFINE b == Covering(c)
    <2>1. hook'[c] = [hook[c] EXCEPT !.pc = "running", !.tpre = 0, !.covered = b]
      BY DEF HookRecord, HooksInv
    <2>2. b \in BOOLEAN
      BY DEF Covering
    <2> HIDE DEF b
    <2>3. [hook[c] EXCEPT !.pc = "running", !.tpre = 0, !.covered = b].covered = b
      BY <1>1, <2>2 DEF Hook
    <2>4. b
      BY <2>1, <2>3
    <2> QED BY <2>4 DEF b
  <1>4. PICK r \in locks : /\ r.owner = Owner(c) /\ r.target = Request[c].path
                           /\ r.worktree = Request[c].worktree /\ t < r.expires
                           /\ Request[c].worktree # NoWorktree
    BY <1>3 DEF Covering, OwnRows, SameWorktree
  <1>5. RecordCallPre(c, s, w, d, now - t)
    BY DEF HookRecord
  <1>6. Extends
    BY RecordExtends
  <1>7. KeptPast(r, t)
    BY <1>2, <1>4, <1>6, ExtendingKeeps
  <1>8. PICK q \in locks' : /\ q.owner = Owner(c) /\ q.target = Request[c].path
                            /\ q.worktree = Request[c].worktree /\ t < q.expires
    BY <1>4, <1>7 DEF KeptPast
  <1> DEFINE k == [id |-> c, owner |-> SessionOwner[s], session |-> s, worktree |-> w,
                   declared |-> d, tpre |-> now - (now - t), state |-> "open",
                   missing |-> FALSE, ended |-> 0]
  <1>9. k \in calls'
    BY <1>5 DEF RecordCallPre
  <1>10. k.id = c /\ k.state = "open" /\ ~k.missing /\ k.owner = Owner(c) /\ k.tpre = t
    BY <1>2 DEF Owner
  <1> HIDE DEF k, t, d, w, s
  <1> QED BY <1>4, <1>8, <1>9, <1>10 DEF Shielded, Owner

(* A shielded call that was writing before the step keeps its shield, or   *)
(* has been ceded.                                                         *)
LEMMA ShieldKept ==
    ASSUME TypeOK, TableInv, HooksInv, CallsInv, RowsOwned, [GateNext]_gateVars,
           NEW c \in CallIds, ~HookRecord(c), Writing(c), Shielded(c), Writing(c)'
    PROVE  Shielded(c)'
PROOF
  <1>1. [Next]_vars
    BY StepRefines
  <1>2. PICK r \in locks, k \in calls :
            /\ k.id = c /\ k.state = "open" /\ ~k.missing /\ k.owner = Owner(c)
            /\ r.owner = Owner(c) /\ r.target = Request[c].path
            /\ r.worktree = Request[c].worktree /\ k.tpre < r.expires
            /\ Request[c].worktree # NoWorktree
    BY DEF Shielded
  <1>3. k \in calls'
    <2>1. PICK x \in calls' : x.id = c /\ x.state = "open" /\ ~x.missing
      BY DEF Writing
    <2>2. x \in calls
      BY <2>1, CallLineage
    <2> QED BY <1>2, <2>1, <2>2 DEF CallsInv
  <1>4. ~Stale(r)
    <2>1. probe[r.session] # "dead"
      BY <1>2 DEF RowsOwned, Writing
    <2> QED BY <1>2, <2>1 DEF Stale, IsStale, InFlight
  <1>5. k.tpre \in Nat /\ k.tpre <= now
    BY DEF TypeOK, HookCall, CallsInv
  <1>6. KeptPast(r, k.tpre)
    <2> DEFINE Taken == \E e \in audit' : /\ e.target = r.target /\ e.subject = r.owner
                                           /\ e.kind \in {"lock_released", "lock_broken"}
    <2> SUFFICES ASSUME Taken \/ Undercut(r, k.tpre)
                 PROVE  KeptPast(r, k.tpre)
      BY <1>1, <1>2, <1>4, <1>5, LiveHoldKept
    <2>1. CASE StoreStep
      <3>1. Cede(c)
        <4>1. r \in OwnRows(c)
          BY <1>2 DEF OwnRows, SameWorktree
        <4> QED BY <1>2, <4>1 DEF Cede, Writing
      <3>2. ~hook'[c].ceded /\ hook'[c].pc = "running" /\ hook'[c].mode # "unchecked"
        BY DEF Writing
      <3> QED BY <2>1, <3>1, <3>2, RunningSince
    <2>2. CASE ~StoreStep
      <3>1. CASE Undercut(r, k.tpre)
        <4>1. PICK q \in locks' \ locks : q.expires <= k.tpre
          BY <3>1 DEF Undercut
        <4>2. now < q.expires /\ q.expires \in Nat /\ now \in Nat
          BY <1>1, <2>2, <4>1, OnlyVerbsUndercut, TypeStep DEF TypeOK, Row, vars
        <4> QED BY <1>5, <4>1, <4>2
      <3>2. CASE Taken
        <4>1. locks' = locks
          BY <2>2, <3>2, OnlyVerbsCede DEF vars
        <4> QED BY <1>2, <4>1 DEF KeptPast
      <3> QED BY <3>1, <3>2
    <2> QED BY <2>1, <2>2
  <1>7. PICK q \in locks' : /\ q.owner = Owner(c) /\ q.target = Request[c].path
                            /\ q.worktree = Request[c].worktree /\ k.tpre < q.expires
    BY <1>2, <1>6 DEF KeptPast
  <1> QED BY <1>2, <1>3, <1>7 DEF Shielded, Owner

LEMMA WriterStep ==
    ASSUME TypeOK, TableInv, HooksInv, CallsInv, RowsOwned, WriterInv, [GateNext]_gateVars
    PROVE  WriterInv'
PROOF
  <1> SUFFICES ASSUME NEW c \in CallIds, Writing(c)', hook'[c].covered
               PROVE  Shielded(c)'
    BY DEF WriterInv
  <1>1. CASE HookRecord(c)
    BY <1>1, RecordShields
  <1>2. CASE ~HookRecord(c)
    <2>1. /\ hook[c].pc = "running" /\ hook'[c].mode = hook[c].mode
          /\ hook[c].covered /\ ~hook[c].ceded
      <3>1. hook'[c].pc = "running" /\ hook'[c].mode # "unchecked" /\ ~hook'[c].ceded
        BY DEF Writing
      <3> QED BY <1>2, <3>1, RunningSince
    <2>2. \E x \in calls : x.id = c /\ x.state = "open" /\ ~x.missing
      <3>1. PICK x \in calls' : x.id = c /\ x.state = "open" /\ ~x.missing
        BY DEF Writing
      <3> QED BY <1>2, <3>1, CallLineage
    <2>3. ASSUME NEW s \in Sessions, SessionOwner[s] = Owner(c)
          PROVE  probe[s] # "dead"
      <3>1. probe'[s] # "dead"
        BY <2>3 DEF Writing, Owner
      <3> QED BY <3>1, StepRefines, DeadStay
    <2>4. Writing(c)
      <3>1. hook[c].mode \in {"held", "taken", "raced"}
        BY <2>1 DEF Writing
      <3> QED BY <2>1, <2>2, <2>3, <3>1 DEF Writing
    <2> QED BY <1>2, <2>1, <2>4, ShieldKept DEF WriterInv
  <1> QED BY <1>1, <1>2

LEMMA WriterCorrect == GateSpec => []WriterInv
PROOF
  <1>1. GateInit => WriterInv
    BY DEF GateInit, WriterInv, Writing
  <1>2. Spec => []TableInv /\ []CallsInv /\ []RowsOwned
    BY TableCorrect, CallsCorrect, RowsOwnedCorrect, PTL
  <1>3. GateSpec => [](TypeOK /\ HooksInv) /\ []TableInv /\ []CallsInv /\ []RowsOwned
    BY <1>2, HooksCorrect, GateUsesStore, PTL
  <1>4. TypeOK /\ TableInv /\ HooksInv /\ CallsInv /\ RowsOwned /\ WriterInv /\ [GateNext]_gateVars
            => WriterInv'
    BY WriterStep
  <1> QED BY <1>1, <1>3, <1>4, PTL DEF GateSpec

(* The conflict rule of the write gate: a call that had a hold when its    *)
(* pre-record committed is the only covered writer of its file in its      *)
(* checkout, and nobody else's live hold comes over that file while it may *)
(* write, in any interleaving of hooks, sweeps and verbs, with its lease   *)
(* long past, for any number of agents.  It ends where the owner gives the *)
(* hold up: releases it, or locks it again with a --ttl that ends before   *)
(* the call began.                                                         *)
THEOREM CoveredWriterIsAlone == GateSpec => []CoveredWriterExcludes
PROOF
  <1>1. TypeOK /\ Exclusive /\ WriterInv => CoveredWriterExcludes
    <2> SUFFICES ASSUME TypeOK, Exclusive, WriterInv
                 PROVE  CoveredWriterExcludes
      OBVIOUS
    <2>1. ASSUME NEW c \in CallIds, Writing(c), hook[c].covered
          PROVE  /\ Request[c].worktree # NoWorktree
                 /\ \E r \in locks : /\ r.owner = Owner(c) /\ r.target = Request[c].path
                                     /\ r.worktree = Request[c].worktree
      BY <2>1 DEF WriterInv, Shielded
    <2>2. ASSUME NEW c \in CallIds, Writing(c), hook[c].covered,
                 NEW d \in CallIds, Writing(d), hook[d].covered
          PROVE  ~Collide(c, d)
      BY <2>1, <2>2 DEF Collide, Exclusive, SameWorktree, PrefixOverlaps
    <2>3. ASSUME NEW c \in CallIds, Writing(c), hook[c].covered, NEW r \in locks
          PROVE  ~Refuses(Owner(c), Request[c].worktree, Request[c].path, LockHold(r))
      <3> SUFFICES ASSUME r.owner # Owner(c), SameWorktree(Request[c].worktree, r.worktree),
                          PrefixOverlaps(r.target, Request[c].path)
                   PROVE  FALSE
        BY DEF Refuses, Covers, LockHold
      <3>1. PICK q \in locks : /\ q.owner = Owner(c) /\ q.target = Request[c].path
                               /\ q.worktree = Request[c].worktree
        BY <2>1, <2>3
      <3>2. SameWorktree(r.worktree, q.worktree)
        BY <3>1 DEF SameWorktree
      <3> QED BY <3>1, <3>2 DEF Exclusive
    <2> QED BY <2>2, <2>3 DEF CoveredWriterExcludes
  <1>2. GateSpec => [](TypeOK /\ HooksInv) /\ []Exclusive
    BY HooksCorrect, GateUsesStore, MutualExclusion, PTL
  <1> QED BY <1>1, <1>2, WriterCorrect, PTL
=============================================================================
