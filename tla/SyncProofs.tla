----------------------------- MODULE SyncProofs -----------------------------
(***************************************************************************)
(* Proofs about Sync, for any number of runs, files, owners, candidates    *)
(* and any batch size: sync destroys nothing a live lease or a claim       *)
(* covers, nothing its scan did not judge, and reports what it did.        *)
(***************************************************************************)
EXTENDS Sync, WellFoundedInduction, TLAPS

------------------------------------------------------------------------------
(* Types. *)

Contents == Blobs \union {NoBlob}

Partial(S, T) == UNION {[D -> T] : D \in SUBSET S}

Difference == [state : {"missing", "modified", "modeonly", "same"}, observed : Contents]

Outcomes == [synced : SUBSET Paths, deleted : SUBSET Paths, conflicts : SUBSET Paths,
             residueSkips : SUBSET Paths, modified : SUBSET Paths, targetSkips : SUBSET Paths]

Process == [pc : {"idle", "hash", "untracked", "dry", "forward", "apply", "sweep", "delete",
                  "done", "killed"},
            dry : BOOLEAN, expected : Nat, diffs : Partial(Paths, Difference),
            residue : Partial(Paths, Contents), skipped : SUBSET Paths, todo : SUBSET Paths,
            batch : SUBSET Paths, target : SUBSET Paths, failed : BOOLEAN, out : Outcomes]

UnderWay(r) == run[r].pc \notin {"idle", "done", "killed"}

TypeInv ==
    /\ tree \in [Paths -> Objects]
    /\ promoted \in Seq([Paths -> Objects])
    /\ rejected \in Seq(Candidates)
    /\ claimed \subseteq Candidates
    /\ holds \subseteq [target : Paths \union {Dir}, owner : Owners, lapsed : BOOLEAN]
    /\ session \in [Owners -> {"alive", "dead", "unknown"}]
    /\ run \in [Runs -> Process]
    /\ \A r \in Runs : UnderWay(r) => run[r].expected \in 1..Len(promoted)

(* A file the scan missed had no content, and only files the scan lists    *)
(* are fast-forwarded.                                                     *)
Scanned(r) ==
    /\ run[r].pc \notin {"apply", "delete"} => run[r].batch = {} /\ run[r].target = {}
    /\ run[r].pc \in {"forward", "apply"} =>
           run[r].todo \union run[r].batch \subseteq DOMAIN run[r].diffs
    /\ \A p \in DOMAIN run[r].diffs :
           run[r].diffs[p].state = "missing" => run[r].diffs[p].observed = NoBlob

(* A run that is in a batch has the op-flock, and what it decided stands.  *)
Decided(r) ==
    run[r].pc \in {"apply", "delete"} =>
        /\ flock = r
        /\ \A p \in run[r].batch \union run[r].target : ~ConflictFor(p)

(* What it probed is what is there, or somebody wrote since. *)
Probed(r) ==
    \A p \in run[r].target :
        /\ run[r].pc = "apply" => <<r, p>> \in fresh \/ tree[p].blob = run[r].diffs[p].observed
        /\ run[r].pc = "delete" => <<r, p>> \in fresh \/ tree[p].blob = run[r].residue[p]

Did(r, how) == {e[2] : e \in {d \in did : d[1] = r /\ d[3] = how}}

(* The report is kept as the files are. *)
Reported(r) ==
    /\ run[r].pc \in {"idle", "forward", "apply", "sweep", "delete"} => ~run[r].dry
    /\ run[r].pc = "dry" => run[r].dry
    /\ run[r].pc = "idle" => run[r].out.synced = {} /\ run[r].out.deleted = {}
    /\ run[r].pc # "killed" =>
           IF run[r].dry THEN Did(r, "write") = {} /\ Did(r, "delete") = {}
           ELSE run[r].out.synced = Did(r, "write") /\ run[r].out.deleted = Did(r, "delete")

SyncInv ==
    /\ TypeInv
    /\ \A r \in Runs : Scanned(r) /\ Decided(r) /\ Probed(r) /\ Reported(r)

------------------------------------------------------------------------------
LEMMA PartialIn ==
    ASSUME NEW S, NEW T, NEW D, D \subseteq S, NEW g \in [D -> T]
    PROVE  g \in Partial(S, T)
  BY DEF Partial

LEMMA PartialOut ==
    ASSUME NEW S, NEW T, NEW g \in Partial(S, T)
    PROVE  DOMAIN g \subseteq S /\ g \in [DOMAIN g -> T]
  BY DEF Partial

LEMMA ObjectTyped ==
    ASSUME NEW o \in Objects
    PROVE  /\ o.blob \in Contents /\ o.kind \in {"file", "none", "other"}
           /\ o.kind = "none" => o.blob = NoBlob
           /\ Nothing \in Objects
  BY DEF Objects, Nothing, Other, File, Contents

LEMMA IdleTyped ==
    Idle \in Process /\ [Idle EXCEPT !.pc = "killed"] \in Process
PROOF
  <1>1. <<>> \in Partial(Paths, Difference) /\ <<>> \in Partial(Paths, Contents)
    <2>1. <<>> \in [{} -> Difference] /\ <<>> \in [{} -> Contents]
      OBVIOUS
    <2> QED BY <2>1, PartialIn
  <1>2. Outcome \in Outcomes
    BY DEF Outcome, Outcomes
  <1> QED BY <1>1, <1>2 DEF Idle, Process

(* Only run r moves; what its scan found stays. *)
Goes(r, pc, todo, batch, target, synced, deleted) ==
    /\ run' \in [Runs -> Process]
    /\ \A q \in Runs : q # r => run'[q] = run[q]
    /\ run'[r].dry = run[r].dry /\ run'[r].expected = run[r].expected
    /\ run'[r].diffs = run[r].diffs /\ run'[r].residue = run[r].residue
    /\ run'[r].pc = pc /\ run'[r].todo = todo /\ run'[r].batch = batch /\ run'[r].target = target
    /\ run'[r].out.synced = synced /\ run'[r].out.deleted = deleted

LEMMA GoesBy ==
    ASSUME run \in [Runs -> Process], NEW r \in Runs, NEW h \in Process,
           run' = [run EXCEPT ![r] = h],
           h.dry = run[r].dry, h.expected = run[r].expected, h.diffs = run[r].diffs,
           h.residue = run[r].residue
    PROVE  Goes(r, h.pc, h.todo, h.batch, h.target, h.out.synced, h.out.deleted)
  BY DEF Goes

LEMMA RunTyped ==
    ASSUME TypeInv, NEW r \in Runs
    PROVE  /\ run[r] \in Process /\ run[r].out \in Outcomes
           /\ run[r].todo \subseteq Paths /\ run[r].batch \subseteq Paths
           /\ run[r].target \subseteq Paths
           /\ DOMAIN run[r].diffs \subseteq Paths /\ DOMAIN run[r].residue \subseteq Paths
           /\ \A p \in DOMAIN run[r].diffs : run[r].diffs[p] \in Difference
PROOF
  <1>1. run[r] \in Process
    BY DEF TypeInv
  <1>2. /\ run[r].out \in Outcomes /\ run[r].todo \subseteq Paths /\ run[r].batch \subseteq Paths
        /\ run[r].target \subseteq Paths /\ run[r].diffs \in Partial(Paths, Difference)
        /\ run[r].residue \in Partial(Paths, Contents)
    BY <1>1 DEF Process
  <1> QED BY <1>1, <1>2, PartialOut

(* The failure path. *)
LEMMA FailsGoes ==
    ASSUME TypeInv, NEW r \in Runs, SyncFails(r)
    PROVE  Goes(r, "done", {}, {}, {}, run[r].out.synced, run[r].out.deleted)
PROOF
  <1> DEFINE h == [run[r] EXCEPT !.pc = "done", !.failed = TRUE, !.todo = {}, !.batch = {}, !.target = {}]
  <1>1. run' = [run EXCEPT ![r] = h]
    BY DEF SyncFails
  <1>2. run[r] \in Process /\ run \in [Runs -> Process]
    BY RunTyped DEF TypeInv
  <1>3. /\ h \in Process /\ h.pc = "done" /\ h.todo = {} /\ h.batch = {} /\ h.target = {}
        /\ h.dry = run[r].dry /\ h.expected = run[r].expected /\ h.diffs = run[r].diffs
        /\ h.residue = run[r].residue /\ h.out = run[r].out
    BY <1>2 DEF Process
  <1> HIDE DEF h
  <1>4. Goes(r, h.pc, h.todo, h.batch, h.target, h.out.synced, h.out.deleted)
    BY <1>1, <1>2, <1>3, GoesBy
  <1> QED BY <1>3, <1>4

BatchPc(phase) == IF phase = "forward" THEN "apply" ELSE "delete"

LEMMA BatchGoes ==
    ASSUME TypeInv, NEW r \in Runs, NEW phase \in {"forward", "sweep"}, BeginBatch(r, phase)
    PROVE  /\ run[r].pc = phase
           /\ \/ SyncFails(r)
              \/ /\ flock = NoRun /\ flock' = r
                 /\ \E batch \in SUBSET run[r].todo :
                        Goes(r, BatchPc(phase), run[r].todo \ batch,
                             batch \ {p \in batch : ConflictFor(p)}, run[r].target,
                             run[r].out.synced, run[r].out.deleted)
PROOF
  <1>0. run[r] \in Process /\ run[r].out \in Outcomes /\ run \in [Runs -> Process]
        /\ run[r].todo \subseteq Paths
    BY RunTyped DEF TypeInv
  <1>1. run[r].pc = phase
    BY DEF BeginBatch
  <1>2. ASSUME PlanStands(r), NEW batch \in Batches(run[r].todo), flock' = r,
               run' = [run EXCEPT ![r].todo = @ \ batch,
                                  ![r].batch = batch \ {p \in batch : ConflictFor(p)},
                                  ![r].out.conflicts = @ \union {p \in batch : ConflictFor(p)},
                                  ![r].pc = IF phase = "forward" THEN "apply" ELSE "delete"]
        PROVE  /\ batch \in SUBSET run[r].todo
               /\ Goes(r, BatchPc(phase), run[r].todo \ batch,
                       batch \ {p \in batch : ConflictFor(p)}, run[r].target,
                       run[r].out.synced, run[r].out.deleted)
    <2> DEFINE refused == {p \in batch : ConflictFor(p)}
               o == [run[r].out EXCEPT !.conflicts = @ \union refused]
               h == [run[r] EXCEPT !.todo = @ \ batch, !.batch = batch \ refused,
                                   !.out = o, !.pc = BatchPc(phase)]
    <2>1. batch \subseteq run[r].todo
      BY DEF Batches
    <2>2. refused \subseteq Paths
      BY <1>0, <2>1
    <2>3. run' = [run EXCEPT ![r] = h]
      BY <1>0, <1>2 DEF BatchPc
    <2> HIDE DEF refused
    <2>4. o \in Outcomes /\ o.synced = run[r].out.synced /\ o.deleted = run[r].out.deleted
      BY <1>0, <2>2 DEF Outcomes
    <2> HIDE DEF o
    <2>5. /\ h \in Process /\ h.pc = BatchPc(phase) /\ h.todo = run[r].todo \ batch
          /\ h.batch = batch \ refused /\ h.target = run[r].target /\ h.out = o
          /\ h.dry = run[r].dry /\ h.expected = run[r].expected /\ h.diffs = run[r].diffs
          /\ h.residue = run[r].residue
      BY <1>0, <2>1, <2>4 DEF Process, BatchPc
    <2> HIDE DEF h
    <2>6. Goes(r, h.pc, h.todo, h.batch, h.target, h.out.synced, h.out.deleted)
      BY <1>0, <2>3, <2>5, GoesBy
    <2> QED BY <2>1, <2>4, <2>5, <2>6 DEF refused
  <1> QED BY <1>1, <1>2 DEF BeginBatch

LEMMA EndsGoes ==
    ASSUME TypeInv, NEW r \in Runs, EndBatch(r) \/ ForwardEnds(r) \/ SweepEnds(r)
    PROVE  LET pc == IF EndBatch(r) THEN (IF run[r].pc = "apply" THEN "forward" ELSE "sweep")
                     ELSE IF ForwardEnds(r) THEN "sweep" ELSE "done"
               todo == IF EndBatch(r) \/ ~ForwardEnds(r) THEN run[r].todo ELSE DOMAIN run[r].residue
           IN  Goes(r, pc, todo, run[r].batch, run[r].target, run[r].out.synced, run[r].out.deleted)
PROOF
  <1>0. run[r] \in Process /\ run \in [Runs -> Process] /\ DOMAIN run[r].residue \subseteq Paths
    BY RunTyped DEF TypeInv
  <1> DEFINE pc == IF EndBatch(r) THEN (IF run[r].pc = "apply" THEN "forward" ELSE "sweep")
                   ELSE IF ForwardEnds(r) THEN "sweep" ELSE "done"
             todo == IF EndBatch(r) \/ ~ForwardEnds(r) THEN run[r].todo ELSE DOMAIN run[r].residue
             h == [run[r] EXCEPT !.pc = pc, !.todo = todo]
  <1>1. run' = [run EXCEPT ![r] = h]
    <2>1. CASE EndBatch(r)
      <3>1. h = [run[r] EXCEPT !.pc = IF run[r].pc = "apply" THEN "forward" ELSE "sweep"]
        BY <1>0, <2>1 DEF Process
      <3> QED BY <2>1, <3>1 DEF EndBatch, Goto
    <2>2. CASE ~EndBatch(r) /\ ForwardEnds(r)
      BY <2>2 DEF ForwardEnds
    <2>3. CASE ~EndBatch(r) /\ ~ForwardEnds(r) /\ SweepEnds(r)
      <3>1. h = [run[r] EXCEPT !.pc = "done"]
        BY <1>0, <2>3 DEF Process
      <3> QED BY <2>3, <3>1 DEF SweepEnds, Goto
    <2> QED BY <2>1, <2>2, <2>3
  <1>2. pc \in {"forward", "sweep", "done"} /\ todo \subseteq Paths
    BY <1>0 DEF Process
  <1> HIDE DEF pc, todo
  <1>3. /\ h \in Process /\ h.pc = pc /\ h.todo = todo
        /\ h.batch = run[r].batch /\ h.target = run[r].target /\ h.out = run[r].out
        /\ h.dry = run[r].dry /\ h.expected = run[r].expected /\ h.diffs = run[r].diffs
        /\ h.residue = run[r].residue
    BY <1>0, <1>2 DEF Process
  <1> HIDE DEF h
  <1>4. Goes(r, h.pc, h.todo, h.batch, h.target, h.out.synced, h.out.deleted)
    BY <1>0, <1>1, <1>3, GoesBy
  <1> QED BY <1>3, <1>4 DEF pc, todo

LEMMA ProbeGoes ==
    ASSUME TypeInv, NEW r \in Runs, SyncProbe(r)
    PROVE  /\ run[r].pc = "apply"
           /\ \E p \in run[r].batch :
                  \/ /\ fresh' = fresh
                     /\ Goes(r, "apply", run[r].todo, run[r].batch \ {p}, {},
                             run[r].out.synced, run[r].out.deleted)
                  \/ /\ ~TargetMoved(run[r].diffs[p], tree[p]) /\ fresh' = fresh \ {<<r, p>>}
                     /\ Goes(r, "apply", run[r].todo, run[r].batch \ {p}, {p},
                             run[r].out.synced, run[r].out.deleted)
PROOF
  <1>0. /\ run[r] \in Process /\ run[r].out \in Outcomes /\ run \in [Runs -> Process]
        /\ run[r].batch \subseteq Paths
    BY RunTyped DEF TypeInv
  <1>1. run[r].pc = "apply" /\ run[r].target = {}
    BY DEF SyncProbe
  <1>2. PICK p \in run[r].batch :
           IF TargetMoved(run[r].diffs[p], tree[p])
           THEN run' = [run EXCEPT ![r].batch = @ \ {p}, ![r].out.targetSkips = @ \union {p}]
                /\ UNCHANGED fresh
           ELSE run' = [run EXCEPT ![r].batch = @ \ {p}, ![r].target = {p}]
                /\ fresh' = fresh \ {<<r, p>>}
    BY DEF SyncProbe
  <1>3. CASE TargetMoved(run[r].diffs[p], tree[p])
    <2> DEFINE o == [run[r].out EXCEPT !.targetSkips = @ \union {p}]
               h == [run[r] EXCEPT !.batch = @ \ {p}, !.out = o]
    <2>0. run' = [run EXCEPT ![r].batch = @ \ {p}, ![r].out.targetSkips = @ \union {p}] /\ fresh' = fresh
      BY <1>2, <1>3
    <2>1. run' = [run EXCEPT ![r] = h] /\ fresh' = fresh
      BY <1>0, <2>0
    <2>2. o \in Outcomes /\ o.synced = run[r].out.synced /\ o.deleted = run[r].out.deleted
      BY <1>0 DEF Outcomes
    <2> HIDE DEF o
    <2>3. /\ h \in Process /\ h.pc = "apply" /\ h.todo = run[r].todo
          /\ h.batch = run[r].batch \ {p} /\ h.target = {} /\ h.out = o
          /\ h.dry = run[r].dry /\ h.expected = run[r].expected /\ h.diffs = run[r].diffs
          /\ h.residue = run[r].residue
      BY <1>0, <1>1, <2>2 DEF Process
    <2> HIDE DEF h
    <2>4. Goes(r, h.pc, h.todo, h.batch, h.target, h.out.synced, h.out.deleted)
      BY <1>0, <2>1, <2>3, GoesBy
    <2> QED BY <1>1, <2>1, <2>2, <2>3, <2>4
  <1>4. CASE ~TargetMoved(run[r].diffs[p], tree[p])
    <2> DEFINE h == [run[r] EXCEPT !.batch = @ \ {p}, !.target = {p}]
    <2>1. run' = [run EXCEPT ![r] = h] /\ fresh' = fresh \ {<<r, p>>}
      BY <1>0, <1>2, <1>4
    <2>2. /\ h \in Process /\ h.pc = "apply" /\ h.todo = run[r].todo
          /\ h.batch = run[r].batch \ {p} /\ h.target = {p} /\ h.out = run[r].out
          /\ h.dry = run[r].dry /\ h.expected = run[r].expected /\ h.diffs = run[r].diffs
          /\ h.residue = run[r].residue
      BY <1>0, <1>1 DEF Process
    <2> HIDE DEF h
    <2>3. Goes(r, h.pc, h.todo, h.batch, h.target, h.out.synced, h.out.deleted)
      BY <1>0, <2>1, <2>2, GoesBy
    <2> QED BY <1>1, <1>4, <2>1, <2>2, <2>3
  <1> QED BY <1>3, <1>4

LEMMA PublishGoes ==
    ASSUME TypeInv, NEW r \in Runs, SyncPublish(r)
    PROVE  /\ run[r].pc = "apply"
           /\ \E p \in run[r].target :
                  /\ tree' = [tree EXCEPT ![p] = Integration(run[r].expected)[p]]
                  /\ did' = did \union {<<r, p, "write", tree[p]>>}
                  /\ \/ /\ flock' = flock
                        /\ Goes(r, "apply", run[r].todo, run[r].batch, {},
                                run[r].out.synced \union {p}, run[r].out.deleted)
                     \/ /\ flock' = NoRun
                        /\ Goes(r, "done", {}, {}, {},
                                run[r].out.synced \union {p}, run[r].out.deleted)
PROOF
  <1>0. /\ run[r] \in Process /\ run[r].out \in Outcomes /\ run \in [Runs -> Process]
        /\ run[r].target \subseteq Paths
    BY RunTyped DEF TypeInv
  <1>1. run[r].pc = "apply"
    BY DEF SyncPublish
  <1>2. PICK p \in run[r].target :
           /\ tree' = [tree EXCEPT ![p] = Integration(run[r].expected)[p]]
           /\ did' = did \union {<<r, p, "write", tree[p]>>}
           /\ \/ /\ run' = [run EXCEPT ![r].target = {}, ![r].out.synced = @ \union {p}]
                 /\ flock' = flock
              \/ /\ run' = [run EXCEPT ![r].pc = "done", ![r].failed = TRUE, ![r].todo = {},
                       ![r].batch = {}, ![r].target = {}, ![r].out.synced = @ \union {p}]
                 /\ flock' = NoRun
    BY DEF SyncPublish
  <1> DEFINE o == [run[r].out EXCEPT !.synced = @ \union {p}]
             h == [run[r] EXCEPT !.target = {}, !.out = o]
             g == [run[r] EXCEPT !.pc = "done", !.failed = TRUE, !.todo = {}, !.batch = {},
                                 !.target = {}, !.out = o]
  <1>3. \/ run' = [run EXCEPT ![r] = h] /\ flock' = flock
        \/ run' = [run EXCEPT ![r] = g] /\ flock' = NoRun
    <2>1. ASSUME run' = [run EXCEPT ![r].target = {}, ![r].out.synced = @ \union {p}]
          PROVE  run' = [run EXCEPT ![r] = h]
      BY <1>0, <2>1
    <2>2. ASSUME run' = [run EXCEPT ![r].pc = "done", ![r].failed = TRUE, ![r].todo = {},
                             ![r].batch = {}, ![r].target = {}, ![r].out.synced = @ \union {p}]
          PROVE  run' = [run EXCEPT ![r] = g]
      BY <1>0, <2>2, SMTT(60) DEF Process, Outcomes
    <2> QED BY <1>2, <2>1, <2>2
  <1>4. o \in Outcomes /\ o.synced = run[r].out.synced \union {p} /\ o.deleted = run[r].out.deleted
    BY <1>0 DEF Outcomes
  <1> HIDE DEF o
  <1>5. /\ h \in Process /\ h.pc = "apply" /\ h.todo = run[r].todo
        /\ h.batch = run[r].batch /\ h.target = {} /\ h.out = o
        /\ h.dry = run[r].dry /\ h.expected = run[r].expected /\ h.diffs = run[r].diffs
        /\ h.residue = run[r].residue
    BY <1>0, <1>1, <1>4 DEF Process
  <1>6. /\ g \in Process /\ g.pc = "done" /\ g.todo = {}
        /\ g.batch = {} /\ g.target = {} /\ g.out = o
        /\ g.dry = run[r].dry /\ g.expected = run[r].expected /\ g.diffs = run[r].diffs
        /\ g.residue = run[r].residue
    BY <1>0, <1>1, <1>4 DEF Process
  <1> HIDE DEF h, g
  <1>7. CASE run' = [run EXCEPT ![r] = h] /\ flock' = flock
    <2>1. Goes(r, h.pc, h.todo, h.batch, h.target, h.out.synced, h.out.deleted)
      BY <1>0, <1>5, <1>7, GoesBy
    <2> QED BY <1>1, <1>2, <1>4, <1>5, <1>7, <2>1
  <1>8. CASE run' = [run EXCEPT ![r] = g] /\ flock' = NoRun
    <2>1. Goes(r, g.pc, g.todo, g.batch, g.target, g.out.synced, g.out.deleted)
      BY <1>0, <1>6, <1>8, GoesBy
    <2> QED BY <1>1, <1>2, <1>4, <1>6, <1>8, <2>1
  <1> QED BY <1>3, <1>7, <1>8

LEMMA ProbeResidueGoes ==
    ASSUME TypeInv, NEW r \in Runs, SyncProbeResidue(r)
    PROVE  /\ run[r].pc = "delete"
           /\ \E p \in run[r].batch :
                  \/ /\ fresh' = fresh
                     /\ Goes(r, "delete", run[r].todo, run[r].batch \ {p}, {},
                             run[r].out.synced, run[r].out.deleted)
                  \/ /\ tree[p].blob = run[r].residue[p] /\ fresh' = fresh \ {<<r, p>>}
                     /\ Goes(r, "delete", run[r].todo, run[r].batch \ {p}, {p},
                             run[r].out.synced, run[r].out.deleted)
PROOF
  <1>0. /\ run[r] \in Process /\ run[r].out \in Outcomes /\ run \in [Runs -> Process]
        /\ run[r].batch \subseteq Paths
    BY RunTyped DEF TypeInv
  <1>1. run[r].pc = "delete" /\ run[r].target = {}
    BY DEF SyncProbeResidue
  <1> DEFINE V(p) == ResidueVerdict(run[r].residue[p], tree[p])
             T(p) == IF V(p) = "deletable" THEN {p} ELSE {}
             O(p) == [run[r].out EXCEPT
                         !.residueSkips = IF V(p) = "notfile" THEN @ \union {p} ELSE @,
                         !.modified = IF V(p) = "modified" THEN @ \union {p} ELSE @]
             H(p) == [run[r] EXCEPT !.batch = @ \ {p}, !.target = T(p), !.out = O(p)]
  <1>2. PICK p \in run[r].batch :
           /\ run' = [run EXCEPT ![r] = H(p)]
           /\ fresh' = IF V(p) = "deletable" THEN fresh \ {<<r, p>>} ELSE fresh
    <2>1. PICK p \in run[r].batch :
             /\ run' = [run EXCEPT
                      ![r].batch = @ \ {p},
                      ![r].target = IF V(p) = "deletable" THEN {p} ELSE {},
                      ![r].out.residueSkips = IF V(p) = "notfile" THEN @ \union {p} ELSE @,
                      ![r].out.modified = IF V(p) = "modified" THEN @ \union {p} ELSE @]
             /\ fresh' = IF V(p) = "deletable" THEN fresh \ {<<r, p>>} ELSE fresh
      BY DEF SyncProbeResidue
    <2>2. run' = [run EXCEPT ![r] = H(p)]
      <3> HIDE DEF V
      <3> QED BY <1>0, <2>1, ZenonT(60)
    <2> QED BY <2>1, <2>2
  <1>3. V(p) = "deletable" => tree[p].blob = run[r].residue[p]
    BY DEF ResidueVerdict
  <1> DEFINE o == O(p)
             t == T(p)
             v == V(p)
             h == H(p)
  <1>4. t \subseteq Paths /\ (v = "deletable" => t = {p}) /\ (v # "deletable" => t = {})
    BY <1>0
  <1>5. h = [run[r] EXCEPT !.batch = @ \ {p}, !.target = t, !.out = o] /\ run' = [run EXCEPT ![r] = h]
    BY <1>2
  <1>6. o \in Outcomes /\ o.synced = run[r].out.synced /\ o.deleted = run[r].out.deleted
    <2> HIDE DEF V
    <2> QED BY <1>0 DEF Outcomes
  <1>7. v = "deletable" => tree[p].blob = run[r].residue[p]
    BY <1>3
  <1>8. fresh' = IF v = "deletable" THEN fresh \ {<<r, p>>} ELSE fresh
    BY <1>2
  <1> HIDE DEF o, t, h, v
  <1>9. /\ h \in Process /\ h.pc = "delete" /\ h.todo = run[r].todo
        /\ h.batch = run[r].batch \ {p} /\ h.target = t /\ h.out = o
        /\ h.dry = run[r].dry /\ h.expected = run[r].expected /\ h.diffs = run[r].diffs
        /\ h.residue = run[r].residue
    BY <1>0, <1>1, <1>4, <1>5, <1>6 DEF Process
  <1>10. Goes(r, h.pc, h.todo, h.batch, h.target, h.out.synced, h.out.deleted)
    BY <1>0, <1>5, <1>9, GoesBy
  <1>11. Goes(r, "delete", run[r].todo, run[r].batch \ {p}, t, run[r].out.synced, run[r].out.deleted)
    BY <1>6, <1>9, <1>10
  <1>12. CASE v = "deletable"
    BY <1>1, <1>4, <1>7, <1>8, <1>11, <1>12
  <1>13. CASE v # "deletable"
    BY <1>1, <1>4, <1>8, <1>11, <1>13
  <1> QED BY <1>12, <1>13

LEMMA RemoveGoes ==
    ASSUME TypeInv, NEW r \in Runs, SyncRemove(r)
    PROVE  /\ run[r].pc = "delete"
           /\ \E p \in run[r].target :
                  /\ tree' = [tree EXCEPT ![p] = Nothing]
                  /\ did' = did \union {<<r, p, "delete", tree[p]>>}
                  /\ Goes(r, "delete", run[r].todo, run[r].batch, {},
                          run[r].out.synced, run[r].out.deleted \union {p})
PROOF
  <1>0. /\ run[r] \in Process /\ run[r].out \in Outcomes /\ run \in [Runs -> Process]
        /\ run[r].target \subseteq Paths
    BY RunTyped DEF TypeInv
  <1>1. run[r].pc = "delete"
    BY DEF SyncRemove
  <1>2. PICK p \in run[r].target :
           /\ tree' = [tree EXCEPT ![p] = Nothing]
           /\ did' = did \union {<<r, p, "delete", tree[p]>>}
           /\ run' = [run EXCEPT ![r].target = {}, ![r].out.deleted = @ \union {p}]
    BY DEF SyncRemove
  <1> DEFINE o == [run[r].out EXCEPT !.deleted = @ \union {p}]
             h == [run[r] EXCEPT !.target = {}, !.out = o]
  <1>3. run' = [run EXCEPT ![r] = h]
    BY <1>0, <1>2
  <1>4. o \in Outcomes /\ o.synced = run[r].out.synced /\ o.deleted = run[r].out.deleted \union {p}
    BY <1>0 DEF Outcomes
  <1> HIDE DEF o
  <1>5. /\ h \in Process /\ h.pc = "delete" /\ h.todo = run[r].todo
        /\ h.batch = run[r].batch /\ h.target = {} /\ h.out = o
        /\ h.dry = run[r].dry /\ h.expected = run[r].expected /\ h.diffs = run[r].diffs
        /\ h.residue = run[r].residue
    BY <1>0, <1>1, <1>4 DEF Process
  <1> HIDE DEF h
  <1>6. Goes(r, h.pc, h.todo, h.batch, h.target, h.out.synced, h.out.deleted)
    BY <1>0, <1>3, <1>5, GoesBy
  <1> QED BY <1>1, <1>2, <1>4, <1>5, <1>6

Less == {ss \in Nat \X Nat : ss[1] < ss[2]}

LEMMA Smallest ==
    ASSUME NEW T, T \subseteq Nat, T # {}
    PROVE  \E x \in T : \A y \in T : x <= y
PROOF
  <1>1. IsWellFoundedOn(Less, Nat)
    BY NatLessThanWellFounded DEF OpToRel, Less
  <1>2. PICK x \in T : \A y \in T : ~(<<y, x>> \in Less)
    BY <1>1, WFMin
  <1>3. \A y \in T : ~(y < x)
    BY <1>2 DEF Less
  <1> QED BY <1>3

LEMMA Largest ==
    ASSUME NEW n \in Nat, NEW A, A \subseteq 1..n, A # {}
    PROVE  \E i \in A : \A j \in A : j <= i
PROOF
  <1> DEFINE T == {n - i : i \in A}
  <1>1. \A i \in A : i \in Nat /\ n - i \in Nat
    OBVIOUS
  <1>2. T \subseteq Nat
    BY <1>1
  <1>3. T # {}
    OBVIOUS
  <1>4. PICK x \in T : \A y \in T : x <= y
    <2> HIDE DEF T
    <2> QED BY <1>2, <1>3, Smallest
  <1>5. PICK i \in A : x = n - i
    OBVIOUS
  <1>6. ASSUME NEW j \in A PROVE j <= i
    <2>1. x <= n - j
      BY <1>4
    <2> QED BY <1>1, <1>5, <2>1
  <1> QED BY <1>6

LEMMA CreatorTyped ==
    ASSUME TypeInv, NEW p \in Paths, CreatedBy(p) # NoCandidate
    PROVE  CreatedBy(p) \in Candidates /\ Proposal[CreatedBy(p)].object.blob \in Contents
PROOF
  <1> DEFINE of == {i \in DOMAIN rejected : Proposal[rejected[i]].path = p}
             c == CHOOSE i \in of : \A j \in of : j <= i
  <1>1. rejected \in Seq(Candidates) /\ Len(rejected) \in Nat
    BY DEF TypeInv
  <1>2. of \subseteq 1..Len(rejected)
    BY <1>1
  <1>3. of # {} /\ CreatedBy(p) = rejected[c]
    BY DEF CreatedBy
  <1>4. \E i \in of : \A j \in of : j <= i
    <2> HIDE DEF of
    <2> QED BY <1>1, <1>2, <1>3, Largest
  <1>5. c \in of
    <2> HIDE DEF of
    <2> QED BY <1>4
  <1>6. CreatedBy(p) \in Candidates
    BY <1>1, <1>2, <1>3, <1>5
  <1>7. Proposal[CreatedBy(p)].object \in Objects
    BY <1>6, SyncAssumption
  <1> QED BY <1>6, <1>7, ObjectTyped

LEMMA DivergenceTyped ==
    ASSUME NEW entry \in Objects, NEW found \in Objects
    PROVE  /\ Divergence(entry, found) \in {"unsupported", "missing", "modified", "modeonly", "same"}
           /\ Divergence(entry, found) = "missing" => found.blob = NoBlob
  BY ObjectTyped DEF Divergence

(* The steps before the first batch. *)
LEMMA ResolveGoes ==
    ASSUME TypeInv, NEW r \in Runs, SyncResolve(r)
    PROVE  /\ run[r].pc = "idle" /\ run' \in [Runs -> Process]
           /\ \A q \in Runs : q # r => run'[q] = run[q]
           /\ run'[r].pc \in {"hash", "done"} /\ run'[r].diffs = run[r].diffs
           /\ run'[r].target = run[r].target /\ run'[r].out = run[r].out
           /\ run'[r].batch = run[r].batch
           /\ run'[r].pc = "hash" => run'[r].expected \in 1..Len(promoted)
PROOF
  <1>0. run[r] \in Process /\ run \in [Runs -> Process] /\ Len(promoted) \in Nat
    BY RunTyped DEF TypeInv
  <1>1. run[r].pc = "idle"
    BY DEF SyncResolve
  <1> DEFINE pc == IF promoted = <<>> \/ BehindHead THEN "done" ELSE "hash"
  <1>2. PICK dry \in BOOLEAN :
           run' = [run EXCEPT ![r] = [run[r] EXCEPT !.dry = dry, !.expected = Len(promoted), !.pc = pc]]
    BY DEF SyncResolve
  <1>3. pc \in {"hash", "done"} /\ (pc = "hash" => Len(promoted) \in 1..Len(promoted))
    BY <1>0 DEF TypeInv
  <1> HIDE DEF pc
  <1> DEFINE h == [run[r] EXCEPT !.dry = dry, !.expected = Len(promoted), !.pc = pc]
  <1>4. /\ h \in Process /\ h.pc = pc /\ h.diffs = run[r].diffs /\ h.target = run[r].target
        /\ h.batch = run[r].batch
        /\ h.out = run[r].out /\ h.expected = Len(promoted)
    BY <1>0, <1>3 DEF Process
  <1>5. run' = [run EXCEPT ![r] = h]
    BY <1>2
  <1> HIDE DEF h
  <1> QED BY <1>0, <1>1, <1>3, <1>4, <1>5

LEMMA HashGoes ==
    ASSUME TypeInv, NEW r \in Runs, SyncHash(r)
    PROVE  /\ run[r].pc = "hash" /\ run' \in [Runs -> Process]
           /\ \A q \in Runs : q # r => run'[q] = run[q]
           /\ run'[r].pc = "untracked" /\ run'[r].dry = run[r].dry
           /\ run'[r].expected = run[r].expected
           /\ run'[r].target = run[r].target /\ run'[r].out = run[r].out
           /\ run'[r].batch = run[r].batch
           /\ \A p \in DOMAIN run'[r].diffs :
                  run'[r].diffs[p].state = "missing" => run'[r].diffs[p].observed = NoBlob
PROOF
  <1>0. run[r] \in Process /\ run \in [Runs -> Process] /\ tree \in [Paths -> Objects]
    BY RunTyped DEF TypeInv
  <1> DEFINE want == Integration(run[r].expected)
             state(p) == Divergence(want[p], tree[p])
             differs == {p \in Paths : want[p] # Nothing /\ state(p) # "same"}
             skipped == {p \in differs : state(p) = "unsupported"}
             D == differs \ skipped
             diffs == [p \in D |-> [state |-> state(p), observed |-> tree[p].blob]]
             h == [run[r] EXCEPT !.pc = "untracked", !.skipped = skipped, !.diffs = diffs]
  <1>1. run[r].pc = "hash" /\ run' = [run EXCEPT ![r] = h]
    BY DEF SyncHash
  <1>2. want \in [Paths -> Objects]
    BY <1>1 DEF TypeInv, Integration, UnderWay
  <1> HIDE DEF want
  <1>3. ASSUME NEW p \in D
        PROVE  /\ [state |-> state(p), observed |-> tree[p].blob] \in Difference
               /\ state(p) = "missing" => tree[p].blob = NoBlob
    <2>1. p \in Paths /\ want[p] \in Objects /\ tree[p] \in Objects /\ state(p) # "unsupported"
      BY <1>0, <1>2
    <2>2. /\ state(p) \in {"unsupported", "missing", "modified", "modeonly", "same"}
          /\ state(p) = "missing" => tree[p].blob = NoBlob
      BY <2>1, DivergenceTyped
    <2>3. tree[p].blob \in Contents
      BY <2>1, ObjectTyped
    <2> QED BY <2>1, <2>2, <2>3 DEF Difference
  <1>4. D \subseteq Paths /\ skipped \subseteq Paths
    OBVIOUS
  <1>5. diffs \in [D -> Difference]
    <2> HIDE DEF D, state
    <2> QED BY <1>3
  <1>6. diffs \in Partial(Paths, Difference)
    <2> HIDE DEF D, diffs
    <2> QED BY <1>4, <1>5, PartialIn
  <1>7. \A p \in DOMAIN diffs : diffs[p].state = "missing" => diffs[p].observed = NoBlob
    <2> HIDE DEF D, state
    <2> QED BY <1>3
  <1> HIDE DEF diffs, skipped
  <1>8. /\ h \in Process /\ h.pc = "untracked" /\ h.diffs = diffs /\ h.target = run[r].target
        /\ h.batch = run[r].batch
        /\ h.out = run[r].out /\ h.expected = run[r].expected /\ h.dry = run[r].dry
    BY <1>0, <1>4, <1>6 DEF Process
  <1> HIDE DEF h
  <1> QED BY <1>0, <1>1, <1>7, <1>8

LEMMA ScanResidueGoes ==
    ASSUME TypeInv, NEW r \in Runs, SyncScanResidue(r)
    PROVE  /\ run[r].pc = "untracked" /\ run' \in [Runs -> Process]
           /\ \A q \in Runs : q # r => run'[q] = run[q]
           /\ run'[r].pc \in {"done", "dry", "forward"}
           /\ run'[r].pc = "dry" => run[r].dry
           /\ run'[r].pc = "forward" => ~run[r].dry
           /\ run'[r].dry = run[r].dry /\ run'[r].expected = run[r].expected
           /\ run'[r].todo = DOMAIN run[r].diffs /\ run'[r].batch = run[r].batch
           /\ run'[r].diffs = run[r].diffs
           /\ run'[r].target = run[r].target /\ run'[r].out = run[r].out
PROOF
  <1>0. /\ run[r] \in Process /\ run \in [Runs -> Process] /\ tree \in [Paths -> Objects]
        /\ DOMAIN run[r].diffs \subseteq Paths
    BY RunTyped DEF TypeInv
  <1> DEFINE untracked == {p \in Paths \ Tracked : tree[p] # Nothing}
             mine == {p \in untracked : CreatedBy(p) # NoCandidate}
             next == IF run[r].diffs = <<>> /\ run[r].skipped = {} /\ untracked = {} THEN "done"
                     ELSE IF run[r].dry THEN "dry" ELSE "forward"
             residue == [p \in mine |-> Proposal[CreatedBy(p)].object.blob]
             todo == DOMAIN run[r].diffs
             h == [run[r] EXCEPT !.pc = next, !.todo = todo, !.residue = residue]
  <1>1. run[r].pc = "untracked" /\ run' = [run EXCEPT ![r] = h]
    BY DEF SyncScanResidue
  <1>2. /\ next \in {"done", "dry", "forward"} /\ (next = "dry" => run[r].dry)
        /\ (next = "forward" => ~run[r].dry)
    OBVIOUS
  <1>3. mine \subseteq Paths
    OBVIOUS
  <1>4. \A p \in mine : Proposal[CreatedBy(p)].object.blob \in Contents
    BY CreatorTyped
  <1>5. residue \in [mine -> Contents]
    <2> HIDE DEF mine
    <2> QED BY <1>4
  <1>6. residue \in Partial(Paths, Contents)
    <2> HIDE DEF mine, residue
    <2> QED BY <1>3, <1>5, PartialIn
  <1>7. todo \subseteq Paths
    BY <1>0
  <1> HIDE DEF next, residue, todo
  <1>8. /\ h \in Process /\ h.pc = next /\ h.diffs = run[r].diffs /\ h.target = run[r].target
        /\ h.batch = run[r].batch /\ h.todo = todo
        /\ h.out = run[r].out /\ h.expected = run[r].expected /\ h.dry = run[r].dry
    BY <1>0, <1>2, <1>6, <1>7 DEF Process
  <1> HIDE DEF h
  <1> QED BY <1>0, <1>1, <1>2, <1>8 DEF todo

LEMMA DryRunGoes ==
    ASSUME TypeInv, NEW r \in Runs, SyncDryRun(r)
    PROVE  /\ run[r].pc = "dry"
           /\ \/ SyncFails(r)
              \/ /\ run' \in [Runs -> Process] /\ flock' = flock
                 /\ \A q \in Runs : q # r => run'[q] = run[q]
                 /\ run'[r].pc = "done" /\ run'[r].dry = run[r].dry
                 /\ run'[r].diffs = run[r].diffs /\ run'[r].target = run[r].target
                 /\ run'[r].batch = run[r].batch
PROOF
  <1>0. /\ run[r] \in Process /\ run[r].out \in Outcomes /\ run \in [Runs -> Process]
        /\ DOMAIN run[r].diffs \subseteq Paths /\ DOMAIN run[r].residue \subseteq Paths
    BY RunTyped DEF TypeInv
  <1> DEFINE V(p) == ResidueVerdict(run[r].residue[p], tree[p])
             asked == DOMAIN run[r].diffs \union DOMAIN run[r].residue
             sweep == {p \in DOMAIN run[r].residue : ~ConflictFor(p)}
             a == {p \in asked : ConflictFor(p)}
             b == {p \in DOMAIN run[r].diffs : ~ConflictFor(p)}
             c == {p \in sweep : V(p) = "deletable"}
             d == {p \in sweep : V(p) = "notfile"}
             e == {p \in sweep : V(p) = "modified"}
             o == [run[r].out EXCEPT !.conflicts = a, !.synced = b, !.deleted = c,
                                     !.residueSkips = d, !.modified = e]
             h == [run[r] EXCEPT !.pc = "done", !.out = o]
  <1>1. run[r].pc = "dry" /\ (SyncFails(r) \/ (run' = [run EXCEPT ![r] = h] /\ flock' = flock))
    BY DEF SyncDryRun
  <1>2. {a, b, c, d, e} \subseteq SUBSET Paths
    BY <1>0
  <1> HIDE DEF a, b, c, d, e
  <1>3. o \in Outcomes
    BY <1>0, <1>2 DEF Outcomes
  <1> HIDE DEF o
  <1>4. /\ h \in Process /\ h.pc = "done" /\ h.diffs = run[r].diffs /\ h.target = run[r].target
        /\ h.dry = run[r].dry /\ h.batch = run[r].batch
    BY <1>0, <1>3 DEF Process
  <1> HIDE DEF h
  <1> QED BY <1>0, <1>1, <1>4

LEMMA KilledGoes ==
    ASSUME TypeInv, NEW r \in Runs, SyncKilled(r)
    PROVE  /\ run' \in [Runs -> Process] /\ \A q \in Runs : q # r => run'[q] = run[q]
           /\ run'[r].pc = "killed" /\ run'[r].diffs = <<>>
           /\ run'[r].batch = {} /\ run'[r].target = {}
PROOF
  <1> DEFINE h == [Idle EXCEPT !.pc = "killed"]
  <1>1. h \in Process /\ h.pc = "killed" /\ h.diffs = <<>> /\ h.batch = {} /\ h.target = {}
    BY IdleTyped DEF Idle
  <1>2. run' = [run EXCEPT ![r] = h] /\ run \in [Runs -> Process]
    BY DEF SyncKilled, TypeInv
  <1> HIDE DEF h
  <1> QED BY <1>1, <1>2

------------------------------------------------------------------------------
(* What a step of run r leaves alone, and that r's own part of the         *)
(* invariant holds after it.                                               *)
Own(r) ==
    /\ run' \in [Runs -> Process]
    /\ \A q \in Runs : q # r => run'[q] = run[q]
    /\ UNCHANGED <<promoted, claimed, rejected, holds, session>>
    /\ tree' \in [Paths -> Objects] /\ (tree' = tree \/ flock = r)
    /\ flock' = flock \/ flock \in {r, NoRun}
    /\ \A q \in Runs, p \in Paths : q # r /\ <<q, p>> \in fresh => <<q, p>> \in fresh'
    /\ did \subseteq did' /\ \A e \in did' \ did : e[1] = r
    /\ UnderWay(r)' => run'[r].expected \in 1..Len(promoted)
    /\ Scanned(r)' /\ Decided(r)' /\ Probed(r)' /\ Reported(r)'

LEMMA ConflictsStay ==
    ASSUME UNCHANGED <<holds, session, claimed>>, NEW p
    PROVE  ConflictFor(p)' = ConflictFor(p)
  BY DEF ConflictFor, HoldRefuses, HoldCovers, Live, Claimants

LEMMA OwnKeeps ==
    ASSUME SyncInv, NEW r \in Runs, Own(r)
    PROVE  SyncInv'
PROOF
  <1>0. TypeInv /\ NoRun \notin Runs
    BY SyncAssumption DEF SyncInv
  <1>1. TypeInv'
    <2>1. ASSUME NEW q \in Runs, UnderWay(q)' PROVE run'[q].expected \in 1..Len(promoted')
      <3>1. CASE q = r
        BY <2>1, <3>1 DEF Own
      <3>2. CASE q # r
        BY <1>0, <2>1, <3>2 DEF Own, TypeInv, UnderWay
      <3> QED BY <3>1, <3>2
    <2>2. /\ tree' \in [Paths -> Objects] /\ promoted' \in Seq([Paths -> Objects])
          /\ rejected' \in Seq(Candidates) /\ claimed' \subseteq Candidates
          /\ holds' \subseteq [target : Paths \union {Dir}, owner : Owners, lapsed : BOOLEAN]
          /\ session' \in [Owners -> {"alive", "dead", "unknown"}]
          /\ run' \in [Runs -> Process]
      BY <1>0 DEF Own, TypeInv
    <2> QED BY <2>1, <2>2 DEF TypeInv
  <1>2. ASSUME NEW q \in Runs, q # r
        PROVE  Scanned(q)' /\ Decided(q)' /\ Probed(q)' /\ Reported(q)'
    <2>0. /\ run'[q] = run[q] /\ Scanned(q) /\ Decided(q) /\ Probed(q) /\ Reported(q)
          /\ run[q].target \subseteq Paths
      BY <1>0, <1>2, RunTyped DEF Own, SyncInv
    <2>1. Scanned(q)'
      BY <2>0 DEF Scanned
    <2>2. run[q].pc \in {"apply", "delete"} => flock = q /\ flock' = q /\ tree' = tree
      BY <1>0, <1>2, <2>0 DEF Decided, Own
    <2>3. Decided(q)'
      <3>1. \A p : ConflictFor(p)' = ConflictFor(p)
        BY ConflictsStay DEF Own
      <3> QED BY <2>0, <2>2, <3>1 DEF Decided
    <2>4. Probed(q)'
      <3>1. \A p \in run[q].target : <<q, p>> \in fresh => <<q, p>> \in fresh'
        BY <1>2, <2>0 DEF Own
      <3> QED BY <2>0, <2>2, <3>1 DEF Probed
    <2>5. Reported(q)'
      <3>1. ASSUME NEW how PROVE Did(q, how)' = Did(q, how)
        <4>1. \A e : (e \in did /\ e[1] = q) <=> (e \in did' /\ e[1] = q)
          BY <1>2 DEF Own
        <4>2. {d \in did' : d[1] = q /\ d[3] = how} = {d \in did : d[1] = q /\ d[3] = how}
          BY <4>1
        <4> QED BY <4>2 DEF Did
      <3>2. Did(q, "write")' = Did(q, "write") /\ Did(q, "delete")' = Did(q, "delete")
        BY <3>1
      <3> QED BY <2>0, <3>2 DEF Reported
    <2> QED BY <2>1, <2>3, <2>4, <2>5
  <1>3. Scanned(r)' /\ Decided(r)' /\ Probed(r)' /\ Reported(r)'
    BY DEF Own
  <1>4. \A q \in Runs : Scanned(q)' /\ Decided(q)' /\ Probed(q)' /\ Reported(q)'
    BY <1>2, <1>3
  <1> QED BY <1>1, <1>4 DEF SyncInv

(* A step that goes on with what the scan found. *)
LEMMA GoesOwn ==
    ASSUME SyncInv, NEW r \in Runs, NEW pc, NEW todo, NEW batch, NEW target, NEW synced, NEW deleted,
           Goes(r, pc, todo, batch, target, synced, deleted), UnderWay(r),
           UNCHANGED <<promoted, claimed, rejected, holds, session>>,
           tree' \in [Paths -> Objects], tree' = tree \/ flock = r,
           flock' = flock \/ flock \in {r, NoRun},
           \A q \in Runs, p \in Paths : q # r /\ <<q, p>> \in fresh => <<q, p>> \in fresh',
           did \subseteq did', \A e \in did' \ did : e[1] = r,
           pc \notin {"apply", "delete"} => batch = {} /\ target = {},
           pc \in {"forward", "apply"} => todo \union batch \subseteq DOMAIN run[r].diffs,
           pc \in {"apply", "delete"} =>
               flock' = r /\ \A p \in batch \union target : ~ConflictFor(p),
           Probed(r)', Reported(r)'
    PROVE  Own(r)
PROOF
  <1>0. /\ run' \in [Runs -> Process] /\ (\A q \in Runs : q # r => run'[q] = run[q])
        /\ run'[r].expected = run[r].expected /\ run'[r].diffs = run[r].diffs
        /\ run'[r].pc = pc /\ run'[r].todo = todo /\ run'[r].batch = batch /\ run'[r].target = target
    BY DEF Goes
  <1>1. Scanned(r) /\ run[r].expected \in 1..Len(promoted)
    BY DEF SyncInv, TypeInv
  <1>2. Scanned(r)'
    BY <1>0, <1>1 DEF Scanned
  <1>3. Decided(r)'
    <2>1. \A p : ConflictFor(p)' = ConflictFor(p)
      BY ConflictsStay
    <2> QED BY <1>0, <2>1 DEF Decided
  <1> QED BY <1>0, <1>1, <1>2, <1>3 DEF Own

(* One that touches no file. *)
LEMMA QuietOwn ==
    ASSUME SyncInv, NEW r \in Runs, NEW pc, NEW todo, NEW batch, NEW target,
           Goes(r, pc, todo, batch, target, run[r].out.synced, run[r].out.deleted), UnderWay(r),
           UNCHANGED <<tree, promoted, claimed, rejected, holds, session, did>>,
           flock' = flock \/ flock \in {r, NoRun},
           \A q \in Runs, p \in Paths : q # r /\ <<q, p>> \in fresh => <<q, p>> \in fresh',
           pc \in {"forward", "apply", "sweep", "delete", "done"},
           pc = "done" \/ ~run[r].dry,
           pc \notin {"apply", "delete"} => batch = {} /\ target = {},
           pc \in {"forward", "apply"} => todo \union batch \subseteq DOMAIN run[r].diffs,
           pc \in {"apply", "delete"} =>
               flock' = r /\ \A p \in batch \union target : ~ConflictFor(p),
           Probed(r)'
    PROVE  Own(r)
PROOF
  <1>1. Reported(r) /\ tree \in [Paths -> Objects]
    BY DEF SyncInv, TypeInv
  <1>2. /\ run'[r].pc = pc /\ run'[r].dry = run[r].dry
        /\ run'[r].out.synced = run[r].out.synced /\ run'[r].out.deleted = run[r].out.deleted
    BY DEF Goes
  <1>3. Did(r, "write")' = Did(r, "write") /\ Did(r, "delete")' = Did(r, "delete")
    BY DEF Did
  <1>4. run[r].pc # "killed"
    BY DEF UnderWay
  <1>5. Reported(r)'
    BY <1>1, <1>2, <1>3, <1>4 DEF Reported
  <1>6. /\ tree' \in [Paths -> Objects] /\ (tree' = tree \/ flock = r)
        /\ did \subseteq did' /\ \A e \in did' \ did : e[1] = r
    BY <1>1
  <1>7. UNCHANGED <<promoted, claimed, rejected, holds, session>>
    OBVIOUS
  <1> QED BY <1>5, <1>6, <1>7, GoesOwn

LEMMA ScanOwn ==
    ASSUME SyncInv, NEW r \in Runs, SyncResolve(r) \/ SyncHash(r) \/ SyncScanResidue(r)
    PROVE  Own(r)
PROOF
  <1>0. TypeInv /\ Scanned(r) /\ Decided(r) /\ Probed(r) /\ Reported(r) /\ tree \in [Paths -> Objects]
    BY DEF SyncInv, TypeInv
  <1>1. /\ UNCHANGED <<tree, promoted, claimed, rejected, holds, session, flock, did, fresh>>
    BY DEF SyncResolve, SyncHash, SyncScanResidue, repoVars
  <1>2. Did(r, "write")' = Did(r, "write") /\ Did(r, "delete")' = Did(r, "delete")
    BY <1>1 DEF Did
  <1>3. CASE SyncResolve(r)
    <2>1. Scanned(r)' /\ Decided(r)' /\ Probed(r)'
      BY <1>0, <1>3, ResolveGoes DEF Scanned, Decided, Probed
    <2>2. Reported(r)'
      BY <1>0, <1>2, <1>3, ResolveGoes DEF Reported
    <2>3. UnderWay(r)' => run'[r].expected \in 1..Len(promoted)
      BY <1>0, <1>3, ResolveGoes DEF UnderWay
    <2> QED BY <1>0, <1>1, <1>3, <2>1, <2>2, <2>3, ResolveGoes DEF Own
  <1>4. CASE SyncHash(r)
    <2>1. Scanned(r)' /\ Decided(r)' /\ Probed(r)'
      BY <1>0, <1>4, HashGoes DEF Scanned, Decided, Probed
    <2>2. Reported(r)'
      BY <1>0, <1>2, <1>4, HashGoes DEF Reported
    <2>3. UnderWay(r)' => run'[r].expected \in 1..Len(promoted)
      BY <1>0, <1>4, HashGoes DEF UnderWay, TypeInv
    <2> QED BY <1>0, <1>1, <1>4, <2>1, <2>2, <2>3, HashGoes DEF Own
  <1>5. CASE SyncScanResidue(r)
    <2>1. Scanned(r)' /\ Decided(r)' /\ Probed(r)'
      BY <1>0, <1>5, ScanResidueGoes DEF Scanned, Decided, Probed
    <2>2. Reported(r)'
      BY <1>0, <1>2, <1>5, ScanResidueGoes DEF Reported
    <2>3. UnderWay(r)' => run'[r].expected \in 1..Len(promoted)
      BY <1>0, <1>5, ScanResidueGoes DEF UnderWay, TypeInv
    <2> QED BY <1>0, <1>1, <1>5, <2>1, <2>2, <2>3, ScanResidueGoes DEF Own
  <1> QED BY <1>3, <1>4, <1>5

LEMMA FailsOwn ==
    ASSUME SyncInv, NEW r \in Runs, SyncFails(r), UnderWay(r),
           UNCHANGED <<tree, promoted, claimed, rejected, holds, session, did, fresh>>
    PROVE  Own(r)
PROOF
  <1>1. Goes(r, "done", {}, {}, {}, run[r].out.synced, run[r].out.deleted)
    BY FailsGoes DEF SyncInv
  <1>2. flock' = flock \/ flock \in {r, NoRun}
    BY DEF SyncFails
  <1>3. Probed(r)'
    BY <1>1 DEF Probed, Goes
  <1>4. UNCHANGED <<tree, promoted, claimed, rejected, holds, session, did>>
    OBVIOUS
  <1>5. \A q \in Runs, p \in Paths : q # r /\ <<q, p>> \in fresh => <<q, p>> \in fresh'
    OBVIOUS
  <1> QED BY <1>1, <1>2, <1>3, <1>4, <1>5, QuietOwn

LEMMA BatchOwn ==
    ASSUME SyncInv, NEW r \in Runs, NEW phase \in {"forward", "sweep"}, BeginBatch(r, phase)
    PROVE  Own(r)
PROOF
  <1>0. TypeInv /\ Scanned(r) /\ Reported(r)
    BY DEF SyncInv
  <1>1. UNCHANGED <<tree, promoted, claimed, rejected, holds, session, did, fresh>>
    BY DEF BeginBatch, repoVars
  <1>2. run[r].pc = phase /\ UnderWay(r)
    BY <1>0, BatchGoes DEF UnderWay
  <1>3. CASE SyncFails(r)
    BY <1>1, <1>2, <1>3, FailsOwn
  <1>4. ASSUME flock = NoRun, flock' = r, NEW batch \in SUBSET run[r].todo,
               Goes(r, BatchPc(phase), run[r].todo \ batch,
                    batch \ {p \in batch : ConflictFor(p)}, run[r].target,
                    run[r].out.synced, run[r].out.deleted)
        PROVE  Own(r)
    <2> DEFINE pc == BatchPc(phase)
               todo == run[r].todo \ batch
               mine == batch \ {p \in batch : ConflictFor(p)}
    <2>1. run[r].target = {} /\ ~run[r].dry /\ (phase = "forward" => run[r].todo \subseteq DOMAIN run[r].diffs)
      BY <1>0, <1>2 DEF Scanned, Reported
    <2>2. pc \in {"apply", "delete"} /\ (pc = "apply" => phase = "forward")
      BY DEF BatchPc
    <2>3. \A p \in mine \union run[r].target : ~ConflictFor(p)
      BY <2>1
    <2>4. pc \in {"forward", "apply"} => todo \union mine \subseteq DOMAIN run[r].diffs
      BY <2>1, <2>2
    <2>5. Probed(r)'
      BY <1>4, <2>1 DEF Probed, Goes
    <2>6. UNCHANGED <<tree, promoted, claimed, rejected, holds, session, did>>
      BY <1>1
    <2>7. \A q \in Runs, p \in Paths : q # r /\ <<q, p>> \in fresh => <<q, p>> \in fresh'
      BY <1>1
    <2>8. Goes(r, pc, todo, mine, run[r].target, run[r].out.synced, run[r].out.deleted)
      BY <1>4
    <2> HIDE DEF pc, todo, mine
    <2> QED BY <1>2, <1>4, <2>1, <2>2, <2>3, <2>4, <2>5, <2>6, <2>7, <2>8, QuietOwn
  <1> QED BY <1>0, <1>3, <1>4, BatchGoes

LEMMA EndsOwn ==
    ASSUME SyncInv, NEW r \in Runs, EndBatch(r) \/ ForwardEnds(r) \/ SweepEnds(r)
    PROVE  Own(r)
PROOF
  <1>0. TypeInv /\ Scanned(r) /\ Reported(r) /\ Decided(r) /\ run[r] \in Process
    BY RunTyped DEF SyncInv
  <1>1. UNCHANGED <<tree, promoted, claimed, rejected, holds, session, did, fresh>>
    BY DEF EndBatch, ForwardEnds, SweepEnds, repoVars
  <1>2. /\ run[r].pc \in {"apply", "delete", "forward", "sweep"} /\ UnderWay(r)
        /\ EndBatch(r) <=> run[r].pc \in {"apply", "delete"}
        /\ ForwardEnds(r) <=> run[r].pc = "forward"
    <2>1. CASE EndBatch(r)
      BY <2>1 DEF EndBatch, ForwardEnds, UnderWay
    <2>2. CASE ForwardEnds(r)
      BY <2>2 DEF EndBatch, ForwardEnds, UnderWay
    <2>3. CASE SweepEnds(r)
      BY <2>3 DEF EndBatch, ForwardEnds, SweepEnds, UnderWay
    <2> QED BY <2>1, <2>2, <2>3
  <1> DEFINE pc == IF EndBatch(r) THEN (IF run[r].pc = "apply" THEN "forward" ELSE "sweep")
                   ELSE IF ForwardEnds(r) THEN "sweep" ELSE "done"
             todo == IF EndBatch(r) \/ ~ForwardEnds(r) THEN run[r].todo ELSE DOMAIN run[r].residue
  <1>3. Goes(r, pc, todo, run[r].batch, run[r].target, run[r].out.synced, run[r].out.deleted)
    BY <1>0, EndsGoes
  <1>4. run[r].batch = {} /\ run[r].target = {}
    BY <1>0, <1>2 DEF Scanned, EndBatch
  <1>5. /\ pc \in {"forward", "sweep", "done"} /\ (pc = "done" \/ ~run[r].dry)
        /\ pc = "forward" => todo \union run[r].batch \subseteq DOMAIN run[r].diffs
    BY <1>0, <1>2, <1>4 DEF Scanned, Reported
  <1>6. flock' = flock \/ flock \in {r, NoRun}
    BY <1>0, <1>2 DEF Decided, ForwardEnds, SweepEnds
  <1>7. Probed(r)'
    BY <1>3, <1>4 DEF Probed, Goes
  <1>8. UNCHANGED <<tree, promoted, claimed, rejected, holds, session, did>>
    BY <1>1
  <1>9. \A q \in Runs, p \in Paths : q # r /\ <<q, p>> \in fresh => <<q, p>> \in fresh'
    BY <1>1
  <1>10. /\ pc \in {"forward", "apply", "sweep", "delete", "done"} /\ UnderWay(r)
         /\ pc = "done" \/ ~run[r].dry
         /\ pc \notin {"apply", "delete"} => run[r].batch = {} /\ run[r].target = {}
         /\ pc \in {"forward", "apply"} => todo \union run[r].batch \subseteq DOMAIN run[r].diffs
         /\ pc \in {"apply", "delete"} =>
                flock' = r /\ \A p \in run[r].batch \union run[r].target : ~ConflictFor(p)
    <2> HIDE DEF pc, todo
    <2> QED BY <1>2, <1>4, <1>5
  <1> HIDE DEF pc, todo
  <1> QED BY <1>3, <1>6, <1>7, <1>8, <1>9, <1>10, QuietOwn

LEMMA LastOwn ==
    ASSUME SyncInv, NEW r \in Runs, SyncDryRun(r) \/ SyncKilled(r)
    PROVE  Own(r)
PROOF
  <1>0. TypeInv /\ Scanned(r) /\ Reported(r) /\ Decided(r) /\ Probed(r)
    BY DEF SyncInv
  <1>1. UNCHANGED <<tree, promoted, claimed, rejected, holds, session, did, fresh>>
    BY DEF SyncDryRun, SyncKilled, repoVars
  <1>2. tree' \in [Paths -> Objects]
    BY <1>0, <1>1 DEF TypeInv
  <1>3. Did(r, "write")' = Did(r, "write") /\ Did(r, "delete")' = Did(r, "delete")
    BY <1>1 DEF Did
  <1>4. CASE SyncDryRun(r)
    <2>1. run[r].pc = "dry" /\ UnderWay(r)
      BY <1>0, <1>4, DryRunGoes DEF UnderWay
    <2>2. CASE SyncFails(r)
      BY <1>1, <2>1, <2>2, FailsOwn
    <2>3. CASE ~SyncFails(r)
      <3>1. Scanned(r)' /\ Decided(r)' /\ Probed(r)'
        BY <1>0, <1>4, <2>1, <2>3, DryRunGoes DEF Scanned, Decided, Probed
      <3>2. Reported(r)'
        BY <1>0, <1>3, <1>4, <2>1, <2>3, DryRunGoes DEF Reported
      <3>3. ~UnderWay(r)'
        BY <1>0, <1>4, <2>3, DryRunGoes DEF UnderWay
      <3> QED BY <1>0, <1>1, <1>2, <1>4, <2>3, <3>1, <3>2, <3>3, DryRunGoes DEF Own
    <2> QED BY <2>2, <2>3
  <1>5. CASE SyncKilled(r)
    <2>1. Scanned(r)' /\ Decided(r)' /\ Probed(r)'
      BY <1>0, <1>5, KilledGoes DEF Scanned, Decided, Probed
    <2>2. Reported(r)'
      BY <1>0, <1>5, KilledGoes DEF Reported
    <2>3. ~UnderWay(r)'
      BY <1>0, <1>5, KilledGoes DEF UnderWay
    <2>4. flock' = flock \/ flock \in {r, NoRun}
      BY <1>5 DEF SyncKilled
    <2> QED BY <1>0, <1>1, <1>2, <1>5, <2>1, <2>2, <2>3, <2>4, KilledGoes DEF Own
  <1> QED BY <1>4, <1>5

LEMMA ProbeOwn ==
    ASSUME SyncInv, NEW r \in Runs, SyncProbe(r)
    PROVE  Own(r)
PROOF
  <1>0. /\ TypeInv /\ Scanned(r) /\ Reported(r) /\ Decided(r)
        /\ run[r].batch \subseteq Paths /\ tree \in [Paths -> Objects]
    BY RunTyped DEF SyncInv, TypeInv
  <1>1. UNCHANGED <<tree, promoted, claimed, rejected, holds, session, did>> /\ flock' = flock
    BY DEF SyncProbe, repoVars
  <1>2. PICK p \in run[r].batch :
           \/ /\ fresh' = fresh
              /\ Goes(r, "apply", run[r].todo, run[r].batch \ {p}, {},
                      run[r].out.synced, run[r].out.deleted)
           \/ /\ ~TargetMoved(run[r].diffs[p], tree[p]) /\ fresh' = fresh \ {<<r, p>>}
              /\ Goes(r, "apply", run[r].todo, run[r].batch \ {p}, {p},
                      run[r].out.synced, run[r].out.deleted)
    BY <1>0, ProbeGoes
  <1>3. /\ run[r].pc = "apply" /\ UnderWay(r) /\ ~run[r].dry /\ flock = r
        /\ run[r].todo \union run[r].batch \subseteq DOMAIN run[r].diffs
        /\ \A q \in run[r].batch : ~ConflictFor(q)
    BY <1>0, ProbeGoes DEF UnderWay, Scanned, Reported, Decided
  <1>4. CASE /\ fresh' = fresh
             /\ Goes(r, "apply", run[r].todo, run[r].batch \ {p}, {},
                     run[r].out.synced, run[r].out.deleted)
    <2>1. Probed(r)'
      BY <1>4 DEF Probed, Goes
    <2>2. \A q \in Runs, x \in Paths : q # r /\ <<q, x>> \in fresh => <<q, x>> \in fresh'
      BY <1>4
    <2> DEFINE batch == run[r].batch \ {p}
    <2>3. /\ Goes(r, "apply", run[r].todo, batch, {}, run[r].out.synced, run[r].out.deleted)
          /\ run[r].todo \union batch \subseteq DOMAIN run[r].diffs
          /\ \A q \in batch \union {} : ~ConflictFor(q)
      BY <1>3, <1>4
    <2> HIDE DEF batch
    <2> QED BY <1>1, <1>3, <2>1, <2>2, <2>3, QuietOwn
  <1>5. CASE /\ ~TargetMoved(run[r].diffs[p], tree[p]) /\ fresh' = fresh \ {<<r, p>>}
             /\ Goes(r, "apply", run[r].todo, run[r].batch \ {p}, {p},
                     run[r].out.synced, run[r].out.deleted)
    <2>1. tree[p].blob = run[r].diffs[p].observed
      <3>1. p \in DOMAIN run[r].diffs
        BY <1>3
      <3>2. run[r].diffs[p].state = "missing" => run[r].diffs[p].observed = NoBlob
        BY <1>0, <3>1 DEF Scanned
      <3>3. Nothing.blob = NoBlob
        BY DEF Nothing
      <3> QED BY <1>5, <3>2, <3>3 DEF TargetMoved
    <2>2. Probed(r)'
      BY <1>1, <1>5, <2>1 DEF Probed, Goes
    <2>3. \A q \in Runs, x \in Paths : q # r /\ <<q, x>> \in fresh => <<q, x>> \in fresh'
      BY <1>5
    <2> DEFINE batch == run[r].batch \ {p}
    <2>4. /\ Goes(r, "apply", run[r].todo, batch, {p}, run[r].out.synced, run[r].out.deleted)
          /\ run[r].todo \union batch \subseteq DOMAIN run[r].diffs
          /\ \A q \in batch \union {p} : ~ConflictFor(q)
      BY <1>3, <1>5
    <2> HIDE DEF batch
    <2> QED BY <1>1, <1>3, <2>2, <2>3, <2>4, QuietOwn
  <1> QED BY <1>2, <1>4, <1>5

LEMMA ProbeResidueOwn ==
    ASSUME SyncInv, NEW r \in Runs, SyncProbeResidue(r)
    PROVE  Own(r)
PROOF
  <1>0. /\ TypeInv /\ Scanned(r) /\ Reported(r) /\ Decided(r)
        /\ run[r].batch \subseteq Paths /\ tree \in [Paths -> Objects]
    BY RunTyped DEF SyncInv, TypeInv
  <1>1. UNCHANGED <<tree, promoted, claimed, rejected, holds, session, did>> /\ flock' = flock
    BY DEF SyncProbeResidue, repoVars
  <1>2. PICK p \in run[r].batch :
           \/ /\ fresh' = fresh
              /\ Goes(r, "delete", run[r].todo, run[r].batch \ {p}, {},
                      run[r].out.synced, run[r].out.deleted)
           \/ /\ tree[p].blob = run[r].residue[p] /\ fresh' = fresh \ {<<r, p>>}
              /\ Goes(r, "delete", run[r].todo, run[r].batch \ {p}, {p},
                      run[r].out.synced, run[r].out.deleted)
    BY <1>0, ProbeResidueGoes
  <1>3. /\ run[r].pc = "delete" /\ UnderWay(r) /\ ~run[r].dry /\ flock = r
        /\ \A q \in run[r].batch : ~ConflictFor(q)
    BY <1>0, ProbeResidueGoes DEF UnderWay, Reported, Decided
  <1> DEFINE batch == run[r].batch \ {p}
  <1>4. CASE /\ fresh' = fresh
             /\ Goes(r, "delete", run[r].todo, batch, {}, run[r].out.synced, run[r].out.deleted)
    <2>1. Probed(r)'
      BY <1>4 DEF Probed, Goes
    <2>2. \A q \in Runs, x \in Paths : q # r /\ <<q, x>> \in fresh => <<q, x>> \in fresh'
      BY <1>4
    <2>3. \A q \in batch \union {} : ~ConflictFor(q)
      BY <1>3, <1>4
    <2> HIDE DEF batch
    <2> QED BY <1>1, <1>3, <1>4, <2>1, <2>2, <2>3, QuietOwn
  <1>5. CASE /\ tree[p].blob = run[r].residue[p] /\ fresh' = fresh \ {<<r, p>>}
             /\ Goes(r, "delete", run[r].todo, batch, {p}, run[r].out.synced, run[r].out.deleted)
    <2>1. Probed(r)'
      BY <1>1, <1>5 DEF Probed, Goes
    <2>2. \A q \in Runs, x \in Paths : q # r /\ <<q, x>> \in fresh => <<q, x>> \in fresh'
      BY <1>5
    <2>3. \A q \in batch \union {p} : ~ConflictFor(q)
      BY <1>3, <1>5
    <2> HIDE DEF batch
    <2> QED BY <1>1, <1>3, <1>5, <2>1, <2>2, <2>3, QuietOwn
  <1> QED BY <1>2, <1>4, <1>5

LEMMA DidGrows ==
    ASSUME NEW r, NEW p, NEW how \in {"write", "delete"}, NEW x, did' = did \union {<<r, p, how, x>>}
    PROVE  /\ Did(r, how)' = Did(r, how) \union {p}
           /\ \A other \in {"write", "delete"} : other # how => Did(r, other)' = Did(r, other)
           /\ did \subseteq did' /\ \A e \in did' \ did : e[1] = r
PROOF
  <1> DEFINE n == <<r, p, how, x>>
  <1>0. n[1] = r /\ n[2] = p /\ n[3] = how
    OBVIOUS
  <1> HIDE DEF n
  <1>1. did' = did \union {n}
    BY DEF n
  <1>2. {d \in did' : d[1] = r /\ d[3] = how} = {d \in did : d[1] = r /\ d[3] = how} \union {n}
    BY <1>0, <1>1
  <1>3. Did(r, how)' = Did(r, how) \union {p}
    BY <1>0, <1>2 DEF Did
  <1>4. ASSUME NEW other, other # how PROVE Did(r, other)' = Did(r, other)
    <2>1. {d \in did' : d[1] = r /\ d[3] = other} = {d \in did : d[1] = r /\ d[3] = other}
      BY <1>0, <1>1, <1>4
    <2> QED BY <2>1 DEF Did
  <1>5. did \subseteq did' /\ \A e \in did' \ did : e[1] = r
    BY <1>0, <1>1
  <1> QED BY <1>3, <1>4, <1>5

LEMMA PublishOwn ==
    ASSUME SyncInv, NEW r \in Runs, SyncPublish(r)
    PROVE  Own(r)
PROOF
  <1>0. /\ TypeInv /\ Scanned(r) /\ Reported(r) /\ Decided(r)
        /\ run[r].target \subseteq Paths /\ tree \in [Paths -> Objects]
    BY RunTyped DEF SyncInv, TypeInv
  <1>1. UNCHANGED <<promoted, claimed, rejected, holds, session>> /\ fresh' = fresh
    BY DEF SyncPublish, repoVars
  <1>2. PICK p \in run[r].target :
           /\ tree' = [tree EXCEPT ![p] = Integration(run[r].expected)[p]]
           /\ did' = did \union {<<r, p, "write", tree[p]>>}
           /\ \/ /\ flock' = flock
                 /\ Goes(r, "apply", run[r].todo, run[r].batch, {},
                         run[r].out.synced \union {p}, run[r].out.deleted)
              \/ /\ flock' = NoRun
                 /\ Goes(r, "done", {}, {}, {},
                         run[r].out.synced \union {p}, run[r].out.deleted)
    BY <1>0, PublishGoes
  <1>3. /\ run[r].pc = "apply" /\ UnderWay(r) /\ ~run[r].dry /\ flock = r
        /\ run[r].todo \union run[r].batch \subseteq DOMAIN run[r].diffs
        /\ \A q \in run[r].batch : ~ConflictFor(q)
        /\ run[r].out.synced = Did(r, "write") /\ run[r].out.deleted = Did(r, "delete")
    BY <1>0, PublishGoes DEF UnderWay, Scanned, Reported, Decided
  <1>4. tree' \in [Paths -> Objects]
    <2>1. Integration(run[r].expected)[p] \in Objects
      BY <1>0, <1>3 DEF TypeInv, Integration
    <2> QED BY <1>0, <1>2, <2>1
  <1>5. /\ Did(r, "write")' = Did(r, "write") \union {p} /\ Did(r, "delete")' = Did(r, "delete")
        /\ did \subseteq did' /\ \A e \in did' \ did : e[1] = r
    BY <1>2, DidGrows
  <1>6. \A q \in Runs, x \in Paths : q # r /\ <<q, x>> \in fresh => <<q, x>> \in fresh'
    BY <1>1
  <1> DEFINE synced == run[r].out.synced \union {p}
             deleted == run[r].out.deleted
  <1>7. ASSUME NEW pc \in {"apply", "done"}, NEW todo, NEW batch,
               Goes(r, pc, todo, batch, {}, synced, deleted)
        PROVE  Probed(r)' /\ Reported(r)'
    <2>1. /\ run'[r].pc = pc /\ run'[r].dry = run[r].dry /\ run'[r].target = {}
          /\ run'[r].out.synced = synced /\ run'[r].out.deleted = deleted
      BY <1>7 DEF Goes
    <2>2. Probed(r)'
      BY <2>1 DEF Probed
    <2>3. Reported(r)'
      BY <1>3, <1>5, <2>1 DEF Reported
    <2> QED BY <2>2, <2>3
  <1>8. CASE flock' = flock /\ Goes(r, "apply", run[r].todo, run[r].batch, {}, synced, deleted)
    <2>1. Probed(r)' /\ Reported(r)' /\ \A q \in run[r].batch \union {} : ~ConflictFor(q)
      BY <1>3, <1>7, <1>8
    <2> HIDE DEF synced, deleted
    <2> QED BY <1>1, <1>3, <1>4, <1>5, <1>6, <1>8, <2>1, GoesOwn
  <1>9. CASE flock' = NoRun /\ Goes(r, "done", {}, {}, {}, synced, deleted)
    <2>1. Probed(r)' /\ Reported(r)'
      BY <1>7, <1>9
    <2> HIDE DEF synced, deleted
    <2> QED BY <1>1, <1>3, <1>4, <1>5, <1>6, <1>9, <2>1, GoesOwn
  <1> QED BY <1>2, <1>8, <1>9

LEMMA RemoveOwn ==
    ASSUME SyncInv, NEW r \in Runs, SyncRemove(r)
    PROVE  Own(r)
PROOF
  <1>0. /\ TypeInv /\ Scanned(r) /\ Reported(r) /\ Decided(r)
        /\ run[r].target \subseteq Paths /\ tree \in [Paths -> Objects]
    BY RunTyped DEF SyncInv, TypeInv
  <1>1. UNCHANGED <<promoted, claimed, rejected, holds, session>> /\ fresh' = fresh /\ flock' = flock
    BY DEF SyncRemove, repoVars
  <1>2. PICK p \in run[r].target :
           /\ tree' = [tree EXCEPT ![p] = Nothing]
           /\ did' = did \union {<<r, p, "delete", tree[p]>>}
           /\ Goes(r, "delete", run[r].todo, run[r].batch, {},
                   run[r].out.synced, run[r].out.deleted \union {p})
    BY <1>0, RemoveGoes
  <1>3. /\ run[r].pc = "delete" /\ UnderWay(r) /\ ~run[r].dry /\ flock = r
        /\ \A q \in run[r].batch \union {} : ~ConflictFor(q)
        /\ run[r].out.synced = Did(r, "write") /\ run[r].out.deleted = Did(r, "delete")
    BY <1>0, RemoveGoes DEF UnderWay, Reported, Decided
  <1>4. tree' \in [Paths -> Objects]
    BY <1>0, <1>2 DEF Objects
  <1>5. /\ Did(r, "delete")' = Did(r, "delete") \union {p} /\ Did(r, "write")' = Did(r, "write")
        /\ did \subseteq did' /\ \A e \in did' \ did : e[1] = r
    BY <1>2, DidGrows
  <1>6. \A q \in Runs, x \in Paths : q # r /\ <<q, x>> \in fresh => <<q, x>> \in fresh'
    BY <1>1
  <1> DEFINE synced == run[r].out.synced
             deleted == run[r].out.deleted \union {p}
  <1>7. /\ run'[r].pc = "delete" /\ run'[r].dry = run[r].dry /\ run'[r].target = {}
        /\ run'[r].out.synced = synced /\ run'[r].out.deleted = deleted
    BY <1>2 DEF Goes
  <1>8. Probed(r)'
    BY <1>7 DEF Probed
  <1>9. Reported(r)'
    BY <1>3, <1>5, <1>7 DEF Reported
  <1>10. Goes(r, "delete", run[r].todo, run[r].batch, {}, synced, deleted)
    BY <1>2
  <1>11. UNCHANGED <<promoted, claimed, rejected, holds, session>>
    BY <1>1
  <1> HIDE DEF synced, deleted
  <1> QED BY <1>1, <1>3, <1>4, <1>5, <1>6, <1>8, <1>9, <1>10, <1>11, GoesOwn

LEMMA RunStep ==
    ASSUME SyncInv, NEW r \in Runs, SyncStep(r) \/ SyncKilled(r)
    PROVE  SyncInv'
PROOF
  <1>1. CASE SyncStageFails(r) \/ SyncRemoveFails(r)
    <2>1. SyncFails(r) /\ UnderWay(r)
          /\ UNCHANGED <<tree, promoted, claimed, rejected, holds, session, did, fresh>>
      BY <1>1 DEF SyncStageFails, SyncRemoveFails, UnderWay, repoVars
    <2> QED BY <2>1, FailsOwn, OwnKeeps
  <1>2. CASE SyncResolve(r) \/ SyncHash(r) \/ SyncScanResidue(r)
    BY <1>2, ScanOwn, OwnKeeps
  <1>3. CASE SyncForward(r) \/ SyncSweep(r)
    <2>1. BeginBatch(r, "forward") \/ BeginBatch(r, "sweep")
      BY <1>3 DEF SyncForward, SyncSweep
    <2> QED BY <2>1, BatchOwn, OwnKeeps
  <1>4. CASE SyncProbe(r)
    BY <1>4, ProbeOwn, OwnKeeps
  <1>5. CASE SyncPublish(r)
    BY <1>5, PublishOwn, OwnKeeps
  <1>6. CASE SyncProbeResidue(r)
    BY <1>6, ProbeResidueOwn, OwnKeeps
  <1>7. CASE SyncRemove(r)
    BY <1>7, RemoveOwn, OwnKeeps
  <1>8. CASE ForwardEnds(r) \/ SweepEnds(r) \/ EndBatch(r)
    BY <1>8, EndsOwn, OwnKeeps
  <1>9. CASE SyncDryRun(r) \/ SyncKilled(r)
    BY <1>9, LastOwn, OwnKeeps
  <1> QED BY <1>1, <1>2, <1>3, <1>4, <1>5, <1>6, <1>7, <1>8, <1>9 DEF SyncStep

------------------------------------------------------------------------------
(* A step of anybody else takes no decision back while a run has the       *)
(* flock, and marks what it writes.                                        *)
LEMMA OthersKeep ==
    ASSUME SyncInv, UNCHANGED <<flock, run, did>>,
           tree' \in [Paths -> Objects],
           promoted' \in Seq([Paths -> Objects]), Len(promoted) <= Len(promoted'),
           rejected' \in Seq(Candidates), claimed' \subseteq Candidates,
           holds' \subseteq [target : Paths \union {Dir}, owner : Owners, lapsed : BOOLEAN],
           session' \in [Owners -> {"alive", "dead", "unknown"}],
           flock # NoRun => \A p \in Paths : ConflictFor(p)' => ConflictFor(p),
           fresh \subseteq fresh',
           \A r \in Runs : \A p \in run[r].target : tree'[p] = tree[p] \/ <<r, p>> \in fresh'
    PROVE  SyncInv'
PROOF
  <1>0. TypeInv /\ NoRun \notin Runs /\ Len(promoted) \in Nat /\ Len(promoted') \in Nat
    BY SyncAssumption DEF SyncInv, TypeInv
  <1>1. TypeInv'
    <2>1. ASSUME NEW r \in Runs, UnderWay(r)' PROVE run'[r].expected \in 1..Len(promoted')
      <3>1. run[r].expected \in 1..Len(promoted)
        BY <1>0, <2>1 DEF TypeInv, UnderWay
      <3> QED BY <1>0, <3>1
    <2>2. run' \in [Runs -> Process]
      BY <1>0 DEF TypeInv
    <2> QED BY <2>1, <2>2 DEF TypeInv
  <1>2. ASSUME NEW r \in Runs PROVE Scanned(r)' /\ Decided(r)' /\ Probed(r)' /\ Reported(r)'
    <2>0. /\ run'[r] = run[r] /\ flock' = flock /\ Scanned(r) /\ Decided(r) /\ Probed(r) /\ Reported(r)
          /\ run[r].target \subseteq Paths /\ run[r].batch \subseteq Paths
      BY <1>0, RunTyped DEF SyncInv
    <2>1. Scanned(r)'
      BY <2>0 DEF Scanned
    <2>2. Decided(r)'
      BY <1>0, <2>0 DEF Decided
    <2>3. Probed(r)'
      BY <2>0 DEF Probed
    <2>4. Reported(r)'
      BY <2>0 DEF Reported, Did
    <2> QED BY <2>1, <2>2, <2>3, <2>4
  <1> QED BY <1>1, <1>2 DEF SyncInv

LEMMA HoldsStep ==
    ASSUME SyncInv, TakeHold \/ ReleaseHold \/ HoldLapses \/ SessionDies
    PROVE  SyncInv'
PROOF
  <1> DEFINE Hold == [target : Paths \union {Dir}, owner : Owners, lapsed : BOOLEAN]
  <1>0. /\ TypeInv /\ tree \in [Paths -> Objects] /\ promoted \in Seq([Paths -> Objects])
        /\ Len(promoted) \in Nat /\ rejected \in Seq(Candidates) /\ claimed \subseteq Candidates
        /\ holds \subseteq Hold /\ session \in [Owners -> {"alive", "dead", "unknown"}]
    BY DEF SyncInv, TypeInv
  <1>1. UNCHANGED <<tree, promoted, rejected, claimed, flock, run, did, fresh>>
    BY DEF TakeHold, ReleaseHold, HoldLapses, SessionDies, repoVars
  <1>2. holds' \subseteq Hold /\ session' \in [Owners -> {"alive", "dead", "unknown"}]
    <2>1. CASE TakeHold
      <3>1. PICK t \in Paths \union {Dir}, o \in Owners :
               /\ holds' = {h \in holds : Live(h) \/ ~Overlaps(h, t)}
                              \union {[target |-> t, owner |-> o, lapsed |-> FALSE]}
               /\ session' = session
        BY <2>1 DEF TakeHold
      <3>2. [target |-> t, owner |-> o, lapsed |-> FALSE] \in Hold
        OBVIOUS
      <3> HIDE DEF Hold
      <3> QED BY <1>0, <3>1, <3>2
    <2>2. CASE ReleaseHold
      BY <1>0, <2>2 DEF ReleaseHold
    <2>3. CASE HoldLapses
      BY <1>0, <2>3 DEF HoldLapses
    <2>4. CASE SessionDies
      BY <1>0, <2>4 DEF SessionDies
    <2> QED BY <2>1, <2>2, <2>3, <2>4
  <1>3. ASSUME flock # NoRun, NEW p \in Paths, ConflictFor(p)' PROVE ConflictFor(p)
    <2>1. CASE TakeHold \/ ReleaseHold
      BY <1>3, <2>1 DEF TakeHold, ReleaseHold
    <2>2. CASE Claimants(p)' # {}
      BY <1>1, <2>2 DEF ConflictFor, Claimants
    <2>3. CASE HoldLapses /\ Claimants(p)' = {}
      <3>1. PICK h \in holds :
               /\ ~h.lapsed /\ session' = session
               /\ holds' = (holds \ {h}) \union {[h EXCEPT !.lapsed = TRUE]}
        BY <2>3 DEF HoldLapses
      <3>2. PICK g \in holds' : HoldRefuses(g, p)'
        BY <1>3, <2>3 DEF ConflictFor
      <3>3. CASE g \in holds
        BY <3>1, <3>2, <3>3 DEF ConflictFor, HoldRefuses, HoldCovers, Live
      <3>4. CASE g = [h EXCEPT !.lapsed = TRUE]
        <4>1. h \in Hold
          BY <1>0
        <4>2. g.target = h.target /\ g.owner = h.owner /\ g.lapsed
          BY <3>4, <4>1
        <4>3. HoldRefuses(h, p)
          BY <3>1, <3>2, <4>2 DEF HoldRefuses, HoldCovers, Live
        <4> QED BY <4>3 DEF ConflictFor
      <3> QED BY <3>1, <3>3, <3>4
    <2>4. CASE SessionDies /\ Claimants(p)' = {}
      <3>1. PICK o \in Owners : session' = [session EXCEPT ![o] = "dead"] /\ holds' = holds
        BY <2>4 DEF SessionDies
      <3>2. PICK g \in holds : HoldRefuses(g, p)'
        BY <1>3, <2>4, <3>1 DEF ConflictFor
      <3>3. g.owner \in Owners
        BY <1>0
      <3>4. session'[g.owner] = "dead" \/ session'[g.owner] = session[g.owner]
        BY <1>0, <3>1, <3>3
      <3>5. HoldRefuses(g, p)
        BY <3>2, <3>4 DEF HoldRefuses, HoldCovers, Live
      <3> QED BY <3>5 DEF ConflictFor
    <2> QED BY <2>1, <2>2, <2>3, <2>4
  <1>4. /\ tree' \in [Paths -> Objects] /\ promoted' \in Seq([Paths -> Objects])
        /\ Len(promoted) <= Len(promoted') /\ rejected' \in Seq(Candidates)
        /\ claimed' \subseteq Candidates /\ fresh \subseteq fresh'
        /\ UNCHANGED <<flock, run, did>>
        /\ \A r \in Runs : \A p \in run[r].target : tree'[p] = tree[p] \/ <<r, p>> \in fresh'
    BY <1>0, <1>1
  <1>5. flock # NoRun => \A p \in Paths : ConflictFor(p)' => ConflictFor(p)
    BY <1>3
  <1> QED BY <1>2, <1>4, <1>5, OthersKeep

LEMMA RepoStep ==
    ASSUME SyncInv, Write \/ Submit \/ Bootstrap \/ Promote \/ ReleaseClaim \/ HeadMoves
    PROVE  SyncInv'
PROOF
  <1>0. /\ TypeInv /\ tree \in [Paths -> Objects] /\ promoted \in Seq([Paths -> Objects])
        /\ Len(promoted) \in Nat /\ rejected \in Seq(Candidates) /\ claimed \subseteq Candidates
        /\ holds \subseteq [target : Paths \union {Dir}, owner : Owners, lapsed : BOOLEAN]
        /\ session \in [Owners -> {"alive", "dead", "unknown"}]
    BY DEF SyncInv, TypeInv
  <1>1. UNCHANGED <<holds, session, flock, run, did>>
    BY DEF Write, Submit, Bootstrap, Promote, ReleaseClaim, HeadMoves, repoVars
  <1>2. /\ tree' \in [Paths -> Objects] /\ fresh \subseteq fresh'
        /\ \A r \in Runs : \A p \in run[r].target : tree'[p] = tree[p] \/ <<r, p>> \in fresh'
    <2>1. CASE Write
      <3>1. PICK p \in Paths, o \in Leaves :
               /\ tree' = [tree EXCEPT ![p] = o]
               /\ fresh' = fresh \union {<<r, p>> : r \in {q \in Runs : p \in run[q].target}}
        BY <2>1 DEF Write
      <3>2. o \in Objects
        BY SyncAssumption
      <3>3. tree' \in [Paths -> Objects] /\ fresh \subseteq fresh'
        BY <1>0, <3>1, <3>2
      <3>4. ASSUME NEW r \in Runs, NEW x \in run[r].target
            PROVE  tree'[x] = tree[x] \/ <<r, x>> \in fresh'
        <4>1. x \in Paths
          BY <1>0, RunTyped
        <4>2. CASE x # p
          BY <1>0, <3>1, <4>1, <4>2
        <4>3. CASE x = p
          BY <3>1, <4>3
        <4> QED BY <4>2, <4>3
      <3> QED BY <3>3, <3>4
    <2>2. CASE ~Write
      BY <1>0, <2>2 DEF Submit, Bootstrap, Promote, ReleaseClaim, HeadMoves
    <2> QED BY <2>1, <2>2
  <1>3. promoted' \in Seq([Paths -> Objects]) /\ Len(promoted) <= Len(promoted')
    <2>1. CASE Bootstrap
      BY <1>0, <2>1, SyncAssumption DEF Bootstrap
    <2>2. CASE Promote
      <3>1. PICK k \in claimed :
               /\ promoted # <<>>
               /\ promoted' = Append(promoted,
                      [CurrentTree EXCEPT ![Proposal[k].path] = Proposal[k].object])
        BY <2>2 DEF Promote
      <3>2. CurrentTree \in [Paths -> Objects]
        BY <1>0, <3>1 DEF CurrentTree, Integration
      <3>3. Proposal[k].object \in Objects
        BY <1>0, SyncAssumption
      <3>4. [CurrentTree EXCEPT ![Proposal[k].path] = Proposal[k].object] \in [Paths -> Objects]
        BY <3>2, <3>3
      <3> HIDE DEF CurrentTree
      <3> QED BY <1>0, <3>1, <3>4
    <2>3. CASE ~Bootstrap /\ ~Promote
      BY <1>0, <2>3 DEF Write, Submit, ReleaseClaim, HeadMoves, repoVars
    <2> QED BY <2>1, <2>2, <2>3
  <1>4. rejected' \in Seq(Candidates) /\ claimed' \subseteq Candidates
    <2>1. CASE Submit
      <3>1. PICK k \in Candidates :
               \/ rejected' = Append(rejected, k) /\ claimed' = claimed
               \/ rejected' = rejected /\ claimed' = claimed \union {k}
        BY <2>1 DEF Submit
      <3>2. Append(rejected, k) \in Seq(Candidates)
        BY <1>0
      <3> QED BY <1>0, <3>1, <3>2
    <2>2. CASE ~Submit
      BY <1>0, <2>2 DEF Write, Bootstrap, Promote, ReleaseClaim, HeadMoves, repoVars
    <2> QED BY <2>1, <2>2
  <1>5. ASSUME flock # NoRun, NEW p \in Paths PROVE ConflictFor(p)' => ConflictFor(p)
    <2>1. claimed' = claimed
      BY <1>5 DEF Write, Submit, Bootstrap, Promote, ReleaseClaim, HeadMoves, repoVars
    <2> QED BY <1>1, <2>1, ConflictsStay
  <1>6. UNCHANGED <<flock, run, did>>
        /\ holds' \subseteq [target : Paths \union {Dir}, owner : Owners, lapsed : BOOLEAN]
        /\ session' \in [Owners -> {"alive", "dead", "unknown"}]
    BY <1>0, <1>1
  <1> QED BY <1>2, <1>3, <1>4, <1>5, <1>6, OthersKeep

LEMMA SyncNext ==
    SyncInv /\ [Next]_vars => SyncInv'
PROOF
  <1> SUFFICES ASSUME SyncInv, [Next]_vars PROVE SyncInv'
    OBVIOUS
  <1>1. CASE \E r \in Runs : SyncStep(r) \/ SyncKilled(r)
    BY <1>1, RunStep
  <1>2. CASE TakeHold \/ ReleaseHold \/ HoldLapses \/ SessionDies
    BY <1>2, HoldsStep
  <1>3. CASE Write \/ Submit \/ Bootstrap \/ Promote \/ ReleaseClaim \/ HeadMoves
    BY <1>3, RepoStep
  <1>4. CASE UNCHANGED vars
    <2>1. UNCHANGED <<tree, promoted, claimed, rejected, holds, session, flock, run, did, fresh>>
      BY <1>4 DEF vars, repoVars
    <2>2. /\ tree \in [Paths -> Objects] /\ promoted \in Seq([Paths -> Objects])
          /\ Len(promoted) \in Nat /\ rejected \in Seq(Candidates) /\ claimed \subseteq Candidates
          /\ holds \subseteq [target : Paths \union {Dir}, owner : Owners, lapsed : BOOLEAN]
          /\ session \in [Owners -> {"alive", "dead", "unknown"}]
      BY DEF SyncInv, TypeInv
    <2>3. \A p \in Paths : ConflictFor(p)' = ConflictFor(p)
      BY <2>1, ConflictsStay
    <2>4. /\ tree' \in [Paths -> Objects] /\ promoted' \in Seq([Paths -> Objects])
          /\ Len(promoted) <= Len(promoted') /\ rejected' \in Seq(Candidates)
          /\ claimed' \subseteq Candidates /\ fresh \subseteq fresh'
          /\ UNCHANGED <<flock, run, did>>
          /\ holds' \subseteq [target : Paths \union {Dir}, owner : Owners, lapsed : BOOLEAN]
          /\ session' \in [Owners -> {"alive", "dead", "unknown"}]
          /\ \A r \in Runs : \A p \in run[r].target : tree'[p] = tree[p] \/ <<r, p>> \in fresh'
      BY <2>1, <2>2
    <2> QED BY <2>3, <2>4, OthersKeep
  <1> QED BY <1>1, <1>2, <1>3, <1>4 DEF Next

LEMMA SyncStarts ==
    Init => SyncInv
PROOF
  <1> SUFFICES ASSUME Init PROVE SyncInv
    OBVIOUS
  <1>0. run = [r \in Runs |-> Idle] /\ did = {}
    BY DEF Init
  <1>1. \A r \in Runs : run[r] = Idle
    BY <1>0
  <1>2. /\ Idle.pc = "idle" /\ ~Idle.dry /\ Idle.batch = {} /\ Idle.target = {} /\ Idle.diffs = <<>>
        /\ Idle.out.synced = {} /\ Idle.out.deleted = {}
    BY DEF Idle, Outcome
  <1>3. TypeInv
    <2>1. run \in [Runs -> Process]
      BY <1>0, IdleTyped
    <2>2. promoted \in Seq([Paths -> Objects]) /\ rejected \in Seq(Candidates)
      <3>1. <<Base>> \in Seq([Paths -> Objects]) /\ <<>> \in Seq([Paths -> Objects])
        BY SyncAssumption
      <3>2. promoted \in {<<>>, <<Base>>} /\ rejected = <<>>
        BY DEF Init
      <3>3. promoted \in Seq([Paths -> Objects])
        BY <3>1, <3>2
      <3>4. rejected \in Seq(Candidates)
        BY <3>2
      <3> QED BY <3>3, <3>4
    <2>3. /\ tree \in [Paths -> Objects] /\ claimed \subseteq Candidates /\ holds = {}
          /\ session \in [Owners -> {"alive", "dead", "unknown"}]
      BY SyncAssumption DEF Init
    <2>4. \A r \in Runs : ~UnderWay(r)
      BY <1>1, <1>2 DEF UnderWay
    <2> QED BY <2>1, <2>2, <2>3, <2>4 DEF TypeInv
  <1>4. ASSUME NEW r \in Runs PROVE Scanned(r) /\ Decided(r) /\ Probed(r) /\ Reported(r)
    <2>1. Did(r, "write") = {} /\ Did(r, "delete") = {}
      BY <1>0 DEF Did
    <2>2. Scanned(r) /\ Decided(r) /\ Probed(r)
      BY <1>1, <1>2 DEF Scanned, Decided, Probed
    <2>3. Reported(r)
      BY <1>1, <1>2, <2>1 DEF Reported
    <2> QED BY <2>2, <2>3
  <1> QED BY <1>3, <1>4 DEF SyncInv

LEMMA SyncInductive ==
    Spec => []SyncInv
  BY SyncStarts, SyncNext, PTL DEF Spec

------------------------------------------------------------------------------
(* A run that ended by itself reports as written and as deleted exactly    *)
(* the files it wrote and deleted, however many batches it took and        *)
(* whichever step of the last one failed (runSync, emitSyncPartial,        *)
(* syncBatchFailed); a dry run touched nothing.                            *)
THEOREM ReportsWhatItDid ==
    Spec => []ReportIsTrue
PROOF
  <1>1. SyncInv => ReportIsTrue
    <2> SUFFICES ASSUME SyncInv, NEW r \in Runs, run[r].pc = "done"
                 PROVE  IF run[r].dry THEN Did(r, "write") \union Did(r, "delete") = {}
                        ELSE /\ run[r].out.synced = Did(r, "write")
                             /\ run[r].out.deleted = Did(r, "delete")
      BY DEF ReportIsTrue, Did
    <2>1. Reported(r)
      BY DEF SyncInv
    <2> QED BY <2>1 DEF Reported
  <1> QED BY <1>1, SyncInductive, PTL

(* Only the steps of a run that publish or remove destroy anything, and    *)
(* they do it to the path the run is at.                                   *)
LEMMA OnlyRunsDestroy ==
    ASSUME SyncInv, [Next]_vars, NEW e \in did' \ did
    PROVE  \E r \in Runs : \E p \in run[r].target :
               /\ e[1] = r /\ e[2] = p
               /\ \/ run[r].pc = "apply" /\ e[3] = "write"
                  \/ run[r].pc = "delete" /\ e[3] = "delete"
PROOF
  <1>0. TypeInv
    BY DEF SyncInv
  <1>1. PICK r \in Runs : SyncPublish(r) \/ SyncRemove(r)
    <2>1. ASSUME NEW r \in Runs, SyncStep(r) \/ SyncKilled(r), ~SyncPublish(r), ~SyncRemove(r)
          PROVE  did' = did
      <3>1. CASE SyncForward(r) \/ SyncSweep(r)
        BY <3>1 DEF SyncForward, SyncSweep, BeginBatch
      <3>2. CASE SyncResolve(r) \/ SyncHash(r) \/ SyncScanResidue(r) \/ SyncProbe(r) \/ SyncStageFails(r)
        BY <3>2 DEF SyncResolve, SyncHash, SyncScanResidue, SyncProbe, SyncStageFails
      <3>3. CASE ForwardEnds(r) \/ SyncProbeResidue(r) \/ SyncRemoveFails(r) \/ SweepEnds(r)
        BY <3>3 DEF ForwardEnds, SyncProbeResidue, SyncRemoveFails, SweepEnds
      <3>4. CASE EndBatch(r) \/ SyncDryRun(r) \/ SyncKilled(r)
        BY <3>4 DEF EndBatch, SyncDryRun, SyncKilled
      <3> QED BY <2>1, <3>1, <3>2, <3>3, <3>4 DEF SyncStep
    <2>2. CASE \/ TakeHold \/ ReleaseHold \/ HoldLapses \/ SessionDies
               \/ Write \/ Submit \/ Bootstrap \/ Promote \/ ReleaseClaim \/ HeadMoves
      BY <2>2 DEF TakeHold, ReleaseHold, HoldLapses, SessionDies,
                  Write, Submit, Bootstrap, Promote, ReleaseClaim, HeadMoves
    <2>3. CASE UNCHANGED vars
      BY <2>3 DEF vars
    <2> QED BY <2>1, <2>2, <2>3 DEF Next
  <1>2. CASE SyncPublish(r)
    <2>1. run[r].pc = "apply" /\ \E p \in run[r].target : did' = did \union {<<r, p, "write", tree[p]>>}
      BY <1>0, <1>2, PublishGoes
    <2>2. PICK p \in run[r].target : did' = did \union {<<r, p, "write", tree[p]>>}
      BY <2>1
    <2>3. e = <<r, p, "write", tree[p]>>
      BY <2>2
    <2>4. e[1] = r /\ e[2] = p /\ e[3] = "write"
      BY <2>3
    <2> QED BY <2>1, <2>4
  <1>3. CASE SyncRemove(r)
    <2>1. run[r].pc = "delete" /\ \E p \in run[r].target : did' = did \union {<<r, p, "delete", tree[p]>>}
      BY <1>0, <1>3, RemoveGoes
    <2>2. PICK p \in run[r].target : did' = did \union {<<r, p, "delete", tree[p]>>}
      BY <2>1
    <2>3. e = <<r, p, "delete", tree[p]>>
      BY <2>2
    <2>4. e[1] = r /\ e[2] = p /\ e[3] = "delete"
      BY <2>3
    <2> QED BY <2>1, <2>4
  <1> QED BY <1>1, <1>2, <1>3

(* At the moment sync replaces or removes a file, no live lease covers it, *)
(* no lease of a session that may be writing names it and no candidate has *)
(* a claim on it: what syncConflictFor decided under the op-flock          *)
(* (WithStableCoordinationState) still stands, whatever lapsed or died     *)
(* since.                                                                  *)
THEOREM HeldBytesAreSafe ==
    Spec => HeldBytesSurvive
PROOF
  <1> DEFINE A == \A e \in did' \ did :
                     /\ \A h \in holds : Live(h) => ~HoldCovers(h, e[2])
                     /\ \A h \in holds : h.target = e[2] => session[h.owner] = "dead"
                     /\ \A k \in claimed : Proposal[k].path # e[2]
  <1>1. SyncInv /\ [Next]_vars => A
    <2> SUFFICES ASSUME SyncInv, [Next]_vars, NEW e \in did' \ did
                 PROVE  /\ \A h \in holds : Live(h) => ~HoldCovers(h, e[2])
                        /\ \A h \in holds : h.target = e[2] => session[h.owner] = "dead"
                        /\ \A k \in claimed : Proposal[k].path # e[2]
      OBVIOUS
    <2>1. PICK r \in Runs : \E p \in run[r].target :
                              e[2] = p /\ run[r].pc \in {"apply", "delete"}
      BY OnlyRunsDestroy
    <2>2. ~ConflictFor(e[2])
      BY <2>1 DEF SyncInv, Decided
    <2> QED BY <2>2 DEF ConflictFor, HoldRefuses, HoldCovers, Claimants
  <1> HIDE DEF A
  <1>2. SyncInv /\ [Next]_vars => [A]_vars
    BY <1>1
  <1>3. Spec => [][A]_vars
    BY <1>2, SyncInductive, PTL DEF Spec
  <1> QED BY <1>3 DEF HeldBytesSurvive, A

(* The bytes sync destroys are the ones its scan judged or a rejection     *)
(* recorded, unless somebody wrote after the last probe (syncApply,        *)
(* syncTargetMoved, syncPublishStaged): no other order of writes, batches  *)
(* and runs loses any.                                                     *)
THEOREM LosesOnlyJudgedBytes ==
    Spec => OnlyJudgedBytesLost
PROOF
  <1> DEFINE A == \A e \in did' \ did :
                     LET r == e[1]
                         p == e[2]
                     IN  \/ <<r, p>> \in fresh
                         \/ e[3] = "delete" /\ tree[p].blob = run[r].residue[p]
                         \/ e[3] = "write" /\ tree[p].blob = run[r].diffs[p].observed
  <1>1. SyncInv /\ [Next]_vars => A
    <2> SUFFICES ASSUME SyncInv, [Next]_vars, NEW e \in did' \ did
                 PROVE  \/ <<e[1], e[2]>> \in fresh
                        \/ e[3] = "delete" /\ tree[e[2]].blob = run[e[1]].residue[e[2]]
                        \/ e[3] = "write" /\ tree[e[2]].blob = run[e[1]].diffs[e[2]].observed
      OBVIOUS
    <2>1. PICK r \in Runs : \E p \in run[r].target :
               /\ e[1] = r /\ e[2] = p
               /\ \/ run[r].pc = "apply" /\ e[3] = "write"
                  \/ run[r].pc = "delete" /\ e[3] = "delete"
      BY OnlyRunsDestroy
    <2>2. Probed(r)
      BY DEF SyncInv
    <2> QED BY <2>1, <2>2 DEF Probed
  <1> HIDE DEF A
  <1>2. SyncInv /\ [Next]_vars => [A]_vars
    BY <1>1
  <1>3. Spec => [][A]_vars
    BY <1>2, SyncInductive, PTL DEF Spec
  <1> QED BY <1>3 DEF OnlyJudgedBytesLost, A
=============================================================================
