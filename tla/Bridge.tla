------------------------------- MODULE Bridge -------------------------------
(***************************************************************************)
(* `loto pr` (internal/cli/pr.go over internal/gate/bridge.go): the        *)
(* commits of refs/loto/integration that main has not are grouped by bead, *)
(* replayed onto a branch per bead, pushed, and offered as one pull        *)
(* request per bead.  No lock is taken: several runs interleave with each  *)
(* other, with promotion, and with the people who merge, edit main and     *)
(* delete branches, and a run may die or fail at any of its steps.         *)
(*                                                                         *)
(* A commit of integration is its index there and changes one path.  A     *)
(* replayed commit copies identities and dates from its source, so a       *)
(* branch is determined by the commit of main it forked from and by the    *)
(* commits replayed on it (BuildBridge), and is that pair here.  An absent *)
(* refs/loto/integration is an empty one: both make a run that does        *)
(* nothing.                                                                *)
(***************************************************************************)
EXTENDS Naturals, Sequences, FiniteSets, SequencesExt

CONSTANTS
    Runs, Beads, Paths,
    Order,              \* the beads, sorted by id
    NoBead,             \* the trailer is missing or unusable as a ref name
    Blobs, Blob0,       \* what a path may hold; what it held at the bootstrap
    Nil,
    MaxPromotions, MaxMoves, MaxFaults

ASSUME BridgeAssumption ==
    /\ NoBead \notin Beads /\ Blob0 \in Blobs
    /\ Order \in Seq(Beads) /\ ToSet(Order) = Beads /\ Len(Order) = Cardinality(Beads)
    /\ {MaxPromotions, MaxMoves, MaxFaults} \subseteq Nat

VARIABLES
    integ,      \* refs/loto/integration: a sequence of [bead, path, from, to]
    main,       \* [id, tree, has, own]: has commits of integration are in it, own
                \* says it has others too
    branch,     \* [Beads -> Nil or [base, floor, srcs]], refs/heads/loto-pr/<bead>
    marker,     \* [Beads -> Nat], refs/loto/bridged/<bead>, 0 when absent
    remote,     \* [Beads -> Nil or a branch], the branch on the remote
    pr,         \* [Beads -> "none" | "open" | "merged"], its last pull request
    merged,     \* [Beads -> Nil or a branch], what main took from the bead's branch
    run,        \* [Runs -> the process]
    moves,      \* history: what people did
    faults      \* history: kills and failed calls

refVars == <<branch, marker>>
hubVars == <<remote, pr>>
vars == <<integ, main, refVars, hubVars, merged, run, moves, faults>>

Idle == [pc |-> "idle"]

Init ==
    /\ integ = <<>>
    /\ main = [id |-> 0, tree |-> [p \in Paths |-> Blob0], has |-> 0, own |-> FALSE]
    /\ branch = [b \in Beads |-> Nil] /\ marker = [b \in Beads |-> 0]
    /\ remote = [b \in Beads |-> Nil] /\ pr = [b \in Beads |-> "none"]
    /\ merged = [b \in Beads |-> Nil]
    /\ run = [r \in Runs |-> Idle]
    /\ moves = 0 /\ faults = 0

-----------------------------------------------------------------------------
(* Commits and trees.                                                      *)

(* applyTransitions, commit by commit: the tree of sources srcs on a base. *)
Replayed(floor, srcs) ==
    [p \in Paths |->
        LET on == {i \in DOMAIN srcs : integ[srcs[i]].path = p}
        IN  IF on = {} THEN floor[p] ELSE integ[srcs[Max(on)]].to]

Tree(br) == Replayed(br.floor, br.srcs)

(* br is an ancestor of longer, or the same commit: a commit of main is    *)
(* its id and its tree.                                                    *)
Ancestor(br, longer) ==
    br.base = longer.base /\ br.floor = longer.floor /\ IsPrefix(br.srcs, longer.srcs)

(* The place in Order of the first of a set of beads. *)
First(beads) == Min({i \in DOMAIN Order : Order[i] \in beads})

(* The commits of integration that bear a bead's trailer. *)
OfBead(b, S) == {i \in S : integ[i].bead = b}

Increasing(s) == \A i, j \in DOMAIN s : i < j => s[i] < s[j]

(* A set of commits in the order of integration. *)
InOrder(S) == CHOOSE s \in [1..Cardinality(S) -> S] : ToSet(s) = S /\ Increasing(s)

(* Seeded fault: the preimage is not checked at all. *)
StaleBaseNever(floor, pending) == FALSE

(* planStaleBase: some path does not hold, on the branch's parent, what    *)
(* integration had there before the first pending commit to touch it.      *)
StaleBase(floor, pending) ==
    \E i \in DOMAIN pending :
        LET c == integ[pending[i]]
        IN  /\ \A j \in 1..(i - 1) : integ[pending[j]].path # c.path
            /\ floor[c.path] # c.from

-----------------------------------------------------------------------------
(* PlanBridge.                                                             *)

(* cmdPR and the first read of the plan: main is resolved to a commit.     *)
(* The local main, which a run reads, and the hub's, which merges move,    *)
(* are one here: a checkout that fetches late is left out.                 *)
PRStart(r, only, dry) ==
    /\ run[r] = Idle
    /\ run' = [run EXCEPT ![r] =
                [pc |-> "log", only |-> only, dry |-> dry,
                 parent |-> [base |-> main.id, floor |-> main.tree, srcs |-> <<>>]]]
    /\ UNCHANGED <<integ, main, refVars, hubVars, merged, moves, faults>>

(* A run that has its commits, some beads planned and others to do.        *)
Planning(p, commits, todo, plan) ==
    [pc |-> "branch", dry |-> p.dry, parent |-> p.parent, commits |-> commits,
     todo |-> todo, plan |-> plan]

(* readPromotedCommits and groupByBead: main..integration, main read again *)
(* by name.  A commit without a usable bead is reported, never bridged.    *)
PRLog(r) ==
    LET commits == (main.has + 1)..Len(integ)
        beads == {b \in run[r].only : OfBead(b, commits) # {}}
    IN  /\ run[r].pc = "log"
        /\ run' = [run EXCEPT ![r] =
                    IF beads = {} THEN Idle
                    ELSE Planning(@, commits, beads, <<>>)]
        /\ UNCHANGED <<integ, main, refVars, hubVars, merged, moves, faults>>

(* planBead reads the branch of the next bead, in order of appearance.     *)
PRBranch(r) ==
    /\ run[r].pc = "branch"
    /\ \E b \in run[r].todo :
        /\ \A c \in run[r].todo :
            Min(OfBead(b, run[r].commits)) <= Min(OfBead(c, run[r].commits))
        /\ run' = [run EXCEPT ![r] =
                    [pc |-> "marker", dry |-> @.dry, parent |-> @.parent, commits |-> @.commits,
                     todo |-> @.todo \ {b}, plan |-> @.plan, at |-> b, had |-> branch[b]]]
    /\ UNCHANGED <<integ, main, refVars, hubVars, merged, moves, faults>>

Blocked == {"stale-base", "stale-branch"}

(* selectPending and the rest of planBead, from the branch already read    *)
(* and the marker m as it now is.                                          *)
Verdict(b, had, m, parent, commits) ==
    LET mine == OfBead(b, commits)
        pending == InOrder(IF m \in mine THEN {i \in mine : i > m} ELSE mine)
        onto == IF had = Nil THEN parent ELSE had
        class == \* stale-branch: it is missing; or it was merged, or is unmarked
            IF m \in mine <=> had = Nil THEN "stale-branch"
            ELSE IF pending = <<>> THEN "up-to-date"
            ELSE IF StaleBase(Tree(onto), pending) THEN "stale-base"
            ELSE "buildable"
    IN  IF class # "buildable" THEN [class |-> class]
        ELSE [class |-> class, had |-> had, marker |-> m, parent |-> onto, pending |-> pending]

(* The beads a run has yet to carry, and where it is with the first.       *)
Carry(plan) ==
    IF DOMAIN plan = {} THEN Idle
    ELSE [pc |-> IF plan[Order[First(DOMAIN plan)]].class = "up-to-date" THEN "push" ELSE "build",
          plan |-> plan]

(* planBead reads the marker and decides.  A blocked bead is reported and  *)
(* left (blockedRow); a dry run reports and stops; else the run carries    *)
(* each bead in turn, one that is up to date from its push on: it may      *)
(* still be owed that, or a pull request.                                  *)
PRMarker(r) ==
    /\ run[r].pc = "marker"
    /\ LET b == run[r].at
           verdict == Verdict(b, run[r].had, marker[b], run[r].parent, run[r].commits)
           plan == IF verdict.class \in Blocked THEN run[r].plan
                   ELSE [x \in DOMAIN run[r].plan \union {b} |->
                            IF x = b THEN verdict ELSE run[r].plan[x]]
       IN  run' = [run EXCEPT ![r] =
                    CASE @.todo # {} -> Planning(@, @.commits, @.todo, plan)
                      [] @.todo = {} /\ @.dry -> Idle
                      [] OTHER -> Carry(plan)]
    /\ UNCHANGED <<integ, main, refVars, hubVars, merged, moves, faults>>

-----------------------------------------------------------------------------
(* runPR and bridgeBead, bead after bead in sorted order.                  *)

(* The bead a run is at. *)
Bead(r) == Order[First(DOMAIN run[r].plan)]

(* The run goes on to its next bead, or reports and exits. *)
NextBead(r) ==
    run' = [run EXCEPT ![r] = Carry([b \in DOMAIN @.plan \ {Bead(r)} |-> @.plan[b]])]

(* The branch a build publishes. *)
Built(plan) == [plan.parent EXCEPT !.srcs = @ \o plan.pending]

(* Seeded fault: neither ref is compared with what the plan read.          *)
RefsStandAlways(b, plan) == TRUE

(* refWrite: create, or update from the value the plan read, in one        *)
(* transaction of both refs.                                               *)
RefsStand(b, plan) == branch[b] = plan.had /\ marker[b] = plan.marker

(* Seeded fault: the marker is written by a transaction of its own.        *)
PublishBranchFirst(b, plan) ==
    /\ branch' = [branch EXCEPT ![b] = Built(plan)]
    /\ marker' = IF branch[b] = Built(plan)
                 THEN [marker EXCEPT ![b] = Last(plan.pending)] ELSE marker

(* UpdateRefsTx: the branch, and the last source on it as the marker.      *)
Publish(b, plan) ==
    /\ branch' = [branch EXCEPT ![b] = Built(plan)]
    /\ marker' = [marker EXCEPT ![b] = Last(plan.pending)]

(* BuildBridge.  A transaction that finds another value fails, and the     *)
(* error ends the whole run.  With fails, the run ends although git did    *)
(* commit: the subprocess was killed by its timeout, or the run was.       *)
PRBuild(r, fails) ==
    LET b == Bead(r)  plan == run[r].plan[b]
    IN  /\ run[r].pc = "build"
        /\ IF RefsStand(b, plan) THEN Publish(b, plan) ELSE UNCHANGED refVars
        /\ run' = IF RefsStand(b, plan) /\ ~fails THEN [run EXCEPT ![r].pc = "push"]
                  ELSE [run EXCEPT ![r] = Idle]
        /\ fails => RefsStand(b, plan) /\ faults < MaxFaults
        /\ faults' = IF fails THEN faults + 1 ELSE faults
        /\ UNCHANGED <<integ, main, hubVars, merged, moves>>

(* Push: git sends what the local branch is now, as a fast-forward only;   *)
(* an error ends the run, and with fails it does although the remote took  *)
(* the push.                                                               *)
PRPush(r, fails) ==
    LET b == Bead(r)
        taken == /\ branch[b] # Nil
                 /\ \A old \in {remote[b]} \ {Nil} : Ancestor(old, branch[b])
    IN  /\ run[r].pc = "push"
        /\ remote' = IF taken THEN [remote EXCEPT ![b] = branch[b]] ELSE remote
        /\ run' = IF taken /\ ~fails THEN [run EXCEPT ![r].pc = "find"]
                  ELSE [run EXCEPT ![r] = Idle]
        /\ fails => taken /\ faults < MaxFaults
        /\ faults' = IF fails THEN faults + 1 ELSE faults
        /\ UNCHANGED <<integ, main, refVars, pr, merged, moves>>

(* FindPR: an open pull request is enough.                                 *)
PRFind(r) ==
    /\ run[r].pc = "find"
    /\ IF pr[Bead(r)] = "open" THEN NextBead(r)
       ELSE run' = [run EXCEPT ![r].pc = "create"]
    /\ UNCHANGED <<integ, main, refVars, hubVars, merged, moves, faults>>

(* CreatePR.  The hub refuses a second open request for the branch, and a  *)
(* branch that is gone or brings nothing to main; that too ends the run.   *)
PRCreate(r, fails) ==
    LET b == Bead(r)
        taken == pr[b] # "open" /\ remote[b] # Nil /\ remote[b] # merged[b]
    IN  /\ run[r].pc = "create"
        /\ pr' = IF taken THEN [pr EXCEPT ![b] = "open"] ELSE pr
        /\ IF taken /\ ~fails THEN NextBead(r) ELSE run' = [run EXCEPT ![r] = Idle]
        /\ fails => taken /\ faults < MaxFaults
        /\ faults' = IF fails THEN faults + 1 ELSE faults
        /\ UNCHANGED <<integ, main, refVars, remote, merged, moves>>

(* The process is killed, or a read or call fails, with nothing written.   *)
PRDies(r) ==
    /\ run[r] # Idle /\ faults < MaxFaults
    /\ run' = [run EXCEPT ![r] = Idle]
    /\ faults' = faults + 1
    /\ UNCHANGED <<integ, main, refVars, hubVars, merged, moves>>

-----------------------------------------------------------------------------
(* Promotion, the people and the hub.                                      *)

(* One candidate's commit lands on integration (Promote, see GitGate).     *)
Promote(b, p, to) ==
    LET was == Replayed([q \in Paths |-> Blob0], [i \in DOMAIN integ |-> i])[p]
    IN  /\ Len(integ) < MaxPromotions /\ to # was
        /\ integ' = Append(integ, [bead |-> b, path |-> p, from |-> was, to |-> to])
        /\ UNCHANGED <<main, refVars, hubVars, merged, run, moves, faults>>

Person == moves < MaxMoves /\ moves' = moves + 1

(* main moves by hand: neither a merge nor an edit takes a loto lease.     *)
EditMain(p, to) ==
    /\ Person /\ main.tree[p] # to
    /\ main' = [main EXCEPT !.id = @ + 1, !.tree[p] = to, !.own = TRUE]
    /\ UNCHANGED <<integ, refVars, hubVars, merged, run, faults>>

(* main is fast-forwarded to integration itself.                           *)
TakeIntegration ==
    /\ Person /\ ~main.own /\ main.has < Len(integ)
    /\ main' = [main EXCEPT !.id = @ + 1, !.has = Len(integ),
                            !.tree = Replayed([q \in Paths |-> Blob0],
                                              [i \in DOMAIN integ |-> i])]
    /\ UNCHANGED <<integ, refVars, hubVars, merged, run, faults>>

(* What main and a bead's remote branch have in common, as a tree. *)
MergeBase(b) ==
    IF merged[b] # Nil /\ Ancestor(merged[b], remote[b]) THEN Tree(merged[b])
    ELSE remote[b].floor

(* The paths a merge of the branch changes on main. *)
Changes(b) == {p \in Paths : Tree(remote[b])[p] \notin {MergeBase(b)[p], main.tree[p]}}

(* A person merges the open request, with a merge commit: git refuses one  *)
(* where both sides changed a path.  The hub may delete the branch.        *)
MergePR(b, cleanup) ==
    /\ Person /\ pr[b] = "open" /\ remote[b] # Nil
    /\ \A p \in Changes(b) : main.tree[p] = MergeBase(b)[p]
    /\ main' = [main EXCEPT !.id = @ + 1, !.own = TRUE,
                            !.tree = [p \in Paths |-> IF p \in Changes(b)
                                        THEN Tree(remote[b])[p] ELSE main.tree[p]]]
    /\ pr' = [pr EXCEPT ![b] = "merged"]
    /\ merged' = [merged EXCEPT ![b] = remote[b]]
    /\ remote' = IF cleanup THEN [remote EXCEPT ![b] = Nil] ELSE remote
    /\ UNCHANGED <<integ, refVars, run, faults>>

(* A person closes the request.                                            *)
ClosePR(b) ==
    /\ Person /\ pr[b] = "open"
    /\ pr' = [pr EXCEPT ![b] = "none"]
    /\ UNCHANGED <<integ, main, refVars, remote, merged, run, faults>>

(* git branch -D, the fix a refused bead's report prints.                  *)
DeleteBranch(b) ==
    /\ Person /\ branch[b] # Nil
    /\ branch' = [branch EXCEPT ![b] = Nil]
    /\ UNCHANGED <<integ, main, marker, hubVars, merged, run, faults>>

(* A person makes a branch of that name, of a bead never bridged.          *)
HandBranch(b) ==
    /\ Person /\ branch[b] = Nil /\ marker[b] = 0
    /\ branch' = [branch EXCEPT ![b] = [base |-> main.id, floor |-> main.tree, srcs |-> <<>>]]
    /\ UNCHANGED <<integ, main, marker, hubVars, merged, run, faults>>

-----------------------------------------------------------------------------
Next ==
    \/ \E r \in Runs :
        \/ \E only \in {Beads} \union {{b} : b \in Beads}, dry \in BOOLEAN :
              PRStart(r, only, dry)
        \/ PRLog(r) \/ PRBranch(r) \/ PRMarker(r) \/ PRFind(r) \/ PRDies(r)
        \/ \E fails \in BOOLEAN : PRBuild(r, fails) \/ PRPush(r, fails) \/ PRCreate(r, fails)
    \/ TakeIntegration
    \/ \E b \in Beads :
        \/ \E cleanup \in BOOLEAN : MergePR(b, cleanup)
        \/ ClosePR(b) \/ DeleteBranch(b) \/ HandBranch(b)
    \/ \E p \in Paths, to \in Blobs :
        \/ EditMain(p, to)
        \/ \E b \in Beads \union {NoBead} : Promote(b, p, to)

Spec == Init /\ [][Next]_vars

-----------------------------------------------------------------------------
(* Every commit of a bead up to its marker is on the bead's branch, once   *)
(* and in integration's order, unless main has it: the marker claims       *)
(* neither more nor less than the branch carries, whatever runs crossed,   *)
(* failed or died between the reads and the two ref writes.                *)
MarkerIsBranch ==
    \A b \in Beads :
        branch[b] # Nil /\ branch[b].srcs # <<>> =>
            /\ marker[b] = Last(branch[b].srcs)
            /\ Increasing(branch[b].srcs)
            /\ OfBead(b, 1..marker[b]) \subseteq ToSet(branch[b].srcs) \union (1..main.has)
            /\ ToSet(branch[b].srcs) = OfBead(b, ToSet(branch[b].srcs))

(* A branch and its remote only grow: a second run that planned from older *)
(* refs loses its compare-and-swap and never takes back what the first     *)
(* published, locally or on the remote.                                    *)
PublishedOnlyGrows ==
    [][\A b \in Beads :
        /\ branch[b] # Nil /\ branch'[b] # Nil => Ancestor(branch[b], branch'[b])
        /\ remote[b] # Nil /\ remote'[b] # Nil => Ancestor(remote[b], remote'[b])]_vars

(* Merging a bead's request never reverts what others landed on main: each *)
(* path it changes held, on main, what integration had before the first    *)
(* commit on the branch to touch it, or what the last commit of that very  *)
(* branch to touch it had left there when it was merged before.            *)
MergeRevertsNothing ==
    [][\A b \in Beads :
        pr[b] = "open" /\ pr'[b] = "merged" =>
            LET srcs == remote[b].srcs
                old == IF merged[b] # Nil /\ Ancestor(merged[b], remote[b])
                       THEN Len(merged[b].srcs) ELSE 0
            IN  \A p \in Paths : main'.tree[p] # main.tree[p] =>
                    \E i \in DOMAIN srcs :
                        /\ integ[srcs[i]].path = p
                        /\ \/ /\ \A j \in 1..(i - 1) : integ[srcs[j]].path # p
                              /\ integ[srcs[i]].from = main.tree[p]
                           \/ /\ i <= old
                              /\ \A j \in (i + 1)..old : integ[srcs[j]].path # p
                              /\ integ[srcs[i]].to = main.tree[p]]_vars

=============================================================================
