----------------------------- MODULE Integration -----------------------------
(***************************************************************************)
(* What the git gate promises of refs/loto/integration, whoever submits,   *)
(* pushes or crashes: candidates are queued once; a batch of them lands in *)
(* one step, in id order, each replacing exactly the contents its author   *)
(* saw and nothing outside its write set; a candidate that does not land   *)
(* leaves the queue only by being rejected; history is never rewritten.    *)
(***************************************************************************)
EXTENDS CandidateChain

VARIABLES
    log,        \* the landed batches; the first entry is the bootstrap
    queue,      \* accepted, neither landed nor rejected
    expected,   \* [Candidates -> what the author saw of its write set]
    done        \* landed or rejected

Init ==
    /\ log = <<Bootstrap>>
    /\ queue = {}
    /\ expected = [k \in Candidates |-> <<>>]
    /\ done = {}

Tip == log[Len(log)].tree

(* The author read its files from some state integration has been in. *)
Accept(k) ==
    /\ k \notin queue \union done
    /\ queue' = queue \union {k}
    /\ \E i \in 1..Len(log) :
           expected' = [expected EXCEPT ![k] = [p \in WriteSet(k) |-> log[i].tree[p]]]
    /\ UNCHANGED <<log, done>>

Promote(members) ==
    /\ members # {}
    /\ members \subseteq queue
    /\ \A k \in members, p \in Paths :
           p \in WriteSet(k) => Parent(Tip, members, k)[p] = expected[k][p]
    /\ log' = Append(log, Landing(Tip, members))
    /\ queue' = queue \ members
    /\ done' = done \union members
    /\ UNCHANGED expected

Reject(k) ==
    /\ k \in queue
    /\ queue' = queue \ {k}
    /\ done' = done \union {k}
    /\ UNCHANGED <<log, expected>>

Next ==
    \/ \E k \in Candidates : Accept(k) \/ Reject(k)
    \/ \E members \in SUBSET Candidates : Promote(members)

Spec == Init /\ [][Next]_<<log, queue, expected, done>>
==============================================================================
