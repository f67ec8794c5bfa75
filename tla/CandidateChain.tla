--------------------------- MODULE CandidateChain ---------------------------
(***************************************************************************)
(* Candidates and the trees they produce: what gate.Capture reads and what *)
(* buildChain writes (internal/gate).  A tree maps every file the instance *)
(* knows to its contents or to Absent; a directory exists while a file     *)
(* beneath it does.  Contents stand for blob SHA and mode together.        *)
(***************************************************************************)
EXTENDS Naturals, Sequences

LOCAL INSTANCE SequencesExt

CONSTANTS
    Candidates,   \* candidate ids; their order is the order of promotion
    Paths,        \* files, as sequences of segments
    Contents,
    Absent,       \* no entry in the tree, a nil BlobRef
    Result,       \* [Candidates -> [its write set -> what the proposal has]]
    InitialTree   \* HEAD at the bootstrap of refs/loto/integration

ASSUME CandidatesAssumption == Candidates \subseteq Nat

Tree == [Paths -> Contents \union {Absent}]

ASSUME ResultAssumption ==
    /\ InitialTree \in Tree
    /\ \A k \in Candidates :
           /\ DOMAIN Result[k] # {} /\ DOMAIN Result[k] \subseteq Paths
           /\ Result[k] \in [DOMAIN Result[k] -> Contents \union {Absent}]

WriteSet(k) == DOMAIN Result[k]

(* treeAt: the directory resolves to a tree. *)
IsDir(tree, d) == \E p \in Paths : IsStrictPrefix(d, p) /\ tree[p] # Absent

(* ancestorsOf, the root excluded. *)
AncestorsOf(p) == {SubSeq(p, 1, n) : n \in 1..(Len(p) - 1)}

(* The tree after the members of a chain were applied to base in id order: *)
(* a path has what its last writer gives it.                               *)
ChainTree(base, members) ==
    [p \in Paths |->
        LET writers == {k \in members : p \in WriteSet(k)}
        IN  IF writers = {} THEN base[p]
            ELSE Result[CHOOSE k \in writers : \A j \in writers : j <= k][p]]

(* What member k of a chain is applied to. *)
Parent(base, members, k) == ChainTree(base, {j \in members : j < k})

(* The commits of one batch, with the tree at their tip. *)
Landing(base, members) == [members |-> members, tree |-> ChainTree(base, members)]

Bootstrap == [members |-> {}, tree |-> InitialTree]
=============================================================================
