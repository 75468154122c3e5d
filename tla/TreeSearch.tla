----------------------------- MODULE TreeSearch -----------------------------
(***************************************************************************)
(* Reading BTrees over the network: a client that follows a key down a     *)
(* BTree pays one round trip for every node.  parallel_traversal follows   *)
(* several keys at once, one level for each call of the connection's       *)
(* prefetch, and prefetch_trees fetches whole trees level by level.        *)
(*                                                                         *)
(* A node is a record of its oid, its separators and its children; a node  *)
(* without children is a bucket, an empty tree or one whose only bucket    *)
(* is part of its state.                                                   *)
(***************************************************************************)
EXTENDS Integers, Sequences, FiniteSets

CONSTANT Depth    \* prefetch_trees goes no deeper (10)

ASSUME DepthType == Depth \in Nat \ {0}

\* What has not been stored has no oid, and a plain dictionary never has one.
NoOid == 0

VARIABLES
    goal,       \* what the search follows: pairs of a tree and a key, or trees
    frontier,   \* parallel_traversal: pairs of a node and the key followed there
    level,      \* prefetch_trees: the nodes to fetch next
    fetched,    \* the nodes that were fetched in bulk
    rounds      \* calls of the connection's prefetch

treeVars == <<goal, frontier, level, fetched, rounds>>

-----------------------------------------------------------------------------
(* The search in one node. *)

\* Mutant of BranchFrom: half of the length is rounded down.
BranchFromShort(seps, key) ==
    LET from[lo \in 0 .. Len(seps), hi \in 0 .. Len(seps) + 1] ==
        LET i == (lo + hi) \div 2 IN
        IF i <= lo \/ seps[i] = key THEN i
        ELSE IF seps[i] < key THEN from[i, hi] ELSE from[lo, i]
    IN from[0, Len(seps)]

\* The bisection of btree_state_search between branches lo and hi, which are
\* numbered from 0: the separator in front of branch i is the i-th.
BranchFrom(seps, key) ==
    LET from[lo \in 0 .. Len(seps), hi \in 0 .. Len(seps) + 1] ==
        LET i == (lo + hi) \div 2 IN
        IF i <= lo \/ seps[i] = key THEN i
        ELSE IF seps[i] < key THEN from[i, hi] ELSE from[lo, i]
    IN from[0, Len(seps) + 1]

\* btree_state_search: the child in which the key would be.
BtreeStateSearch(node, key) == node.kids[BranchFrom(node.seps, key) + 1]

-----------------------------------------------------------------------------
(* The two ways to fetch. *)

NoGoal == [pairs |-> {}, trees |-> {}]

TreeInit ==
    /\ goal = NoGoal
    /\ frontier = {} /\ level = {}
    /\ fetched = {} /\ rounds = 0

\* One turn of parallel_traversal, after the bulk fetch: the child of each node
\* in which its key would be, if it has any.
Level(pairs) ==
    {<<BtreeStateSearch(p[1], p[2]), p[2]>> : p \in {q \in pairs : q[1].kids # <<>>}}

\* parallel_traversal(trees, keys): the trees themselves are fetched, even when
\* there is no key to follow.
ParallelTraversal(nodes, pairs) ==
    /\ goal' = [pairs |-> pairs, trees |-> {}]
    /\ fetched' = nodes /\ rounds' = 1
    /\ frontier' = Level(pairs)
    /\ UNCHANGED level

\* Its recursive calls.
TraverseOn ==
    /\ frontier # {}
    /\ fetched' = fetched \cup {p[1] : p \in frontier} /\ rounds' = rounds + 1
    /\ frontier' = Level(frontier)
    /\ UNCHANGED <<goal, level>>

Children(n) == {n.kids[j] : j \in DOMAIN n.kids}

\* prefetch_trees(trees): those that are persistent and, as long as depth allows,
\* what is below.
PrefetchTrees(ts) ==
    LET nodes == {n \in ts : n.oid # NoOid} IN
    /\ goal' = [pairs |-> {}, trees |-> nodes]
    /\ fetched' = nodes /\ rounds' = IF nodes = {} THEN 0 ELSE 1
    /\ level' = UNION {Children(n) : n \in nodes}
    /\ UNCHANGED frontier

\* Its recursive calls.
PrefetchOn ==
    /\ level # {} /\ rounds < Depth
    /\ fetched' = fetched \cup level /\ rounds' = rounds + 1
    /\ level' = UNION {Children(n) : n \in level}
    /\ UNCHANGED <<goal, frontier>>

-----------------------------------------------------------------------------
(* Properties. *)

\* What a plain lookup of the key loads: BTrees keep a key that equals a
\* separator to the right of it.
RECURSIVE Path(_, _)
Path(n, key) ==
    {n} \cup IF n.kids = <<>> THEN {}
             ELSE Path(n.kids[1 + Cardinality({j \in DOMAIN n.seps : n.seps[j] <= key})], key)

RECURSIVE Within(_, _)
Within(n, d) ==
    IF d = 0 THEN {} ELSE {n} \cup UNION {Within(c, d - 1) : c \in Children(n)}

Arrived == frontier = {} /\ (level = {} \/ rounds = Depth)

\* "Bulk-fetch ... in logarithmic number of steps": a traversal has fetched what
\* the lookups of its keys are going to load, no node more and in as many rounds
\* as the longest lookup has nodes; a bulk fetch of trees has fetched all of them
\* down to its depth (btree_state_search, parallel_traversal, prefetch_trees).
BulkFetched ==
    /\ Arrived /\ goal.pairs # {} =>
        LET paths == {Path(p[1], p[2]) : p \in goal.pairs} IN
        /\ fetched = UNION paths
        /\ \E path \in paths : rounds = Cardinality(path)
    /\ Arrived => \A t \in goal.trees : Within(t, Depth) \subseteq fetched
=============================================================================
