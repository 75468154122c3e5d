------------------------------ MODULE TextSearch ------------------------------
(***************************************************************************)
(* A text search over the network.  The words of the query are looked up   *)
(* in the tree of all words, level by level.  The Lucene index then unites *)
(* the documents of those that are known (search, search_glob and          *)
(* _search_all); the Okapi index fetches the words' trees whole and looks  *)
(* their documents up in the tree of document weights.                     *)
(***************************************************************************)
EXTENDS TreeSearch, WeightedUnion

\* The searches: kind "lucene", "weight" (the Lucene index's query_weight alone)
\* or "okapi", the query's words, the scores of each known word's documents, and
\* the trees: wordinfo, the documents of each word and docweight.  A word is its
\* position in the list of words that is united.
CONSTANT Cases

VARIABLES
    case,     \* the search
    phase     \* "ready", "words", "union", "trees" or "weights"

vars == <<treeVars, unionVars, case, phase>>

RECURSIVE KeysOf(_)
KeysOf(n) == n.keys \cup UNION {KeysOf(c) : c \in Children(n)}

Known(c) == c.words \cap KeysOf(c.wordinfo)

Init ==
    /\ case \in Cases
    /\ TreeInit
    /\ UnionInit(IF case.kind = "lucene" THEN Known(case) ELSE {}, case.score)
    /\ phase = "ready"

\* IncrementalLuceneIndex._remove_oov_wids brings the paths of the words into the
\* cache before it looks them up.
LookUpWords ==
    /\ phase = "ready" /\ case.kind \in {"lucene", "weight"}
    /\ ParallelTraversal({case.wordinfo}, {case.wordinfo} \X case.words)
    /\ phase' = "words"
    /\ UNCHANGED <<unionVars, case>>

\* OkapiIndex._search_wids does so for the known words, if there are several.
LookUpKnown ==
    /\ phase = "ready" /\ case.kind = "okapi"
    /\ IF Cardinality(Known(case)) > 1
       THEN ParallelTraversal({case.wordinfo}, {case.wordinfo} \X Known(case))
       ELSE UNCHANGED treeVars
    /\ phase' = "words"
    /\ UNCHANGED <<unionVars, case>>

Traverse == TraverseOn /\ UNCHANGED <<unionVars, case, phase>>

\* IncrementalLuceneIndex.search: the union of the known words' lists.
Unite ==
    /\ phase = "words" /\ frontier = {} /\ case.kind = "lucene"
    /\ Begin
    /\ phase' = "union"
    /\ UNCHANGED <<treeVars, case>>

Union == phase = "union" /\ UnionNext /\ UNCHANGED <<treeVars, case, phase>>

\* It goes on with the words' trees, where they are trees and not dictionaries ...
FetchTrees ==
    /\ phase = "words" /\ frontier = {} /\ case.kind = "okapi"
    /\ PrefetchTrees({case.docs[w] : w \in Known(case)})
    /\ phase' = "trees"
    /\ UNCHANGED <<unionVars, case>>

FetchOn == phase = "trees" /\ PrefetchOn /\ UNCHANGED <<unionVars, case, phase>>

\* ... and the documents' weights, if there are several.
LookUpWeights ==
    /\ phase = "trees" /\ Arrived
    /\ LET ds == UNION {KeysOf(case.docs[w]) : w \in Known(case)} IN
        /\ Cardinality(ds) > 1
        /\ ParallelTraversal({case.docweight}, {case.docweight} \X ds)
    /\ phase' = "weights"
    /\ UNCHANGED <<unionVars, case>>

Next ==
    \/ LookUpWords \/ LookUpKnown \/ Traverse
    \/ Unite \/ Union
    \/ FetchTrees \/ FetchOn \/ LookUpWeights

Spec == Init /\ [][Next]_vars
=============================================================================
