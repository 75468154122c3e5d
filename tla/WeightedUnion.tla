---------------------------- MODULE WeightedUnion ----------------------------
(***************************************************************************)
(* mass_weightedUnion: the documents of several words in descending order  *)
(* of their added weights, given back one by one while the words' trees    *)
(* are read no further than necessary.                                     *)
(*                                                                         *)
(* Every word has a tree of (-score, docid), read through an iterator and  *)
(* a cache.  A document's weight lies between the sum of the scores it has *)
(* in the caches and that sum with the largest unread score of every other *)
(* tree added; the documents with the largest minima form a window, which  *)
(* is given back while the maxima show that its order holds, but for a     *)
(* violation of a few places.  A score is already multiplied with the      *)
(* word's weight.                                                          *)
(***************************************************************************)
EXTENDS Integers, Sequences, FiniteSets, SequencesExt, FiniteSetsExt

CONSTANTS
    DocIds,          \* docids, which are integers
    Lists,           \* positions in the argument L, integers from 1
    CacheSize,       \* cache_size (40)
    OrderSize,       \* order_size (15)
    OrderViolation,  \* order_violation (3)
    Pythons          \* the versions of Python it may run under: 2, 3

ASSUME DocIdsType == DocIds \subseteq Nat /\ IsFiniteSet(DocIds)
ASSUME ListsType == Lists \subseteq Nat \ {0} /\ IsFiniteSet(Lists)
ASSUME SizesOrdered == /\ OrderViolation \in Nat \ {0} /\ OrderSize \in Nat
                       /\ CacheSize \in Nat /\ 2 * OrderViolation < CacheSize
                       /\ OrderViolation <= OrderSize
ASSUME PythonsKnown == Pythons # {} /\ Pythons \subseteq {2, 3}

VARIABLES
    L,          \* the lists that take part
    score,      \* of each document in each list; 0: not in it
    reader,     \* how each list is read, see Reader
    used,       \* documents given back
    window,     \* docids, mins and maxs
    out,        \* what has been given back, with the weight
    pc          \* where the generator is

unionVars == <<L, score, reader, used, window, out, pc>>

\* read: how much of the tree has been read; exhausted: the iterator has been
\* deleted; cache: the documents in the cache; unread_max: the bound on the scores
\* that have not been read.
Reader == [read : Nat, exhausted : BOOLEAN, cache : SUBSET DocIds, unread_max : Nat]
Place == [doc : DocIds, min : Nat, max : Nat]

UnionTypeOK ==
    /\ L \subseteq Lists /\ score \in [Lists -> [DocIds -> Nat]]
    /\ reader \in [Lists -> Reader]
    /\ used \subseteq DocIds /\ window \in Seq(Place) /\ out \in Seq(Place)
    /\ pc \in {"start", "trivial", "refill", "order", "yield", "stopped", "raised"}

\* The documents that w gives a weight, the heaviest first and equal ones by docid.
Before(w, d, e) == w[d] > w[e] \/ (w[d] = w[e] /\ d < e)
Ranked(w) ==
    [k \in 1 .. Cardinality(DOMAIN w) |->
        CHOOSE d \in DOMAIN w : Cardinality({e \in DOMAIN w : Before(w, e, d)}) = k - 1]

\* The tree of a list: by descending score, then by docid.
Tree(i) == Ranked([d \in {e \in DocIds : score[i][e] > 0} |-> score[i][d]])

\* The weight of d that a union computed at once would give.
Weight(d) == SumFunction([i \in L |-> score[i][d]])

Matching == {d \in DocIds : Weight(d) > 0}

UnionInit(ls, sc) ==
    /\ L = ls /\ score = sc
    /\ reader = [i \in Lists |->
          [read |-> 0, exhausted |-> FALSE, cache |-> {},
           unread_max |-> IF i \in ls THEN Max(Range(sc[i]) \cup {0}) ELSE 0]]
    /\ used = {} /\ window = <<>> /\ out = <<>>
    /\ pc = "start"

\* The first call: how many lists there are decides, and a list without
\* documents has no smallest key.
Begin ==
    /\ pc = "start"
    /\ pc' = IF Cardinality(L) < 2 THEN "trivial"
             ELSE IF \E i \in L : Tree(i) = <<>> THEN "raised" ELSE "refill"
    /\ UNCHANGED <<L, score, reader, used, window, out>>

-----------------------------------------------------------------------------
(* Reading ahead. *)

\* The documents that reading size more elements of list i brings.
New(i, size) ==
    SubSeq(Tree(i), reader[i].read + 1, Min({reader[i].read + size, Len(Tree(i))}))

\* Mutant of Precache: documents given back already are cached again.
PrecacheUsed(i, size) ==
    LET new == New(i, size)
        ends == Len(new) < size IN
    [read |-> reader[i].read + Len(new),
     exhausted |-> ends \/ reader[i].exhausted,
     cache |-> reader[i].cache \cup Range(new),
     unread_max |-> IF ends THEN 0
                    ELSE Min({reader[i].unread_max} \cup {score[i][d] : d \in Range(new)})]

\* precache: the bound sinks to the last score read, and to 0 at the end.
Precache(i, size) ==
    LET new == New(i, size)
        ends == Len(new) < size IN
    [read |-> reader[i].read + Len(new),
     exhausted |-> ends \/ reader[i].exhausted,
     cache |-> reader[i].cache \cup (Range(new) \ used),
     unread_max |-> IF ends THEN 0
                    ELSE Min({reader[i].unread_max} \cup {score[i][d] : d \in Range(new)})]

\* Caches less than half full, of lists that have more.
Low == {i \in L : ~reader[i].exhausted /\ 2 * Cardinality(reader[i].cache) < CacheSize}

CacheLen == SumFunction([i \in L |-> Cardinality(reader[i].cache)])

\* The main cycle begins: low caches are filled, and the window is made anew if
\* one was, or when it is short while there is more in the caches.
Refill ==
    /\ pc = "refill"
    /\ reader' = [i \in Lists |->
          IF i \in Low THEN Precache(i, CacheSize - Cardinality(reader[i].cache))
          ELSE reader[i]]
    /\ pc' = IF Low # {} \/ (CacheLen > OrderViolation /\ Len(window) < OrderViolation)
             THEN "order" ELSE "yield"
    /\ UNCHANGED <<L, score, used, window, out>>

-----------------------------------------------------------------------------
(* The window. *)

Cached == UNION {reader[i].cache : i \in L}

\* Mutant of MinOf: the score in the last list instead of the sum.
MinOfLast(d) ==
    IF d \in Cached THEN score[Max({i \in L : d \in reader[i].cache})][d] ELSE 0

MinOf(d) == SumFunction([i \in L |-> IF d \in reader[i].cache THEN score[i][d] ELSE 0])

\* Mutant of MaxOf: the bounds of the wrong lists are added.
MaxOfCached(d) ==
    SumFunction([i \in L |-> IF d \in reader[i].cache
                             THEN score[i][d] + reader[i].unread_max ELSE 0])

\* "sum(c.get(docid, m) for c, m in izip(caches, unread_max))"
MaxOf(d) ==
    SumFunction([i \in L |-> IF d \in reader[i].cache THEN score[i][d]
                             ELSE reader[i].unread_max])

\* The first OrderSize of sorted_mins.
Window ==
    LET all == Ranked([d \in Cached |-> MinOf(d)]) IN
    [k \in 1 .. Min({Len(all), OrderSize}) |->
        [doc |-> all[k], min |-> MinOf(all[k]), max |-> MaxOf(all[k])]]

\* Some later document of the window, or one that is in no cache, may weigh more
\* than one that is OrderViolation places before it.
Violated(w) ==
    \/ \E k \in 1 .. Len(w) - OrderViolation - 1 :
        \E j \in k + OrderViolation .. Len(w) : w[j].max > w[k].min
    \/ /\ Len(w) = OrderSize
       /\ w[Len(w) - OrderViolation + 1].min < SumFunction([i \in L |-> reader[i].unread_max])

\* Reading list i promises most, and it is the first of several such.
Size(i) == Max({Len(Tree(i)) - Cardinality(reader[i].cache), 1})
Promising(i) ==
    \A j \in L :
        LET mine == reader[i].unread_max * Size(j)
            its == reader[j].unread_max * Size(i)
        IN mine > its \/ (mine = its /\ i <= j)

\* A turn of the inner loop.  Under Python 3 half of cache_size is a float, which
\* range does not take.
Order ==
    /\ pc = "order"
    /\ window' = Window
    /\ \/ ~Violated(Window) /\ pc' = "yield" /\ UNCHANGED reader
       \/ \E i \in L :
            /\ Violated(Window) /\ Promising(i)
            /\ \/ /\ 2 \in Pythons /\ ~reader[i].exhausted
                  /\ reader' = [reader EXCEPT ![i] = Precache(i, CacheSize \div 2)]
                  /\ UNCHANGED pc
               \/ /\ 3 \in Pythons \/ reader[i].exhausted
                  /\ pc' = "raised"
                  /\ UNCHANGED reader
    /\ UNCHANGED <<L, score, used, out>>

\* The score of d is the bound of list i.
AtBound(i, d) == d \in reader[i].cache /\ score[i][d] = reader[i].unread_max

\* d leaves the cache of list i.  Where its score was the bound, the bound becomes
\* the largest score left in that cache.
Without(i, d) ==
    LET left == reader[i].cache \ {d} IN
    [reader[i] EXCEPT
        !.cache = left,
        !.unread_max = IF AtBound(i, d) /\ left # {} THEN Max({score[i][x] : x \in left}) ELSE @]

\* The first of the window is given back and leaves the caches; max() of no scores
\* raises.
Yield ==
    /\ pc = "yield" /\ window # <<>>
    /\ LET d == Head(window).doc IN
       /\ reader' = [i \in Lists |-> Without(i, d)]
       /\ IF \E i \in L : AtBound(i, d) /\ reader[i].cache = {d}
          THEN pc' = "raised" /\ UNCHANGED <<used, out>>
          ELSE /\ pc' = "refill"
               /\ used' = used \cup {d}
               /\ out' = Append(out, Head(window))
    /\ window' = Tail(window)
    /\ UNCHANGED <<L, score>>

Stop ==
    /\ pc = "yield" /\ window = <<>>
    /\ pc' = "stopped"
    /\ UNCHANGED <<L, score, reader, used, window, out>>

\* One list is simply read, no list gives nothing.
Trivial ==
    /\ pc = "trivial"
    /\ IF L = {} \/ Len(out) = Len(Tree(CHOOSE i \in L : TRUE))
       THEN pc' = "stopped" /\ UNCHANGED <<out, used>>
       ELSE LET d == Tree(CHOOSE i \in L : TRUE)[Len(out) + 1] IN
            /\ out' = Append(out, [doc |-> d, min |-> Weight(d), max |-> Weight(d)])
            /\ used' = used \cup {d} /\ UNCHANGED pc
    /\ UNCHANGED <<L, score, reader, window>>

\* The generator's steps after the first.
UnionNext == Refill \/ Order \/ Yield \/ Stop \/ Trivial

\* The union by itself, of any lists.
UnionSpec ==
    /\ L \subseteq Lists /\ score \in [Lists -> [DocIds -> Nat]] /\ UnionInit(L, score)
    /\ [][Begin \/ UnionNext]_unionVars

-----------------------------------------------------------------------------
(* Properties. *)

Given == {out[k].doc : k \in DOMAIN out}

Sorted(w) == \A j, k \in DOMAIN w : j < k => Weight(w[j].doc) >= Weight(w[k].doc)

\* What has been read of list i.
ReadOf(i) == {Tree(i)[k] : k \in 1 .. reader[i].read}

\* No document is given back twice or without matching.  When the generator ends,
\* at most one is missing, the outer loop looking at the caches once more only while
\* they hold more than order_violation entries; or all that has been read is given
\* back, and it ends because the caches stay empty when all that is read next had
\* been given back before.
FoundOnce ==
    /\ \A j, k \in DOMAIN out : out[j].doc = out[k].doc => j = k
    /\ Given \subseteq Matching
    /\ pc = "stopped" => \/ Cardinality(Matching \ Given) <= 1
                         \/ Cardinality(L) > 1 /\ \A i \in L : ReadOf(i) \subseteq Given

\* The bounds that decide on the order are bounds: no unread score is larger than
\* unread_max, and a document's weight lies between its minimum and its maximum,
\* whatever was read, given back or skipped before (precache, mins, maxs).
WeightsBracketed ==
    /\ \A i \in L : \A k \in reader[i].read + 1 .. Len(Tree(i)) :
            score[i][Tree(i)[k]] <= reader[i].unread_max
    /\ \A e \in Range(window) \cup Range(out) :
            e.min <= Weight(e.doc) /\ Weight(e.doc) <= e.max

\* Words whose trees fit into the caches: the weights given are exact, and
\* they descend ("iterable ordered from large to small sum(score*weight)").
OrderedWhenCached ==
    (\A i \in L : Len(Tree(i)) < CacheSize) =>
        Sorted(out) /\ \A k \in DOMAIN out : out[k].min = out[k].max

\* What a caller expects, and what does not hold: every matching document is
\* given back in the end ...
NothingLost == pc = "stopped" => Given = Matching

\* ... no exception ends the search ...
SearchNeverRaises == pc # "raised"

\* ... and no document comes more than order_violation places before a heavier
\* one ("We allow elements to be shifted by max_out_of_order = 3").
NearlyOrdered ==
    \A j, k \in DOMAIN out :
        j + OrderViolation < k => Weight(out[j].doc) >= Weight(out[k].doc)
=============================================================================
