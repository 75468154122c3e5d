----------------------------- MODULE FieldSearch -----------------------------
(***************************************************************************)
(* Searching a field index and paging through what was found: the lookups  *)
(* of CatalogFieldIndex over entries in any form, the comparators and the  *)
(* logic of zerodb.catalog.query, and skip and limit of DbModel.query.     *)
(*                                                                         *)
(* Values are numbers.  The documents of one value come in some order that *)
(* depends on the form of the entry; here it is fixed and nothing is said  *)
(* about it.                                                               *)
(***************************************************************************)
EXTENDS FieldIndex, PythonNone, SequencesExt

ASSUME ValsAreNumbers == Vals \subseteq Int

Ascending ==
    [vs \in SUBSET Vals |-> CHOOSE s \in [1 .. Cardinality(vs) -> vs] :
                                \A j, k \in DOMAIN s : j < k => s[j] < s[k]]
SomeOrder == [ds \in SUBSET Docs |-> SetToSeq(ds)]

-----------------------------------------------------------------------------
(* CatalogFieldIndex *)

\* Mutant of DocIds: a bare integer is not made a tuple.
DocIdsBare(e) == IF e.form = "int" THEN <<>> ELSE SomeOrder[e.docs]

\* NewTreeItems and multiunion1: an entry as a sequence, a bare integer too
DocIds(e) == SomeOrder[e.docs]

\* _fwd_index.values(start, end): the keys, a bound of None is open
Between(start, end, excludemin, excludemax) ==
    {v \in Vals : /\ fwd[v].form # "none"
                  /\ start = None \/ v > start \/ (v = start /\ ~excludemin)
                  /\ end = None \/ v < end \/ (v = end /\ ~excludemax)}

ApplyInRange(start, end, excludemin, excludemax) ==
    LET vs == Ascending[Between(start, end, excludemin, excludemax)]
    IN FlattenSeq([k \in DOMAIN vs |-> DocIds(fwd[vs[k]])])

\* applyEq
ApplyEq(v) == DocIds(fwd[v])

\* search: the sets of documents of each query, united or intersected
Search(vs, operator) ==
    LET sets == {ToSet(DocIds(fwd[v])) : v \in vs}
    IN IF operator = "and" THEN {d \in UNION sets : \A ds \in sets : d \in ds}
                           ELSE UNION sets

\* Of some documents one after the other, those in docids (yield in scan_forward)
Yielded(ids, docids) ==
    LET upto[n \in 0 .. Len(ids)] ==
            IF n = 0 THEN << >>
            ELSE IF ids[n] \in docids THEN Append(upto[n - 1], ids[n]) ELSE upto[n - 1]
    IN upto[Len(ids)]

\* scan_forward: docids by value, at most limit of them
ScanForward(docids, limit) ==
    LET found == Yielded(ApplyInRange(None, None, FALSE, FALSE), docids)
    IN SubSeq(found, 1, IF limit < Len(found) THEN limit ELSE Len(found))

-----------------------------------------------------------------------------
(* zerodb.catalog.query *)

Compare(op, v) == [op |-> op, value |-> v]

Comparators == {Compare(op, v) : op \in {"Eq", "Gt", "Ge", "Lt", "Le"}, v \in Vals}

Range3(start, end, excl) == [op |-> "InRange", start |-> start, end |-> end,
                             excludemin |-> excl, excludemax |-> excl]

Ranges == {Range3(start, end, excl) : start, end \in Vals, excl \in BOOLEAN}

\* _apply of the comparators; applyGt and the like are the base class's and are
\* ranges without end.
Apply(q) ==
    CASE q.op = "Eq" -> ApplyEq(q.value)
      [] q.op = "Gt" -> ApplyInRange(q.value, None, TRUE, FALSE)
      [] q.op = "Ge" -> ApplyInRange(q.value, None, FALSE, FALSE)
      [] q.op = "Lt" -> ApplyInRange(None, q.value, FALSE, TRUE)
      [] q.op = "Le" -> ApplyInRange(None, q.value, FALSE, FALSE)
      [] q.op = "InRange" -> ApplyInRange(q.start, q.end, q.excludemin, q.excludemax)

\* And._apply: nothing more is looked up once nothing is left.
AndOf(results) ==
    FoldLeft(LAMBDA r, next : IF r = {} THEN {} ELSE r \cap next,
             Head(results), Tail(results))

\* Or._apply
OrOf(results) == FoldLeft(LAMBDA r, next : r \cup next, Head(results), Tail(results))

AndApply(qs) == AndOf([k \in DOMAIN qs |-> ToSet(Apply(qs[k]))])

-----------------------------------------------------------------------------
(* DbModel.query with a sort index: the conditions are joined with And, the *)
(* catalog sorts and cuts what they find, and a slice of that is returned.  *)

Sliced(ids, skip, limit) ==
    LET stop == IF skip + limit < Len(ids) THEN skip + limit ELSE Len(ids)
    IN SubSeq(ids, skip + 1, stop)

\* Catalog.sort_result: the sort index has other ways to sort than scan_forward,
\* which give the same values in the same order.
SortResult(docids, limit) ==
    ScanForward(docids, IF limit = None THEN Cardinality(docids) ELSE limit)

\* Mutant of Query: the catalog is given the limit without what is skipped.
QueryCutsSkipped(qs, skip, limit) ==
    IF limit = None
    THEN SortResult(AndApply(qs), None)
    ELSE Sliced(SortResult(AndApply(qs), limit), skip, limit)

\* Without a limit the result is a DBList of everything, and skip is not used.
Query(qs, skip, limit) ==
    IF limit = None
    THEN SortResult(AndApply(qs), None)
    ELSE Sliced(SortResult(AndApply(qs), skip + limit), skip, limit)

-----------------------------------------------------------------------------
(* Properties. *)

\* What a query means, from the values that the documents were given last.
Meets(v, q) ==
    CASE q.op = "Eq" -> v = q.value
      [] q.op = "Gt" -> v > q.value [] q.op = "Ge" -> v >= q.value
      [] q.op = "Lt" -> v < q.value [] q.op = "Le" -> v <= q.value
      [] q.op = "InRange" -> /\ v > q.start \/ (v = q.start /\ ~q.excludemin)
                             /\ v < q.end \/ (v = q.end /\ ~q.excludemax)

Matching(q) == {d \in Indexed : Meets(rev[d], q)}

\* Exactly the documents of ds, each once, by ascending value.
Sorted(ids, ds) ==
    /\ ToSet(ids) = ds /\ Len(ids) = Cardinality(ds)
    /\ \A k \in 2 .. Len(ids) : rev[ids[k - 1]] <= rev[ids[k]]

\* Whatever changes of form the entries went through, every lookup finds each
\* matching document exactly once and in order (applyEq, applyInRange,
\* scan_forward, search).
SearchesFind ==
    ~raised =>
        /\ \A q \in Comparators \cup Ranges : Sorted(Apply(q), Matching(q))
        /\ \A vs \in (SUBSET Vals) \ {{}} :
            /\ Search(vs, "or") = {d \in Indexed : rev[d] \in vs}
            /\ Search(vs, "and") = {d \in Indexed : vs = {rev[d]}}

\* A page is the part from skip to skip + limit of all that matches, by value
\* ("Offset to start the result iteration from", "Limit number of results").
PageIsPart(skip, limit) ==
    \A q \in Comparators :
        LET page == Query(<<q>>, skip, limit)
            stop == IF limit = None THEN Len(Apply(q)) ELSE skip + limit
            part == Sliced(Apply(q), skip, stop - skip)
        IN /\ ToSet(page) \subseteq Matching(q) /\ Cardinality(ToSet(page)) = Len(page)
           /\ [k \in DOMAIN page |-> rev[page[k]]] = [k \in DOMAIN part |-> rev[part[k]]]

PagesAreParts ==
    ~raised => \A skip \in 0 .. Cardinality(Docs), limit \in 1 .. Cardinality(Docs) :
        PageIsPart(skip, limit)

\* The same for a query with skip and without limit.
SkipSkips == ~raised => \A skip \in 0 .. Cardinality(Docs) : PageIsPart(skip, None)
=============================================================================
