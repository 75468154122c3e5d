----------------------------- MODULE QueryJson -----------------------------
(***************************************************************************)
(* Queries in the style of MongoDB: compile makes query objects of them,   *)
(* whose logic and negations find documents in a field index and in a text *)
(* index of the same catalog.                                              *)
(*                                                                         *)
(* A clause {field: {op: params}} is [op |-> op, params |-> list], where a *)
(* value that is no list is a list of one; {key: clauses} with a logical   *)
(* key is [key |-> key, clauses |-> list].  The clauses "text" and "ntext" *)
(* are about the text field, all others about the field index.             *)
(***************************************************************************)
EXTENDS FieldSearch

CONSTANTS
    Containing,   \* for each word, the documents whose text contains it
    Joinable      \* the clauses that are joined with another

ASSUME ContainingType == Containing \in [DOMAIN Containing -> SUBSET Docs]

Clause(op, params) == [key |-> "field", op |-> op, params |-> params]
Logical(key, clauses) == [key |-> key, clauses |-> clauses]

logical_operators == [and |-> "And", or |-> "Or", not |-> "Not"]

field_operators ==
    [eq |-> "Eq", ne |-> "NotEq", lt |-> "Lt", lte |-> "Le", gt |-> "Gt", gte |-> "Ge",
     range |-> "InRange", nrange |-> "NotInRange", text |-> "Contains",
     ntext |-> "DoesNotContain", in |-> "Any", all |-> "All", nany |-> "NotAny",
     nin |-> "NotAll"]

\* The parameters that the constructors need after the name of the index
Arity(class) == IF class \in {"InRange", "NotInRange"} THEN 2 ELSE 1

\* A field operator's class called with the parameters
Construct(class, params) ==
    IF class \in {"InRange", "NotInRange"}
    THEN [Range3(params[1], params[2], FALSE) EXCEPT !.op = class]
    ELSE Compare(class, params[1])

RECURSIVE compile(_)
compile(j) ==
    IF j.key = "field" THEN Construct(field_operators[j.op], j.params)
    ELSE [op |-> logical_operators[j.key], converts |-> TRUE,
          queries |-> [k \in DOMAIN j.clauses |-> compile(j.clauses[k])]]

\* The parameters are spread as arguments: a constructor called with another
\* number of them than it takes raises TypeError.
RECURSIVE Compiles(_)
Compiles(j) ==
    IF j.key = "field" THEN Len(j.params) = Arity(field_operators[j.op])
    ELSE /\ j.key = "not" => Len(j.clauses) = 1
         /\ \A k \in DOMAIN j.clauses : Compiles(j.clauses[k])

-----------------------------------------------------------------------------
(* What a lookup returns: a set, a Sliceable, or nothing since it raised.   *)
(* The library may refuse a Sliceable as operand of a set operation, and    *)
(* the lookup of "all" values in a field index.                             *)

Refusals == {{}, {"sliceable"}, {"all"}}

SetOf(ids) == [form |-> "set", ids |-> ids]
SliceableOf(ids) == [form |-> "sliceable", ids |-> ids]
Raised == [form |-> "raised", ids |-> {}]

\* A set operation of the library on a and b that gives ids.  zerodb's And and
\* Or convert their operands before it (_to_set).
Combined(converts, refuses, a, b, ids) ==
    IF ~converts /\ "sliceable" \in refuses \cap {a.form, b.form} THEN Raised ELSE SetOf(ids)

\* One turn of the loop of And._apply: nothing more is looked up once nothing
\* is left.
AndNext(converts, refuses, result, next) ==
    IF result = Raised \/ (result.ids # {} /\ next = Raised) THEN Raised
    ELSE IF {} \in {result.ids, next.ids} THEN SetOf({})
    ELSE Combined(converts, refuses, result, next, result.ids \cap next.ids)

\* One turn of the loop of Or._apply
OrNext(converts, refuses, result, next) ==
    IF Raised \in {result, next} THEN Raised
    ELSE IF result.ids = {} THEN next
    ELSE IF next.ids = {} THEN result
    ELSE Combined(converts, refuses, result, next, result.ids \cup next.ids)

-----------------------------------------------------------------------------
(* Query objects. *)

Opposites ==
    [Eq |-> "NotEq", NotEq |-> "Eq", Gt |-> "Le", Le |-> "Gt", Lt |-> "Ge", Ge |-> "Lt",
     InRange |-> "NotInRange", NotInRange |-> "InRange",
     Contains |-> "DoesNotContain", DoesNotContain |-> "Contains",
     Any |-> "NotAny", NotAny |-> "Any", All |-> "NotAll", NotAll |-> "All"]

\* Mutant of Opposite: the bound itself is in neither.
OppositeStrict(class) == [Opposites EXCEPT !.Gt = "Lt", !.Le = "Gt"][class]

\* The class that negate of a comparator gives
Opposite(class) == Opposites[class]

\* negate: And and Or become the library's own Or and And, which convert nothing.
RECURSIVE Negate(_)
Negate(q) ==
    CASE q.op = "Not" -> q.queries[1]
      [] q.op \in {"And", "Or"} ->
            [op |-> IF q.op = "And" THEN "Or" ELSE "And", converts |-> FALSE,
             queries |-> [k \in DOMAIN q.queries |-> Negate(q.queries[k])]]
      [] OTHER -> [q EXCEPT !.op = Opposite(@)]

\* The documents a catalog knows, those without a value too
DocIdsOfIndex == {d \in Docs : rev[d] # NoValue} \cup not_indexed

\* applyContains of an index with _search_all, the Lucene index; what the Okapi index
\* gives is taken by every join, as a set is.
ApplyContains(word) == SliceableOf(Containing[word] \cap DocIdsOfIndex)

\* applyEq and applyInRange: a Sliceable, but a set for the small entry of a value
ApplyValue(q) ==
    IF q.op = "Eq" /\ fwd[q.value].form # "TreeSet" THEN SetOf(ToSet(Apply(q)))
                                                 ELSE SliceableOf(ToSet(Apply(q)))

\* The negative lookups of the base class: what the positive one did not find
Remaining(refuses, found) ==
    IF found = Raised THEN Raised
    ELSE IF found.ids = {} THEN SetOf(DocIdsOfIndex)
    ELSE Combined(FALSE, refuses, found, found, DocIdsOfIndex \ found.ids)

\* _apply of a query object, with a library that refuses some things
RECURSIVE ApplyQuery(_, _)
ApplyQuery(refuses, q) ==
    LET results == [k \in DOMAIN q.queries |-> ApplyQuery(refuses, q.queries[k])]
    IN CASE q.op = "And" ->
                FoldLeft(LAMBDA r, next : AndNext(q.converts, refuses, r, next),
                         Head(results), Tail(results))
         [] q.op = "Or" ->
                FoldLeft(LAMBDA r, next : OrNext(q.converts, refuses, r, next),
                         Head(results), Tail(results))
         [] q.op = "Not" -> ApplyQuery(refuses, Negate(q.queries[1]))
         [] q.op = "Contains" -> ApplyContains(q.value)
         [] q.op = "Any" -> SetOf(Search(q.value, "or"))
         [] q.op = "All" -> IF "all" \in refuses THEN Raised ELSE SetOf(Search(q.value, "and"))
         [] q.op \in {"NotEq", "NotInRange", "DoesNotContain", "NotAny", "NotAll"} ->
                Remaining(refuses, ApplyQuery(refuses, Negate(q)))
         [] OTHER -> ApplyValue(q)

-----------------------------------------------------------------------------
(* Properties. *)

\* What a JSON query says of a document that has a value, which is to all a list
\* of that one
RECURSIVE Says(_, _)
Says(j, d) ==
    CASE j.key = "and" -> \A k \in DOMAIN j.clauses : Says(j.clauses[k], d)
      [] j.key = "or" -> \E k \in DOMAIN j.clauses : Says(j.clauses[k], d)
      [] j.key = "not" -> ~Says(j.clauses[1], d)
      [] OTHER ->
            LET v == rev[d]
                p == j.params[1] IN
            CASE j.op = "eq" -> v = p [] j.op = "ne" -> v # p
              [] j.op = "lt" -> v < p [] j.op = "lte" -> v <= p
              [] j.op = "gt" -> v > p [] j.op = "gte" -> v >= p
              [] j.op = "range" -> v \in p .. j.params[2]
              [] j.op = "nrange" -> v \notin p .. j.params[2]
              [] j.op = "text" -> d \in Containing[p] [] j.op = "ntext" -> d \notin Containing[p]
              [] j.op = "in" -> v \in p [] j.op = "nany" -> v \notin p
              [] j.op = "all" -> p \subseteq {v} [] j.op = "nin" -> ~(p \subseteq {v})

ListOperators == {"in", "all", "nany", "nin"}

Clauses ==
    {Clause(op, <<v>>) : op \in {"eq", "ne", "lt", "lte", "gt", "gte"}, v \in Vals}
    \cup {Clause(op, <<a, b>>) : op \in {"range", "nrange"}, a, b \in Vals}
    \cup {Clause(op, <<w>>) : op \in {"text", "ntext"}, w \in DOMAIN Containing}
    \cup {Clause(op, <<vs>>) : op \in ListOperators, vs \in SUBSET Vals \ {{}}}

Not(j) == Logical("not", <<j>>)

\* A clause by itself, two of them joined, the negation of both, and one joined
\* with the negation of another
Queries ==
    Clauses \cup {Not(j) : j \in Clauses} \cup {Not(Not(j)) : j \in Clauses}
    \cup UNION {{Logical(key, <<j, k>>), Not(Logical(key, <<j, k>>)),
                 Logical(key, <<Not(j), k>>)} : key \in {"and", "or"},
                                               j, k \in Joinable}

Compiled == {[json |-> j, query |-> compile(j)] : j \in Queries}

HasValue(ids) == ids \cap Indexed

\* A query in JSON that is answered finds, of the documents that have a value,
\* exactly those of which it says so, whatever is negated, joined or cut short by
\* an empty result; with a library that refuses nothing every one is answered
\* (compile, And._apply, Or._apply, negate).
JsonFinds ==
    ~raised => \A c \in Compiled : LET said == {d \in Indexed : Says(c.json, d)} IN
        \A refuses \in Refusals :
            LET found == ApplyQuery(refuses, c.query)
            IN IF found = Raised THEN refuses # {} ELSE HasValue(found.ids) = said

\* A document is found by {field: {"$in": list}} with a list of its value and
\* another ("Matches any of the values specified in an array").
InMatchesList ==
    ~raised => \A d \in Indexed, other \in Vals :
        LET j == Clause("in", <<rev[d], other>>)
        IN Compiles(j) /\ d \in ApplyQuery({}, compile(j)).ids

\* "$nin" ("Matches arrays that contain all elements specified in the query")
\* finds the documents whose value, as a list of one, has all of them.
NinAsDocumented ==
    ~raised => \A vs \in SUBSET Vals \ {{}} :
        HasValue(ApplyQuery({}, compile(Clause("nin", <<vs>>))).ids)
            = {d \in Indexed : vs \subseteq {rev[d]}}

\* {"$not": q} finds the documents, with a value or without, that q does not.
NotIsComplement ==
    ~raised => \A j \in Clauses :
        ApplyQuery({}, compile(Not(j))).ids = DocIdsOfIndex \ ApplyQuery({}, compile(j)).ids
=============================================================================
