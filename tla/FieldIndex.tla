----------------------------- MODULE FieldIndex -----------------------------
(***************************************************************************)
(* CatalogFieldIndex: the forward index maps a value to its documents, and *)
(* to save database records it keeps one document as a bare integer, a few *)
(* as a tuple and only from Threshold documents on as a TreeSet of its own;*)
(* the reverse index maps a document to its value.                         *)
(***************************************************************************)
EXTENDS Integers, FiniteSets

CONSTANTS
    Docs,        \* document ids
    Vals,        \* values of the indexed field
    NoValue,     \* the document has no reverse entry (_marker)
    Threshold    \* field.threshold (10)

ASSUME NoValueAssumption == NoValue \notin Vals
ASSUME ThresholdAssumption == Threshold \in Nat /\ Threshold > 2
ASSUME DocsAssumption == IsFiniteSet(Docs)

VARIABLES
    fwd,          \* _fwd_index: representation and documents of each value
    rev,          \* _rev_index
    num_docs,     \* _num_docs
    not_indexed,  \* _not_indexed
    raised        \* an operation ended in an exception: the transaction is lost

vars == <<fwd, rev, num_docs, not_indexed, raised>>

Forms == {"none", "int", "tuple", "TreeSet"}
Entry == [form : Forms, docs : SUBSET Docs]
NoEntry == [form |-> "none", docs |-> {}]

TypeOK ==
    /\ fwd \in [Vals -> Entry]
    /\ rev \in [Docs -> Vals \cup {NoValue}]
    /\ num_docs \in Int
    /\ not_indexed \subseteq Docs
    /\ raised \in BOOLEAN

Init ==
    /\ fwd = [v \in Vals |-> NoEntry]
    /\ rev = [d \in Docs |-> NoValue]
    /\ num_docs = 0
    /\ not_indexed = {}
    /\ raised = FALSE

-----------------------------------------------------------------------------

\* The entry of a value without d: a bare integer and an emptied tuple or
\* TreeSet are deleted, and an entry never goes back to a smaller form.
Without(e, d) ==
    IF e.form = "int" \/ e.docs \subseteq {d} THEN NoEntry
    ELSE [e EXCEPT !.docs = @ \ {d}]

\* Mutants of Insert: the second document replaces the first; a tuple grows
\* to the threshold before it becomes a TreeSet; the second document makes a
\* list instead of a tuple.
InsertAs(e, d, limit, docs, second) ==
    [form |-> CASE e.form = "none" -> "int"
                [] e.form = "int" -> second
                [] e.form = "tuple" /\ Cardinality(e.docs) < limit -> "tuple"
                [] OTHER -> "TreeSet",
     docs |-> docs]
InsertReplaces(e, d) ==
    InsertAs(e, d, Threshold - 1, IF e.form = "int" THEN {d} ELSE e.docs \cup {d}, "tuple")
InsertLateTree(e, d) == InsertAs(e, d, Threshold, e.docs \cup {d}, "tuple")
InsertList(e, d) == InsertAs(e, d, Threshold - 1, e.docs \cup {d}, "list")

\* The entry of a value with d inserted: integer, then tuple, then TreeSet.
Insert(e, d) ==
    [form |-> CASE e.form = "none" -> "int"
                [] e.form = "int" -> "tuple"
                [] e.form = "tuple" /\ Cardinality(e.docs) < Threshold - 1 -> "tuple"
                [] OTHER -> "TreeSet",
     docs |-> e.docs \cup {d}]

\* The forward index once unindex_doc has taken d out.
Unindexed(d) ==
    IF rev[d] = NoValue THEN fwd ELSE [fwd EXCEPT ![rev[d]] = Without(@, d)]

\* Mutants of UnindexDoc: the count goes down for a document that was not
\* indexed; all documents without a value are forgotten.
UnindexDocCounts(d) ==
    /\ ~raised
    /\ not_indexed' = not_indexed \ {d}
    /\ fwd' = Unindexed(d)
    /\ rev' = [rev EXCEPT ![d] = NoValue]
    /\ num_docs' = num_docs - 1
    /\ UNCHANGED raised
UnindexDocForgetsAll(d) ==
    /\ ~raised
    /\ not_indexed' = {}
    /\ fwd' = Unindexed(d)
    /\ rev' = [rev EXCEPT ![d] = NoValue]
    /\ num_docs' = IF rev[d] = NoValue THEN num_docs ELSE num_docs - 1
    /\ UNCHANGED raised

\* unindex_doc
UnindexDoc(d) ==
    /\ ~raised
    /\ not_indexed' = not_indexed \ {d}
    /\ fwd' = Unindexed(d)
    /\ rev' = [rev EXCEPT ![d] = NoValue]
    /\ num_docs' = IF rev[d] = NoValue THEN num_docs ELSE num_docs - 1
    /\ UNCHANGED raised

\* inner_index_doc: nothing to do when the forward entry of the value already
\* has d; otherwise take d out of its old entry and insert it into the new one.
InnerIndexDoc(d, v) ==
    IF rev[d] # NoValue /\ d \in fwd[v].docs
    THEN UNCHANGED <<fwd, rev, num_docs>>
    ELSE /\ fwd' = [Unindexed(d) EXCEPT ![v] = Insert(@, d)]
         /\ rev' = [rev EXCEPT ![d] = v]
         /\ num_docs' = IF rev[d] = NoValue THEN num_docs + 1 ELSE num_docs

\* index_doc of an object that has a value
IndexDoc(d, v) ==
    /\ ~raised
    /\ not_indexed' = not_indexed \ {d}
    /\ InnerIndexDoc(d, v)
    /\ UNCHANGED raised

\* index_doc of an object without a value (a virtual field whose function
\* raises): unindex_doc of the BASE class, then remember the document.
IndexDocMissing(d) ==
    /\ ~raised
    /\ rev[d] # NoValue => fwd[rev[d]].form = "TreeSet"
    /\ fwd' = Unindexed(d)
    /\ rev' = [rev EXCEPT ![d] = NoValue]
    /\ num_docs' = IF rev[d] = NoValue THEN num_docs ELSE num_docs - 1
    /\ not_indexed' = not_indexed \cup {d}
    /\ UNCHANGED raised

\* The base class knows only TreeSets: it deletes the reverse entry and then
\* calls remove() on an integer or a tuple, which has no such method.
IndexDocMissingBare(d) ==
    /\ ~raised
    /\ rev[d] # NoValue /\ fwd[rev[d]].form # "TreeSet"
    /\ rev' = [rev EXCEPT ![d] = NoValue]
    /\ raised' = TRUE
    /\ UNCHANGED <<fwd, num_docs, not_indexed>>

Next ==
    \E d \in Docs :
        \/ UnindexDoc(d) \/ IndexDocMissing(d) \/ IndexDocMissingBare(d)
        \/ \E v \in Vals : IndexDoc(d, v)

Spec == Init /\ [][Next]_vars

-----------------------------------------------------------------------------
(* Properties. *)

Indexed == {d \in Docs : rev[d] # NoValue}

\* The two directions agree: a document is in the forward entry of a value
\* exactly when the reverse index gives it that value, unless an operation
\* ended in an exception (inner_index_doc, unindex_doc).
FwdMatchesRev ==
    ~raised => \A v \in Vals, d \in Docs : d \in fwd[v].docs <=> rev[d] = v

\* The form of an entry fits its documents: an entry that exists is not empty,
\* an integer is one document, a tuple stays below the threshold.
FormFits ==
    \A v \in Vals :
        /\ fwd[v].form = "none" <=> fwd[v].docs = {}
        /\ fwd[v].form = "int" => Cardinality(fwd[v].docs) = 1
        /\ fwd[v].form = "tuple" => Cardinality(fwd[v].docs) < Threshold

\* _num_docs counts the indexed documents, and none of them is in _not_indexed.
Counted ==
    ~raised => num_docs = Cardinality(Indexed) /\ Indexed \cap not_indexed = {}

\* "unindex the previous value": a document that has lost its value is in no
\* forward entry (index_doc).
PreviousValueUnindexed ==
    \A d \in Docs : rev[d] = NoValue => \A v \in Vals : d \notin fwd[v].docs

\* The value of a document as queries see it, from the forward index.
Seen == [d \in Docs |->
            IF \E v \in Vals : d \in fwd[v].docs
            THEN CHOOSE v \in Vals : d \in fwd[v].docs
            ELSE NoValue]

Promise == INSTANCE FieldMap WITH valueOf <- Seen, missing <- not_indexed

\* The forward index, in whatever forms, is a map from documents to values.
ImplementsFieldMap == Promise!Spec
=============================================================================
