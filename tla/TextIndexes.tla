---------------------------- MODULE TextIndexes ----------------------------
(***************************************************************************)
(* The two text indexes over the same documents: a model with a field of   *)
(* each kind is indexed, reindexed and unindexed by both in one operation  *)
(* of the catalog, and an exception in either ends the transaction for     *)
(* both.  A document whose field has no value is taken out of the indexes. *)
(***************************************************************************)
EXTENDS LuceneIndex

CONSTANTS
    DICT_CUTOFF,
    MaxDrift       \* bound on how far totaldoclen falls below zero

ASSUME CutoffType == DICT_CUTOFF \in Nat \ {0}

\* A record of the Okapi index: the occurrences of a word in the documents
Weights == UNION {[S -> 1 .. MaxCount] : S \in SUBSET Docs}
OkapiRecord == [form : {"dict", "BTree"}, docs : Weights]

ASSUME NoOkapiRecordIsNone == NoRecord \notin OkapiRecord

VARIABLES
    o_wordinfo, o_docweight, o_docwords, o_wordCount, o_documentCount, totaldoclen,
    not_indexed    \* _not_indexed, the same in both indexes

okapi == <<o_wordinfo, o_docweight, o_docwords, o_wordCount, o_documentCount, totaldoclen>>

Okapi == INSTANCE OkapiIndex WITH
    wordinfo <- o_wordinfo, docweight <- o_docweight, docwords <- o_docwords,
    wordCount <- o_wordCount, documentCount <- o_documentCount

InitBoth == Init /\ Okapi!Init /\ not_indexed = {}

Bounded == totaldoclen >= -MaxDrift

IndexBoth(d, text) ==
    /\ Bounded
    /\ IndexDoc(d, text)
    /\ Okapi!IndexDoc(d, text)
    /\ not_indexed' = not_indexed \ {d}

ReindexBoth(d, text) ==
    /\ Bounded
    /\ ReindexDoc(d, text)
    /\ IF raised' THEN UNCHANGED <<okapi, not_indexed>>
       ELSE Okapi!ReindexDoc(d, text) /\ not_indexed' = not_indexed \ {d}

TakeOut(d) ==
    IF docwords[d] = NoRecord THEN ~raised /\ UNCHANGED <<vars, okapi>>
    ELSE UnindexDoc(d) /\ IF raised' THEN UNCHANGED okapi ELSE Okapi!UnindexDoc(d)

UnindexBoth(d) ==
    /\ TakeOut(d)
    /\ not_indexed' = IF raised' THEN not_indexed ELSE not_indexed \ {d}

\* index_doc of an object without a value: unindex the previous one
IndexMissing(d) ==
    /\ TakeOut(d)
    /\ not_indexed' = IF raised' THEN not_indexed ELSE not_indexed \cup {d}

NextBoth ==
    \E d \in Docs :
        \/ UnindexBoth(d) \/ IndexMissing(d)
        \/ \E text \in Text : IndexBoth(d, text) \/ ReindexBoth(d, text)

SpecBoth == InitBoth /\ [][NextBoth]_<<vars, okapi, not_indexed>>

-----------------------------------------------------------------------------
(* Properties. *)

\* What the Okapi index keeps is what the documents say (see OkapiIndex), and no
\* document is both indexed and remembered as one without a value.
WeightsMatchDocs ==
    Okapi!WeightsMatchDocs /\ \A d \in not_indexed : docwords[d] = NoRecord
TotalLengthMatches == Okapi!TotalLengthMatches
=============================================================================
