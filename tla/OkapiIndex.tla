----------------------------- MODULE OkapiIndex -----------------------------
(***************************************************************************)
(* OkapiIndex: for every word the documents that contain it with the       *)
(* number of its occurrences, in a dict of one database record while they  *)
(* are few and in a BTree of its own beyond DICT_CUTOFF, and the length of *)
(* every document.  A reindexed document only touches the words whose      *)
(* occurrences change.                                                     *)
(***************************************************************************)
EXTENDS Integers, FiniteSets, Functions

CONSTANTS Docs, Words,
    NoRecord,      \* no entry in _wordinfo, _docwords or _docweight
    DICT_CUTOFF    \* of the base class

VARIABLES
    wordinfo,      \* _wordinfo: word -> form and document -> occurrences
    docweight,     \* _docweight: document -> number of words
    docwords,      \* _docwords: document -> word ids
    wordCount, documentCount,
    totaldoclen    \* _totaldoclen: the words of all documents

vars == <<wordinfo, docweight, docwords, wordCount, documentCount, totaldoclen>>

Init ==
    /\ wordinfo = [w \in Words |-> NoRecord]
    /\ docweight = [d \in Docs |-> NoRecord]
    /\ docwords = [d \in Docs |-> NoRecord]
    /\ wordCount = 0 /\ documentCount = 0 /\ totaldoclen = 0

-----------------------------------------------------------------------------

Occurring(text) == {w \in Words : text[w] > 0}
DocLength(text) == FoldFunction(+, 0, text)

\* The record of a word once doc2score[docid] = weight has been done: a dict
\* that is full becomes a BTree first, and none becomes a dict again.
WithDoc(info, d, weight) ==
    IF info = NoRecord THEN [form |-> "dict", docs |-> [e \in {d} |-> weight]]
    ELSE [form |-> IF info.form = "dict" /\ Cardinality(DOMAIN info.docs) = DICT_CUTOFF
                   THEN "BTree" ELSE info.form,
          docs |-> [e \in DOMAIN info.docs \cup {d} |->
                        IF e = d THEN weight ELSE info.docs[e]]]

\* _del_wordinfo: a word without documents loses its record
WithoutDoc(info, d) ==
    IF DOMAIN info.docs = {d} THEN NoRecord
    ELSE [info EXCEPT !.docs = Restrict(@, DOMAIN @ \ {d})]

\* The number of records that w has gained, in _add_wordinfo and _del_wordinfo
Gained(new) ==
    Cardinality({w \in Words : wordinfo[w] = NoRecord /\ new[w] # NoRecord})
    - Cardinality({w \in Words : wordinfo[w] # NoRecord /\ new[w] = NoRecord})

SetWordinfo(new) == wordinfo' = new /\ wordCount' = wordCount + Gained(new)

\* index_doc of a document that is not indexed, _mass_add_wordinfo
IndexDoc(d, text) ==
    /\ docwords[d] = NoRecord
    /\ SetWordinfo([w \in Words |-> IF text[w] > 0 THEN WithDoc(wordinfo[w], d, text[w])
                                                   ELSE wordinfo[w]])
    /\ docweight' = [docweight EXCEPT ![d] = DocLength(text)]
    /\ docwords' = [docwords EXCEPT ![d] = text]
    /\ documentCount' = documentCount + 1
    /\ totaldoclen' = totaldoclen + DocLength(text)

\* Mutant of Reindexed: a word that stays keeps the occurrences it had.
ReindexedKeeps(info, d, old, new) ==
    CASE old > 0 /\ new = 0 -> WithoutDoc(info, d)
      [] old = 0 /\ new > 0 -> WithDoc(info, d, new)
      [] OTHER -> info

\* The record of one word after _reindex_doc
Reindexed(info, d, old, new) ==
    CASE old > 0 /\ new = 0 -> WithoutDoc(info, d)
      [] new > 0 /\ new # old -> WithDoc(info, d, new)
      [] OTHER -> info

\* index_doc of an indexed document returns what _reindex_doc returns: the old
\* length goes off the total and the new one is not added.
ReindexDoc(d, text) ==
    /\ docwords[d] # NoRecord
    /\ SetWordinfo([w \in Words |-> Reindexed(wordinfo[w], d, docwords[d][w], text[w])])
    /\ docweight' = [docweight EXCEPT ![d] = DocLength(text)]
    /\ docwords' = [docwords EXCEPT ![d] = text]
    /\ totaldoclen' = totaldoclen - docweight[d]
    /\ UNCHANGED documentCount

\* unindex_doc, of the base class
UnindexDoc(d) ==
    /\ docwords[d] # NoRecord
    /\ SetWordinfo([w \in Words |-> IF docwords[d][w] > 0 THEN WithoutDoc(wordinfo[w], d)
                                                          ELSE wordinfo[w]])
    /\ docweight' = [docweight EXCEPT ![d] = NoRecord]
    /\ docwords' = [docwords EXCEPT ![d] = NoRecord]
    /\ documentCount' = documentCount - 1
    /\ totaldoclen' = totaldoclen - docweight[d]

-----------------------------------------------------------------------------
(* Properties. *)

Indexed == {d \in Docs : docwords[d] # NoRecord}
Having(w) == {d \in Indexed : docwords[d][w] > 0}

\* The weights of a word are its occurrences in the present texts of exactly the
\* documents that contain it, a dict never outgrows its record, and the numbers of
\* words and documents and the length of each document are right
\* (_mass_add_wordinfo, _reindex_doc, unindex_doc).
WeightsMatchDocs ==
    /\ \A w \in Words :
        IF Having(w) = {} THEN wordinfo[w] = NoRecord
        ELSE /\ wordinfo[w].docs = [d \in Having(w) |-> docwords[d][w]]
             /\ wordinfo[w].form = "dict" => Cardinality(Having(w)) <= DICT_CUTOFF
    /\ wordCount = Cardinality({w \in Words : wordinfo[w] # NoRecord})
    /\ documentCount = Cardinality(Indexed)
    /\ \A d \in Indexed : docweight[d] = DocLength(docwords[d])

\* The base class's search divides the length of a document by the mean length,
\* totaldoclen / documentCount.
TotalLengthMatches == totaldoclen = FoldFunctionOnSet(+, 0, docweight, Indexed)
=============================================================================
