----------------------------- MODULE LuceneIndex -----------------------------
(***************************************************************************)
(* IncrementalLuceneIndex: for every word the documents that contain it,   *)
(* ordered by score, with a Length of its own, and for every document the  *)
(* word ids from which its scores can be computed again when it is         *)
(* reindexed or unindexed.                                                 *)
(*                                                                         *)
(* A text is the number of times each word occurs in it.  The score        *)
(* sqrt(f) / sqrt(n) is kept as the pair of f, the occurrences of the      *)
(* word, and n, the number of different words in the document.             *)
(***************************************************************************)
EXTENDS Integers, FiniteSets

CONSTANTS
    Docs,
    Words,
    MaxCount,      \* bound on the occurrences of a word in a text
    NoRecord,      \* no entry in _wordinfo or _docwords
    keep_phrases,  \* the constructor's option: keep repeated words
    EmptyTexts     \* whether texts without any word are indexed

ASSUME FiniteAssumption == IsFiniteSet(Docs) /\ IsFiniteSet(Words)
ASSUME OptionsType == keep_phrases \in BOOLEAN /\ EmptyTexts \in BOOLEAN
ASSUME MaxCountType == MaxCount \in Nat

VARIABLES
    wordinfo,       \* _wordinfo: word -> (set of (document, score), Length)
    docwords,       \* _docwords: document -> word ids
    wordCount, documentCount,
    lost,           \* "Old weight-docid pair not found!" has been logged
    raised          \* an operation ended in an exception: the transaction is lost

vars == <<wordinfo, docwords, wordCount, documentCount, lost, raised>>

Text == [Words -> 0 .. MaxCount]
Posting == [doc : Docs, f : 1 .. MaxCount, n : Nat]
Record == [docs : SUBSET Posting, length : Int]

ASSUME NoRecordIsNone == NoRecord \notin Text /\ NoRecord \notin Record

TypeOK ==
    /\ \A w \in Words : wordinfo[w] # NoRecord =>
            wordinfo[w].docs \subseteq Posting /\ wordinfo[w].length \in Int
    /\ \A d \in Docs : docwords[d] # NoRecord => docwords[d] \in Text
    /\ wordCount \in Nat /\ documentCount \in Int
    /\ lost \in BOOLEAN /\ raised \in BOOLEAN

Init ==
    /\ wordinfo = [w \in Words |-> NoRecord]
    /\ docwords = [d \in Docs |-> NoRecord]
    /\ wordCount = 0 /\ documentCount = 0
    /\ lost = FALSE /\ raised = FALSE

-----------------------------------------------------------------------------

WordsOf(text) == {w \in Words : text[w] > 0}

\* _get_widscores
Score(d, text, w) == [doc |-> d, f |-> text[w], n |-> Cardinality(WordsOf(text))]

\* What _docwords keeps of a text, PersistentWid.encode_wid
Encoded(text) ==
    IF keep_phrases THEN text
    ELSE [w \in Words |-> IF text[w] > 0 THEN 1 ELSE 0]

\* _get_doctrees: the records of ws, new ones where there were none
Doctree(w) == IF wordinfo[w] = NoRecord THEN [docs |-> {}, length |-> 0] ELSE wordinfo[w]
NewWords(ws) == Cardinality({w \in ws : wordinfo[w] = NoRecord})

\* The first parallel_traversal(*zip(*[...])) of an operation on the words ws is
\* called without arguments when there are none, which raises.
Traversable(ws) == ws # {}

\* Texts that are indexed; the bound on wordCount, which never goes down, cuts
\* the runs in which words come and go for ever.
Indexable(text) ==
    /\ ~raised
    /\ WordsOf(text) # {} \/ EmptyTexts
    /\ wordCount < 2 * Cardinality(Words)

Raise ==
    /\ raised' = TRUE
    /\ UNCHANGED <<wordinfo, docwords, wordCount, documentCount, lost>>

\* index_doc of a document that is not indexed
IndexDoc(d, text) ==
    LET ws == WordsOf(text) IN
    /\ Indexable(text) /\ docwords[d] = NoRecord
    /\ docwords' = [docwords EXCEPT ![d] = Encoded(text)]
    /\ wordinfo' = [w \in Words |->
            IF w \notin ws THEN wordinfo[w]
            ELSE [docs |-> Doctree(w).docs \cup {Score(d, text, w)},
                  length |-> Doctree(w).length + 1]]
    /\ wordCount' = wordCount + NewWords(ws)
    /\ documentCount' = documentCount + 1
    /\ UNCHANGED <<lost, raised>>

\* Mutant of ReindexedWord: only the words that were added or removed change.
ReindexedDifference(d, old, new, w) ==
    [docs |-> (IF new[w] = 0 THEN Doctree(w).docs \ {Score(d, old, w)}
               ELSE IF old[w] = 0 THEN Doctree(w).docs \cup {Score(d, new, w)}
               ELSE Doctree(w).docs),
     length |-> Doctree(w).length + (IF old[w] = 0 THEN 1 ELSE 0)
                                  - (IF new[w] = 0 THEN 1 ELSE 0)]

\* One word of _reindex_doc: Length only changes for added and removed words,
\* the score of every word does.
ReindexedWord(d, old, new, w) ==
    [docs |-> (Doctree(w).docs \ (IF old[w] > 0 THEN {Score(d, old, w)} ELSE {}))
                \cup (IF new[w] > 0 THEN {Score(d, new, w)} ELSE {}),
     length |-> Doctree(w).length + (IF old[w] = 0 THEN 1 ELSE 0)
                                  - (IF new[w] = 0 THEN 1 ELSE 0)]

\* index_doc of an indexed document (_reindex_doc): the old scores are computed
\* from the words of the previous text
ReindexDoc(d, text) ==
    LET old == docwords[d]
        ws == WordsOf(old) \cup WordsOf(text)
    IN /\ Indexable(text) /\ docwords[d] # NoRecord
       /\ \/ ~Traversable(ws) /\ Raise
          \/ /\ Traversable(ws)
             /\ wordinfo' = [w \in Words |->
                    IF w \in ws THEN ReindexedWord(d, old, text, w) ELSE wordinfo[w]]
             /\ wordCount' = wordCount + NewWords(ws)
             /\ lost' = (lost \/ \E w \in WordsOf(old) :
                                    Score(d, old, w) \notin Doctree(w).docs)
             /\ docwords' = [docwords EXCEPT ![d] = Encoded(text)]
             /\ UNCHANGED <<documentCount, raised>>

\* One word of unindex_doc: a word without documents loses its record.
UnindexedWord(d, old, w) ==
    IF Doctree(w).length = 1 THEN NoRecord
    ELSE [docs |-> Doctree(w).docs \ {Score(d, old, w)}, length |-> Doctree(w).length - 1]

\* unindex_doc; a score that cannot be found raises KeyError
UnindexDoc(d) ==
    LET old == docwords[d]
        ws == WordsOf(old)
        found == \A w \in ws : Score(d, old, w) \in Doctree(w).docs
    IN /\ ~raised /\ docwords[d] # NoRecord
       /\ \/ ~(Traversable(ws) /\ found) /\ Raise
          \/ /\ Traversable(ws) /\ found
             /\ wordinfo' = [w \in Words |->
                    IF w \in ws THEN UnindexedWord(d, old, w) ELSE wordinfo[w]]
             /\ wordCount' = wordCount + NewWords(ws)
             /\ docwords' = [docwords EXCEPT ![d] = NoRecord]
             /\ documentCount' = documentCount - 1
             /\ UNCHANGED <<lost, raised>>

Next ==
    \E d \in Docs :
        \/ UnindexDoc(d)
        \/ \E text \in Text : IndexDoc(d, text) \/ ReindexDoc(d, text)

Spec == Init /\ [][Next]_vars

-----------------------------------------------------------------------------
(* Properties. *)

Postings(w) ==
    {Score(d, docwords[d], w) : d \in {e \in Docs : docwords[e] # NoRecord
                                                    /\ docwords[e][w] > 0}}

\* "This should never happen": the score of an indexed word is always found.
OldWeightsFound == ~lost

\* The postings of a word are the indexed documents that contain it, each once
\* and with the score of its present text; the score that a reindex replaces was
\* always there; and a word's Length, which search uses for IDF, is the number of
\* its documents (index_doc, _reindex_doc, unindex_doc).
PostingsMatchDocs ==
    /\ TypeOK /\ OldWeightsFound
    /\ \A w \in Words : /\ Doctree(w).docs = Postings(w)
                         /\ Doctree(w).length = Cardinality(Doctree(w).docs)
    /\ documentCount = Cardinality({d \in Docs : docwords[d] # NoRecord})

\* Indexing, reindexing and unindexing succeed for every text.
NeverRaises == ~raised

\* mass_weightedUnion asks every word it is given for its smallest key, which
\* raises for a record without documents.
RecordsHaveDocs == \A w \in Words : wordinfo[w] # NoRecord => wordinfo[w].docs # {}
=============================================================================
