------------------------- MODULE TextIndexesProofs -------------------------
(***************************************************************************)
(* Proofs that the postings of the Lucene index and the weights of the     *)
(* Okapi index are those of the present texts, for every number of         *)
(* documents and words and every DICT_CUTOFF; and that the union of a      *)
(* search's words is found, bracketed and ordered as WeightedUnion         *)
(* promises, for all lists, scores and sizes of its caches and window.     *)
(***************************************************************************)
EXTENDS TextIndexes, WeightedUnion, FiniteSetTheorems, SequenceTheorems, TLAPS

-----------------------------------------------------------------------------
(* The records of one word. *)

\* The record that _get_doctrees returns for an entry of _wordinfo
RecordOf(info) == IF info = NoRecord THEN [docs |-> {}, length |-> 0] ELSE info

\* An entry of the Lucene index that holds the postings P
Holds(info, P) ==
    /\ info \in Record \cup {NoRecord}
    /\ IsFiniteSet(P)
    /\ RecordOf(info).docs = P
    /\ RecordOf(info).length = Cardinality(P)

\* A posting comes, a posting goes, a posting is replaced.
Plus(info, x) == [docs |-> RecordOf(info).docs \cup {x}, length |-> RecordOf(info).length + 1]
Minus(info, x) == [docs |-> RecordOf(info).docs \ {x}, length |-> RecordOf(info).length - 1]
Swapped(info, x, y) ==
    [docs |-> (RecordOf(info).docs \ {x}) \cup {y}, length |-> RecordOf(info).length]

\* A document gets into the postings of a word: the Length goes up by one
\* (index_doc, and the added words of _reindex_doc).
LEMMA Added ==
    ASSUME NEW info, NEW P, Holds(info, P), NEW x \in Posting, x \notin P
    PROVE  Holds(Plus(info, x), P \cup {x})
  <1> DEFINE new == Plus(info, x)
  <1>1. P \subseteq Posting /\ Cardinality(P) \in Nat
    BY FS_CardinalityType DEF Holds, RecordOf, Record
  <1>2. IsFiniteSet(P \cup {x}) /\ Cardinality(P \cup {x}) = Cardinality(P) + 1
    BY FS_AddElement DEF Holds
  <1>3. new \in Record
    BY <1>1 DEF Holds, Record, Plus
  <1>4. RecordOf(new) = new
    BY <1>3, NoRecordIsNone DEF RecordOf
  <1>5. new.docs = P \cup {x} /\ new.length = Cardinality(P) + 1
    BY DEF Holds, Plus
  <1> HIDE DEF new
  <1>6. Holds(new, P \cup {x})
    BY <1>2, <1>3, <1>4, <1>5 DEF Holds
  <1> QED
    BY <1>6 DEF new

\* A document gets out of them (the removed words of _reindex_doc).
LEMMA TakenOut ==
    ASSUME NEW info, NEW P, Holds(info, P), NEW x \in P
    PROVE  Holds(Minus(info, x), P \ {x})
  <1> DEFINE new == Minus(info, x)
  <1>1. P \subseteq Posting /\ Cardinality(P) \in Nat
    BY FS_CardinalityType DEF Holds, RecordOf, Record
  <1>2. IsFiniteSet(P \ {x}) /\ Cardinality(P \ {x}) = Cardinality(P) - 1
    BY FS_RemoveElement DEF Holds
  <1>3. new \in Record
    BY <1>1 DEF Holds, Record, Minus
  <1>4. RecordOf(new) = new
    BY <1>3, NoRecordIsNone DEF RecordOf
  <1>5. new.docs = P \ {x} /\ new.length = Cardinality(P) - 1
    BY DEF Holds, Minus
  <1> HIDE DEF new
  <1>6. Holds(new, P \ {x})
    BY <1>2, <1>3, <1>4, <1>5 DEF Holds
  <1> QED
    BY <1>6 DEF new

\* A score is replaced by another: the Length stays (the words of _reindex_doc
\* that are in both texts).
LEMMA Replaced ==
    ASSUME NEW info, NEW P, Holds(info, P), NEW x \in P, NEW y \in Posting, y \notin P \ {x}
    PROVE  Holds(Swapped(info, x, y), (P \ {x}) \cup {y})
  <1> DEFINE new == Swapped(info, x, y)
  <1>1. P \subseteq Posting /\ Cardinality(P) \in Nat
    BY FS_CardinalityType DEF Holds, RecordOf, Record
  <1>2. IsFiniteSet(P \ {x}) /\ Cardinality(P \ {x}) = Cardinality(P) - 1
    BY FS_RemoveElement DEF Holds
  <1>3. /\ IsFiniteSet((P \ {x}) \cup {y})
        /\ Cardinality((P \ {x}) \cup {y}) = Cardinality(P \ {x}) + 1
    BY <1>2, FS_AddElement
  <1>4. new \in Record
    BY <1>1 DEF Holds, Record, Swapped
  <1>5. RecordOf(new) = new
    BY <1>4, NoRecordIsNone DEF RecordOf
  <1>6. new.docs = (P \ {x}) \cup {y} /\ new.length = Cardinality(P)
    BY DEF Holds, Swapped
  <1> HIDE DEF new
  <1>7. Holds(new, (P \ {x}) \cup {y})
    BY <1>1, <1>2, <1>3, <1>4, <1>5, <1>6 DEF Holds
  <1> QED
    BY <1>7 DEF new

\* The last document takes the record with it (unindex_doc).
LEMMA TakenOutLast ==
    ASSUME NEW info, NEW P, Holds(info, P), NEW x \in P, RecordOf(info).length = 1
    PROVE  Holds(NoRecord, P \ {x})
  <1>1. IsFiniteSet(P \ {x}) /\ Cardinality(P \ {x}) = 0
    <2>1. IsFiniteSet(P) /\ Cardinality(P) = 1
      BY DEF Holds
    <2> QED
      BY <2>1, FS_RemoveElement
  <1>2. P \ {x} = {}
    BY <1>1, FS_EmptySet
  <1> QED
    BY <1>1, <1>2 DEF Holds, RecordOf

-----------------------------------------------------------------------------
(* One document changes. *)

\* Whether a document with this text in _docwords contains a word
In(text, w) == text # NoRecord /\ text[w] > 0

\* The posting of a document for a word, from the text that _docwords keeps
Mine(d, text, w) ==
    IF In(text, w) THEN {Score(d, text, w)} ELSE {}

\* The postings of a word, from the texts of _docwords
PostingsOf(dw, w) ==
    {Score(d, dw[d], w) : d \in {e \in Docs : dw[e] # NoRecord /\ dw[e][w] > 0}}

\* A score is a posting.
LEMMA ScoreType ==
    ASSUME NEW d \in Docs, NEW text \in Text, NEW w \in Words, text[w] > 0
    PROVE  Score(d, text, w) \in Posting
  <1>1. WordsOf(text) \in SUBSET Words
    BY DEF WordsOf
  <1>2. Cardinality(WordsOf(text)) \in Nat
    BY <1>1, FiniteAssumption, FS_Subset, FS_CardinalityType
  <1>3. text[w] \in 1 .. MaxCount
    BY MaxCountType DEF Text
  <1> QED
    BY <1>2, <1>3 DEF Score, Posting

\* When the text of one document changes, its posting changes and no other.
LEMMA OneChanged ==
    ASSUME NEW dw \in [Docs -> Text \cup {NoRecord}], NEW d \in Docs,
           NEW text \in Text \cup {NoRecord}, NEW w \in Words,
           NEW new, new = [dw EXCEPT ![d] = text]
    PROVE  /\ Mine(d, dw[d], w) \subseteq PostingsOf(dw, w)
           /\ \A x \in PostingsOf(dw, w) : x.doc = d => x \in Mine(d, dw[d], w)
           /\ \A x : x \in PostingsOf(new, w) <=>
                    \/ x \in PostingsOf(dw, w) \ Mine(d, dw[d], w)
                    \/ x \in Mine(d, text, w)
  <1>1. Mine(d, dw[d], w) \subseteq PostingsOf(dw, w)
    BY DEF Mine, In, PostingsOf
  <1>2. \A x \in PostingsOf(dw, w) : x.doc = d => x \in Mine(d, dw[d], w)
    BY DEF Mine, In, PostingsOf, Score
  <1>3. \A e \in Docs : new[e] = IF e = d THEN text ELSE dw[e]
    OBVIOUS
  <1>4. \A x \in Mine(d, dw[d], w) : x.doc = d
    BY DEF Mine, In, Score
  <1>5. ASSUME NEW x \in PostingsOf(new, w)
        PROVE  x \in (PostingsOf(dw, w) \ Mine(d, dw[d], w)) \cup Mine(d, text, w)
    <2>1. PICK e \in Docs : new[e] # NoRecord /\ new[e][w] > 0 /\ x = Score(e, new[e], w)
      BY <1>5 DEF PostingsOf
    <2>2. x.doc = e
      BY <2>1 DEF Score
    <2>3. CASE e = d
      BY <1>3, <2>1, <2>3 DEF Mine, In
    <2>4. CASE e # d
      BY <1>3, <1>4, <2>1, <2>2, <2>4 DEF PostingsOf
    <2> QED
      BY <2>3, <2>4
  <1>6. ASSUME NEW x \in (PostingsOf(dw, w) \ Mine(d, dw[d], w)) \cup Mine(d, text, w)
        PROVE  x \in PostingsOf(new, w)
    <2>1. CASE x \in Mine(d, text, w)
      BY <1>3, <2>1 DEF Mine, In, PostingsOf
    <2>2. CASE x \in PostingsOf(dw, w) \ Mine(d, dw[d], w)
      <3>1. PICK e \in Docs : dw[e] # NoRecord /\ dw[e][w] > 0 /\ x = Score(e, dw[e], w)
        BY <2>2 DEF PostingsOf
      <3>2. e # d
        BY <2>2, <3>1 DEF Mine, In
      <3> QED
        BY <1>3, <3>1, <3>2 DEF PostingsOf
    <2> QED
      BY <1>6, <2>1, <2>2
  <1> QED
    BY <1>1, <1>2, <1>5, <1>6

-----------------------------------------------------------------------------
(* The Lucene index. *)

\* One word of the Lucene index, from the texts of _docwords
WordHolds(info, dw, w) == Holds(info, PostingsOf(dw, w))

LuceneInv ==
    /\ docwords \in [Docs -> Text \cup {NoRecord}]
    /\ DOMAIN wordinfo = Words
    /\ \A w \in Words : WordHolds(wordinfo[w], docwords, w)
    /\ wordCount \in Nat
    /\ documentCount = Cardinality({d \in Docs : docwords[d] # NoRecord})
    /\ lost = FALSE /\ raised \in BOOLEAN

\* What the invariant says is the property.
LEMMA LuceneInvIsProperty == LuceneInv => PostingsMatchDocs
  <1> SUFFICES ASSUME LuceneInv PROVE PostingsMatchDocs
    OBVIOUS
  <1>1. \A w \in Words : Doctree(w) = RecordOf(wordinfo[w]) /\ Postings(w) = PostingsOf(docwords, w)
    BY DEF Doctree, RecordOf, Postings, PostingsOf
  <1>2. \A w \in Words : /\ Doctree(w).docs = Postings(w)
                          /\ Doctree(w).length = Cardinality(Doctree(w).docs)
    BY <1>1 DEF LuceneInv, WordHolds, Holds
  <1>3. \A w \in Words : wordinfo[w] # NoRecord =>
            wordinfo[w].docs \subseteq Posting /\ wordinfo[w].length \in Int
    BY DEF LuceneInv, WordHolds, Holds, Record
  <1>4. \A d \in Docs : docwords[d] # NoRecord => docwords[d] \in Text
    BY DEF LuceneInv
  <1>5. documentCount \in Int
    <2>1. {d \in Docs : docwords[d] # NoRecord} \in SUBSET Docs
      OBVIOUS
    <2> QED
      BY <2>1, FiniteAssumption, FS_Subset, FS_CardinalityType DEF LuceneInv
  <1> QED
    BY <1>2, <1>3, <1>4, <1>5 DEF LuceneInv, PostingsMatchDocs, TypeOK, OldWeightsFound

\* New records are counted in natural numbers (_get_doctrees).
LEMMA NewWordsType == ASSUME NEW ws \in SUBSET Words PROVE NewWords(ws) \in Nat
  <1>1. {w \in ws : wordinfo[w] = NoRecord} \in SUBSET Words
    OBVIOUS
  <1> QED
    BY <1>1, FiniteAssumption, FS_Subset, FS_CardinalityType DEF NewWords

IndexedIn(dw) == {e \in Docs : dw[e] # NoRecord}

\* The indexed documents can be counted (documentCount).
LEMMA IndexedFinite ==
    ASSUME NEW dw
    PROVE  IsFiniteSet(IndexedIn(dw)) /\ Cardinality(IndexedIn(dw)) \in Nat
  <1>1. IndexedIn(dw) \in SUBSET Docs
    BY DEF IndexedIn
  <1> QED
    BY <1>1, FiniteAssumption, FS_Subset, FS_CardinalityType

\* The record of a word after a document has changed: four cases, whether the
\* word is in its old text and whether it is in the new one.
LEMMA WordChanged ==
    ASSUME NEW dw \in [Docs -> Text \cup {NoRecord}], NEW d \in Docs, NEW w \in Words,
           NEW text \in Text \cup {NoRecord}, NEW new, new = [dw EXCEPT ![d] = text],
           NEW info, WordHolds(info, dw, w)
    PROVE  /\ In(dw[d], w) => Score(d, dw[d], w) \in RecordOf(info).docs
           /\ ~In(dw[d], w) /\ ~In(text, w) => WordHolds(info, new, w)
           /\ ~In(dw[d], w) /\ In(text, w) =>
                WordHolds(Plus(info, Score(d, text, w)), new, w)
           /\ In(dw[d], w) /\ ~In(text, w) =>
                /\ WordHolds(Minus(info, Score(d, dw[d], w)), new, w)
                /\ RecordOf(info).length = 1 => WordHolds(NoRecord, new, w)
           /\ In(dw[d], w) /\ In(text, w) =>
                WordHolds(Swapped(info, Score(d, dw[d], w), Score(d, text, w)), new, w)
  <1> DEFINE P == PostingsOf(dw, w)
             Q == PostingsOf(new, w)
             x == Score(d, dw[d], w)
             y == Score(d, text, w)
  <1>1. /\ Mine(d, dw[d], w) \subseteq P
        /\ \A z \in P : z.doc = d => z \in Mine(d, dw[d], w)
        /\ \A z : z \in Q <=> z \in P \ Mine(d, dw[d], w) \/ z \in Mine(d, text, w)
    <2>1. Mine(d, dw[d], w) \subseteq P
      BY OneChanged
    <2>2. \A z \in P : z.doc = d => z \in Mine(d, dw[d], w)
      BY OneChanged
    <2>3. \A z : z \in Q <=> z \in P \ Mine(d, dw[d], w) \/ z \in Mine(d, text, w)
      BY OneChanged
    <2> QED
      BY <2>1, <2>2, <2>3
  <1>2. Mine(d, dw[d], w) = IF In(dw[d], w) THEN {x} ELSE {}
    BY DEF Mine
  <1>3. Mine(d, text, w) = IF In(text, w) THEN {y} ELSE {}
    BY DEF Mine
  <1>4. In(text, w) => y \in Posting
    BY ScoreType DEF In
  <1>5. y.doc = d
    BY DEF Score
  <1>6. Holds(info, P) /\ RecordOf(info).docs = P
    BY DEF WordHolds, Holds
  <1> HIDE DEF P, x, y
  <1> HIDE DEF Q
  <1>7. In(dw[d], w) => x \in P
    BY <1>1, <1>2
  <1>8. y \notin P \ Mine(d, dw[d], w)
    BY <1>1, <1>5
  <1>9. ASSUME ~In(dw[d], w), ~In(text, w) PROVE Holds(info, Q)
    <2>1. Q = P
      BY <1>1, <1>2, <1>3, <1>9
    <2> QED
      BY <1>6, <2>1
  <1>10. ASSUME ~In(dw[d], w), In(text, w)
         PROVE  Holds(Plus(info, y), Q)
    <2>1. Q = P \cup {y} /\ y \notin P
      BY <1>1, <1>2, <1>3, <1>8, <1>10
    <2> QED
      BY <1>4, <1>6, <1>10, <2>1, Added
  <1>11. ASSUME In(dw[d], w), ~In(text, w)
         PROVE  /\ Holds(Minus(info, x), Q)
                /\ RecordOf(info).length = 1 => Holds(NoRecord, Q)
    <2>1. Q = P \ {x}
      BY <1>1, <1>2, <1>3, <1>11
    <2> QED
      BY <1>6, <1>7, <1>11, <2>1, TakenOut, TakenOutLast
  <1>12. ASSUME In(dw[d], w), In(text, w)
         PROVE  Holds(Swapped(info, x, y), Q)
    <2>1. Q = (P \ {x}) \cup {y} /\ y \notin P \ {x}
      BY <1>1, <1>2, <1>3, <1>8, <1>12
    <2> QED
      BY <1>4, <1>6, <1>7, <1>12, <2>1, Replaced
  <1> QED
    BY <1>6, <1>7, <1>9, <1>10, <1>11, <1>12 DEF P, Q, x, y, WordHolds

\* An index that has just been made (clear).
LEMMA LuceneStarts == Init => LuceneInv
  <1> SUFFICES ASSUME Init PROVE LuceneInv
    OBVIOUS
  <1>1. ASSUME NEW w \in Words PROVE WordHolds(wordinfo[w], docwords, w)
    <2>1. PostingsOf(docwords, w) = {}
      BY DEF PostingsOf, Init
    <2> QED
      BY <2>1, FS_EmptySet DEF WordHolds, Holds, RecordOf, Init
  <1>2. {d \in Docs : docwords[d] # NoRecord} = {}
    BY DEF Init
  <1> QED
    BY <1>1, <1>2, FS_EmptySet DEF LuceneInv, Init

\* An exception changes nothing but raised.
LEMMA LuceneRaises == LuceneInv /\ Raise => LuceneInv'
  BY DEF LuceneInv, Raise

\* A new document (index_doc).
LEMMA LuceneIndexes ==
    ASSUME LuceneInv, NEW d \in Docs, NEW text \in Text, IndexDoc(d, text),
           keep_phrases = TRUE
    PROVE  LuceneInv'
  <1>1. docwords' = [docwords EXCEPT ![d] = text] /\ docwords[d] = NoRecord
    BY DEF IndexDoc, Encoded
  <1>2. docwords' \in [Docs -> Text \cup {NoRecord}]
    BY <1>1 DEF LuceneInv
  <1>3. ASSUME NEW w \in Words PROVE WordHolds(wordinfo'[w], docwords', w)
    <2>1. WordHolds(wordinfo[w], docwords, w)
      BY DEF LuceneInv
    <2>2. wordinfo'[w] =
            IF text[w] > 0 THEN Plus(wordinfo[w], Score(d, text, w)) ELSE wordinfo[w]
      BY DEF IndexDoc, WordsOf, Doctree, RecordOf, Plus
    <2>3. text # NoRecord
      BY NoRecordIsNone
    <2>4. CASE text[w] > 0
      <3>1. WordHolds(Plus(wordinfo[w], Score(d, text, w)), docwords', w)
        BY <1>1, <2>1, <2>3, <2>4, WordChanged DEF LuceneInv, In
      <3> QED
        BY <2>2, <2>4, <3>1
    <2>5. CASE ~(text[w] > 0)
      BY <1>1, <2>1, <2>2, <2>3, <2>5, WordChanged DEF LuceneInv, In
    <2> QED
      BY <2>4, <2>5
  <1>4. documentCount' = Cardinality(IndexedIn(docwords'))
    <2>1. text # NoRecord /\ DOMAIN docwords = Docs
      BY NoRecordIsNone DEF LuceneInv
    <2>2. documentCount = Cardinality(IndexedIn(docwords))
      BY DEF LuceneInv, IndexedIn
    <2>3. documentCount' = documentCount + 1
      BY DEF IndexDoc
    <2>4. IndexedIn(docwords') = IndexedIn(docwords) \cup {d} /\ d \notin IndexedIn(docwords)
      BY <1>1, <2>1 DEF IndexedIn
    <2> QED
      BY <2>2, <2>3, <2>4, IndexedFinite, FS_AddElement
  <1>5. wordCount' \in Nat
    <2>1. NewWords(WordsOf(text)) \in Nat
      BY NewWordsType DEF WordsOf
    <2> QED
      BY <2>1 DEF IndexDoc, LuceneInv
  <1>6. DOMAIN wordinfo' = Words /\ UNCHANGED <<lost, raised>>
    BY DEF IndexDoc
  <1> QED
    BY <1>2, <1>3, <1>4, <1>5, <1>6 DEF LuceneInv, IndexedIn

\* What a reindex makes of the record of a word, by the texts that contain it
LEMMA ReindexedCases ==
    ASSUME NEW w \in Words, NEW P, Holds(wordinfo[w], P), NEW d \in Docs,
           NEW old \in Text, NEW text \in Text
    PROVE  LET rec == ReindexedWord(d, old, text, w)
               x == Score(d, old, w)
               y == Score(d, text, w)
           IN  /\ old[w] > 0 /\ text[w] > 0 => rec = Swapped(wordinfo[w], x, y)
               /\ old[w] > 0 /\ ~(text[w] > 0) => rec = Minus(wordinfo[w], x)
               /\ ~(old[w] > 0) /\ text[w] > 0 => rec = Plus(wordinfo[w], y)
  <1>1. old[w] \in Nat /\ text[w] \in Nat
    BY MaxCountType DEF Text
  <1>2. Doctree(w) = RecordOf(wordinfo[w])
    BY DEF Doctree, RecordOf
  <1>3. RecordOf(wordinfo[w]).length \in Int
    BY DEF Holds, RecordOf, Record
  <1>4. \A a, b : ReindexedWord(d, old, text, w).docs = a
                  /\ ReindexedWord(d, old, text, w).length = b
                  => ReindexedWord(d, old, text, w) = [docs |-> a, length |-> b]
    BY DEF ReindexedWord
  <1>5. ASSUME old[w] > 0, text[w] > 0
        PROVE  ReindexedWord(d, old, text, w) =
                    Swapped(wordinfo[w], Score(d, old, w), Score(d, text, w))
    <2>1. /\ ReindexedWord(d, old, text, w).docs =
                (RecordOf(wordinfo[w]).docs \ {Score(d, old, w)}) \cup {Score(d, text, w)}
          /\ ReindexedWord(d, old, text, w).length = RecordOf(wordinfo[w]).length
      BY <1>1, <1>2, <1>3, <1>5 DEF ReindexedWord
    <2> QED
      BY <2>1, <1>4 DEF Swapped
  <1>6. ASSUME old[w] > 0, ~(text[w] > 0)
        PROVE  ReindexedWord(d, old, text, w) = Minus(wordinfo[w], Score(d, old, w))
    <2>1. text[w] = 0 /\ old[w] # 0
      BY <1>1, <1>6
    <2>2. /\ ReindexedWord(d, old, text, w).docs =
                RecordOf(wordinfo[w]).docs \ {Score(d, old, w)}
          /\ ReindexedWord(d, old, text, w).length = RecordOf(wordinfo[w]).length - 1
      BY <1>2, <1>3, <1>6, <2>1 DEF ReindexedWord
    <2> QED
      BY <2>2, <1>4 DEF Minus
  <1>7. ASSUME ~(old[w] > 0), text[w] > 0
        PROVE  ReindexedWord(d, old, text, w) = Plus(wordinfo[w], Score(d, text, w))
    <2>1. old[w] = 0 /\ text[w] # 0
      BY <1>1, <1>7
    <2>2. /\ ReindexedWord(d, old, text, w).docs =
                RecordOf(wordinfo[w]).docs \cup {Score(d, text, w)}
          /\ ReindexedWord(d, old, text, w).length = RecordOf(wordinfo[w]).length + 1
      BY <1>2, <1>3, <1>7, <2>1 DEF ReindexedWord
    <2> QED
      BY <2>2, <1>4 DEF Plus
  <1> QED
    BY <1>5, <1>6, <1>7

\* A new text of an indexed document (_reindex_doc): the old scores are found, the
\* words in both texts get another score, the others a document more or less.
LEMMA LuceneReindexes ==
    ASSUME LuceneInv, NEW d \in Docs, NEW text \in Text, ReindexDoc(d, text),
           keep_phrases = TRUE
    PROVE  LuceneInv'
  <1> DEFINE old == docwords[d]
             ws == WordsOf(old) \cup WordsOf(text)
  <1>1. CASE Raise
    BY <1>1, LuceneRaises
  <1>2. CASE ~Raise
    <2>1. /\ old # NoRecord /\ old \in Text
          /\ docwords' = [docwords EXCEPT ![d] = text]
      BY <1>2 DEF ReindexDoc, Encoded, LuceneInv
    <2>9. /\ wordinfo' = [w \in Words |->
                IF w \in ws THEN ReindexedWord(d, old, text, w) ELSE wordinfo[w]]
          /\ wordCount' = wordCount + NewWords(ws)
          /\ lost' = (lost \/ \E w \in WordsOf(old) : Score(d, old, w) \notin Doctree(w).docs)
          /\ UNCHANGED <<documentCount, raised>>
      BY <1>2 DEF ReindexDoc, Encoded, LuceneInv
    <2>2. docwords' \in [Docs -> Text \cup {NoRecord}]
      BY <2>1 DEF LuceneInv
    <2>3. text # NoRecord
      BY NoRecordIsNone
    <2>4. ASSUME NEW w \in Words PROVE WordHolds(wordinfo'[w], docwords', w)
      <3>1. WordHolds(wordinfo[w], docwords, w)
        BY DEF LuceneInv
      <3>2. Holds(wordinfo[w], PostingsOf(docwords, w))
        BY <3>1 DEF WordHolds
      <3>3. (In(old, w) <=> old[w] > 0) /\ (In(text, w) <=> text[w] > 0)
        BY <2>1, <2>3 DEF In
      <3>4. wordinfo'[w] = IF In(old, w) \/ In(text, w)
                           THEN ReindexedWord(d, old, text, w) ELSE wordinfo[w]
        BY <2>9, <3>3 DEF WordsOf
      <3>5. CASE In(old, w) /\ In(text, w)
        <4>1. WordHolds(Swapped(wordinfo[w], Score(d, old, w), Score(d, text, w)),
                        docwords', w)
          BY <2>1, <3>1, <3>5, WordChanged DEF LuceneInv
        <4>2. wordinfo'[w] = Swapped(wordinfo[w], Score(d, old, w), Score(d, text, w))
          BY <2>1, <3>2, <3>3, <3>4, <3>5, ReindexedCases
        <4> QED
          BY <4>1, <4>2
      <3>6. CASE In(old, w) /\ ~In(text, w)
        <4>1. WordHolds(Minus(wordinfo[w], Score(d, old, w)),
                        docwords', w)
          BY <2>1, <3>1, <3>6, WordChanged DEF LuceneInv
        <4>2. wordinfo'[w] = Minus(wordinfo[w], Score(d, old, w))
          BY <2>1, <3>2, <3>3, <3>4, <3>6, ReindexedCases
        <4> QED
          BY <4>1, <4>2
      <3>7. CASE ~In(old, w) /\ In(text, w)
        <4>1. WordHolds(Plus(wordinfo[w], Score(d, text, w)),
                        docwords', w)
          BY <2>1, <3>1, <3>7, WordChanged DEF LuceneInv
        <4>2. wordinfo'[w] = Plus(wordinfo[w], Score(d, text, w))
          BY <2>1, <3>2, <3>3, <3>4, <3>7, ReindexedCases
        <4> QED
          BY <4>1, <4>2
      <3>8. CASE ~In(old, w) /\ ~In(text, w)
        BY <2>1, <3>1, <3>4, <3>8, WordChanged DEF LuceneInv
      <3> QED
        BY <3>5, <3>6, <3>7, <3>8
    <2>5. lost' = FALSE
      <3>1. ASSUME NEW w \in WordsOf(old) PROVE Score(d, old, w) \in Doctree(w).docs
        <4>1. w \in Words /\ In(old, w)
          BY <2>1 DEF WordsOf, In
        <4>2. WordHolds(wordinfo[w], docwords, w)
          BY <4>1 DEF LuceneInv
        <4>3. Score(d, docwords[d], w) \in RecordOf(wordinfo[w]).docs
          BY <2>1, <4>1, <4>2, WordChanged DEF LuceneInv
        <4> QED
          BY <4>3 DEF Doctree, RecordOf
      <3> QED
        BY <2>9, <3>1 DEF LuceneInv
    <2>6. documentCount' = Cardinality(IndexedIn(docwords'))
      <3>1. DOMAIN docwords = Docs
        BY DEF LuceneInv
      <3>2. documentCount = Cardinality(IndexedIn(docwords))
        BY DEF LuceneInv, IndexedIn
      <3>3. IndexedIn(docwords') = IndexedIn(docwords)
        BY <2>1, <2>3, <3>1 DEF IndexedIn
      <3> QED
        BY <2>9, <3>2, <3>3
    <2>7. wordCount' \in Nat
      <3>1. NewWords(ws) \in Nat
        BY NewWordsType DEF WordsOf
      <3> QED
        BY <2>9, <3>1 DEF LuceneInv
    <2>8. DOMAIN wordinfo' = Words /\ UNCHANGED raised
      BY <2>9
    <2> QED
      BY <2>2, <2>4, <2>5, <2>6, <2>7, <2>8 DEF LuceneInv, IndexedIn
  <1> QED
    BY <1>1, <1>2

\* A document goes (unindex_doc); words of which it was the last lose their record.
LEMMA LuceneUnindexes ==
    ASSUME LuceneInv, NEW d \in Docs, UnindexDoc(d)
    PROVE  LuceneInv'
  <1> DEFINE old == docwords[d]
             ws == WordsOf(old)
  <1>1. CASE Raise
    BY <1>1, LuceneRaises
  <1>2. CASE ~Raise
    <2>1. /\ old # NoRecord /\ old \in Text
          /\ docwords' = [docwords EXCEPT ![d] = NoRecord]
      BY <1>2 DEF UnindexDoc, LuceneInv
    <2>2. /\ wordinfo' = [w \in Words |->
                IF w \in ws THEN UnindexedWord(d, old, w) ELSE wordinfo[w]]
          /\ wordCount' = wordCount + NewWords(ws)
          /\ documentCount' = documentCount - 1
          /\ UNCHANGED <<lost, raised>>
      BY <1>2 DEF UnindexDoc
    <2>3. docwords' \in [Docs -> Text \cup {NoRecord}]
      BY <2>1 DEF LuceneInv
    <2>4. ASSUME NEW w \in Words PROVE WordHolds(wordinfo'[w], docwords', w)
      <3>1. WordHolds(wordinfo[w], docwords, w)
        BY DEF LuceneInv
      <3>2. (In(old, w) <=> old[w] > 0) /\ ~In(NoRecord, w)
        BY <2>1 DEF In
      <3>3. Doctree(w) = RecordOf(wordinfo[w])
        BY DEF Doctree, RecordOf
      <3>4. CASE In(old, w)
        <4>1. /\ WordHolds(Minus(wordinfo[w], Score(d, old, w)), docwords', w)
              /\ RecordOf(wordinfo[w]).length = 1 => WordHolds(NoRecord, docwords', w)
          BY <2>1, <3>1, <3>2, <3>4, WordChanged DEF LuceneInv
        <4>2. wordinfo'[w] = IF RecordOf(wordinfo[w]).length = 1 THEN NoRecord
                             ELSE Minus(wordinfo[w], Score(d, old, w))
          BY <2>2, <3>2, <3>3, <3>4 DEF WordsOf, UnindexedWord, Minus
        <4> QED
          BY <4>1, <4>2
      <3>5. CASE ~In(old, w)
        <4>1. WordHolds(wordinfo[w], docwords', w)
          BY <2>1, <3>1, <3>2, <3>5, WordChanged DEF LuceneInv
        <4>2. wordinfo'[w] = wordinfo[w]
          BY <2>2, <3>2, <3>5 DEF WordsOf
        <4> QED
          BY <4>1, <4>2
      <3> QED
        BY <3>4, <3>5
    <2>5. documentCount' = Cardinality(IndexedIn(docwords'))
      <3>1. documentCount = Cardinality(IndexedIn(docwords))
        BY DEF LuceneInv, IndexedIn
      <3>2. IndexedIn(docwords') = IndexedIn(docwords) \ {d} /\ d \in IndexedIn(docwords)
        BY <2>1 DEF IndexedIn, LuceneInv
      <3> QED
        BY <2>2, <3>1, <3>2, IndexedFinite, FS_RemoveElement
    <2>6. wordCount' \in Nat
      <3>1. NewWords(ws) \in Nat
        BY NewWordsType DEF WordsOf
      <3> QED
        BY <2>2, <3>1 DEF LuceneInv
    <2>7. DOMAIN wordinfo' = Words /\ UNCHANGED <<lost, raised>>
      BY <2>2
    <2> QED
      BY <2>3, <2>4, <2>5, <2>6, <2>7 DEF LuceneInv, IndexedIn
  <1> QED
    BY <1>1, <1>2

\* What changes no variable of the index keeps its invariant.
LEMMA LuceneStutters == LuceneInv /\ UNCHANGED vars => LuceneInv'
  <1> SUFFICES ASSUME LuceneInv, UNCHANGED vars PROVE LuceneInv'
    OBVIOUS
  <1>1. /\ wordinfo' = wordinfo /\ docwords' = docwords
        /\ wordCount' = wordCount /\ documentCount' = documentCount
        /\ lost' = lost /\ raised' = raised
    BY DEF vars
  <1>2. \A w \in Words : WordHolds(wordinfo'[w], docwords', w)
    BY <1>1 DEF LuceneInv
  <1>3. documentCount' = Cardinality(IndexedIn(docwords'))
    BY <1>1 DEF LuceneInv, IndexedIn
  <1> QED
    BY <1>1, <1>2, <1>3 DEF LuceneInv, IndexedIn

\* The postings of every word are exactly the documents that contain it, with the
\* scores of their present texts; a replaced score was there; Length and
\* documentCount are right.  The index has to keep repeated words: without
\* keep_phrases the scores computed from _docwords are those of another text
\* (index_doc, _reindex_doc, unindex_doc of IncrementalLuceneIndex).
THEOREM PostingsMatch ==
    ASSUME keep_phrases = TRUE
    PROVE  SpecBoth => []PostingsMatchDocs
  <1>1. InitBoth => LuceneInv
    BY LuceneStarts DEF InitBoth
  <1>2. LuceneInv /\ [NextBoth]_<<vars, okapi, not_indexed>> => LuceneInv'
    <2> SUFFICES ASSUME LuceneInv, [NextBoth]_<<vars, okapi, not_indexed>>
                 PROVE  LuceneInv'
      OBVIOUS
    <2>1. ASSUME NEW d \in Docs, TakeOut(d) PROVE LuceneInv'
      <3>1. CASE UnindexDoc(d)
        BY <3>1, LuceneUnindexes
      <3>2. CASE UNCHANGED vars
        BY <3>2, LuceneStutters
      <3> QED
        BY <2>1, <3>1, <3>2 DEF TakeOut
    <2>2. ASSUME NEW d \in Docs, UnindexBoth(d) PROVE LuceneInv'
      BY <2>1, <2>2 DEF UnindexBoth
    <2>3. ASSUME NEW d \in Docs, IndexMissing(d) PROVE LuceneInv'
      BY <2>1, <2>3 DEF IndexMissing
    <2>4. ASSUME NEW d \in Docs, NEW text \in Text, IndexBoth(d, text) PROVE LuceneInv'
      BY <2>4, LuceneIndexes DEF IndexBoth
    <2>5. ASSUME NEW d \in Docs, NEW text \in Text, ReindexBoth(d, text) PROVE LuceneInv'
      BY <2>5, LuceneReindexes DEF ReindexBoth
    <2>6. CASE UNCHANGED <<vars, okapi, not_indexed>>
      BY <2>6, LuceneStutters
    <2> QED
      BY <2>2, <2>3, <2>4, <2>5, <2>6 DEF NextBoth
  <1> QED
    BY <1>1, <1>2, LuceneInvIsProperty, PTL DEF SpecBoth

-----------------------------------------------------------------------------
(* The Okapi index. *)

\* The instance counts as FiniteSets does.
LEMMA SameCount == \A S : Okapi!Cardinality(S) = Cardinality(S)
  BY DEF Okapi!Cardinality, Cardinality, Okapi!IsFiniteSet, IsFiniteSet

\* A record of the Okapi index that holds the weights h
Weighs(info, h) ==
    IF DOMAIN h = {} THEN info = NoRecord
    ELSE /\ info \in OkapiRecord
         /\ info.docs = h
         /\ info.form = "dict" => Cardinality(DOMAIN h) <= DICT_CUTOFF

\* One element more or less
LEMMA OneMore ==
    ASSUME NEW S, IsFiniteSet(S), NEW x
    PROVE  /\ Cardinality(S) \in Nat
           /\ Cardinality(S \cup {x}) \in Nat /\ Cardinality(S \cup {x}) <= Cardinality(S) + 1
           /\ Cardinality(S \ {x}) \in Nat /\ Cardinality(S \ {x}) <= Cardinality(S)
  <1>1. IsFiniteSet(S \cup {x}) /\ IsFiniteSet(S \ {x})
    BY FS_AddElement, FS_RemoveElement
  <1>2. /\ Cardinality(S) \in Nat
        /\ Cardinality(S \cup {x}) \in Nat
        /\ Cardinality(S \ {x}) \in Nat
    BY <1>1, FS_CardinalityType
  <1>3. CASE x \in S
    <2>1. Cardinality(S \cup {x}) = Cardinality(S)
      BY <1>3, FS_AddElement
    <2>2. Cardinality(S \ {x}) = Cardinality(S) - 1
      BY <1>3, FS_RemoveElement
    <2> QED
      BY <1>2, <2>1, <2>2
  <1>4. CASE x \notin S
    <2>1. Cardinality(S \ {x}) = Cardinality(S)
      BY <1>4, FS_RemoveElement
    <2>2. Cardinality(S \cup {x}) = Cardinality(S) + 1
      BY <1>4, FS_AddElement
    <2> QED
      BY <1>2, <2>1, <2>2
  <1> QED
    BY <1>3, <1>4

\* doc2score[docid] = weight, with the change of form when the dict is full
\* (_add_wordinfo, _mass_add_wordinfo).
LEMMA WithDocWeighs ==
    ASSUME NEW info, NEW h \in Weights, Weighs(info, h),
           NEW d \in Docs, NEW x \in 1 .. MaxCount,
           NEW g, g = [e \in DOMAIN h \cup {d} |-> IF e = d THEN x ELSE h[e]]
    PROVE  Weighs(Okapi!WithDoc(info, d, x), g)
  <1>1. DOMAIN h \in SUBSET Docs /\ h \in [DOMAIN h -> 1 .. MaxCount]
    BY DEF Weights
  <1>2. IsFiniteSet(DOMAIN h) /\ Cardinality(DOMAIN h) \in Nat
    BY <1>1, FiniteAssumption, FS_Subset, FS_CardinalityType
  <1>3. DOMAIN g = DOMAIN h \cup {d} /\ DOMAIN g # {}
    OBVIOUS
  <1>4. g \in Weights
    <2>1. DOMAIN g \in SUBSET Docs /\ g \in [DOMAIN g -> 1 .. MaxCount]
      BY <1>1, <1>3
    <2> QED
      BY <2>1 DEF Weights
  <1>5. CASE DOMAIN h = {}
    <2>1. info = NoRecord
      BY <1>5 DEF Weighs
    <2>2. [e \in {d} |-> x] = g
      BY <1>3, <1>5
    <2>3. Okapi!WithDoc(info, d, x) = [form |-> "dict", docs |-> g]
      BY <2>1, <2>2 DEF Okapi!WithDoc
    <2>4. Cardinality(DOMAIN g) <= DICT_CUTOFF
      <3>1. DOMAIN g = {d}
        BY <1>3, <1>5
      <3> QED
        BY <3>1, FS_Singleton, CutoffType
    <2> QED
      BY <1>3, <1>4, <2>3, <2>4 DEF Weighs, OkapiRecord
  <1>6. CASE DOMAIN h # {}
    <2>1. /\ info \in OkapiRecord /\ info.docs = h /\ info # NoRecord
          /\ info.form = "dict" => Cardinality(DOMAIN h) <= DICT_CUTOFF
      BY <1>6, NoOkapiRecordIsNone DEF Weighs
    <2> DEFINE form == IF info.form = "dict" /\ Cardinality(DOMAIN h) = DICT_CUTOFF
                       THEN "BTree" ELSE info.form
    <2>2. Okapi!WithDoc(info, d, x) = [form |-> form, docs |-> g]
      <3>1. [e \in DOMAIN info.docs \cup {d} |-> IF e = d THEN x ELSE info.docs[e]] = g
        BY <2>1
      <3>2. Okapi!WithDoc(info, d, x) =
                [form |-> IF info.form = "dict" /\ Cardinality(DOMAIN info.docs) = DICT_CUTOFF
                          THEN "BTree" ELSE info.form,
                 docs |-> [e \in DOMAIN info.docs \cup {d} |->
                                IF e = d THEN x ELSE info.docs[e]]]
        <4>1. info # NoRecord
          BY <2>1
        <4>2. Okapi!Cardinality(DOMAIN info.docs) = Cardinality(DOMAIN info.docs)
          BY SameCount
        <4> QED
          BY <4>1, <4>2 DEF Okapi!WithDoc
      <3>3. DOMAIN info.docs = DOMAIN h
        BY <2>1
      <3> QED
        BY <3>1, <3>2, <3>3, Zenon
    <2>3. form \in {"dict", "BTree"}
      BY <2>1 DEF OkapiRecord
    <2>4. form = "dict" => Cardinality(DOMAIN h) < DICT_CUTOFF
      BY <1>2, <2>1, CutoffType
    <2>5. Cardinality(DOMAIN g) <= Cardinality(DOMAIN h) + 1 /\ Cardinality(DOMAIN g) \in Nat
      <3>1. /\ Cardinality(DOMAIN h \cup {d}) <= Cardinality(DOMAIN h) + 1
            /\ Cardinality(DOMAIN h \cup {d}) \in Nat
        BY <1>2, OneMore
      <3> QED
        BY <1>3, <3>1
    <2> HIDE DEF form
    <2>6. form = "dict" => Cardinality(DOMAIN g) <= DICT_CUTOFF
      BY <1>2, <2>4, <2>5, CutoffType
    <2> QED
      BY <1>3, <1>4, <2>2, <2>3, <2>6 DEF Weighs, OkapiRecord
  <1> QED
    BY <1>5, <1>6

\* A document goes; the last one takes the record with it (_del_wordinfo).
LEMMA WithoutDocWeighs ==
    ASSUME NEW info, NEW h \in Weights, Weighs(info, h), NEW d \in DOMAIN h,
           NEW g, g = [e \in DOMAIN h \ {d} |-> h[e]]
    PROVE  Weighs(Okapi!WithoutDoc(info, d), g)
  <1>1. DOMAIN h \in SUBSET Docs /\ h \in [DOMAIN h -> 1 .. MaxCount]
    BY DEF Weights
  <1>2. IsFiniteSet(DOMAIN h) /\ Cardinality(DOMAIN h) \in Nat
    BY <1>1, FiniteAssumption, FS_Subset, FS_CardinalityType
  <1>3. DOMAIN g = DOMAIN h \ {d}
    OBVIOUS
  <1>4. g \in Weights
    <2>1. DOMAIN g \in SUBSET Docs /\ g \in [DOMAIN g -> 1 .. MaxCount]
      BY <1>1, <1>3
    <2> QED
      BY <2>1 DEF Weights
  <1>5. /\ info \in OkapiRecord /\ info.docs = h
        /\ info.form = "dict" => Cardinality(DOMAIN h) <= DICT_CUTOFF
    BY DEF Weighs
  <1>6. CASE DOMAIN h = {d}
    BY <1>3, <1>5, <1>6 DEF Weighs, Okapi!WithoutDoc
  <1>7. CASE DOMAIN h # {d}
    <2>1. DOMAIN g # {}
      BY <1>3, <1>7
    <2>2. Okapi!WithoutDoc(info, d) = [form |-> info.form, docs |-> g]
      BY <1>5, <1>7 DEF Okapi!WithoutDoc, Okapi!Restrict, OkapiRecord
    <2>3. Cardinality(DOMAIN g) <= Cardinality(DOMAIN h) /\ Cardinality(DOMAIN g) \in Nat
      <3>1. /\ Cardinality(DOMAIN h \ {d}) <= Cardinality(DOMAIN h)
            /\ Cardinality(DOMAIN h \ {d}) \in Nat
        BY <1>2, OneMore
      <3> QED
        BY <1>3, <3>1
    <2> QED
      BY <1>2, <1>4, <1>5, <2>1, <2>2, <2>3, CutoffType DEF Weighs, OkapiRecord
  <1> QED
    BY <1>6, <1>7

\* The weights of a word, from the texts of _docwords
WeightsOf(dw, w) == [d \in {e \in Docs : In(dw[e], w)} |-> dw[d][w]]

\* The weights of a word are numbers of occurrences.
LEMMA WeightsType ==
    ASSUME NEW dw \in [Docs -> Text \cup {NoRecord}], NEW w \in Words
    PROVE  WeightsOf(dw, w) \in Weights
  <1> DEFINE S == {e \in Docs : In(dw[e], w)}
  <1>1. S \in SUBSET Docs
    OBVIOUS
  <1>2. \A e \in S : dw[e][w] \in 1 .. MaxCount
    BY MaxCountType DEF In, Text
  <1>3. WeightsOf(dw, w) \in [S -> 1 .. MaxCount]
    BY <1>2 DEF WeightsOf
  <1> QED
    BY <1>1, <1>3 DEF Weights

\* The record of a word after the text of one document has changed
LEMMA WeightChanged ==
    ASSUME NEW dw \in [Docs -> Text \cup {NoRecord}], NEW d \in Docs, NEW w \in Words,
           NEW text \in Text \cup {NoRecord}, NEW new, new = [dw EXCEPT ![d] = text],
           NEW info, Weighs(info, WeightsOf(dw, w))
    PROVE  /\ In(text, w) => Weighs(Okapi!WithDoc(info, d, text[w]), WeightsOf(new, w))
           /\ In(dw[d], w) /\ ~In(text, w) =>
                Weighs(Okapi!WithoutDoc(info, d), WeightsOf(new, w))
           /\ ~In(dw[d], w) /\ ~In(text, w) => Weighs(info, WeightsOf(new, w))
           /\ In(dw[d], w) /\ In(text, w) /\ text[w] = dw[d][w] =>
                Weighs(info, WeightsOf(new, w))
  <1> DEFINE h == WeightsOf(dw, w)
             g == WeightsOf(new, w)
  <1>1. h \in Weights
    BY WeightsType
  <1>2. /\ DOMAIN h = {e \in Docs : In(dw[e], w)} /\ \A e \in DOMAIN h : h[e] = dw[e][w]
        /\ DOMAIN g = {e \in Docs : In(new[e], w)} /\ \A e \in DOMAIN g : g[e] = new[e][w]
    BY DEF WeightsOf
  <1>3. \A e \in Docs : new[e] = IF e = d THEN text ELSE dw[e]
    OBVIOUS
  <1>4. /\ g = [e \in DOMAIN g |-> g[e]]
        /\ h = [e \in DOMAIN h |-> h[e]]
    BY DEF WeightsOf
  <1> HIDE DEF h, g
  <1>5. ASSUME In(text, w)
        PROVE  Weighs(Okapi!WithDoc(info, d, text[w]), g)
    <2>1. DOMAIN g = DOMAIN h \cup {d}
      BY <1>2, <1>3, <1>5
    <2>2. \A e \in DOMAIN g : g[e] = IF e = d THEN text[w] ELSE h[e]
      BY <1>2, <1>3, <2>1
    <2>3. g = [e \in DOMAIN h \cup {d} |-> IF e = d THEN text[w] ELSE h[e]]
      BY <1>4, <2>1, <2>2
    <2>4. text[w] \in 1 .. MaxCount
      BY <1>5, MaxCountType DEF In, Text
    <2> QED
      BY <1>1, <2>3, <2>4, WithDocWeighs DEF h
  <1>6. ASSUME In(dw[d], w), ~In(text, w)
        PROVE  Weighs(Okapi!WithoutDoc(info, d), g)
    <2>1. DOMAIN g = DOMAIN h \ {d} /\ d \in DOMAIN h
      BY <1>2, <1>3, <1>6
    <2>2. \A e \in DOMAIN g : g[e] = h[e]
      BY <1>2, <1>3, <2>1
    <2>3. g = [e \in DOMAIN h \ {d} |-> h[e]]
      BY <1>4, <2>1, <2>2
    <2> QED
      BY <1>1, <2>1, <2>3, WithoutDocWeighs DEF h
  <1>7. ASSUME \/ ~In(dw[d], w) /\ ~In(text, w)
               \/ In(dw[d], w) /\ In(text, w) /\ text[w] = dw[d][w]
        PROVE  Weighs(info, g)
    <2>1. DOMAIN g = DOMAIN h
      BY <1>2, <1>3, <1>7
    <2>2. \A e \in DOMAIN g : g[e] = h[e]
      BY <1>2, <1>3, <1>7, <2>1
    <2>3. g = h
      BY <1>4, <2>1, <2>2
    <2> QED
      BY <2>3 DEF h
  <1> QED
    BY <1>5, <1>6, <1>7 DEF g

Recorded(f) == {w \in Words : f[w] # NoRecord}

\* wordCount follows the records that come and go (_add_wordinfo, _del_wordinfo).
LEMMA GainedCounts ==
    ASSUME NEW new
    PROVE  /\ Cardinality(Recorded(o_wordinfo)) \in Nat
           /\ Cardinality(Recorded(new)) =
                Cardinality(Recorded(o_wordinfo)) + Okapi!Gained(new)
  <1> DEFINE A == Recorded(o_wordinfo)
             B == Recorded(new)
  <1>1. IsFiniteSet(A) /\ IsFiniteSet(B)
    BY FiniteAssumption, FS_Subset DEF Recorded
  <1>2. /\ {w \in Words : o_wordinfo[w] = NoRecord /\ new[w] # NoRecord} = B \ A
        /\ {w \in Words : o_wordinfo[w] # NoRecord /\ new[w] = NoRecord} = A \ B
    BY DEF Recorded
  <1>3. Okapi!Gained(new) = Cardinality(B \ A) - Cardinality(A \ B)
    BY <1>2, SameCount DEF Okapi!Gained
  <1> HIDE DEF A, B
  <1>4. A \cap B = B \cap A
    OBVIOUS
  <1>5. Cardinality(B \ A) = Cardinality(B) - Cardinality(B \cap A)
    BY <1>1, FS_Difference
  <1>6. Cardinality(A \ B) = Cardinality(A) - Cardinality(B \cap A)
    <2>1. Cardinality(A \ B) = Cardinality(A) - Cardinality(A \cap B)
      BY <1>1, FS_Difference
    <2> QED
      BY <1>4, <2>1
  <1>7. /\ Cardinality(A) \in Nat /\ Cardinality(B) \in Nat
        /\ Cardinality(B \cap A) \in Nat
    BY <1>1, FS_CardinalityType, FS_Subset
  <1> QED
    BY <1>3, <1>5, <1>6, <1>7 DEF A, B

OkapiInv ==
    /\ o_docwords \in [Docs -> Text \cup {NoRecord}]
    /\ DOMAIN o_wordinfo = Words /\ DOMAIN o_docweight = Docs
    /\ \A w \in Words : Weighs(o_wordinfo[w], WeightsOf(o_docwords, w))
    /\ o_wordCount = Cardinality(Recorded(o_wordinfo))
    /\ o_documentCount = Cardinality(IndexedIn(o_docwords))
    /\ \A d \in IndexedIn(o_docwords) : o_docweight[d] = Okapi!DocLength(o_docwords[d])

\* What the indexes remember of the documents without a value
MissingInv ==
    /\ DOMAIN docwords = Docs /\ not_indexed \subseteq Docs
    /\ \A d \in not_indexed : docwords[d] = NoRecord

\* What the invariants say is the property.
LEMMA OkapiInvIsProperty == OkapiInv /\ MissingInv => WeightsMatchDocs
  <1> SUFFICES ASSUME OkapiInv, MissingInv PROVE WeightsMatchDocs
    OBVIOUS
  <1>1. ASSUME NEW w \in Words
        PROVE  /\ WeightsOf(o_docwords, w) = [d \in Okapi!Having(w) |-> o_docwords[d][w]]
               /\ DOMAIN WeightsOf(o_docwords, w) = Okapi!Having(w)
    <2>1. {e \in Docs : In(o_docwords[e], w)} = Okapi!Having(w)
      BY DEF Okapi!Having, Okapi!Indexed, In
    <2> QED
      BY <2>1 DEF WeightsOf
  <1>2. ASSUME NEW w \in Words
        PROVE  IF Okapi!Having(w) = {} THEN o_wordinfo[w] = NoRecord
               ELSE /\ o_wordinfo[w].docs = [d \in Okapi!Having(w) |-> o_docwords[d][w]]
                    /\ o_wordinfo[w].form = "dict" =>
                            Okapi!Cardinality(Okapi!Having(w)) <= DICT_CUTOFF
    BY <1>1, SameCount DEF OkapiInv, Weighs
  <1>3. /\ o_wordCount = Okapi!Cardinality({w \in Words : o_wordinfo[w] # NoRecord})
        /\ o_documentCount = Okapi!Cardinality(Okapi!Indexed)
    BY SameCount DEF OkapiInv, Recorded, IndexedIn, Okapi!Indexed
  <1>4. \A d \in Okapi!Indexed : o_docweight[d] = Okapi!DocLength(o_docwords[d])
    BY DEF OkapiInv, IndexedIn, Okapi!Indexed
  <1>5. Okapi!WeightsMatchDocs
    BY <1>2, <1>3, <1>4 DEF Okapi!WeightsMatchDocs
  <1> QED
    BY <1>5 DEF WeightsMatchDocs, MissingInv

\* An index that has just been made (the constructor of the base class).
LEMMA OkapiStarts == Okapi!Init => OkapiInv
  <1> SUFFICES ASSUME Okapi!Init PROVE OkapiInv
    OBVIOUS
  <1>1. ASSUME NEW w \in Words PROVE Weighs(o_wordinfo[w], WeightsOf(o_docwords, w))
    <2>1. {e \in Docs : In(o_docwords[e], w)} = {}
      BY DEF Okapi!Init, In
    <2>2. DOMAIN WeightsOf(o_docwords, w) = {}
      BY <2>1 DEF WeightsOf
    <2> QED
      BY <2>2 DEF Weighs, Okapi!Init
  <1>2. Recorded(o_wordinfo) = {} /\ IndexedIn(o_docwords) = {}
    BY DEF Recorded, IndexedIn, Okapi!Init
  <1> QED
    BY <1>1, <1>2, FS_EmptySet DEF OkapiInv, Okapi!Init

\* The conjuncts that every operation keeps in the same way: it replaces the text
\* of one document and gives every word its new record.
LEMMA OkapiKept ==
    ASSUME OkapiInv, NEW d \in Docs, NEW text \in Text \cup {NoRecord}, NEW new,
           o_docwords' = [o_docwords EXCEPT ![d] = text], DOMAIN new = Words,
           \A w \in Words : Weighs(new[w], WeightsOf(o_docwords', w)),
           Okapi!SetWordinfo(new), NEW len, o_docweight' = [o_docweight EXCEPT ![d] = len],
           text # NoRecord => len = Okapi!DocLength(text),
           o_documentCount' = Cardinality(IndexedIn(o_docwords'))
    PROVE  OkapiInv'
  <1>1. o_docwords' \in [Docs -> Text \cup {NoRecord}]
    BY DEF OkapiInv
  <1>2. o_wordinfo' = new /\ o_wordCount' = o_wordCount + Okapi!Gained(new)
    BY DEF Okapi!SetWordinfo
  <1>3. \A w \in Words : Weighs(o_wordinfo'[w], WeightsOf(o_docwords', w))
    BY <1>2
  <1>4. o_wordCount' = Cardinality(Recorded(o_wordinfo'))
    BY <1>2, GainedCounts DEF OkapiInv
  <1>5. \A e \in IndexedIn(o_docwords') : o_docweight'[e] = Okapi!DocLength(o_docwords'[e])
    <2> TAKE e \in IndexedIn(o_docwords')
    <2>1. e \in Docs /\ o_docwords'[e] # NoRecord
      BY DEF IndexedIn
    <2>2. CASE e = d
      BY <2>1, <2>2 DEF OkapiInv
    <2>3. CASE e # d
      <3>1. o_docwords'[e] = o_docwords[e] /\ o_docweight'[e] = o_docweight[e]
        BY <2>1, <2>3 DEF OkapiInv
      <3>2. e \in IndexedIn(o_docwords)
        BY <2>1, <3>1 DEF IndexedIn
      <3> QED
        BY <3>1, <3>2 DEF OkapiInv
    <2> QED
      BY <2>2, <2>3
  <1>6. DOMAIN o_wordinfo' = Words /\ DOMAIN o_docweight' = Docs
    BY <1>2 DEF OkapiInv
  <1> QED
    BY <1>1, <1>3, <1>4, <1>5, <1>6
       DEF OkapiInv

\* A new document (index_doc, _mass_add_wordinfo).
LEMMA OkapiIndexes ==
    ASSUME OkapiInv, NEW d \in Docs, NEW text \in Text, Okapi!IndexDoc(d, text)
    PROVE  OkapiInv'
  <1> DEFINE new == [w \in Words |-> IF text[w] > 0 THEN Okapi!WithDoc(o_wordinfo[w], d, text[w])
                                     ELSE o_wordinfo[w]]
  <1>1. /\ o_docwords[d] = NoRecord /\ text # NoRecord
        /\ o_docwords' = [o_docwords EXCEPT ![d] = text]
    BY NoRecordIsNone DEF Okapi!IndexDoc
  <1>2. /\ Okapi!SetWordinfo(new)
        /\ o_docweight' = [o_docweight EXCEPT ![d] = Okapi!DocLength(text)]
        /\ o_documentCount' = o_documentCount + 1
    BY DEF Okapi!IndexDoc
  <1>3. ASSUME NEW w \in Words PROVE Weighs(new[w], WeightsOf(o_docwords', w))
    <2>1. Weighs(o_wordinfo[w], WeightsOf(o_docwords, w))
      BY DEF OkapiInv
    <2>2. (In(text, w) <=> text[w] > 0) /\ ~In(o_docwords[d], w)
      BY <1>1 DEF In
    <2>3. CASE In(text, w)
      <3>1. Weighs(Okapi!WithDoc(o_wordinfo[w], d, text[w]), WeightsOf(o_docwords', w))
        BY <1>1, <2>1, <2>3, WeightChanged DEF OkapiInv
      <3> QED
        BY <2>2, <2>3, <3>1
    <2>4. CASE ~In(text, w)
      <3>1. Weighs(o_wordinfo[w], WeightsOf(o_docwords', w))
        BY <1>1, <2>1, <2>2, <2>4, WeightChanged DEF OkapiInv
      <3> QED
        BY <2>2, <2>4, <3>1
    <2> QED
      BY <2>3, <2>4
  <1>4. o_documentCount' = Cardinality(IndexedIn(o_docwords'))
    <2>1. /\ IndexedIn(o_docwords') = IndexedIn(o_docwords) \cup {d}
          /\ d \notin IndexedIn(o_docwords)
      BY <1>1 DEF IndexedIn, OkapiInv
    <2>2. o_documentCount = Cardinality(IndexedIn(o_docwords))
      BY DEF OkapiInv
    <2> QED
      BY <1>2, <2>1, <2>2, IndexedFinite, FS_AddElement
  <1>5. DOMAIN new = Words
    OBVIOUS
  <1> HIDE DEF new
  <1> QED
    BY <1>1, <1>2, <1>3, <1>4, <1>5, OkapiKept

\* A new text of an indexed document (_reindex_doc): a word that stays with another
\* number of occurrences is overwritten, one with the same number is not touched.
LEMMA OkapiReindexes ==
    ASSUME OkapiInv, NEW d \in Docs, NEW text \in Text, Okapi!ReindexDoc(d, text)
    PROVE  OkapiInv'
  <1> DEFINE old == o_docwords[d]
             new == [w \in Words |-> Okapi!Reindexed(o_wordinfo[w], d, old[w], text[w])]
  <1>1. /\ old # NoRecord /\ old \in Text /\ text # NoRecord
        /\ o_docwords' = [o_docwords EXCEPT ![d] = text]
    BY NoRecordIsNone DEF Okapi!ReindexDoc, OkapiInv
  <1>2. /\ Okapi!SetWordinfo(new)
        /\ o_docweight' = [o_docweight EXCEPT ![d] = Okapi!DocLength(text)]
        /\ o_documentCount' = o_documentCount
    BY DEF Okapi!ReindexDoc
  <1>3. ASSUME NEW w \in Words PROVE Weighs(new[w], WeightsOf(o_docwords', w))
    <2>1. Weighs(o_wordinfo[w], WeightsOf(o_docwords, w))
      BY DEF OkapiInv
    <2>2. /\ In(text, w) <=> text[w] > 0
          /\ In(old, w) <=> old[w] > 0
          /\ old[w] \in Nat /\ text[w] \in Nat
      BY <1>1, MaxCountType DEF In, Text
    <2>3. CASE In(text, w) /\ text[w] # old[w]
      <3>1. Weighs(Okapi!WithDoc(o_wordinfo[w], d, text[w]), WeightsOf(o_docwords', w))
        BY <1>1, <2>1, <2>3, WeightChanged DEF OkapiInv
      <3>2. new[w] = Okapi!WithDoc(o_wordinfo[w], d, text[w])
        BY <2>2, <2>3 DEF Okapi!Reindexed
      <3> QED
        BY <3>1, <3>2
    <2>4. CASE In(old, w) /\ ~In(text, w)
      <3>1. Weighs(Okapi!WithoutDoc(o_wordinfo[w], d), WeightsOf(o_docwords', w))
        BY <1>1, <2>1, <2>4, WeightChanged DEF OkapiInv
      <3>2. new[w] = Okapi!WithoutDoc(o_wordinfo[w], d)
        BY <2>2, <2>4 DEF Okapi!Reindexed
      <3> QED
        BY <3>1, <3>2
    <2>5. CASE \/ ~In(old, w) /\ ~In(text, w)
               \/ In(text, w) /\ text[w] = old[w]
      <3>1. Weighs(o_wordinfo[w], WeightsOf(o_docwords', w))
        BY <1>1, <2>1, <2>2, <2>5, WeightChanged DEF OkapiInv
      <3>2. new[w] = o_wordinfo[w]
        BY <2>2, <2>5 DEF Okapi!Reindexed
      <3> QED
        BY <3>1, <3>2
    <2> QED
      BY <2>3, <2>4, <2>5
  <1>4. o_documentCount' = Cardinality(IndexedIn(o_docwords'))
    <2>1. IndexedIn(o_docwords') = IndexedIn(o_docwords)
      BY <1>1 DEF IndexedIn, OkapiInv
    <2> QED
      BY <1>2, <2>1 DEF OkapiInv
  <1>5. DOMAIN new = Words
    OBVIOUS
  <1> HIDE DEF new
  <1> QED
    BY <1>1, <1>2, <1>3, <1>4, <1>5, OkapiKept

\* A document goes (unindex_doc, _del_wordinfo).
LEMMA OkapiUnindexes ==
    ASSUME OkapiInv, NEW d \in Docs, Okapi!UnindexDoc(d)
    PROVE  OkapiInv'
  <1> DEFINE old == o_docwords[d]
             new == [w \in Words |-> IF old[w] > 0 THEN Okapi!WithoutDoc(o_wordinfo[w], d)
                                     ELSE o_wordinfo[w]]
  <1>1. /\ old # NoRecord
        /\ o_docwords' = [o_docwords EXCEPT ![d] = NoRecord]
    BY DEF Okapi!UnindexDoc
  <1>2. /\ Okapi!SetWordinfo(new)
        /\ o_docweight' = [o_docweight EXCEPT ![d] = NoRecord]
        /\ o_documentCount' = o_documentCount - 1
    BY DEF Okapi!UnindexDoc
  <1>3. ASSUME NEW w \in Words PROVE Weighs(new[w], WeightsOf(o_docwords', w))
    <2>1. Weighs(o_wordinfo[w], WeightsOf(o_docwords, w))
      BY DEF OkapiInv
    <2>2. (In(old, w) <=> old[w] > 0) /\ ~In(NoRecord, w)
      BY <1>1 DEF In
    <2>3. CASE In(old, w)
      <3>1. Weighs(Okapi!WithoutDoc(o_wordinfo[w], d), WeightsOf(o_docwords', w))
        BY <1>1, <2>1, <2>2, <2>3, WeightChanged DEF OkapiInv
      <3> QED
        BY <2>2, <2>3, <3>1
    <2>4. CASE ~In(old, w)
      <3>1. Weighs(o_wordinfo[w], WeightsOf(o_docwords', w))
        BY <1>1, <2>1, <2>2, <2>4, WeightChanged DEF OkapiInv
      <3> QED
        BY <2>2, <2>4, <3>1
    <2> QED
      BY <2>3, <2>4
  <1>4. o_documentCount' = Cardinality(IndexedIn(o_docwords'))
    <2>1. /\ IndexedIn(o_docwords') = IndexedIn(o_docwords) \ {d}
          /\ d \in IndexedIn(o_docwords)
      BY <1>1 DEF IndexedIn, OkapiInv
    <2>2. o_documentCount = Cardinality(IndexedIn(o_docwords))
      BY DEF OkapiInv
    <2> QED
      BY <1>2, <2>1, <2>2, IndexedFinite, FS_RemoveElement
  <1>5. DOMAIN new = Words
    OBVIOUS
  <1> HIDE DEF new
  <1> QED
    BY <1>1, <1>2, <1>3, <1>4, <1>5, OkapiKept

\* What changes no variable of the index keeps its invariant.
LEMMA OkapiStutters == OkapiInv /\ UNCHANGED okapi => OkapiInv'
  <1> SUFFICES ASSUME OkapiInv, UNCHANGED okapi PROVE OkapiInv'
    OBVIOUS
  <1>1. /\ o_wordinfo' = o_wordinfo /\ o_docweight' = o_docweight
        /\ o_docwords' = o_docwords /\ o_wordCount' = o_wordCount
        /\ o_documentCount' = o_documentCount
    BY DEF okapi
  <1> QED
    BY <1>1 DEF OkapiInv

-----------------------------------------------------------------------------
(* Documents without a value. *)

\* Indexing and reindexing store a text of a document and drop the document from
\* the ones without a value; an exception changes neither.
LEMMA MissingStored ==
    ASSUME MissingInv, NEW d \in Docs, NEW text,
           docwords' = [docwords EXCEPT ![d] = text], not_indexed' = not_indexed \ {d}
    PROVE  MissingInv'
  BY DEF MissingInv

\* So does everything that touches neither.
LEMMA MissingStutters ==
    ASSUME MissingInv, UNCHANGED <<docwords, not_indexed>>
    PROVE  MissingInv'
  BY DEF MissingInv

\* What TakeOut leaves: nothing has changed, or the document is not indexed.
LEMMA TakenOutIsOut ==
    ASSUME NEW d \in Docs, TakeOut(d)
    PROVE  \/ UNCHANGED docwords /\ (raised' \/ docwords[d] = NoRecord)
           \/ ~raised' /\ docwords' = [docwords EXCEPT ![d] = NoRecord]
  <1>1. CASE docwords[d] = NoRecord
    BY <1>1 DEF TakeOut, vars
  <1>2. CASE docwords[d] # NoRecord
    <2>1. UnindexDoc(d)
      BY <1>2 DEF TakeOut
    <2> QED
      BY <2>1 DEF UnindexDoc, Raise
  <1> QED
    BY <1>1, <1>2

\* No operation makes a document both indexed and one without a value (index_doc,
\* unindex_doc of the mixin).
LEMMA MissingKept ==
    ASSUME MissingInv, [NextBoth]_<<vars, okapi, not_indexed>>
    PROVE  MissingInv'
  <1>1. ASSUME NEW d \in Docs, UnindexBoth(d) PROVE MissingInv'
    BY <1>1, TakenOutIsOut DEF UnindexBoth, MissingInv
  <1>2. ASSUME NEW d \in Docs, IndexMissing(d) PROVE MissingInv'
    BY <1>2, TakenOutIsOut DEF IndexMissing, MissingInv
  <1>3. ASSUME NEW d \in Docs, NEW text \in Text, IndexBoth(d, text) PROVE MissingInv'
    BY <1>3, MissingStored DEF IndexBoth, IndexDoc
  <1>4. ASSUME NEW d \in Docs, NEW text \in Text, ReindexBoth(d, text) PROVE MissingInv'
    <2>1. CASE Raise
      BY <1>4, <2>1, MissingStutters DEF ReindexBoth, Raise
    <2>2. CASE ~Raise
      BY <1>4, <2>2, MissingStored DEF ReindexBoth, ReindexDoc, Indexable
    <2> QED
      BY <2>1, <2>2
  <1>5. CASE UNCHANGED <<vars, okapi, not_indexed>>
    BY <1>5, MissingStutters DEF vars
  <1> QED
    BY <1>1, <1>2, <1>3, <1>4, <1>5 DEF NextBoth

\* The weights of every word are its occurrences in the present texts of the
\* documents that contain it, in a dict or a BTree as their number demands; the
\* counts that a search divides by and the length of every document are right; no
\* document is both indexed and one without a value (_mass_add_wordinfo,
\* _reindex_doc, unindex_doc of OkapiIndex; index_doc, unindex_doc of the mixin).
THEOREM WeightsMatch == SpecBoth => []WeightsMatchDocs
  <1>1. InitBoth => OkapiInv /\ MissingInv
    BY OkapiStarts DEF InitBoth, Init, MissingInv
  <1>2. OkapiInv /\ MissingInv /\ [NextBoth]_<<vars, okapi, not_indexed>>
            => OkapiInv' /\ MissingInv'
    <2> SUFFICES ASSUME OkapiInv, MissingInv, [NextBoth]_<<vars, okapi, not_indexed>>
                 PROVE  OkapiInv'
      BY MissingKept
    <2>1. ASSUME NEW d \in Docs, TakeOut(d) PROVE OkapiInv'
      BY <2>1, OkapiUnindexes, OkapiStutters DEF TakeOut
    <2>2. ASSUME NEW d \in Docs, UnindexBoth(d) PROVE OkapiInv'
      BY <2>1, <2>2 DEF UnindexBoth
    <2>3. ASSUME NEW d \in Docs, IndexMissing(d) PROVE OkapiInv'
      BY <2>1, <2>3 DEF IndexMissing
    <2>4. ASSUME NEW d \in Docs, NEW text \in Text, IndexBoth(d, text) PROVE OkapiInv'
      BY <2>4, OkapiIndexes DEF IndexBoth
    <2>5. ASSUME NEW d \in Docs, NEW text \in Text, ReindexBoth(d, text) PROVE OkapiInv'
      BY <2>5, OkapiReindexes, OkapiStutters DEF ReindexBoth
    <2>6. CASE UNCHANGED <<vars, okapi, not_indexed>>
      BY <2>6, OkapiStutters
    <2> QED
      BY <2>2, <2>3, <2>4, <2>5, <2>6 DEF NextBoth
  <1> QED
    BY <1>1, <1>2, OkapiInvIsProperty, PTL DEF SpecBoth

-----------------------------------------------------------------------------
(* The union of the words of a search. *)

\* A set of natural numbers has a least element.
LEMMA LeastOf ==
    ASSUME NEW T \in SUBSET Nat, T # {}
    PROVE  \E n \in T : \A m \in T : n <= m
  <1> DEFINE UpTo(n) == {k \in Nat : k <= n}
             U == {UpTo(n) : n \in T}
             R == StrictSubsetOrdering(Nat)
  <1>1. \A n \in Nat : IsFiniteSet(UpTo(n))
    BY FS_BoundedSetOfNaturals
  <1>2. IsWellFoundedOn(R, FiniteSubsetsOf(Nat))
    BY FS_StrictSubsetOrderingWellFounded
  <1>3. U \subseteq FiniteSubsetsOf(Nat) /\ U # {}
    BY <1>1 DEF FiniteSubsetsOf
  <1>4. \E x \in U : \A y \in U : ~ (<<y, x>> \in R)
    <2> HIDE DEF U, R
    <2> QED
      BY <1>2, <1>3, WFMin
  <1>5. PICK n \in T : \A m \in T : ~ (<<UpTo(m), UpTo(n)>> \in R)
    BY <1>4
  <1>6. ASSUME NEW m \in T, m < n PROVE FALSE
    <2>1. n \in UpTo(n) /\ n \notin UpTo(m) /\ UpTo(m) \subseteq UpTo(n)
      BY <1>6
    <2>2. <<UpTo(m), UpTo(n)>> \in R
      BY <2>1 DEF StrictSubsetOrdering
    <2> QED
      BY <1>5, <1>6, <2>2
  <1> QED
    BY <1>6

-----------------------------------------------------------------------------
(* Sums *)

\* The element that a fold takes from T first.
First(T) == CHOOSE x \in T : TRUE

LEMMA FirstIs == \A T : T # {} => First(T) \in T
  BY DEF First

\* What holds of the empty set, and of a subset of S when it holds without the first
\* element, holds of S: the subsets of which it does not hold would have a smallest one.
LEMMA SubsetsUp ==
    ASSUME NEW S, IsFiniteSet(S), NEW Good, {} \in Good,
           \A T \in SUBSET S : T # {} /\ T \ {First(T)} \in Good => T \in Good
    PROVE  S \in Good
  <1> DEFINE Bad == {T \in SUBSET S : T \notin Good}
  <1> SUFFICES ASSUME Bad # {} PROVE FALSE
    OBVIOUS
  <1>1. \A T \in SUBSET S : IsFiniteSet(T) /\ Cardinality(T) \in Nat
    BY FS_Subset, FS_CardinalityType
  <1> DEFINE Sizes == {Cardinality(T) : T \in Bad}
  <1>2. Sizes \in SUBSET Nat /\ Sizes # {}
    BY <1>1
  <1>3. PICK n \in Sizes : \A m \in Sizes : n <= m
    <2> HIDE DEF Sizes
    <2> QED
      BY <1>2, LeastOf
  <1>4. PICK T \in Bad : Cardinality(T) = n
    OBVIOUS
  <1>5. T # {} /\ First(T) \in T
    BY FirstIs
  <1>6. Cardinality(T \ {First(T)}) = n - 1 /\ n \in Nat
    BY <1>1, <1>4, <1>5, FS_RemoveElement
  <1>7. T \ {First(T)} \notin Bad
    <2>1. Cardinality(T \ {First(T)}) \notin Sizes
      BY <1>3, <1>6
    <2> QED
      BY <2>1
  <1> QED
    BY <1>5, <1>7

\* A sum is added up element by element: h[T] is the sum over T.
Adds(h, f, S) ==
    \A T \in SUBSET S : h[T] = IF T = {} THEN 0 ELSE f[First(T)] + h[T \ {First(T)}]

LEMMA SumSteps ==
    ASSUME NEW f, NEW S, S = DOMAIN f, IsFiniteSet(S)
    PROVE  \E h : Adds(h, f, S) /\ SumFunction(f) = h[S]
  <1> DEFINE Body(h) == [T \in SUBSET S |-> IF T = {} THEN 0
                                            ELSE f[First(T)] + h[T \ {First(T)}]]
             Upto(m, h) == \A T \in SUBSET S : Cardinality(T) <= m => h[T] = Body(h)[T]
             Has(m) == \E h : Upto(m, h)
             Bad == {m \in 0 .. Cardinality(S) : ~Has(m)}
  <1>1. Cardinality(S) \in Nat
        /\ \A T \in SUBSET S : IsFiniteSet(T) /\ Cardinality(T) \in Nat
                               /\ Cardinality(T) <= Cardinality(S)
    BY FS_Subset, FS_CardinalityType
  <1>2. Has(0)
    <2> DEFINE h == [T \in SUBSET S |-> 0]
    <2>1. \A T \in SUBSET S : Cardinality(T) <= 0 => T = {}
      BY <1>1, FS_EmptySet
    <2>2. Upto(0, h)
      BY <2>1
    <2> WITNESS h
    <2> QED
      BY <2>2
  <1>3. ASSUME NEW m \in Nat, Has(m) PROVE Has(m + 1)
    <2>1. PICK h : Upto(m, h)
      BY <1>3
    <2> DEFINE g == Body(h)
    <2>2. ASSUME NEW T \in SUBSET S, Cardinality(T) <= m + 1, T # {}
          PROVE  g[T] = f[First(T)] + g[T \ {First(T)}]
      <3>1. T \ {First(T)} \in SUBSET S /\ Cardinality(T \ {First(T)}) <= m
        BY <1>1, <2>2, FirstIs, FS_RemoveElement
      <3>2. g[T \ {First(T)}] = h[T \ {First(T)}]
        BY <2>1, <3>1
      <3>3. g[T] = f[First(T)] + h[T \ {First(T)}]
        BY <2>2
      <3> QED
        BY <3>2, <3>3
    <2>3. g[{}] = 0
      OBVIOUS
    <2>4. Upto(m + 1, g)
      <3> HIDE DEF g
      <3> QED
        BY <2>2, <2>3
    <2> WITNESS g
    <2> QED
      BY <2>4
  <1>4. Has(Cardinality(S))
    <2> HIDE DEF Has
    <2> SUFFICES ASSUME Bad # {} PROVE FALSE
      BY <1>1
    <2>1. PICK n \in Bad : \A m \in Bad : n <= m
      <3>1. Bad \in SUBSET Nat
        OBVIOUS
      <3> HIDE DEF Bad
      <3> QED
        BY <3>1, LeastOf
    <2>2. n # 0 /\ n \in 0 .. Cardinality(S) /\ ~Has(n)
      BY <1>2
    <2>3. n - 1 \in 0 .. Cardinality(S) /\ n - 1 \in Nat /\ ~(n <= n - 1)
      BY <1>1, <2>2
    <2>4. Has(n - 1)
      BY <2>1, <2>3
    <2>5. Has((n - 1) + 1)
      BY <1>3, <2>3, <2>4
    <2> QED
      BY <2>2, <2>3, <2>5
  <1>5. \E h : h = Body(h)
    <2>1. PICK h : Upto(Cardinality(S), h)
      BY <1>4
    <2> DEFINE g == Body(h)
    <2>2. \A T \in SUBSET S : h[T] = g[T]
      BY <1>1, <2>1
    <2>3. ASSUME NEW T \in SUBSET S, T # {} PROVE g[T] = f[First(T)] + g[T \ {First(T)}]
      <3>1. T \ {First(T)} \in SUBSET S
        OBVIOUS
      <3>2. g[T \ {First(T)}] = h[T \ {First(T)}]
        BY <2>2, <3>1
      <3>3. g[T] = f[First(T)] + h[T \ {First(T)}]
        BY <2>3
      <3> QED
        BY <3>2, <3>3
    <2>4. g[{}] = 0
      OBVIOUS
    <2>5. g = [T \in SUBSET S |-> g[T]]
      OBVIOUS
    <2>6. \A T \in SUBSET S : g[T] = IF T = {} THEN 0 ELSE f[First(T)] + g[T \ {First(T)}]
      <3> HIDE DEF g
      <3> QED
        BY <2>3, <2>4
    <2>7. g = Body(g)
      <3> HIDE DEF g
      <3> QED
        BY <2>5, <2>6
    <2> WITNESS g
    <2> QED
      BY <2>7
  <1>6. SumFunction(f) = (CHOOSE h : h = Body(h))[S]
    BY DEF SumFunction, SumFunctionOnSet, FoldFunctionOnSet, MapThenFoldSet, First
  <1>7. PICK h : h = Body(h) /\ SumFunction(f) = h[S]
    BY <1>5, <1>6
  <1>8. Adds(h, f, S)
    BY <1>7 DEF Adds
  <1> QED
    BY <1>7, <1>8

\* Sums of natural numbers.
LEMMA SumIs ==
    ASSUME NEW S, IsFiniteSet(S), NEW f \in [S -> Nat]
    PROVE  SumFunction(f) \in Nat /\ \A i \in S : f[i] <= SumFunction(f)
  <1>1. PICK h : Adds(h, f, S) /\ SumFunction(f) = h[S]
    BY SumSteps
  <1> DEFINE Good == {T \in SUBSET S : h[T] \in Nat /\ \A i \in T : f[i] <= h[T]}
  <1>2. {} \in Good
    BY <1>1 DEF Adds
  <1>3. ASSUME NEW T \in SUBSET S, T # {}, T \ {First(T)} \in Good PROVE T \in Good
    <2>1. First(T) \in T /\ f[First(T)] \in Nat
      BY <1>3, FirstIs
    <2>2. h[T] = f[First(T)] + h[T \ {First(T)}]
      BY <1>1, <1>3 DEF Adds
    <2>3. h[T \ {First(T)}] \in Nat /\ \A i \in T \ {First(T)} : f[i] <= h[T \ {First(T)}]
      BY <1>3
    <2>4. h[T] \in Nat /\ \A i \in T \ {First(T)} : f[i] <= h[T]
      BY <2>1, <2>2, <2>3
    <2>5. f[First(T)] <= h[T]
      BY <2>1, <2>2, <2>3
    <2> QED
      BY <2>4, <2>5
  <1>4. S \in Good
    <2> HIDE DEF Good
    <2> QED
      BY <1>2, <1>3, SubsetsUp
  <1> QED
    BY <1>1, <1>4

LEMMA SumGrows ==
    ASSUME NEW S, IsFiniteSet(S), NEW f \in [S -> Nat], NEW g \in [S -> Nat],
           \A i \in S : f[i] <= g[i]
    PROVE  SumFunction(f) <= SumFunction(g)
  <1>1. PICK h : Adds(h, f, S) /\ SumFunction(f) = h[S]
    BY SumSteps
  <1>2. PICK k : Adds(k, g, S) /\ SumFunction(g) = k[S]
    BY SumSteps
  <1> DEFINE Good == {T \in SUBSET S : h[T] \in Nat /\ k[T] \in Nat /\ h[T] <= k[T]}
  <1>3. {} \in Good
    BY <1>1, <1>2 DEF Adds
  <1>4. ASSUME NEW T \in SUBSET S, T # {}, T \ {First(T)} \in Good PROVE T \in Good
    <2>1. First(T) \in S /\ f[First(T)] \in Nat /\ g[First(T)] \in Nat
          /\ f[First(T)] <= g[First(T)]
      BY <1>4, FirstIs
    <2>2. h[T] = f[First(T)] + h[T \ {First(T)}] /\ k[T] = g[First(T)] + k[T \ {First(T)}]
      BY <1>1, <1>2, <1>4 DEF Adds
    <2> QED
      BY <1>4, <2>1, <2>2
  <1>5. S \in Good
    <2> HIDE DEF Good
    <2> QED
      BY <1>3, <1>4, SubsetsUp
  <1> QED
    BY <1>1, <1>2, <1>5

LEMMA SumOfNothing ==
    ASSUME NEW S, IsFiniteSet(S), NEW f \in [S -> Nat], \A i \in S : f[i] = 0
    PROVE  SumFunction(f) = 0
  <1>1. PICK h : Adds(h, f, S) /\ SumFunction(f) = h[S]
    BY SumSteps
  <1> DEFINE Good == {T \in SUBSET S : h[T] = 0}
  <1>2. {} \in Good
    BY <1>1 DEF Adds
  <1>3. ASSUME NEW T \in SUBSET S, T # {}, T \ {First(T)} \in Good PROVE T \in Good
    <2>1. First(T) \in S
      BY <1>3, FirstIs
    <2>2. h[T] = f[First(T)] + h[T \ {First(T)}]
      BY <1>1, <1>3 DEF Adds
    <2> QED
      BY <1>3, <2>1, <2>2
  <1>4. S \in Good
    <2> HIDE DEF Good
    <2> QED
      BY <1>2, <1>3, SubsetsUp
  <1> QED
    BY <1>1, <1>4

LEMMA SumOfOne ==
    ASSUME NEW i, NEW f \in [{i} -> Nat]
    PROVE  SumFunction(f) = f[i]
  <1>1. IsFiniteSet({i})
    BY FS_Singleton
  <1>2. PICK h : Adds(h, f, {i}) /\ SumFunction(f) = h[{i}]
    BY <1>1, SumSteps
  <1>3. First({i}) = i
    BY FirstIs
  <1>4. h[{}] = 0
    BY <1>2 DEF Adds
  <1>5. h[{i}] = f[i] + h[{i} \ {i}]
    BY <1>2, <1>3 DEF Adds
  <1>6. {i} \ {i} = {}
    OBVIOUS
  <1>7. f[i] \in Nat
    OBVIOUS
  <1> QED
    BY <1>2, <1>4, <1>5, <1>6, <1>7

\* A union has no more elements than its sets together.
LEMMA SumOfUnion ==
    ASSUME NEW S, IsFiniteSet(S), NEW c, \A i \in S : IsFiniteSet(c[i])
    PROVE  LET all == UNION {c[i] : i \in S} IN
           IsFiniteSet(all) /\ Cardinality(all) <= SumFunction([i \in S |-> Cardinality(c[i])])
  <1> DEFINE f == [i \in S |-> Cardinality(c[i])]
             All(T) == UNION {c[i] : i \in T}
  <1>0. f \in [S -> Nat]
    BY FS_CardinalityType
  <1>1. PICK h : Adds(h, f, S) /\ SumFunction(f) = h[S]
    <2> HIDE DEF f
    <2> QED
      BY <1>0, SumSteps
  <1> DEFINE Good == {T \in SUBSET S : /\ IsFiniteSet(All(T)) /\ h[T] \in Nat
                                       /\ Cardinality(All(T)) <= h[T]}
  <1>2. {} \in Good
    <2>1. All({}) = {}
      OBVIOUS
    <2>2. h[{}] = 0
      BY <1>1 DEF Adds
    <2> QED
      BY <2>1, <2>2, FS_EmptySet
  <1>3. ASSUME NEW T \in SUBSET S, T # {}, T \ {First(T)} \in Good PROVE T \in Good
    <2> DEFINE i == First(T)
               U == T \ {i}
    <2>1. i \in T /\ i \in S
      BY <1>3, FirstIs
    <2>2. h[T] = f[i] + h[U]
      BY <1>1, <1>3 DEF Adds
    <2>3. All(T) = All(U) \cup c[i]
      BY <2>1
    <2>4. f[i] = Cardinality(c[i]) /\ IsFiniteSet(c[i])
      BY <2>1
    <2>5. IsFiniteSet(All(U)) /\ Cardinality(All(U)) <= h[U] /\ h[U] \in Nat
      BY <1>3
    <2> HIDE DEF All, f, i, U
    <2>6. /\ IsFiniteSet(All(U) \cup c[i])
          /\ Cardinality(All(U) \cup c[i])
               = Cardinality(All(U)) + Cardinality(c[i]) - Cardinality(All(U) \cap c[i])
      BY <2>4, <2>5, FS_Union
    <2>7. Cardinality(All(U)) \in Nat /\ Cardinality(c[i]) \in Nat
          /\ Cardinality(All(U) \cap c[i]) \in Nat
      BY <2>4, <2>5, FS_CardinalityType, FS_Intersection
    <2>8. Cardinality(All(T)) <= h[T] /\ h[T] \in Nat
      BY <2>2, <2>3, <2>4, <2>5, <2>6, <2>7
    <2> QED
      BY <2>3, <2>6, <2>8
  <1>4. S \in Good
    <2> HIDE DEF Good
    <2> QED
      BY <1>2, <1>3, SubsetsUp
  <1> QED
    BY <1>1, <1>4

-----------------------------------------------------------------------------
(* Documents by their weights *)

LEMMA RankedIs ==
    ASSUME NEW w, IsFiniteSet(DOMAIN w), DOMAIN w \subseteq Nat,
           \A d \in DOMAIN w : w[d] \in Nat
    PROVE  /\ Ranked(w) \in Seq(DOMAIN w) /\ Len(Ranked(w)) = Cardinality(DOMAIN w)
           /\ \A d \in DOMAIN w : \E k \in 1 .. Cardinality(DOMAIN w) : Ranked(w)[k] = d
           /\ \A j, k \in 1 .. Cardinality(DOMAIN w) :
                 j < k => Before(w, Ranked(w)[j], Ranked(w)[k])
  <1> DEFINE S == DOMAIN w
             n == Cardinality(S)
             Heavier(d) == {e \in S : Before(w, e, d)}
             c == [d \in S |-> Cardinality(Heavier(d))]
  <1>1. n \in Nat
    BY FS_CardinalityType
  <1>2. ASSUME NEW d \in S
        PROVE  IsFiniteSet(Heavier(d)) /\ c[d] \in 0 .. n - 1 /\ c[d] \in Nat
    <2>1. d \notin Heavier(d)
      BY DEF Before
    <2>2. Heavier(d) \in SUBSET S /\ Heavier(d) # S
      BY <2>1
    <2> HIDE DEF Heavier
    <2>3. IsFiniteSet(Heavier(d)) /\ Cardinality(Heavier(d)) <= n /\ Cardinality(Heavier(d)) # n
      BY <2>2, FS_Subset
    <2>4. Cardinality(Heavier(d)) \in Nat
      BY <2>3, FS_CardinalityType
    <2> QED
      BY <1>1, <2>3, <2>4
  <1>3. \A d \in S : c[d] \in 0 .. n - 1 /\ c[d] \in Nat
    BY <1>2
  <1>4. ASSUME NEW d \in S, NEW e \in S, Before(w, d, e) PROVE c[d] < c[e]
    <2>1. Heavier(d) \subseteq Heavier(e)
      <3>1. \A x \in S : Before(w, x, d) => Before(w, x, e)
        <4> TAKE x \in S
        <4>1. w[x] \in Nat /\ w[d] \in Nat /\ w[e] \in Nat /\ x \in Nat /\ d \in Nat /\ e \in Nat
          OBVIOUS
        <4> QED
          BY <1>4, <4>1 DEF Before
      <3> QED
        BY <3>1
    <2>2. d \in Heavier(e) /\ d \notin Heavier(d)
      BY <1>4 DEF Before
    <2>3. IsFiniteSet(Heavier(e)) /\ Heavier(d) # Heavier(e) /\ Heavier(d) \in SUBSET Heavier(e)
      BY <1>2, <2>1, <2>2
    <2>4. Cardinality(Heavier(d)) <= Cardinality(Heavier(e))
          /\ Cardinality(Heavier(d)) # Cardinality(Heavier(e))
      <3> HIDE DEF Heavier
      <3> QED
        BY <2>3, FS_Subset
    <2>5. c[d] <= c[e] /\ c[d] # c[e]
      <3> HIDE DEF Heavier
      <3> QED
        BY <2>4
    <2>6. c[d] \in Nat /\ c[e] \in Nat
      BY <1>3
    <2> HIDE DEF c
    <2> QED
      BY <2>5, <2>6
  <1>5. \A d, e \in S : d = e \/ Before(w, d, e) \/ Before(w, e, d)
    <2> TAKE d, e \in S
    <2>1. w[d] \in Nat /\ w[e] \in Nat /\ d \in Nat /\ e \in Nat
      OBVIOUS
    <2> QED
      BY <2>1 DEF Before
  <1>6. c \in Injection(S, 0 .. n - 1)
    <2>1. \A d, e \in S : c[d] = c[e] => d = e
      <3> TAKE d, e \in S
      <3>1. c[d] \in Nat /\ c[e] \in Nat
        BY <1>3
      <3> HIDE DEF c
      <3> QED
        BY <1>4, <1>5, <3>1
    <2>2. c \in [S -> 0 .. n - 1]
      <3>1. c = [d \in S |-> c[d]]
        OBVIOUS
      <3> HIDE DEF c
      <3> QED
        BY <1>3, <3>1
    <2> HIDE DEF c
    <2> QED
      BY <2>1, <2>2 DEF Injection, IsInjective
  <1>7. IsFiniteSet(0 .. n - 1) /\ Cardinality(0 .. n - 1) = n
    <2> HIDE DEF n
    <2> QED
      BY <1>1, FS_Interval
  <1>8. c \in Surjection(S, 0 .. n - 1)
    <2> HIDE DEF c
    <2> QED
      BY <1>6, <1>7, FS_Injection
  <1>9. Ranked(w) = [k \in 1 .. n |-> CHOOSE d \in S : Cardinality(Heavier(d)) = k - 1]
    BY Zenon DEF Ranked
  <1>10. \A k \in 1 .. n : Ranked(w)[k] = CHOOSE d \in S : c[d] = k - 1
    <2> TAKE k \in 1 .. n
    <2>2. Ranked(w)[k] = CHOOSE d \in S : Cardinality(Heavier(d)) = k - 1
      BY <1>9, Zenon
    <2>3. \A d \in S : c[d] = k - 1 <=> Cardinality(Heavier(d)) = k - 1
      OBVIOUS
    <2> HIDE DEF c, Heavier
    <2> QED
      BY <2>2, <2>3
  <1>11. \A k \in 1 .. n : Ranked(w)[k] \in S /\ c[Ranked(w)[k]] = k - 1
    <2> TAKE k \in 1 .. n
    <2> HIDE DEF c
    <2>1. k - 1 \in 0 .. n - 1
      BY <1>1
    <2>2. \E d \in S : c[d] = k - 1
      BY <1>8, <2>1 DEF Surjection
    <2> QED
      BY <1>10, <2>2
  <1>12. Ranked(w) \in Seq(S) /\ Len(Ranked(w)) = n
    <2>1. Ranked(w) = [k \in 1 .. n |-> Ranked(w)[k]]
      BY <1>9, Zenon
    <2> HIDE DEF n
    <2>2. Ranked(w) \in [1 .. n -> S]
      BY <1>11, <2>1
    <2> QED
      BY <1>1, <2>2
  <1> HIDE DEF c, n
  <1>13. ASSUME NEW d \in S PROVE \E k \in 1 .. n : Ranked(w)[k] = d
    <2>1. c[d] + 1 \in 1 .. n /\ (c[d] + 1) - 1 = c[d]
      BY <1>1, <1>3
    <2>2. Ranked(w)[c[d] + 1] \in S /\ c[Ranked(w)[c[d] + 1]] = c[d]
      BY <1>11, <2>1
    <2>3. Ranked(w)[c[d] + 1] = d
      BY <1>6, <2>2 DEF Injection, IsInjective
    <2> QED
      BY <2>1, <2>3
  <1>14. ASSUME NEW j \in 1 .. n, NEW k \in 1 .. n, j < k
         PROVE  Before(w, Ranked(w)[j], Ranked(w)[k])
    <2>1. PICK d, e \in S : d = Ranked(w)[j] /\ e = Ranked(w)[k]
      BY <1>11
    <2>2. c[d] = j - 1 /\ c[e] = k - 1
      BY <1>11, <2>1
    <2>3. d # e /\ ~(c[e] < c[d])
      BY <1>1, <1>14, <2>2
    <2> QED
      BY <1>4, <1>5, <2>1, <2>3
  <1> QED
    BY <1>12, <1>13, <1>14, Zenon DEF n

LEMMA MinIs ==
    ASSUME NEW T \in SUBSET Nat, T # {}
    PROVE  Min(T) \in T /\ \A n \in T : Min(T) <= n
  BY LeastOf DEF Min

LEMMA MaxIs ==
    ASSUME NEW T \in SUBSET Nat, T # {}, IsFiniteSet(T)
    PROVE  Max(T) \in T /\ \A n \in T : n <= Max(T)
  <1> DEFINE Good == {U \in SUBSET T : U = {} \/ \E m \in U : \A n \in U : n <= m}
  <1>1. {} \in Good
    OBVIOUS
  <1>2. ASSUME NEW U \in SUBSET T, U # {}, U \ {First(U)} \in Good PROVE U \in Good
    <2>1. First(U) \in U /\ U \in SUBSET Nat
      BY <1>2, FirstIs
    <2>2. CASE U \ {First(U)} = {}
      <3>1. \A n \in U : n <= First(U)
        BY <2>1, <2>2
      <3> QED
        BY <2>1, <3>1
    <2>3. CASE U \ {First(U)} # {}
      <3>1. PICK m \in U \ {First(U)} : \A n \in U \ {First(U)} : n <= m
        BY <1>2, <2>3
      <3>2. PICK b \in U : b = IF First(U) <= m THEN m ELSE First(U)
        BY <2>1
      <3>3. \A n \in U : n <= b
        <4> TAKE n \in U
        <4>1. n \in Nat /\ m \in Nat /\ First(U) \in Nat /\ (n = First(U) \/ n <= m)
          BY <2>1, <3>1
        <4> QED
          BY <3>2, <4>1
      <3> QED
        BY <3>3
    <2> QED
      BY <2>2, <2>3
  <1>3. T \in Good
    <2> HIDE DEF Good
    <2> QED
      BY <1>1, <1>2, SubsetsUp
  <1>4. \E m \in T : \A n \in T : m >= n
    BY <1>3
  <1> QED
    BY <1>4 DEF Max

\* The documents of a set by weights.
LEMMA RankedSet ==
    ASSUME NEW S \in SUBSET DocIds, NEW w \in [S -> Nat]
    PROVE  /\ Ranked(w) \in Seq(S) /\ Len(Ranked(w)) = Cardinality(S) /\ IsFiniteSet(S)
           /\ Cardinality(S) \in Nat
           /\ \A k \in 1 .. Cardinality(S) : Ranked(w)[k] \in S
           /\ \A d \in S : \E k \in 1 .. Cardinality(S) : Ranked(w)[k] = d
           /\ \A j, k \in 1 .. Cardinality(S) :
                 j < k => /\ w[Ranked(w)[j]] >= w[Ranked(w)[k]]
                          /\ Ranked(w)[j] # Ranked(w)[k]
  <1>1. IsFiniteSet(S) /\ S \subseteq Nat
    BY DocIdsType, FS_Subset
  <1>2. DOMAIN w = S /\ \A d \in S : w[d] \in Nat
    OBVIOUS
  <1>3. PICK r : r = Ranked(w)
    OBVIOUS
  <1>4. /\ r \in Seq(S) /\ Len(r) = Cardinality(S)
        /\ \A d \in S : \E k \in 1 .. Cardinality(S) : r[k] = d
        /\ \A j, k \in 1 .. Cardinality(S) : j < k => Before(w, r[j], r[k])
    BY <1>1, <1>2, <1>3, RankedIs
  <1>5. Cardinality(S) \in Nat
    BY <1>1, FS_CardinalityType
  <1>6. \A k \in 1 .. Cardinality(S) : r[k] \in S
    BY <1>4
  <1>7. ASSUME NEW j \in 1 .. Cardinality(S), NEW k \in 1 .. Cardinality(S), j < k
        PROVE  w[r[j]] >= w[r[k]] /\ r[j] # r[k]
    <2>1. PICK d, e : d = r[j] /\ e = r[k]
      OBVIOUS
    <2>2. d \in S /\ e \in S /\ Before(w, d, e)
      BY <1>4, <1>6, <1>7, <2>1
    <2>3. w[d] \in Nat /\ w[e] \in Nat /\ d \in Nat /\ e \in Nat
      BY <1>1, <2>2
    <2>4. w[d] >= w[e] /\ d # e
      BY <2>2, <2>3 DEF Before
    <2> QED
      BY <2>1, <2>4
  <1> QED
    BY <1>1, <1>3, <1>4, <1>5, <1>6, <1>7

LEMMA TreeIs ==
    ASSUME UnionTypeOK, NEW i \in Lists
    PROVE  /\ Tree(i) \in Seq(DocIds) /\ Len(Tree(i)) \in Nat
           /\ \A k \in 1 .. Len(Tree(i)) :
                 Tree(i)[k] \in DocIds /\ score[i][Tree(i)[k]] \in Nat \ {0}
           /\ \A d \in DocIds : score[i][d] > 0 =>
                 \E k \in 1 .. Len(Tree(i)) : Tree(i)[k] = d
           /\ \A j, k \in 1 .. Len(Tree(i)) :
                 j < k => /\ score[i][Tree(i)[j]] >= score[i][Tree(i)[k]]
                          /\ Tree(i)[j] # Tree(i)[k]
  <1> DEFINE S == {e \in DocIds : score[i][e] > 0}
             w == [d \in S |-> score[i][d]]
  <1>1. \A d \in DocIds : score[i][d] \in Nat
    BY DEF UnionTypeOK
  <1>2. S \in SUBSET DocIds /\ w \in [S -> Nat] /\ \A d \in S : w[d] = score[i][d]
    BY <1>1
  <1>3. Tree(i) = Ranked(w)
    BY DEF Tree
  <1>4. \A d \in S : d \in DocIds /\ score[i][d] \in Nat \ {0}
    BY <1>1
  <1>5. \A d \in DocIds : score[i][d] > 0 => d \in S
    OBVIOUS
  <1>6. PICK t : t = Tree(i)
    OBVIOUS
  <1> HIDE DEF S, w
  <1>7. /\ t \in Seq(S) /\ Len(t) = Cardinality(S) /\ Cardinality(S) \in Nat
        /\ \A k \in 1 .. Len(t) : t[k] \in S
        /\ \A d \in S : \E k \in 1 .. Len(t) : t[k] = d
        /\ \A j, k \in 1 .. Len(t) : j < k => w[t[j]] >= w[t[k]] /\ t[j] # t[k]
    BY <1>2, <1>3, <1>6, RankedSet
  <1>8. t \in Seq(DocIds)
    BY <1>2, <1>7, SeqMonotonic
  <1>9. \A j, k \in 1 .. Len(t) : j < k => score[i][t[j]] >= score[i][t[k]] /\ t[j] # t[k]
    BY <1>2, <1>7
  <1> QED
    BY <1>4, <1>5, <1>6, <1>7, <1>8, <1>9

\* The sums over the lists.
LEMMA SumsIn ==
    ASSUME UnionTypeOK, NEW d \in DocIds
    PROVE  /\ IsFiniteSet(L)
           /\ [i \in L |-> score[i][d]] \in [L -> Nat]
           /\ [i \in L |-> IF d \in reader[i].cache THEN score[i][d] ELSE 0] \in [L -> Nat]
           /\ [i \in L |-> IF d \in reader[i].cache THEN score[i][d]
                           ELSE reader[i].unread_max] \in [L -> Nat]
           /\ Weight(d) \in Nat /\ MinOf(d) \in Nat /\ MaxOf(d) \in Nat
  <1>1. IsFiniteSet(L)
    BY ListsType, FS_Subset DEF UnionTypeOK
  <1>2. \A i \in L : score[i][d] \in Nat /\ reader[i].unread_max \in Nat
    BY DEF UnionTypeOK, Reader
  <1> DEFINE f == [i \in L |-> score[i][d]]
             g == [i \in L |-> IF d \in reader[i].cache THEN score[i][d] ELSE 0]
             h == [i \in L |-> IF d \in reader[i].cache THEN score[i][d]
                               ELSE reader[i].unread_max]
  <1>3. f \in [L -> Nat] /\ g \in [L -> Nat] /\ h \in [L -> Nat]
    BY <1>2
  <1>4. SumFunction(f) \in Nat /\ SumFunction(g) \in Nat /\ SumFunction(h) \in Nat
    <2> HIDE DEF f, g, h
    <2> QED
      BY <1>1, <1>3, SumIs
  <1> QED
    BY <1>1, <1>3, <1>4 DEF Weight, MinOf, MaxOf

\* A document of a list has at least the weight it has there; one of no list has none.
LEMMA WeightOf ==
    ASSUME UnionTypeOK, NEW d \in DocIds
    PROVE  /\ \A i \in L : score[i][d] <= Weight(d)
           /\ Weight(d) > 0 => \E i \in L : score[i][d] > 0
  <1> DEFINE f == [i \in L |-> score[i][d]]
  <1>1. f \in [L -> Nat] /\ IsFiniteSet(L) /\ Weight(d) = SumFunction(f) /\ Weight(d) \in Nat
    BY SumsIn DEF Weight
  <1>2. \A i \in L : f[i] = score[i][d] /\ score[i][d] \in Nat
    BY <1>1
  <1> HIDE DEF f
  <1>3. \A i \in L : f[i] <= SumFunction(f)
    BY <1>1, SumIs
  <1>4. ASSUME \A i \in L : ~(score[i][d] > 0) PROVE Weight(d) = 0
    <2>1. \A i \in L : f[i] = 0
      BY <1>2, <1>4
    <2> QED
      BY <1>1, <2>1, SumOfNothing
  <1> QED
    BY <1>1, <1>2, <1>3, <1>4
-----------------------------------------------------------------------------
(* The invariant of the union *)

\* r is a state of list i that has been read in order, with a bound that holds.
Follows(i, r) ==
    /\ r.read <= Len(Tree(i)) /\ (r.exhausted => r.read = Len(Tree(i)))
    /\ \A k \in r.read + 1 .. Len(Tree(i)) : score[i][Tree(i)[k]] <= r.unread_max

\* Its cache holds what has been read and not been given back.
Keeps(i, r, given) == r.cache = {Tree(i)[k] : k \in 1 .. r.read} \ given

ReadInv ==
    \A i \in L : /\ Follows(i, reader[i])
                 /\ pc # "raised" => Keeps(i, reader[i], used)

Bracketed(e) == e.min <= Weight(e.doc) /\ Weight(e.doc) <= e.max
Shown(w) == {w[k].doc : k \in DOMAIN w}
Once(w) == \A j, k \in DOMAIN w : w[j].doc = w[k].doc => j = k

OutInv ==
    /\ \A k \in DOMAIN window : Bracketed(window[k])
    /\ \A k \in DOMAIN out : Bracketed(out[k])
    /\ Once(window) /\ Once(out)
    /\ pc # "raised" => Shown(window) \subseteq Cached
    /\ Shown(out) = used /\ used \subseteq Matching

\* Nothing has been read.
Fresh ==
    /\ out = <<>> /\ window = <<>>
    /\ \A i \in L : reader[i].read = 0 /\ ~reader[i].exhausted

AllRead == \A i \in L : reader[i].exhausted

\* What the caches hold beyond the window.
Beyond == Cached \ Shown(window)

\* The end is in sight: at most one document is left beyond a short window.
EndInv ==
    /\ pc = "start" => Fresh
    /\ pc \in {"refill", "order", "yield"} => Cardinality(L) > 1
    /\ pc = "refill" => Len(window) + 1 >= OrderViolation \/ Cardinality(Beyond) <= 1
    /\ pc = "yield" => /\ Len(window) >= OrderViolation \/ Cardinality(Beyond) <= 1
                       /\ window # <<>> \/ Cached = {} \/ AllRead
    /\ pc = "trivial" =>
          /\ Cardinality(L) < 2 /\ Cached = {}
          /\ \A i \in L : \A k \in DOMAIN out : k <= Len(Tree(i)) /\ out[k].doc = Tree(i)[k]
    /\ pc = "stopped" => \/ Cardinality(Matching \ Given) <= 1
                         \/ Cardinality(L) > 1 /\ \A i \in L : ReadOf(i) \subseteq Given

\* Trees that fit into the caches are read in the first round.
Fitting == \A i \in L : Len(Tree(i)) < CacheSize
Drained == \A i \in L : reader[i].exhausted /\ reader[i].unread_max = 0
Precise(w) == \A k \in DOMAIN w : w[k].min = Weight(w[k].doc) /\ w[k].max = w[k].min
Above(w, ds) == \A k \in DOMAIN w : \A d \in ds : Weight(w[k].doc) >= Weight(d)

OrderInv ==
    Fitting =>
        /\ Precise(window) /\ Precise(out) /\ Sorted(window) /\ Sorted(out)
        /\ pc = "refill" => Fresh \/ Drained
        /\ pc \in {"order", "yield"} => Drained
        /\ pc # "raised" => Above(out, Cached) /\ Above(window, Beyond)

UnionInv == UnionTypeOK /\ ReadInv /\ OutInv /\ EndInv /\ OrderInv

-----------------------------------------------------------------------------
(* Reading ahead *)

LEMMA PrecacheIs ==
    ASSUME UnionTypeOK, NEW i \in L, Follows(i, reader[i]), NEW size \in Nat
    PROVE  /\ Precache(i, size) \in Reader
           /\ Follows(i, Precache(i, size))
           /\ Keeps(i, reader[i], used) => Keeps(i, Precache(i, size), used)
           /\ reader[i].read = 0 /\ Len(Tree(i)) < size =>
                 Precache(i, size).exhausted /\ Precache(i, size).unread_max = 0
  <1> DEFINE t == Tree(i)
             a == reader[i].read
             m == reader[i].unread_max
             b == Min({a + size, Len(t)})
             new == New(i, size)
             sc == {score[i][d] : d \in Range(new)}
             r == Precache(i, size)
  <1>1. i \in Lists /\ reader[i] \in Reader /\ a \in Nat /\ m \in Nat /\ used \subseteq DocIds
        /\ reader[i].cache \subseteq DocIds /\ reader[i].exhausted \in BOOLEAN
    BY DEF UnionTypeOK, Reader
  <1>2. /\ t \in Seq(DocIds) /\ Len(t) \in Nat
        /\ \A k \in 1 .. Len(t) : t[k] \in DocIds /\ score[i][t[k]] \in Nat
        /\ \A j, k \in 1 .. Len(t) : j < k => score[i][t[j]] >= score[i][t[k]]
    BY <1>1, TreeIs
  <1>3. a <= Len(t) /\ (reader[i].exhausted => a = Len(t))
        /\ \A k \in a + 1 .. Len(t) : score[i][t[k]] <= m
    BY DEF Follows
  <1> HIDE DEF t, a, m
  <1>4. b \in Nat /\ a <= b /\ b <= Len(t) /\ b <= a + size /\ (b = Len(t) \/ b = a + size)
    <2>1. {a + size, Len(t)} \in SUBSET Nat
      BY <1>1, <1>2
    <2>2. b \in {a + size, Len(t)} /\ \A n \in {a + size, Len(t)} : b <= n
      <3> HIDE DEF b
      <3>1. Min({a + size, Len(t)}) \in {a + size, Len(t)}
            /\ \A n \in {a + size, Len(t)} : Min({a + size, Len(t)}) <= n
        BY <2>1, MinIs
      <3> QED
        BY <3>1 DEF b
    <2> HIDE DEF b
    <2> QED
      BY <1>1, <1>2, <1>3, <2>1, <2>2
  <1> HIDE DEF b
  <1>5. new = SubSeq(t, a + 1, b)
    BY DEF New, t, a, b
  <1> HIDE DEF new
  <1>6. /\ new \in Seq(DocIds) /\ Len(new) = b - a /\ DOMAIN new = 1 .. b - a
        /\ \A k \in 1 .. b - a : new[k] = t[a + k]
    <2>1. a + 1 \in 1 .. Len(t) + 1 /\ b \in a + 1 - 1 .. Len(t)
      BY <1>1, <1>2, <1>4
    <2>2. new \in Seq(DocIds) /\ Len(new) = b - a
          /\ \A k \in 1 .. b - a : new[k] = t[a + 1 + k - 1]
      BY <1>1, <1>2, <1>4, <1>5, <2>1, SubSeqProperties
    <2>3. \A k \in 1 .. b - a : a + 1 + k - 1 = a + k
      BY <1>1, <1>4
    <2>4. DOMAIN new = 1 .. Len(new)
      BY <2>2
    <2> QED
      BY <2>2, <2>3, <2>4
  <1>7. Range(new) = {t[k] : k \in a + 1 .. b}
    <2>1. \A k \in a + 1 .. b : k - a \in 1 .. b - a /\ t[k] = new[k - a]
      <3> TAKE k \in a + 1 .. b
      <3>1. k - a \in 1 .. b - a /\ a + (k - a) = k
        BY <1>1, <1>4
      <3> QED
        BY <1>6, <3>1
    <2>2. \A k \in 1 .. b - a : a + k \in a + 1 .. b
      BY <1>1, <1>4
    <2> QED
      BY <1>6, <2>1, <2>2 DEF Range
  <1>8. \A k \in a + 1 .. b : k \in 1 .. Len(t)
    BY <1>1, <1>2, <1>4
  <1>9. {m} \cup sc \in SUBSET Nat
    BY <1>1, <1>2, <1>7, <1>8
  <1>10. r = [read |-> a + Len(new), exhausted |-> Len(new) < size \/ reader[i].exhausted,
              cache |-> reader[i].cache \cup (Range(new) \ used),
              unread_max |-> IF Len(new) < size THEN 0 ELSE Min({m} \cup sc)]
    BY DEF Precache, new, a, m
  <1> HIDE DEF r
  <1>11. r.read = b /\ r.exhausted = (Len(new) < size \/ reader[i].exhausted)
         /\ r.cache = reader[i].cache \cup (Range(new) \ used)
         /\ r.unread_max = IF Len(new) < size THEN 0 ELSE Min({m} \cup sc)
    BY <1>1, <1>4, <1>6, <1>10
  <1>12. Min({m} \cup sc) \in Nat /\ Min({m} \cup sc) \in {m} \cup sc
    <2> HIDE DEF sc
    <2> QED
      BY <1>9, MinIs
  <1>13. r \in Reader
    <2>1. Range(new) \subseteq DocIds
      BY <1>2, <1>7, <1>8
    <2>2. r.read \in Nat /\ r.exhausted \in BOOLEAN /\ r.cache \in SUBSET DocIds
          /\ r.unread_max \in Nat
      BY <1>1, <1>4, <1>11, <1>12, <2>1
    <2> HIDE DEF sc
    <2>3. r = [read |-> r.read, exhausted |-> r.exhausted, cache |-> r.cache,
               unread_max |-> r.unread_max]
      BY <1>10
    <2> QED
      BY <2>2, <2>3 DEF Reader
  <1>14. Len(new) < size => b = Len(t)
    BY <1>1, <1>4, <1>6
  <1>15. Follows(i, r)
    <2>1. r.read <= Len(t)
      BY <1>4, <1>11
    <2>2. r.exhausted => r.read = Len(t)
      <3>1. r.exhausted => Len(new) < size \/ reader[i].exhausted
        BY <1>11, Zenon
      <3>2. reader[i].exhausted => b = Len(t)
        BY <1>1, <1>2, <1>3, <1>4
      <3> QED
        BY <1>11, <1>14, <3>1, <3>2
    <2>3. ASSUME NEW k \in r.read + 1 .. Len(t) PROVE score[i][t[k]] <= r.unread_max
      <3>1. k \in b + 1 .. Len(t) /\ k \in a + 1 .. Len(t) /\ k \in 1 .. Len(t)
        BY <1>1, <1>2, <1>4, <1>11, <2>3
      <3>2. b # Len(t)
        BY <1>2, <3>1
      <3>3. r.unread_max = Min({m} \cup sc)
        BY <1>11, <1>14, <3>2
      <3>4. score[i][t[k]] <= m
        BY <1>3, <3>1
      <3>5. \A n \in sc : score[i][t[k]] <= n
        <4> TAKE n \in sc
        <4>1. PICK j \in a + 1 .. b : n = score[i][t[j]]
          BY <1>7
        <4>2. j \in 1 .. Len(t) /\ j < k
          BY <1>4, <1>8, <3>1
        <4> QED
          BY <1>2, <3>1, <4>1, <4>2
      <3> QED
        BY <1>12, <3>3, <3>4, <3>5
    <2> QED
      BY <2>1, <2>2, <2>3 DEF Follows, t
  <1>16. Keeps(i, reader[i], used) => Keeps(i, r, used)
    <2> SUFFICES ASSUME reader[i].cache = {t[k] : k \in 1 .. a} \ used
                 PROVE  r.cache = {t[k] : k \in 1 .. b} \ used
      BY <1>11 DEF Keeps, t, a
    <2>1. 1 .. b = (1 .. a) \cup (a + 1 .. b)
      BY <1>1, <1>4
    <2> QED
      BY <1>7, <1>11, <2>1
  <1>17. ASSUME a = 0, Len(t) < size PROVE r.exhausted /\ r.unread_max = 0
    <2>1. Len(new) < size
      BY <1>1, <1>2, <1>4, <1>6, <1>17
    <2> QED
      BY <1>11, <2>1
  <1> QED
    BY <1>13, <1>15, <1>16, <1>17 DEF r, t, a

-----------------------------------------------------------------------------
(* The window *)

LEMMA CachedIs ==
    ASSUME UnionTypeOK
    PROVE  Cached \in SUBSET DocIds /\ IsFiniteSet(Cached) /\ Cardinality(Cached) \in Nat
  <1>1. Cached \in SUBSET DocIds
    BY DEF Cached, UnionTypeOK, Reader
  <1> QED
    BY <1>1, DocIdsType, FS_Subset, FS_CardinalityType

LEMMA WindowIs ==
    ASSUME UnionTypeOK
    PROVE  /\ Window \in Seq(Place) /\ Once(Window) /\ Shown(Window) \subseteq Cached
           /\ \A k \in DOMAIN Window : /\ Window[k].min = MinOf(Window[k].doc)
                                       /\ Window[k].max = MaxOf(Window[k].doc)
           /\ \A j, k \in DOMAIN Window : j < k => Window[j].min >= Window[k].min
           /\ \A k \in DOMAIN Window : \A d \in Cached \ Shown(Window) :
                 Window[k].min >= MinOf(d)
           /\ Shown(Window) = Cached \/ Len(Window) = OrderSize
  <1> DEFINE w == [d \in Cached |-> MinOf(d)]
             all == Ranked(w)
             n == Cardinality(Cached)
             m == Min({Len(all), OrderSize})
             v == Window
  <1>1. Cached \in SUBSET DocIds /\ n \in Nat
    BY CachedIs
  <1>2. w \in [Cached -> Nat] /\ \A d \in Cached : w[d] = MinOf(d)
    BY <1>1, SumsIn
  <1>3. /\ all \in Seq(Cached) /\ Len(all) = n
        /\ \A k \in 1 .. n : all[k] \in Cached
        /\ \A d \in Cached : \E k \in 1 .. n : all[k] = d
        /\ \A j, k \in 1 .. n : j < k => w[all[j]] >= w[all[k]] /\ all[j] # all[k]
    <2> HIDE DEF w
    <2> QED
      BY <1>1, <1>2, RankedSet
  <1>4. v = [k \in 1 .. m |-> [doc |-> all[k], min |-> MinOf(all[k]), max |-> MaxOf(all[k])]]
    BY DEF Window
  <1> HIDE DEF w, all, n, v
  <1>5. m \in Nat /\ m <= n /\ (m = n \/ m = OrderSize)
    <2>1. {Len(all), OrderSize} \in SUBSET Nat
      BY <1>1, <1>3, SizesOrdered
    <2>2. m \in {Len(all), OrderSize} /\ \A x \in {Len(all), OrderSize} : m <= x
      <3>1. Min({Len(all), OrderSize}) \in {Len(all), OrderSize}
            /\ \A x \in {Len(all), OrderSize} : Min({Len(all), OrderSize}) <= x
        BY <2>1, MinIs
      <3> QED
        BY <3>1 DEF m
    <2> HIDE DEF m
    <2> QED
      BY <1>3, <2>1, <2>2
  <1> HIDE DEF m
  <1>6. \A k \in 1 .. m : k \in 1 .. n /\ all[k] \in Cached
    BY <1>1, <1>3, <1>5
  <1>7. \A k \in 1 .. m : /\ v[k].doc = all[k] /\ v[k].min = MinOf(all[k])
                          /\ v[k].max = MaxOf(all[k]) /\ v[k] \in Place
    <2> TAKE k \in 1 .. m
    <2>1. all[k] \in DocIds /\ MinOf(all[k]) \in Nat /\ MaxOf(all[k]) \in Nat
      BY <1>1, <1>6, SumsIn
    <2> QED
      BY <1>4, <2>1 DEF Place
  <1>8. v \in Seq(Place) /\ DOMAIN v = 1 .. m /\ Len(v) = m
    <2>1. DOMAIN v = 1 .. m /\ v = [k \in 1 .. m |-> v[k]]
      BY <1>4, Zenon
    <2>2. v \in [1 .. m -> Place]
      BY <1>7, <2>1
    <2> QED
      BY <1>5, <2>1, <2>2
  <1>9. Once(v)
    <2> SUFFICES ASSUME NEW j \in 1 .. m, NEW k \in 1 .. m, all[j] = all[k] PROVE j = k
      BY <1>7, <1>8 DEF Once
    <2>1. j \in 1 .. n /\ k \in 1 .. n
      BY <1>6
    <2> QED
      BY <1>1, <1>3, <2>1
  <1>10. Shown(v) = {all[k] : k \in 1 .. m}
    BY <1>7, <1>8 DEF Shown
  <1>11. Shown(v) \subseteq Cached
    BY <1>6, <1>10
  <1>12. \A j, k \in 1 .. m : j < k => v[j].min >= v[k].min
    BY <1>2, <1>3, <1>6, <1>7
  <1>13. ASSUME NEW k \in 1 .. m, NEW d \in Cached \ Shown(v) PROVE v[k].min >= MinOf(d)
    <2>1. PICK j \in 1 .. n : all[j] = d
      BY <1>3
    <2>2. j \notin 1 .. m
      BY <1>10, <1>13, <2>1
    <2>3. k < j
      BY <1>1, <1>5, <2>2
    <2> QED
      BY <1>2, <1>3, <1>6, <1>7, <2>1, <2>3
  <1>14. Shown(v) = Cached \/ Len(v) = OrderSize
    <2>1. CASE m = n
      BY <1>3, <1>10, <1>11, <2>1
    <2> QED
      BY <1>5, <1>8, <2>1
  <1> QED
    BY <1>7, <1>8, <1>9, <1>11, <1>12, <1>13, <1>14 DEF v

\* The cached documents have not been given back.
LEMMA CachedDoc ==
    ASSUME UnionTypeOK, ReadInv, pc # "raised", NEW i \in L, NEW d \in reader[i].cache
    PROVE  /\ d \in DocIds /\ d \notin used /\ d \in Cached
           /\ score[i][d] \in Nat \ {0}
           /\ \E k \in 1 .. reader[i].read : k \in 1 .. Len(Tree(i)) /\ d = Tree(i)[k]
  <1>1. i \in Lists /\ reader[i].read \in Nat /\ d \in DocIds
    BY DEF UnionTypeOK, Reader
  <1>2. d \notin used /\ \E k \in 1 .. reader[i].read : d = Tree(i)[k]
    BY DEF ReadInv, Keeps
  <1>3. PICK k \in 1 .. reader[i].read : d = Tree(i)[k]
    BY <1>2
  <1>4. k \in 1 .. Len(Tree(i)) /\ score[i][d] \in Nat \ {0}
    BY <1>1, <1>3, TreeIs DEF ReadInv, Follows
  <1> QED
    BY <1>1, <1>2, <1>3, <1>4 DEF Cached

\* The weight of a cached document lies between its minimum and its maximum, which
\* are the weight when the trees have been read to their ends.
LEMMA CachedBracketed ==
    ASSUME UnionTypeOK, ReadInv, pc # "raised", NEW d \in Cached
    PROVE  /\ MinOf(d) <= Weight(d) /\ Weight(d) <= MaxOf(d)
           /\ Drained => MinOf(d) = Weight(d) /\ MaxOf(d) = Weight(d)
  <1> DEFINE f == [i \in L |-> score[i][d]]
             g == [i \in L |-> IF d \in reader[i].cache THEN score[i][d] ELSE 0]
             h == [i \in L |-> IF d \in reader[i].cache THEN score[i][d]
                               ELSE reader[i].unread_max]
  <1>1. d \in DocIds /\ d \notin used
    BY CachedDoc DEF Cached
  <1>2. IsFiniteSet(L) /\ f \in [L -> Nat] /\ g \in [L -> Nat] /\ h \in [L -> Nat]
    BY <1>1, SumsIn
  <1>3. \A i \in L : score[i][d] \in Nat
    BY <1>1 DEF UnionTypeOK
  <1>4. ASSUME NEW i \in L, d \notin reader[i].cache
        PROVE  /\ score[i][d] <= reader[i].unread_max
               /\ Drained => score[i][d] = 0
    <2>1. i \in Lists /\ reader[i] \in Reader /\ reader[i].read \in Nat
          /\ reader[i].unread_max \in Nat
      BY DEF UnionTypeOK, Reader
    <2>2. Follows(i, reader[i]) /\ Keeps(i, reader[i], used)
      BY DEF ReadInv
    <2>3. CASE score[i][d] > 0
      <3>1. PICK k \in 1 .. Len(Tree(i)) : Tree(i)[k] = d
        BY <1>1, <2>1, <2>3, TreeIs
      <3>2. k \notin 1 .. reader[i].read
        BY <1>1, <1>4, <2>2, <3>1 DEF Keeps
      <3>3. k \in reader[i].read + 1 .. Len(Tree(i))
        BY <2>1, <3>2, TreeIs
      <3>4. score[i][d] <= reader[i].unread_max
        BY <2>2, <3>1, <3>3 DEF Follows
      <3>5. ~Drained
        BY <1>3, <2>1, <2>3, <3>4 DEF Drained
      <3> QED
        BY <3>4, <3>5
    <2>4. CASE ~(score[i][d] > 0)
      BY <1>3, <2>1, <2>4
    <2> QED
      BY <2>3, <2>4
  <1>5. \A i \in L : g[i] <= f[i] /\ f[i] <= h[i]
    BY <1>3, <1>4
  <1>6. Drained => \A i \in L : f[i] <= g[i] /\ h[i] <= f[i]
    <2> SUFFICES ASSUME Drained, NEW i \in L PROVE f[i] <= g[i] /\ h[i] <= f[i]
      OBVIOUS
    <2>1. d \notin reader[i].cache => score[i][d] = 0 /\ reader[i].unread_max = 0
      BY <1>4 DEF Drained
    <2> QED
      BY <1>3, <2>1
  <1>7. Weight(d) = SumFunction(f) /\ MinOf(d) = SumFunction(g) /\ MaxOf(d) = SumFunction(h)
        /\ Weight(d) \in Nat /\ MinOf(d) \in Nat /\ MaxOf(d) \in Nat
    BY <1>1, SumsIn DEF Weight, MinOf, MaxOf
  <1> HIDE DEF f, g, h
  <1>8. SumFunction(g) <= SumFunction(f) /\ SumFunction(f) <= SumFunction(h)
    BY <1>2, <1>5, SumGrows
  <1>9. Drained => SumFunction(f) <= SumFunction(g) /\ SumFunction(h) <= SumFunction(f)
    BY <1>2, <1>6, SumGrows
  <1> QED
    BY <1>7, <1>8, <1>9

-----------------------------------------------------------------------------
(* The steps *)

\* The lists and their scores stay what they are, and all that is made of them.
LEMMA SameLists ==
    ASSUME L' = L, score' = score
    PROVE  /\ \A i : Tree(i)' = Tree(i)
           /\ \A d : Weight(d)' = Weight(d)
           /\ Matching' = Matching /\ (Fitting' <=> Fitting)
           /\ \A w : Sorted(w)' <=> Sorted(w)
           /\ \A w : Precise(w)' <=> Precise(w)
           /\ \A w, ds : Above(w, ds)' <=> Above(w, ds)
           /\ \A e : Bracketed(e)' <=> Bracketed(e)
           /\ \A i, r : Follows(i, r)' <=> Follows(i, r)
           /\ \A i, r, given : Keeps(i, r, given)' <=> Keeps(i, r, given)
  <1>1. \A i : Tree(i)' = Tree(i)
    BY DEF Tree
  <1>2. \A d : Weight(d)' = Weight(d)
    BY DEF Weight
  <1>3. Matching' = Matching /\ (Fitting' <=> Fitting)
    BY <1>1, <1>2 DEF Matching, Fitting
  <1>4. \A w : (Sorted(w)' <=> Sorted(w)) /\ (Precise(w)' <=> Precise(w))
    BY <1>2 DEF Sorted, Precise
  <1>5. \A w, ds : Above(w, ds)' <=> Above(w, ds)
    BY <1>2 DEF Above
  <1>6. \A e : Bracketed(e)' <=> Bracketed(e)
    BY <1>2 DEF Bracketed
  <1>7. \A i, r : Follows(i, r)' <=> Follows(i, r)
    BY <1>1 DEF Follows
  <1>8. \A i, r, given : Keeps(i, r, given)' <=> Keeps(i, r, given)
    BY <1>1 DEF Keeps
  <1> QED
    BY <1>1, <1>2, <1>3, <1>4, <1>5, <1>6, <1>7, <1>8

LEMMA FreshCaches ==
    ASSUME UnionTypeOK, ReadInv, pc # "raised", Fresh
    PROVE  Cached = {} /\ Beyond = {} /\ \A i \in L : reader[i].cache = {}
  <1>1. \A i \in L : reader[i].cache = {}
    <2> TAKE i \in L
    <2>1. reader[i].read = 0 /\ Keeps(i, reader[i], used)
      BY DEF ReadInv, Fresh
    <2>2. 1 .. 0 = {}
      OBVIOUS
    <2> QED
      BY <2>1, <2>2 DEF Keeps
  <1> QED
    BY <1>1 DEF Cached, Beyond

LEMMA BeginStep ==
    ASSUME UnionInv, Begin
    PROVE  UnionInv'
  <1> USE DEF UnionInv
  <1>1. L' = L /\ score' = score /\ reader' = reader /\ used' = used /\ window' = window
        /\ out' = out /\ pc = "start" /\ pc' \in {"trivial", "raised", "refill"}
        /\ (pc' = "trivial" => Cardinality(L) < 2)
        /\ (pc' = "refill" => ~(Cardinality(L) < 2))
    BY DEF Begin
  <1>2. Fresh /\ Cached = {} /\ Beyond = {}
    BY <1>1, FreshCaches DEF EndInv
  <1>3. Fresh' /\ Cached' = {} /\ Beyond' = {}
    BY <1>1, <1>2 DEF Fresh, Cached, Beyond
  <1>4. UnionTypeOK'
    BY <1>1 DEF UnionTypeOK
  <1>5. ReadInv'
    BY <1>1, SameLists DEF ReadInv
  <1>6. OutInv'
    <2>1. window = <<>> /\ out = <<>>
      BY <1>2 DEF Fresh
    <2>2. Shown(window) = {}
      BY <2>1 DEF Shown
    <2> QED
      BY <1>1, <2>1, <2>2, SameLists DEF OutInv, Once, Shown
  <1>7. EndInv'
    <2>1. Cardinality(Beyond') = 0
      BY <1>3, FS_EmptySet
    <2>2. out' = <<>>
      BY <1>3 DEF Fresh
    <2>3. Cardinality(L) \in Nat
      BY ListsType, FS_Subset, FS_CardinalityType DEF UnionTypeOK
    <2> QED
      BY <1>1, <1>3, <2>1, <2>2, <2>3 DEF EndInv
  <1>8. OrderInv'
    <2>1. Above(out, {}) /\ Above(window, {})
      BY DEF Above
    <2> QED
      BY <1>1, <1>3, <2>1, SameLists DEF OrderInv
  <1> QED
    BY <1>4, <1>5, <1>6, <1>7, <1>8

\* When the caches hold little, all lists are read to their ends, and at most one
\* document is beyond the window.
LEMMA NearTheEnd ==
    ASSUME UnionTypeOK, ReadInv, OutInv, pc # "raised", Low = {},
           CacheLen <= OrderViolation
    PROVE  /\ AllRead
           /\ Len(window) + 1 >= OrderViolation => Cardinality(Beyond) <= 1
  <1> DEFINE f == [i \in L |-> Cardinality(reader[i].cache)]
             c == [i \in L |-> reader[i].cache]
  <1>1. IsFiniteSet(L) /\ \A i \in L : IsFiniteSet(c[i]) /\ Cardinality(c[i]) \in Nat
                                      /\ c[i] = reader[i].cache
    BY ListsType, DocIdsType, FS_Subset, FS_CardinalityType DEF UnionTypeOK, Reader
  <1>2. f \in [L -> Nat] /\ f = [i \in L |-> Cardinality(c[i])]
    BY <1>1
  <1>3. CacheLen = SumFunction(f)
    BY DEF CacheLen
  <1>4. Cached = UNION {c[i] : i \in L}
    BY <1>1 DEF Cached
  <1>5. \A i \in L : f[i] = Cardinality(reader[i].cache)
    OBVIOUS
  <1> HIDE DEF f, c
  <1>6. CacheLen \in Nat /\ \A i \in L : f[i] <= CacheLen
    BY <1>1, <1>2, <1>3, SumIs
  <1>7. IsFiniteSet(Cached) /\ Cardinality(Cached) <= CacheLen
    <2>1. /\ IsFiniteSet(UNION {c[i] : i \in L})
          /\ Cardinality(UNION {c[i] : i \in L}) <= SumFunction([i \in L |-> Cardinality(c[i])])
      BY <1>1, SumOfUnion
    <2>2. SumFunction([i \in L |-> Cardinality(c[i])]) = CacheLen
      BY <1>2, <1>3, Zenon
    <2> QED
      BY <1>4, <2>1, <2>2
  <1>8. ASSUME NEW i \in L PROVE reader[i].exhausted
    <2>1. f[i] \in Nat /\ f[i] <= OrderViolation
      BY <1>2, <1>6, SizesOrdered
    <2>2. 2 * Cardinality(reader[i].cache) < CacheSize
      BY <1>5, <2>1, SizesOrdered
    <2> QED
      BY <2>2 DEF Low
  <1>9. ASSUME Len(window) + 1 >= OrderViolation PROVE Cardinality(Beyond) <= 1
    <2>1. window \in Seq(Place) /\ Len(window) \in Nat /\ DOMAIN window = 1 .. Len(window)
      BY DEF UnionTypeOK
    <2>2. Cardinality(Shown(window)) = Len(window) /\ IsFiniteSet(Shown(window))
      <3> DEFINE g == [k \in 1 .. Len(window) |-> window[k].doc]
      <3>1. g \in Bijection(1 .. Len(window), Shown(window))
        BY <2>1 DEF OutInv, Once, Shown, Bijection, Injection, Surjection, IsInjective
      <3>2. IsFiniteSet(1 .. Len(window)) /\ Cardinality(1 .. Len(window)) = Len(window)
        <4>1. PICK n \in Nat : n = Len(window)
          BY <2>1, Zenon
        <4>2. IsFiniteSet(1 .. n) /\ Cardinality(1 .. n) = n
          BY FS_Interval
        <4> QED
          BY <4>1, <4>2
      <3>3. ExistsBijection(1 .. Len(window), Shown(window))
        BY <3>1 DEF ExistsBijection
      <3> QED
        BY <3>2, <3>3, FS_Bijection
    <2>3. Shown(window) \subseteq Cached /\ Cached = Shown(window) \cup Beyond
          /\ Shown(window) \cap Beyond = {}
      BY DEF OutInv, Beyond
    <2>4. IsFiniteSet(Beyond) /\ Cardinality(Beyond) \in Nat
      BY <1>7, <2>3, FS_Subset, FS_CardinalityType
    <2>5. Cardinality(Cached) = Cardinality(Shown(window)) + Cardinality(Beyond)
      <3>1. Cardinality(Shown(window) \cap Beyond) = 0
        BY <2>3, FS_EmptySet
      <3>2. Cardinality(Shown(window) \cup Beyond)
              = Cardinality(Shown(window)) + Cardinality(Beyond)
                - Cardinality(Shown(window) \cap Beyond)
        BY <2>2, <2>4, FS_Union
      <3>3. Cardinality(Shown(window)) \in Nat
        BY <2>1, <2>2
      <3> QED
        BY <2>3, <2>4, <3>1, <3>2, <3>3
    <2> QED
      BY <1>6, <1>7, <1>9, <2>1, <2>2, <2>4, <2>5, SizesOrdered
  <1> QED
    BY <1>8, <1>9 DEF AllRead

LEMMA RefillStep ==
    ASSUME UnionInv, Refill
    PROVE  UnionInv'
  <1> USE DEF UnionInv
  <1> DEFINE size(i) == CacheSize - Cardinality(reader[i].cache)
  <1>1. L' = L /\ score' = score /\ used' = used /\ window' = window /\ out' = out
        /\ pc = "refill" /\ pc' \in {"order", "yield"}
        /\ reader' = [i \in Lists |-> IF i \in Low THEN Precache(i, size(i)) ELSE reader[i]]
        /\ (pc' = "yield" => Low = {} /\ (CacheLen <= OrderViolation
                                          \/ Len(window) >= OrderViolation))
    <2>1. CacheLen \in Nat /\ Len(window) \in Nat
      <3>1. IsFiniteSet(L) /\ [i \in L |-> Cardinality(reader[i].cache)] \in [L -> Nat]
        BY ListsType, DocIdsType, FS_Subset, FS_CardinalityType DEF UnionTypeOK, Reader
      <3> QED
        BY <3>1, SumIs DEF CacheLen, UnionTypeOK
    <2> QED
      BY <2>1, SizesOrdered DEF Refill
  <1>2. ASSUME NEW i \in L
        PROVE  /\ i \in Lists /\ reader[i] \in Reader
               /\ i \in Low => size(i) \in Nat
               /\ Follows(i, reader[i]) /\ Keeps(i, reader[i], used)
    <2>1. Cardinality(reader[i].cache) \in Nat
      BY DocIdsType, FS_Subset, FS_CardinalityType DEF UnionTypeOK, Reader
    <2> QED
      BY <1>1, <2>1, SizesOrdered DEF UnionTypeOK, Low, ReadInv
  <1>3. ASSUME NEW i \in L
        PROVE  /\ reader'[i] \in Reader /\ Follows(i, reader'[i])
               /\ Keeps(i, reader'[i], used) /\ reader[i].cache \subseteq reader'[i].cache
    <2>1. CASE i \in Low
      <3>1. reader'[i] = Precache(i, size(i))
        BY <1>1, <1>2, <2>1
      <3>2. reader[i].cache \subseteq Precache(i, size(i)).cache
        BY DEF Precache
      <3> HIDE DEF size
      <3> QED
        BY <1>2, <2>1, <3>1, <3>2, PrecacheIs
    <2>2. CASE i \notin Low
      BY <1>1, <1>2, <2>2
    <2> QED
      BY <2>1, <2>2
  <1>4. UnionTypeOK'
    <2>1. reader' \in [Lists -> Reader]
      <3>1. \A i \in Lists : i \notin L => i \notin Low
        BY DEF Low
      <3>2. \A i \in Lists : reader'[i] \in Reader
        BY <1>1, <1>3, <3>1 DEF UnionTypeOK
      <3>3. reader' = [i \in Lists |-> reader'[i]]
        BY <1>1, Zenon
      <3> QED
        BY <3>2, <3>3
    <2> QED
      BY <1>1, <2>1 DEF UnionTypeOK
  <1>5. ReadInv'
    BY <1>1, <1>3, SameLists DEF ReadInv
  <1>6. Cached \subseteq Cached'
    BY <1>1, <1>3 DEF Cached
  <1>7. OutInv'
    <2>1. Shown(window) \subseteq Cached'
      BY <1>1, <1>6 DEF OutInv
    <2> QED
      BY <1>1, <2>1, SameLists DEF OutInv, Once, Shown
  <1>8. ASSUME Low = {} PROVE reader' = reader /\ Cached' = Cached /\ Beyond' = Beyond
    <2>1. reader' = reader
      BY <1>1, <1>8 DEF UnionTypeOK
    <2> QED
      BY <1>1, <2>1 DEF Cached, Beyond, Shown
  <1>9. EndInv'
    <2>1. CASE pc' = "order"
      BY <1>1, <2>1 DEF EndInv
    <2>2. CASE pc' = "yield"
      <3>1. Low = {} /\ (CacheLen <= OrderViolation \/ Len(window) >= OrderViolation)
        BY <1>1, <2>2
      <3>2. Len(window) >= OrderViolation \/ Cardinality(Beyond) <= 1
        BY <1>1, <3>1, NearTheEnd DEF EndInv
      <3>3. window # <<>> \/ AllRead
        BY <1>1, <3>1, NearTheEnd, SizesOrdered
      <3> QED
        BY <1>1, <1>8, <2>2, <3>1, <3>2, <3>3 DEF EndInv, AllRead
    <2> QED
      BY <1>1, <2>1, <2>2
  <1>10. OrderInv'
    <2> SUFFICES ASSUME Fitting
                 PROVE  Drained' /\ Above(out, Cached') /\ Above(window, Beyond')
      BY <1>1, SameLists DEF OrderInv
    <2>1. CASE Fresh
      <3>1. \A i \in L : reader[i].cache = {} /\ Cardinality(reader[i].cache) = 0
        BY <1>1, <2>1, FreshCaches, FS_EmptySet
      <3>2. ASSUME NEW i \in L PROVE reader'[i].exhausted /\ reader'[i].unread_max = 0
        <4>1. reader[i].read = 0 /\ ~reader[i].exhausted
          BY <2>1 DEF Fresh
        <4>2. i \in Low /\ size(i) = CacheSize /\ size(i) \in Nat
          BY <3>1, <4>1, SizesOrdered DEF Low
        <4>3. Len(Tree(i)) < size(i)
          BY <4>2 DEF Fitting
        <4>4. reader'[i] = Precache(i, size(i))
          BY <1>1, <1>2, <4>2
        <4> HIDE DEF size
        <4> QED
          BY <1>2, <4>1, <4>2, <4>3, <4>4, PrecacheIs
      <3> QED
        BY <1>1, <2>1, <3>2 DEF Fresh, Drained, Above
    <2>2. CASE Drained
      <3>1. Low = {}
        BY <2>2 DEF Low, Drained
      <3> QED
        BY <1>1, <1>8, <2>2, <3>1 DEF OrderInv, Drained
    <2> QED
      BY <1>1, <2>1, <2>2 DEF OrderInv
  <1> QED
    BY <1>4, <1>5, <1>7, <1>9, <1>10

LEMMA OrderStep ==
    ASSUME UnionInv, Order
    PROVE  UnionInv'
  <1> USE DEF UnionInv
  <1>1. L' = L /\ score' = score /\ used' = used /\ window' = Window /\ out' = out
        /\ pc = "order"
    BY DEF Order
  <1>2. /\ window' \in Seq(Place) /\ Once(window') /\ Shown(window') \subseteq Cached
        /\ \A k \in DOMAIN window' : /\ window'[k].min = MinOf(window'[k].doc)
                                     /\ window'[k].max = MaxOf(window'[k].doc)
        /\ \A j, k \in DOMAIN window' : j < k => window'[j].min >= window'[k].min
        /\ \A k \in DOMAIN window' : \A d \in Cached \ Shown(window') :
              window'[k].min >= MinOf(d)
        /\ Shown(window') = Cached \/ Len(window') = OrderSize
    BY <1>1, WindowIs
  <1>3. \A k \in DOMAIN window' : window'[k].doc \in Cached
    BY <1>2 DEF Shown
  <1>4. \A k \in DOMAIN window' : Bracketed(window'[k])
    BY <1>1, <1>2, <1>3, CachedBracketed DEF Bracketed
  <1>5. Fitting => /\ Precise(window') /\ Sorted(window')
                   /\ Above(window', Cached \ Shown(window'))
    <2> SUFFICES ASSUME Fitting
                 PROVE  /\ Precise(window') /\ Sorted(window')
                        /\ Above(window', Cached \ Shown(window'))
      OBVIOUS
    <2>1. Drained
      BY <1>1 DEF OrderInv
    <2>2. \A d \in Cached : MinOf(d) = Weight(d) /\ MaxOf(d) = Weight(d)
      BY <1>1, <2>1, CachedBracketed
    <2> QED
      BY <1>2, <1>3, <2>2 DEF Precise, Sorted, Above
  <1>6. ASSUME UNCHANGED reader, pc' \in {"yield", "raised"} PROVE UnionInv'
    <2>1. UnionTypeOK'
      BY <1>1, <1>2, <1>6 DEF UnionTypeOK
    <2>2. ReadInv'
      BY <1>1, <1>6, SameLists DEF ReadInv
    <2>3. Cached' = Cached /\ Beyond' = Cached \ Shown(window')
          /\ (Drained' <=> Drained) /\ (AllRead' <=> AllRead)
      BY <1>1, <1>6 DEF Cached, Beyond, Shown, Drained, AllRead
    <2>4. OutInv'
      BY <1>1, <1>2, <1>4, <2>3, SameLists DEF OutInv, Once, Shown
    <2>5. EndInv'
      <3>1. Len(window') >= OrderViolation \/ Cardinality(Beyond') <= 1
        <4>1. CASE Shown(window') = Cached
          <5>1. Beyond' = {}
            BY <2>3, <4>1
          <5> QED
            BY <5>1, FS_EmptySet
        <4>2. CASE Len(window') = OrderSize
          BY <4>2, SizesOrdered
        <4> QED
          BY <1>2, <4>1, <4>2
      <3>2. window' # <<>> \/ Cached = {}
        <4> SUFFICES ASSUME window' = <<>> PROVE Cached = {}
          OBVIOUS
        <4>1. Len(window') = 0 /\ Shown(window') = {}
          BY DEF Shown
        <4> QED
          BY <1>2, <4>1, SizesOrdered
      <3> QED
        BY <1>1, <1>6, <2>3, <3>1, <3>2 DEF EndInv
    <2>6. OrderInv'
      BY <1>1, <1>5, <1>6, <2>3, SameLists DEF OrderInv
    <2> QED
      BY <2>1, <2>2, <2>4, <2>5, <2>6
  <1>7. ASSUME NEW i \in L, ~reader[i].exhausted, pc' = pc,
               reader' = [reader EXCEPT ![i] = Precache(i, CacheSize \div 2)]
        PROVE  UnionInv'
    <2>1. CacheSize \div 2 \in Nat /\ i \in Lists
      BY SizesOrdered DEF UnionTypeOK
    <2>2. /\ Precache(i, CacheSize \div 2) \in Reader
          /\ Follows(i, Precache(i, CacheSize \div 2))
          /\ Keeps(i, Precache(i, CacheSize \div 2), used)
      BY <1>1, <2>1, PrecacheIs DEF ReadInv
    <2>3. reader[i].cache \subseteq Precache(i, CacheSize \div 2).cache
      BY DEF Precache
    <2>4. \A j \in L : reader'[j] = IF j = i THEN Precache(i, CacheSize \div 2) ELSE reader[j]
      BY <1>7, <2>1 DEF UnionTypeOK
    <2>5. UnionTypeOK'
      BY <1>1, <1>2, <1>7, <2>2 DEF UnionTypeOK
    <2>6. ReadInv'
      BY <1>1, <1>7, <2>2, <2>4, SameLists DEF ReadInv
    <2>7. Cached \subseteq Cached'
      BY <1>1, <2>3, <2>4 DEF Cached
    <2>8. OutInv'
      BY <1>1, <1>2, <1>4, <1>7, <2>7, SameLists DEF OutInv, Once, Shown
    <2>9. EndInv'
      BY <1>1, <1>7 DEF EndInv
    <2>10. OrderInv'
      <3>1. ~Fitting
        BY <1>1, <1>7 DEF OrderInv, Drained
      <3> QED
        BY <1>1, <3>1, SameLists DEF OrderInv
    <2> QED
      BY <2>5, <2>6, <2>8, <2>9, <2>10
  <1> QED
    BY <1>6, <1>7 DEF Order

\* A reader that a document leaves.
LEMMA WithoutIs ==
    ASSUME UnionTypeOK, NEW i \in Lists, NEW d
    PROVE  LET left == reader[i].cache \ {d} IN
           /\ Without(i, d).read = reader[i].read
           /\ Without(i, d).exhausted = reader[i].exhausted
           /\ Without(i, d).cache = left
           /\ AtBound(i, d) /\ left # {} =>
                 \E x \in left : score[i][x] = Without(i, d).unread_max
           /\ ~(AtBound(i, d) /\ left # {}) => Without(i, d).unread_max = reader[i].unread_max
           /\ Without(i, d) \in Reader
  <1> DEFINE left == reader[i].cache \ {d}
             T == {score[i][x] : x \in left}
             m == IF AtBound(i, d) /\ left # {} THEN Max(T) ELSE reader[i].unread_max
  <1>1. reader[i] \in Reader
    BY DEF UnionTypeOK
  <1>2. left \in SUBSET DocIds /\ reader[i].unread_max \in Nat
    BY <1>1 DEF Reader
  <1>3. Without(i, d) = [reader[i] EXCEPT !.cache = left, !.unread_max = m]
    <2>1. [reader[i] EXCEPT !.cache = left].unread_max = reader[i].unread_max
      <3> HIDE DEF left
      <3> QED
        BY <1>1 DEF Reader
    <2> QED
      BY <2>1, Zenon DEF Without
  <1>4. Without(i, d) = [read |-> reader[i].read, exhausted |-> reader[i].exhausted,
                         cache |-> left, unread_max |-> m]
    <2> HIDE DEF left, m
    <2> QED
      BY <1>1, <1>3 DEF Reader
  <1>5. ASSUME left # {} PROVE Max(T) \in Nat /\ \E x \in left : score[i][x] = Max(T)
    <2>1. T \in SUBSET Nat /\ T # {}
      BY <1>2, <1>5 DEF UnionTypeOK
    <2>2. IsFiniteSet(T)
      <3> DEFINE g == [x \in left |-> score[i][x]]
      <3>1. g \in Surjection(left, T)
        BY DEF Surjection
      <3> HIDE DEF T, g, left
      <3>2. IsFiniteSet(left)
        BY <1>2, DocIdsType, FS_Subset
      <3> QED
        BY <3>1, <3>2, FS_Surjection
    <2>3. Max(T) \in T
      <3> HIDE DEF T
      <3> QED
        BY <2>1, <2>2, MaxIs
    <2> QED
      BY <2>1, <2>3
  <1> HIDE DEF T, left
  <1>6. m \in Nat
    BY <1>2, <1>5
  <1>7. AtBound(i, d) /\ left # {} => \E x \in left : score[i][x] = m
    BY <1>5
  <1>8. ~(AtBound(i, d) /\ left # {}) => m = reader[i].unread_max
    OBVIOUS
  <1> HIDE DEF m
  <1>9. Without(i, d) \in Reader
    BY <1>1, <1>2, <1>4, <1>6 DEF Reader
  <1>10. Without(i, d).read = reader[i].read /\ Without(i, d).exhausted = reader[i].exhausted
         /\ Without(i, d).cache = left /\ Without(i, d).unread_max = m
    BY <1>4
  <1> QED
    BY <1>7, <1>8, <1>9, <1>10 DEF left

LEMMA YieldStep ==
    ASSUME UnionInv, Yield
    PROVE  UnionInv'
  <1> USE DEF UnionInv
  <1> DEFINE e == Head(window)
             d == e.doc
             left(i) == reader[i].cache \ {d}
             next(i) == Without(i, d)
  <1>1. /\ L' = L /\ score' = score /\ window' = Tail(window) /\ pc = "yield"
        /\ window # <<>>
        /\ \/ pc' = "raised" /\ used' = used /\ out' = out
           \/ pc' = "refill" /\ used' = used \cup {d} /\ out' = Append(out, e)
    BY DEF Yield
  <1>2. reader' = [i \in Lists |-> next(i)]
    BY DEF Yield
  <1> HIDE DEF next
  <1>3. /\ window \in Seq(Place) /\ Len(window) \in Nat \ {0} /\ DOMAIN window = 1 .. Len(window)
        /\ e = window[1] /\ e \in Place
        /\ window' \in Seq(Place) /\ Len(window') = Len(window) - 1
        /\ DOMAIN window' = 1 .. Len(window) - 1
        /\ \A k \in DOMAIN window' : window'[k] = window[k + 1] /\ k + 1 \in DOMAIN window
    <2> HIDE DEF d, e
    <2>1. window \in Seq(Place) /\ window # <<>> /\ window' = Tail(window)
      BY <1>1 DEF UnionTypeOK
    <2>2. e = window[1] /\ e \in Place /\ window' \in Seq(Place)
          /\ Len(window') = Len(window) - 1
          /\ \A k \in 1 .. Len(window) - 1 : window'[k] = window[k + 1]
      BY <2>1, HeadTailProperties DEF e
    <2>3. Len(window) \in Nat \ {0} /\ DOMAIN window = 1 .. Len(window)
          /\ DOMAIN window' = 1 .. Len(window')
      BY <2>1, <2>2
    <2> QED
      BY <2>1, <2>2, <2>3
  <1> HIDE DEF e
  <1>4. d \in DocIds /\ d \in Cached /\ d \in Shown(window)
    <2>1. d \in Shown(window)
      BY <1>3 DEF Shown
    <2> QED
      BY <1>1, <1>3, <2>1 DEF Place, OutInv
  <1> HIDE DEF d
  <1>5. Shown(window') = Shown(window) \ {d}
    <2>1. \A k \in DOMAIN window' : window'[k].doc \in Shown(window) /\ window'[k].doc # d
      <3> TAKE k \in DOMAIN window'
      <3>1. k + 1 \in DOMAIN window /\ 1 \in DOMAIN window /\ k + 1 # 1
            /\ window'[k] = window[k + 1]
        BY <1>3
      <3> QED
        BY <1>3, <3>1 DEF OutInv, Once, Shown, d
    <2>2. ASSUME NEW x \in Shown(window), x # d PROVE x \in Shown(window')
      <3>1. PICK k \in DOMAIN window : x = window[k].doc
        BY DEF Shown
      <3>2. k # 1
        BY <1>3, <2>2, <3>1 DEF d
      <3>3. k - 1 \in DOMAIN window' /\ (k - 1) + 1 = k
        BY <1>3, <3>1, <3>2
      <3>4. window'[k - 1] = window[k]
        BY <1>3, <3>3
      <3> QED
        BY <3>1, <3>3, <3>4 DEF Shown
    <2> QED
      BY <2>1, <2>2 DEF Shown
  <1>6. ASSUME NEW i \in Lists
        PROVE  /\ next(i) \in Reader
               /\ reader'[i] = next(i) /\ next(i).read = reader[i].read
               /\ next(i).exhausted = reader[i].exhausted
               /\ next(i).cache = left(i)
               /\ AtBound(i, d) /\ left(i) # {} =>
                     \E x \in left(i) : score[i][x] = next(i).unread_max
               /\ ~(AtBound(i, d) /\ left(i) # {}) => next(i).unread_max = reader[i].unread_max
    <2>1. reader'[i] = next(i)
      BY <1>2
    <2> QED
      BY <2>1, WithoutIs DEF next
  <1>7. UnionTypeOK'
    <2>1. reader' \in [Lists -> Reader]
      BY <1>2, <1>6
    <2>2. used' \subseteq DocIds /\ out' \in Seq(Place)
      <3>1. Append(out, e) \in Seq(Place)
        BY <1>3 DEF UnionTypeOK
      <3> QED
        BY <1>1, <1>4, <3>1 DEF UnionTypeOK
    <2>3. pc' \in {"refill", "raised"}
      BY <1>1
    <2> QED
      BY <1>1, <1>3, <2>1, <2>2, <2>3 DEF UnionTypeOK
  <1>8. ASSUME NEW i \in L
        PROVE  Follows(i, next(i)) /\ (pc' # "raised" => Keeps(i, next(i), used'))
    <2>1. i \in Lists /\ Follows(i, reader[i]) /\ Keeps(i, reader[i], used)
      BY <1>1 DEF UnionTypeOK, ReadInv
    <2>2. ASSUME NEW k \in reader[i].read + 1 .. Len(Tree(i))
          PROVE  score[i][Tree(i)[k]] <= next(i).unread_max
      <3>1. CASE AtBound(i, d) /\ left(i) # {}
        <4>1. PICK x \in left(i) : score[i][x] = next(i).unread_max
          BY <1>6, <2>1, <3>1
        <4>2. x \in reader[i].cache
          OBVIOUS
        <4>3. PICK j \in 1 .. reader[i].read : j \in 1 .. Len(Tree(i)) /\ x = Tree(i)[j]
          BY <1>1, <4>2, CachedDoc
        <4>4. reader[i].read \in Nat /\ Len(Tree(i)) \in Nat
          BY <2>1, TreeIs DEF UnionTypeOK, Reader
        <4>5. k \in 1 .. Len(Tree(i)) /\ j < k
          BY <4>3, <4>4
        <4>6. score[i][Tree(i)[j]] >= score[i][Tree(i)[k]] /\ score[i][Tree(i)[j]] \in Nat
              /\ score[i][Tree(i)[k]] \in Nat
          BY <2>1, <4>3, <4>5, TreeIs
        <4>7. next(i).unread_max = score[i][Tree(i)[j]]
          BY <4>1, <4>3
        <4> QED
          BY <4>6, <4>7
      <3>2. CASE ~(AtBound(i, d) /\ left(i) # {})
        BY <1>6, <2>1, <3>2 DEF Follows
      <3> QED
        BY <3>1, <3>2
    <2>3. Follows(i, next(i))
      BY <1>6, <2>1, <2>2 DEF Follows
    <2>4. ASSUME pc' # "raised" PROVE Keeps(i, next(i), used')
      <3>1. used' = used \cup {d}
        BY <1>1, <2>4
      <3>2. next(i).cache = reader[i].cache \ {d} /\ next(i).read = reader[i].read
        BY <1>6, <2>1
      <3> QED
        BY <2>1, <3>1, <3>2 DEF Keeps
    <2> QED
      BY <2>3, <2>4
  <1>9. ReadInv'
    <2>1. \A i \in L : i \in Lists /\ reader'[i] = next(i)
      BY <1>6 DEF UnionTypeOK
    <2> QED
      BY <1>1, <1>8, <2>1, SameLists DEF ReadInv
  <1>10. Cached' = Cached \ {d}
    <2>1. \A i \in L : reader'[i].cache = reader[i].cache \ {d}
      BY <1>6 DEF UnionTypeOK
    <2> QED
      BY <1>1, <2>1 DEF Cached
  <1>11. Beyond' = Beyond
    BY <1>4, <1>5, <1>10 DEF Beyond, Shown
  <1>12. d \in Matching /\ d \notin used
    <2>1. PICK i \in L : d \in reader[i].cache
      BY <1>4 DEF Cached
    <2>2. d \notin used /\ score[i][d] \in Nat \ {0}
      BY <1>1, <2>1, CachedDoc
    <2>3. score[i][d] <= Weight(d) /\ Weight(d) \in Nat
      BY <1>4, WeightOf, SumsIn
    <2> QED
      BY <1>4, <2>2, <2>3 DEF Matching
  <1>13. pc' = "refill" =>
           /\ DOMAIN out' = 1 .. Len(out) + 1 /\ out'[Len(out) + 1] = e
           /\ DOMAIN out = 1 .. Len(out) /\ Len(out) \in Nat
           /\ \A k \in DOMAIN out : out'[k] = out[k]
    <2>1. out \in Seq(Place) /\ e \in Place
      BY <1>3 DEF UnionTypeOK
    <2>2. SUFFICES ASSUME out' = Append(out, e)
                   PROVE  /\ DOMAIN out' = 1 .. Len(out) + 1 /\ out'[Len(out) + 1] = e
                          /\ DOMAIN out = 1 .. Len(out) /\ Len(out) \in Nat
                          /\ \A k \in DOMAIN out : out'[k] = out[k]
      BY <1>1
    <2>3. out' \in Seq(Place) /\ Len(out') = Len(out) + 1 /\ out'[Len(out) + 1] = e
          /\ \A k \in 1 .. Len(out) : out'[k] = out[k]
      BY <2>1, <2>2, AppendProperties
    <2>4. DOMAIN out = 1 .. Len(out) /\ DOMAIN out' = 1 .. Len(out') /\ Len(out) \in Nat
      BY <2>1, <2>3
    <2> QED
      BY <2>3, <2>4
  <1>14. /\ \A k \in DOMAIN window' : Bracketed(window'[k])
         /\ Once(window')
    <2>1. \A k \in DOMAIN window' : Bracketed(window'[k])
      BY <1>3 DEF OutInv
    <2>2. ASSUME NEW j \in DOMAIN window', NEW k \in DOMAIN window', window'[j].doc = window'[k].doc
          PROVE  j = k
      <3>1. window[j + 1].doc = window[k + 1].doc /\ j + 1 \in DOMAIN window
            /\ k + 1 \in DOMAIN window
        BY <1>3, <2>2
      <3>2. j + 1 = k + 1
        BY <3>1 DEF OutInv, Once
      <3> QED
        BY <1>3, <3>2
    <2> QED
      BY <2>1, <2>2 DEF Once
  <1>15. OutInv'
    <2>1. CASE pc' = "raised"
      BY <1>1, <1>14, <2>1, SameLists DEF OutInv, Once, Shown
    <2>2. CASE pc' = "refill"
      <3>1. \A k \in DOMAIN out' : k \in DOMAIN out \/ k = Len(out) + 1
        BY <1>13, <2>2
      <3>2. Bracketed(e)
        BY <1>3 DEF OutInv
      <3>3. \A k \in DOMAIN out' : Bracketed(out'[k])
        BY <1>13, <2>2, <3>1, <3>2 DEF OutInv
      <3>4. \A k \in DOMAIN out : out[k].doc \in used
        BY DEF OutInv, Shown
      <3>5. Once(out')
        <4> SUFFICES ASSUME NEW j \in DOMAIN out', NEW k \in DOMAIN out', out'[j].doc = out'[k].doc
                     PROVE  j = k
          BY DEF Once
        <4>1. out'[Len(out) + 1].doc = d /\ d \notin used
          BY <1>12, <1>13, <2>2 DEF d
        <4> QED
          BY <1>13, <2>2, <3>1, <3>4, <4>1 DEF OutInv, Once
      <3>6. Shown(out') = used'
        <4>1. Len(out) + 1 \in DOMAIN out' /\ \A k \in DOMAIN out : k \in DOMAIN out'
          BY <1>13, <2>2
        <4>2. Shown(out') = Shown(out) \cup {d}
          BY <1>13, <2>2, <3>1, <4>1 DEF Shown, d
        <4> QED
          BY <1>1, <2>2, <4>2 DEF OutInv
      <3>7. used' \subseteq Matching
        BY <1>1, <1>12, <2>2 DEF OutInv
      <3>8. Shown(window') \subseteq Cached'
        BY <1>1, <1>5, <1>10 DEF OutInv
      <3> QED
        BY <1>1, <1>14, <3>3, <3>5, <3>6, <3>7, <3>8, SameLists DEF OutInv, Once, Shown
    <2> QED
      BY <1>1, <2>1, <2>2
  <1>16. EndInv'
    <2>1. CASE pc' = "raised"
      BY <2>1 DEF EndInv
    <2>2. CASE pc' = "refill"
      BY <1>1, <1>3, <1>11, <2>2, SizesOrdered DEF EndInv
    <2> QED
      BY <1>1, <2>1, <2>2
  <1>17. OrderInv'
    <2> SUFFICES ASSUME Fitting
                 PROVE  /\ Precise(window') /\ Precise(out') /\ Sorted(window') /\ Sorted(out')
                        /\ pc' = "refill" => Drained'
                        /\ pc' # "raised" => Above(out', Cached') /\ Above(window', Beyond')
      BY <1>1, SameLists DEF OrderInv
    <2>1. /\ Precise(window) /\ Precise(out) /\ Sorted(window) /\ Sorted(out) /\ Drained
          /\ Above(out, Cached) /\ Above(window, Beyond)
      BY <1>1 DEF OrderInv
    <2>2. Precise(window') /\ Above(window', Beyond')
      BY <1>3, <1>11, <2>1 DEF Precise, Above
    <2>3. Sorted(window')
      <3> SUFFICES ASSUME NEW j \in DOMAIN window', NEW k \in DOMAIN window', j < k
                   PROVE  Weight(window'[j].doc) >= Weight(window'[k].doc)
        BY DEF Sorted
      <3>1. j + 1 \in DOMAIN window /\ k + 1 \in DOMAIN window /\ j + 1 < k + 1
        BY <1>3
      <3> QED
        BY <1>3, <2>1, <3>1 DEF Sorted
    <2>4. Drained'
      <3> SUFFICES ASSUME NEW i \in L PROVE reader'[i].exhausted /\ reader'[i].unread_max = 0
        BY <1>1 DEF Drained
      <3>1. ~AtBound(i, d)
        <4> SUFFICES ASSUME d \in reader[i].cache PROVE score[i][d] # reader[i].unread_max
          BY DEF AtBound
        <4>1. score[i][d] \in Nat \ {0}
          BY <1>1, CachedDoc
        <4> QED
          BY <2>1, <4>1 DEF Drained
      <3>2. i \in Lists
        BY DEF UnionTypeOK
      <3> QED
        BY <1>6, <2>1, <3>1, <3>2 DEF Drained
    <2>5. CASE pc' = "raised"
      BY <1>1, <2>1, <2>2, <2>3, <2>4, <2>5
    <2>6. CASE pc' = "refill"
      <3>1. \A k \in DOMAIN out' : k \in DOMAIN out \/ k = Len(out) + 1
        BY <1>13, <2>6
      <3>2. e.min = Weight(e.doc) /\ e.max = e.min
        BY <1>3, <2>1 DEF Precise
      <3>3. Precise(out')
        BY <1>13, <2>1, <2>6, <3>1, <3>2 DEF Precise
      <3>4. \A k \in DOMAIN out : Weight(out[k].doc) >= Weight(d)
        BY <1>4, <2>1 DEF Above
      <3>5. Sorted(out')
        <4> SUFFICES ASSUME NEW j \in DOMAIN out', NEW k \in DOMAIN out', j < k
                     PROVE  Weight(out'[j].doc) >= Weight(out'[k].doc)
          BY DEF Sorted
        <4>1. j \in DOMAIN out
          BY <1>13, <2>6, <3>1
        <4>2. CASE k \in DOMAIN out
          BY <1>13, <2>1, <2>6, <4>1, <4>2 DEF Sorted
        <4>3. CASE k = Len(out) + 1
          BY <1>13, <2>6, <3>4, <4>1, <4>3 DEF d
        <4> QED
          BY <3>1, <4>2, <4>3
      <3>6. ASSUME NEW x \in Cached' PROVE Weight(d) >= Weight(x)
        <4>1. x \in Cached /\ x # d
          BY <1>10, <3>6
        <4>2. CASE x \in Shown(window)
          <5>1. PICK k \in DOMAIN window : window[k].doc = x
            BY <4>2 DEF Shown
          <5>2. 1 \in DOMAIN window /\ 1 < k /\ window[1].doc = d
            BY <1>3, <4>1, <5>1 DEF d
          <5> QED
            BY <2>1, <5>1, <5>2 DEF Sorted
        <4>3. CASE x \notin Shown(window)
          <5>1. x \in Beyond /\ 1 \in DOMAIN window /\ window[1].doc = d
            BY <1>3, <4>1, <4>3 DEF Beyond, d
          <5> QED
            BY <2>1, <5>1 DEF Above
        <4> QED
          BY <4>2, <4>3
      <3>7. Above(out', Cached')
        <4>1. \A x \in Cached' : x \in Cached
          BY <1>10
        <4>2. out'[Len(out) + 1].doc = d
          BY <1>13, <2>6 DEF d
        <4> QED
          BY <1>13, <2>1, <2>6, <3>1, <3>6, <4>1, <4>2 DEF Above
      <3> QED
        BY <2>2, <2>3, <2>4, <3>3, <3>5, <3>7
    <2> QED
      BY <1>1, <2>5, <2>6
  <1> QED
    BY <1>7, <1>9, <1>15, <1>16, <1>17

\* All the documents that match have been given back or are cached, once all is read.
LEMMA AllAreCached ==
    ASSUME UnionTypeOK, ReadInv, pc # "raised", AllRead
    PROVE  Matching \ used \subseteq Cached
  <1> SUFFICES ASSUME NEW d \in Matching, d \notin used PROVE d \in Cached
    OBVIOUS
  <1>1. PICK i \in L : score[i][d] > 0
    BY WeightOf DEF Matching
  <1>2. i \in Lists /\ d \in DocIds
    BY DEF UnionTypeOK, Matching
  <1>3. PICK k \in 1 .. Len(Tree(i)) : Tree(i)[k] = d
    BY <1>1, <1>2, TreeIs
  <1>4. reader[i].read = Len(Tree(i)) /\ Keeps(i, reader[i], used)
    BY DEF ReadInv, Follows, AllRead
  <1>5. d \in reader[i].cache
    BY <1>3, <1>4 DEF Keeps
  <1> QED
    BY <1>5 DEF Cached

LEMMA StopStep ==
    ASSUME UnionInv, Stop
    PROVE  UnionInv'
  <1> USE DEF UnionInv
  <1>1. L' = L /\ score' = score /\ reader' = reader /\ used' = used /\ window' = window
        /\ out' = out /\ pc = "yield" /\ pc' = "stopped" /\ window = <<>>
    BY DEF Stop
  <1>2. UnionTypeOK'
    BY <1>1 DEF UnionTypeOK
  <1>3. ReadInv'
    BY <1>1, SameLists DEF ReadInv
  <1>4. Cached' = Cached /\ Beyond' = Beyond /\ Given' = Given /\ Given = used
        /\ \A i \in L : ReadOf(i)' = ReadOf(i)
    BY <1>1, SameLists DEF Cached, Beyond, Given, ReadOf, OutInv, Shown
  <1>5. OutInv'
    BY <1>1, <1>4, SameLists DEF OutInv, Once, Shown
  <1>6. Cardinality(Beyond) <= 1 /\ Beyond = Cached
    <2>1. Len(window) = 0 /\ Shown(window) = {}
      BY <1>1 DEF Shown
    <2> QED
      BY <1>1, <2>1, SizesOrdered DEF EndInv, Beyond
  <1>7. \/ Cardinality(Matching \ Given) <= 1
        \/ Cardinality(L) > 1 /\ \A i \in L : ReadOf(i) \subseteq Given
    <2>1. CASE Cached = {}
      <3>1. ASSUME NEW i \in L PROVE ReadOf(i) \subseteq Given
        <4>1. reader[i].cache = {} /\ Keeps(i, reader[i], used)
          BY <1>1, <2>1 DEF Cached, ReadInv
        <4> QED
          BY <1>4, <4>1 DEF Keeps, ReadOf
      <3>2. Cardinality(L) > 1
        BY <1>1 DEF EndInv
      <3> QED
        BY <3>1, <3>2
    <2>2. CASE AllRead
      <3>1. Matching \ Given \in SUBSET Cached /\ IsFiniteSet(Cached)
        BY <1>1, <1>4, <2>2, AllAreCached, CachedIs
      <3>2. Cardinality(Matching \ Given) <= Cardinality(Cached)
            /\ Cardinality(Matching \ Given) \in Nat /\ Cardinality(Cached) \in Nat
        BY <3>1, FS_Subset, FS_CardinalityType
      <3> QED
        BY <1>6, <3>2
    <2> QED
      BY <1>1, <2>1, <2>2 DEF EndInv
  <1>8. EndInv'
    BY <1>1, <1>4, <1>7, SameLists DEF EndInv
  <1>9. OrderInv'
    BY <1>1, <1>4, SameLists DEF OrderInv
  <1> QED
    BY <1>2, <1>3, <1>5, <1>8, <1>9

\* A single list: its scores are the weights.
LEMMA OneList ==
    ASSUME UnionTypeOK, Cardinality(L) < 2, L # {}
    PROVE  /\ L = {First(L)} /\ First(L) \in Lists
           /\ \A d \in DocIds : Weight(d) = score[First(L)][d]
  <1>1. IsFiniteSet(L) /\ Cardinality(L) \in Nat /\ First(L) \in L /\ First(L) \in Lists
    BY ListsType, FirstIs, FS_Subset, FS_CardinalityType DEF UnionTypeOK
  <1>2. Cardinality(L) = 1
    BY <1>1, FS_EmptySet
  <1>3. L = {First(L)}
    BY <1>1, <1>2, FS_Singleton
  <1>4. PICK i : i = First(L)
    OBVIOUS
  <1>5. ASSUME NEW d \in DocIds PROVE Weight(d) = score[i][d]
    <2> DEFINE f == [j \in L |-> score[j][d]]
    <2>1. f \in [{i} -> Nat] /\ f[i] = score[i][d] /\ Weight(d) = SumFunction(f)
      BY <1>1, <1>3, <1>4 DEF Weight, UnionTypeOK
    <2> HIDE DEF f
    <2> QED
      BY <2>1, SumOfOne
  <1> QED
    BY <1>1, <1>3, <1>4, <1>5

LEMMA TrivialStep ==
    ASSUME UnionInv, Trivial
    PROVE  UnionInv'
  <1> USE DEF UnionInv
  <1> DEFINE i == First(L)
             d == Tree(i)[Len(out) + 1]
             e == [doc |-> d, min |-> Weight(d), max |-> Weight(d)]
  <1>1. L' = L /\ score' = score /\ reader' = reader /\ window' = window /\ pc = "trivial"
    BY DEF Trivial
  <1>2. Cardinality(L) < 2 /\ Cached = {}
        /\ \A j \in L : \A k \in DOMAIN out : k <= Len(Tree(j)) /\ out[k].doc = Tree(j)[k]
    BY <1>1 DEF EndInv
  <1>3. out \in Seq(Place) /\ DOMAIN out = 1 .. Len(out) /\ Len(out) \in Nat
    BY DEF UnionTypeOK
  <1>4. L # {} => /\ i \in L /\ L = {i} /\ i \in Lists
                  /\ \A x \in DocIds : Weight(x) = score[i][x]
    BY <1>2, OneList
  <1>5. Cached' = Cached /\ Beyond' = Beyond /\ Given = used /\ Beyond = {}
    BY <1>1, <1>2 DEF Cached, Beyond, Given, OutInv, Shown
  <1>6. ASSUME L = {} \/ Len(out) = Len(Tree(i)), pc' = "stopped", out' = out, used' = used
        PROVE  UnionInv'
    <2>1. UnionTypeOK'
      BY <1>1, <1>6 DEF UnionTypeOK
    <2>2. ReadInv'
      BY <1>1, <1>6, SameLists DEF ReadInv
    <2>3. OutInv'
      BY <1>1, <1>5, <1>6, SameLists DEF OutInv, Once, Shown
    <2>4. Matching \ Given = {}
      <3> SUFFICES ASSUME NEW x \in Matching PROVE x \in Given
        OBVIOUS
      <3>1. PICK j \in L : score[j][x] > 0
        BY WeightOf DEF Matching
      <3>2. j = i /\ i \in Lists /\ x \in DocIds
        BY <1>4 DEF Matching
      <3>3. PICK k \in 1 .. Len(Tree(i)) : Tree(i)[k] = x
        BY <3>1, <3>2, TreeIs
      <3>4. k \in DOMAIN out /\ out[k].doc = x
        BY <1>2, <1>3, <1>6, <3>2, <3>3
      <3> QED
        BY <3>4 DEF Given
    <2>5. EndInv'
      <3>1. Given' = Given
        BY <1>6 DEF Given
      <3>2. Cardinality(Matching' \ Given') <= 1
        BY <1>1, <2>4, <3>1, SameLists, FS_EmptySet
      <3> QED
        BY <1>6, <3>2 DEF EndInv
    <2>6. OrderInv'
      BY <1>1, <1>5, <1>6, SameLists DEF OrderInv
    <2> QED
      BY <2>1, <2>2, <2>3, <2>5, <2>6
  <1>7. ASSUME L # {}, Len(out) # Len(Tree(i)), pc' = pc, out' = Append(out, e),
               used' = used \cup {d}
        PROVE  UnionInv'
    <2>1. /\ Len(Tree(i)) \in Nat
          /\ \A k \in 1 .. Len(Tree(i)) :
                Tree(i)[k] \in DocIds /\ score[i][Tree(i)[k]] \in Nat \ {0}
          /\ \A j, k \in 1 .. Len(Tree(i)) :
                j < k => /\ score[i][Tree(i)[j]] >= score[i][Tree(i)[k]]
                         /\ Tree(i)[j] # Tree(i)[k]
      BY <1>4, <1>7, TreeIs
    <2>2. Len(out) + 1 \in 1 .. Len(Tree(i)) /\ DOMAIN out \subseteq 1 .. Len(Tree(i))
      <3>1. Len(out) = 0 \/ Len(out) <= Len(Tree(i))
        BY <1>2, <1>3, <1>4, <1>7
      <3> QED
        BY <1>2, <1>3, <1>4, <1>7, <2>1, <3>1
    <2>3. d \in DocIds /\ Weight(d) \in Nat \ {0} /\ d \in Matching
      BY <1>4, <1>7, <2>1, <2>2 DEF Matching
    <2>4. e \in Place /\ e.doc = d /\ e.min = Weight(d) /\ e.max = Weight(d)
      BY <2>3 DEF Place
    <2> HIDE DEF e
    <2>5. out' \in Seq(Place) /\ Len(out') = Len(out) + 1 /\ out'[Len(out) + 1] = e
          /\ \A k \in 1 .. Len(out) : out'[k] = out[k]
      BY <1>3, <1>7, <2>4, AppendProperties
    <2>6. DOMAIN out' = 1 .. Len(out) + 1
          /\ \A k \in DOMAIN out' : k \in DOMAIN out \/ k = Len(out) + 1
      BY <1>3, <2>5
    <2>7. \A k \in DOMAIN out' : k \in 1 .. Len(Tree(i)) /\ out'[k].doc = Tree(i)[k]
      BY <1>2, <1>3, <1>4, <1>7, <2>2, <2>4, <2>5, <2>6
    <2> HIDE DEF d
    <2>8. UnionTypeOK'
      BY <1>1, <1>7, <2>3, <2>5 DEF UnionTypeOK
    <2>9. ReadInv'
      <3> SUFFICES ASSUME NEW j \in L PROVE Keeps(j, reader[j], used')
        BY <1>1, SameLists DEF ReadInv
      <3>1. reader[j].cache = {} /\ Keeps(j, reader[j], used)
        BY <1>1, <1>2 DEF Cached, ReadInv
      <3> QED
        BY <1>7, <3>1 DEF Keeps
    <2>10. OutInv'
      <3>1. \A k \in DOMAIN out' : Bracketed(out'[k])
        BY <1>3, <2>3, <2>4, <2>5, <2>6 DEF OutInv, Bracketed
      <3>2. Once(out')
        <4> SUFFICES ASSUME NEW j \in DOMAIN out', NEW k \in DOMAIN out', out'[j].doc = out'[k].doc
                     PROVE  j = k
          BY DEF Once
        <4> QED
          BY <2>1, <2>7
      <3>3. Shown(out') = used'
        <4>1. Shown(out') = Shown(out) \cup {d}
          BY <1>3, <2>4, <2>5, <2>6 DEF Shown
        <4> QED
          BY <1>7, <4>1 DEF OutInv
      <3>4. used' \subseteq Matching
        BY <1>7, <2>3 DEF OutInv
      <3> QED
        BY <1>1, <1>5, <3>1, <3>2, <3>3, <3>4, SameLists DEF OutInv, Once, Shown
    <2>11. EndInv'
      <3>1. \A j \in L : \A k \in DOMAIN out' : k <= Len(Tree(j)) /\ out'[k].doc = Tree(j)[k]
        BY <1>4, <1>7, <2>7
      <3> QED
        BY <1>1, <1>2, <1>5, <1>7, <3>1, SameLists DEF EndInv
    <2>12. OrderInv'
      <3> SUFFICES ASSUME Fitting
                   PROVE  Precise(out') /\ Sorted(out') /\ Above(out', Cached')
        BY <1>1, <1>5, <1>7, SameLists DEF OrderInv
      <3>1. Precise(out')
        BY <1>3, <2>4, <2>5, <2>6 DEF OrderInv, Precise
      <3>2. Sorted(out')
        <4> SUFFICES ASSUME NEW j \in DOMAIN out', NEW k \in DOMAIN out', j < k
                     PROVE  Weight(out'[j].doc) >= Weight(out'[k].doc)
          BY DEF Sorted
        <4>1. j \in 1 .. Len(Tree(i)) /\ k \in 1 .. Len(Tree(i))
              /\ out'[j].doc = Tree(i)[j] /\ out'[k].doc = Tree(i)[k]
          BY <2>7
        <4>2. score[i][Tree(i)[j]] >= score[i][Tree(i)[k]]
              /\ Tree(i)[j] \in DocIds /\ Tree(i)[k] \in DocIds
          BY <2>1, <4>1
        <4> QED
          BY <1>4, <1>7, <4>1, <4>2
      <3> QED
        BY <1>2, <1>5, <3>1, <3>2 DEF Above
    <2> QED
      BY <2>8, <2>9, <2>10, <2>11, <2>12
  <1>8. \/ (L = {} \/ Len(out) = Len(Tree(i))) /\ pc' = "stopped" /\ out' = out /\ used' = used
        \/ L # {} /\ Len(out) # Len(Tree(i)) /\ pc' = pc /\ out' = Append(out, e)
           /\ used' = used \cup {d}
    BY DEF Trivial, First
  <1> QED
    BY <1>6, <1>7, <1>8

LEMMA SameUnion ==
    ASSUME UnionInv, UNCHANGED unionVars
    PROVE  UnionInv'
  <1>1. L' = L /\ score' = score /\ reader' = reader /\ used' = used /\ window' = window
        /\ out' = out /\ pc' = pc
    BY DEF unionVars
  <1>2. Cached' = Cached /\ Beyond' = Beyond /\ Given' = Given
        /\ \A i \in L : ReadOf(i)' = ReadOf(i)
    BY <1>1, SameLists DEF Cached, Beyond, Given, ReadOf, Shown
  <1>3. UnionTypeOK'
    BY <1>1 DEF UnionInv, UnionTypeOK
  <1>4. ReadInv'
    BY <1>1, SameLists DEF UnionInv, ReadInv
  <1>5. OutInv'
    BY <1>1, <1>2, SameLists DEF UnionInv, OutInv, Once, Shown
  <1>6. (Fresh' <=> Fresh) /\ (AllRead' <=> AllRead) /\ (Drained' <=> Drained)
    BY <1>1 DEF Fresh, AllRead, Drained
  <1>7. EndInv'
    BY <1>1, <1>2, <1>6, SameLists DEF UnionInv, EndInv
  <1>8. OrderInv'
    BY <1>1, <1>2, <1>6, SameLists DEF UnionInv, OrderInv
  <1> QED
    BY <1>3, <1>4, <1>5, <1>7, <1>8 DEF UnionInv

\* The union has read nothing in the beginning.
LEMMA UnionStarts ==
    ASSUME L \subseteq Lists, score \in [Lists -> [DocIds -> Nat]], UnionInit(L, score)
    PROVE  UnionInv
  <1> DEFINE Most(i) == Max(Range(score[i]) \cup {0})
  <1>1. used = {} /\ window = <<>> /\ out = <<>> /\ pc = "start"
        /\ reader = [i \in Lists |->
               [read |-> 0, exhausted |-> FALSE, cache |-> {},
                unread_max |-> IF i \in L THEN Most(i) ELSE 0]]
    BY DEF UnionInit
  <1>2. ASSUME NEW i \in Lists
        PROVE  Most(i) \in Nat /\ \A d \in DocIds : score[i][d] <= Most(i)
    <2> DEFINE T == Range(score[i]) \cup {0}
    <2>1. score[i] \in [DocIds -> Nat]
      OBVIOUS
    <2>2. T \in SUBSET Nat /\ T # {} /\ \A d \in DocIds : score[i][d] \in T
      BY <2>1 DEF Range
    <2>3. IsFiniteSet(T)
      <3>1. score[i] \in Surjection(DocIds, Range(score[i]))
        BY <2>1 DEF Surjection, Range
      <3>2. IsFiniteSet(Range(score[i]))
        BY <3>1, DocIdsType, FS_Surjection
      <3> QED
        BY <3>2, FS_AddElement
    <2>4. Max(T) \in T /\ \A n \in T : n <= Max(T)
      <3> HIDE DEF T
      <3> QED
        BY <2>2, <2>3, MaxIs
    <2>5. Most(i) = Max(T)
      OBVIOUS
    <2> HIDE DEF Most, T
    <2> QED
      BY <2>2, <2>4, <2>5
  <1> HIDE DEF Most
  <1>3. ASSUME NEW i \in Lists
        PROVE  /\ reader[i].read = 0 /\ ~reader[i].exhausted /\ reader[i].cache = {}
               /\ i \in L => reader[i].unread_max = Most(i)
               /\ reader[i] \in Reader
    <2> DEFINE m == IF i \in L THEN Most(i) ELSE 0
    <2>1. reader[i] = [read |-> 0, exhausted |-> FALSE, cache |-> {}, unread_max |-> m]
      BY <1>1
    <2>2. m \in Nat /\ (i \in L => m = Most(i))
      BY <1>2
    <2> HIDE DEF m
    <2> QED
      BY <2>1, <2>2 DEF Reader
  <1>4. UnionTypeOK
    <2>1. reader \in [Lists -> Reader]
      BY <1>1, <1>3
    <2>2. window \in Seq(Place) /\ out \in Seq(Place)
      BY <1>1
    <2> QED
      BY <1>1, <2>1, <2>2 DEF UnionTypeOK
  <1>5. ASSUME NEW i \in L PROVE Follows(i, reader[i]) /\ Keeps(i, reader[i], used)
    <2>1. i \in Lists /\ reader[i].read = 0 /\ ~reader[i].exhausted /\ reader[i].cache = {}
          /\ reader[i].unread_max = Most(i)
      BY <1>3
    <2>2. Len(Tree(i)) \in Nat /\ \A k \in 1 .. Len(Tree(i)) : Tree(i)[k] \in DocIds
      BY <1>4, <2>1, TreeIs
    <2>3. Follows(i, reader[i])
      BY <1>2, <2>1, <2>2 DEF Follows
    <2>4. 1 .. 0 = {}
      OBVIOUS
    <2> QED
      BY <2>1, <2>3, <2>4 DEF Keeps
  <1>6. ReadInv
    BY <1>5 DEF ReadInv
  <1>7. Fresh
    BY <1>1, <1>3 DEF Fresh
  <1>8. DOMAIN out = {} /\ DOMAIN window = {} /\ Shown(window) = {} /\ Shown(out) = {}
    BY <1>1 DEF Shown
  <1>9. OutInv
    BY <1>1, <1>8 DEF OutInv, Once
  <1>10. EndInv
    BY <1>1, <1>7 DEF EndInv
  <1>11. OrderInv
    BY <1>1, <1>8 DEF OrderInv, Precise, Sorted, Above
  <1> QED
    BY <1>4, <1>6, <1>9, <1>10, <1>11 DEF UnionInv

\* What a union has read, cached and given back fits together at every step of
\* mass_weightedUnion, whatever the lists, the scores and the sizes are.
THEOREM UnionInvariance == UnionSpec => []UnionInv
  <1>1. ASSUME L \subseteq Lists, score \in [Lists -> [DocIds -> Nat]], UnionInit(L, score)
        PROVE  UnionInv
    BY <1>1, UnionStarts
  <1>2. ASSUME UnionInv, [Begin \/ UnionNext]_unionVars PROVE UnionInv'
    <2>1. CASE Begin
      BY <1>2, <2>1, BeginStep
    <2>2. CASE Refill
      BY <1>2, <2>2, RefillStep
    <2>3. CASE Order
      BY <1>2, <2>3, OrderStep
    <2>4. CASE Yield
      BY <1>2, <2>4, YieldStep
    <2>5. CASE Stop
      BY <1>2, <2>5, StopStep
    <2>6. CASE Trivial
      BY <1>2, <2>6, TrivialStep
    <2>7. CASE UNCHANGED unionVars
      BY <1>2, <2>7, SameUnion
    <2> QED
      BY <1>2, <2>1, <2>2, <2>3, <2>4, <2>5, <2>6, <2>7 DEF UnionNext
  <1> QED
    BY <1>1, <1>2, PTL DEF UnionSpec

\* No document is given back twice or without matching, and what is missing in the end
\* is at most one document, or was never read: the generator of mass_weightedUnion
\* ends when its caches run empty, text_lucene.py:418 and 458.
THEOREM FoundOnceAlways == UnionSpec => []FoundOnce
  <1>1. ASSUME UnionInv PROVE FoundOnce
    <2>1. Given = used
      BY <1>1 DEF UnionInv, OutInv, Given, Shown
    <2> QED
      BY <1>1, <2>1 DEF UnionInv, OutInv, EndInv, FoundOnce, Once
  <1> QED
    BY <1>1, UnionInvariance, PTL

\* The bounds with which mass_weightedUnion decides on the order are bounds: of what
\* it has not read (unread_max) and of the weights (mins, maxs).
THEOREM WeightsBracketedAlways == UnionSpec => []WeightsBracketed
  <1>1. ASSUME UnionInv PROVE WeightsBracketed
    <2>1. \A e \in Range(window) \cup Range(out) : Bracketed(e)
      BY <1>1 DEF UnionInv, OutInv, Range
    <2> QED
      BY <1>1, <2>1 DEF UnionInv, ReadInv, Follows, Bracketed, WeightsBracketed
  <1> QED
    BY <1>1, UnionInvariance, PTL

\* Words whose trees fit into the caches have their documents in the order of the
\* exact weights: the first reading of mass_weightedUnion empties their trees.
THEOREM OrderedAlways == UnionSpec => []OrderedWhenCached
  <1>1. ASSUME UnionInv PROVE OrderedWhenCached
    <2> SUFFICES ASSUME Fitting
                 PROVE  Sorted(out) /\ \A k \in DOMAIN out : out[k].min = out[k].max
      BY DEF OrderedWhenCached, Fitting
    <2> QED
      BY <1>1 DEF UnionInv, OrderInv, Precise
  <1> QED
    BY <1>1, UnionInvariance, PTL
=============================================================================
