-------------------------- MODULE FieldIndexProofs --------------------------
(***************************************************************************)
(* Proofs about queries: FieldIndex and the searches of FieldSearch, for   *)
(* any documents, values and threshold, and the lists that results come    *)
(* in, Sliceable, for lists, caches and numbers of elements read ahead of  *)
(* any size.                                                               *)
(***************************************************************************)
EXTENDS FieldSearch, Sliceable, FiniteSetTheorems, SequenceTheorems, TLAPS

\* The entries unindex_doc and inner_index_doc compute are entries.
LEMMA EntryTyping ==
    ASSUME NEW e \in Entry, NEW d \in Docs
    PROVE  Without(e, d) \in Entry /\ Insert(e, d) \in Entry
  BY DEF Entry, Forms, Without, Insert, NoEntry

\* Taking a document out leaves a well-typed forward index.
LEMMA UnindexedTyping ==
    ASSUME TypeOK, NEW d \in Docs
    PROVE  Unindexed(d) \in [Vals -> Entry]
  BY EntryTyping DEF TypeOK, Unindexed

\* The index never holds anything but entries, values and counts.
THEOREM Typing == Spec => []TypeOK
  <1>1. Init => TypeOK
    <2>1. NoEntry \in Entry
      BY DEF NoEntry, Entry, Forms
    <2>2. 0 \in Int
      OBVIOUS
    <2>3. QED
      BY <2>1, <2>2, Zenon DEF Init, TypeOK
  <1>2. TypeOK /\ [Next]_vars => TypeOK'
    <2> SUFFICES ASSUME TypeOK, [Next]_vars PROVE TypeOK'
      OBVIOUS
    <2>1. ASSUME NEW d \in Docs, UnindexDoc(d) PROVE TypeOK'
      <3>1. fwd' \in [Vals -> Entry]
        BY <2>1, UnindexedTyping DEF UnindexDoc
      <3>2. QED
        BY <2>1, <3>1 DEF UnindexDoc, TypeOK
    <2>2. ASSUME NEW d \in Docs, IndexDocMissing(d) PROVE TypeOK'
      <3>1. fwd' \in [Vals -> Entry]
        BY <2>2, UnindexedTyping DEF IndexDocMissing
      <3>2. QED
        BY <2>2, <3>1 DEF IndexDocMissing, TypeOK
    <2>3. ASSUME NEW d \in Docs, IndexDocMissingBare(d) PROVE TypeOK'
      BY <2>3 DEF IndexDocMissingBare, TypeOK
    <2>4. ASSUME NEW d \in Docs, NEW v \in Vals, IndexDoc(d, v) PROVE TypeOK'
      <3>1. Unindexed(d) \in [Vals -> Entry]
        BY UnindexedTyping
      <3>2. fwd' \in [Vals -> Entry]
        BY <2>4, <3>1, EntryTyping DEF IndexDoc, InnerIndexDoc, TypeOK
      <3>3. QED
        BY <2>4, <3>2 DEF IndexDoc, InnerIndexDoc, TypeOK
    <2>5. CASE UNCHANGED vars
      BY <2>5 DEF vars, TypeOK
    <2>6. QED
      BY <2>1, <2>2, <2>3, <2>4, <2>5 DEF Next
  <1>3. QED
    BY <1>1, <1>2, PTL DEF Spec

-----------------------------------------------------------------------------
(* The inductive invariant: the two directions agree, every entry has the   *)
(* form its documents call for, and the count is right.  The form is needed *)
(* to see that deleting an integer entry deletes no other document.         *)

Fits(e) ==
    /\ e.form = "none" <=> e.docs = {}
    /\ e.form = "int" => Cardinality(e.docs) = 1
    /\ e.form = "tuple" => Cardinality(e.docs) < Threshold

IndexInv == FwdMatchesRev /\ FormFits /\ Counted

\* The documents of an entry can be counted.
LEMMA DocsFinite ==
    ASSUME NEW S \in SUBSET Docs
    PROVE  IsFiniteSet(S) /\ Cardinality(S) \in Nat
  BY DocsAssumption, FS_Subset, FS_CardinalityType

\* Taking a document out of an entry that has it leaves the others.
LEMMA WithoutFits ==
    ASSUME NEW e \in Entry, NEW d \in e.docs, Fits(e)
    PROVE  Fits(Without(e, d)) /\ Without(e, d).docs = e.docs \ {d}
  <1>1. e.docs \in SUBSET Docs /\ e.form \in Forms /\ e = [form |-> e.form, docs |-> e.docs]
    BY DEF Entry
  <1>2. IsFiniteSet(e.docs) /\ Cardinality(e.docs) \in Nat
    BY <1>1, DocsFinite
  <1>3. Cardinality(e.docs \ {d}) = Cardinality(e.docs) - 1
    BY <1>2, FS_RemoveElement
  <1>4. CASE e.form = "int"
    <2>1. Cardinality(e.docs \ {d}) = 0
      BY <1>3, <1>4 DEF Fits
    <2>2. IsFiniteSet(e.docs \ {d})
      BY <1>2, FS_Subset
    <2>3. e.docs \ {d} = {}
      BY <2>1, <2>2, FS_EmptySet
    <2>4. QED
      BY <1>4, <2>3, FS_EmptySet DEF Without, Fits, NoEntry
  <1>5. CASE e.docs \subseteq {d}
    BY <1>5 DEF Without, Fits, NoEntry
  <1>6. CASE e.form # "int" /\ ~(e.docs \subseteq {d})
    <2>1. Without(e, d) = [form |-> e.form, docs |-> e.docs \ {d}]
      BY <1>1, <1>6 DEF Without
    <2>2. e.docs \ {d} # {} /\ e.form # "none"
      BY <1>6 DEF Fits
    <2>3. e.form = "tuple" => Cardinality(e.docs \ {d}) < Threshold
      BY <1>2, <1>3, ThresholdAssumption DEF Fits
    <2>4. QED
      BY <1>6, <2>1, <2>2, <2>3 DEF Fits
  <1>7. QED
    BY <1>4, <1>5, <1>6

\* Inserting a new document moves an entry to the form its size calls for.
LEMMA InsertFits ==
    ASSUME NEW e \in Entry, NEW d \in Docs, d \notin e.docs, Fits(e)
    PROVE  Fits(Insert(e, d)) /\ Insert(e, d).docs = e.docs \cup {d}
  <1>1. e.docs \in SUBSET Docs /\ e.form \in Forms
    BY DEF Entry
  <1>2. IsFiniteSet(e.docs) /\ Cardinality(e.docs) \in Nat
    BY <1>1, DocsFinite
  <1>3. Cardinality(e.docs \cup {d}) = Cardinality(e.docs) + 1
    BY <1>2, FS_AddElement
  <1>4. e.form = "none" => Cardinality(e.docs) = 0
    BY FS_EmptySet DEF Fits
  <1>5. Insert(e, d).form \in {"int", "tuple", "TreeSet"}
    BY DEF Insert
  <1>6. Insert(e, d).form = "int" => Cardinality(e.docs \cup {d}) = 1
    BY <1>3, <1>4 DEF Insert
  <1>7. Insert(e, d).form = "tuple" => Cardinality(e.docs \cup {d}) < Threshold
    BY <1>2, <1>3, ThresholdAssumption DEF Insert, Fits
  <1>8. Insert(e, d).docs = e.docs \cup {d}
    BY DEF Insert
  <1>9. QED
    BY <1>5, <1>6, <1>7, <1>8 DEF Fits

\* After unindex_doc the forward index has lost d and nothing else.
LEMMA UnindexedDocs ==
    ASSUME TypeOK, IndexInv, ~raised, NEW d \in Docs
    PROVE  \A v \in Vals : /\ Unindexed(d)[v].docs = fwd[v].docs \ {d}
                           /\ Fits(Unindexed(d)[v])
  <1> SUFFICES ASSUME NEW v \in Vals
               PROVE  /\ Unindexed(d)[v].docs = fwd[v].docs \ {d}
                      /\ Fits(Unindexed(d)[v])
    OBVIOUS
  <1>1. fwd[v] \in Entry /\ Fits(fwd[v])
    BY DEF TypeOK, IndexInv, FormFits, Fits
  <1>2. d \in fwd[v].docs <=> rev[d] = v
    BY DEF IndexInv, FwdMatchesRev
  <1>3. CASE rev[d] = v
    <2>1. Unindexed(d)[v] = Without(fwd[v], d)
      BY <1>3, NoValueAssumption DEF Unindexed, TypeOK
    <2>2. QED
      BY <1>1, <1>2, <1>3, <2>1, WithoutFits
  <1>4. CASE rev[d] # v
    <2>1. Unindexed(d)[v] = fwd[v]
      BY <1>4 DEF Unindexed, TypeOK
    <2>2. QED
      BY <1>1, <1>2, <1>4, <2>1
  <1>5. QED
    BY <1>3, <1>4

\* Counting: one more document, and
LEMMA CountAdd ==
    ASSUME TypeOK, NEW d \in Docs, NEW v \in Vals, rev' = [rev EXCEPT ![d] = v],
           num_docs = Cardinality(Indexed)
    PROVE  Cardinality(Indexed') = IF rev[d] = NoValue THEN num_docs + 1
                                                       ELSE num_docs
  <1>1. IsFiniteSet(Indexed) /\ Indexed' = Indexed \cup {d}
    BY DocsFinite, NoValueAssumption DEF Indexed, TypeOK
  <1>2. d \in Indexed <=> rev[d] # NoValue
    BY DEF Indexed
  <1>3. QED
    BY <1>1, <1>2, FS_AddElement

\* ... one fewer.
LEMMA CountRemove ==
    ASSUME TypeOK, NEW d \in Docs, rev' = [rev EXCEPT ![d] = NoValue],
           num_docs = Cardinality(Indexed)
    PROVE  Cardinality(Indexed') = IF rev[d] = NoValue THEN num_docs
                                                       ELSE num_docs - 1
  <1>1. IsFiniteSet(Indexed) /\ Indexed' = Indexed \ {d}
    BY DocsFinite DEF Indexed, TypeOK
  <1>2. d \in Indexed <=> rev[d] # NoValue
    BY DEF Indexed
  <1>3. QED
    BY <1>1, <1>2, FS_RemoveElement

\* Taking d out, as unindex_doc and the TreeSet case of a missing value do.
LEMMA TakeOut ==
    ASSUME TypeOK, IndexInv, ~raised, NEW d \in Docs,
           fwd' = Unindexed(d), rev' = [rev EXCEPT ![d] = NoValue],
           num_docs' = (IF rev[d] = NoValue THEN num_docs ELSE num_docs - 1),
           not_indexed' \subseteq not_indexed \cup {d}
    PROVE  IndexInv'
  <1>1. \A v \in Vals : fwd'[v].docs = fwd[v].docs \ {d} /\ Fits(fwd'[v])
    BY UnindexedDocs
  <1>2. FormFits'
    BY <1>1 DEF FormFits, Fits
  <1>3. FwdMatchesRev'
    <2> SUFFICES ASSUME NEW v \in Vals, NEW x \in Docs
                 PROVE  x \in fwd'[v].docs <=> rev'[x] = v
      BY DEF FwdMatchesRev
    <2>1. x \in fwd[v].docs <=> rev[x] = v
      BY DEF IndexInv, FwdMatchesRev
    <2>2. QED
      BY <1>1, <2>1, NoValueAssumption DEF TypeOK
  <1>4. Counted'
    <2>1. num_docs = Cardinality(Indexed) /\ Indexed \cap not_indexed = {}
      BY DEF IndexInv, Counted
    <2>2. num_docs' = Cardinality(Indexed')
      BY <2>1, CountRemove
    <2>3. Indexed' = Indexed \ {d}
      BY DEF Indexed, TypeOK
    <2>4. Indexed' \cap not_indexed' = {}
      BY <2>1, <2>3
    <2>5. QED
      BY <2>2, <2>4 DEF Counted
  <1>5. QED
    BY <1>2, <1>3, <1>4 DEF IndexInv

\* Giving d the value v, as inner_index_doc does.
LEMMA GiveValue ==
    ASSUME TypeOK, IndexInv, ~raised, NEW d \in Docs, NEW v \in Vals, IndexDoc(d, v)
    PROVE  IndexInv'
  <1>1. num_docs = Cardinality(Indexed) /\ Indexed \cap not_indexed = {}
    BY DEF IndexInv, Counted
  <1>2. CASE rev[d] # NoValue /\ d \in fwd[v].docs
    <2>1. UNCHANGED <<fwd, rev, num_docs, raised>> /\ not_indexed' = not_indexed \ {d}
      BY <1>2 DEF IndexDoc, InnerIndexDoc
    <2>2. QED
      BY <1>1, <2>1 DEF IndexInv, FwdMatchesRev, FormFits, Counted, Indexed
  <1>3. CASE ~(rev[d] # NoValue /\ d \in fwd[v].docs)
    <2>1. /\ fwd' = [Unindexed(d) EXCEPT ![v] = Insert(@, d)]
          /\ rev' = [rev EXCEPT ![d] = v]
          /\ num_docs' = (IF rev[d] = NoValue THEN num_docs + 1 ELSE num_docs)
          /\ not_indexed' = not_indexed \ {d}
      BY <1>3 DEF IndexDoc, InnerIndexDoc
    <2>2. Unindexed(d) \in [Vals -> Entry]
      BY UnindexedTyping
    <2>3. \A w \in Vals : /\ Unindexed(d)[w].docs = fwd[w].docs \ {d}
                          /\ Fits(Unindexed(d)[w])
      BY UnindexedDocs
    <2>4. /\ Fits(Insert(Unindexed(d)[v], d))
          /\ Insert(Unindexed(d)[v], d).docs = (fwd[v].docs \ {d}) \cup {d}
      <3>1. Unindexed(d)[v] \in Entry /\ d \notin Unindexed(d)[v].docs
        BY <2>2, <2>3
      <3>2. QED
        BY <2>3, <3>1, InsertFits
    <2>5. fwd'[v] = Insert(Unindexed(d)[v], d)
      BY <2>1, <2>2
    <2>6. \A w \in Vals \ {v} : fwd'[w] = Unindexed(d)[w]
      BY <2>1, <2>2
    <2>7. FormFits'
      BY <2>3, <2>4, <2>5, <2>6 DEF FormFits, Fits
    <2>8. FwdMatchesRev'
      <3> SUFFICES ASSUME NEW w \in Vals, NEW x \in Docs
                   PROVE  x \in fwd'[w].docs <=> rev'[x] = w
        BY DEF FwdMatchesRev
      <3>1. x \in fwd[w].docs <=> rev[x] = w
        BY DEF IndexInv, FwdMatchesRev
      <3>2. rev'[x] = IF x = d THEN v ELSE rev[x]
        BY <2>1 DEF TypeOK
      <3>3. CASE w = v
        BY <2>4, <2>5, <3>1, <3>2, <3>3
      <3>4. CASE w # v
        BY <2>3, <2>6, <3>1, <3>2, <3>4
      <3>5. QED
        BY <3>3, <3>4
    <2>9. num_docs' = Cardinality(Indexed')
      BY <1>1, <2>1, CountAdd
    <2>10. Indexed' = Indexed \cup {d}
      BY <2>1, NoValueAssumption DEF Indexed, TypeOK
    <2>11. Counted'
      BY <1>1, <2>1, <2>9, <2>10 DEF Counted
    <2>12. QED
      BY <2>7, <2>8, <2>11 DEF IndexInv
  <1>4. QED
    BY <1>2, <1>3

\* For every set of documents and values and every threshold: the forward and
\* the reverse index agree, entries have the form their size calls for, and
\* the document count is right (index_doc, inner_index_doc, unindex_doc).
THEOREM IndexCorrect == Spec => [](FwdMatchesRev /\ FormFits /\ Counted)
  <1>1. Init => IndexInv
    <2> SUFFICES ASSUME Init PROVE IndexInv
      OBVIOUS
    <2>1. Indexed = {}
      BY DEF Init, Indexed
    <2>2. Counted
      BY <2>1, FS_EmptySet DEF Init, Counted
    <2>3. FwdMatchesRev /\ FormFits
      BY NoValueAssumption DEF Init, FwdMatchesRev, FormFits, NoEntry
    <2>4. QED
      BY <2>2, <2>3 DEF IndexInv
  <1>2. TypeOK /\ IndexInv /\ [Next]_vars => IndexInv'
    <2> SUFFICES ASSUME TypeOK, IndexInv, [Next]_vars PROVE IndexInv'
      OBVIOUS
    <2>1. ASSUME NEW d \in Docs, UnindexDoc(d) PROVE IndexInv'
      BY <2>1, TakeOut DEF UnindexDoc
    <2>2. ASSUME NEW d \in Docs, IndexDocMissing(d) PROVE IndexInv'
      BY <2>2, TakeOut DEF IndexDocMissing
    <2>3. ASSUME NEW d \in Docs, IndexDocMissingBare(d) PROVE IndexInv'
      BY <2>3 DEF IndexDocMissingBare, IndexInv, FwdMatchesRev, FormFits, Counted
    <2>4. ASSUME NEW d \in Docs, NEW v \in Vals, IndexDoc(d, v) PROVE IndexInv'
      BY <2>4, GiveValue DEF IndexDoc
    <2>5. CASE UNCHANGED vars
      BY <2>5 DEF vars, IndexInv, FwdMatchesRev, FormFits, Counted, Indexed
    <2>6. QED
      BY <2>1, <2>2, <2>3, <2>4, <2>5 DEF Next
  <1>3. IndexInv => FwdMatchesRev /\ FormFits /\ Counted
    BY DEF IndexInv
  <1>4. QED
    BY <1>1, <1>2, <1>3, Typing, PTL DEF Spec

\* In particular, the three forms of an entry never overlap: each is used for
\* just the sizes inner_index_doc and unindex_doc mean it for.
THEOREM FormsFit == Spec => []FormFits
  BY IndexCorrect, PTL

\* In particular, num_docs is the number of documents that have a value, however
\* often they are indexed again (index_doc, unindex_doc).
THEOREM CountIsRight == Spec => []Counted
  BY IndexCorrect, PTL

-----------------------------------------------------------------------------
(* The refinement: what queries see through the forward index is a map.     *)

\* Unless an operation raised, what queries see is the reverse index.
LEMMA SeenIsRev == TypeOK /\ IndexInv /\ ~raised => Seen = rev
  <1> SUFFICES ASSUME TypeOK, IndexInv, ~raised PROVE Seen = rev
    OBVIOUS
  <1>1. \A v \in Vals, d \in Docs : d \in fwd[v].docs <=> rev[d] = v
    BY DEF IndexInv, FwdMatchesRev
  <1>2. \A d \in Docs : Seen[d] = rev[d]
    BY <1>1, NoValueAssumption DEF Seen, TypeOK
  <1>3. QED
    BY <1>2 DEF Seen, TypeOK

\* The forward index with its three forms implements the map of FieldMap, for
\* all documents, values and thresholds; a failing index_doc changes nothing
\* that a query sees.
THEOREM Refinement == Spec => ImplementsFieldMap
  <1>1. Init => Promise!Init
    <2> SUFFICES ASSUME Init PROVE Promise!Init
      OBVIOUS
    <2>1. \A v \in Vals : fwd[v].docs = {}
      BY DEF Init, NoEntry
    <2>2. Seen = [d \in Docs |-> NoValue]
      BY <2>1 DEF Seen
    <2>3. QED
      BY <2>2 DEF Init, Promise!Init
  <1>2. (TypeOK /\ IndexInv /\ ~raised => Seen = rev)'
    BY SeenIsRev, PTL
  <1>3. TypeOK /\ IndexInv /\ TypeOK' /\ IndexInv' /\ [Next]_vars
            => [Promise!Next]_<<Seen, not_indexed>>
    <2> SUFFICES ASSUME TypeOK, IndexInv, TypeOK', IndexInv', [Next]_vars
                 PROVE  [Promise!Next]_<<Seen, not_indexed>>
      OBVIOUS
    <2>1. ~raised => Seen = rev
      BY SeenIsRev
    <2>2. ~raised' => Seen' = rev'
      BY <1>2
    <2>3. ASSUME NEW d \in Docs, UnindexDoc(d) PROVE Promise!UnindexDoc(d)
      BY <2>1, <2>2, <2>3 DEF UnindexDoc, Promise!UnindexDoc
    <2>4. ASSUME NEW d \in Docs, IndexDocMissing(d)
          PROVE  Promise!IndexDocMissing(d)
      BY <2>1, <2>2, <2>4 DEF IndexDocMissing, Promise!IndexDocMissing
    <2>5. ASSUME NEW d \in Docs, IndexDocMissingBare(d)
          PROVE  UNCHANGED <<Seen, not_indexed>>
      BY <2>5 DEF IndexDocMissingBare, Seen
    <2>6. ASSUME NEW d \in Docs, NEW v \in Vals, IndexDoc(d, v)
          PROVE  Promise!IndexDoc(d, v)
      <3>1. ~raised /\ ~raised' /\ not_indexed' = not_indexed \ {d}
        BY <2>6 DEF IndexDoc
      <3>2. CASE rev[d] # NoValue /\ d \in fwd[v].docs
        <4>1. rev' = rev /\ rev[d] = v
          BY <2>6, <3>1, <3>2 DEF IndexDoc, InnerIndexDoc, IndexInv, FwdMatchesRev
        <4>2. rev' = [rev EXCEPT ![d] = v]
          BY <4>1 DEF TypeOK
        <4>3. QED
          BY <2>1, <2>2, <3>1, <4>2 DEF Promise!IndexDoc
      <3>3. CASE ~(rev[d] # NoValue /\ d \in fwd[v].docs)
        BY <2>1, <2>2, <2>6, <3>1, <3>3
           DEF IndexDoc, InnerIndexDoc, Promise!IndexDoc
      <3>4. QED
        BY <3>2, <3>3
    <2>7. CASE UNCHANGED vars
      BY <2>7 DEF vars, Seen
    <2>8. QED
      BY <2>3, <2>4, <2>5, <2>6, <2>7 DEF Next, Promise!Next
  <1>4. Spec => []IndexInv
    BY IndexCorrect, PTL DEF IndexInv
  <1>5. QED
    BY <1>1, <1>3, <1>4, Typing, PTL DEF Spec, ImplementsFieldMap, Promise!Spec

-----------------------------------------------------------------------------
(* The searches.  The keys of the forward index come in ascending order and *)
(* the entries of each are put one after the other: the proof goes along    *)
(* the keys, by taking the first at which something would be wrong.         *)

\* A set of natural numbers has a least element.
LEMMA LeastOf ==
    ASSUME NEW T \in SUBSET Nat, T # {}
    PROVE  \E n \in T : \A m \in T : n <= m
  <1> DEFINE UpTo(n) == {k \in Nat : k <= n}
             U == {UpTo(n) : n \in T}
             R == StrictSubsetOrdering(Nat)
  <1>1. \A n \in Nat : IsFiniteSet(UpTo(n))
    BY FS_BoundedSetOfNaturals
  <1>2. IsWellFoundedOn(R, FiniteSubsetsOf(Nat))
    BY FS_StrictSubsetOrderingWellFounded
  <1>3. U \subseteq FiniteSubsetsOf(Nat) /\ U # {}
    BY <1>1 DEF FiniteSubsetsOf
  <1>4. \E x \in U : \A y \in U : ~ (<<y, x>> \in R)
    <2> HIDE DEF U, R
    <2> QED
      BY <1>2, <1>3, WFMin
  <1>5. PICK n \in T : \A m \in T : ~ (<<UpTo(m), UpTo(n)>> \in R)
    BY <1>4
  <1>6. ASSUME NEW m \in T, m < n PROVE FALSE
    <2>1. n \in UpTo(n) /\ n \notin UpTo(m) /\ UpTo(m) \subseteq UpTo(n)
      BY <1>6
    <2>2. <<UpTo(m), UpTo(n)>> \in R
      BY <2>1 DEF StrictSubsetOrdering
    <2> QED
      BY <1>5, <1>6, <2>2
  <1> QED
    BY <1>6

\* What holds of 1 and goes from each number to the next holds up to n: the
\* numbers at which it does not hold would have a least one.
LEMMA Upwards ==
    ASSUME NEW n \in Nat, NEW Good, n > 0 => 1 \in Good,
           \A k \in 1 .. n - 1 : k \in Good => k + 1 \in Good
    PROVE  \A k \in 1 .. n : k \in Good
  <1> DEFINE Bad == {k \in 1 .. n : k \notin Good}
  <1> SUFFICES ASSUME Bad # {} PROVE FALSE
    OBVIOUS
  <1>1. Bad \in SUBSET Nat
    OBVIOUS
  <1>2. PICK k \in Bad : \A m \in Bad : k <= m
    BY <1>1, LeastOf
  <1>3. k # 1 /\ k \in 1 .. n
    BY <1>2
  <1>4. k - 1 \in 1 .. n - 1 /\ k - 1 \in 1 .. n /\ ~(k <= k - 1)
    BY <1>3
  <1>5. k - 1 \notin Bad
    BY <1>2, <1>4
  <1>6. (k - 1) + 1 \in Good
    BY <1>4, <1>5
  <1> QED
    BY <1>2, <1>3, <1>6

\* The documents of an entry as a sequence: each once.
LEMMA SomeOrderType ==
    ASSUME NEW ds \in SUBSET Docs
    PROVE  /\ SomeOrder[ds] \in Seq(Docs) /\ Len(SomeOrder[ds]) = Cardinality(ds)
           /\ ToSet(SomeOrder[ds]) = ds
  <1> DEFINE n == Cardinality(ds)
             s == SomeOrder[ds]
  <1>1. IsFiniteSet(ds) /\ n \in Nat /\ ExistsBijection(1 .. n, ds)
    BY DocsAssumption, FS_Subset, FS_CardinalityType
  <1>2. \E f \in [1 .. n -> ds] : IsInjective(f)
    <2>1. PICK f \in Bijection(1 .. n, ds) : TRUE
      BY <1>1 DEF ExistsBijection
    <2>2. f \in [1 .. n -> ds] /\ IsInjective(f)
      BY <2>1 DEF Bijection, Injection, IsInjective
    <2> QED
      BY <2>2
  <1>3. s \in [1 .. n -> ds] /\ IsInjective(s)
    BY <1>2 DEF SomeOrder, SetToSeq
  <1> HIDE DEF s
  <1>4. s \in Injection(1 .. n, ds)
    BY <1>3 DEF Injection, IsInjective
  <1>5. Cardinality(1 .. n) = n /\ IsFiniteSet(1 .. n)
    BY <1>1, FS_Interval
  <1>6. s \in Surjection(1 .. n, ds)
    BY <1>1, <1>4, <1>5, FS_Injection
  <1>7. \A d \in ds : \E k \in 1 .. n : s[k] = d
    BY <1>6 DEF Surjection
  <1>8. s \in Seq(Docs) /\ Len(s) = n
    BY <1>1, <1>3
  <1>9. ToSet(s) = ds
    BY <1>3, <1>7 DEF ToSet
  <1> QED
    BY <1>8, <1>9 DEF s

\* The keys of a tree in ascending order: each once.
LEMMA AscendingType ==
    ASSUME NEW vs \in SUBSET Vals, IsFiniteSet(vs)
    PROVE  /\ Cardinality(vs) \in Nat
           /\ Ascending[vs] \in [1 .. Cardinality(vs) -> vs]
           /\ \A j, k \in 1 .. Cardinality(vs) : j < k => Ascending[vs][j] < Ascending[vs][k]
           /\ \A v \in vs : \E k \in 1 .. Cardinality(vs) : Ascending[vs][k] = v
  <1> DEFINE n == Cardinality(vs)
             upto(v) == {u \in vs : u <= v}
             rank == [v \in vs |-> Cardinality(upto(v))]
             s == Ascending[vs]
  <1>1. n \in Nat /\ IsFiniteSet(1 .. n) /\ Cardinality(1 .. n) = n
    BY FS_CardinalityType, FS_Interval
  <1>2. \A v \in vs : v \in Int
    BY ValsAreNumbers
  <1>3. ASSUME NEW v \in vs
        PROVE  rank[v] \in 1 .. n /\ IsFiniteSet(upto(v))
    <2>1. upto(v) \in SUBSET vs /\ v \in upto(v)
      BY <1>2
    <2>2. IsFiniteSet(upto(v)) /\ Cardinality(upto(v)) <= n /\ Cardinality(upto(v)) \in Nat
      BY <2>1, FS_Subset, FS_CardinalityType
    <2>3. Cardinality(upto(v)) # 0
      <3> HIDE DEF upto
      <3> QED
        BY <2>1, <2>2, FS_EmptySet
    <2> QED
      BY <1>1, <2>2, <2>3
  <1>4. ASSUME NEW u \in vs, NEW v \in vs, u < v
        PROVE  rank[u] < rank[v]
    <2>1. upto(u) \in SUBSET upto(v) /\ v \in upto(v) /\ v \notin upto(u)
      BY <1>2, <1>4
    <2>2. /\ Cardinality(upto(u)) <= Cardinality(upto(v))
          /\ Cardinality(upto(u)) = Cardinality(upto(v)) => upto(u) = upto(v)
      <3> HIDE DEF upto
      <3> QED
        BY <1>3, <2>1, FS_Subset
    <2>3. upto(u) # upto(v)
      BY <2>1
    <2> HIDE DEF upto
    <2> QED
      BY <1>3, <2>2, <2>3
  <1> HIDE DEF rank
  <1>5. rank \in [vs -> 1 .. n]
    BY <1>3 DEF rank
  <1>6. rank \in Injection(vs, 1 .. n)
    <2>1. \A u, v \in vs : rank[u] = rank[v] => u = v
      BY <1>2, <1>4, <1>5
    <2> QED
      BY <1>5, <2>1 DEF Injection, IsInjective
  <1>7. \A k \in 1 .. n : \E v \in vs : rank[v] = k
    <2>1. rank \in Surjection(vs, 1 .. n)
      BY <1>1, <1>6, FS_Injection
    <2> QED
      BY <2>1 DEF Surjection
  <1>8. \E f \in [1 .. n -> vs] : \A j, k \in DOMAIN f : j < k => f[j] < f[k]
    <2> DEFINE f == [k \in 1 .. n |-> CHOOSE v \in vs : rank[v] = k]
    <2>1. \A k \in 1 .. n : f[k] \in vs /\ rank[f[k]] = k
      BY <1>7
    <2>2. f \in [1 .. n -> vs]
      BY <2>1
    <2> HIDE DEF f
    <2>3. \A j, k \in 1 .. n : j < k => f[j] < f[k]
      <3> TAKE j, k \in 1 .. n
      <3> HAVE j < k
      <3>1. f[j] \in Int /\ f[k] \in Int
        BY <1>2, <2>1
      <3>2. CASE f[k] < f[j]
        BY <1>4, <2>1, <3>2
      <3>3. CASE f[k] = f[j]
        BY <2>1, <3>3
      <3> QED
        BY <3>1, <3>2, <3>3
    <2> QED
      BY <2>2, <2>3
  <1>9. s \in [1 .. n -> vs] /\ \A j, k \in DOMAIN s : j < k => s[j] < s[k]
    BY <1>8 DEF Ascending
  <1> HIDE DEF s
  <1>10. s \in Injection(1 .. n, vs)
    <2>1. \A j, k \in 1 .. n : s[j] = s[k] => j = k
      BY <1>2, <1>9
    <2> QED
      BY <1>9, <2>1 DEF Injection, IsInjective
  <1>11. \A v \in vs : \E k \in 1 .. n : s[k] = v
    <2>1. s \in Surjection(1 .. n, vs)
      BY <1>1, <1>10, FS_Injection
    <2> QED
      BY <2>1 DEF Surjection
  <1> QED
    BY <1>1, <1>9, <1>11 DEF s

\* multiunion1 puts one sequence after the other.
LEMMA FlattenedSteps ==
    ASSUME NEW n \in Nat, n > 0, NEW seqs \in [1 .. n -> Seq(Docs)]
    PROVE  \E f : /\ f[1] = seqs[1]
                  /\ \A k \in 1 .. n - 1 : f[k + 1] = f[k] \o seqs[k + 1]
                  /\ FlattenSeq(seqs) = f[n]
  <1> DEFINE Body(f, m) == [i \in 1 .. m |-> IF i = 1 THEN seqs[i] ELSE f[i - 1] \o seqs[i]]
             Has(m) == \E f : f = Body(f, m)
             Good == {m \in 1 .. n : Has(m)}
  <1>1. 1 \in Good
    <2> DEFINE g == [i \in 1 .. 1 |-> seqs[1]]
    <2>1. g = Body(g, 1)
      OBVIOUS
    <2>2. Has(1)
      <3> WITNESS g
      <3> QED
        BY <2>1
    <2> HIDE DEF Has
    <2> QED
      BY <2>2
  <1>2. ASSUME NEW m \in 1 .. n - 1, m \in Good PROVE m + 1 \in Good
    <2>1. PICK f : f = Body(f, m)
      BY <1>2
    <2> DEFINE g == [i \in 1 .. m + 1 |-> IF i = m + 1 THEN f[m] \o seqs[m + 1] ELSE f[i]]
    <2>2. \A i \in 1 .. m : g[i] = f[i]
      OBVIOUS
    <2>3. \A i \in 1 .. m : f[i] = IF i = 1 THEN seqs[i] ELSE f[i - 1] \o seqs[i]
      BY <2>1
    <2>4. ASSUME NEW i \in 1 .. m + 1
          PROVE  g[i] = IF i = 1 THEN seqs[i] ELSE g[i - 1] \o seqs[i]
      <3>1. CASE i = m + 1
        <4>1. i # 1 /\ i - 1 = m /\ i - 1 \in 1 .. m
          BY <3>1
        <4>2. g[i] = f[m] \o seqs[i] /\ g[i - 1] = f[m]
          BY <2>2, <3>1, <4>1
        <4> QED
          BY <4>1, <4>2
      <3>2. CASE i # m + 1
        BY <2>2, <2>3, <3>2
      <3> QED
        BY <3>1, <3>2
    <2>5. g = Body(g, m + 1)
      BY <2>4
    <2>6. Has(m + 1)
      <3> WITNESS g
      <3> QED
        BY <2>5
    <2> HIDE DEF Has
    <2> QED
      BY <2>6
  <1>3. n \in Good
    <2> HIDE DEF Good
    <2>1. \A k \in 1 .. n : k \in Good
      BY <1>1, <1>2, Upwards
    <2> QED
      BY <2>1
  <1>4. PICK f : f = Body(f, n) /\ FlattenSeq(seqs) = f[n]
    <2>1. Len(seqs) = n /\ Len(seqs) # 0
      OBVIOUS
    <2>2. \E f : f = Body(f, n)
      BY <1>3
    <2>3. FlattenSeq(seqs) = (CHOOSE f : f = Body(f, n))[n]
      BY <2>1 DEF FlattenSeq
    <2> QED
      BY <2>2, <2>3
  <1>5. \A i \in 1 .. n : f[i] = IF i = 1 THEN seqs[i] ELSE f[i - 1] \o seqs[i]
    BY <1>4
  <1>6. \A k \in 1 .. n - 1 : f[k + 1] = f[k] \o seqs[k + 1]
    <2> TAKE k \in 1 .. n - 1
    <2>1. k + 1 \in 1 .. n /\ k + 1 # 1 /\ (k + 1) - 1 = k
      OBVIOUS
    <2> QED
      BY <1>5, <2>1
  <1>7. f[1] = seqs[1]
    BY <1>5
  <1> HIDE DEF Body
  <1> QED
    BY <1>4, <1>6, <1>7

\* Two results one after the other, the second with values that are not smaller
LEMMA Joined ==
    ASSUME NEW s \in Seq(Docs), NEW t \in Seq(Docs), NEW A \in SUBSET Docs,
           NEW B \in SUBSET Docs, Sorted(s, A), Sorted(t, B), A \cap B = {},
           \A a \in A, b \in B : rev[a] <= rev[b]
    PROVE  s \o t \in Seq(Docs) /\ Sorted(s \o t, A \cup B)
  <1> DEFINE r == s \o t
  <1>1. /\ r \in Seq(Docs) /\ Len(r) = Len(s) + Len(t)
        /\ Len(s) \in Nat /\ Len(t) \in Nat
        /\ \A k \in 1 .. Len(r) : r[k] = IF k <= Len(s) THEN s[k] ELSE t[k - Len(s)]
    OBVIOUS
  <1>2. /\ DOMAIN r = 1 .. Len(r) /\ DOMAIN s = 1 .. Len(s) /\ DOMAIN t = 1 .. Len(t)
    OBVIOUS
  <1>3. /\ \A k \in 1 .. Len(s) : s[k] \in A
        /\ \A k \in 1 .. Len(t) : t[k] \in B
        /\ \A a \in A : \E k \in 1 .. Len(s) : s[k] = a
        /\ \A b \in B : \E k \in 1 .. Len(t) : t[k] = b
    BY <1>2 DEF Sorted, ToSet
  <1> HIDE DEF r
  <1>4. ToSet(r) = A \cup B
    <2>1. \A k \in 1 .. Len(r) : r[k] \in A \cup B
      BY <1>1, <1>3
    <2>2. ASSUME NEW a \in A PROVE \E k \in 1 .. Len(r) : r[k] = a
      <3>1. PICK k \in 1 .. Len(s) : s[k] = a
        BY <1>3
      <3>2. k \in 1 .. Len(r) /\ r[k] = a
        BY <1>1, <3>1
      <3> QED
        BY <3>2
    <2>3. ASSUME NEW b \in B PROVE \E k \in 1 .. Len(r) : r[k] = b
      <3>1. PICK k \in 1 .. Len(t) : t[k] = b
        BY <1>3
      <3>2. /\ Len(s) + k \in 1 .. Len(r) /\ ~(Len(s) + k <= Len(s))
            /\ (Len(s) + k) - Len(s) = k
        BY <1>1, <3>1
      <3>3. r[Len(s) + k] = b
        BY <1>1, <3>1, <3>2
      <3> QED
        BY <3>2, <3>3
    <2> QED
      BY <1>2, <2>1, <2>2, <2>3 DEF ToSet
  <1>5. Len(r) = Cardinality(A \cup B)
    <2>1. IsFiniteSet(A) /\ IsFiniteSet(B)
      BY DocsAssumption, FS_Subset
    <2>2. Cardinality(A \cup B) = Cardinality(A) + Cardinality(B) - Cardinality({})
      BY <2>1, FS_Union
    <2> QED
      BY <1>1, <2>2, FS_EmptySet DEF Sorted
  <1>6. ASSUME NEW k \in 2 .. Len(r) PROVE rev[r[k - 1]] <= rev[r[k]]
    <2>1. k - 1 \in 1 .. Len(r) /\ k \in 1 .. Len(r)
      BY <1>1
    <2>2. CASE k <= Len(s)
      <3>1. r[k - 1] = s[k - 1] /\ r[k] = s[k] /\ k \in 2 .. Len(s)
        BY <1>1, <2>1, <2>2
      <3> QED
        BY <3>1 DEF Sorted
    <2>3. CASE k = Len(s) + 1
      <3>1. r[k - 1] = s[k - 1] /\ r[k] = t[1] /\ k - 1 \in 1 .. Len(s) /\ 1 \in 1 .. Len(t)
        BY <1>1, <2>1, <2>3
      <3> QED
        BY <1>3, <3>1
    <2>4. CASE k > Len(s) + 1
      <3> DEFINE j == k - Len(s)
      <3>1. r[k - 1] = t[j - 1] /\ r[k] = t[j] /\ j \in 2 .. Len(t)
        BY <1>1, <2>1, <2>4
      <3> QED
        BY <3>1 DEF Sorted
    <2> QED
      BY <1>1, <2>2, <2>3, <2>4
  <1>7. Sorted(r, A \cup B)
    BY <1>4, <1>5, <1>6 DEF Sorted
  <1> QED
    BY <1>1, <1>7 DEF r

\* The documents of some values
OfValues(vs) == {d \in Docs : rev[d] \in vs}

\* The state of an index in which no operation has raised
Sound == TypeOK /\ FwdMatchesRev /\ FormFits /\ ~raised

\* A sequence of exactly these documents, each once, by value
Listed(ids, ds) == ids \in Seq(Docs) /\ Sorted(ids, ds)

\* One entry, in any form (NewTreeItems): its documents, each once.
LEMMA EntryFound ==
    ASSUME Sound, NEW v \in Vals
    PROVE  /\ fwd[v].docs = OfValues({v})
           /\ DocIds(fwd[v]) \in Seq(Docs)
           /\ Sorted(DocIds(fwd[v]), OfValues({v}))
  <1> DEFINE s == SomeOrder[fwd[v].docs]
  <1>1. fwd[v].docs \in SUBSET Docs
    BY DEF Sound, TypeOK, Entry
  <1>2. fwd[v].docs = OfValues({v})
    BY <1>1 DEF Sound, FwdMatchesRev, OfValues
  <1>3. s \in Seq(Docs) /\ Len(s) = Cardinality(fwd[v].docs) /\ ToSet(s) = fwd[v].docs
    BY <1>1, SomeOrderType
  <1> HIDE DEF s
  <1>4. ASSUME NEW k \in 2 .. Len(s) PROVE rev[s[k - 1]] <= rev[s[k]]
    <2>1. s[k - 1] \in ToSet(s) /\ s[k] \in ToSet(s)
      BY <1>3 DEF ToSet
    <2>2. rev[s[k - 1]] = v /\ rev[s[k]] = v /\ v \in Int
      BY <1>2, <1>3, <2>1, ValsAreNumbers DEF OfValues
    <2> QED
      BY <2>2
  <1>5. Sorted(s, OfValues({v}))
    BY <1>2, <1>3, <1>4 DEF Sorted
  <1> QED
    BY <1>2, <1>3, <1>5 DEF s, DocIds

\* The keys that a tree holds are no more than the documents.
LEMMA KeysFinite ==
    ASSUME Sound, NEW vs \in SUBSET Vals, \A v \in vs : fwd[v].form # "none"
    PROVE  IsFiniteSet(vs)
  <1> DEFINE f == [v \in vs |-> CHOOSE d \in Docs : rev[d] = v]
  <1>1. \A v \in vs : \E d \in Docs : rev[d] = v
    <2> TAKE v \in vs
    <2>1. fwd[v].docs # {}
      BY DEF Sound, FormFits
    <2>2. fwd[v].docs = OfValues({v})
      BY EntryFound
    <2> QED
      BY <2>1, <2>2 DEF OfValues
  <1>2. \A v \in vs : f[v] \in Docs /\ rev[f[v]] = v
    BY <1>1
  <1>3. f \in [vs -> Docs]
    BY <1>2
  <1> HIDE DEF f
  <1>4. f \in Injection(vs, Docs)
    BY <1>2, <1>3 DEF Injection, IsInjective
  <1> QED
    BY <1>4, DocsAssumption, FS_Injection

\* The entries of some keys in ascending order (values of the tree, multiunion1):
\* exactly the documents with these values, each once, by value.
LEMMA KeysFound ==
    ASSUME Sound, NEW vs \in SUBSET Vals, \A v \in vs : fwd[v].form # "none"
    PROVE  Listed(FlattenSeq([k \in DOMAIN Ascending[vs] |-> DocIds(fwd[Ascending[vs][k]])]),
                  OfValues(vs))
  <1> DEFINE n == Cardinality(vs)
             s == Ascending[vs]
             seqs == [k \in 1 .. n |-> DocIds(fwd[s[k]])]
             First(k) == {s[j] : j \in 1 .. k}
  <1>1. IsFiniteSet(vs)
    BY KeysFinite
  <1>2. /\ n \in Nat /\ s \in [1 .. n -> vs]
        /\ \A j, k \in 1 .. n : j < k => s[j] < s[k]
        /\ \A v \in vs : \E k \in 1 .. n : s[k] = v
    BY <1>1, AscendingType
  <1>3. DOMAIN s = 1 .. n
    BY <1>2
  <1> HIDE DEF s, n
  <1>4. \A k \in 1 .. n : s[k] \in Vals /\ s[k] \in Int
    BY <1>2, ValsAreNumbers
  <1>5. seqs \in [1 .. n -> Seq(Docs)]
    BY <1>4, EntryFound
  <1>6. ASSUME n = 0 PROVE Listed(FlattenSeq(seqs), OfValues(vs))
    <2>1. vs = {} /\ OfValues(vs) = {}
      BY <1>2, <1>6 DEF OfValues
    <2>2. seqs = << >>
      BY <1>6
    <2> HIDE DEF seqs
    <2>3. FlattenSeq(seqs) = << >>
      BY <2>2 DEF FlattenSeq
    <2>4. ToSet(<< >>) = {}
      BY DEF ToSet
    <2>5. Listed(<< >>, {})
      BY <2>4, FS_EmptySet DEF Listed, Sorted
    <2> QED
      BY <2>1, <2>3, <2>5
  <1>7. ASSUME n > 0 PROVE Listed(FlattenSeq(seqs), OfValues(vs))
    <2>1. PICK f : /\ f[1] = seqs[1]
                   /\ \A k \in 1 .. n - 1 : f[k + 1] = f[k] \o seqs[k + 1]
                   /\ FlattenSeq(seqs) = f[n]
      <3> HIDE DEF seqs
      <3> QED
        BY <1>2, <1>5, <1>7, FlattenedSteps
    <2> DEFINE Good == {k \in 1 .. n : f[k] \in Seq(Docs) /\ Sorted(f[k], OfValues(First(k)))}
    <2>2. 1 \in Good
      <3>1. First(1) = {s[1]} /\ 1 \in 1 .. n
        BY <1>2, <1>7
      <3>2. f[1] = DocIds(fwd[s[1]])
        BY <2>1, <3>1
      <3> QED
        BY <1>4, <3>1, <3>2, EntryFound
    <2>3. ASSUME NEW k \in 1 .. n - 1, k \in Good PROVE k + 1 \in Good
      <3> DEFINE A == OfValues(First(k))
                 B == OfValues({s[k + 1]})
      <3>1. k \in 1 .. n /\ k + 1 \in 1 .. n
        BY <1>2
      <3>2. f[k + 1] = f[k] \o DocIds(fwd[s[k + 1]])
        BY <2>1, <3>1
      <3>3. DocIds(fwd[s[k + 1]]) \in Seq(Docs) /\ Sorted(DocIds(fwd[s[k + 1]]), B)
        BY <1>4, <3>1, EntryFound
      <3>4. f[k] \in Seq(Docs) /\ Sorted(f[k], A)
        BY <2>3
      <3>5. \A a \in A, b \in B : rev[a] < rev[b] /\ rev[a] \in Int /\ rev[b] \in Int
        <4> TAKE a \in A, b \in B
        <4>1. PICK j \in 1 .. k : rev[a] = s[j]
          BY DEF OfValues
        <4>2. j \in 1 .. n /\ j < k + 1 /\ rev[b] = s[k + 1]
          BY <1>2, <3>1 DEF OfValues
        <4> QED
          BY <1>2, <1>4, <3>1, <4>1, <4>2
      <3> HIDE DEF A, B
      <3>6. A \cap B = {} /\ \A a \in A, b \in B : rev[a] <= rev[b]
        <4>1. ASSUME NEW a \in A, a \in B PROVE FALSE
          <5>1. rev[a] < rev[a] /\ rev[a] \in Int
            BY <3>5, <4>1
          <5> QED
            BY <5>1
        <4>2. ASSUME NEW a \in A, NEW b \in B PROVE rev[a] <= rev[b]
          <5>1. rev[a] < rev[b] /\ rev[a] \in Int /\ rev[b] \in Int
            BY <3>5
          <5> QED
            BY <5>1
        <4> QED
          BY <4>1, <4>2
      <3> USE DEF A, B
      <3>7. A \cup B = OfValues(First(k + 1))
        <4>1. First(k + 1) = First(k) \cup {s[k + 1]}
          BY <3>1
        <4> QED
          BY <4>1 DEF OfValues
      <3>8. A \in SUBSET Docs /\ B \in SUBSET Docs
        BY DEF OfValues
      <3> HIDE DEF A, B
      <3>9. f[k + 1] \in Seq(Docs) /\ Sorted(f[k + 1], A \cup B)
        BY <3>2, <3>3, <3>4, <3>6, <3>8, Joined
      <3> QED
        BY <3>1, <3>7, <3>9
    <2>4. n \in Good
      <3> HIDE DEF Good
      <3>1. \A k \in 1 .. n : k \in Good
        BY <1>2, <2>2, <2>3, Upwards
      <3> QED
        BY <1>2, <1>7, <3>1
    <2>5. First(n) = vs
      BY <1>2
    <2>6. Listed(f[n], OfValues(vs))
      BY <2>4, <2>5 DEF Listed
    <2> HIDE DEF seqs
    <2> QED
      BY <2>1, <2>6
  <1>8. Listed(FlattenSeq(seqs), OfValues(vs))
    BY <1>2, <1>6, <1>7
  <1>9. seqs = [k \in DOMAIN s |-> DocIds(fwd[s[k]])]
    BY <1>3
  <1> HIDE DEF seqs
  <1> QED
    BY <1>8, <1>9 DEF s

\* Keys between two bounds (applyInRange, values of the tree).
Within(v, start, end, excludemin, excludemax) ==
    /\ start = None \/ v > start \/ (v = start /\ ~excludemin)
    /\ end = None \/ v < end \/ (v = end /\ ~excludemax)

\* A lookup between two bounds finds the documents whose value is between them,
\* and a value without an entry has none (applyInRange).
LEMMA RangeFound ==
    ASSUME Sound, NEW start, NEW end, NEW excludemin, NEW excludemax
    PROVE  Listed(ApplyInRange(start, end, excludemin, excludemax),
                  {d \in Indexed : Within(rev[d], start, end, excludemin, excludemax)})
  <1> DEFINE vs == Between(start, end, excludemin, excludemax)
             found == {d \in Indexed : Within(rev[d], start, end, excludemin, excludemax)}
  <1>1. vs \in SUBSET Vals /\ \A v \in vs : fwd[v].form # "none"
    BY DEF Between
  <1>2. Listed(ApplyInRange(start, end, excludemin, excludemax), OfValues(vs))
    <2>1. ApplyInRange(start, end, excludemin, excludemax)
            = FlattenSeq([k \in DOMAIN Ascending[vs] |-> DocIds(fwd[Ascending[vs][k]])])
      BY DEF ApplyInRange
    <2> HIDE DEF vs
    <2> QED
      BY <1>1, <2>1, KeysFound
  <1>3. ASSUME NEW d \in Docs PROVE d \in OfValues(vs) <=> d \in found
    <2>1. rev[d] \in Vals \/ rev[d] = NoValue
      BY DEF Sound, TypeOK
    <2>2. CASE rev[d] = NoValue
      BY <1>1, <2>2, NoValueAssumption DEF OfValues, Indexed
    <2>3. CASE rev[d] \in Vals
      <3>1. d \in fwd[rev[d]].docs
        BY <2>3 DEF Sound, FwdMatchesRev
      <3>2. fwd[rev[d]].form # "none"
        BY <2>3, <3>1 DEF Sound, FormFits
      <3>3. rev[d] \in vs <=> Within(rev[d], start, end, excludemin, excludemax)
        BY <2>3, <3>2 DEF Between, Within
      <3>4. rev[d] # NoValue
        BY <2>3, NoValueAssumption
      <3> HIDE DEF vs
      <3> QED
        BY <3>3, <3>4 DEF OfValues, Indexed
    <2> QED
      BY <2>1, <2>2, <2>3
  <1>4. OfValues(vs) = found
    <2>1. OfValues(vs) \subseteq Docs /\ found \subseteq Docs
      BY DEF OfValues, Indexed
    <2> HIDE DEF found, vs
    <2> QED
      BY <1>3, <2>1
  <1> QED
    BY <1>2, <1>4

\* Every comparator finds exactly the documents that meet it (_apply).
LEMMA ComparatorFinds ==
    ASSUME Sound, NEW q \in Comparators \cup Ranges
    PROVE  Listed(Apply(q), Matching(q))
  <1>0. None \notin Vals
    BY NoneIsNoNumber, ValsAreNumbers
  <1>1. CASE q \in Ranges
    <2>1. PICK start \in Vals, end \in Vals, excl \in BOOLEAN : q = Range3(start, end, excl)
      BY <1>1 DEF Ranges
    <2>2. /\ q.op = "InRange" /\ q.start = start /\ q.end = end
          /\ q.excludemin = excl /\ q.excludemax = excl
      BY <2>1 DEF Range3
    <2>3. Apply(q) = ApplyInRange(start, end, excl, excl)
      BY <2>2 DEF Apply
    <2>4. \A v : Meets(v, q) <=> Within(v, start, end, excl, excl)
      BY <1>0, <2>2 DEF Meets, Within
    <2>5. Matching(q) = {d \in Indexed : Within(rev[d], start, end, excl, excl)}
      BY <2>4 DEF Matching
    <2> QED
      BY <2>3, <2>5, RangeFound
  <1>2. CASE q \in Comparators
    <2>1. PICK op \in {"Eq", "Gt", "Ge", "Lt", "Le"}, w \in Vals : q = Compare(op, w)
      BY <1>2 DEF Comparators
    <2>2. q.op = op /\ q.value = w
      BY <2>1 DEF Compare
    <2>3. /\ w # None /\ w \in Int /\ w # NoValue
          /\ \A d \in Indexed : rev[d] \in Int
      BY <1>0, ValsAreNumbers, NoValueAssumption DEF Indexed, Sound, TypeOK
    <2>4. CASE op = "Eq"
      <3>1. Apply(q) = DocIds(fwd[w])
        BY <2>2, <2>4 DEF Apply, ApplyEq
      <3>2. Matching(q) = OfValues({w})
        BY <2>2, <2>3, <2>4 DEF Matching, Meets, OfValues, Indexed
      <3> QED
        BY <3>1, <3>2, EntryFound DEF Listed
    <2>5. CASE op = "Gt"
      <3>1. Apply(q) = ApplyInRange(w, None, TRUE, FALSE)
        BY <2>2, <2>5 DEF Apply
      <3>2. \A d \in Indexed : Meets(rev[d], q) <=> Within(rev[d], w, None, TRUE, FALSE)
        BY <2>2, <2>3, <2>5 DEF Meets, Within
      <3>3. Matching(q) = {d \in Indexed : Within(rev[d], w, None, TRUE, FALSE)}
        BY <3>2 DEF Matching
      <3> QED
        BY <3>1, <3>3, RangeFound
    <2>6. CASE op = "Ge"
      <3>1. Apply(q) = ApplyInRange(w, None, FALSE, FALSE)
        BY <2>2, <2>6 DEF Apply
      <3>2. \A d \in Indexed : Meets(rev[d], q) <=> Within(rev[d], w, None, FALSE, FALSE)
        BY <2>2, <2>3, <2>6 DEF Meets, Within
      <3>3. Matching(q) = {d \in Indexed : Within(rev[d], w, None, FALSE, FALSE)}
        BY <3>2 DEF Matching
      <3> QED
        BY <3>1, <3>3, RangeFound
    <2>7. CASE op = "Lt"
      <3>1. Apply(q) = ApplyInRange(None, w, FALSE, TRUE)
        BY <2>2, <2>7 DEF Apply
      <3>2. \A d \in Indexed : Meets(rev[d], q) <=> Within(rev[d], None, w, FALSE, TRUE)
        BY <2>2, <2>3, <2>7 DEF Meets, Within
      <3>3. Matching(q) = {d \in Indexed : Within(rev[d], None, w, FALSE, TRUE)}
        BY <3>2 DEF Matching
      <3> QED
        BY <3>1, <3>3, RangeFound
    <2>8. CASE op = "Le"
      <3>1. Apply(q) = ApplyInRange(None, w, FALSE, FALSE)
        BY <2>2, <2>8 DEF Apply
      <3>2. \A d \in Indexed : Meets(rev[d], q) <=> Within(rev[d], None, w, FALSE, FALSE)
        BY <2>2, <2>3, <2>8 DEF Meets, Within
      <3>3. Matching(q) = {d \in Indexed : Within(rev[d], None, w, FALSE, FALSE)}
        BY <3>2 DEF Matching
      <3> QED
        BY <3>1, <3>3, RangeFound
    <2> QED
      BY <2>1, <2>4, <2>5, <2>6, <2>7, <2>8
  <1> QED
    BY <1>1, <1>2

\* A search for several values unites or intersects their documents (search).
LEMMA SearchFinds ==
    ASSUME Sound, NEW vs \in SUBSET Vals, vs # {}
    PROVE  /\ Search(vs, "or") = {d \in Indexed : rev[d] \in vs}
           /\ Search(vs, "and") = {d \in Indexed : vs = {rev[d]}}
  <1> DEFINE sets == {ToSet(DocIds(fwd[v])) : v \in vs}
  <1>1. \A v \in vs : ToSet(DocIds(fwd[v])) = OfValues({v})
    BY EntryFound DEF Sorted
  <1>2. \A v \in vs, d \in Docs : d \in ToSet(DocIds(fwd[v])) <=> rev[d] = v
    BY <1>1 DEF OfValues
  <1>3. \A v \in vs : ToSet(DocIds(fwd[v])) \in SUBSET Docs
    BY <1>1 DEF OfValues
  <1>4. \A v \in vs : v # NoValue
    BY NoValueAssumption
  <1>5. Search(vs, "or") = UNION sets
    BY DEF Search
  <1>6. Search(vs, "and") = {d \in UNION sets : \A ds \in sets : d \in ds}
    BY DEF Search
  <1>7. \A d : d \in UNION sets <=> d \in Indexed /\ rev[d] \in vs
    BY <1>2, <1>3, <1>4 DEF Indexed
  <1>8. ASSUME NEW d \in Indexed, rev[d] \in vs
        PROVE  (\A ds \in sets : d \in ds) <=> vs = {rev[d]}
    <2>1. (\A ds \in sets : d \in ds) <=> \A v \in vs : d \in ToSet(DocIds(fwd[v]))
      OBVIOUS
    <2>2. d \in Docs
      BY DEF Indexed
    <2> QED
      BY <1>2, <1>8, <2>1, <2>2
  <1> HIDE DEF sets
  <1>9. Search(vs, "or") = {d \in Indexed : rev[d] \in vs}
    BY <1>5, <1>7
  <1>10. Search(vs, "and") = {d \in Indexed : vs = {rev[d]}}
    BY <1>6, <1>7, <1>8
  <1> QED
    BY <1>9, <1>10

\* What a sorted result puts later is not smaller.
LEMMA InOrder ==
    ASSUME NEW s \in Seq(Docs), NEW A \in SUBSET Docs, Sorted(s, A),
           \A a \in A : rev[a] \in Int
    PROVE  \A k \in 1 .. Len(s), j \in 1 .. Len(s) : j <= k => rev[s[j]] <= rev[s[k]]
  <1> DEFINE n == Len(s)
             Good == {k \in 1 .. n : \A j \in 1 .. k : rev[s[j]] <= rev[s[k]]}
  <1>1. n \in Nat /\ \A k \in 1 .. n : s[k] \in A /\ rev[s[k]] \in Int
    BY DEF Sorted, ToSet
  <1>2. n > 0 => 1 \in Good
    BY <1>1
  <1>3. ASSUME NEW k \in 1 .. n - 1, k \in Good PROVE k + 1 \in Good
    <2>1. k + 1 \in 2 .. n /\ k + 1 \in 1 .. n /\ (k + 1) - 1 = k /\ k \in 1 .. n
      BY <1>1
    <2>2. rev[s[k]] <= rev[s[k + 1]]
      BY <2>1 DEF Sorted
    <2>3. ASSUME NEW j \in 1 .. k + 1 PROVE rev[s[j]] <= rev[s[k + 1]]
      <3>1. CASE j = k + 1
        BY <1>1, <2>1, <3>1
      <3>2. CASE j # k + 1
        <4>1. j \in 1 .. k /\ j \in 1 .. n
          BY <2>1, <3>2
        <4>2. rev[s[j]] <= rev[s[k]]
          BY <1>3, <4>1
        <4>3. rev[s[j]] \in Int /\ rev[s[k]] \in Int /\ rev[s[k + 1]] \in Int
          BY <1>1, <2>1, <4>1
        <4> QED
          BY <2>2, <4>2, <4>3
      <3> QED
        BY <3>1, <3>2
    <2> QED
      BY <2>1, <2>3
  <1>4. \A k \in 1 .. n : k \in Good
    <2> HIDE DEF Good
    <2> QED
      BY <1>1, <1>2, <1>3, Upwards
  <1> QED
    BY <1>4

\* A sorted result has each document in one place.
LEMMA EachOnce ==
    ASSUME NEW s \in Seq(Docs), NEW A \in SUBSET Docs, Sorted(s, A)
    PROVE  \A j, k \in 1 .. Len(s) : s[j] = s[k] => j = k
  <1> DEFINE n == Len(s)
  <1>1. n \in Nat /\ s \in [1 .. n -> Docs] /\ DOMAIN s = 1 .. n
    OBVIOUS
  <1>2. s \in Surjection(1 .. n, A)
    <2>1. s \in [1 .. n -> A]
      BY <1>1 DEF Sorted, ToSet
    <2>2. \A a \in A : \E k \in 1 .. n : s[k] = a
      BY <1>1 DEF Sorted, ToSet
    <2> HIDE DEF n
    <2> QED
      BY <2>1, <2>2 DEF Surjection
  <1>4. Cardinality(A) = n
    BY DEF Sorted
  <1> HIDE DEF n
  <1>3. IsFiniteSet(1 .. n) /\ Cardinality(1 .. n) = n
    BY <1>1, FS_Interval
  <1>5. s \in Injection(1 .. n, A)
    BY <1>2, <1>3, <1>4, FS_Surjection
  <1> QED
    BY <1>5 DEF Injection, IsInjective, n

\* Of a sorted result, the documents in D, and in the same order (scan_forward)
LEMMA YieldedSorted ==
    ASSUME NEW s \in Seq(Docs), NEW A \in SUBSET Docs, Sorted(s, A), NEW D,
           \A a \in A : rev[a] \in Int
    PROVE  Yielded(s, D) \in Seq(Docs) /\ Sorted(Yielded(s, D), A \cap D)
  <1> DEFINE n == Len(s)
             Body(f, m) == [i \in 0 .. m |->
                             IF i = 0 THEN << >>
                             ELSE IF s[i] \in D THEN Append(f[i - 1], s[i]) ELSE f[i - 1]]
             Has(m) == \E f : f = Body(f, m)
             Good == {m \in 1 .. n : Has(m)}
  <1>1. n \in Nat /\ \A k \in 1 .. n : s[k] \in A /\ s[k] \in Docs
    BY DEF Sorted, ToSet
  <1>2. Has(0)
    <2> DEFINE g == [i \in 0 .. 0 |-> << >>]
    <2>1. g = Body(g, 0)
      OBVIOUS
    <2> WITNESS g
    <2> QED
      BY <2>1
  <1>3. ASSUME NEW m \in 0 .. n - 1, Has(m) PROVE Has(m + 1)
    <2>1. PICK f : f = Body(f, m)
      BY <1>3
    <2> DEFINE last == IF s[m + 1] \in D THEN Append(f[m], s[m + 1]) ELSE f[m]
               g == [i \in 0 .. m + 1 |-> IF i = m + 1 THEN last ELSE f[i]]
    <2>2. /\ \A i \in 0 .. m : g[i] = f[i]
          /\ g[m + 1] = last
      OBVIOUS
    <2>3. \A i \in 0 .. m : f[i] = IF i = 0 THEN << >>
                                    ELSE IF s[i] \in D THEN Append(f[i - 1], s[i]) ELSE f[i - 1]
      BY <2>1
    <2>4. ASSUME NEW i \in 0 .. m + 1
          PROVE  g[i] = IF i = 0 THEN << >>
                        ELSE IF s[i] \in D THEN Append(g[i - 1], s[i]) ELSE g[i - 1]
      <3>1. CASE i = m + 1
        <4>1. i # 0 /\ i - 1 = m /\ i - 1 \in 0 .. m
          BY <3>1
        <4>2. g[i - 1] = f[m]
          BY <2>2, <4>1
        <4> QED
          BY <2>2, <3>1, <4>1, <4>2
      <3>2. CASE i # m + 1
        <4>1. i \in 0 .. m /\ (i # 0 => i - 1 \in 0 .. m)
          BY <3>2
        <4> HIDE DEF g
        <4>2. g[i] = f[i] /\ (i # 0 => g[i - 1] = f[i - 1])
          BY <2>2, <4>1
        <4> QED
          BY <2>3, <4>1, <4>2
      <3> QED
        BY <3>1, <3>2
    <2>5. g = Body(g, m + 1)
      BY <2>4
    <2> WITNESS g
    <2> QED
      BY <2>5
  <1>4. Has(n)
    <2> HIDE DEF Has
    <2>1. n > 0 => 1 \in Good
      BY <1>1, <1>2, <1>3
    <2>2. \A k \in 1 .. n - 1 : k \in Good => k + 1 \in Good
      BY <1>1, <1>3
    <2>3. \A k \in 1 .. n : k \in Good
      <3> HIDE DEF Good
      <3> QED
        BY <1>1, <2>1, <2>2, Upwards
    <2> QED
      BY <1>1, <1>2, <2>3
  <1>5. PICK f : f = Body(f, n) /\ Yielded(s, D) = f[n]
    <2>1. \E f : f = Body(f, n)
      BY <1>4
    <2>2. Yielded(s, D) = (CHOOSE f : f = Body(f, n))[n]
      BY DEF Yielded
    <2> QED
      BY <2>1, <2>2
  <1>6. /\ f[0] = << >>
        /\ \A i \in 1 .. n : f[i] = IF s[i] \in D THEN Append(f[i - 1], s[i]) ELSE f[i - 1]
    <2>1. \A i \in 0 .. n : f[i] = IF i = 0 THEN << >>
                                    ELSE IF s[i] \in D THEN Append(f[i - 1], s[i]) ELSE f[i - 1]
      BY <1>5
    <2> QED
      BY <1>1, <2>1
  <1> DEFINE First(k) == {s[j] : j \in 1 .. k}
             Right(k) == f[k] \in Seq(Docs) /\ Sorted(f[k], First(k) \cap D)
             Till == {k \in 1 .. n : Right(k)}
  <1>7. Right(0)
    <2>1. First(0) \cap D = {}
      OBVIOUS
    <2>2. ToSet(<< >>) = {}
      BY DEF ToSet
    <2>3. Sorted(<< >>, {}) /\ << >> \in Seq(Docs)
      BY <2>2, FS_EmptySet DEF Sorted
    <2> HIDE DEF First
    <2> QED
      BY <1>6, <2>1, <2>3
  <1>8. ASSUME NEW k \in 0 .. n - 1, Right(k) PROVE Right(k + 1)
    <2>1. k + 1 \in 1 .. n /\ (k + 1) - 1 = k
      BY <1>1
    <2>2. First(k + 1) = First(k) \cup {s[k + 1]}
      OBVIOUS
    <2>3. CASE s[k + 1] \notin D
      <3>1. f[k + 1] = f[k]
        BY <1>6, <2>1, <2>3
      <3>2. First(k + 1) \cap D = First(k) \cap D
        BY <2>2, <2>3
      <3> QED
        BY <1>8, <3>1, <3>2
    <2>4. CASE s[k + 1] \in D
      <3> DEFINE P == First(k) \cap D
                 Q == {s[k + 1]}
                 t == << s[k + 1] >>
      <3>1. f[k + 1] = Append(f[k], s[k + 1])
        BY <1>6, <2>1, <2>4
      <3>2. f[k] \in Seq(Docs) /\ Sorted(f[k], P)
        BY <1>8
      <3>3. f[k + 1] = f[k] \o t
        <4>1. \A r \in Seq(Docs), d \in Docs : Append(r, d) = r \o << d >>
          OBVIOUS
        <4> QED
          BY <1>1, <2>1, <3>1, <3>2, <4>1
      <3>4. t \in Seq(Docs) /\ Sorted(t, Q)
        <4>1. t \in Seq(Docs) /\ Len(t) = 1
          BY <1>1, <2>1
        <4>2. ToSet(t) = Q
          BY DEF ToSet
        <4>3. Cardinality(Q) = 1
          BY FS_Singleton
        <4> HIDE DEF t, Q
        <4> QED
          BY <4>1, <4>2, <4>3 DEF Sorted
      <3>5. P \in SUBSET Docs /\ Q \in SUBSET Docs
        BY <1>1, <2>1
      <3>6. ASSUME NEW a \in P PROVE a # s[k + 1] /\ rev[a] <= rev[s[k + 1]]
        <4>1. PICK j \in 1 .. k : a = s[j]
          OBVIOUS
        <4>2. j \in 1 .. n /\ j <= k + 1 /\ j # k + 1
          BY <2>1, <4>1
        <4>3. s[j] # s[k + 1]
          BY <2>1, <4>2, EachOnce
        <4>4. rev[s[j]] <= rev[s[k + 1]]
          BY <2>1, <4>2, InOrder
        <4> QED
          BY <4>1, <4>3, <4>4
      <3>7. P \cap Q = {} /\ \A a \in P, b \in Q : rev[a] <= rev[b]
        <4> HIDE DEF P
        <4> QED
          BY <3>6
      <3>8. First(k + 1) \cap D = P \cup Q
        BY <2>2, <2>4
      <3> HIDE DEF P, Q, t
      <3>9. f[k] \o t \in Seq(Docs) /\ Sorted(f[k] \o t, P \cup Q)
        BY <3>2, <3>4, <3>5, <3>7, Joined
      <3> QED
        BY <3>3, <3>8, <3>9
    <2> QED
      BY <2>3, <2>4
  <1>9. Right(n)
    <2> HIDE DEF Right
    <2>1. n > 0 => 1 \in Till
      BY <1>1, <1>7, <1>8
    <2>2. \A k \in 1 .. n - 1 : k \in Till => k + 1 \in Till
      BY <1>1, <1>8
    <2>3. \A k \in 1 .. n : k \in Till
      <3> HIDE DEF Till
      <3> QED
        BY <1>1, <2>1, <2>2, Upwards
    <2> QED
      BY <1>1, <1>7, <2>3
  <1>10. First(n) = A
    BY DEF Sorted, ToSet
  <1> QED
    BY <1>5, <1>9, <1>10

\* The first numbers are as many as the last of them.
LEMMA Numbered == \A i \in Nat : IsFiniteSet(1 .. i) /\ Cardinality(1 .. i) = i
  BY FS_Interval

\* Of two sorted results of the same documents neither has a smaller value at
\* the same place than the other: too few documents have smaller values.
LEMMA NotSmaller ==
    ASSUME NEW s \in Seq(Docs), NEW t \in Seq(Docs), NEW A \in SUBSET Docs,
           Sorted(s, A), Sorted(t, A), \A a \in A : rev[a] \in Int,
           NEW k \in 1 .. Len(s), rev[s[k]] < rev[t[k]]
    PROVE  FALSE
  <1> DEFINE n == Len(s)
             g == [j \in 1 .. k |-> CHOOSE i \in 1 .. n : t[i] = s[j]]
  <1>1. n \in Nat /\ Len(t) = n /\ k \in 1 .. n /\ k \in Nat /\ k - 1 \in Nat
    BY DEF Sorted
  <1>2. /\ \A j \in 1 .. n : s[j] \in A /\ t[j] \in A
        /\ \A a \in A : \E i \in 1 .. n : t[i] = a
    <2>1. DOMAIN s = 1 .. n /\ DOMAIN t = 1 .. n
      BY <1>1
    <2> HIDE DEF n
    <2> QED
      BY <2>1 DEF Sorted, ToSet
  <1>3. \A i \in 1 .. n, j \in 1 .. n : j <= i => rev[s[j]] <= rev[s[i]]
    BY InOrder
  <1>4. \A i \in 1 .. n, j \in 1 .. n : j <= i => rev[t[j]] <= rev[t[i]]
    BY <1>1, InOrder
  <1>5. \A i, j \in 1 .. n : s[i] = s[j] => i = j
    BY EachOnce
  <1> HIDE DEF n
  <1>6. ASSUME NEW j \in 1 .. k PROVE g[j] \in 1 .. n /\ t[g[j]] = s[j]
    <2>1. j \in 1 .. n
      BY <1>1
    <2>2. \E i \in 1 .. n : t[i] = s[j]
      BY <1>2, <2>1
    <2> QED
      BY <2>2
  <1>7. ASSUME NEW j \in 1 .. k PROVE g[j] \in 1 .. k - 1
    <2> HIDE DEF g
    <2>1. j \in 1 .. n /\ j <= k
      BY <1>1
    <2>2. rev[t[g[j]]] <= rev[s[k]]
      BY <1>1, <1>3, <1>6, <2>1
    <2>3. rev[t[g[j]]] \in Int /\ rev[s[k]] \in Int /\ rev[t[k]] \in Int
      BY <1>1, <1>2, <1>6
    <2>4. ~(rev[t[k]] <= rev[t[g[j]]])
      BY <2>2, <2>3
    <2>5. ~(k <= g[j])
      BY <1>1, <1>4, <1>6, <2>4
    <2> QED
      BY <1>1, <1>6, <2>5
  <1>8. \E x, y \in 1 .. k : x # y /\ g[x] = g[y]
    <2>1. /\ IsFiniteSet(1 .. k) /\ Cardinality(1 .. k) = k
          /\ IsFiniteSet(1 .. k - 1) /\ Cardinality(1 .. k - 1) = k - 1
      BY <1>1, Numbered
    <2>2. g \in [1 .. k -> 1 .. k - 1]
      BY <1>7
    <2> HIDE DEF g
    <2>3. Cardinality(1 .. k - 1) < Cardinality(1 .. k)
      BY <1>1, <2>1
    <2> QED
      BY <2>1, <2>2, <2>3, FS_PigeonHole
  <1>9. PICK x \in 1 .. k, y \in 1 .. k : x # y /\ g[x] = g[y]
    BY <1>8
  <1> HIDE DEF g
  <1>10. x \in 1 .. n /\ y \in 1 .. n /\ s[x] = s[y]
    BY <1>1, <1>6, <1>9
  <1> QED
    BY <1>5, <1>9, <1>10

\* Two sorted results of the same documents have the same values in the same order.
LEMMA SameValues ==
    ASSUME NEW s \in Seq(Docs), NEW t \in Seq(Docs), NEW A \in SUBSET Docs,
           Sorted(s, A), Sorted(t, A), \A a \in A : rev[a] \in Int
    PROVE  Len(s) = Len(t) /\ \A k \in 1 .. Len(s) : rev[s[k]] = rev[t[k]]
  <1>1. Len(s) = Len(t) /\ Len(s) \in Nat
    BY DEF Sorted
  <1>2. ASSUME NEW k \in 1 .. Len(s) PROVE rev[s[k]] = rev[t[k]]
    <2>1. rev[s[k]] \in Int /\ rev[t[k]] \in Int
      <3>1. k \in DOMAIN s /\ k \in DOMAIN t
        BY <1>1
      <3>2. s[k] \in A /\ t[k] \in A
        BY <3>1 DEF Sorted, ToSet
      <3> QED
        BY <3>2
    <2>2. ~(rev[s[k]] < rev[t[k]])
      BY NotSmaller
    <2>3. ~(rev[t[k]] < rev[s[k]])
      BY <1>1, NotSmaller
    <2> QED
      BY <2>1, <2>2, <2>3
  <1> QED
    BY <1>1, <1>2

\* One condition alone is joined to what it finds (And._apply).
LEMMA AndOfOne ==
    ASSUME NEW q PROVE AndApply(<<q>>) = ToSet(Apply(q))
  <1> DEFINE sets == [k \in DOMAIN <<q>> |-> ToSet(Apply(<<q>>[k]))]
  <1>1. Head(sets) = ToSet(Apply(q)) /\ Tail(sets) = << >>
    OBVIOUS
  <1>2. AndApply(<<q>>) = AndOf(sets)
    BY DEF AndApply
  <1> HIDE DEF sets
  <1>3. DOMAIN Tail(sets) = {} /\ SUBSET DOMAIN Tail(sets) = {{}}
    BY <1>1
  <1>4. AndOf(sets) = Head(sets)
    BY <1>3 DEF AndOf, FoldLeft, MapThenFoldSet
  <1> QED
    BY <1>1, <1>2, <1>4

\* What a query with a limit returns is the part of the sorted result that was
\* asked for, and this has the same values as that part of what the condition
\* finds (DbModel.query, sort_result).
LEMMA PageFound ==
    ASSUME Sound, NEW skip \in Nat, NEW limit \in Nat
    PROVE  PageIsPart(skip, limit)
  <1> SUFFICES ASSUME NEW q \in Comparators
               PROVE  LET page == Query(<<q>>, skip, limit)
                          stop == IF limit = None THEN Len(Apply(q)) ELSE skip + limit
                          part == Sliced(Apply(q), skip, stop - skip)
                      IN /\ ToSet(page) \subseteq Matching(q)
                         /\ Cardinality(ToSet(page)) = Len(page)
                         /\ [k \in DOMAIN page |-> rev[page[k]]]
                              = [k \in DOMAIN part |-> rev[part[k]]]
    BY Zenon DEF PageIsPart
  <1> DEFINE D == Matching(q)
             all == ApplyInRange(None, None, FALSE, FALSE)
             found == Yielded(all, D)
             n == Len(found)
             m == IF skip + limit < n THEN skip + limit ELSE n
             page == SubSeq(found, skip + 1, m)
             part == SubSeq(Apply(q), skip + 1, m)
  <1>1. limit # None /\ limit \in Int
    BY NoneIsNoNumber
  <1>2. D \in SUBSET Docs /\ Indexed \in SUBSET Docs /\ D \cap Indexed = D
        /\ Indexed \cap D = D /\ \A d \in Indexed : rev[d] \in Int
    BY ValsAreNumbers DEF Matching, Indexed, Sound, TypeOK
  <1>3. Apply(q) \in Seq(Docs) /\ Sorted(Apply(q), D) /\ ToSet(Apply(q)) = D
    BY ComparatorFinds DEF Listed, Sorted
  <1>4. all \in Seq(Docs) /\ Sorted(all, Indexed)
    <2>1. {d \in Indexed : Within(rev[d], None, None, FALSE, FALSE)} = Indexed
      BY DEF Within
    <2>2. Listed(all, {d \in Indexed : Within(rev[d], None, None, FALSE, FALSE)})
      BY RangeFound
    <2> QED
      BY <2>1, <2>2 DEF Listed
  <1> HIDE DEF all, D
  <1>5. found \in Seq(Docs) /\ Sorted(found, D)
    BY <1>2, <1>4, YieldedSorted
  <1> HIDE DEF found
  <1>6. n = Len(Apply(q)) /\ \A k \in 1 .. n : rev[found[k]] = rev[Apply(q)[k]]
    BY <1>2, <1>3, <1>5, SameValues
  <1>7. n \in Nat /\ m \in Nat /\ m <= n
    BY <1>5
  <1>8. Query(<<q>>, skip, limit) = page
    <2>1. SortResult(D, skip + limit)
            = SubSeq(found, 1, IF skip + limit < n THEN skip + limit ELSE n)
      <3>1. skip + limit # None
        BY NoneIsNoNumber
      <3> QED
        BY <3>1 DEF SortResult, ScanForward, found, all
    <2>2. Query(<<q>>, skip, limit) = Sliced(SubSeq(found, 1, m), skip, limit)
      BY <1>1, <1>3, <2>1, AndOfOne DEF Query
    <2> HIDE DEF n
    <2>3. Len(SubSeq(found, 1, m)) = m
      BY <1>5, <1>7 DEF n
    <2>4. Sliced(SubSeq(found, 1, m), skip, limit) = SubSeq(SubSeq(found, 1, m), skip + 1, m)
      BY <1>7, <2>3 DEF Sliced
    <2>5. SubSeq(SubSeq(found, 1, m), skip + 1, m) = page
      BY <1>5, <1>7 DEF n
    <2> QED
      BY <2>2, <2>4, <2>5
  <1>9. Sliced(Apply(q), skip, limit) = part
    BY <1>6 DEF Sliced
  <1> DEFINE l == IF skip < m THEN m - skip ELSE 0
  <1>10. /\ page \in Seq(Docs) /\ Len(page) = l /\ DOMAIN page = 1 .. l
         /\ \A k \in 1 .. l : page[k] = found[skip + k]
    BY <1>5, <1>7
  <1>11. /\ part \in Seq(Docs) /\ Len(part) = l /\ DOMAIN part = 1 .. l
         /\ \A k \in 1 .. l : part[k] = Apply(q)[skip + k]
    BY <1>3, <1>6, <1>7
  <1>12. l \in Nat /\ \A k \in 1 .. l : skip + k \in 1 .. n
    BY <1>7
  <1> HIDE DEF page, part, l, n, m
  <1>13. ToSet(page) \subseteq D
    <2>1. \A k \in 1 .. n : found[k] \in D
      BY <1>5 DEF ToSet, Sorted, n
    <2>2. \A k \in 1 .. l : page[k] \in D
      BY <1>10, <1>12, <2>1
    <2> QED
      BY <1>10, <2>2 DEF ToSet
  <1>14. Cardinality(ToSet(page)) = Len(page)
    <2>1. \A j, k \in 1 .. n : found[j] = found[k] => j = k
      BY <1>2, <1>5, EachOnce DEF n
    <2>2. \A j, k \in 1 .. l : page[j] = page[k] => j = k
      BY <1>10, <1>12, <2>1
    <2>3. page \in [1 .. l -> ToSet(page)]
      BY <1>10 DEF ToSet
    <2>4. page \in Surjection(1 .. l, ToSet(page)) /\ page \in Injection(1 .. l, ToSet(page))
      BY <1>10, <2>2, <2>3 DEF Surjection, Injection, IsInjective, ToSet
    <2>5. IsFiniteSet(1 .. l) /\ Cardinality(1 .. l) = l
      BY <1>12, FS_Interval
    <2> QED
      BY <1>10, <2>4, <2>5, FS_Surjection
  <1>15. [k \in DOMAIN page |-> rev[page[k]]] = [k \in DOMAIN part |-> rev[part[k]]]
    BY <1>6, <1>10, <1>11, <1>12
  <1>16. (skip + limit) - skip = limit
    BY <1>1
  <1> QED
    BY <1>1, <1>8, <1>9, <1>13, <1>14, <1>15, <1>16 DEF D

\* Whatever forms the entries have gone through, every comparator and every
\* search finds exactly the documents it should, each once and by ascending
\* value, for all documents, values and thresholds (applyEq, applyInRange, search).
THEOREM SearchesAreRight == Spec => []SearchesFind
  <1>1. TypeOK /\ FwdMatchesRev /\ FormFits => SearchesFind
    <2> SUFFICES ASSUME TypeOK, FwdMatchesRev, FormFits, ~raised PROVE
            /\ \A q \in Comparators \cup Ranges : Sorted(Apply(q), Matching(q))
            /\ \A vs \in (SUBSET Vals) \ {{}} :
                /\ Search(vs, "or") = {d \in Indexed : rev[d] \in vs}
                /\ Search(vs, "and") = {d \in Indexed : vs = {rev[d]}}
      BY Zenon DEF SearchesFind
    <2>1. Sound
      BY DEF Sound
    <2>2. \A q \in Comparators \cup Ranges : Sorted(Apply(q), Matching(q))
      BY <2>1, ComparatorFinds DEF Listed
    <2>3. \A vs \in (SUBSET Vals) \ {{}} :
            /\ Search(vs, "or") = {d \in Indexed : rev[d] \in vs}
            /\ Search(vs, "and") = {d \in Indexed : vs = {rev[d]}}
      BY <2>1, SearchFinds
    <2> QED
      BY <2>2, <2>3
  <1> QED
    BY <1>1, Typing, IndexCorrect, PTL

\* Every page of a query with one condition is the part of the sorted result from
\* skip to skip + limit (skip and limit of DbModel.query, with a sort index).
THEOREM PagesAreRight == Spec => []PagesAreParts
  <1>1. TypeOK /\ FwdMatchesRev /\ FormFits => PagesAreParts
    <2> SUFFICES ASSUME TypeOK, FwdMatchesRev, FormFits, ~raised,
                        NEW skip \in 0 .. Cardinality(Docs), NEW limit \in 1 .. Cardinality(Docs)
                 PROVE  PageIsPart(skip, limit)
      BY DEF PagesAreParts
    <2>1. Cardinality(Docs) \in Nat
      BY DocsAssumption, FS_CardinalityType
    <2>2. skip \in Nat /\ limit \in Nat /\ Sound
      BY <2>1 DEF Sound
    <2> QED
      BY <2>2, PageFound
  <1> QED
    BY <1>1, Typing, IndexCorrect, PTL

\* Elements are put into the cache one after the other: f[k] is the cache after k of
\* them.
LEMMA PutSteps ==
    ASSUME NEW c, NEW q \in Seq(Pair)
    PROVE  \E f : /\ f[0] = c
                  /\ \A k \in 1 .. Len(q) : f[k] = Put(f[k - 1], q[k])
                  /\ FoldLeft(Put, c, q) = f[Len(q)]
  <1> DEFINE n == Len(q)
             Body(h, D) == [S \in SUBSET D |->
                              IF S = {} THEN c ELSE Put(h[S \ {Max(S)}], q[Max(S)])]
             Has(m) == \E h : h = Body(h, 1 .. m)
             Good == {m \in 1 .. n : Has(m)}
  <1>1. n \in Nat /\ DOMAIN q = 1 .. n
    OBVIOUS
  <1>2. Has(0)
    <2> DEFINE h == [S \in SUBSET (1 .. 0) |-> c]
    <2>1. 1 .. 0 = {}
      OBVIOUS
    <2>2. h = Body(h, 1 .. 0)
      BY <2>1
    <2> WITNESS h
    <2> QED
      BY <2>2
  <1>3. ASSUME NEW m \in Nat, Has(m) PROVE Has(m + 1)
    <2>1. PICK h : h = Body(h, 1 .. m)
      BY <1>3
    <2> DEFINE g == [S \in SUBSET (1 .. m + 1) |->
                       IF m + 1 \in S THEN Put(h[S \ {m + 1}], q[m + 1]) ELSE h[S]]
    <2>2. \A S \in SUBSET (1 .. m) : h[S] = IF S = {} THEN c
                                             ELSE Put(h[S \ {Max(S)}], q[Max(S)])
      BY <2>1
    <2>3. \A S \in SUBSET (1 .. m) : g[S] = h[S]
      <3> TAKE S \in SUBSET (1 .. m)
      <3>1. S \in SUBSET (1 .. m + 1) /\ m + 1 \notin S
        OBVIOUS
      <3> QED
        BY <3>1
    <2>4. ASSUME NEW S \in SUBSET (1 .. m + 1)
          PROVE  g[S] = IF S = {} THEN c ELSE Put(g[S \ {Max(S)}], q[Max(S)])
      <3>1. CASE m + 1 \in S
        <4>1. Max(S) = m + 1
          <5>1. m + 1 \in S /\ \A y \in S : m + 1 >= y
            BY <3>1
          <5>2. \A x \in S : (\A y \in S : x >= y) => x = m + 1
            BY <3>1
          <5> QED
            BY <5>1, <5>2 DEF Max
        <4>2. S \ {m + 1} \in SUBSET (1 .. m)
          OBVIOUS
        <4>3. g[S] = Put(h[S \ {m + 1}], q[m + 1])
          BY <3>1
        <4>4. g[S \ {m + 1}] = h[S \ {m + 1}]
          BY <2>3, <4>2
        <4> HIDE DEF g
        <4> QED
          BY <3>1, <4>1, <4>3, <4>4
      <3>2. CASE m + 1 \notin S
        <4>1. S \in SUBSET (1 .. m)
          BY <3>2
        <4>2. g[S] = h[S]
          BY <2>3, <4>1
        <4> HIDE DEF g
        <4>3. CASE S = {}
          BY <2>2, <4>1, <4>2, <4>3
        <4>4. CASE S # {}
          <5>1. S \ {Max(S)} \in SUBSET (1 .. m)
            BY <4>1
          <5>2. g[S \ {Max(S)}] = h[S \ {Max(S)}]
            BY <2>3, <5>1
          <5>3. h[S] = Put(h[S \ {Max(S)}], q[Max(S)])
            BY <2>2, <4>1, <4>4
          <5> QED
            BY <4>2, <4>4, <5>2, <5>3
        <4> QED
          BY <4>3, <4>4
      <3> QED
        BY <3>1, <3>2
    <2>5. g = Body(g, 1 .. m + 1)
      BY <2>4
    <2> WITNESS g
    <2> QED
      BY <2>5
  <1>4. Has(n)
    <2> HIDE DEF Has, n
    <2>1. n > 0 => 1 \in Good
      <3>1. Has(0 + 1)
        BY <1>2, <1>3
      <3> QED
        BY <1>1, <3>1
    <2>2. \A k \in 1 .. n - 1 : k \in Good => k + 1 \in Good
      BY <1>1, <1>3
    <2>3. \A k \in 1 .. n : k \in Good
      <3> HIDE DEF Good
      <3> QED
        BY <1>1, <2>1, <2>2, Upwards
    <2> QED
      BY <1>1, <1>2, <2>3
  <1>5. PICK h : h = Body(h, DOMAIN q) /\ FoldLeft(Put, c, q) = h[DOMAIN q]
    <2>1. \E h : h = Body(h, DOMAIN q)
      BY <1>1, <1>4
    <2>2. FoldLeft(Put, c, q) = (CHOOSE h : h = Body(h, DOMAIN q))[DOMAIN q]
      BY DEF FoldLeft, MapThenFoldSet
    <2> QED
      BY <2>1, <2>2
  <1> DEFINE f == [k \in 0 .. n |-> h[1 .. k]]
  <1>6. \A S \in SUBSET (1 .. n) : h[S] = IF S = {} THEN c
                                           ELSE Put(h[S \ {Max(S)}], q[Max(S)])
    BY <1>1, <1>5
  <1>7. f[0] = c
    <2>1. 1 .. 0 = {} /\ {} \in SUBSET (1 .. n)
      OBVIOUS
    <2>2. h[{}] = c
      BY <1>6, <2>1
    <2>3. 0 \in 0 .. n
      BY <1>1
    <2> HIDE DEF n
    <2> QED
      BY <2>1, <2>2, <2>3
  <1>8. ASSUME NEW k \in 1 .. n PROVE f[k] = Put(f[k - 1], q[k])
    <2>1. k \in 0 .. n /\ k - 1 \in 0 .. n /\ 1 .. k \in SUBSET (1 .. n) /\ k \in 1 .. k
      BY <1>1
    <2>2. Max(1 .. k) = k
      <3>1. \A x \in 1 .. k : (\A y \in 1 .. k : x >= y) => x = k
        BY <2>1
      <3>2. \A y \in 1 .. k : k >= y
        OBVIOUS
      <3> QED
        BY <2>1, <3>1, <3>2 DEF Max
    <2>3. (1 .. k) \ {k} = 1 .. k - 1
      BY <2>1
    <2>4. h[1 .. k] = Put(h[1 .. k - 1], q[k])
      BY <1>6, <2>1, <2>2, <2>3
    <2> QED
      BY <2>1, <2>4
  <1>9. FoldLeft(Put, c, q) = f[n]
    <2>1. n \in 0 .. n
      BY <1>1
    <2> HIDE DEF n
    <2> QED
      BY <1>1, <1>5, <2>1
  <1> HIDE DEF f
  <1> QED
    BY <1>7, <1>8, <1>9

-----------------------------------------------------------------------------
(* The inductive invariant of a Sliceable *)

\* A cache as the type invariant wants it.
CacheOK(c) == c \in Seq(Pair) /\ Len(c) <= case.cache /\ KeysOnce(c)

\* Every key is below m; every element of a .. b - 1 is cached.
Below(c, m) == \A j \in DOMAIN c : c[j].key < m
Holds(c, a, b) == \A k \in a .. b - 1 : Cached(c, k)

\* The used last are m - 1, m - 2, ..., the n last of them.
Recent(c, m, n) == \A i \in 0 .. n - 1 : c[Len(c) - i].key = m - 1 - i

\* The cache holds elements of the list under their numbers.
Exact(c) == Below(c, N) /\ \A j \in DOMAIN c : c[j].key = c[j].value

Right(t) ==
    /\ Exact(t.cache)
    /\ t.stop # None /\ (t.stop = t.pos \/ (t.stop > N /\ t.pos = N))

\* The number of elements the iterator of t has gone through.
Reached(t) == IF t.stop < N THEN t.stop ELSE N

\* One pass in pages: the iterator stands where the next page starts.
PageInv == asked.step = 1 => self.stop = asked.end /\ Below(self.cache, self.stop)

\* One loop that reads ahead, n being the next element it asks for: all that has been
\* read from n on is cached, or the last elements read have driven n out.
Upcoming(t, n) ==
    /\ n <= Reached(t) /\ t.stop <= n + case.ahead /\ Below(t.cache, Reached(t))
    /\ \/ Holds(t.cache, n, Reached(t))
       \/ /\ Len(t.cache) = case.cache /\ n < Reached(t) - case.cache
          /\ Recent(t.cache, Reached(t), case.cache)

LoopInv ==
    /\ asked.step = 1 => asked.end = 0 /\ Upcoming(self, 0)
    /\ asked.step = 0 /\ given.kind = "elements" => Upcoming(self, asked.start + 1)
    /\ asked.step \in {0, 1}

\* Loops that read ahead with a cache for the whole list: what has been read since
\* the first loop began is cached, and nothing else.
Filled(t) == \E m \in {Reached(t), N} : Below(t.cache, m) /\ Holds(t.cache, 0, m)

RestartInv ==
    /\ Filled(self)
    /\ asked.step = 0 /\ given.kind = "elements" => Cached(self.cache, asked.start)

ListInv ==
    /\ ListTypeOK
    /\ Orderly => Right(self) /\ ListLike
    /\ Orderly /\ "page" \in case.uses => PageInv
    /\ Orderly /\ "loop" \in case.uses => LoopInv
    /\ Orderly /\ case.uses = {"iterate"} => RestartInv

-----------------------------------------------------------------------------
(* What Put does *)

\* A sequence without its element number p.
LEMMA RemoveAtIs ==
    ASSUME NEW E, NEW c \in Seq(E), NEW p \in 1 .. Len(c)
    PROVE  /\ RemoveAt(c, p) \in Seq(E) /\ Len(RemoveAt(c, p)) = Len(c) - 1
           /\ \A j \in 1 .. p - 1 : RemoveAt(c, p)[j] = c[j]
           /\ \A j \in p .. Len(c) - 1 : RemoveAt(c, p)[j] = c[j + 1]
  <1>1. PICK n \in Nat : n = Len(c)
    OBVIOUS
  <1>2. p \in 1 .. n /\ p \in Nat /\ DOMAIN c = 1 .. n
    BY <1>1
  <1>3. /\ SubSeq(c, 1, p - 1) \in Seq(E) /\ Len(SubSeq(c, 1, p - 1)) = p - 1
        /\ \A j \in 1 .. p - 1 : SubSeq(c, 1, p - 1)[j] = c[j]
    <2>1. \A i \in 1 .. p - 1 : c[i] \in E
      BY <1>1, <1>2
    <2>2. /\ SubSeq(c, 1, p - 1) \in Seq(E)
          /\ Len(SubSeq(c, 1, p - 1)) = IF 1 <= p - 1 THEN p - 1 - 1 + 1 ELSE 0
          /\ \A j \in 1 .. p - 1 - 1 + 1 : SubSeq(c, 1, p - 1)[j] = c[1 + j - 1]
      BY <1>2, <2>1, SubSeqProperties
    <2>3. (IF 1 <= p - 1 THEN p - 1 - 1 + 1 ELSE 0) = p - 1 /\ p - 1 - 1 + 1 = p - 1
      BY <1>2
    <2>4. \A j \in 1 .. p - 1 : 1 + j - 1 = j
      BY <1>2
    <2> QED
      BY <2>2, <2>3, <2>4, Zenon
  <1>4. /\ SubSeq(c, p + 1, n) \in Seq(E) /\ Len(SubSeq(c, p + 1, n)) = n - p
        /\ \A j \in 1 .. n - p : SubSeq(c, p + 1, n)[j] = c[p + 1 + j - 1]
    <2>1. \A i \in p + 1 .. n : c[i] \in E
      BY <1>1, <1>2
    <2>2. /\ SubSeq(c, p + 1, n) \in Seq(E)
          /\ Len(SubSeq(c, p + 1, n)) = IF p + 1 <= n THEN n - (p + 1) + 1 ELSE 0
          /\ \A j \in 1 .. n - (p + 1) + 1 : SubSeq(c, p + 1, n)[j] = c[p + 1 + j - 1]
      BY <1>2, <2>1, SubSeqProperties
    <2>3. n - (p + 1) + 1 = n - p /\ (IF p + 1 <= n THEN n - (p + 1) + 1 ELSE 0) = n - p
      BY <1>2
    <2> QED
      BY <2>2, <2>3, Zenon
  <1>5. PICK x \in Seq(E) : x = SubSeq(c, 1, p - 1)
    BY <1>3
  <1>6. PICK y \in Seq(E) : y = SubSeq(c, p + 1, n)
    BY <1>4
  <1>7. PICK z : z = x \o y
    OBVIOUS
  <1>8. RemoveAt(c, p) = z
    BY <1>1, <1>5, <1>6, <1>7, Zenon DEF RemoveAt
  <1>9. /\ z \in Seq(E) /\ Len(z) = Len(x) + Len(y)
        /\ \A j \in 1 .. Len(x) + Len(y) :
             z[j] = IF j <= Len(x) THEN x[j] ELSE y[j - Len(x)]
    BY <1>7, ConcatProperties
  <1>10. Len(x) = p - 1 /\ Len(y) = n - p
    BY <1>3, <1>4, <1>5, <1>6
  <1>11. ASSUME NEW j \in 1 .. p - 1 PROVE z[j] = c[j]
    <2>1. j \in 1 .. Len(x) + Len(y) /\ j <= Len(x)
      BY <1>2, <1>10
    <2>2. z[j] = x[j]
      BY <1>9, <2>1
    <2> QED
      BY <1>3, <1>5, <2>2, Zenon
  <1>12. ASSUME NEW j \in p .. n - 1 PROVE z[j] = c[j + 1]
    <2>1. PICK i \in 1 .. n - p : i = j - Len(x) /\ p + 1 + i - 1 = j + 1
      BY <1>2, <1>10
    <2>2. j \in 1 .. Len(x) + Len(y) /\ ~(j <= Len(x))
      BY <1>2, <1>10
    <2>3. z[j] = y[i]
      BY <1>9, <2>1, <2>2
    <2> QED
      BY <1>4, <1>6, <2>1, <2>3, Zenon
  <1>13. Len(z) = n - 1
    BY <1>2, <1>9, <1>10
  <1> QED
    BY <1>1, <1>8, <1>9, <1>11, <1>12, <1>13, Zenon

\* Setting an element: it is the last, the others are those that were there, and as
\* many of them as were used after the one that had to go are where they were, seen
\* from the end.  No key goes when the key is there or the cache is not full.
IsPut(c, kv, r) ==
    /\ CacheOK(r) /\ Len(r) >= 1 /\ r[Len(r)] = kv
    /\ \A j \in 1 .. Len(r) - 1 : \E i \in DOMAIN c : r[j] = c[i]
    /\ Cached(c, kv.key) \/ Len(c) < case.cache => \A k : Cached(c, k) => Cached(r, k)
    /\ Cached(c, kv.key) \/ Len(c) = case.cache => Len(r) = Len(c)
    /\ ~Cached(c, kv.key) /\ Len(c) < case.cache => Len(r) = Len(c) + 1
    /\ \A m \in Nat : /\ m < Len(r) /\ m <= Len(c)
                      /\ \A i \in 0 .. m - 1 : c[Len(c) - i].key # kv.key
                      => \A i \in 0 .. m - 1 : r[Len(r) - 1 - i] = c[Len(c) - i]

LEMMA PutIs ==
    ASSUME NEW c, CacheOK(c), NEW kv \in Pair, case.cache \in Nat \ {0}
    PROVE  IsPut(c, kv, Put(c, kv))
  <1>1. PICK n \in Nat : n = Len(c)
    BY DEF CacheOK
  <1>2. c \in Seq(Pair) /\ DOMAIN c = 1 .. n /\ n <= case.cache
    BY <1>1 DEF CacheOK
  <1>3. PICK r : r = Put(c, kv)
    OBVIOUS
  <1>4. \A i, j \in 1 .. n : c[i].key = c[j].key => i = j
    BY <1>2 DEF CacheOK, KeysOnce
  <1>5. ASSUME ~Cached(c, kv.key), n < case.cache PROVE IsPut(c, kv, r)
    <2>1. r = Append(c, kv)
      BY <1>1, <1>2, <1>3, <1>5 DEF Put
    <2>2. /\ r \in Seq(Pair) /\ Len(r) = n + 1 /\ r[n + 1] = kv
          /\ \A j \in 1 .. n : r[j] = c[j]
      BY <1>1, <1>2, <2>1, AppendProperties
    <2>3. DOMAIN r = 1 .. n + 1
      BY <2>2
    <2>4. \A j \in 1 .. n : c[j].key # kv.key
      BY <1>2, <1>5 DEF Cached
    <2>5. KeysOnce(r)
      <3> SUFFICES ASSUME NEW i \in 1 .. n + 1, NEW j \in 1 .. n + 1, r[i].key = r[j].key
                   PROVE  i = j
        BY <2>3 DEF KeysOnce
      <3>1. (i \in 1 .. n \/ i = n + 1) /\ (j \in 1 .. n \/ j = n + 1)
        OBVIOUS
      <3> QED
        BY <1>4, <2>2, <2>4, <3>1
    <2>6. CacheOK(r)
      BY <1>2, <1>5, <2>2, <2>5 DEF CacheOK
    <2>7. ASSUME NEW k, Cached(c, k) PROVE Cached(r, k)
      <3>1. PICK j \in 1 .. n : c[j].key = k
        BY <1>2, <2>7 DEF Cached
      <3>2. j \in 1 .. n + 1 /\ r[j] = c[j]
        BY <2>2
      <3> QED
        BY <2>3, <3>1, <3>2 DEF Cached
    <2>8. ASSUME NEW m \in Nat, m <= Len(c), NEW i \in 0 .. m - 1
          PROVE  r[Len(r) - 1 - i] = c[Len(c) - i]
      <3>1. n - i \in 1 .. n /\ Len(r) - 1 - i = n - i
        BY <1>1, <2>2, <2>8
      <3> QED
        BY <1>1, <2>2, <3>1
    <2>9. Len(r) >= 1 /\ Len(r) = Len(c) + 1 /\ ~(Len(c) = case.cache)
      BY <1>1, <1>5, <2>2
    <2>10. r[Len(r)] = kv
      BY <2>2
    <2>11. \A j \in 1 .. Len(r) - 1 : j \in DOMAIN c /\ r[j] = c[j]
      BY <1>2, <2>2
    <2> QED
      BY <1>5, <2>6, <2>7, <2>8, <2>9, <2>10, <2>11, Zenon DEF IsPut
  <1>6. ASSUME Cached(c, kv.key) \/ n = case.cache PROVE IsPut(c, kv, r)
    <2> DEFINE out == IF Cached(c, kv.key) THEN Place(c, kv.key) ELSE 1
    <2>1. out \in 1 .. n /\ (Cached(c, kv.key) => c[out].key = kv.key)
      <3>1. CASE Cached(c, kv.key)
        <4>1. \E j \in 1 .. n : c[j].key = kv.key
          BY <1>2, <3>1 DEF Cached
        <4>2. Place(c, kv.key) \in 1 .. n /\ c[Place(c, kv.key)].key = kv.key
          BY <1>2, <4>1 DEF Place
        <4> QED
          BY <3>1, <4>2
      <3>2. CASE ~Cached(c, kv.key)
        BY <1>6, <3>2
      <3> QED
        BY <3>1, <3>2
    <2>2. PICK p \in 1 .. n : p = out
      BY <2>1
    <2>3. PICK x : x = RemoveAt(c, p)
      OBVIOUS
    <2>4. r = Append(x, kv)
      <3>1. Put(c, kv) = Append(IF Cached(c, kv.key) \/ Len(c) = case.cache
                                THEN RemoveAt(c, out) ELSE c, kv)
        BY DEF Put
      <3> HIDE DEF out
      <3>2. (IF Cached(c, kv.key) \/ Len(c) = case.cache THEN RemoveAt(c, out) ELSE c) = x
        BY <1>1, <1>6, <2>2, <2>3, Zenon
      <3> QED
        BY <1>3, <3>1, <3>2, Zenon
    <2>5. \A j \in 1 .. n : j # p => c[j].key # kv.key
      <3>1. CASE Cached(c, kv.key)
        <4>1. c[p].key = kv.key
          BY <2>1, <2>2, <3>1
        <4> QED
          BY <1>4, <4>1
      <3>2. CASE ~Cached(c, kv.key)
        BY <1>2, <3>2 DEF Cached
      <3> QED
        BY <3>1, <3>2
    <2>6. Cached(c, kv.key) \/ n < case.cache => c[p].key = kv.key
      BY <1>2, <1>6, <2>1, <2>2
    <2> HIDE DEF out
    <2>7. /\ x \in Seq(Pair) /\ Len(x) = n - 1
          /\ \A j \in 1 .. p - 1 : x[j] = c[j]
          /\ \A j \in p .. n - 1 : x[j] = c[j + 1]
      BY <1>1, <1>2, <2>3, RemoveAtIs
    <2>8. /\ r \in Seq(Pair) /\ Len(r) = n - 1 + 1 /\ r[n - 1 + 1] = kv
          /\ \A j \in 1 .. n - 1 : r[j] = x[j]
      BY <2>4, <2>7, AppendProperties
    <2>9. n - 1 + 1 = n /\ n >= 1
      BY <2>1
    <2>10. Len(r) = n /\ DOMAIN r = 1 .. n /\ r[n] = kv
      BY <2>8, <2>9
    <2>11. ASSUME NEW j \in 1 .. n - 1
           PROVE  \E i \in 1 .. n : /\ r[j] = c[i] /\ i # p
                                   /\ (j < p => i = j) /\ (j >= p => i = j + 1)
      <3>1. CASE j < p
        <4>1. j \in 1 .. p - 1 /\ j \in 1 .. n /\ j # p
          BY <3>1
        <4> QED
          BY <2>7, <2>8, <3>1, <4>1
      <3>2. CASE j >= p
        <4>1. j \in p .. n - 1 /\ j + 1 \in 1 .. n /\ j + 1 # p
          BY <3>2
        <4> QED
          BY <2>7, <2>8, <3>2, <4>1
      <3> QED
        BY <3>1, <3>2
    <2>12. KeysOnce(r)
      <3> SUFFICES ASSUME NEW i \in 1 .. n, NEW j \in 1 .. n, r[i].key = r[j].key
                   PROVE  i = j
        BY <2>10 DEF KeysOnce
      <3>1. ASSUME NEW a \in 1 .. n - 1 PROVE r[a].key # kv.key
        BY <2>5, <2>11
      <3>2. CASE i = n \/ j = n
        <4>1. (i = n \/ i \in 1 .. n - 1) /\ (j = n \/ j \in 1 .. n - 1)
          OBVIOUS
        <4> QED
          BY <2>10, <3>1, <3>2, <4>1
      <3>3. CASE i # n /\ j # n
        <4>1. i \in 1 .. n - 1 /\ j \in 1 .. n - 1
          BY <3>3
        <4>2. PICK a \in 1 .. n : /\ r[i] = c[a] /\ (i < p => a = i) /\ (i >= p => a = i + 1)
          BY <2>11, <4>1
        <4>3. PICK b \in 1 .. n : /\ r[j] = c[b] /\ (j < p => b = j) /\ (j >= p => b = j + 1)
          BY <2>11, <4>1
        <4>4. a = b
          BY <1>4, <4>2, <4>3
        <4> QED
          BY <4>2, <4>3, <4>4
      <3> QED
        BY <3>2, <3>3
    <2>13. CacheOK(r)
      BY <1>2, <2>8, <2>10, <2>12 DEF CacheOK
    <2>14. ASSUME Cached(c, kv.key) \/ n < case.cache, NEW k, Cached(c, k)
           PROVE  Cached(r, k)
      <3>1. PICK i \in 1 .. n : c[i].key = k
        BY <1>2, <2>14 DEF Cached
      <3>2. CASE i = p
        <4>1. n \in 1 .. n /\ r[n].key = k
          BY <2>6, <2>9, <2>10, <2>14, <3>1, <3>2
        <4> QED
          BY <2>10, <4>1 DEF Cached
      <3>3. CASE i < p
        <4>1. i \in 1 .. p - 1 /\ i \in 1 .. n - 1
          BY <3>3
        <4>2. r[i] = c[i]
          BY <2>7, <2>8, <4>1
        <4> QED
          BY <2>10, <3>1, <4>2 DEF Cached
      <3>4. CASE i > p
        <4>1. i - 1 \in p .. n - 1 /\ i - 1 \in 1 .. n - 1 /\ i - 1 \in 1 .. n /\ (i - 1) + 1 = i
          BY <3>4
        <4>2. r[i - 1] = c[i]
          BY <2>7, <2>8, <4>1
        <4> QED
          BY <2>10, <3>1, <4>1, <4>2 DEF Cached
      <3> QED
        BY <3>2, <3>3, <3>4
    <2>15. ASSUME NEW m \in Nat, m < n, \A i \in 0 .. m - 1 : c[n - i].key # kv.key,
                  NEW i \in 0 .. m - 1
           PROVE  r[n - 1 - i] = c[n - i]
      <3>1. p <= n - 1 - i
        <4>1. CASE c[p].key = kv.key
          <5> SUFFICES ASSUME p > n - 1 - i PROVE FALSE
            OBVIOUS
          <5>1. n - p \in 0 .. m - 1 /\ n - (n - p) = p
            BY <2>15
          <5> QED
            BY <2>15, <4>1, <5>1
        <4>2. CASE c[p].key # kv.key
          <5>1. ~Cached(c, kv.key)
            BY <2>6, <4>2
          <5>2. p = 1
            BY <2>2, <5>1 DEF out
          <5> QED
            BY <2>15, <5>2
        <4> QED
          BY <4>1, <4>2
      <3>2. n - 1 - i \in p .. n - 1 /\ n - 1 - i \in 1 .. n - 1 /\ n - 1 - i + 1 = n - i
        BY <2>15, <3>1
      <3> QED
        BY <2>7, <2>8, <3>2
    <2>16. \A j \in 1 .. n - 1 : \E i \in DOMAIN c : r[j] = c[i]
      BY <1>2, <2>11
    <2>17. ~(~Cached(c, kv.key) /\ n < case.cache)
      BY <1>2, <1>6
    <2> QED
      BY <1>1, <2>9, <2>10, <2>13, <2>14, <2>15, <2>16, <2>17, Zenon DEF IsPut
  <1>7. (~Cached(c, kv.key) /\ n < case.cache) \/ Cached(c, kv.key) \/ n = case.cache
    BY <1>2
  <1> QED
    BY <1>3, <1>5, <1>6, <1>7, Zenon

-----------------------------------------------------------------------------
(* What PutAll does *)

\* The elements that are put.
Given(start, step, values) ==
    [j \in 1 .. Len(values) |-> [key |-> start + (j - 1) * step, value |-> values[j]]]

IsGiven(start, step, values, q) ==
    /\ q \in Seq(Pair) /\ Len(q) = Len(values)
    /\ \A j \in 1 .. Len(values) : /\ q[j] \in Pair /\ q[j].key = start + (j - 1) * step
                                  /\ q[j].value = values[j]

LEMMA GivenIs ==
    ASSUME NEW start \in Nat, NEW step \in Nat, NEW values \in Seq(Nat)
    PROVE  IsGiven(start, step, values, Given(start, step, values))
  <1>1. PICK n \in Nat : n = Len(values)
    OBVIOUS
  <1>2. ASSUME NEW j \in 1 .. n
        PROVE  [key |-> start + (j - 1) * step, value |-> values[j]] \in Pair
    <2>1. values[j] \in Nat
      BY <1>1
    <2>2. PICK i \in Nat : i = j - 1
      OBVIOUS
    <2>3. start + i * step \in Nat
      OBVIOUS
    <2> QED
      BY <2>1, <2>2, <2>3 DEF Pair
  <1>3. Given(start, step, values) =
          [j \in 1 .. n |-> [key |-> start + (j - 1) * step, value |-> values[j]]]
    BY <1>1 DEF Given
  <1>4. Given(start, step, values) \in [1 .. n -> Pair]
    BY <1>2, <1>3, Zenon
  <1>5. Given(start, step, values) \in Seq(Pair) /\ Len(Given(start, step, values)) = n
    BY <1>4
  <1>6. \A j \in 1 .. n : Given(start, step, values)[j] =
                            [key |-> start + (j - 1) * step, value |-> values[j]]
    BY <1>3, Zenon
  <1>7. ASSUME NEW j \in 1 .. n
        PROVE  /\ Given(start, step, values)[j] \in Pair
               /\ Given(start, step, values)[j].key = start + (j - 1) * step
               /\ Given(start, step, values)[j].value = values[j]
    <2>1. Given(start, step, values)[j] = [key |-> start + (j - 1) * step, value |-> values[j]]
      BY <1>6
    <2>2. Given(start, step, values)[j] \in Pair
      BY <1>2, <2>1, Zenon
    <2>3. PICK a, b : a = start + (j - 1) * step /\ b = values[j]
      OBVIOUS
    <2>4. Given(start, step, values)[j] = [key |-> a, value |-> b]
      BY <2>1, <2>3, Zenon
    <2> QED
      BY <2>2, <2>3, <2>4
  <1> QED
    BY <1>1, <1>5, <1>7, Zenon DEF IsGiven

\* After every element: the cache is one, and what it holds was in it or is given.
IsPutAll(c, start, step, values, r) ==
    /\ CacheOK(r)
    /\ \A j \in DOMAIN r :
         \/ \E i \in DOMAIN c : r[j] = c[i]
         \/ \E i \in 1 .. Len(values) : r[j].key = start + (i - 1) * step /\ r[j].value = values[i]

LEMMA PutAllIs ==
    ASSUME NEW c, CacheOK(c), NEW start \in Nat, NEW step \in Nat,
           NEW values \in Seq(Nat), case.cache \in Nat \ {0}
    PROVE  IsPutAll(c, start, step, values, PutAll(c, start, step, values))
  <1>1. PICK q \in Seq(Pair) : /\ q = Given(start, step, values)
                               /\ IsGiven(start, step, values, q)
    <2>1. IsGiven(start, step, values, Given(start, step, values))
      BY GivenIs
    <2> QED
      BY <2>1, Zenon DEF IsGiven
  <1>2. /\ Len(q) = Len(values)
        /\ \A j \in 1 .. Len(q) : /\ q[j] \in Pair /\ q[j].key = start + (j - 1) * step
                                 /\ q[j].value = values[j]
    BY <1>1, Zenon DEF IsGiven
  <1>3. PICK f : /\ f[0] = c
                 /\ \A k \in 1 .. Len(q) : f[k] = Put(f[k - 1], q[k])
                 /\ FoldLeft(Put, c, q) = f[Len(q)]
    BY PutSteps
  <1>4. PutAll(c, start, step, values) = f[Len(q)]
    BY <1>1, <1>3, Zenon DEF PutAll, Given
  <1>5. PICK n \in Nat : n = Len(q)
    BY <1>2
  <1> DEFINE From(d) == \A j \in DOMAIN d :
                          \/ \E i \in DOMAIN c : d[j] = c[i]
                          \/ \E i \in 1 .. n : d[j] = q[i]
             Good == {k \in 1 .. n : CacheOK(f[k]) /\ From(f[k])}
  <1>6. ASSUME NEW d, NEW k \in 1 .. n, CacheOK(d), From(d)
        PROVE  CacheOK(Put(d, q[k])) /\ From(Put(d, q[k]))
    <2>1. PICK kv \in Pair : kv = q[k]
      BY <1>2, <1>5
    <2>2. PICK r : r = Put(d, kv) /\ IsPut(d, kv, r)
      <3>1. CacheOK(d)
        BY <1>6
      <3>2. IsPut(d, kv, Put(d, kv))
        BY <3>1, PutIs
      <3> QED
        BY <3>2, Zenon
    <2>3. /\ CacheOK(r) /\ r[Len(r)] = kv
          /\ \A j \in 1 .. Len(r) - 1 : \E i \in DOMAIN d : r[j] = d[i]
      BY <2>2, Zenon DEF IsPut
    <2>4. DOMAIN r = 1 .. Len(r) /\ Len(r) \in Nat
      BY <2>3 DEF CacheOK
    <2>5. \A j \in DOMAIN r : j \in 1 .. Len(r) - 1 \/ j = Len(r)
      BY <2>4
    <2>6. ASSUME NEW j \in DOMAIN r
          PROVE  (\E i \in DOMAIN c : r[j] = c[i]) \/ (\E i \in 1 .. n : r[j] = q[i])
      <3>1. CASE j \in 1 .. Len(r) - 1
        <4>1. PICK i \in DOMAIN d : r[j] = d[i]
          BY <2>3, <3>1, Zenon
        <4>2. (\E h \in DOMAIN c : d[i] = c[h]) \/ (\E h \in 1 .. n : d[i] = q[h])
          BY <1>6, Zenon
        <4> QED
          BY <4>1, <4>2, Zenon
      <3>2. CASE j = Len(r)
        <4>1. r[j] = q[k] /\ k \in 1 .. n
          BY <2>1, <2>3, <3>2, Zenon
        <4> QED
          BY <4>1, Zenon
      <3> QED
        BY <2>5, <3>1, <3>2, Zenon
    <2>7. From(r)
      BY <2>6, Zenon
    <2> HIDE DEF From
    <2> QED
      BY <2>1, <2>2, <2>3, <2>7, Zenon
  <1>7. From(c)
    OBVIOUS
  <1>8. CacheOK(f[n]) /\ From(f[n])
    <2>1. CASE n = 0
      BY <1>3, <1>7, <2>1
    <2>2. CASE n > 0
      <3>1. 1 \in Good
        <4>1. 1 \in 1 .. n /\ 1 - 1 = 0
          BY <2>2
        <4>2. f[1] = Put(c, q[1])
          BY <1>3, <1>5, <4>1
        <4> HIDE DEF From
        <4> QED
          BY <1>6, <1>7, <4>1, <4>2
      <3>2. ASSUME NEW k \in 1 .. n - 1, k \in Good PROVE k + 1 \in Good
        <4>1. k + 1 \in 1 .. n /\ (k + 1) - 1 = k
          OBVIOUS
        <4>2. f[k + 1] = Put(f[k], q[k + 1])
          BY <1>3, <1>5, <4>1
        <4> HIDE DEF From
        <4> QED
          BY <1>6, <3>2, <4>1, <4>2
      <3> HIDE DEF Good
      <3>3. (n > 0 => 1 \in Good) /\ \A k \in 1 .. n - 1 : k \in Good => k + 1 \in Good
        BY <3>1, <3>2
      <3>4. \A k \in 1 .. n : k \in Good
        BY <3>3, Upwards
      <3>5. n \in Good
        BY <2>2, <3>4
      <3> QED
        BY <3>5 DEF Good
    <2> QED
      BY <2>1, <2>2
  <1>9. PICK r : r = f[n] /\ r = PutAll(c, start, step, values)
    BY <1>4, <1>5
  <1>10. CacheOK(r) /\ From(r)
    BY <1>8, <1>9, Zenon
  <1>11. ASSUME NEW j \in DOMAIN r
         PROVE  \/ \E i \in DOMAIN c : r[j] = c[i]
                \/ \E i \in 1 .. Len(values) : /\ r[j].key = start + (i - 1) * step
                                               /\ r[j].value = values[i]
    <2>1. CASE \E i \in DOMAIN c : r[j] = c[i]
      BY <2>1
    <2>2. CASE \E i \in 1 .. n : r[j] = q[i]
      <3>1. PICK i \in 1 .. n : r[j] = q[i]
        BY <2>2
      <3>2. q[i].key = start + (i - 1) * step /\ q[i].value = values[i] /\ i \in 1 .. Len(values)
        BY <1>2, <1>5, Zenon
      <3> QED
        BY <3>1, <3>2, Zenon
    <2> QED
      BY <1>10, <2>1, <2>2, Zenon
  <1>12. IsPutAll(c, start, step, values, r)
    BY <1>10, <1>11, Zenon DEF IsPutAll
  <1> QED
    BY <1>9, <1>12, Zenon

\* Consecutive elements: the last of them, as many as the cache takes, are the ones
\* used last, in their order.
LEMMA PutRun ==
    ASSUME NEW c, CacheOK(c), NEW start \in Nat, NEW values \in Seq(Nat),
           case.cache \in Nat \ {0}, NEW m \in Nat, m <= Len(values), m <= case.cache
    PROVE  /\ m <= Len(PutAll(c, start, 1, values))
           /\ Recent(PutAll(c, start, 1, values), start + Len(values), m)
  <1>1. PICK q \in Seq(Pair) : q = Given(start, 1, values) /\ IsGiven(start, 1, values, q)
    <2>1. IsGiven(start, 1, values, Given(start, 1, values))
      BY GivenIs
    <2> QED
      BY <2>1, Zenon DEF IsGiven
  <1>2. Len(q) = Len(values)
    BY <1>1, Zenon DEF IsGiven
  <1>3. ASSUME NEW j \in 1 .. Len(q) PROVE q[j] \in Pair /\ q[j].key = start + (j - 1)
    <2>1. q[j] \in Pair /\ q[j].key = start + (j - 1) * 1
      BY <1>1, <1>2, Zenon DEF IsGiven
    <2> QED
      BY <2>1
  <1>4. PICK f : /\ f[0] = c
                 /\ \A k \in 1 .. Len(q) : f[k] = Put(f[k - 1], q[k])
                 /\ FoldLeft(Put, c, q) = f[Len(q)]
    BY PutSteps
  <1>5. PutAll(c, start, 1, values) = f[Len(q)]
    BY <1>1, <1>4, Zenon DEF PutAll, Given
  <1>6. PICK n \in Nat : n = Len(q)
    BY <1>2
  <1> DEFINE Lengths(k) == {x \in Nat : x <= k /\ x <= case.cache}
             Ordered(d, k) == \A x \in Lengths(k) : x <= Len(d) /\ Recent(d, start + k, x)
             Good == {k \in 1 .. n : CacheOK(f[k]) /\ Ordered(f[k], k)}
  <1>7. ASSUME NEW d, NEW k \in 1 .. n, CacheOK(d), Ordered(d, k - 1)
        PROVE  CacheOK(Put(d, q[k])) /\ Ordered(Put(d, q[k]), k)
    <2>1. PICK kv \in Pair : kv = q[k] /\ kv.key = start + (k - 1)
      BY <1>3, <1>6
    <2>2. PICK r : r = Put(d, kv) /\ IsPut(d, kv, r)
      <3>1. CacheOK(d)
        BY <1>7
      <3>2. IsPut(d, kv, Put(d, kv))
        BY <3>1, PutIs
      <3> QED
        BY <3>2, Zenon
    <2>3. /\ CacheOK(r) /\ Len(r) >= 1 /\ r[Len(r)] = kv
          /\ Cached(d, kv.key) \/ Len(d) = case.cache => Len(r) = Len(d)
          /\ ~Cached(d, kv.key) /\ Len(d) < case.cache => Len(r) = Len(d) + 1
          /\ \A x \in Nat : /\ x < Len(r) /\ x <= Len(d)
                            /\ \A i \in 0 .. x - 1 : d[Len(d) - i].key # kv.key
                            => \A i \in 0 .. x - 1 : r[Len(r) - 1 - i] = d[Len(d) - i]
      BY <2>2, Zenon DEF IsPut
    <2>4. /\ Len(r) \in Nat /\ Len(d) \in Nat /\ Len(d) <= case.cache
          /\ DOMAIN d = 1 .. Len(d)
      BY <1>7, <2>3 DEF CacheOK
    <2>5. ASSUME NEW x \in Lengths(k) PROVE x <= Len(r) /\ Recent(r, start + k, x)
      <3>1. CASE x = 0
        BY <2>4, <3>1 DEF Recent
      <3>2. CASE x > 0
        <4>1. PICK y \in Nat : y = x - 1 /\ y \in Lengths(k - 1)
          BY <2>5, <3>2
        <4>2. y <= Len(d) /\ Recent(d, start + (k - 1), y)
          BY <1>7, <4>1
        <4>3. ASSUME NEW i \in 0 .. y - 1
              PROVE  d[Len(d) - i].key = start + k - 1 - 1 - i /\ d[Len(d) - i].key # kv.key
          <5>1. d[Len(d) - i].key = start + (k - 1) - 1 - i
            BY <4>2 DEF Recent
          <5> QED
            BY <2>1, <5>1
        <4>4. y < Len(r)
          <5>1. CASE Cached(d, kv.key)
            <6>1. PICK j \in 1 .. Len(d) : d[j].key = kv.key
              BY <2>4, <5>1 DEF Cached
            <6>2. ~(Len(d) - j \in 0 .. y - 1)
              <7> SUFFICES ASSUME Len(d) - j \in 0 .. y - 1 PROVE FALSE
                OBVIOUS
              <7>1. Len(d) - (Len(d) - j) = j
                BY <2>4
              <7> QED
                BY <4>3, <6>1, <7>1
            <6>3. y < Len(d)
              BY <2>4, <6>2
            <6> QED
              BY <2>3, <5>1, <6>3
          <5>2. CASE ~Cached(d, kv.key) /\ Len(d) < case.cache
            BY <2>3, <2>4, <4>2, <5>2
          <5>3. CASE ~Cached(d, kv.key) /\ Len(d) = case.cache
            BY <2>3, <2>4, <2>5, <4>1, <5>3
          <5> QED
            BY <2>4, <5>1, <5>2, <5>3
        <4>5. \A i \in 0 .. y - 1 : r[Len(r) - 1 - i] = d[Len(d) - i]
          BY <2>3, <4>2, <4>3, <4>4
        <4>6. ASSUME NEW i \in 0 .. x - 1 PROVE r[Len(r) - i].key = start + k - 1 - i
          <5>1. CASE i = 0
            <6>1. Len(r) - i = Len(r) /\ start + (k - 1) = start + k - 1 - i
              BY <2>4, <5>1
            <6> QED
              BY <2>1, <2>3, <6>1
          <5>2. CASE i > 0
            <6>1. PICK h \in 0 .. y - 1 : h = i - 1
              BY <4>1, <5>2
            <6>2. r[Len(r) - 1 - h].key = start + k - 1 - 1 - h
              BY <4>3, <4>5
            <6>3. Len(r) - 1 - h = Len(r) - i /\ start + k - 1 - 1 - h = start + k - 1 - i
              BY <2>4, <6>1
            <6> QED
              BY <6>2, <6>3
          <5> QED
            BY <5>1, <5>2
        <4>7. x <= Len(r)
          BY <2>4, <4>1, <4>4
        <4> QED
          BY <4>6, <4>7 DEF Recent
      <3> QED
        BY <2>5, <3>1, <3>2
    <2> HIDE DEF Lengths
    <2> QED
      BY <2>1, <2>2, <2>3, <2>5
  <1>8. Ordered(c, 0)
    <2>1. ASSUME NEW x \in Lengths(0) PROVE x = 0
      BY <2>1
    <2>2. 0 <= Len(c) /\ Recent(c, start + 0, 0)
      BY DEF Recent, CacheOK
    <2> HIDE DEF Lengths
    <2> QED
      BY <2>1, <2>2
  <1>9. CacheOK(f[n]) /\ Ordered(f[n], n)
    <2>1. CASE n = 0
      <3> HIDE DEF Ordered
      <3> QED
        BY <1>4, <1>8, <2>1
    <2>2. CASE n > 0
      <3> HIDE DEF Ordered
      <3>1. 1 \in Good
        <4>1. 1 \in 1 .. n /\ 1 - 1 = 0
          BY <2>2
        <4>2. f[1] = Put(c, q[1])
          BY <1>4, <1>6, <4>1
        <4>3. CacheOK(c) /\ Ordered(c, 1 - 1)
          BY <1>8, <4>1
        <4> QED
          BY <1>7, <4>1, <4>2, <4>3
      <3>2. ASSUME NEW k \in 1 .. n - 1, k \in Good PROVE k + 1 \in Good
        <4>1. k + 1 \in 1 .. n /\ (k + 1) - 1 = k
          OBVIOUS
        <4>2. f[k + 1] = Put(f[k], q[k + 1])
          BY <1>4, <1>6, <4>1
        <4>3. CacheOK(f[k]) /\ Ordered(f[k], (k + 1) - 1)
          BY <3>2, <4>1
        <4> QED
          BY <1>7, <4>1, <4>2, <4>3
      <3> HIDE DEF Good
      <3>3. (n > 0 => 1 \in Good) /\ \A k \in 1 .. n - 1 : k \in Good => k + 1 \in Good
        BY <3>1, <3>2
      <3>4. \A k \in 1 .. n : k \in Good
        BY <3>3, Upwards
      <3>5. n \in Good
        BY <2>2, <3>4
      <3> QED
        BY <3>5 DEF Good
    <2> QED
      BY <2>1, <2>2
  <1>10. m \in Lengths(n) /\ n = Len(values)
    BY <1>2, <1>6
  <1> QED
    BY <1>5, <1>6, <1>9, <1>10

\* A cache whose keys are all below b, and that does not hold x, holds fewer than b
\* elements.
LEMMA KeysFit ==
    ASSUME NEW c, CacheOK(c), NEW b \in Nat, Below(c, b), NEW x \in 0 .. b - 1,
           ~Cached(c, x)
    PROVE  Len(c) < b
  <1>1. PICK n \in Nat : n = Len(c)
    BY DEF CacheOK
  <1>2. c \in Seq(Pair) /\ DOMAIN c = 1 .. n
    BY <1>1 DEF CacheOK
  <1> DEFINE T == (0 .. b - 1) \ {x}
             key == [j \in 1 .. n |-> c[j].key]
  <1>3. \A j \in 1 .. n : c[j].key \in T
    <2> TAKE j \in 1 .. n
    <2>1. c[j].key \in Nat
      <3>1. c[j] \in Pair
        BY <1>2
      <3> QED
        BY <3>1 DEF Pair
    <2>2. c[j].key < b /\ c[j].key # x
      BY <1>2 DEF Below, Cached
    <2> QED
      BY <2>1, <2>2
  <1>4. \A i, j \in 1 .. n : c[i].key = c[j].key => i = j
    BY <1>2 DEF CacheOK, KeysOnce
  <1> HIDE DEF T
  <1>5. key \in Injection(1 .. n, T)
    <2>1. key \in [1 .. n -> T]
      BY <1>3
    <2>2. \A i, j \in 1 .. n : key[i] = key[j] => i = j
      BY <1>4
    <2> HIDE DEF key
    <2> QED
      BY <2>1, <2>2 DEF Injection, IsInjective
  <1>6. IsFiniteSet(0 .. b - 1) /\ Cardinality(0 .. b - 1) = b
    <2>1. 0 \in Int /\ b - 1 \in Int
      OBVIOUS
    <2>2. /\ IsFiniteSet(0 .. b - 1)
          /\ Cardinality(0 .. b - 1) = IF 0 > b - 1 THEN 0 ELSE b - 1 - 0 + 1
      BY <2>1, FS_Interval
    <2> QED
      BY <2>2
  <1>7. IsFiniteSet(T) /\ Cardinality(T) = b - 1
    BY <1>6, FS_RemoveElement DEF T
  <1>8. Cardinality(1 .. n) <= Cardinality(T)
    <2> HIDE DEF key
    <2> QED
      BY <1>5, <1>7, FS_Injection
  <1>9. Cardinality(1 .. n) = n
    <2>1. Cardinality(1 .. n) = IF 1 > n THEN 0 ELSE n - 1 + 1
      BY FS_Interval
    <2> QED
      BY <2>1
  <1> QED
    BY <1>1, <1>7, <1>8, <1>9

\* Nothing goes from a cache that has room for all keys there may be.
LEMMA PutFits ==
    ASSUME NEW c, CacheOK(c), NEW kv \in Pair, case.cache \in Nat \ {0},
           NEW b \in Nat, b <= case.cache, Below(c, b), kv.key < b
    PROVE  /\ CacheOK(Put(c, kv)) /\ Below(Put(c, kv), b) /\ Cached(Put(c, kv), kv.key)
           /\ \A k : Cached(c, k) => Cached(Put(c, kv), k)
  <1>1. IsPut(c, kv, Put(c, kv))
    BY PutIs
  <1>2. PICK r : r = Put(c, kv) /\ IsPut(c, kv, r)
    BY <1>1, Zenon
  <1>3. /\ CacheOK(r) /\ Len(r) >= 1 /\ r[Len(r)] = kv
        /\ \A j \in 1 .. Len(r) - 1 : \E i \in DOMAIN c : r[j] = c[i]
        /\ Cached(c, kv.key) \/ Len(c) < case.cache => \A k : Cached(c, k) => Cached(r, k)
    BY <1>2, Zenon DEF IsPut
  <1>4. Len(r) \in Nat /\ DOMAIN r = 1 .. Len(r) /\ Len(c) \in Nat
    BY <1>3 DEF CacheOK
  <1>5. Len(r) \in DOMAIN r /\ \A j \in DOMAIN r : j \in 1 .. Len(r) - 1 \/ j = Len(r)
    BY <1>3, <1>4
  <1>6. Below(r, b)
    BY <1>3, <1>5 DEF Below
  <1>7. Cached(r, kv.key)
    BY <1>3, <1>5 DEF Cached
  <1>8. kv.key \in 0 .. b - 1
    BY DEF Pair
  <1>9. Cached(c, kv.key) \/ Len(c) < case.cache
    <2>1. CASE ~Cached(c, kv.key)
      <3>1. Len(c) < b
        BY <1>8, <2>1, KeysFit
      <3> QED
        BY <1>4, <3>1
    <2> QED
      BY <2>1
  <1> QED
    BY <1>2, <1>3, <1>6, <1>7, <1>9, Zenon

LEMMA PutAllFits ==
    ASSUME NEW c, CacheOK(c), NEW start \in Nat, NEW values \in Seq(Nat),
           case.cache \in Nat \ {0}, NEW b \in Nat, b <= case.cache, Below(c, b),
           start + Len(values) <= b
    PROVE  /\ \A k : Cached(c, k) => Cached(PutAll(c, start, 1, values), k)
           /\ Holds(PutAll(c, start, 1, values), start, start + Len(values))
  <1>1. PICK q \in Seq(Pair) : q = Given(start, 1, values) /\ IsGiven(start, 1, values, q)
    <2>1. IsGiven(start, 1, values, Given(start, 1, values))
      BY GivenIs
    <2> QED
      BY <2>1, Zenon DEF IsGiven
  <1>2. Len(q) = Len(values)
    BY <1>1, Zenon DEF IsGiven
  <1>3. ASSUME NEW j \in 1 .. Len(q) PROVE q[j] \in Pair /\ q[j].key = start + (j - 1)
    <2>1. q[j] \in Pair /\ q[j].key = start + (j - 1) * 1
      BY <1>1, <1>2, Zenon DEF IsGiven
    <2> QED
      BY <2>1
  <1>4. PICK f : /\ f[0] = c
                 /\ \A k \in 1 .. Len(q) : f[k] = Put(f[k - 1], q[k])
                 /\ FoldLeft(Put, c, q) = f[Len(q)]
    BY PutSteps
  <1>5. PutAll(c, start, 1, values) = f[Len(q)]
    BY <1>1, <1>4, Zenon DEF PutAll, Given
  <1>6. PICK n \in Nat : n = Len(q)
    BY <1>2
  <1> DEFINE Kept(d, k) == /\ CacheOK(d) /\ Below(d, b)
                           /\ \A x : Cached(c, x) => Cached(d, x)
                           /\ \A j \in 1 .. k : Cached(d, q[j].key)
             Good == {k \in 1 .. n : Kept(f[k], k)}
  <1>7. ASSUME NEW d, NEW k \in 1 .. n, Kept(d, k - 1)
        PROVE  Kept(Put(d, q[k]), k)
    <2>1. PICK kv \in Pair : kv = q[k] /\ kv.key = start + (k - 1)
      BY <1>3, <1>6
    <2>2. kv.key < b
      BY <1>2, <1>6, <2>1
    <2>3. CacheOK(d) /\ Below(d, b)
      BY <1>7
    <2>4. PICK r : r = Put(d, kv)
      OBVIOUS
    <2>5. /\ CacheOK(r) /\ Below(r, b) /\ Cached(r, kv.key)
          /\ \A x : Cached(d, x) => Cached(r, x)
      BY <2>2, <2>3, <2>4, PutFits
    <2>6. \A j \in 1 .. k : j \in 1 .. k - 1 \/ j = k
      OBVIOUS
    <2>7. Kept(r, k)
      BY <1>7, <2>1, <2>5, <2>6
    <2> QED
      BY <2>1, <2>4, <2>7, Zenon
  <1>8. Kept(c, 0)
    OBVIOUS
  <1>9. Kept(f[n], n)
    <2>1. CASE n = 0
      <3> HIDE DEF Kept
      <3> QED
        BY <1>4, <1>8, <2>1
    <2>2. CASE n > 0
      <3> HIDE DEF Kept
      <3>1. 1 \in Good
        <4>1. 1 \in 1 .. n /\ 1 - 1 = 0
          BY <2>2
        <4>2. f[1] = Put(c, q[1])
          BY <1>4, <1>6, <4>1
        <4>3. Kept(c, 1 - 1)
          BY <1>8, <4>1
        <4> QED
          BY <1>7, <4>1, <4>2, <4>3
      <3>2. ASSUME NEW k \in 1 .. n - 1, k \in Good PROVE k + 1 \in Good
        <4>1. k + 1 \in 1 .. n /\ (k + 1) - 1 = k
          OBVIOUS
        <4>2. f[k + 1] = Put(f[k], q[k + 1])
          BY <1>4, <1>6, <4>1
        <4>3. Kept(f[k], (k + 1) - 1)
          BY <3>2, <4>1
        <4> QED
          BY <1>7, <4>1, <4>2, <4>3
      <3> HIDE DEF Good
      <3>3. (n > 0 => 1 \in Good) /\ \A k \in 1 .. n - 1 : k \in Good => k + 1 \in Good
        BY <3>1, <3>2
      <3>4. \A k \in 1 .. n : k \in Good
        BY <3>3, Upwards
      <3>5. n \in Good
        BY <2>2, <3>4
      <3> QED
        BY <3>5 DEF Good
    <2> QED
      BY <2>1, <2>2
  <1>10. ASSUME NEW k \in start .. start + Len(values) - 1 PROVE Cached(f[n], k)
    <2>1. PICK j \in 1 .. n : j = k - start + 1 /\ start + (j - 1) = k
      BY <1>2, <1>6
    <2> QED
      BY <1>3, <1>6, <1>9, <2>1
  <1> QED
    BY <1>5, <1>6, <1>9, <1>10 DEF Holds

-----------------------------------------------------------------------------
(* Reading the cache and the iterator *)

LEMMA ValueIs ==
    ASSUME NEW c, CacheOK(c), NEW k, Cached(c, k)
    PROVE  \E j \in DOMAIN c : c[j].key = k /\ Value(c, k) = c[j].value /\ c[j] \in Pair
  <1>1. Place(c, k) \in DOMAIN c /\ c[Place(c, k)].key = k
    BY DEF Cached, Place
  <1>2. PICK j \in DOMAIN c : j = Place(c, k)
    BY <1>1
  <1>3. c[j] \in Pair
    BY DEF CacheOK
  <1> QED
    BY <1>1, <1>2, <1>3, Zenon DEF Value

\* Reading an element changes the order in which they go, and nothing else.
LEMMA TouchIs ==
    ASSUME NEW c, CacheOK(c), NEW k, Cached(c, k), case.cache \in Nat \ {0}
    PROVE  /\ CacheOK(Touch(c, k))
           /\ \A x : Cached(c, x) => Cached(Touch(c, k), x)
           /\ \A j \in DOMAIN Touch(c, k) : \E i \in DOMAIN c : Touch(c, k)[j] = c[i]
  <1>1. PICK p \in DOMAIN c : c[p].key = k /\ Value(c, k) = c[p].value /\ c[p] \in Pair
    BY ValueIs
  <1>2. c[p] = [key |-> k, value |-> Value(c, k)]
    BY <1>1 DEF Pair
  <1>3. PICK kv \in Pair : kv = c[p] /\ kv.key = k
    BY <1>1
  <1>4. Touch(c, k) = Put(c, kv)
    BY <1>2, <1>3, Zenon DEF Touch
  <1>5. IsPut(c, kv, Put(c, kv))
    BY PutIs
  <1>6. PICK r : r = Touch(c, k) /\ IsPut(c, kv, r)
    BY <1>4, <1>5, Zenon
  <1>7. /\ CacheOK(r) /\ r[Len(r)] = kv
        /\ \A j \in 1 .. Len(r) - 1 : \E i \in DOMAIN c : r[j] = c[i]
        /\ \A x : Cached(c, x) => Cached(r, x)
    BY <1>3, <1>6, Zenon DEF IsPut
  <1>8. \A j \in DOMAIN r : j \in 1 .. Len(r) - 1 \/ j = Len(r)
    BY <1>7 DEF CacheOK
  <1>9. \A j \in DOMAIN r : \E i \in DOMAIN c : r[j] = c[i]
    BY <1>3, <1>7, <1>8, Zenon
  <1> QED
    BY <1>6, <1>7, <1>9, Zenon

LEMMA PutNothing ==
    ASSUME NEW c, NEW start \in Nat, NEW step \in Nat
    PROVE  PutAll(c, start, step, <<>>) = c
  <1>1. PICK values \in Seq(Nat) : values = <<>> /\ Len(values) = 0
    <2>1. <<>> \in Seq(Nat) /\ Len(<<>>) = 0
      OBVIOUS
    <2> QED
      BY <2>1, Zenon
  <1>2. PICK q \in Seq(Pair) : /\ q = Given(start, step, values)
                               /\ IsGiven(start, step, values, q)
    <2>1. IsGiven(start, step, values, Given(start, step, values))
      BY GivenIs
    <2> QED
      BY <2>1, Zenon DEF IsGiven
  <1>3. PICK f : /\ f[0] = c
                 /\ \A k \in 1 .. Len(q) : f[k] = Put(f[k - 1], q[k])
                 /\ FoldLeft(Put, c, q) = f[Len(q)]
    BY PutSteps
  <1>4. Len(q) = 0
    BY <1>1, <1>2, Zenon DEF IsGiven
  <1> QED
    BY <1>1, <1>2, <1>3, <1>4, Zenon DEF PutAll, Given

LEMMA HitsAre ==
    ASSUME NEW c, CacheOK(c), NEW start \in Nat, NEW step \in Nat, NEW end
    PROVE  /\ Hits(c, start, end, step) \in 0 .. Len(c)
           /\ \A j \in 0 .. Hits(c, start, end, step) - 1 : Cached(c, start + j * step)
           /\ ~Cached(c, start) => Hits(c, start, end, step) = 0
  <1> DEFINE past == {j \in 0 .. Len(c) : \/ j = Len(c)
                                          \/ ~Cached(c, start + j * step)
                                          \/ end # None /\ start + j * step >= end}
             h == Hits(c, start, end, step)
  <1>1. Len(c) \in Nat
    BY DEF CacheOK
  <1>2. past \in SUBSET Nat /\ Len(c) \in past
    BY <1>1
  <1>3. \E j \in past : \A k \in past : j <= k
    <2> HIDE DEF past
    <2> QED
      BY <1>2, LeastOf
  <1>4. h \in past /\ \A k \in past : h <= k
    <2>1. h = CHOOSE j \in past : \A k \in past : j <= k
      BY DEF Hits
    <2> HIDE DEF past, h
    <2> QED
      BY <1>3, <2>1
  <1>5. h \in 0 .. Len(c)
    <2> HIDE DEF h
    <2> QED
      BY <1>4
  <1>6. ASSUME NEW j \in 0 .. h - 1 PROVE Cached(c, start + j * step)
    <2>1. j \in 0 .. Len(c) /\ ~(h <= j)
      <3> HIDE DEF h
      <3> QED
        BY <1>1, <1>5
    <2>2. j \notin past
      <3> HIDE DEF past, h
      <3> QED
        BY <1>4, <2>1
    <2> HIDE DEF h
    <2> QED
      BY <2>1, <2>2
  <1>7. ASSUME ~Cached(c, start) PROVE h = 0
    <2>1. start + 0 * step = start /\ 0 \in 0 .. Len(c)
      BY <1>1
    <2>2. 0 \in past
      BY <1>7, <2>1
    <2> HIDE DEF past, h
    <2> QED
      BY <1>1, <1>4, <1>5, <2>2
  <1> QED
    BY <1>5, <1>6, <1>7

\* The end of a range, for a list of N elements.
EndOf(end) == IF end = None \/ end > N THEN N ELSE end

LEMMA SteppingIs ==
    ASSUME NEW start \in Nat, NEW end \in Nat \cup {None}, NEW step \in Nat \ {0}
    PROVE  \E n \in 0 .. N : /\ Stepping(start, end, step) = Counting(start, n, step)
                             /\ start + n * step >= EndOf(end)
                             /\ \A k \in 0 .. n - 1 : start + k * step < EndOf(end)
  <1>1. N \in Nat /\ EndOf(end) \in Nat /\ EndOf(end) <= N
    BY SizesType, NoneIsNoNumber DEF EndOf
  <1>2. PICK last \in Nat : last = EndOf(end) /\ last <= N
    BY <1>1
  <1> DEFINE T == {j \in 0 .. N : start + j * step >= last}
  <1>3. start + N * step >= N
    <2>1. PICK x \in Nat : x = N * (step - 1) /\ N * step = N + x
      BY <1>1
    <2> QED
      BY <1>1, <2>1
  <1>4. T \in SUBSET Nat /\ N \in T
    BY <1>1, <1>2, <1>3
  <1>5. PICK n \in T : \A m \in T : n <= m
    <2> HIDE DEF T
    <2> QED
      BY <1>4, LeastOf
  <1>6. ASSUME NEW k \in 0 .. n - 1 PROVE start + k * step < last
    <2>1. k \in 0 .. N /\ ~(n <= k)
      BY <1>1
    <2>2. k \notin T
      BY <1>5, <2>1
    <2>3. PICK y \in Nat : y = start + k * step
      <3>1. k \in Nat
        BY <2>1
      <3> QED
        BY <3>1
    <2> QED
      BY <2>1, <2>2, <2>3
  <1> DEFINE Ends(j) == /\ start + j * step >= last
                        /\ \A k \in 0 .. j - 1 : start + k * step < last
             m == CHOOSE j \in 0 .. N : Ends(j)
  <1>7. n \in 0 .. N /\ Ends(n)
    BY <1>6
  <1>8. m \in 0 .. N /\ Ends(m)
    <2> HIDE DEF Ends
    <2> QED
      BY <1>7
  <1>9. Stepping(start, end, step) = Counting(start, m, step)
    BY <1>2 DEF Stepping, EndOf
  <1> QED
    BY <1>2, <1>8, <1>9, Zenon

\* Consecutive numbers.
IsRun(es, start, end) ==
    /\ es \in Seq(Nat)
    /\ \A j \in 1 .. Len(es) : es[j] = start + (j - 1)
    /\ start + Len(es) = IF EndOf(end) > start THEN EndOf(end) ELSE start

LEMMA SteppingType ==
    ASSUME NEW start \in Nat, NEW end \in Nat \cup {None}, NEW step \in Nat \ {0}
    PROVE  Stepping(start, end, step) \in Seq(Nat)
  <1>1. PICK n \in 0 .. N : Stepping(start, end, step) = Counting(start, n, step)
    BY SteppingIs
  <1>2. n \in Nat
    BY <1>1, SizesType
  <1>3. ASSUME NEW j \in 1 .. n PROVE start + (j - 1) * step \in Nat
    <2>1. PICK i \in Nat : i = j - 1
      OBVIOUS
    <2>2. start + i * step \in Nat
      OBVIOUS
    <2> QED
      BY <2>1, <2>2
  <1>4. Counting(start, n, step) \in [1 .. n -> Nat]
    BY <1>3 DEF Counting
  <1> QED
    BY <1>1, <1>2, <1>4

LEMMA SteppingByOne ==
    ASSUME NEW start \in Nat, NEW end \in Nat \cup {None}
    PROVE  IsRun(Stepping(start, end, 1), start, end)
  <1>1. PICK n \in 0 .. N : /\ Stepping(start, end, 1) = Counting(start, n, 1)
                            /\ start + n * 1 >= EndOf(end)
                            /\ \A k \in 0 .. n - 1 : start + k * 1 < EndOf(end)
    <2>1. 1 \in Nat \ {0}
      OBVIOUS
    <2> QED
      BY <2>1, SteppingIs
  <1>2. N \in Nat /\ n \in Nat /\ EndOf(end) \in Nat
    BY SizesType, NoneIsNoNumber DEF EndOf
  <1>3. PICK es : es = Stepping(start, end, 1)
    OBVIOUS
  <1>4. es = [j \in 1 .. n |-> start + (j - 1) * 1]
    BY <1>1, <1>3 DEF Counting
  <1>5. es \in Seq(Nat) /\ Len(es) = n /\ \A j \in 1 .. n : es[j] = start + (j - 1)
    BY <1>2, <1>4
  <1>6. start + n = IF EndOf(end) > start THEN EndOf(end) ELSE start
    <2>1. CASE n = 0
      BY <1>1, <1>2, <2>1
    <2>2. CASE n > 0
      <3>1. n - 1 \in 0 .. n - 1
        BY <1>2, <2>2
      <3>2. start + (n - 1) * 1 < EndOf(end)
        BY <1>1, <3>1
      <3> QED
        BY <1>1, <1>2, <2>2, <3>2
    <2> QED
      BY <1>2, <2>1, <2>2
  <1> QED
    BY <1>3, <1>5, <1>6 DEF IsRun

-----------------------------------------------------------------------------
(* Types *)

LEMMA CaseIs ==
    ASSUME case \in Cases
    PROVE  /\ case.cache \in Nat \ {0} /\ case.ahead \in Nat
           /\ case.uses \subseteq {"loop", "iterate", "item", "page", "slice", "open_slice"}
  <1>1. case \in Case /\ CacheSizes \subseteq Nat \ {0} /\ Prefetch \in Nat
    BY CasesType, SizesType
  <1>2. case.cache \in CacheSizes /\ case.ahead \in {0, Prefetch}
    BY <1>1 DEF Case
  <1>3. case.uses \in SUBSET {"loop", "iterate", "item", "page", "slice", "open_slice"}
    BY <1>1 DEF Case
  <1>4. case.cache \in Nat \ {0}
    BY <1>1, <1>2
  <1>5. case.ahead \in Nat
    BY <1>1, <1>2
  <1> QED
    BY <1>3, <1>4, <1>5, Zenon

ObjectOK(t) == t \in State /\ CacheOK(t.cache)
Results == [kind : {"elements", "StopIteration", "error"}, elements : Seq(Nat)]
StepOK(r) == ObjectOK(r.s) /\ r.res \in Results

LEMMA FieldsOf ==
    ASSUME NEW t, ObjectOK(t)
    PROVE  /\ t.pos \in 0 .. N /\ t.pos \in Nat /\ t.stop \in Nat \cup {None}
           /\ CacheOK(t.cache) /\ N \in Nat
           /\ \A c : [t EXCEPT !.cache = c] = [pos |-> t.pos, stop |-> t.stop, cache |-> c]
           /\ \A p : [t EXCEPT !.pos = p] = [pos |-> p, stop |-> t.stop, cache |-> t.cache]
           /\ Rewound(t) = [pos |-> 0, stop |-> 0, cache |-> t.cache]
  <1>1. t \in [pos : 0 .. N, stop : Nat \cup {None}, cache : Seq(Pair)]
    BY DEF ObjectOK, State
  <1>2. N \in Nat /\ t.pos \in 0 .. N
    BY <1>1, SizesType
  <1>3. t.pos \in Nat /\ t.stop \in Nat \cup {None} /\ CacheOK(t.cache)
    BY <1>1, <1>2 DEF ObjectOK
  <1>4. Rewound(t) = [pos |-> 0, stop |-> 0, cache |-> t.cache]
    BY DEF Rewound
  <1> QED
    BY <1>1, <1>2, <1>3, <1>4

LEMMA ObjectIs ==
    ASSUME NEW p \in 0 .. N, NEW s \in Nat \cup {None}, NEW c, CacheOK(c)
    PROVE  ObjectOK([pos |-> p, stop |-> s, cache |-> c])
  BY DEF ObjectOK, State, CacheOK

LEMMA ElementsOK ==
    ASSUME NEW es \in Seq(Nat)
    PROVE  Elements(es) \in Results /\ Elements(es).kind = "elements"
  BY DEF Elements, Results

LEMMA RaisedOK ==
    ASSUME NEW kind \in {"StopIteration", "error"}
    PROVE  Raised(kind) \in Results /\ Raised(kind).kind = kind
  <1>1. <<>> \in Seq(Nat)
    OBVIOUS
  <1> QED
    BY <1>1 DEF Raised, Results

LEMMA GetItemType ==
    ASSUME NEW t, ObjectOK(t), NEW k \in Nat, case.cache \in Nat \ {0}
    PROVE  StepOK(GetItem(t, k))
  <1>1. /\ t.pos \in 0 .. N /\ t.pos \in Nat /\ t.stop \in Nat \cup {None}
        /\ CacheOK(t.cache) /\ N \in Nat
        /\ [t EXCEPT !.cache = Touch(t.cache, k)] =
             [pos |-> t.pos, stop |-> t.stop, cache |-> Touch(t.cache, k)]
        /\ Rewound(t) = [pos |-> 0, stop |-> 0, cache |-> t.cache]
    BY FieldsOf
  <1>2. CASE Cached(t.cache, k)
    <2>1. CacheOK(Touch(t.cache, k))
      BY <1>1, <1>2, TouchIs
    <2>2. Value(t.cache, k) \in Nat
      <3>1. PICK j \in DOMAIN t.cache : /\ Value(t.cache, k) = t.cache[j].value
                                        /\ t.cache[j] \in Pair
        BY <1>1, <1>2, ValueIs
      <3> QED
        BY <3>1 DEF Pair
    <2>3. ObjectOK([t EXCEPT !.cache = Touch(t.cache, k)])
      BY <1>1, <2>1, ObjectIs
    <2>4. Elements(<<Value(t.cache, k)>>) \in Results
      <3>1. <<Value(t.cache, k)>> \in Seq(Nat)
        BY <2>2
      <3> QED
        BY <3>1, ElementsOK
    <2>5. GetItem(t, k) = [s |-> [t EXCEPT !.cache = Touch(t.cache, k)],
                           res |-> Elements(<<Value(t.cache, k)>>)]
      BY <1>2 DEF GetItem
    <2> QED
      BY <2>3, <2>4, <2>5 DEF StepOK
  <1>3. CASE ~Cached(t.cache, k) /\ t.stop = None
    <2>1. GetItem(t, k) = [s |-> t, res |-> Raised("error")]
      BY <1>3 DEF GetItem
    <2>2. Raised("error") \in Results
      BY RaisedOK
    <2> QED
      BY <2>1, <2>2 DEF StepOK
  <1>4. CASE ~Cached(t.cache, k) /\ t.stop # None
    <2> DEFINE r == IF k < t.stop THEN Rewound(t) ELSE t
               i == r.pos + (k - r.stop)
               one == [key |-> k, value |-> i]
    <2>1. t.stop \in Nat
      BY <1>1, <1>4
    <2>2. r.cache = t.cache /\ i \in Nat
      <3>1. CASE k < t.stop
        <4>1. r.pos = 0 /\ r.stop = 0 /\ r.cache = t.cache
          BY <1>1, <3>1
        <4> QED
          BY <4>1
      <3>2. CASE ~(k < t.stop)
        <4>1. r = t
          BY <3>2
        <4> QED
          BY <1>1, <2>1, <3>2, <4>1
      <3> QED
        BY <3>1, <3>2
    <2>3. ObjectOK(r)
      <3>1. ObjectOK([pos |-> 0, stop |-> 0, cache |-> t.cache])
        BY <1>1, ObjectIs
      <3> QED
        BY <1>1, <3>1
    <2>4. GetItem(t, k) = IF i >= N THEN [s |-> Rewound(r), res |-> Raised("StopIteration")]
                          ELSE [s |-> [pos |-> i + 1, stop |-> k + 1, cache |-> Put(r.cache, one)],
                                res |-> Elements(<<i>>)]
      BY <1>4 DEF GetItem
    <2> HIDE DEF r
    <2>5. CASE i >= N
      <3>1. Rewound(r) = [pos |-> 0, stop |-> 0, cache |-> t.cache]
        BY <2>2, <2>3, FieldsOf
      <3>2. ObjectOK([pos |-> 0, stop |-> 0, cache |-> t.cache])
        BY <1>1, ObjectIs
      <3>3. Raised("StopIteration") \in Results
        BY RaisedOK
      <3>4. GetItem(t, k) = [s |-> Rewound(r), res |-> Raised("StopIteration")]
        BY <2>4, <2>5
      <3> QED
        BY <3>1, <3>2, <3>3, <3>4 DEF StepOK
    <2>6. CASE ~(i >= N)
      <3> HIDE DEF i
      <3>1. one \in Pair
        BY <2>2 DEF Pair
      <3>2. CacheOK(Put(t.cache, one))
        <4>1. IsPut(t.cache, one, Put(t.cache, one))
          BY <1>1, <3>1, PutIs
        <4> QED
          BY <4>1, Zenon DEF IsPut
      <3>3. i + 1 \in 0 .. N /\ k + 1 \in Nat \cup {None}
        BY <1>1, <2>2, <2>6
      <3>4. ObjectOK([pos |-> i + 1, stop |-> k + 1, cache |-> Put(t.cache, one)])
        BY <3>2, <3>3, ObjectIs
      <3>5. Elements(<<i>>) \in Results
        <4>1. <<i>> \in Seq(Nat)
          BY <2>2
        <4> QED
          BY <4>1, ElementsOK
      <3>6. GetItem(t, k) = [s |-> [pos |-> i + 1, stop |-> k + 1, cache |-> Put(t.cache, one)],
                             res |-> Elements(<<i>>)]
        BY <2>2, <2>4, <2>6
      <3> QED
        BY <3>4, <3>5, <3>6 DEF StepOK
    <2> QED
      BY <2>5, <2>6
  <1> QED
    BY <1>2, <1>3, <1>4

\* Where islice leaves the iterator.
LEMMA LeftType ==
    ASSUME NEW pos \in Nat, NEW from \in Nat, NEW to \in Int \cup {None}, N \in Nat
    PROVE  Left(pos, from, to) \in 0 .. N
  <1>1. CASE to = None
    BY <1>1 DEF Left
  <1>2. CASE to # None
    <2>1. PICK b \in Int : b = to
      BY <1>2
    <2>2. PICK x \in Nat : x = IF from > to THEN from ELSE to
      BY <2>1
    <2>3. Left(pos, from, to) = IF pos + x > N THEN N ELSE pos + x
      BY <1>2, <2>2, Zenon DEF Left
    <2> QED
      BY <2>2, <2>3
  <1> QED
    BY <1>1, <1>2

LEMMA SliceAnewType ==
    ASSUME NEW t, ObjectOK(t), NEW start \in Nat, NEW end \in Nat \cup {None},
           NEW step \in Nat \ {0}, case.cache \in Nat \ {0}
    PROVE  StepOK(SliceAnew(t, start, end, step))
  <1> DEFINE es == Taken(0, start, end, step)
             p == Left(0, start, end)
             stop == IF end = None THEN start + (Len(es) - 1) * step + 1 ELSE end
             c == PutAll(t.cache, start, step, es)
  <1>1. /\ t.stop \in Nat \cup {None} /\ CacheOK(t.cache) /\ N \in Nat
        /\ [t EXCEPT !.pos = p] = [pos |-> p, stop |-> t.stop, cache |-> t.cache]
    BY FieldsOf
  <1>2. es \in Seq(Nat)
    <2>1. 0 + start \in Nat /\ (IF end = None THEN None ELSE 0 + end) \in Nat \cup {None}
      OBVIOUS
    <2>2. Stepping(0 + start, IF end = None THEN None ELSE 0 + end, step) \in Seq(Nat)
      BY <2>1, SteppingType
    <2> QED
      BY <2>2, Zenon DEF Taken
  <1>3. p \in 0 .. N
    <2>1. end \in Int \cup {None} /\ 0 \in Nat
      OBVIOUS
    <2> QED
      BY <1>1, <2>1, LeftType
  <1> HIDE DEF es, p
  <1>4. CASE end = None /\ es = <<>>
    <2>1. SliceAnew(t, start, end, step) = [s |-> [t EXCEPT !.pos = p], res |-> Raised("error")]
      BY <1>4 DEF SliceAnew, es, p
    <2>2. ObjectOK([t EXCEPT !.pos = p])
      BY <1>1, <1>3, ObjectIs
    <2>3. Raised("error") \in Results
      BY RaisedOK
    <2> QED
      BY <2>1, <2>2, <2>3 DEF StepOK
  <1>5. CASE ~(end = None /\ es = <<>>)
    <2>1. stop \in Nat \cup {None}
      <3>1. CASE end = None
        <4>1. Len(es) - 1 \in Nat
          BY <1>2, <1>5, <3>1
        <4>2. PICK x \in Nat : x = Len(es) - 1
          BY <4>1
        <4>3. start + x * step + 1 \in Nat
          OBVIOUS
        <4> QED
          BY <3>1, <4>2, <4>3
      <3>2. CASE end # None
        BY <3>2
      <3> QED
        BY <3>1, <3>2
    <2>2. CacheOK(c)
      <3>1. IsPutAll(t.cache, start, step, es, c)
        BY <1>1, <1>2, PutAllIs
      <3> QED
        BY <3>1, Zenon DEF IsPutAll
    <2>3. ObjectOK([pos |-> p, stop |-> stop, cache |-> c])
      <3> HIDE DEF stop, c
      <3> QED
        BY <1>3, <2>1, <2>2, ObjectIs
    <2>4. Elements(es) \in Results
      BY <1>2, ElementsOK
    <2>5. SliceAnew(t, start, end, step) = [s |-> [pos |-> p, stop |-> stop, cache |-> c],
                                            res |-> Elements(es)]
      BY <1>5 DEF SliceAnew, es, p
    <2> HIDE DEF stop, c
    <2> QED
      BY <2>3, <2>4, <2>5 DEF StepOK
  <1> QED
    BY <1>4, <1>5

LEMMA SliceOnType ==
    ASSUME NEW t, ObjectOK(t), NEW start \in Nat, NEW end \in Nat \cup {None},
           NEW step \in Nat \ {0}, case.cache \in Nat \ {0}, t.stop # None,
           ~(/\ start + Hits(t.cache, start, end, step) * step < t.stop
             /\ end = None \/ start + Hits(t.cache, start, end, step) * step < end)
    PROVE  StepOK(SliceOn(t, start, end, step))
  <1> DEFINE hits == Hits(t.cache, start, end, step)
             upd == start + hits * step
             old == [j \in 1 .. hits |-> Value(t.cache, start + (j - 1) * step)]
             none == end # None /\ upd >= end
             to == IF end = None THEN None ELSE end - t.stop
             new == IF none THEN <<>> ELSE Taken(t.pos, upd - t.stop, to, step)
             p == IF none THEN t.pos ELSE Left(t.pos, upd - t.stop, to)
             c == PutAll(t.cache, start, step, old)
             d == PutAll(c, start, step, new)
  <1>1. /\ t.pos \in 0 .. N /\ t.pos \in Nat /\ t.stop \in Nat /\ CacheOK(t.cache) /\ N \in Nat
    BY FieldsOf
  <1>2. /\ hits \in 0 .. Len(t.cache)
        /\ \A j \in 0 .. hits - 1 : Cached(t.cache, start + j * step)
    BY <1>1, HitsAre
  <1>3. hits \in Nat
    <2>1. Len(t.cache) \in Nat
      BY <1>1 DEF CacheOK
    <2> HIDE DEF hits
    <2> QED
      BY <1>2, <2>1
  <1>4. upd \in Nat
    <2> HIDE DEF hits
    <2> QED
      BY <1>3
  <1>5. old \in Seq(Nat)
    <2> HIDE DEF hits
    <2>1. ASSUME NEW j \in 1 .. hits PROVE Value(t.cache, start + (j - 1) * step) \in Nat
      <3>1. PICK i \in 0 .. hits - 1 : i = j - 1
        BY <1>3
      <3>2. Cached(t.cache, start + i * step)
        BY <1>2
      <3>3. PICK x : x = start + i * step
        OBVIOUS
      <3>4. PICK a \in DOMAIN t.cache : /\ Value(t.cache, x) = t.cache[a].value
                                        /\ t.cache[a] \in Pair
        BY <1>1, <3>2, <3>3, ValueIs
      <3>5. Value(t.cache, x) \in Nat
        BY <3>4 DEF Pair
      <3> QED
        BY <3>1, <3>3, <3>5
    <2>2. old \in [1 .. hits -> Nat]
      BY <2>1
    <2> HIDE DEF old
    <2> QED
      BY <1>3, <2>2
  <1>6. SliceOn(t, start, end, step) = [s |-> [pos |-> p, stop |-> end, cache |-> d],
                                        res |-> Elements(old \o new)]
    BY DEF SliceOn
  <1> HIDE DEF hits, upd, old
  <1>7. ASSUME ~none
        PROVE  /\ upd - t.stop \in Nat /\ to \in Int \cup {None}
               /\ (IF to = None THEN None ELSE t.pos + to) \in Nat \cup {None}
    <2>1. upd >= t.stop
      <3>1. end = None \/ upd < end
        <4>1. end # None => end \in Nat
          OBVIOUS
        <4> QED
          BY <1>4, <1>7, <4>1
      <3>2. ~(upd < t.stop)
        BY <3>1 DEF hits, upd
      <3> QED
        BY <1>1, <1>4, <3>2
    <2>2. CASE end = None
      BY <1>1, <1>4, <2>1, <2>2
    <2>3. CASE end # None
      <3>1. end \in Nat /\ upd < end
        BY <1>4, <1>7, <2>3
      <3>2. PICK b \in Nat : b = end - t.stop /\ b = to
        BY <1>1, <1>4, <2>1, <2>3, <3>1
      <3>3. b # None
        BY NoneIsNoNumber
      <3> QED
        BY <1>1, <1>4, <2>1, <3>2, <3>3
    <2> QED
      BY <2>2, <2>3
  <1>8. new \in Seq(Nat)
    <2>1. CASE none
      <3>1. <<>> \in Seq(Nat)
        OBVIOUS
      <3> QED
        BY <2>1, <3>1
    <2>2. CASE ~none
      <3>1. PICK from \in Nat : from = upd - t.stop
        BY <1>7, <2>2
      <3>2. PICK last \in Nat \cup {None} : last = IF to = None THEN None ELSE t.pos + to
        BY <1>7, <2>2
      <3>3. t.pos + from \in Nat
        BY <1>1
      <3>4. Stepping(t.pos + from, last, step) \in Seq(Nat)
        BY <3>3, SteppingType
      <3>5. Taken(t.pos, from, to, step) \in Seq(Nat)
        BY <3>2, <3>4, Zenon DEF Taken
      <3> QED
        BY <2>2, <3>1, <3>5
    <2> QED
      BY <2>1, <2>2
  <1>9. p \in 0 .. N
    <2>1. CASE none
      BY <1>1, <2>1
    <2>2. CASE ~none
      <3>1. PICK from \in Nat : from = upd - t.stop
        BY <1>7, <2>2
      <3>2. PICK b \in Int \cup {None} : b = to
        BY <1>7, <2>2
      <3>3. Left(t.pos, from, b) \in 0 .. N
        BY <1>1, LeftType
      <3> QED
        BY <2>2, <3>1, <3>2, <3>3, Zenon
    <2> QED
      BY <2>1, <2>2
  <1> HIDE DEF new, p, none, to
  <1>10. CacheOK(c)
    <2>1. IsPutAll(t.cache, start, step, old, c)
      BY <1>1, <1>5, PutAllIs
    <2> QED
      BY <2>1, Zenon DEF IsPutAll
  <1> HIDE DEF c
  <1>11. CacheOK(d)
    <2>1. IsPutAll(c, start, step, new, d)
      BY <1>8, <1>10, PutAllIs
    <2> QED
      BY <2>1, Zenon DEF IsPutAll
  <1> HIDE DEF d
  <1>12. ObjectOK([pos |-> p, stop |-> end, cache |-> d])
    BY <1>9, <1>11, ObjectIs
  <1>13. Elements(old \o new) \in Results
    <2>1. old \o new \in Seq(Nat)
      BY <1>5, <1>8, ConcatProperties
    <2> QED
      BY <2>1, ElementsOK
  <1> QED
    BY <1>6, <1>12, <1>13 DEF StepOK

LEMMA GetSliceType ==
    ASSUME NEW t, ObjectOK(t), NEW start \in Nat, NEW end \in Nat \cup {None},
           NEW step \in Nat \ {0}, case.cache \in Nat \ {0}
    PROVE  StepOK(GetSlice(t, start, end, step))
  <1> DEFINE upd == start + Hits(t.cache, start, end, step) * step
  <1>1. CASE t.stop = None
    <2>1. GetSlice(t, start, end, step) = [s |-> t, res |-> Raised("error")]
      BY <1>1 DEF GetSlice
    <2>2. Raised("error") \in Results
      BY RaisedOK
    <2> QED
      BY <2>1, <2>2 DEF StepOK
  <1>2. CASE t.stop # None /\ upd < t.stop /\ (end = None \/ upd < end)
    <2>1. GetSlice(t, start, end, step) = SliceAnew(t, start, end, step)
      BY <1>2 DEF GetSlice
    <2> QED
      BY <2>1, SliceAnewType
  <1>3. CASE t.stop # None /\ ~(upd < t.stop /\ (end = None \/ upd < end))
    <2>1. GetSlice(t, start, end, step) = SliceOn(t, start, end, step)
      BY <1>3 DEF GetSlice
    <2>2. StepOK(SliceOn(t, start, end, step))
      BY <1>3, SliceOnType
    <2> QED
      BY <2>1, <2>2
  <1> QED
    BY <1>1, <1>2, <1>3

LEMMA AheadType ==
    ASSUME NEW t, NEW r, StepOK(r), NEW next \in Nat \cup {None}, case.cache \in Nat \ {0},
           case.ahead \in Nat
    PROVE  StepOK(Ahead(t, r, next))
  <1>1. CASE case.ahead = 0 \/ next = None \/ r.res.kind # "elements" \/ r.s.stop = t.stop
    <2>1. Ahead(t, r, next) = r
      BY <1>1 DEF Ahead
    <2> QED
      BY <2>1
  <1>2. CASE ~(case.ahead = 0 \/ next = None \/ r.res.kind # "elements" \/ r.s.stop = t.stop)
    <2> DEFINE a == GetSlice(r.s, next, next + case.ahead, 1)
    <2>1. StepOK(a)
      <3>1. PICK end \in Nat \cup {None} : end = next + case.ahead
        BY <1>2
      <3>2. next \in Nat /\ ObjectOK(r.s) /\ 1 \in Nat \ {0}
        BY <1>2 DEF StepOK
      <3>3. StepOK(GetSlice(r.s, next, end, 1))
        BY <3>2, GetSliceType
      <3> QED
        BY <3>1, <3>3
    <2>2. Ahead(t, r, next) = [s |-> a.s, res |-> IF a.res.kind = "error" THEN a.res ELSE r.res]
      BY <1>2 DEF Ahead
    <2> HIDE DEF a
    <2> QED
      BY <2>1, <2>2 DEF StepOK
  <1> QED
    BY <1>1, <1>2

-----------------------------------------------------------------------------
(* Elements asked for in order *)

One(k) == [key |-> k, value |-> k]

LEMMA ExactPut ==
    ASSUME NEW c, CacheOK(c), Exact(c), NEW k \in Nat, k < N, case.cache \in Nat \ {0}
    PROVE  /\ One(k) \in Pair /\ One(k).key = k
           /\ IsPut(c, One(k), Put(c, One(k))) /\ CacheOK(Put(c, One(k)))
           /\ Exact(Put(c, One(k)))
           /\ \A b \in Nat : k < b /\ Below(c, b) => Below(Put(c, One(k)), b)
  <1>1. One(k) \in Pair /\ One(k).key = k /\ One(k).value = k
    BY DEF Pair, One
  <1>2. PICK kv \in Pair : kv = One(k) /\ kv.key = k /\ kv.value = k
    BY <1>1
  <1>3. IsPut(c, kv, Put(c, kv))
    BY PutIs
  <1>4. PICK r : r = Put(c, kv) /\ IsPut(c, kv, r)
    BY <1>3, Zenon
  <1>5. /\ CacheOK(r) /\ r[Len(r)] = kv
        /\ \A j \in 1 .. Len(r) - 1 : \E i \in DOMAIN c : r[j] = c[i]
    BY <1>4, Zenon DEF IsPut
  <1>6. \A j \in DOMAIN r : j \in 1 .. Len(r) - 1 \/ j = Len(r)
    BY <1>5 DEF CacheOK
  <1>7. \A j \in DOMAIN r : r[j] = kv \/ \E i \in DOMAIN c : r[j] = c[i]
    BY <1>5, <1>6, Zenon
  <1>8. ASSUME NEW b \in Nat, k < b, Below(c, b) PROVE Below(r, b)
    BY <1>2, <1>7, <1>8 DEF Below
  <1>9. \A j \in DOMAIN r : r[j].key = r[j].value
    BY <1>2, <1>7 DEF Exact
  <1>10. Exact(r)
    BY <1>8, <1>9, SizesType DEF Exact
  <1> QED
    BY <1>1, <1>2, <1>4, <1>5, <1>8, <1>10, Zenon

LEMMA ExactPutAll ==
    ASSUME NEW c, CacheOK(c), Exact(c), NEW start \in Nat, NEW end \in Nat, NEW es,
           IsRun(es, start, end), case.cache \in Nat \ {0}
    PROVE  /\ CacheOK(PutAll(c, start, 1, es)) /\ Exact(PutAll(c, start, 1, es))
           /\ \A b \in Nat : start + Len(es) <= b /\ Below(c, b)
                             => Below(PutAll(c, start, 1, es), b)
  <1>1. /\ es \in Seq(Nat) /\ \A j \in 1 .. Len(es) : es[j] = start + (j - 1)
        /\ start + Len(es) = IF EndOf(end) > start THEN EndOf(end) ELSE start
    BY DEF IsRun
  <1>2. PICK v \in Seq(Nat) : v = es
    BY <1>1
  <1>3. PICK r : r = PutAll(c, start, 1, v)
    OBVIOUS
  <1>4. IsPutAll(c, start, 1, v, PutAll(c, start, 1, v))
    BY PutAllIs
  <1>5. /\ CacheOK(r)
        /\ \A j \in DOMAIN r : \/ \E i \in DOMAIN c : r[j] = c[i]
                               \/ \E i \in 1 .. Len(v) : /\ r[j].key = start + (i - 1) * 1
                                                        /\ r[j].value = v[i]
    BY <1>3, <1>4, Zenon DEF IsPutAll
  <1>6. Len(v) \in Nat /\ N \in Nat
    BY SizesType
  <1>7. ASSUME NEW j \in DOMAIN r
        PROVE  \/ \E i \in DOMAIN c : r[j] = c[i]
               \/ r[j].key = r[j].value /\ r[j].key < start + Len(v) /\ Len(v) > 0
    <2>1. CASE \E i \in DOMAIN c : r[j] = c[i]
      BY <2>1
    <2>2. CASE \E i \in 1 .. Len(v) : r[j].key = start + (i - 1) * 1 /\ r[j].value = v[i]
      <3>1. PICK i \in 1 .. Len(v) : r[j].key = start + (i - 1) * 1 /\ r[j].value = v[i]
        BY <2>2
      <3>2. v[i] = start + (i - 1)
        BY <1>1, <1>2
      <3> QED
        BY <1>6, <3>1, <3>2
    <2> QED
      BY <1>5, <2>1, <2>2
  <1>8. ASSUME NEW b \in Nat, start + Len(v) <= b, Below(c, b) PROVE Below(r, b)
    <2> SUFFICES ASSUME NEW j \in DOMAIN r PROVE r[j].key < b
      BY DEF Below
    <2>1. CASE \E i \in DOMAIN c : r[j] = c[i]
      BY <1>8, <2>1 DEF Below
    <2>2. CASE r[j].key = r[j].value /\ r[j].key < start + Len(v)
      <3>1. r[j].key \in Nat
        <4>1. r[j] \in Pair
          BY <1>5 DEF CacheOK
        <4> QED
          BY <4>1 DEF Pair
      <3> QED
        BY <1>6, <1>8, <2>2, <3>1
    <2> QED
      BY <1>7, <2>1, <2>2
  <1>9. Len(v) > 0 => start + Len(v) <= N
    <2>1. EndOf(end) <= N /\ EndOf(end) \in Nat
      BY <1>6, NoneIsNoNumber DEF EndOf
    <2> QED
      BY <1>1, <1>2, <1>6, <2>1
  <1>10. Exact(r)
    <2>1. ASSUME NEW j \in DOMAIN r PROVE r[j].key < N /\ r[j].key = r[j].value
      <3>1. CASE \E i \in DOMAIN c : r[j] = c[i]
        BY <3>1 DEF Exact, Below
      <3>2. CASE r[j].key = r[j].value /\ r[j].key < start + Len(v) /\ Len(v) > 0
        <4>1. r[j].key \in Nat
          <5>1. r[j] \in Pair
            BY <1>5 DEF CacheOK
          <5> QED
            BY <5>1 DEF Pair
        <4> QED
          BY <1>6, <1>9, <3>2, <4>1
      <3> QED
        BY <1>7, <3>1, <3>2
    <2> QED
      BY <2>1 DEF Exact, Below
  <1> QED
    BY <1>2, <1>3, <1>5, <1>8, <1>10

\* An element that is asked for: cached, taken from the iterator, or past the end.
LEMMA ItemRight ==
    ASSUME NEW t, ObjectOK(t), Right(t), NEW k \in Nat, case.cache \in Nat \ {0}
    PROVE  /\ Cached(t.cache, k) =>
                k < N /\ GetItem(t, k) =
                  [s |-> [pos |-> t.pos, stop |-> t.stop, cache |-> Touch(t.cache, k)],
                   res |-> Elements(<<k>>)]
           /\ ~Cached(t.cache, k) /\ k < N =>
                GetItem(t, k) =
                  [s |-> [pos |-> k + 1, stop |-> k + 1, cache |-> Put(t.cache, One(k))],
                   res |-> Elements(<<k>>)]
           /\ ~Cached(t.cache, k) /\ k >= N =>
                GetItem(t, k) = [s |-> [pos |-> 0, stop |-> 0, cache |-> t.cache],
                                 res |-> Raised("StopIteration")]
  <1>1. /\ t.pos \in Nat /\ t.stop \in Nat \cup {None} /\ CacheOK(t.cache) /\ N \in Nat
        /\ [t EXCEPT !.cache = Touch(t.cache, k)] =
             [pos |-> t.pos, stop |-> t.stop, cache |-> Touch(t.cache, k)]
        /\ Rewound(t) = [pos |-> 0, stop |-> 0, cache |-> t.cache]
    BY FieldsOf
  <1>2. /\ Exact(t.cache) /\ t.stop # None /\ t.stop \in Nat
        /\ (t.stop = t.pos \/ (t.stop > N /\ t.pos = N))
    BY <1>1 DEF Right
  <1>3. CASE Cached(t.cache, k)
    <2>1. PICK j \in DOMAIN t.cache : t.cache[j].key = k /\ Value(t.cache, k) = t.cache[j].value
      BY <1>1, <1>3, ValueIs
    <2>2. Value(t.cache, k) = k /\ k < N
      BY <1>2, <2>1 DEF Exact, Below
    <2>3. GetItem(t, k) = [s |-> [t EXCEPT !.cache = Touch(t.cache, k)],
                           res |-> Elements(<<Value(t.cache, k)>>)]
      BY <1>3 DEF GetItem
    <2> QED
      BY <1>1, <1>3, <2>2, <2>3
  <1>4. CASE ~Cached(t.cache, k)
    <2> DEFINE r == IF k < t.stop THEN Rewound(t) ELSE t
               i == r.pos + (k - r.stop)
    <2>1. GetItem(t, k) = IF i >= N THEN [s |-> Rewound(r), res |-> Raised("StopIteration")]
                          ELSE [s |-> [pos |-> i + 1, stop |-> k + 1,
                                       cache |-> Put(r.cache, [key |-> k, value |-> i])],
                                res |-> Elements(<<i>>)]
      BY <1>2, <1>4 DEF GetItem
    <2>2. r.cache = t.cache /\ (i = k \/ (i \in Nat /\ i >= N /\ k >= N))
      <3>1. CASE k < t.stop
        <4>1. r.pos = 0 /\ r.stop = 0 /\ r.cache = t.cache
          BY <1>1, <3>1
        <4> QED
          BY <4>1
      <3>2. CASE ~(k < t.stop)
        <4>1. r = t
          BY <3>2
        <4> QED
          BY <1>1, <1>2, <3>2, <4>1
      <3> QED
        BY <3>1, <3>2
    <2>3. Rewound(r) = [pos |-> 0, stop |-> 0, cache |-> t.cache]
      BY <2>2 DEF Rewound
    <2> HIDE DEF r
    <2>4. CASE k >= N
      <3>1. i >= N
        <4> HIDE DEF i
        <4> QED
          BY <1>1, <2>2, <2>4
      <3> HIDE DEF i
      <3>2. GetItem(t, k) = [s |-> Rewound(r), res |-> Raised("StopIteration")]
        BY <2>1, <3>1
      <3> QED
        BY <1>1, <1>4, <2>3, <2>4, <3>2
    <2>5. CASE ~(k >= N)
      <3>1. i = k /\ ~(i >= N)
        <4> HIDE DEF i
        <4> QED
          BY <1>1, <2>2, <2>5
      <3> HIDE DEF i
      <3>2. GetItem(t, k) = [s |-> [pos |-> k + 1, stop |-> k + 1,
                                    cache |-> Put(t.cache, [key |-> k, value |-> k])],
                             res |-> Elements(<<k>>)]
        BY <2>1, <2>2, <3>1
      <3> QED
        BY <1>4, <2>5, <3>2 DEF One
    <2> QED
      BY <2>4, <2>5
  <1> QED
    BY <1>3, <1>4

\* Two runs with the same bounds are equal.
LEMMA OneRun ==
    ASSUME NEW x, NEW y, NEW start \in Nat, NEW end \in Nat, IsRun(x, start, end),
           IsRun(y, start, end)
    PROVE  x = y
  <1>1. x \in Seq(Nat) /\ y \in Seq(Nat) /\ Len(x) \in Nat /\ Len(y) \in Nat
    BY DEF IsRun
  <1>2. PICK a : a = IF EndOf(end) > start THEN EndOf(end) ELSE start
    OBVIOUS
  <1>3. start + Len(x) = a /\ start + Len(y) = a
    BY <1>2, Zenon DEF IsRun
  <1>4. Len(x) = Len(y)
    BY <1>1, <1>3
  <1>5. \A j \in 1 .. Len(x) : x[j] = y[j]
    BY <1>4 DEF IsRun
  <1> QED
    BY <1>1, <1>4, <1>5, SeqEqual

\* A slice that starts where the iterator stands.
LEMMA SliceRight ==
    ASSUME NEW t, ObjectOK(t), Right(t), NEW start \in Nat, t.stop = start,
           ~Cached(t.cache, start), NEW end \in Nat, end > start, case.cache \in Nat \ {0}
    PROVE  /\ IsRun(Stepping(start, end, 1), start, end)
           /\ GetSlice(t, start, end, 1) =
                [s |-> [pos |-> EndOf(end), stop |-> end,
                        cache |-> PutAll(t.cache, start, 1, Stepping(start, end, 1))],
                 res |-> Elements(Stepping(start, end, 1))]
  <1>1. t.pos \in Nat /\ CacheOK(t.cache) /\ N \in Nat
    BY FieldsOf
  <1>2. start = t.pos \/ (start > N /\ t.pos = N)
    BY DEF Right
  <1>3. end # None /\ start # None
    BY NoneIsNoNumber
  <1>4. IsRun(Stepping(start, end, 1), start, end)
    BY SteppingByOne
  <1>5. PICK es : es = Stepping(start, end, 1)
    OBVIOUS
  <1>6. Hits(t.cache, start, end, 1) = 0
    BY <1>1, HitsAre
  <1>7. start + Hits(t.cache, start, end, 1) * 1 = start
    BY <1>6
  <1>8. GetSlice(t, start, end, 1) = SliceOn(t, start, end, 1)
    <2>1. ~(start < t.stop) /\ t.stop # None
      BY <1>3
    <2> QED
      BY <1>7, <2>1, Zenon DEF GetSlice
  <1>9. Taken(t.pos, 0, end - start, 1) = es
    <2>1. end - start \in Nat /\ end - start # None
      BY NoneIsNoNumber
    <2>2. Taken(t.pos, 0, end - start, 1) = Stepping(t.pos + 0, t.pos + (end - start), 1)
      BY <2>1, Zenon DEF Taken
    <2>3. CASE start = t.pos
      <3>1. t.pos + 0 = start /\ t.pos + (end - start) = end
        BY <1>1, <2>3
      <3> QED
        BY <1>5, <2>2, <3>1, Zenon
    <2>4. CASE start > N /\ t.pos = N
      <3>1. PICK e \in Nat : e = t.pos + (end - start) /\ e >= N /\ t.pos + 0 = N
        BY <1>1, <2>4
      <3>2. PICK new : new = Stepping(N, e, 1)
        OBVIOUS
      <3>3. IsRun(new, N, e)
        BY <1>1, <3>2, SteppingByOne
      <3>4. EndOf(e) = N /\ EndOf(end) = N
        BY <1>1, <2>4, <3>1 DEF EndOf
      <3>5. new \in Seq(Nat) /\ N + Len(new) = N
        BY <1>1, <3>3, <3>4 DEF IsRun
      <3>6. Len(new) = 0
        BY <1>1, <3>5
      <3>7. IsRun(new, start, end)
        BY <1>1, <2>4, <3>4, <3>5, <3>6 DEF IsRun
      <3>8. new = es
        BY <1>4, <1>5, <3>7, OneRun
      <3> QED
        BY <2>2, <3>1, <3>2, <3>8, Zenon
    <2> QED
      BY <1>2, <2>3, <2>4
  <1>10. Left(t.pos, 0, end - start) = EndOf(end)
    <2>1. PICK x \in Nat : x = end - start /\ x # None /\ x > 0
      BY NoneIsNoNumber
    <2>2. Left(t.pos, 0, x) = IF t.pos + x > N THEN N ELSE t.pos + x
      BY <2>1 DEF Left
    <2> QED
      BY <1>1, <1>2, <1>3, <2>1, <2>2 DEF EndOf
  <1>11. SliceOn(t, start, end, 1) =
           [s |-> [pos |-> EndOf(end), stop |-> end,
                   cache |-> PutAll(t.cache, start, 1, es)],
            res |-> Elements(es)]
    <2> DEFINE old == [j \in 1 .. Hits(t.cache, start, end, 1) |->
                         Value(t.cache, start + (j - 1) * 1)]
    <2>1. old = <<>>
      <3>1. old = [j \in 1 .. 0 |-> Value(t.cache, start + (j - 1) * 1)]
        BY <1>6, Zenon
      <3>2. \A f : f = [j \in 1 .. 0 |-> Value(t.cache, start + (j - 1) * 1)] => f = <<>>
        <4>1. 1 .. 0 = {}
          OBVIOUS
        <4> QED
          BY <4>1
      <3> QED
        BY <3>1, <3>2, Zenon
    <2>2. es \in Seq(Nat) /\ old \o es = es
      <3>1. es \in Seq(Nat)
        BY <1>4, <1>5 DEF IsRun
      <3> HIDE DEF old
      <3> QED
        BY <2>1, <3>1
    <2>3. PutAll(t.cache, start, 1, old) = t.cache
      <3> HIDE DEF old
      <3>1. PutAll(t.cache, start, 1, <<>>) = t.cache
        BY PutNothing
      <3> QED
        BY <2>1, <3>1, Zenon
    <2>4. ~(start >= end) /\ start - start = 0
      OBVIOUS
    <2>5. SliceOn(t, start, end, 1) =
           [s |-> [pos |-> Left(t.pos, start - t.stop, end - t.stop), stop |-> end,
                   cache |-> PutAll(PutAll(t.cache, start, 1, old), start, 1,
                                    Taken(t.pos, start - t.stop, end - t.stop, 1))],
            res |-> Elements(old \o Taken(t.pos, start - t.stop, end - t.stop, 1))]
      BY <1>3, <1>7, <2>4, Zenon DEF SliceOn
    <2> HIDE DEF old
    <2>6. start - t.stop = 0 /\ end - t.stop = end - start
      BY <2>4
    <2> QED
      BY <1>9, <1>10, <2>2, <2>3, <2>5, <2>6, Zenon
  <1> QED
    BY <1>4, <1>5, <1>8, <1>11, Zenon

-----------------------------------------------------------------------------
(* Reading ahead *)

\* What a list answers to x[k].
ItemAnswer(k) == IF k < N THEN Elements(<<k>>) ELSE Raised("StopIteration")

LEMMA BelowMore ==
    ASSUME NEW c, CacheOK(c), NEW a \in Nat, NEW b \in Nat, a <= b, Below(c, a)
    PROVE  Below(c, b)
  <1> SUFFICES ASSUME NEW j \in DOMAIN c PROVE c[j].key < b
    BY DEF Below
  <1>1. c[j] \in Pair
    BY DEF CacheOK
  <1>2. c[j].key \in Nat
    BY <1>1 DEF Pair
  <1> QED
    BY <1>2 DEF Below

LEMMA NotCachedAbove ==
    ASSUME NEW c, NEW b \in Nat, Below(c, b), NEW k \in Nat, k >= b
    PROVE  ~Cached(c, k)
  BY DEF Below, Cached

LEMMA ReachedIs ==
    ASSUME NEW t, ObjectOK(t), Right(t)
    PROVE  /\ Reached(t) \in Nat /\ Reached(t) <= N /\ t.stop \in Nat /\ Reached(t) <= t.stop
           /\ Reached(t) < N => t.stop = Reached(t)
  <1>1. t.stop \in Nat /\ N \in Nat
    <2>1. t.stop \in Nat \cup {None} /\ N \in Nat
      BY FieldsOf
    <2> QED
      BY <2>1 DEF Right
  <1> QED
    BY <1>1 DEF Reached

\* Reading an element that is cached, with or without reading ahead.
LEMMA TouchRight ==
    ASSUME NEW t, ObjectOK(t), Right(t), NEW k \in Nat, case.cache \in Nat \ {0},
           Cached(t.cache, k)
    PROVE  \E u : /\ Ahead(t, GetItem(t, k), k + 1) = [s |-> u, res |-> ItemAnswer(k)]
                  /\ GetItem(t, k) = [s |-> u, res |-> ItemAnswer(k)]
                  /\ Right(u) /\ Reached(u) = Reached(t) /\ u.stop = t.stop /\ k < N
                  /\ \A b : Below(t.cache, b) => Below(u.cache, b)
                  /\ \A x : Cached(t.cache, x) => Cached(u.cache, x)
  <1>1. PICK c : c = Touch(t.cache, k)
    OBVIOUS
  <1>2. PICK u : u = [pos |-> t.pos, stop |-> t.stop, cache |-> c]
    OBVIOUS
  <1>3. u.pos = t.pos /\ u.stop = t.stop /\ u.cache = c
    BY <1>2
  <1>4. k < N /\ GetItem(t, k) = [s |-> u, res |-> Elements(<<k>>)]
    BY <1>1, <1>2, ItemRight
  <1>5. GetItem(t, k) = [s |-> u, res |-> ItemAnswer(k)]
    BY <1>4 DEF ItemAnswer
  <1>6. PICK g : g = GetItem(t, k)
    OBVIOUS
  <1>7. g.s = u
    BY <1>5, <1>6
  <1>8. Ahead(t, GetItem(t, k), k + 1) = g
    BY <1>3, <1>6, <1>7, Zenon DEF Ahead
  <1>9. CacheOK(t.cache)
    BY FieldsOf
  <1>10. /\ \A x : Cached(t.cache, x) => Cached(c, x)
         /\ \A j \in DOMAIN c : \E i \in DOMAIN t.cache : c[j] = t.cache[i]
    BY <1>1, <1>9, TouchIs
  <1>11. \A b : Below(t.cache, b) => Below(c, b)
    BY <1>10, Zenon DEF Below
  <1>12. Exact(c)
    BY <1>10, <1>11, Zenon DEF Exact, Right
  <1>13. Right(u)
    BY <1>3, <1>12 DEF Right
  <1>14. Reached(u) = Reached(t)
    BY <1>3 DEF Reached
  <1> QED
    BY <1>3, <1>4, <1>5, <1>6, <1>8, <1>10, <1>11, <1>13, <1>14, Zenon

\* Asking for an element past the end.
LEMMA PastEnd ==
    ASSUME NEW t, ObjectOK(t), Right(t), NEW k \in Nat, case.cache \in Nat \ {0},
           ~Cached(t.cache, k), k >= N
    PROVE  \E u : /\ Ahead(t, GetItem(t, k), k + 1) = [s |-> u, res |-> ItemAnswer(k)]
                  /\ GetItem(t, k) = [s |-> u, res |-> ItemAnswer(k)]
                  /\ Right(u) /\ u.cache = t.cache
  <1>1. PICK u : u = [pos |-> 0, stop |-> 0, cache |-> t.cache]
    OBVIOUS
  <1>2. u.pos = 0 /\ u.stop = 0 /\ u.cache = t.cache
    BY <1>1
  <1>3. PICK g : g = GetItem(t, k)
    OBVIOUS
  <1>4. g = [s |-> u, res |-> Raised("StopIteration")]
    BY <1>1, <1>3, ItemRight
  <1>5. ItemAnswer(k) = Raised("StopIteration")
    BY SizesType DEF ItemAnswer
  <1>6. g.res.kind # "elements"
    BY <1>4 DEF Raised
  <1>7. Ahead(t, GetItem(t, k), k + 1) = g
    BY <1>3, <1>6, Zenon DEF Ahead
  <1>8. Right(u)
    BY <1>2, NoneIsNoNumber DEF Right
  <1> QED
    BY <1>2, <1>3, <1>4, <1>5, <1>7, <1>8, Zenon

\* Taking an element from the iterator.
LEMMA TakeRight ==
    ASSUME NEW t, ObjectOK(t), Right(t), NEW k \in Nat, case.cache \in Nat \ {0},
           ~Cached(t.cache, k), k < N
    PROVE  \E u : /\ GetItem(t, k) = [s |-> u, res |-> ItemAnswer(k)]
                  /\ ObjectOK(u) /\ Right(u) /\ u.stop = k + 1
                  /\ u.cache = Put(t.cache, One(k))
  <1>1. PICK c : c = Put(t.cache, One(k))
    OBVIOUS
  <1>2. PICK u : u = [pos |-> k + 1, stop |-> k + 1, cache |-> c]
    OBVIOUS
  <1>3. u.pos = k + 1 /\ u.stop = k + 1 /\ u.cache = c
    BY <1>2
  <1>4. GetItem(t, k) = [s |-> u, res |-> ItemAnswer(k)]
    BY <1>1, <1>2, ItemRight DEF ItemAnswer
  <1>5. CacheOK(t.cache) /\ Exact(t.cache) /\ N \in Nat
    BY FieldsOf DEF Right
  <1>6. CacheOK(c) /\ Exact(c)
    BY <1>1, <1>5, ExactPut
  <1>7. Right(u)
    BY <1>3, <1>6, NoneIsNoNumber DEF Right
  <1>8. ObjectOK(u)
    BY <1>2, <1>5, <1>6, ObjectIs
  <1> QED
    BY <1>1, <1>3, <1>4, <1>7, <1>8, Zenon

\* The same, and then the elements after it.
LEMMA TakeAhead ==
    ASSUME NEW t, ObjectOK(t), Right(t), NEW k \in Nat, case.cache \in Nat \ {0},
           ~Cached(t.cache, k), k < N, case.ahead \in Nat \ {0}, t.stop # k + 1,
           ~Cached(Put(t.cache, One(k)), k + 1)
    PROVE  \E u, es : /\ Ahead(t, GetItem(t, k), k + 1) = [s |-> u, res |-> ItemAnswer(k)]
                      /\ Right(u) /\ u.stop = k + 1 + case.ahead
                      /\ es \in Seq(Nat) /\ k + 1 + Len(es) = Reached(u)
                      /\ k + 1 <= Reached(u)
                      /\ u.cache = PutAll(Put(t.cache, One(k)), k + 1, 1, es)
                      /\ CacheOK(u.cache)
                      /\ \A b \in Nat : Reached(u) <= b /\ Below(t.cache, b)
                                        => Below(u.cache, b)
  <1>1. PICK h : /\ GetItem(t, k) = [s |-> h, res |-> ItemAnswer(k)]
                 /\ ObjectOK(h) /\ Right(h) /\ h.stop = k + 1
                 /\ h.cache = Put(t.cache, One(k))
    BY TakeRight
  <1>2. PICK end \in Nat : end = k + 1 + case.ahead /\ end > k + 1
    OBVIOUS
  <1>3. PICK a \in Nat : a = k + 1
    OBVIOUS
  <1>4. PICK es : es = Stepping(a, end, 1)
    OBVIOUS
  <1>5. PICK u : u = [pos |-> EndOf(end), stop |-> end, cache |-> PutAll(h.cache, a, 1, es)]
    OBVIOUS
  <1>6. IsRun(es, a, end) /\ GetSlice(h, a, end, 1) = [s |-> u, res |-> Elements(es)]
    <2>1. h.stop = a /\ ~Cached(h.cache, a) /\ end > a
      BY <1>1, <1>2, <1>3
    <2> QED
      BY <1>1, <1>4, <1>5, <2>1, SliceRight
  <1>7. u.pos = EndOf(end) /\ u.stop = end /\ u.cache = PutAll(h.cache, a, 1, es)
    BY <1>5
  <1>8. Ahead(t, GetItem(t, k), k + 1) = [s |-> u, res |-> ItemAnswer(k)]
    <2>1. PICK g : g = GetItem(t, k)
      OBVIOUS
    <2>2. g.s = h /\ g.res = ItemAnswer(k) /\ g.res.kind = "elements"
      BY <1>1, <2>1 DEF ItemAnswer, Elements
    <2>3. PICK x : x = GetSlice(h, a, end, 1)
      OBVIOUS
    <2>4. x.s = u /\ x.res.kind # "error"
      BY <1>6, <2>3 DEF Elements
    <2>5. a # None /\ case.ahead # 0 /\ g.s.stop # t.stop /\ a + case.ahead = end
      BY <1>1, <1>2, <1>3, <2>2, NoneIsNoNumber
    <2>6. Ahead(t, g, a) = [s |-> x.s, res |-> IF x.res.kind = "error" THEN x.res ELSE g.res]
      BY <2>2, <2>3, <2>5, Zenon DEF Ahead
    <2> QED
      BY <1>3, <2>1, <2>2, <2>4, <2>6, Zenon
  <1>9. CacheOK(t.cache) /\ Exact(t.cache) /\ N \in Nat /\ CacheOK(h.cache) /\ Exact(h.cache)
    BY <1>1, FieldsOf DEF Right
  <1>10. /\ CacheOK(u.cache) /\ Exact(u.cache)
         /\ \A b \in Nat : a + Len(es) <= b /\ Below(h.cache, b) => Below(u.cache, b)
    BY <1>6, <1>7, <1>9, ExactPutAll
  <1>11. EndOf(end) = IF end > N THEN N ELSE end
    BY <1>9, NoneIsNoNumber DEF EndOf
  <1>12. Right(u)
    BY <1>7, <1>9, <1>10, <1>11, NoneIsNoNumber DEF Right
  <1>13. Reached(u) = EndOf(end) /\ Reached(u) >= a
    BY <1>2, <1>3, <1>7, <1>9, <1>11 DEF Reached
  <1>14. es \in Seq(Nat) /\ a + Len(es) = Reached(u)
    <2>1. es \in Seq(Nat) /\ a + Len(es) = IF EndOf(end) > a THEN EndOf(end) ELSE a
      BY <1>6, Zenon DEF IsRun
    <2> QED
      BY <1>9, <1>11, <1>13, <2>1
  <1>15. ASSUME NEW b \in Nat, Reached(u) <= b, Below(t.cache, b) PROVE Below(u.cache, b)
    <2>1. k < b
      BY <1>3, <1>9, <1>11, <1>13, <1>15
    <2>2. Below(h.cache, b)
      BY <1>1, <1>9, <1>15, <2>1, ExactPut
    <2> QED
      BY <1>10, <1>14, <1>15, <2>2
  <1> QED
    BY <1>1, <1>2, <1>3, <1>7, <1>8, <1>10, <1>12, <1>13, <1>14, <1>15

-----------------------------------------------------------------------------
(* One loop, and loops that are started again *)

LEMMA LoopStep ==
    ASSUME NEW t, ObjectOK(t), Right(t), NEW k \in Nat, case.cache \in Nat \ {0},
           case.ahead \in Nat \ {0}, k <= N, Upcoming(t, k)
    PROVE  \E u : /\ Ahead(t, GetItem(t, k), k + 1) = [s |-> u, res |-> ItemAnswer(k)]
                  /\ Right(u) /\ (k < N => Upcoming(u, k + 1))
  <1>1. /\ Reached(t) \in Nat /\ Reached(t) <= N /\ t.stop \in Nat /\ Reached(t) <= t.stop
        /\ Reached(t) < N => t.stop = Reached(t)
    BY ReachedIs
  <1>2. CacheOK(t.cache) /\ N \in Nat /\ Exact(t.cache)
    BY FieldsOf DEF Right
  <1>3. PICK c : c = t.cache
    OBVIOUS
  <1>4. CacheOK(c) /\ c \in Seq(Pair) /\ Len(c) \in Nat /\ DOMAIN c = 1 .. Len(c)
    BY <1>2, <1>3 DEF CacheOK
  <1>5. PICK m \in Nat : m = Reached(t)
    BY <1>1
  <1>b. PICK size \in Nat : size = case.cache /\ size # 0
    OBVIOUS
  <1>c. PICK n \in Nat : n = Len(c)
    <2>1. Len(c) \in Nat
      BY <1>4, Zenon
    <2> QED
      BY <2>1, Zenon
  <1>a. n = Len(c) /\ size = case.cache /\ size # 0
    BY <1>b, <1>c
  <1>6. /\ k <= m /\ t.stop <= k + case.ahead /\ Below(c, m)
        /\ \/ Holds(c, k, m)
           \/ Len(c) = case.cache /\ k < m - case.cache /\ Recent(c, m, case.cache)
    BY <1>3, <1>5, Zenon DEF Upcoming
  <1>7. CASE Cached(c, k)
    <2>1. PICK u : /\ Ahead(t, GetItem(t, k), k + 1) = [s |-> u, res |-> ItemAnswer(k)]
                   /\ Right(u) /\ Reached(u) = Reached(t) /\ u.stop = t.stop /\ k < N
                   /\ \A b : Below(t.cache, b) => Below(u.cache, b)
                   /\ \A x : Cached(t.cache, x) => Cached(u.cache, x)
      BY <1>3, <1>7, TouchRight
    <2>2. k < m
      BY <1>6, <1>7, NotCachedAbove
    <2>3. Holds(c, k, m)
      <3> SUFFICES ASSUME Len(c) = case.cache, k < m - case.cache, Recent(c, m, case.cache)
                   PROVE  FALSE
        BY <1>6
      <3>1. PICK j \in 1 .. Len(c) : c[j].key = k
        BY <1>4, <1>7 DEF Cached
      <3>2. PICK i \in 0 .. case.cache - 1 : i = Len(c) - j /\ Len(c) - i = j
        <4>1. j \in 1 .. n /\ n = size
          BY <1>a, <3>1
        <4>2. n - j \in 0 .. size - 1 /\ n - (n - j) = j
          BY <4>1
        <4> QED
          BY <1>a, <4>2
      <3>3. c[j].key = m - 1 - i
        BY <3>2 DEF Recent
      <3>4. i \in 0 .. size - 1 /\ k < m - size
        BY <1>a, <3>2
      <3>5. m - 1 - i > k
        BY <3>4
      <3> QED
        BY <3>1, <3>3, <3>5
    <2>4. Holds(u.cache, k + 1, m)
      <3>1. ASSUME NEW x \in k + 1 .. m - 1 PROVE Cached(u.cache, x)
        <4>1. x \in k .. m - 1
          OBVIOUS
        <4> QED
          BY <1>3, <2>1, <2>3, <4>1 DEF Holds
      <3> QED
        BY <3>1 DEF Holds
    <2>5. k + 1 <= m /\ u.stop <= k + 1 + case.ahead
      BY <1>1, <1>6, <2>1, <2>2
    <2>6. Below(u.cache, m) /\ Reached(u) = m
      BY <1>3, <1>5, <1>6, <2>1
    <2>7. Upcoming(u, k + 1)
      BY <2>4, <2>5, <2>6 DEF Upcoming
    <2> QED
      BY <2>1, <2>7
  <1>8. CASE ~Cached(c, k) /\ k >= N
    <2>1. PICK u : /\ Ahead(t, GetItem(t, k), k + 1) = [s |-> u, res |-> ItemAnswer(k)]
                   /\ Right(u)
      BY <1>3, <1>8, PastEnd
    <2> QED
      BY <1>2, <1>8, <2>1
  <1>9. CASE ~Cached(c, k) /\ k < N
    <2>1. PICK one \in Pair : one = One(k) /\ one.key = k
      BY <1>2, <1>9, ExactPut
    <2>2. PICK d : d = Put(c, one) /\ IsPut(c, one, d)
      <3>1. IsPut(c, One(k), Put(c, One(k)))
        BY <1>2, <1>3, <1>9, ExactPut
      <3> QED
        BY <2>1, <3>1, Zenon
    <2>3. /\ CacheOK(d) /\ Len(d) >= 1 /\ d[Len(d)] = one
          /\ Cached(c, one.key) \/ Len(c) = case.cache => Len(d) = Len(c)
          /\ \A y \in Nat : /\ y < Len(d) /\ y <= Len(c)
                            /\ \A i \in 0 .. y - 1 : c[Len(c) - i].key # one.key
                            => \A i \in 0 .. y - 1 : d[Len(d) - 1 - i] = c[Len(c) - i]
      BY <2>2, Zenon DEF IsPut
    <2>4. \A b \in Nat : k < b /\ Below(c, b) => Below(d, b)
      BY <1>2, <1>3, <1>9, <2>1, <2>2, ExactPut
    <2>5. t.stop # k + 1 /\ ~Cached(d, k + 1)
      <3>1. CASE Holds(c, k, m)
        <4>1. ~(k \in k .. m - 1)
          BY <1>9, <3>1 DEF Holds
        <4>2. k = m
          BY <1>6, <4>1
        <4>3. t.stop = k
          BY <1>1, <1>5, <1>9, <4>2
        <4>4. Below(c, k + 1)
          BY <1>4, <1>6, <4>2, BelowMore
        <4>5. Below(d, k + 1) /\ k + 1 \in Nat
          BY <2>4, <4>4
        <4> QED
          BY <4>3, <4>5, NotCachedAbove
      <3>2. CASE Len(c) = case.cache /\ k < m - case.cache /\ Recent(c, m, case.cache)
        <4>1. t.stop # k + 1
          BY <1>1, <1>5, <3>2
        <4>2. PICK y \in Nat : y = case.cache - 1
          OBVIOUS
        <4>3. Len(d) = case.cache /\ y < Len(d) /\ y <= Len(c)
          BY <2>3, <3>2, <4>2
        <4>4. ASSUME NEW i \in 0 .. y - 1
              PROVE  c[Len(c) - i].key = m - 1 - i /\ c[Len(c) - i].key # one.key
          <5>1. i \in 0 .. case.cache - 1
            BY <4>2
          <5>2. c[Len(c) - i].key = m - 1 - i
            BY <3>2, <5>1 DEF Recent
          <5>3. m - 1 - i > k
            BY <3>2, <4>2
          <5> QED
            BY <2>1, <5>2, <5>3
        <4>5. \A i \in 0 .. y - 1 : d[Len(d) - 1 - i] = c[Len(c) - i]
          BY <2>3, <4>3, <4>4
        <4>6. ASSUME NEW j \in DOMAIN d PROVE d[j].key # k + 1
          <5>1. j \in 1 .. Len(d)
            BY <2>3 DEF CacheOK
          <5>2. CASE j = Len(d)
            BY <2>1, <2>3, <5>2
          <5>3. CASE j # Len(d)
            <6>1. PICK i \in 0 .. y - 1 : i = Len(d) - 1 - j /\ Len(d) - 1 - i = j
              <7>1. PICK z \in Nat : z = Len(d)
                BY <1>a, <4>3
              <7>2. j \in 1 .. z /\ j # z /\ z = size /\ y = size - 1
                BY <1>a, <4>2, <4>3, <5>1, <5>3, <7>1
              <7>3. z - 1 - j \in 0 .. y - 1 /\ z - 1 - (z - 1 - j) = j
                BY <7>2
              <7> QED
                BY <7>1, <7>3
            <6>2. d[j].key = m - 1 - i
              BY <4>4, <4>5, <6>1
            <6>3. m - 1 - i > k + 1
              BY <3>2, <4>2
            <6> QED
              BY <6>2, <6>3
          <5> QED
            BY <5>2, <5>3
        <4> QED
          BY <4>1, <4>6 DEF Cached
      <3> QED
        BY <1>6, <3>1, <3>2
    <2>6. ~Cached(Put(t.cache, One(k)), k + 1) /\ ~Cached(t.cache, k)
      BY <1>3, <1>9, <2>1, <2>2, <2>5, Zenon
    <2>7. PICK u, es : /\ Ahead(t, GetItem(t, k), k + 1) = [s |-> u, res |-> ItemAnswer(k)]
                       /\ Right(u) /\ u.stop = k + 1 + case.ahead
                       /\ es \in Seq(Nat) /\ k + 1 + Len(es) = Reached(u)
                       /\ k + 1 <= Reached(u)
                       /\ u.cache = PutAll(Put(t.cache, One(k)), k + 1, 1, es)
                       /\ CacheOK(u.cache)
                       /\ \A b \in Nat : Reached(u) <= b /\ Below(t.cache, b)
                                         => Below(u.cache, b)
      BY <1>9, <2>5, <2>6, TakeAhead
    <2>8. PICK v \in Seq(Nat) : v = es
      BY <2>7
    <2>9. PICK e : e = PutAll(d, k + 1, 1, v) /\ e = u.cache
      BY <1>3, <2>1, <2>2, <2>7, <2>8
    <2>10. PICK r \in Nat : /\ r = Reached(u) /\ k + 1 + Len(v) = r /\ Len(v) \in Nat
                            /\ r = IF k + 1 + case.ahead < N THEN k + 1 + case.ahead ELSE N
      BY <1>2, <2>7, <2>8 DEF Reached
    <2>11. Below(e, r)
      <3>1. m <= r
        <4>1. PICK p \in Nat : p = case.ahead
          OBVIOUS
        <4>2. PICK s \in Nat : s = t.stop
          BY <1>1
        <4>3. m <= N /\ m <= s /\ s <= k + p
          BY <1>1, <1>5, <1>6, <4>1, <4>2
        <4>4. r = IF k + 1 + p < N THEN k + 1 + p ELSE N
          BY <2>10, <4>1
        <4> QED
          BY <1>2, <4>3, <4>4
      <3>2. Below(c, r)
        BY <1>4, <1>6, <3>1, BelowMore
      <3> QED
        BY <1>3, <2>7, <2>9, <2>10, <3>2
    <2>12. Len(e) \in Nat /\ Len(e) <= case.cache /\ DOMAIN e = 1 .. Len(e)
      BY <2>7, <2>9 DEF CacheOK
    <2>13. \A y \in Nat : y <= Len(v) /\ y <= case.cache
                           => y <= Len(e) /\ Recent(e, k + 1 + Len(v), y)
      <3> SUFFICES ASSUME NEW y \in Nat, y <= Len(v), y <= case.cache
                   PROVE  y <= Len(e) /\ Recent(e, k + 1 + Len(v), y)
        OBVIOUS
      <3>1. PICK a \in Nat : a = k + 1
        OBVIOUS
      <3>2. y <= Len(PutAll(d, a, 1, v)) /\ Recent(PutAll(d, a, 1, v), a + Len(v), y)
        BY <2>3, PutRun
      <3> QED
        BY <2>9, <3>1, <3>2
    <2>14. \/ Holds(e, k + 1, r)
           \/ Len(e) = case.cache /\ k + 1 < r - case.cache /\ Recent(e, r, case.cache)
      <3>1. CASE Len(v) <= case.cache
        <4>1. Len(v) <= Len(e) /\ Recent(e, r, Len(v))
          BY <2>10, <2>13, <3>1
        <4>2. ASSUME NEW x \in k + 1 .. r - 1 PROVE Cached(e, x)
          <5>a. PICK w \in Nat : w = Len(v)
            BY <2>10
          <5>b. PICK z \in Nat : z = Len(e)
            <6>1. Len(e) \in Nat
              BY <2>12, Zenon
            <6> QED
              BY <6>1, Zenon
          <5>1. w = Len(v) /\ z = Len(e) /\ k + 1 + w = r /\ w <= z
            BY <2>10, <4>1, <5>a, <5>b
          <5>2. PICK i \in 0 .. w - 1 : i = r - 1 - x /\ r - 1 - i = x
            <6>1. r - 1 - x \in 0 .. w - 1 /\ r - 1 - (r - 1 - x) = x
              BY <5>1
            <6> QED
              BY <6>1
          <5>3. e[z - i].key = r - 1 - i
            BY <4>1, <5>1 DEF Recent
          <5>4. z - i \in 1 .. z
            BY <5>1
          <5>5. z - i \in DOMAIN e /\ e[z - i].key = x
            BY <2>12, <5>1, <5>2, <5>3, <5>4
          <5> QED
            BY <5>5 DEF Cached
        <4> QED
          BY <4>2 DEF Holds
      <3>2. CASE Len(v) > case.cache
        <4>a. PICK w \in Nat : w = Len(v)
          BY <2>10
        <4>b. PICK z \in Nat : z = Len(e)
          <5>1. Len(e) \in Nat
            BY <2>12, Zenon
          <5> QED
            BY <5>1, Zenon
        <4>1. w = Len(v) /\ z = Len(e) /\ k + 1 + w = r /\ w > size
          BY <1>a, <2>10, <3>2, <4>a, <4>b
        <4>2. size <= w
          BY <4>1
        <4>3. size <= z /\ Recent(e, k + 1 + Len(v), size)
          BY <1>a, <2>13, <4>1, <4>2
        <4>4. z = size /\ k + 1 < r - size
          BY <1>a, <2>12, <4>1, <4>3
        <4> QED
          BY <1>a, <2>10, <4>1, <4>3, <4>4, Zenon
      <3> QED
        BY <2>10, <3>1, <3>2
    <2>15. Upcoming(u, k + 1)
      BY <2>7, <2>9, <2>10, <2>11, <2>14 DEF Upcoming
    <2> QED
      BY <2>7, <2>15
  <1>10. k >= N \/ k < N
    BY <1>2
  <1> QED
    BY <1>7, <1>8, <1>9, <1>10, Zenon

LEMMA RestartStep ==
    ASSUME NEW t, ObjectOK(t), Right(t), NEW k \in Nat, case.cache \in Nat \ {0},
           case.ahead \in Nat \ {0}, k <= N, N <= case.cache, Filled(t),
           k = 0 \/ Cached(t.cache, k - 1)
    PROVE  \E u : /\ Ahead(t, GetItem(t, k), k + 1) = [s |-> u, res |-> ItemAnswer(k)]
                  /\ Right(u) /\ Filled(u) /\ (k < N => Cached(u.cache, k))
  <1>1. /\ Reached(t) \in Nat /\ Reached(t) <= N /\ t.stop \in Nat /\ Reached(t) <= t.stop
        /\ Reached(t) < N => t.stop = Reached(t)
    BY ReachedIs
  <1>2. CacheOK(t.cache) /\ N \in Nat /\ Exact(t.cache)
    BY FieldsOf DEF Right
  <1>3. PICK c : c = t.cache
    OBVIOUS
  <1>4. PICK m \in {Reached(t), N} : Below(c, m) /\ Holds(c, 0, m)
    BY <1>3 DEF Filled
  <1>5. m \in Nat /\ m <= N
    BY <1>1, <1>2, <1>4
  <1>6. k <= m
    <2>1. CASE k = 0
      BY <1>5, <2>1
    <2>2. CASE k # 0
      <3>1. k - 1 \in Nat /\ Cached(c, k - 1)
        BY <1>3, <2>2
      <3>2. ~(k - 1 >= m)
        BY <1>4, <1>5, <3>1, NotCachedAbove
      <3> QED
        BY <1>5, <3>2
    <2> QED
      BY <2>1, <2>2
  <1>7. CASE Cached(c, k)
    <2>1. PICK u : /\ Ahead(t, GetItem(t, k), k + 1) = [s |-> u, res |-> ItemAnswer(k)]
                   /\ Right(u) /\ Reached(u) = Reached(t) /\ u.stop = t.stop /\ k < N
                   /\ \A b : Below(t.cache, b) => Below(u.cache, b)
                   /\ \A x : Cached(t.cache, x) => Cached(u.cache, x)
      BY <1>3, <1>7, TouchRight
    <2>2. Below(u.cache, m) /\ Holds(u.cache, 0, m)
      BY <1>3, <1>4, <2>1 DEF Holds
    <2>3. Filled(u)
      BY <1>4, <2>1, <2>2 DEF Filled
    <2> QED
      BY <1>3, <1>7, <2>1, <2>3
  <1>8. CASE ~Cached(c, k) /\ k >= N
    <2>1. PICK u : /\ Ahead(t, GetItem(t, k), k + 1) = [s |-> u, res |-> ItemAnswer(k)]
                   /\ Right(u) /\ u.cache = t.cache
      BY <1>3, <1>8, PastEnd
    <2>2. m = N
      BY <1>2, <1>5, <1>6, <1>8
    <2>3. Filled(u)
      BY <1>3, <1>4, <2>1, <2>2 DEF Filled
    <2> QED
      BY <1>2, <1>8, <2>1, <2>3
  <1>9. CASE ~Cached(c, k) /\ k < N
    <2>1. k = m
      <3>1. ~(k \in 0 .. m - 1)
        BY <1>4, <1>9 DEF Holds
      <3> QED
        BY <1>5, <1>6, <3>1
    <2>2. t.stop = k
      BY <1>1, <1>4, <1>9, <2>1
    <2>3. PICK one \in Pair : one = One(k) /\ one.key = k
      BY <1>2, <1>9, ExactPut
    <2>4. PICK d : d = Put(c, one)
      OBVIOUS
    <2>5. Below(c, N) /\ CacheOK(c)
      BY <1>2, <1>3 DEF Exact
    <2>6. /\ CacheOK(d) /\ Below(d, N) /\ Cached(d, k)
          /\ \A x : Cached(c, x) => Cached(d, x)
      <3>1. /\ CacheOK(Put(c, one)) /\ Below(Put(c, one), N) /\ Cached(Put(c, one), one.key)
            /\ \A x : Cached(c, x) => Cached(Put(c, one), x)
        BY <1>2, <1>9, <2>3, <2>5, PutFits
      <3> QED
        BY <2>3, <2>4, <3>1, Zenon
    <2>7. ~Cached(d, k + 1)
      <3>1. Below(c, k + 1) /\ k + 1 \in Nat
        BY <1>4, <2>1, <2>5, BelowMore
      <3>2. Below(d, k + 1)
        BY <1>2, <1>3, <1>9, <2>3, <2>4, <3>1, ExactPut
      <3> QED
        BY <3>1, <3>2, NotCachedAbove
    <2>8. ~Cached(Put(t.cache, One(k)), k + 1) /\ ~Cached(t.cache, k)
      BY <1>3, <1>9, <2>3, <2>4, <2>7, Zenon
    <2>9. PICK u, es : /\ Ahead(t, GetItem(t, k), k + 1) = [s |-> u, res |-> ItemAnswer(k)]
                       /\ Right(u) /\ u.stop = k + 1 + case.ahead
                       /\ es \in Seq(Nat) /\ k + 1 + Len(es) = Reached(u)
                       /\ k + 1 <= Reached(u)
                       /\ u.cache = PutAll(Put(t.cache, One(k)), k + 1, 1, es)
                       /\ CacheOK(u.cache)
                       /\ \A b \in Nat : Reached(u) <= b /\ Below(t.cache, b)
                                         => Below(u.cache, b)
      <3>1. t.stop # k + 1
        BY <2>2
      <3> QED
        BY <1>9, <2>8, <3>1, TakeAhead
    <2>10. PICK v \in Seq(Nat) : v = es
      BY <2>9
    <2>11. PICK e : e = PutAll(d, k + 1, 1, v) /\ e = u.cache
      BY <1>3, <2>3, <2>4, <2>9, <2>10
    <2>12. PICK r \in Nat : /\ r = Reached(u) /\ k + 1 + Len(v) = r /\ Len(v) \in Nat
                            /\ r <= N
      BY <1>2, <2>9, <2>10 DEF Reached
    <2>13. Below(e, r)
      <3>1. Below(c, r)
        BY <1>4, <2>1, <2>5, <2>12, BelowMore
      <3> QED
        BY <1>3, <2>9, <2>11, <2>12, <3>1
    <2>14. (\A x : Cached(d, x) => Cached(e, x)) /\ Holds(e, k + 1, r)
      <3>1. PICK a \in Nat : a = k + 1 /\ a + Len(v) <= N
        BY <2>12
      <3>2. /\ \A x : Cached(d, x) => Cached(PutAll(d, a, 1, v), x)
            /\ Holds(PutAll(d, a, 1, v), a, a + Len(v))
        BY <1>2, <2>6, <3>1, PutAllFits
      <3> QED
        BY <2>11, <2>12, <3>1, <3>2
    <2>15. Holds(e, 0, r)
      <3>1. ASSUME NEW x \in 0 .. r - 1 PROVE Cached(e, x)
        <4>1. x \in 0 .. m - 1 \/ x = k \/ x \in k + 1 .. r - 1
          BY <2>1
        <4>2. x \in 0 .. m - 1 => Cached(c, x)
          BY <1>4 DEF Holds
        <4>3. x \in k + 1 .. r - 1 => Cached(e, x)
          BY <2>14 DEF Holds
        <4> QED
          BY <2>6, <2>14, <4>1, <4>2, <4>3
      <3> QED
        BY <3>1 DEF Holds
    <2>16. Filled(u)
      BY <2>11, <2>12, <2>13, <2>15 DEF Filled
    <2> QED
      BY <2>6, <2>9, <2>11, <2>14, <2>16
  <1>10. k >= N \/ k < N
    BY <1>2
  <1> QED
    BY <1>7, <1>8, <1>9, <1>10, Zenon

-----------------------------------------------------------------------------
(* Every step *)

LEMMA TypesOf ==
    ASSUME ListTypeOK
    PROVE  /\ ObjectOK(self) /\ case.cache \in Nat \ {0} /\ case.ahead \in Nat
           /\ asked.start \in Nat /\ asked.end \in Nat \cup {None} /\ asked.step \in Nat
  <1>1. case \in Cases /\ self \in State /\ Len(self.cache) <= case.cache
        /\ KeysOnce(self.cache)
    BY DEF ListTypeOK
  <1>2. asked.start \in Nat /\ asked.end \in Nat \cup {None} /\ asked.step \in Nat
    BY DEF ListTypeOK
  <1>3. self.cache \in Seq(Pair)
    BY <1>1 DEF State
  <1>4. ObjectOK(self)
    BY <1>1, <1>3 DEF ObjectOK, CacheOK
  <1> QED
    BY <1>1, <1>2, <1>4, CaseIs

\* What a step of the object makes of the types.
LEMMA TypeStep ==
    ASSUME ListTypeOK, NEW r, StepOK(r), NEW a \in Nat, NEW b \in Nat \cup {None},
           NEW s \in Nat, Ask([start |-> a, end |-> b, step |-> s], r)
    PROVE  ListTypeOK'
  <1>1. /\ asked' = [start |-> a, end |-> b, step |-> s] /\ self' = r.s /\ given' = r.res
        /\ case' = case
    BY DEF Ask
  <1>2. case \in Cases
    BY DEF ListTypeOK
  <1>3. self' \in State /\ Len(self'.cache) <= case.cache /\ KeysOnce(self'.cache)
    BY <1>1, Zenon DEF StepOK, ObjectOK, CacheOK
  <1>4. asked' \in [start : Nat, end : Nat \cup {None}, step : Nat]
    BY <1>1
  <1>5. given' \in [kind : {"elements", "StopIteration", "error"}, elements : Seq(Nat)]
    BY <1>1, Zenon DEF StepOK, Results
  <1> QED
    BY <1>1, <1>2, <1>3, <1>4, <1>5, Zenon DEF ListTypeOK

LEMMA EmptyIs ==
    /\ <<>> \in Seq(Pair) /\ Len(<<>>) = 0
    /\ \A j : ~(j \in DOMAIN <<>>)
  OBVIOUS

LEMMA ListInitInv ==
    ASSUME ListInit
    PROVE  ListInv
  <1>1. /\ case \in Cases /\ asked = [start |-> 0, end |-> 0, step |-> 1]
        /\ given = Elements(<<>>) /\ N \in Nat
    BY SizesType DEF ListInit
  <1>2. PICK c : c = <<>>
    OBVIOUS
  <1>3. self.pos = 0 /\ self.stop = 0 /\ self.cache = c
    BY <1>2 DEF ListInit
  <1>4. c \in Seq(Pair) /\ Len(c) = 0 /\ \A j : ~(j \in DOMAIN c)
    BY <1>2, EmptyIs
  <1>5. case.cache \in Nat \ {0} /\ case.ahead \in Nat
    BY <1>1, CaseIs
  <1>6. CacheOK(c)
    BY <1>4, <1>5 DEF CacheOK, KeysOnce
  <1>7. (\A b : Below(c, b)) /\ Exact(c)
    BY <1>4, Zenon DEF Below, Exact
  <1>8. ListTypeOK
    <2>1. self \in State
      <3>1. self = [pos |-> 0, stop |-> 0, cache |-> c]
        BY <1>2 DEF ListInit
      <3>2. 0 \in 0 .. N /\ 0 \in Nat \cup {None}
        BY <1>1
      <3> QED
        BY <1>4, <3>1, <3>2 DEF State
    <2>2. asked \in [start : Nat, end : Nat \cup {None}, step : Nat]
      BY <1>1
    <2>3. given \in [kind : {"elements", "StopIteration", "error"}, elements : Seq(Nat)]
      <3>1. <<>> \in Seq(Nat)
        OBVIOUS
      <3> QED
        BY <1>1, <3>1 DEF Elements
    <2> QED
      BY <1>1, <1>3, <1>6, <2>1, <2>2, <2>3, Zenon DEF ListTypeOK, CacheOK
  <1>9. Right(self)
    BY <1>3, <1>7, NoneIsNoNumber DEF Right
  <1>10. ListLike
    <2>1. PICK es : es = Stepping(0, 0, 1)
      OBVIOUS
    <2>2. IsRun(es, 0, 0)
      BY <2>1, SteppingByOne
    <2>3. EndOf(0) = 0
      BY <1>1, NoneIsNoNumber DEF EndOf
    <2>4. es \in Seq(Nat) /\ 0 + Len(es) = 0
      BY <2>2, <2>3 DEF IsRun
    <2>5. es = <<>>
      BY <2>4, EmptySeq
    <2>6. ListAnswer(asked) = Elements(es)
      BY <1>1, <2>1 DEF ListAnswer
    <2> QED
      BY <1>1, <2>5, <2>6 DEF ListLike
  <1>11. Reached(self) = 0
    BY <1>1, <1>3 DEF Reached
  <1>12. Holds(c, 0, 0)
    BY DEF Holds
  <1>13. PageInv
    BY <1>1, <1>3, <1>7 DEF PageInv
  <1>14. LoopInv
    <2>1. Upcoming(self, 0)
      BY <1>3, <1>5, <1>7, <1>11, <1>12 DEF Upcoming
    <2> QED
      BY <1>1, <2>1 DEF LoopInv
  <1>15. RestartInv
    BY <1>1, <1>3, <1>7, <1>11, <1>12 DEF RestartInv, Filled
  <1> QED
    BY <1>8, <1>9, <1>10, <1>13, <1>14, <1>15 DEF ListInv

LEMMA OrderlyIs ==
    ASSUME Orderly
    PROVE  \/ case.ahead = 0 /\ case.uses \in {{"item"}, {"page", "iterate"}}
           \/ case.ahead # 0 /\ case.uses = {"loop"}
           \/ case.ahead # 0 /\ case.uses = {"iterate"} /\ case.cache >= N
  BY DEF Orderly

LEMMA ItemStep ==
    ASSUME ListInv, NEW k \in 0 .. N, Item(k)
    PROVE  ListInv'
  <1>1. ListTypeOK
    BY DEF ListInv
  <1>2. /\ ObjectOK(self) /\ case.cache \in Nat \ {0} /\ case.ahead \in Nat
        /\ asked.start \in Nat /\ asked.step \in Nat /\ k \in Nat /\ k <= N /\ N \in Nat
    BY <1>1, TypesOf, SizesType
  <1>3. PICK r : r = Ahead(self, GetItem(self, k), k + 1)
    OBVIOUS
  <1>4. Ask([start |-> k, end |-> k + 1, step |-> 0], r)
    BY <1>3, Zenon DEF Item
  <1>5. /\ asked' = [start |-> k, end |-> k + 1, step |-> 0] /\ self' = r.s /\ given' = r.res
        /\ case' = case
    BY <1>4, Zenon DEF Ask
  <1>6. asked'.start = k /\ asked'.step = 0
    BY <1>5
  <1>7. ListTypeOK'
    <2>1. StepOK(GetItem(self, k)) /\ k + 1 \in Nat /\ 0 \in Nat
      BY <1>2, GetItemType
    <2>2. StepOK(r)
      BY <1>2, <1>3, <2>1, AheadType
    <2> QED
      BY <1>1, <1>2, <1>4, <2>1, <2>2, TypeStep
  <1>8. Orderly' = Orderly
    BY <1>5 DEF Orderly
  <1>9. ASSUME NEW u, r = [s |-> u, res |-> ItemAnswer(k)], Right(u)
        PROVE  /\ self' = u /\ Right(self)' /\ ListLike' /\ PageInv'
               /\ given'.kind = "elements" => k < N
    <2>1. self' = u /\ given' = ItemAnswer(k)
      BY <1>5, <1>9
    <2>2. Right(self)'
      BY <1>9, <2>1 DEF Right
    <2>3. ListLike'
      BY <1>6, <2>1 DEF ListLike, ListAnswer, ItemAnswer
    <2>4. PageInv'
      BY <1>6 DEF PageInv
    <2>5. given'.kind = "elements" => k < N
      BY <2>1 DEF ItemAnswer, Raised
    <2> QED
      BY <2>1, <2>2, <2>3, <2>4, <2>5
  <1>10. CASE ~Orderly
    BY <1>7, <1>8, <1>10 DEF ListInv
  <1>11. CASE Orderly
    <2>1. Right(self)
      BY <1>11 DEF ListInv
    <2>2. CASE case.ahead = 0 /\ case.uses \in {{"item"}, {"page", "iterate"}}
      <3>1. r = GetItem(self, k)
        BY <1>3, <2>2, Zenon DEF Ahead
      <3>2. \E u : GetItem(self, k) = [s |-> u, res |-> ItemAnswer(k)] /\ Right(u)
        <4>1. CASE Cached(self.cache, k)
          BY <1>2, <2>1, <4>1, TouchRight
        <4>2. CASE ~Cached(self.cache, k) /\ k >= N
          BY <1>2, <2>1, <4>2, PastEnd
        <4>3. CASE ~Cached(self.cache, k) /\ k < N
          BY <1>2, <2>1, <4>3, TakeRight
        <4>4. k >= N \/ k < N
          BY <1>2
        <4> QED
          BY <4>1, <4>2, <4>3, <4>4, Zenon
      <3>3. Right(self)' /\ ListLike' /\ PageInv'
        BY <1>9, <3>1, <3>2
      <3>4. "loop" \notin case' .uses /\ case' .uses # {"iterate"}
        BY <1>5, <2>2
      <3> QED
        BY <1>7, <3>3, <3>4 DEF ListInv
    <2>3. CASE case.ahead # 0 /\ case.uses = {"loop"}
      <3>1. LoopInv
        BY <1>11, <2>3 DEF ListInv
      <3>2. Upcoming(self, k)
        <4>1. \/ k = asked.start + 1 /\ asked.step = 0 /\ given.kind = "elements"
              \/ k = 0 /\ asked.step = 1
          BY <2>3 DEF Item, NextOfLoop
        <4> QED
          BY <3>1, <4>1 DEF LoopInv
      <3>3. PICK u : /\ Ahead(self, GetItem(self, k), k + 1) = [s |-> u, res |-> ItemAnswer(k)]
                     /\ Right(u) /\ (k < N => Upcoming(u, k + 1))
        BY <1>2, <2>1, <2>3, <3>2, LoopStep
      <3>4. /\ self' = u /\ Right(self)' /\ ListLike' /\ PageInv'
            /\ given'.kind = "elements" => k < N
        BY <1>3, <1>9, <3>3
      <3>5. given'.kind = "elements" => Upcoming(self, asked.start + 1)'
        <4>1. Upcoming(self, asked.start + 1)' <=> Upcoming(u, k + 1)
          BY <1>5, <1>6, <3>4 DEF Upcoming
        <4> QED
          BY <3>3, <3>4, <4>1
      <3>6. LoopInv'
        BY <1>6, <3>5 DEF LoopInv
      <3>7. "page" \notin case' .uses /\ case' .uses # {"iterate"}
        BY <1>5, <2>3
      <3> QED
        BY <1>7, <3>4, <3>6, <3>7 DEF ListInv
    <2>4. CASE case.ahead # 0 /\ case.uses = {"iterate"} /\ case.cache >= N
      <3>1. RestartInv
        BY <1>11, <2>4 DEF ListInv
      <3>2. k = 0 \/ Cached(self.cache, k - 1)
        <4>1. \/ k = asked.start + 1 /\ asked.step = 0 /\ given.kind = "elements"
              \/ k = 0
          BY <2>4 DEF Item, NextOfLoop
        <4>2. k = asked.start + 1 => k - 1 = asked.start
          BY <1>2
        <4> QED
          BY <3>1, <4>1, <4>2 DEF RestartInv
      <3>3. N <= case.cache /\ Filled(self)
        BY <1>2, <2>4, <3>1 DEF RestartInv
      <3>4. PICK u : /\ Ahead(self, GetItem(self, k), k + 1) = [s |-> u, res |-> ItemAnswer(k)]
                     /\ Right(u) /\ Filled(u) /\ (k < N => Cached(u.cache, k))
        BY <1>2, <2>1, <2>4, <3>2, <3>3, RestartStep
      <3>5. /\ self' = u /\ Right(self)' /\ ListLike' /\ PageInv'
            /\ given'.kind = "elements" => k < N
        BY <1>3, <1>9, <3>4
      <3>6. RestartInv'
        <4>1. Filled(self)'
          BY <3>4, <3>5 DEF Filled, Reached
        <4>2. given'.kind = "elements" => Cached(self'.cache, asked'.start)
          BY <1>6, <3>4, <3>5
        <4> QED
          BY <4>1, <4>2 DEF RestartInv
      <3>7. "page" \notin case' .uses /\ "loop" \notin case' .uses
        BY <1>5, <2>4
      <3> QED
        BY <1>7, <3>5, <3>6, <3>7 DEF ListInv
    <2> QED
      BY <1>11, <2>2, <2>3, <2>4, OrderlyIs
  <1> QED
    BY <1>10, <1>11

LEMMA SliceStep ==
    ASSUME ListInv, NEW start \in 0 .. N + 1, NEW end \in 0 .. N + 1, NEW step \in Steps,
           Slice(start, end, step)
    PROVE  ListInv'
  <1>1. ListTypeOK
    BY DEF ListInv
  <1>2. /\ ObjectOK(self) /\ case.cache \in Nat \ {0} /\ case.ahead \in Nat
        /\ start \in Nat /\ end \in Nat /\ step \in Nat \ {0} /\ N \in Nat
    <2>1. N \in Nat /\ Steps \subseteq Nat \ {0}
      BY SizesType, StepsType
    <2> QED
      BY <1>1, <2>1, TypesOf
  <1>3. PICK next \in Nat \cup {None} : next = IF end = 0 THEN None ELSE end + 1
    <2>1. CASE end = 0
      BY <2>1
    <2>2. CASE end # 0
      BY <1>2, <2>2
    <2> QED
      BY <2>1, <2>2
  <1>4. PICK r : r = Ahead(self, GetSlice(self, start, end, step), next)
    OBVIOUS
  <1>5. Ask([start |-> start, end |-> end, step |-> step], r)
    BY <1>3, <1>4, Zenon DEF Slice
  <1>6. /\ asked' = [start |-> start, end |-> end, step |-> step]
        /\ self' = r.s /\ given' = r.res /\ case' = case
    BY <1>5, Zenon DEF Ask
  <1>7. asked'.start = start /\ asked'.end = end /\ asked'.step = step
    BY <1>6
  <1>8. ListTypeOK'
    <2>1. end \in Nat \cup {None} /\ step \in Nat
      BY <1>2
    <2>2. StepOK(GetSlice(self, start, end, step))
      BY <1>2, <2>1, GetSliceType
    <2>3. StepOK(r)
      BY <1>2, <1>4, <2>2, AheadType
    <2> QED
      BY <1>1, <1>2, <1>5, <2>1, <2>3, TypeStep
  <1>9. Orderly' = Orderly
    BY <1>6 DEF Orderly
  <1>10. CASE ~Orderly
    BY <1>8, <1>9, <1>10 DEF ListInv
  <1>11. CASE Orderly
    <2>1. Right(self)
      BY <1>11 DEF ListInv
    <2>2. case.ahead = 0 /\ case.uses = {"page", "iterate"}
      <3>1. "slice" \in case.uses \/ "page" \in case.uses
        BY DEF Slice
      <3> QED
        BY <1>11, <3>1, OrderlyIs
    <2>3. start < end /\ step = 1 /\ asked.step = 1 /\ start = asked.end
      BY <2>2 DEF Slice
    <2>4. self.stop = start /\ Below(self.cache, start)
      BY <1>11, <2>2, <2>3 DEF ListInv, PageInv
    <2>5. ~Cached(self.cache, start)
      BY <1>2, <2>4, NotCachedAbove
    <2>6. PICK es : es = Stepping(start, end, 1)
      OBVIOUS
    <2>7. PICK u : u = [pos |-> EndOf(end), stop |-> end,
                        cache |-> PutAll(self.cache, start, 1, es)]
      OBVIOUS
    <2>8. IsRun(es, start, end) /\ r = [s |-> u, res |-> Elements(es)]
      <3>1. r = GetSlice(self, start, end, 1)
        BY <1>4, <2>2, <2>3, Zenon DEF Ahead
      <3>2. end > start
        BY <2>3
      <3> QED
        BY <1>2, <2>1, <2>4, <2>5, <2>6, <2>7, <3>1, <3>2, SliceRight
    <2>9. u.pos = EndOf(end) /\ u.stop = end /\ u.cache = PutAll(self.cache, start, 1, es)
      BY <2>7
    <2>10. CacheOK(self.cache) /\ Exact(self.cache)
      BY <1>2, <2>1, FieldsOf DEF Right
    <2>11. /\ Exact(u.cache)
           /\ \A b \in Nat : start + Len(es) <= b /\ Below(self.cache, b) => Below(u.cache, b)
      BY <1>2, <2>8, <2>9, <2>10, ExactPutAll
    <2>12. EndOf(end) = IF end > N THEN N ELSE end
      BY <1>2, NoneIsNoNumber DEF EndOf
    <2>13. start + Len(es) <= end
      <3>1. start + Len(es) = IF EndOf(end) > start THEN EndOf(end) ELSE start
        BY <2>8, Zenon DEF IsRun
      <3> QED
        BY <1>2, <2>3, <2>12, <3>1
    <2>14. Below(u.cache, end)
      <3>1. Below(self.cache, end)
        BY <1>2, <2>3, <2>4, <2>10, BelowMore
      <3> QED
        BY <1>2, <2>11, <2>13, <3>1
    <2>15. self' = u /\ given' = Elements(es)
      BY <1>6, <2>8
    <2>16. Right(self)'
      BY <1>2, <2>9, <2>11, <2>12, <2>15, NoneIsNoNumber DEF Right
    <2>17. ListLike'
      <3>1. ListAnswer(asked') = Elements(es)
        BY <1>7, <2>3, <2>6 DEF ListAnswer
      <3> QED
        BY <2>15, <3>1 DEF ListLike
    <2>18. PageInv'
      BY <1>7, <2>9, <2>14, <2>15 DEF PageInv
    <2>19. "loop" \notin case' .uses /\ case' .uses # {"iterate"}
      BY <1>6, <2>2
    <2> QED
      BY <1>8, <2>16, <2>17, <2>18, <2>19 DEF ListInv
  <1> QED
    BY <1>10, <1>11

LEMMA OpenSliceStep ==
    ASSUME ListInv, NEW start \in 0 .. N, NEW step \in Steps, OpenSlice(start, step)
    PROVE  ListInv'
  <1>1. ListTypeOK
    BY DEF ListInv
  <1>2. /\ ObjectOK(self) /\ case.cache \in Nat \ {0} /\ case.ahead \in Nat
        /\ start \in Nat /\ step \in Nat \ {0} /\ step \in Nat /\ None \in Nat \cup {None}
    <2>1. N \in Nat /\ Steps \subseteq Nat \ {0}
      BY SizesType, StepsType
    <2> QED
      BY <1>1, <2>1, TypesOf
  <1>3. PICK r : r = Ahead(self, GetSlice(self, start, None, step), None)
    OBVIOUS
  <1>4. Ask([start |-> start, end |-> None, step |-> step], r)
    BY <1>3, Zenon DEF OpenSlice
  <1>5. ListTypeOK'
    <2>1. StepOK(GetSlice(self, start, None, step))
      BY <1>2, GetSliceType
    <2>2. StepOK(r)
      BY <1>2, <1>3, <2>1, AheadType
    <2> QED
      BY <1>1, <1>2, <1>4, <2>2, TypeStep
  <1>6. ~Orderly
    BY OrderlyIs DEF OpenSlice
  <1>7. ~Orderly'
    BY <1>4, <1>6 DEF Orderly, Ask
  <1> QED
    BY <1>5, <1>7 DEF ListInv

LEMMA ListStep ==
    ASSUME ListInv, [ListNext]_listVars
    PROVE  ListInv'
  <1>1. CASE ListNext
    <2>1. CASE \E k \in 0 .. N : Item(k)
      BY <2>1, ItemStep
    <2>2. CASE \E start, end \in 0 .. N + 1, step \in Steps : Slice(start, end, step)
      BY <2>2, SliceStep
    <2>3. CASE \E start \in 0 .. N, step \in Steps : OpenSlice(start, step)
      BY <2>3, OpenSliceStep
    <2> QED
      BY <1>1, <2>1, <2>2, <2>3 DEF ListNext
  <1>2. CASE UNCHANGED listVars
    <2>1. case' = case /\ self' = self /\ asked' = asked /\ given' = given
      BY <1>2 DEF listVars
    <2> QED
      BY <2>1 DEF ListInv, ListTypeOK, Orderly, Right, ListLike, PageInv, LoopInv, Upcoming,
                  RestartInv, Filled, Reached
  <1> QED
    BY <1>1, <1>2

LEMMA ListInvariant == ListSpec => []ListInv
  <1>1. ListInit => ListInv
    BY ListInitInv
  <1>2. ListInv /\ [ListNext]_listVars => ListInv'
    BY ListStep
  <1> QED
    BY <1>1, <1>2, PTL DEF ListSpec

\* Whatever the sizes of the cache and of the list, and however far is read ahead: as
\* long as the list is used in order, every answer is the list's
\* (Sliceable.__getitem__, ListPrefetch.__getitem__).
THEOREM InOrderListLike == ListSpec => []ListLikeInOrder
  <1>1. ListInv => ListLikeInOrder
    BY DEF ListInv, ListLikeInOrder
  <1> QED
    BY <1>1, ListInvariant, PTL

\* And the cache is bounded and holds the elements under their numbers, and stop is
\* where the iterator is, or both are past the end.
THEOREM InOrderState == ListSpec => []StateRight
  <1>1. ListInv => StateRight
    BY DEF ListInv, StateRight, Right, Exact
  <1> QED
    BY <1>1, ListInvariant, PTL
=============================================================================
