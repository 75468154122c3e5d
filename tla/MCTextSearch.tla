---------------------------- MODULE MCTextSearch ----------------------------
(* Small instances of TextSearch for TLC. *)
EXTENDS TextSearch

Bucket(o, ks) == [oid |-> o, seps |-> <<>>, kids |-> <<>>, keys |-> ks]
Inner(o, ss, cs) == [oid |-> o, seps |-> ss, kids |-> cs, keys |-> {}]

\* A tree whose buckets hold the keys of the sets in bs, one per separator and
\* one more; separators need not be keys.
Flat(o, ss, bs) == Inner(o, ss, [j \in DOMAIN bs |-> Bucket(10 * o + j, bs[j])])

Small == Bucket(1, {1, 2})
Wide == Flat(1, <<2, 4, 6, 8>>, <<{1}, {2, 3}, {4}, {7}, {8, 9}>>)
Deep == Inner(1, <<4, 7>>, <<Flat(2, <<2>>, <<{1}, {2, 3}>>), Flat(3, <<6>>, <<{4}, {6}>>),
                             Flat(4, <<8, 9>>, <<{7}, {8}, {9}>>)>>)

\* A word's documents are in a dictionary, a small tree or a larger one.
DocsOfWords ==
    [w \in 0 .. 10 |-> IF w % 3 = 0 THEN Bucket(NoOid, {1, 5, 8})
                      ELSE IF w % 3 = 1 THEN Small ELSE Wide]

NoScores == [i \in Lists |-> [d \in DocIds |-> 0]]

\* Every query of words, known and unknown, and every shape of the trees, without
\* scores ...
TreeCases ==
    [kind : {"weight"}, words : SUBSET (1 .. 10), wordinfo : {Wide, Deep},
     score : {NoScores}, docs : {DocsOfWords}, docweight : {Deep}]
    \cup
    [kind : {"okapi"}, words : SUBSET {1, 2, 3, 4, 5, 6, 8}, wordinfo : {Wide, Deep},
     score : {NoScores}, docs : {DocsOfWords}, docweight : {Wide, Deep}]

\* Scores of the first six documents; the others have none.
SixDocs == 1 .. 6
OnlySix(sc) == [d \in DocIds |-> IF d \in SixDocs THEN sc[d] ELSE 0]

\* ... all scores of two words in the simplest tree, the documents being numbered
\* in the order of the first word's scores ...
UnionCases ==
    {[kind |-> "lucene", words |-> {1, 2}, wordinfo |-> Small, docs |-> <<>>,
      score |-> [i \in Lists |-> OnlySix(sc[i])], docweight |-> Small] :
        sc \in {s \in [Lists -> [SixDocs -> 0 .. 2]] :
                  \A d \in 1 .. 5 : s[1][d] >= s[1][d + 1]}}

\* ... and lists of which the second has, between its first documents and its last,
\* seven that the first gives back before.
LongCase ==
    [kind |-> "lucene", words |-> {1, 2}, wordinfo |-> Small, docs |-> <<>>,
     score |-> [i \in Lists |-> [d \in DocIds |->
                  IF i = 1 THEN IF d <= 7 THEN 10 * (8 - d) ELSE 0
                  ELSE IF d <= 7 THEN 2 ELSE IF d <= 11 THEN 3 ELSE 1]],
     docweight |-> Small]

\* Queries of which one word or none is known.
TrivialCases ==
    {[kind |-> "lucene", words |-> ws, wordinfo |-> Small, docs |-> <<>>,
      score |-> [NoScores EXCEPT ![1] = OnlySix(sc)], docweight |-> Small] :
        ws \in {{}, {0}, {1}, {1, 3}}, sc \in [SixDocs -> 0 .. 1]}

AllCases == TreeCases \cup UnionCases \cup TrivialCases \cup {LongCase}
=============================================================================
