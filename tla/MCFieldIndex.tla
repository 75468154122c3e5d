---------------------------- MODULE MCFieldIndex ----------------------------
(* Small instances of FieldIndex and of the searches in it for TLC. *)
EXTENDS QueryJson

\* One word, in the text of two of the documents
SomeTexts == [word |-> ToSet(SubSeq(SomeOrder[Docs], 1, 2))]

\* Clauses that are sets, Sliceables, negations, refused, or empty
SomeClauses ==
    {Clause("eq", <<2>>), Clause("lte", <<2>>), Clause("range", <<1, 2>>),
     Clause("text", <<"word">>), Clause("ntext", <<"word">>),
     Clause("in", <<{1, 3}>>), Clause("nin", <<{2}>>)}
=============================================================================
