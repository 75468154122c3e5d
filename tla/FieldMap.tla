------------------------------ MODULE FieldMap ------------------------------
(***************************************************************************)
(* What a field index promises: it remembers at most one value for each    *)
(* document, and which documents it was told have none.                    *)
(***************************************************************************)
CONSTANTS Docs, Vals, NoValue

VARIABLES valueOf, missing

Init == valueOf = [d \in Docs |-> NoValue] /\ missing = {}

IndexDoc(d, v) ==
    /\ valueOf' = [valueOf EXCEPT ![d] = v]
    /\ missing' = missing \ {d}

IndexDocMissing(d) ==
    /\ valueOf' = [valueOf EXCEPT ![d] = NoValue]
    /\ missing' = missing \cup {d}

UnindexDoc(d) ==
    /\ valueOf' = [valueOf EXCEPT ![d] = NoValue]
    /\ missing' = missing \ {d}

Next ==
    \E d \in Docs :
        \/ IndexDocMissing(d) \/ UnindexDoc(d)
        \/ \E v \in Vals : IndexDoc(d, v)

Spec == Init /\ [][Next]_<<valueOf, missing>>
=============================================================================
