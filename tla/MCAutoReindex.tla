--------------------------- MODULE MCAutoReindex ---------------------------
(* Small instances of AutoReindex for TLC. *)
EXTENDS AutoReindexInv

\* Every index is named after the attribute it is computed from.
PlainFields == [i \in Indexes |-> i]

\* The indexes that are no attributes are virtual fields computed from one.
VirtualField ==
    [i \in Indexes |-> IF i \in Attrs THEN i ELSE CHOOSE a \in Attrs : TRUE]
=============================================================================
