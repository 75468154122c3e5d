--------------------------- MODULE MCTextIndexes ---------------------------
(* Small instances of the two text indexes for TLC. *)
EXTENDS TextIndexes
=============================================================================
