----------------------------- MODULE MCIdStore -----------------------------
(* Small instances of IdStore for TLC. *)
EXTENDS IdStore
=============================================================================
