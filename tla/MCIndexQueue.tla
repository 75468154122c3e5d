---------------------------- MODULE MCIndexQueue ----------------------------
(* Small instances of IndexQueue for TLC. *)
EXTENDS IndexQueue

\* All fields, as a list and by None
AllAttrs == {Attrs, AllFields}

\* Threads are interchangeable.
ThreadSymmetry == Permutations(Threads)
=============================================================================
