--------------------------- MODULE MCOwnerStorage ---------------------------
(* Small instances of OwnerStorage for TLC: oids are 0, 2 (the root user), 3  *)
(* (a user) and one that is a root folder of nobody.                          *)
EXTENDS OwnerStorage, TLC

CONSTANTS s1, s2, s3

\* Two sessions of the user and one of the root user.
TwoAndRoot == [z \in Sessions |-> IF z = s3 THEN 2 ELSE 3]

\* The two sessions of the user are interchangeable.
SameUser == Permutations({s1, s2})
=============================================================================
