----------------------- MODULE MCTransformingStorage -----------------------
(* Small instances of TransformingStorage for TLC: DB.encrypter names both    *)
(* ciphers, the new one first (the code's default) or last, or the old one.   *)
EXTENDS TransformingStorage

CONSTANTS gcm, v0, d1, d2

NewOldBoth == {<<gcm, v0>>, <<v0>>, <<v0, gcm>>}
OwnKeys == [d \in Dbs |-> d]
OneZipped == [d \in Dbs |-> d = d1]
=============================================================================
