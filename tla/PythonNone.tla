----------------------------- MODULE PythonNone -----------------------------
(* Python's None, as a bound, a limit, an end of a slice or a value of stop.  *)
EXTENDS Integers

CONSTANT None

ASSUME NoneIsNoNumber == None \notin Int
=============================================================================
