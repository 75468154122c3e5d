----------------------------- MODULE MCConnPool -----------------------------
(* Small instances of ConnPool for TLC. *)
EXTENDS ConnPool

\* A careful application, one that may fork or die at any time, and one that
\* takes every liberty.
AllRegimes == {{}, {"dies_in_txn", "fork"}, Liberties}

\* Threads may disconnect, none dies in a transaction or forks.
Disconnecting == {{"disconnect"}}
=============================================================================
