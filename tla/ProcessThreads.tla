--------------------------- MODULE ProcessThreads ---------------------------
(* The threads of one client process: each has a connection and an indexing  *)
(* queue of its own, and all share the pool and the set "processing".        *)

CONSTANT Threads
=============================================================================
