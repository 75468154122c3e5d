---------------------------- MODULE IndexedStore ----------------------------
(***************************************************************************)
(* What a client of zerodb is promised: a table from uids to records with  *)
(* transactions and savepoints, in which a query answers from the records  *)
(* the last commit wrote, and no index, queue or hook is to be seen.       *)
(***************************************************************************)
CONSTANTS Uids, Records, Absent, NoMark

VARIABLES
    committed,   \* what queries by any client answer from
    working,     \* what this client's transaction has made of it
    mark,        \* the working table at the savepoint
    status       \* "none", "active" or, after a commit that failed, "failed"

vars == <<committed, working, mark, status>>

Init ==
    /\ committed = [u \in Uids |-> Absent]
    /\ working = committed
    /\ mark = NoMark
    /\ status = "none"

Begin ==
    /\ status = "none" /\ status' = "active"
    /\ UNCHANGED <<committed, working, mark>>

\* Add, modify or remove one record.
Change(u) ==
    /\ status = "active"
    /\ \E r \in Records \cup {Absent} : working' = [working EXCEPT ![u] = r]
    /\ UNCHANGED <<committed, mark, status>>

Commit ==
    /\ status = "active" /\ status' = "none"
    /\ committed' = working
    /\ mark' = NoMark
    /\ UNCHANGED working

\* The work is gone, by an abort or by a commit that did not go through.
Discard ==
    /\ \/ status = "active" /\ status' \in {"none", "failed"}
       \/ status = "failed" /\ status' = "none"
    /\ working' = committed
    /\ mark' = NoMark
    /\ UNCHANGED committed

Savepoint ==
    /\ status = "active"
    /\ mark' = working
    /\ UNCHANGED <<committed, working, status>>

Rollback ==
    /\ status = "active" /\ mark # NoMark
    /\ working' = mark
    /\ UNCHANGED <<committed, mark, status>>

\* A commit that never started: the savepoint is gone, the work is not.
DropMark == mark' = NoMark /\ UNCHANGED <<committed, working, status>>

Next ==
    \/ Begin \/ Commit \/ Discard \/ Savepoint \/ Rollback \/ DropMark
    \/ \E u \in Uids : Change(u)

Spec == Init /\ [][Next]_vars
=============================================================================
