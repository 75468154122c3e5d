------------------------------ MODULE ConnPool ------------------------------
(***************************************************************************)
(* How DB hands out ZODB connections to threads and to forked processes.   *)
(* Each thread keeps its connection in a thread-local; a ThreadWatcher     *)
(* closes it, that is returns it to the pool, some time after the thread   *)
(* has died.  A process that finds itself forked opens a storage and a     *)
(* pool of its own.  The model follows one process, through at most one    *)
(* fork into the child.  The names of the state machine differ from those  *)
(* of IndexQueue, since the proofs about the two are in one module.        *)
(***************************************************************************)
EXTENDS Integers, Sequences, ProcessThreads

CONSTANTS
    MaxConns,    \* bound on the number of connections created
    Nil,
    Main,        \* the thread that creates the DB
    PoolRegimes  \* sets of liberties to look at, see Liberties

\* "disconnect": threads call DB.disconnect; "dies_in_txn": a thread may die
\* inside a transaction; "fork": the process may be forked.
Liberties == {"disconnect", "dies_in_txn", "fork"}

ASSUME MainIsThread == Main \in Threads

\* Connections are numbered in the order of their creation.
Conns == 1 .. MaxConns

ASSUME MaxConnsType == MaxConns \in Nat \ {0}
ASSUME NilIsNoConn == Nil \notin Conns /\ Nil \notin {"parent", "child"}
ASSUME PoolRegimesKnown == PoolRegimes \subseteq SUBSET Liberties

VARIABLES
    thread,    \* "new", "live", "dead" (its thread-locals remain) or "gone"
    local,     \* __thread_local.conn
    watched,   \* the connection the thread's vigil will close, Nil: no vigil
    opened,    \* connections whose opened is not None
    available, \* available of the current pool, a stack
    joined,    \* connections that joined a transaction
    made,      \* the process that created each connection, Nil: not created
    pid,       \* whether __pid is the pid of this process
    process,   \* "parent" or "child"
    initdb,    \* a thread inside _init_db
    got,       \* the connection whose root _root returned last
    allowed    \* the liberties that this application takes

pool == <<opened, available, made>>
place == <<pid, process, initdb>>
poolVars == <<thread, local, watched, pool, joined, place, got, allowed>>

PoolTypeOK ==
    /\ thread \in [Threads -> {"new", "live", "dead", "gone"}]
    /\ local \in [Threads -> Conns \cup {Nil}]
    /\ watched \in [Threads -> Conns \cup {Nil}]
    /\ opened \subseteq Conns /\ joined \subseteq Conns
    /\ \A k \in DOMAIN available : available[k] \in Conns
    /\ made \in [Conns -> {"parent", "child", Nil}]
    /\ pid \in BOOLEAN /\ process \in {"parent", "child"}
    /\ initdb \in [Threads -> {"idle", "locals", "storage"}]
    /\ got \in [Threads -> Conns \cup {Nil}]
    /\ allowed \in PoolRegimes

\* The thread that creates the DB has opened a connection.
PoolInit ==
    /\ thread = [t \in Threads |-> IF t = Main THEN "live" ELSE "new"]
    /\ local = [t \in Threads |-> IF t = Main THEN 1 ELSE Nil]
    /\ opened = {1}
    /\ made = [c \in Conns |-> IF c = 1 THEN "parent" ELSE Nil]
    /\ watched = local
    /\ available = <<>> /\ joined = {}
    /\ pid = TRUE /\ process = "parent"
    /\ initdb = [t \in Threads |-> "idle"]
    /\ got = [t \in Threads |-> Nil]
    /\ allowed \in PoolRegimes

\* The next connection to be created.
IsNew(c) == made[c] = Nil /\ \A k \in 1 .. c - 1 : made[k] # Nil

-----------------------------------------------------------------------------

\* self._db, by the process that made it: the child has one at the end of _init_db.
CurrentPool ==
    IF process = "child" /\ pid /\ \A t \in Threads : initdb[t] = "idle"
    THEN "child" ELSE "parent"

\* ThreadWatcher.watch does nothing for a thread that is watched already.
Watch(t, c) == watched' = [watched EXCEPT ![t] = IF @ = Nil THEN c ELSE @]

\* pool.pop(), or a new connection when none is available; a new connection
\* speaks through the storage of the process that created self._db.
PoolOpen(c) ==
    \/ /\ available # <<>> /\ c = available[Len(available)]
       /\ available' = SubSeq(available, 1, Len(available) - 1)
       /\ UNCHANGED made
    \/ /\ available = <<>> /\ IsNew(c)
       /\ made' = [made EXCEPT ![c] = CurrentPool]
       /\ UNCHANGED available

\* Mutant of ConnOpen: conn is an attribute of the DB, not of the thread.
ConnOpenShared(t, c) ==
    /\ PoolOpen(c)
    /\ opened' = opened \cup {c}
    /\ local' = [u \in Threads |-> c]
    /\ Watch(t, c)
    /\ got' = [got EXCEPT ![t] = c]

\* _conn_open
ConnOpen(t, c) ==
    /\ PoolOpen(c)
    /\ opened' = opened \cup {c}
    /\ local' = [local EXCEPT ![t] = c]
    /\ Watch(t, c)
    /\ got' = [got EXCEPT ![t] = c]

\* _root: open a connection when the thread has none or its own is closed ...
RootOpens(t, c) ==
    /\ thread[t] = "live" /\ initdb[t] = "idle" /\ pid
    /\ local[t] \notin opened
    /\ ConnOpen(t, c)
    /\ UNCHANGED <<thread, joined, place, allowed>>

\* ... and otherwise use what it has.
RootReuses(t) ==
    /\ thread[t] = "live" /\ initdb[t] = "idle" /\ pid
    /\ local[t] \in opened /\ got[t] # local[t]
    /\ got' = [got EXCEPT ![t] = local[t]]
    /\ UNCHANGED <<thread, local, watched, pool, joined, place, allowed>>

\* _root in a new process: __pid is set before _init_db ...
RootForked(t) ==
    /\ thread[t] = "live" /\ initdb[t] = "idle" /\ ~pid
    /\ pid' = TRUE
    /\ initdb' = [initdb EXCEPT ![t] = "locals"]
    /\ UNCHANGED <<thread, local, watched, pool, joined, process, got, allowed>>

\* ... which makes new thread-locals and a new watcher ...
InitLocals(t) ==
    /\ initdb[t] = "locals"
    /\ initdb' = [initdb EXCEPT ![t] = "storage"]
    /\ local' = [u \in Threads |-> Nil]
    /\ watched' = [u \in Threads |-> Nil]
    /\ UNCHANGED <<thread, pool, joined, pid, process, got, allowed>>

\* ... connects a new storage, and opens a connection from a new pool.
InitStorage(t, c) ==
    /\ initdb[t] = "storage"
    /\ initdb' = [initdb EXCEPT ![t] = "idle"]
    /\ IsNew(c)
    /\ made' = [made EXCEPT ![c] = process]
    /\ available' = <<>>
    /\ opened' = opened \cup {c}
    /\ local' = [local EXCEPT ![t] = c]
    /\ Watch(t, c)
    /\ got' = [got EXCEPT ![t] = c]
    /\ UNCHANGED <<thread, joined, pid, process, allowed>>

\* The thread's connection joins its transaction, and leaves it.
Join(t) ==
    /\ thread[t] = "live" /\ initdb[t] = "idle" /\ got[t] \in opened \ joined
    /\ joined' = joined \cup {got[t]}
    /\ UNCHANGED <<thread, local, watched, pool, place, got, allowed>>

EndTransaction(t) ==
    /\ thread[t] = "live" /\ initdb[t] = "idle" /\ got[t] \in joined
    /\ joined' = joined \ {got[t]}
    /\ UNCHANGED <<thread, local, watched, pool, place, got, allowed>>

\* close() returns a connection to the pool it came from, and repush does not look
\* whether it is there already.
GiveBack(c) ==
    /\ opened' = opened \ {c}
    /\ available' = IF made[c] = CurrentPool THEN Append(available, c) ELSE available

\* DB.disconnect; the thread-local keeps the closed connection.  Closing a
\* connection twice does nothing, closing a joined one raises.
Disconnect(t) ==
    /\ "disconnect" \in allowed
    /\ thread[t] = "live" /\ initdb[t] = "idle"
    /\ local[t] \in opened \ joined
    /\ GiveBack(local[t])
    /\ got' = [got EXCEPT ![t] = Nil]
    /\ UNCHANGED <<thread, local, watched, made, joined, place, allowed>>

-----------------------------------------------------------------------------
(* The life of threads and of the process. *)

Start(t) ==
    /\ thread[t] = "new"
    /\ thread' = [thread EXCEPT ![t] = "live"]
    /\ UNCHANGED <<local, watched, pool, joined, place, got, allowed>>

Die(t) ==
    /\ thread[t] = "live" /\ initdb[t] = "idle" /\ t # Main
    /\ got[t] \in joined => "dies_in_txn" \in allowed
    /\ thread' = [thread EXCEPT ![t] = "dead"]
    /\ got' = [got EXCEPT ![t] = Nil]
    /\ UNCHANGED <<local, watched, pool, joined, place, allowed>>

\* Mutants of Destructor: without opened = 0 the close does nothing; if that came
\* after the close, what is in the pool would seem to be open.
DestructorLeaves(c) == UNCHANGED <<opened, available>>
DestructorMarksLast(c) ==
    IF made[c] = CurrentPool
    THEN /\ opened' = opened \cup {c}
         /\ available' = IF c \in joined THEN available ELSE Append(available, c)
    ELSE UNCHANGED <<opened, available>>

\* _conn_open's destructor looks for the connection in the current pool, not in the
\* one it came from.  With opened = 0 it is not None whatever it was before, so the
\* close returns it to the pool, also when it is there already; for a connection
\* that joined a transaction the close raises.
Destructor(c) ==
    IF made[c] # CurrentPool THEN UNCHANGED <<opened, available>>
    ELSE IF c \in joined THEN opened' = opened \cup {c} /\ UNCHANGED available
    ELSE GiveBack(c)

\* The dead thread's thread-locals go away, its vigil with them.
LocalsDie(t) ==
    /\ thread[t] = "dead"
    /\ thread' = [thread EXCEPT ![t] = "gone"]
    /\ local' = [local EXCEPT ![t] = Nil]
    /\ watched' = [watched EXCEPT ![t] = Nil]
    /\ IF watched[t] # Nil THEN Destructor(watched[t]) ELSE UNCHANGED <<opened, available>>
    /\ UNCHANGED <<made, joined, place, got, allowed>>

\* The model goes on in the child, where only the forking thread lives.
Fork(t) ==
    /\ "fork" \in allowed
    /\ process = "parent" /\ thread[t] = "live"
    /\ process' = "child" /\ pid' = FALSE
    /\ thread' = [u \in Threads |-> IF u = t \/ thread[u] = "new" THEN thread[u] ELSE "gone"]
    /\ got' = [u \in Threads |-> Nil]
    /\ UNCHANGED <<local, watched, pool, joined, initdb, allowed>>

PoolNext ==
    \E t \in Threads :
        \/ RootReuses(t) \/ RootForked(t) \/ InitLocals(t)
        \/ Join(t) \/ EndTransaction(t) \/ Disconnect(t)
        \/ Start(t) \/ Die(t) \/ LocalsDie(t) \/ Fork(t)
        \/ \E c \in Conns : RootOpens(t, c) \/ InitStorage(t, c)

\* The interpreter drops the thread-locals of a dead thread at some time, and
\* the main thread goes on.
Fairness == \A t \in Threads : WF_poolVars(LocalsDie(t))

PoolSpec == PoolInit /\ [][PoolNext]_poolVars /\ Fairness

-----------------------------------------------------------------------------
(* Properties. *)

\* No two threads use one connection.
Unshared == \A t, u \in Threads : t # u /\ got[t] # Nil => got[t] # got[u]

\* Two threads never use one connection ("Test that child used connection
\* other than parent"; _root, disconnect, the destructor), as long as no thread
\* disconnects.
Exclusive == "disconnect" \notin allowed => Unshared

\* What the pool has is closed, and there once.
PooledOnce ==
    \A j, k \in DOMAIN available :
        available[j] \notin opened /\ (available[j] = available[k] => j = k)

\* The pool has only connections of its own, whatever order disconnect, the
\* destructors and a fork come in (close, repush); and as long as no thread
\* disconnects it has each once and only while it is closed.
PoolIsConsistent ==
    /\ PoolTypeOK
    /\ \A k \in DOMAIN available : made[available[k]] = CurrentPool
    /\ "disconnect" \notin allowed => PooledOnce

\* In a forked process every connection handed out was made there: "If a new
\* process spins up, we need to re-initialize everything".
OwnProcess ==
    \A t \in Threads : got[t] # Nil => made[got[t]] = process

\* A dead thread's connection goes back to the pool: "Should be closed when old
\* thread-locals get garbage collected" (_conn_open, ThreadWatcher).
Returned ==
    \A t \in Threads, c \in Conns :
        allowed = {} /\ thread[t] = "dead" /\ local[t] = c
            ~> c \notin opened \/ \E u \in Threads : got[u] = c

\* The same whatever liberty the application takes: the connection is closed, or in
\* the pool, or a live thread has come to have it.
AlwaysReturned ==
    \A t \in Threads, c \in Conns :
        thread[t] = "dead" /\ local[t] = c
            ~> \/ c \notin opened
               \/ \E k \in DOMAIN available : available[k] = c
               \/ \E u \in Threads : thread[u] = "live" /\ local[u] = c
=============================================================================
