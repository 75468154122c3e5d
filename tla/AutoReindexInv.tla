--------------------------- MODULE AutoReindexInv ---------------------------
(***************************************************************************)
(* The inductive invariant of AutoReindex under careful use: why what is   *)
(* committed is consistent.                                                *)
(***************************************************************************)
EXTENDS AutoReindex

\* A transaction that failed may go on being used.  What it left in the queue counts
\* as modified: it is not removed before the queue has been processed or cleared.
CarefulUse == Liberties \subseteq {"use_failed"} /\ \A i \in Indexes : Source[i] = i

\* No object is stored under two uids.
StoredOnce(st) == \A u, w \in Uids : st[u] = st[w] /\ st[u] # NoObj => u = w

NoNone(vs) == \A o \in Objs, a \in Attrs : vs[o][a] # None

\* Index entries only for stored objects, and up to date unless queued in q.
ConsistentButFor(st, vs, ix, q) ==
    \A u \in Uids :
        /\ st[u] = NoObj => ix[u] = Unindexed
        /\ st[u] # NoObj => \A i \in Indexes :
                ix[u][i] = vs[st[u]][i] \/ <<st[u], i>> \in q

\* Committed: consistent, complete, and untouched objects still agree with it.
DiskInv ==
    /\ ConsistentButFor(dstore, dval, didx, {})
    /\ StoredOnce(dstore) /\ NoNone(dval)
    /\ \A u \in Uids : dstore[u] # NoObj => dstore[u] \in saved
    /\ \A o \in saved \ touched : mval[o] = dval[o]

MemoryInv ==
    /\ ConsistentButFor(mstore, mval, midx, queue)
    /\ StoredOnce(mstore) /\ NoNone(mval)

\* A hook is one of a transaction that can commit.
HookInv ==
    /\ tmhook = "registered" => txn = "active" /\ joined /\ hooks
    /\ joined => txn # "none"
    /\ txn = "active" /\ joined => tmhook = "registered"
    /\ hooks => txn = "active" /\ (tmhook # "registered" => queue = {})

\* Stored under the same uid on disk, in memory and in st
Settled(o, st) == \E u \in Uids : dstore[u] = o /\ mstore[u] = o /\ st[u] = o

\* A queue that is not hooked in has only what a failed transaction left in it:
\* stored objects, which that transaction could not change.
LeftInv ==
    /\ tmhook # "registered" =>
        /\ ConsistentButFor(mstore, mval, midx, {})
        /\ \A e \in queue : Settled(e[1], mstore)
    /\ sp.kind = "abort" /\ ~joined => \A e \in queue : Settled(e[1], sp.store)
    /\ txn # "active" => mstore = dstore

\* A queued object was changed in this transaction or left by a failed one, and
\* its uid, when it has one, is the one under which it is stored.
QueueInv ==
    \A e \in queue :
        /\ \/ e[1] \in touched
           \/ e[1] \notin jar /\ puid[e[1]] # NoUid
           \/ Settled(e[1], mstore)
        /\ puid[e[1]] # NoUid => mstore[puid[e[1]]] = e[1]

\* The savepoint's state was consistent but for the queue it copied, and the
\* objects it does not cover still agree with it.
SavepointInv ==
    sp.kind # "none" =>
        /\ ConsistentButFor(sp.store, sp.val, sp.idx, sp.queue)
        /\ StoredOnce(sp.store) /\ NoNone(sp.val)
        /\ \A u \in Uids : sp.store[u] # NoObj => sp.store[u] \in jar
        /\ sp.objs \subseteq touched
        /\ \A e \in sp.queue : e[1] \in sp.objs \/ Settled(e[1], sp.store)
        /\ \A o \in jar \ touched : sp.val[o] = mval[o]
        /\ \A o \in saved \ sp.objs : sp.val[o] = dval[o]
        /\ sp.queue \subseteq queue /\ txn = "active"
        /\ sp.kind = "state" => tmhook = "registered"
        /\ sp.kind = "abort" => sp.queue = {}

\* The conjunction that every step of the client preserves: disk, memory,
\* hook, queue and savepoint never disagree about what has to be reindexed.
CoreInv == DiskInv /\ MemoryInv /\ HookInv /\ LeftInv /\ QueueInv /\ SavepointInv
=============================================================================
