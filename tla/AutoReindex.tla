----------------------------- MODULE AutoReindex -----------------------------
(***************************************************************************)
(* One client of a zerodb database: the objects the application holds, the *)
(* per-model object store and catalog, the thread-local indexing queue and *)
(* the transaction that ties them together.                                *)
(*                                                                         *)
(* d-variables are what the server has committed, m-variables what this    *)
(* connection sees in memory.  The queue is filled by Model.__setattr__    *)
(* and drained by a before-commit hook; DbModel.add and remove change the  *)
(* store and the catalog directly.                                         *)
(*                                                                         *)
(* The queue is kept as the set of its (object, attribute) pairs: every    *)
(* entry zerodb makes is a REINDEX, and optimize() unites the attributes   *)
(* of one object (module IndexQueue models the list itself).  Automatic    *)
(* reindexing stays on, and processing reaches this client's own DB (see   *)
(* IndexQueue for what happens otherwise).                                 *)
(***************************************************************************)
CONSTANTS
    Objs,       \* Model instances the application holds
    Uids,       \* integers IdStore may hand out
    Attrs,      \* attributes of a Model instance
    Vals,       \* attribute values other than None
    None,       \* Python's None
    NoUid,      \* the object has no _p_uid
    NoObj,      \* the uid is not in the store
    NoEntry,    \* the uid is not in the index
    Indexes,    \* names of the model's indexed fields (_z_indexed_fields)
    Source,     \* the attribute from which an index computes its value
    Liberties   \* what the application does beyond careful use, see below

Values == Vals \cup {None}

(***************************************************************************)
(* Careful use: the application modifies or removes an object only through *)
(* a handle that carries the uid under which the object is stored, removes *)
(* no object it modified in the same transaction, stops using a            *)
(* transaction that failed, rolls back to a savepoint once and does not    *)
(* store None in an indexed field.  Each liberty drops one of these.       *)
(***************************************************************************)
AllLiberties == {"none_values", "remove_modified", "dead_handle", "lost_uid",
                 "use_failed", "second_rollback"}

ASSUME SentinelsDiffer == /\ None \notin Vals
                          /\ NoUid \notin Uids
                          /\ NoObj \notin Objs
                          /\ NoEntry \notin Values
ASSUME NoUidIsNoTable == NoUid \notin [Uids -> [Indexes -> Values] \cup {NoObj}]
ASSUME SourceType == Source \in [Indexes -> Attrs]
ASSUME LibertiesKnown == Liberties \subseteq AllLiberties

VARIABLES
    dstore, dval, didx,  \* committed: store uid -> object, attributes, index
    mstore, mval, midx,  \* the same as this connection sees them
    saved,               \* objects that have a committed database record
    jar,                 \* objects that belong to the connection (_p_jar)
    touched,             \* objects registered as changed in this transaction
    puid,                \* the _p_uid of each object
    queue,               \* IndexQueue.queue, as a set of <<object, attribute>>
    tmhook,              \* IndexQueue.tmhook and its QueueTM.registered
    joined,              \* a QueueTM is a resource of the transaction
    hooks,               \* the transaction has a before-commit hook of a QueueTM
    txn,                 \* status of transaction.get()
    sp                   \* the transaction's savepoint (at most one, a bound)

disk == <<dstore, dval, didx, saved>>
memory == <<mstore, mval, midx, jar, touched>>
machinery == <<tmhook, joined, hooks>>
vars == <<disk, memory, puid, queue, machinery, txn, sp>>

Unindexed == [i \in Indexes |-> NoEntry]

\* What the catalog's indexes compute from an object with attributes vs.
IndexedValues(vs) == [i \in Indexes |-> vs[Source[i]]]

\* Uids under which o is stored in st.
Keys(st, o) == {u \in Uids : st[u] = o}

Stored(st) == {o \in Objs : Keys(st, o) # {}}

\* A savepoint keeps what the connection stored aside when it was taken
\* (store, val, idx, objs) and what the queue's resource manager returned:
\* its copy of the queue ("state"), or nothing ("abort") when no QueueTM had
\* joined yet.  alias: the queue now IS the saved list, after a rollback.
NoSavepoint == [kind |-> "none",
                store |-> [u \in Uids |-> NoObj],
                val |-> [o \in Objs |-> [a \in Attrs |-> None]],
                idx |-> [u \in Uids |-> Unindexed],
                objs |-> {}, queue |-> {}, alias |-> FALSE]

Store == [Uids -> Objs \cup {NoObj}]
Attributes == [Objs -> [Attrs -> Values]]
Index == [Uids -> [Indexes -> Values \cup {NoEntry}]]
Savepoints == [kind : {"none", "abort", "state"}, store : Store,
               val : Attributes, idx : Index, objs : SUBSET Objs,
               queue : SUBSET (Objs \X Attrs), alias : BOOLEAN]

TypeOK ==
    /\ dstore \in Store /\ dval \in Attributes /\ didx \in Index
    /\ mstore \in Store /\ mval \in Attributes /\ midx \in Index
    /\ saved \subseteq jar /\ jar \subseteq Objs /\ touched \subseteq jar
    /\ puid \in [Objs -> Uids \cup {NoUid}]
    /\ queue \subseteq Objs \X Attrs
    /\ tmhook \in {"none", "unregistered", "registered"}
    /\ joined \in BOOLEAN
    /\ hooks \in BOOLEAN
    /\ txn \in {"none", "active", "failed"}
    /\ sp \in Savepoints /\ sp.objs \subseteq jar

Init ==
    /\ dstore = [u \in Uids |-> NoObj]
    /\ didx = [u \in Uids |-> Unindexed]
    /\ dval \in [Objs -> [Attrs -> IF "none_values" \in Liberties
                                   THEN Values ELSE Vals]]
    /\ mstore = dstore /\ mval = dval /\ midx = didx
    /\ saved = {} /\ jar = {} /\ touched = {}
    /\ puid = [o \in Objs |-> NoUid]
    /\ queue = {}
    /\ tmhook = "none" /\ joined = FALSE /\ hooks = FALSE
    /\ txn = "none"
    /\ sp = NoSavepoint

-----------------------------------------------------------------------------
(* The queue and its hook into the transaction. *)

\* Model.__setattr__ sends a modified event only when the old value is not
\* None, the name is an indexed field and the object carries a uid.
Notifies(o, a) == mval[o][a] # None /\ a \in Indexes /\ puid[o] # NoUid

\* QueueTM.register: join the transaction and add the before-commit hook; a
\* transaction that refuses (it has failed) only leaves a log line.
Register ==
    IF tmhook = "registered" THEN UNCHANGED machinery
    ELSE IF txn = "active"
         THEN tmhook' = "registered" /\ joined' = TRUE /\ hooks' = TRUE
         ELSE tmhook' = "unregistered" /\ UNCHANGED <<joined, hooks>>

\* Mutant of QueueReindex: nothing is appended to a queue already hooked.
QueueReindexOnce(o, a) ==
    queue' = (IF tmhook = "registered" THEN queue ELSE queue \cup {<<o, a>>}) /\ Register

\* IndexQueue.reindex: append, then hook().
QueueReindex(o, a) == queue' = queue \cup {<<o, a>>} /\ Register

\* zope's modified() event, dispatched to the queue by objectAutoReindex.
Notify(o, a) ==
    IF Notifies(o, a) THEN QueueReindex(o, a)
                      ELSE UNCHANGED <<queue, machinery>>

\* Mutant of Clear: tmhook is not reset.
ClearKeepsHook == queue' = {} /\ UNCHANGED tmhook

\* IndexQueue.clear
Clear == queue' = {} /\ tmhook' = "none"

\* DbModel.reindex_one with the attributes of each entry of ps: the index of
\* that name is recomputed from the object.  (Handles sharing a uid: one wins.)
Reindexers(ps, u, i) == {o \in Objs : puid[o] = u /\ <<o, i>> \in ps}

EntryAfter(ps, u, i) ==
    IF Reindexers(ps, u, i) = {} THEN midx[u][i]
    ELSE mval[CHOOSE o \in Reindexers(ps, u, i) : TRUE][Source[i]]

ReindexOne(ps) == [u \in Uids |-> [i \in Indexes |-> EntryAfter(ps, u, i)]]

\* reindex_one raises ModelException for an object without _p_uid.
Processable == \A e \in queue : puid[e[1]] # NoUid

\* Mutant of ProcessedIndex: the queue is cleared but never processed.
UnprocessedIndex == midx

\* QueueTM.before_commit: process, with automatic reindexing on, and clear.
ProcessedIndex == IF hooks THEN ReindexOne(queue) ELSE midx

BeforeCommit ==
    IF hooks THEN Clear ELSE UNCHANGED <<queue, tmhook>>

-----------------------------------------------------------------------------
(* What the application does. *)

\* The handle carries the uid of its object, and none for an unstored one.
CarefulHandle(o) ==
    /\ puid[o] # NoUid /\ puid[o] \notin Keys(mstore, o) => "dead_handle" \in Liberties
    /\ puid[o] = NoUid /\ Keys(mstore, o) # {} => "lost_uid" \in Liberties

CarefulUid(o) == mstore[puid[o]] = o \/ "dead_handle" \in Liberties

Begin ==
    /\ txn = "none"
    /\ txn' = "active"
    /\ UNCHANGED <<disk, memory, puid, queue, machinery, sp>>

\* Model.__setattr__: notify, then set; the connection registers its object.
SetAttr(o, a, v) ==
    /\ txn = "active"
    /\ CarefulHandle(o)
    /\ v = None => "none_values" \in Liberties
    /\ Notify(o, a)
    /\ mval' = [mval EXCEPT ![o][a] = v]
    /\ touched' = touched \cup ({o} \cap jar)
    /\ UNCHANGED <<disk, mstore, midx, jar, puid, txn, sp>>

\* The same in a transaction that failed to commit: the event still queues the
\* object, then the connection refuses to register the change.
SetAttrFailed(o, a, v) ==
    /\ txn = "failed" /\ "use_failed" \in Liberties
    /\ CarefulHandle(o)
    /\ v \in Vals
    /\ Notify(o, a)
    /\ mval' = IF o \in jar THEN mval ELSE [mval EXCEPT ![o][a] = v]
    /\ UNCHANGED <<disk, mstore, midx, jar, touched, puid, txn, sp>>

\* DbModel.add: IdStore.add picks a free uid, the catalog indexes the object.
Add(o, u) ==
    /\ txn = "active"
    /\ Keys(mstore, o) = {}
    /\ mstore[u] = NoObj
    /\ mstore' = [mstore EXCEPT ![u] = o]
    /\ midx' = [midx EXCEPT ![u] = IndexedValues(mval[o])]
    /\ puid' = [puid EXCEPT ![o] = u]
    /\ UNCHANGED <<disk, mval, jar, touched, queue, machinery, txn, sp>>

\* DbModel.remove: unindex, delete by integer uid; _p_uid stays behind.
Remove(o) ==
    /\ txn = "active"
    /\ puid[o] # NoUid
    /\ CarefulUid(o)
    /\ (\E a \in Attrs : <<o, a>> \in queue) => "remove_modified" \in Liberties
    /\ midx' = [midx EXCEPT ![puid[o]] = Unindexed]
    /\ mstore' = [mstore EXCEPT ![puid[o]] = NoObj]
    /\ UNCHANGED <<disk, mval, jar, touched, puid, queue, machinery, txn, sp>>

\* DbModel.reindex: an explicit reindex of all the object's indexes.
Reindex(o) ==
    /\ txn = "active"
    /\ puid[o] # NoUid
    /\ CarefulUid(o)
    /\ midx' = [midx EXCEPT ![puid[o]] = IndexedValues(mval[o])]
    /\ UNCHANGED <<disk, mstore, mval, jar, touched, puid, queue, machinery, txn, sp>>

\* DbModel.__getitem__, all() and query() give the object they return its uid.
Fetch(o, u) ==
    /\ txn = "active"
    /\ mstore[u] = o /\ puid[o] = NoUid
    /\ puid' = [puid EXCEPT ![o] = u]
    /\ UNCHANGED <<disk, memory, queue, machinery, txn, sp>>

-----------------------------------------------------------------------------
(* The transaction and the connection (external packages) driving QueueTM. *)

\* The connection turns an object it invalidates into a ghost, and a ghost
\* has lost its instance dictionary, _p_uid included.
Ghosts(os) == [o \in Objs |-> IF o \in os THEN NoUid ELSE puid[o]]

\* Mutants of ConnectionAbort: new objects stay registered as changed; what the
\* transaction made of the store and the objects stays in memory.
AbortKeepsTouched ==
    /\ mstore' = dstore /\ midx' = didx
    /\ mval' = [o \in Objs |-> IF o \in touched \cap saved THEN dval[o]
                                                          ELSE mval[o]]
    /\ puid' = Ghosts(touched \cap saved)
    /\ jar' = saved /\ UNCHANGED touched
    /\ sp' = NoSavepoint
AbortKeepsMemory ==
    /\ puid' = Ghosts(touched \cap saved)
    /\ jar' = saved /\ touched' = {}
    /\ sp' = NoSavepoint
    /\ UNCHANGED <<mstore, midx, mval>>

\* Connection.abort / tpc_abort: changed objects that have a record go back to
\* it; an object that never reached the database keeps what is in memory.
ConnectionAbort ==
    /\ mstore' = dstore /\ midx' = didx
    /\ mval' = [o \in Objs |-> IF o \in touched \cap saved THEN dval[o]
                                                          ELSE mval[o]]
    /\ puid' = Ghosts(touched \cap saved)
    /\ jar' = saved /\ touched' = {}
    /\ sp' = NoSavepoint

\* Transaction.abort, with QueueTM.abort for a QueueTM that joined.
Abort ==
    /\ txn # "none"
    /\ txn' = "none"
    /\ ConnectionAbort
    /\ IF joined THEN Clear ELSE UNCHANGED <<queue, tmhook>>
    /\ joined' = FALSE /\ hooks' = FALSE
    /\ UNCHANGED disk

\* Transaction.commit: hooks, then the two phases of every resource.
Commit ==
    /\ txn = "active"
    /\ hooks => Processable
    /\ midx' = ProcessedIndex
    /\ BeforeCommit
    /\ dstore' = mstore /\ didx' = midx'
    /\ jar' = jar \cup Stored(mstore) /\ saved' = jar'
    /\ dval' = [o \in Objs |-> IF o \in jar' THEN mval[o] ELSE dval[o]]
    /\ touched' = {}
    /\ joined' = FALSE /\ hooks' = FALSE
    /\ txn' = "none"
    /\ sp' = NoSavepoint
    /\ UNCHANGED <<mstore, mval, puid>>

\* The hooks succeed and then a resource refuses (ConflictError, a lost
\* server): tpc_abort everywhere, and the transaction accepts only an abort.
CommitConflict ==
    /\ txn = "active"
    /\ hooks => Processable
    /\ BeforeCommit
    /\ ConnectionAbort
    /\ txn' = "failed"
    /\ hooks' = FALSE
    /\ UNCHANGED <<disk, joined>>

\* A hook raises: an object lost its uid, or loading an index tree failed.
\* The objects in done were reindexed; the transaction stays active and
\* uncommitted, with queue and hook in place and its savepoints invalid.
HookRaises ==
    /\ txn = "active" /\ hooks
    /\ \E done \in SUBSET {e[1] : e \in queue} :
        /\ done # {e[1] : e \in queue}
        /\ \A o \in done : puid[o] # NoUid
        /\ midx' = ReindexOne({e \in queue : e[1] \in done})
    /\ sp' = NoSavepoint
    /\ UNCHANGED <<disk, mstore, mval, jar, touched, puid, queue, machinery, txn>>

\* Transaction.savepoint: the connection stores what changed aside, new
\* objects become its own; a joined QueueTM copies the queue.
Savepoint ==
    /\ txn = "active" /\ sp.kind = "none"
    /\ LET new == Stored(mstore) \ jar IN
        /\ jar' = jar \cup new
        /\ touched' = touched \cup new
    /\ sp' = [kind |-> IF joined THEN "state" ELSE "abort",
              store |-> mstore, val |-> mval, idx |-> midx,
              objs |-> touched',
              queue |-> IF joined THEN queue ELSE {}, alias |-> FALSE]
    /\ UNCHANGED <<disk, mstore, mval, midx, puid, queue, machinery, txn>>

\* Savepoint.rollback: everything changed so far becomes a ghost that reloads
\* the stored-aside state.  QueueSavepoint.rollback makes the saved list the
\* queue itself, so what is appended later changes the saved list too.
Rollback ==
    /\ txn = "active" /\ sp.kind # "none"
    /\ sp.alias => "second_rollback" \in Liberties
    /\ mstore' = sp.store /\ midx' = sp.idx
    /\ mval' = [o \in Objs |-> IF o \in touched THEN sp.val[o] ELSE mval[o]]
    /\ puid' = Ghosts(touched)
    /\ touched' = sp.objs
    /\ \/ /\ sp.kind = "state"
          /\ queue' = IF sp.alias THEN queue ELSE sp.queue
          /\ sp' = [sp EXCEPT !.alias = TRUE]
          /\ UNCHANGED <<tmhook, joined>>
       \/ /\ sp.kind = "abort"
          /\ IF joined THEN Clear ELSE UNCHANGED <<queue, tmhook>>
          /\ joined' = FALSE
          /\ UNCHANGED sp
    /\ UNCHANGED <<disk, jar, hooks, txn>>

\* Between transactions the object cache turns unused objects into ghosts.
Deactivate(o) ==
    /\ txn = "none"
    /\ o \in jar /\ puid[o] # NoUid
    /\ puid' = Ghosts({o})
    /\ UNCHANGED <<disk, memory, queue, machinery, txn, sp>>

Next ==
    \/ Begin \/ Abort \/ Commit \/ CommitConflict \/ HookRaises
    \/ Savepoint \/ Rollback
    \/ \E o \in Objs :
        \/ Remove(o) \/ Reindex(o) \/ Deactivate(o)
        \/ \E u \in Uids : Add(o, u) \/ Fetch(o, u)
        \/ \E a \in Attrs, v \in Values : SetAttr(o, a, v) \/ SetAttrFailed(o, a, v)

Spec == Init /\ [][Next]_vars

-----------------------------------------------------------------------------
(* Properties. *)

\* The index entry of a uid is what the stored object's attributes give, and
\* a uid that is not in the store has no entry.
Consistent(st, vs, ix) ==
    \A u \in Uids : ix[u] = IF st[u] = NoObj THEN Unindexed
                            ELSE IndexedValues(vs[st[u]])

\* What is committed is consistent: queries see exactly the stored objects,
\* with their present values (DbModel.add, remove, the before-commit hook).
IndexMatchesObjects == Consistent(dstore, dval, didx)

\* Removing an object unindexes it for good: no committed index entry refers
\* to a uid that is not in the store (DbModel.remove).
NoDanglingEntry ==
    \A u \in Uids : dstore[u] = NoObj => didx[u] = Unindexed

OutOfDate(u, i) ==
    mstore[u] # NoObj /\ midx[u][i] # mval[mstore[u]][Source[i]]

\* No modification is forgotten: an index entry that is out of date in memory
\* has its reindex operation in the queue, whatever was aborted, rolled back,
\* retried or refetched before (Model.__setattr__, QueueTM, QueueSavepoint).
NoLostReindex ==
    \A u \in Uids, i \in Indexes : OutOfDate(u, i) => <<mstore[u], i>> \in queue

\* While an entry is out of date the transaction can still commit and holds
\* the hook that will process the queue (IndexQueue.hook, QueueTM.register).
OutOfDateIsHooked ==
    (\E u \in Uids, i \in Indexes : OutOfDate(u, i)) =>
        txn = "active" /\ joined /\ hooks /\ tmhook = "registered"

\* A table of records, as the objects of a store give it.
RecordsOf(st, vs) ==
    [u \in Uids |-> IF st[u] = NoObj THEN NoObj ELSE IndexedValues(vs[st[u]])]

Ideal == INSTANCE IndexedStore WITH
    Records <- [Indexes -> Values],
    Absent <- NoObj,
    NoMark <- NoUid,
    committed <- [u \in Uids |-> IF didx[u] = Unindexed THEN NoObj ELSE didx[u]],
    working <- RecordsOf(mstore, mval),
    mark <- IF sp.kind = "none" THEN NoUid ELSE RecordsOf(sp.store, sp.val),
    status <- txn

\* Seen through the index, the client is a transactional table: what a query
\* answers after a commit is what the transaction made of the objects, an
\* abort or a rollback takes back exactly what it should, and nothing else
\* changes an answer.
ImplementsIndexedStore == Ideal!Spec
=============================================================================
