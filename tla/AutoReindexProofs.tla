-------------------------- MODULE AutoReindexProofs --------------------------
(***************************************************************************)
(* Proofs about AutoReindex, for any objects, uids, attributes and values. *)
(***************************************************************************)
EXTENDS AutoReindexInv, TLAPS

\* "No entry" is an index entry of every field.
LEMMA UnindexedTyping == Unindexed \in [Indexes -> Values \cup {NoEntry}]
  BY DEF Unindexed

\* What the catalog computes from well-typed attributes is an index entry.
LEMMA IndexedValuesTyping ==
    ASSUME NEW vs \in [Attrs -> Values]
    PROVE  IndexedValues(vs) \in [Indexes -> Values \cup {NoEntry}]
  BY SourceType DEF IndexedValues

\* The absent savepoint is a savepoint, and covers no object.
LEMMA NoSavepointTyping == NoSavepoint \in Savepoints /\ NoSavepoint.objs = {}
  <1>1. [o \in Objs |-> [a \in Attrs |-> None]] \in Attributes
    BY DEF Attributes, Values
  <1>2. [u \in Uids |-> Unindexed] \in Index
    BY UnindexedTyping DEF Index
  <1>3. [u \in Uids |-> NoObj] \in Store
    BY DEF Store
  <1>4. FALSE \in BOOLEAN
    OBVIOUS
  <1>5. QED
    BY <1>1, <1>2, <1>3, <1>4 DEF NoSavepoint, Savepoints

\* DbModel.reindex_one leaves a well-typed index, whatever is queued.
LEMMA ReindexOneTyping ==
    ASSUME TypeOK, NEW ps
    PROVE  ReindexOne(ps) \in Index
  <1>1. ASSUME NEW u \in Uids, NEW i \in Indexes
        PROVE  EntryAfter(ps, u, i) \in Values \cup {NoEntry}
    <2>1. midx[u][i] \in Values \cup {NoEntry}
      BY DEF TypeOK, Index
    <2>2. ASSUME NEW o \in Objs PROVE mval[o][Source[i]] \in Values
      BY SourceType DEF TypeOK, Attributes
    <2>3. Reindexers(ps, u, i) # {}
            => (CHOOSE o \in Reindexers(ps, u, i) : TRUE) \in Objs
      BY DEF Reindexers
    <2>4. QED
      BY <2>1, <2>2, <2>3 DEF EntryAfter
  <1>2. QED
    BY <1>1 DEF ReindexOne, Index

\* Objects that become ghosts only lose their _p_uid.
LEMMA GhostsTyping ==
    ASSUME TypeOK, NEW os
    PROVE  Ghosts(os) \in [Objs -> Uids \cup {NoUid}]
  BY DEF TypeOK, Ghosts

\* What Connection.abort leaves in memory is well typed.
LEMMA ConnectionAbortTyping ==
    ASSUME TypeOK, ConnectionAbort
    PROVE  /\ mstore' \in Store /\ mval' \in Attributes /\ midx' \in Index
           /\ puid' \in [Objs -> Uids \cup {NoUid}]
           /\ jar' = saved /\ touched' = {}
           /\ sp' \in Savepoints /\ sp'.objs = {}
  <1>1. puid' \in [Objs -> Uids \cup {NoUid}]
    BY GhostsTyping DEF ConnectionAbort
  <1>2. mval' \in Attributes
    BY DEF ConnectionAbort, TypeOK, Attributes
  <1>3. QED
    BY <1>1, <1>2, NoSavepointTyping DEF ConnectionAbort, TypeOK, NoSavepoint

\* The notification queues a pair and changes hook and transaction, if at all,
\* as QueueTM.register does.
LEMMA NotifyTyping ==
    ASSUME TypeOK, NEW o \in Objs, NEW a \in Attrs, Notify(o, a)
    PROVE  /\ queue' \subseteq Objs \X Attrs
           /\ tmhook' \in {"none", "unregistered", "registered"}
           /\ joined' \in BOOLEAN /\ hooks' \in BOOLEAN
  <1>1. queue' \subseteq Objs \X Attrs
    BY DEF TypeOK, Notify, QueueReindex
  <1>2. /\ tmhook' \in {"none", "unregistered", "registered"}
        /\ joined' \in BOOLEAN /\ hooks' \in BOOLEAN
    BY Zenon DEF TypeOK, Notify, QueueReindex, Register, machinery
  <1>3. QED
    BY <1>1, <1>2

\* Every operation leaves the store, the indexes, the handles, the queue and
\* the savepoint well typed, whatever liberties the application takes.
THEOREM Typing == Spec => []TypeOK
  <1>1. Init => TypeOK
    <2> SUFFICES ASSUME Init PROVE TypeOK
      OBVIOUS
    <2>1. dstore \in Store
      BY DEF Init, Store
    <2>2. didx \in Index
      BY UnindexedTyping DEF Init, Index
    <2>3. dval \in Attributes
      BY DEF Init, Attributes, Values
    <2>4. puid \in [Objs -> Uids \cup {NoUid}]
      BY DEF Init
    <2>5. QED
      BY <2>1, <2>2, <2>3, <2>4, NoSavepointTyping, Zenon DEF Init, TypeOK
  <1>2. TypeOK /\ [Next]_vars => TypeOK'
    <2> SUFFICES ASSUME TypeOK, [Next]_vars PROVE TypeOK'
      OBVIOUS
    <2> USE DEF disk, memory, machinery
    <2>1. CASE Begin
      BY <2>1 DEF Begin, TypeOK
    <2>2. CASE Abort
      <3>1. ConnectionAbort
        BY <2>2 DEF Abort
      <3>2. QED
        BY <2>2, <3>1, ConnectionAbortTyping DEF Abort, TypeOK, Clear
    <2>3. CASE Commit
      <3>1. midx' \in Index
        BY <2>3, ReindexOneTyping DEF Commit, ProcessedIndex, TypeOK
      <3>2. jar' \subseteq Objs
        BY <2>3 DEF Commit, TypeOK, Stored
      <3>3. dval' \in Attributes
        BY <2>3 DEF Commit, TypeOK, Attributes
      <3>4. queue' \subseteq Objs \X Attrs /\ tmhook' \in {"none", "unregistered", "registered"}
        BY <2>3 DEF Commit, BeforeCommit, Clear, TypeOK
      <3>5. QED
        BY <2>3, <3>1, <3>2, <3>3, <3>4, NoSavepointTyping DEF Commit, TypeOK
    <2>4. CASE CommitConflict
      <3>1. ConnectionAbort
        BY <2>4 DEF CommitConflict
      <3>2. queue' \subseteq Objs \X Attrs /\ tmhook' \in {"none", "unregistered", "registered"}
        BY <2>4 DEF CommitConflict, BeforeCommit, Clear, TypeOK
      <3>3. QED
        BY <2>4, <3>1, <3>2, ConnectionAbortTyping DEF CommitConflict, TypeOK
    <2>5. CASE HookRaises
      <3>1. midx' \in Index
        BY <2>5, ReindexOneTyping DEF HookRaises
      <3>2. QED
        BY <2>5, <3>1, NoSavepointTyping DEF HookRaises, TypeOK
    <2>6. CASE Savepoint
      <3>1. jar' \subseteq Objs /\ saved \subseteq jar' /\ touched' \subseteq jar'
        BY <2>6 DEF Savepoint, TypeOK, Stored
      <3>2. sp' \in Savepoints
        BY <2>6, <3>1 DEF Savepoint, TypeOK, Savepoints
      <3>3. QED
        BY <2>6, <3>1, <3>2 DEF Savepoint, TypeOK
    <2>7. CASE Rollback
      <3>1. /\ sp.store \in Store /\ sp.val \in Attributes /\ sp.idx \in Index
            /\ sp.queue \subseteq Objs \X Attrs
        BY DEF TypeOK, Savepoints
      <3>2. mval' \in Attributes
        BY <2>7, <3>1 DEF Rollback, TypeOK, Attributes
      <3>3. puid' \in [Objs -> Uids \cup {NoUid}]
        BY <2>7, GhostsTyping DEF Rollback
      <3>4. sp' \in Savepoints /\ sp'.objs = sp.objs
        BY <2>7 DEF Rollback, TypeOK, Savepoints
      <3>5. touched' \subseteq jar
        BY <2>7 DEF Rollback, TypeOK
      <3>6. queue' \subseteq Objs \X Attrs /\ tmhook' \in {"none", "unregistered", "registered"}
        BY <2>7, <3>1 DEF Rollback, Clear, TypeOK
      <3>7. joined' \in BOOLEAN
        BY <2>7, Zenon DEF Rollback, TypeOK
      <3>8. QED
        BY <2>7, <3>1, <3>2, <3>3, <3>4, <3>5, <3>6, <3>7 DEF Rollback, TypeOK
    <2>9. ASSUME NEW o \in Objs, Remove(o) PROVE TypeOK'
      <3>1. midx' \in Index
        BY <2>9, UnindexedTyping DEF Remove, TypeOK, Index
      <3>2. mstore' \in Store
        BY <2>9 DEF Remove, TypeOK, Store
      <3>3. QED
        BY <2>9, <3>1, <3>2 DEF Remove, TypeOK
    <2>10. ASSUME NEW o \in Objs, Reindex(o) PROVE TypeOK'
      <3>1. IndexedValues(mval[o]) \in [Indexes -> Values \cup {NoEntry}]
        BY IndexedValuesTyping DEF TypeOK, Attributes
      <3>2. midx' \in Index
        BY <2>10, <3>1 DEF Reindex, TypeOK, Index
      <3>3. QED
        BY <2>10, <3>2 DEF Reindex, TypeOK
    <2>11. ASSUME NEW o \in Objs, Deactivate(o) PROVE TypeOK'
      BY <2>11, GhostsTyping DEF Deactivate, TypeOK
    <2>12. ASSUME NEW o \in Objs, NEW u \in Uids, Add(o, u) PROVE TypeOK'
      <3>1. IndexedValues(mval[o]) \in [Indexes -> Values \cup {NoEntry}]
        BY IndexedValuesTyping DEF TypeOK, Attributes
      <3>2. midx' \in Index
        BY <2>12, <3>1 DEF Add, TypeOK, Index
      <3>3. mstore' \in Store
        BY <2>12 DEF Add, TypeOK, Store
      <3>4. QED
        BY <2>12, <3>2, <3>3 DEF Add, TypeOK
    <2>13. ASSUME NEW o \in Objs, NEW u \in Uids, Fetch(o, u) PROVE TypeOK'
      BY <2>13 DEF Fetch, TypeOK
    <2>14. ASSUME NEW o \in Objs, NEW a \in Attrs, NEW v \in Values, SetAttr(o, a, v)
           PROVE  TypeOK'
      <3>1. Notify(o, a)
        BY <2>14 DEF SetAttr
      <3>2. mval' \in Attributes
        BY <2>14 DEF SetAttr, TypeOK, Attributes
      <3>3. QED
        BY <2>14, <3>1, <3>2, NotifyTyping DEF SetAttr, TypeOK
    <2>15. ASSUME NEW o \in Objs, NEW a \in Attrs, NEW v \in Values,
                  SetAttrFailed(o, a, v)
           PROVE  TypeOK'
      <3>1. Notify(o, a)
        BY <2>15 DEF SetAttrFailed
      <3>2. mval' \in Attributes
        BY <2>15 DEF SetAttrFailed, TypeOK, Attributes
      <3>3. QED
        BY <2>15, <3>1, <3>2, NotifyTyping DEF SetAttrFailed, TypeOK
    <2>16. CASE UNCHANGED vars
      BY <2>16 DEF vars, TypeOK
    <2>17. QED
      BY <2>1, <2>2, <2>3, <2>4, <2>5, <2>6, <2>7, <2>9, <2>10, <2>11,
         <2>12, <2>13, <2>14, <2>15, <2>16 DEF Next
  <1>3. QED
    BY <1>1, <1>2, PTL DEF Spec

-----------------------------------------------------------------------------
(* The inductive invariant CoreInv under careful use. *)

\* Reindexing the objects of ps, among the queued ones, repairs their entries
\* and no others: q need only keep the entries that were not reached.
LEMMA ReindexOneConsistent ==
    ASSUME TypeOK, CarefulUse, MemoryInv, QueueInv,
           NEW ps \in SUBSET queue, NEW q,
           \A e \in queue : e \in q \/ (e \in ps /\ puid[e[1]] # NoUid)
    PROVE  ConsistentButFor(mstore, mval, ReindexOne(ps), q)
  <1> SUFFICES ASSUME NEW u \in Uids
               PROVE  /\ mstore[u] = NoObj => ReindexOne(ps)[u] = Unindexed
                      /\ mstore[u] # NoObj => \A i \in Indexes :
                            \/ ReindexOne(ps)[u][i] = mval[mstore[u]][i]
                            \/ <<mstore[u], i>> \in q
    BY DEF ConsistentButFor
  <1>1. ASSUME NEW i \in Indexes, NEW o \in Reindexers(ps, u, i)
        PROVE  mstore[u] = o /\ o \in Objs /\ <<o, i>> \in ps
    <2>1. o \in Objs /\ puid[o] = u /\ <<o, i>> \in queue /\ <<o, i>> \in ps
      BY <1>1 DEF Reindexers
    <2>2. QED
      BY <2>1, SentinelsDiffer DEF QueueInv
  <1>2. CASE mstore[u] = NoObj
    <2>1. \A i \in Indexes : Reindexers(ps, u, i) = {}
      BY <1>1, <1>2, SentinelsDiffer
    <2>2. ReindexOne(ps)[u] = [i \in Indexes |-> midx[u][i]]
      BY <2>1 DEF ReindexOne, EntryAfter
    <2>3. midx[u] = Unindexed
      BY <1>2 DEF MemoryInv, ConsistentButFor
    <2>4. QED
      BY <1>2, <2>2, <2>3 DEF Unindexed
  <1>3. CASE mstore[u] # NoObj
    <2> SUFFICES ASSUME NEW i \in Indexes, <<mstore[u], i>> \notin q
                 PROVE  ReindexOne(ps)[u][i] = mval[mstore[u]][i]
      BY <1>3
    <2>1. ReindexOne(ps)[u][i] = EntryAfter(ps, u, i)
      BY DEF ReindexOne
    <2>2. Source[i] = i
      BY DEF CarefulUse
    <2>3. CASE Reindexers(ps, u, i) # {}
      <3>1. (CHOOSE o \in Reindexers(ps, u, i) : TRUE) = mstore[u]
        BY <1>1, <2>3
      <3>2. QED
        BY <2>1, <2>2, <2>3, <3>1 DEF EntryAfter
    <2>4. CASE Reindexers(ps, u, i) = {}
      <3> DEFINE o == mstore[u]
      <3>1. o \in Objs
        BY <1>3 DEF TypeOK, Store
      <3>2. <<o, i>> \notin queue
        <4> SUFFICES ASSUME <<o, i>> \in queue PROVE FALSE
          OBVIOUS
        <4>1. <<o, i>> \in ps /\ puid[o] # NoUid /\ mstore[puid[o]] = o
          BY DEF QueueInv
        <4>2. puid[o] \in Uids
          BY <3>1, <4>1 DEF TypeOK
        <4>3. puid[o] = u
          BY <1>3, <4>1, <4>2 DEF MemoryInv, StoredOnce
        <4>4. o \in Reindexers(ps, u, i)
          BY <3>1, <4>1, <4>3 DEF Reindexers
        <4>5. QED
          BY <2>4, <4>4
      <3>3. midx[u][i] = mval[o][i]
        BY <1>3, <3>2 DEF MemoryInv, ConsistentButFor
      <3>4. QED
        BY <2>1, <2>4, <3>3 DEF EntryAfter
    <2>5. QED
      BY <2>3, <2>4
  <1>4. QED
    BY <1>2, <1>3

\* After Connection.abort memory agrees with what is committed.
LEMMA AbortedMemory ==
    ASSUME TypeOK, CoreInv, ConnectionAbort, UNCHANGED <<dstore, dval, didx, saved>>,
           NEW q
    PROVE  /\ DiskInv'
           /\ ConsistentButFor(mstore', mval', midx', q)
           /\ StoredOnce(mstore') /\ NoNone(mval')
           /\ SavepointInv'
  <1>1. ASSUME NEW o \in saved PROVE mval'[o] = dval[o] /\ o \in Objs
    BY DEF ConnectionAbort, TypeOK, CoreInv, DiskInv
  <1>2. DiskInv'
    BY <1>1 DEF CoreInv, DiskInv
  <1>3. ConsistentButFor(mstore', mval', midx', q)
    BY <1>1 DEF ConnectionAbort, CoreInv, DiskInv, ConsistentButFor
  <1>4. StoredOnce(mstore')
    BY DEF ConnectionAbort, CoreInv, DiskInv
  <1>5. NoNone(mval')
    BY DEF ConnectionAbort, CoreInv, DiskInv, MemoryInv, NoNone
  <1>6. SavepointInv'
    BY DEF ConnectionAbort, NoSavepoint, SavepointInv
  <1>7. QED
    BY <1>2, <1>3, <1>4, <1>5, <1>6

\* What an abort leaves in the queue, if anything, is stored and up to date.
LEMMA AbortedQueue ==
    ASSUME TypeOK, CoreInv, ConnectionAbort, UNCHANGED <<dstore, dval, didx, saved>>,
           tmhook' # "registered", queue' \subseteq queue,
           \A e \in queue' : Settled(e[1], mstore)
    PROVE  LeftInv' /\ QueueInv'
  <1>1. ConsistentButFor(mstore', mval', midx', {})
    BY AbortedMemory
  <1>2. \A e \in queue' : Settled(e[1], mstore)'
    BY DEF ConnectionAbort, Settled
  <1>3. LeftInv'
    BY <1>1, <1>2 DEF ConnectionAbort, NoSavepoint, LeftInv
  <1>4. ASSUME NEW e \in queue', puid'[e[1]] # NoUid
        PROVE  mstore'[puid'[e[1]]] = e[1]
    <2>1. e[1] \in Objs
      BY DEF TypeOK
    <2>2. puid[e[1]] = puid'[e[1]] /\ puid[e[1]] \in Uids
      BY <1>4, <2>1 DEF ConnectionAbort, Ghosts, TypeOK
    <2>3. mstore[puid[e[1]]] = e[1]
      BY <1>4, <2>2 DEF CoreInv, QueueInv
    <2>4. PICK u \in Uids : dstore[u] = e[1] /\ mstore[u] = e[1]
      BY DEF Settled
    <2>5. u = puid[e[1]]
      BY <2>1, <2>2, <2>3, <2>4, SentinelsDiffer DEF CoreInv, MemoryInv, StoredOnce
    <2>6. QED
      BY <2>2, <2>4, <2>5 DEF ConnectionAbort
  <1>5. QueueInv'
    BY <1>2, <1>4 DEF QueueInv
  <1>6. QED
    BY <1>3, <1>5

\* Transaction.abort keeps the invariant: memory is reloaded, and the queue is
\* empty or what a failed transaction left in it.
LEMMA InvAbort ==
    ASSUME TypeOK, CarefulUse, CoreInv, Abort PROVE CoreInv'
  <1>1. ConnectionAbort /\ UNCHANGED <<dstore, dval, didx, saved>>
    BY DEF Abort, disk
  <1>2. /\ tmhook' # "registered" /\ queue' \subseteq queue
        /\ \A e \in queue' : Settled(e[1], mstore)
    BY DEF Abort, Clear, CoreInv, HookInv, LeftInv
  <1>3. DiskInv' /\ MemoryInv' /\ SavepointInv'
    BY <1>1, AbortedMemory DEF MemoryInv
  <1>4. HookInv'
    BY <1>2 DEF Abort, HookInv
  <1>5. LeftInv' /\ QueueInv'
    BY <1>1, <1>2, AbortedQueue
  <1>6. QED
    BY <1>3, <1>4, <1>5 DEF CoreInv

\* A commit that fails after the hooks keeps it: nothing was written.
LEMMA InvCommitConflict ==
    ASSUME TypeOK, CarefulUse, CoreInv, CommitConflict PROVE CoreInv'
  <1>1. ConnectionAbort /\ UNCHANGED <<dstore, dval, didx, saved>>
    BY DEF CommitConflict, disk
  <1>2. /\ tmhook' # "registered" /\ queue' \subseteq queue
        /\ \A e \in queue' : Settled(e[1], mstore)
    BY DEF CommitConflict, BeforeCommit, Clear, CoreInv, HookInv, LeftInv
  <1>3. DiskInv' /\ MemoryInv' /\ SavepointInv'
    BY <1>1, AbortedMemory DEF MemoryInv
  <1>4. HookInv'
    BY <1>2 DEF CommitConflict, HookInv
  <1>5. LeftInv' /\ QueueInv'
    BY <1>1, <1>2, AbortedQueue
  <1>6. QED
    BY <1>3, <1>4, <1>5 DEF CoreInv

\* A commit finds every entry up to date, or repairs it in the hook.
LEMMA CommittedIndex ==
    ASSUME TypeOK, CarefulUse, CoreInv, Commit
    PROVE  ConsistentButFor(mstore, mval, midx', {})
  <1>1. CASE hooks
    <2>1. midx' = ReindexOne(queue) /\ \A e \in queue : puid[e[1]] # NoUid
      BY <1>1 DEF Commit, ProcessedIndex, Processable
    <2>2. QED
      BY <2>1, ReindexOneConsistent DEF CoreInv
  <1>2. CASE ~hooks
    BY <1>2 DEF Commit, ProcessedIndex, CoreInv, HookInv, LeftInv
  <1>3. QED
    BY <1>1, <1>2

\* A commit writes a consistent state: the hook has repaired every entry.
LEMMA InvCommit ==
    ASSUME TypeOK, CarefulUse, CoreInv, Commit PROVE CoreInv'
  <1>1. /\ tmhook' # "registered" /\ sp' = NoSavepoint /\ queue' \subseteq queue
        /\ \A e \in queue' : Settled(e[1], mstore)
    BY DEF Commit, BeforeCommit, Clear, CoreInv, HookInv, LeftInv
  <1>2. ConsistentButFor(mstore, mval, midx', {})
    BY CommittedIndex
  <1>3. \A u \in Uids : mstore[u] # NoObj => mstore[u] \in jar' /\ mstore[u] \in Objs
    BY DEF Commit, Stored, Keys, TypeOK, Store
  <1>4. \A o \in jar' : o \in Objs /\ dval'[o] = mval[o]
    BY DEF Commit, Stored, TypeOK
  <1>5. DiskInv'
    <2>1. ConsistentButFor(dstore', dval', didx', {})
      BY <1>2, <1>3, <1>4 DEF Commit, ConsistentButFor
    <2>2. StoredOnce(dstore')
      BY DEF Commit, CoreInv, MemoryInv
    <2>3. NoNone(dval')
      BY DEF Commit, CoreInv, MemoryInv, DiskInv, NoNone
    <2>4. QED
      BY <1>3, <1>4, <2>1, <2>2, <2>3 DEF Commit, DiskInv
  <1>6. MemoryInv'
    BY <1>1, <1>2 DEF Commit, MemoryInv, CoreInv, ConsistentButFor
  <1>7. \A e \in queue' : Settled(e[1], mstore)'
    BY <1>1 DEF Commit, Settled
  <1>8. HookInv' /\ SavepointInv'
    BY <1>1 DEF Commit, HookInv, SavepointInv, NoSavepoint
  <1>9. LeftInv' /\ QueueInv'
    BY <1>1, <1>2, <1>7 DEF Commit, CoreInv, LeftInv, QueueInv, NoSavepoint
  <1>10. QED
    BY <1>5, <1>6, <1>8, <1>9 DEF CoreInv

\* A hook that raises half way keeps it: what was not reindexed is still queued.
LEMMA InvHookRaises ==
    ASSUME TypeOK, CarefulUse, CoreInv, HookRaises PROVE CoreInv'
  <1> USE DEF disk, machinery
  <1>1. PICK done \in SUBSET {e[1] : e \in queue} :
            /\ done # {e[1] : e \in queue}
            /\ midx' = ReindexOne({e \in queue : e[1] \in done})
            /\ \A o \in done : puid[o] # NoUid
    BY DEF HookRaises
  <1>2. tmhook = "registered"
    BY <1>1 DEF HookRaises, CoreInv, HookInv
  <1>3. ConsistentButFor(mstore, mval, midx', queue)
    BY <1>1, ReindexOneConsistent DEF CoreInv
  <1>4. MemoryInv'
    BY <1>3 DEF HookRaises, CoreInv, MemoryInv
  <1>5. SavepointInv'
    BY DEF HookRaises, SavepointInv, NoSavepoint
  <1>6. LeftInv'
    BY <1>2 DEF HookRaises, CoreInv, LeftInv, NoSavepoint
  <1>7. DiskInv' /\ HookInv' /\ QueueInv'
    BY <1>2 DEF HookRaises, CoreInv, DiskInv, HookInv, QueueInv, Settled
  <1>8. QED
    BY <1>4, <1>5, <1>6, <1>7 DEF CoreInv

\* Taking a savepoint keeps it: the copied queue covers what is out of date.
LEMMA InvSavepoint ==
    ASSUME TypeOK, CarefulUse, CoreInv, Savepoint PROVE CoreInv'
  <1> USE DEF disk, machinery
  <1>1. DiskInv'
    BY DEF Savepoint, CoreInv, DiskInv
  <1>2. MemoryInv' /\ HookInv'
    BY DEF Savepoint, CoreInv, MemoryInv, HookInv
  <1>3. \A e \in queue : e[1] \in touched' \/ Settled(e[1], mstore)
    <2> SUFFICES ASSUME NEW e \in queue, e[1] \notin touched, ~Settled(e[1], mstore)
                 PROVE  e[1] \in Stored(mstore) \ jar
      BY DEF Savepoint
    <2>1. e[1] \notin jar /\ puid[e[1]] # NoUid /\ mstore[puid[e[1]]] = e[1]
      BY DEF CoreInv, QueueInv
    <2>2. e[1] \in Objs
      BY DEF TypeOK
    <2>3. QED
      BY <2>1, <2>2 DEF Stored, Keys, TypeOK
  <1>4. UNCHANGED <<mstore, dstore, mval, midx, queue, puid, tmhook, joined, txn>>
    BY DEF Savepoint
  <1>5. \A e \in queue : Settled(e[1], mstore) => Settled(e[1], mstore)'
    BY <1>4 DEF Settled
  <1>6. QueueInv'
    BY <1>3, <1>4, <1>5 DEF Savepoint, CoreInv, QueueInv
  <1>7. /\ sp'.store = mstore /\ sp'.val = mval /\ sp'.idx = midx
        /\ sp'.objs = touched' /\ sp'.queue = (IF joined THEN queue ELSE {})
        /\ sp'.kind = (IF joined THEN "state" ELSE "abort")
    BY DEF Savepoint
  <1>8. LeftInv'
    <2>1. ~joined => tmhook # "registered"
      BY DEF CoreInv, HookInv
    <2>2. ASSUME NEW e PROVE Settled(e[1], mstore)' <=> Settled(e[1], sp.store)'
      BY <1>4, <1>7 DEF Settled
    <2>3. QED
      BY <1>4, <1>5, <1>7, <2>1, <2>2 DEF Savepoint, CoreInv, LeftInv
  <1>9. SavepointInv'
    <2>1. /\ ConsistentButFor(mstore, mval, midx, sp'.queue)
          /\ StoredOnce(mstore) /\ NoNone(mval)
      BY <1>7 DEF CoreInv, MemoryInv, HookInv, LeftInv
    <2>2. joined => tmhook' = "registered"
      BY <1>4 DEF Savepoint, CoreInv, HookInv
    <2>3. \A u \in Uids : mstore[u] # NoObj => mstore[u] \in jar'
      BY DEF Savepoint, Stored, Keys, TypeOK, Store
    <2>4. \A o \in saved' \ touched' : mval[o] = dval'[o]
      BY <1>1, <1>4 DEF DiskInv
    <2>5. \A e \in sp'.queue : e \in queue
      BY <1>7
    <2>6. \A e \in sp'.queue : e[1] \in touched' \/ Settled(e[1], sp.store)'
      BY <1>3, <1>4, <1>5, <1>7, <2>5 DEF Settled
    <2>7. txn' = "active"
      BY <1>4 DEF Savepoint
    <2>8. QED
      BY <1>4, <1>7, <2>1, <2>2, <2>3, <2>4, <2>5, <2>6, <2>7 DEF SavepointInv
  <1>10. QED
    BY <1>1, <1>2, <1>6, <1>8, <1>9 DEF CoreInv

\* A rollback restores a state that is consistent but for the restored queue.
LEMMA InvRollback ==
    ASSUME TypeOK, CarefulUse, CoreInv, Rollback PROVE CoreInv'
  <1> USE DEF disk
  <1>1. sp.kind # "none" /\ ~sp.alias
    BY DEF Rollback, CarefulUse
  <1>2. SavepointInv /\ sp \in Savepoints
    BY DEF CoreInv, TypeOK
  <1>3. \A o \in jar : mval'[o] = sp.val[o]
    BY <1>1, <1>2 DEF Rollback, SavepointInv, TypeOK
  <1>4. /\ sp'.kind = sp.kind /\ sp'.store = sp.store /\ sp'.val = sp.val
        /\ sp'.idx = sp.idx /\ sp'.objs = sp.objs /\ sp'.queue = sp.queue
    BY <1>2 DEF Rollback, Savepoints
  <1>5. /\ queue' \subseteq queue /\ sp.queue \subseteq queue'
        /\ \A e \in queue' : e[1] \in sp.objs \/ Settled(e[1], sp.store)
        /\ tmhook' # "registered" => sp.queue = {}
        /\ tmhook' # "registered" => \A e \in queue' : Settled(e[1], sp.store)
    BY <1>1, <1>2 DEF Rollback, Clear, SavepointInv, CoreInv, HookInv, LeftInv
  <1>6. DiskInv'
    BY <1>1, <1>2, <1>3 DEF Rollback, CoreInv, DiskInv, SavepointInv, TypeOK
  <1>7. ConsistentButFor(mstore', mval', midx', sp.queue)
    BY <1>1, <1>2, <1>3 DEF Rollback, SavepointInv, ConsistentButFor
  <1>8. MemoryInv'
    <2>1. ConsistentButFor(mstore', mval', midx', queue')
      BY <1>5, <1>7 DEF ConsistentButFor
    <2>2. NoNone(mval')
      BY <1>1, <1>2 DEF Rollback, SavepointInv, NoNone, CoreInv, MemoryInv
    <2>3. QED
      BY <1>1, <1>2, <2>1, <2>2 DEF Rollback, SavepointInv, MemoryInv
  <1>9. HookInv'
    BY <1>1, <1>2 DEF Rollback, Clear, SavepointInv, CoreInv, HookInv
  <1>10. \A e : /\ Settled(e[1], sp.store) => Settled(e[1], mstore)'
                /\ Settled(e[1], sp.store) => Settled(e[1], sp.store)'
    BY <1>4 DEF Rollback, Settled
  <1>11. LeftInv'
    <2>1. tmhook' # "registered" => ConsistentButFor(mstore', mval', midx', {})
      BY <1>5, <1>7
    <2>2. \A e \in queue' : tmhook' # "registered" =>
            Settled(e[1], mstore)' /\ Settled(e[1], sp.store)'
      BY <1>5, <1>10
    <2>3. ~joined' /\ sp.kind = "abort" => tmhook' # "registered"
      BY DEF Rollback, Clear, CoreInv, HookInv
    <2>4. txn' = "active"
      BY DEF Rollback
    <2>5. QED
      BY <1>4, <2>1, <2>2, <2>3, <2>4 DEF LeftInv
  <1>12. QueueInv'
    <2> SUFFICES ASSUME NEW e \in queue'
                 PROVE  /\ e[1] \in touched' \/ Settled(e[1], mstore)'
                        /\ puid'[e[1]] # NoUid => mstore'[puid'[e[1]]] = e[1]
      BY DEF QueueInv
    <2>1. e[1] \in Objs
      BY <1>5 DEF TypeOK
    <2>2. touched' = sp.objs /\ puid'[e[1]] = IF e[1] \in touched THEN NoUid ELSE puid[e[1]]
      BY <2>1 DEF Rollback, Ghosts
    <2>3. CASE e[1] \in sp.objs
      BY <1>1, <1>2, <2>2, <2>3 DEF SavepointInv
    <2>4. CASE Settled(e[1], sp.store) /\ puid'[e[1]] # NoUid
      <3>1. mstore[puid[e[1]]] = e[1] /\ puid'[e[1]] = puid[e[1]] /\ puid[e[1]] \in Uids
        BY <1>5, <2>1, <2>2, <2>4 DEF CoreInv, QueueInv, TypeOK
      <3>2. PICK u \in Uids : mstore[u] = e[1] /\ sp.store[u] = e[1]
        BY <2>4 DEF Settled
      <3>3. u = puid[e[1]]
        BY <2>1, <3>1, <3>2, SentinelsDiffer DEF CoreInv, MemoryInv, StoredOnce
      <3>4. QED
        BY <1>10, <2>4, <3>1, <3>2, <3>3 DEF Rollback
    <2>5. QED
      BY <1>5, <1>10, <2>3, <2>4
  <1>13. SavepointInv'
    <2>1. sp.kind = "state" => tmhook' = "registered"
      BY <1>1, <1>2 DEF Rollback, SavepointInv
    <2>2. touched' = sp.objs /\ UNCHANGED <<jar, saved, dval>> /\ txn' = "active"
      BY DEF Rollback
    <2>3. \A o \in jar \ sp.objs : sp.val[o] = mval'[o]
      BY <1>3
    <2>4. \A e \in sp.queue : e[1] \in sp.objs \/ Settled(e[1], sp.store)'
      BY <1>5, <1>10
    <2>5. QED
      BY <1>1, <1>2, <1>4, <1>5, <2>1, <2>2, <2>3, <2>4 DEF SavepointInv
  <1>14. QED
    BY <1>6, <1>8, <1>9, <1>11, <1>12, <1>13 DEF CoreInv

\* A modification of a stored object is queued and hooked before it is made.
LEMMA InvSetAttr ==
    ASSUME TypeOK, CarefulUse, CoreInv,
           NEW o \in Objs, NEW a \in Attrs, NEW v \in Values, SetAttr(o, a, v)
    PROVE  CoreInv'
  <1> USE DEF disk, machinery
  <1>1. /\ v # None /\ txn = "active"
        /\ puid[o] # NoUid => mstore[puid[o]] = o
        /\ puid[o] = NoUid => Keys(mstore, o) = {}
        /\ Notify(o, a)
        /\ touched' = touched \cup ({o} \cap jar)
    BY DEF SetAttr, CarefulUse, CarefulHandle, Keys
  <1>2. mval[o][a] # None
    BY DEF CoreInv, MemoryInv, NoNone
  <1>3. /\ queue \subseteq queue' /\ queue' \subseteq queue \cup {<<o, a>>}
        /\ a \in Indexes /\ puid[o] # NoUid => <<o, a>> \in queue'
        /\ <<o, a>> \in queue' => <<o, a>> \in queue \/ puid[o] # NoUid
    BY <1>1, <1>2 DEF Notify, Notifies, QueueReindex
  <1>4. \A p \in Objs : p # o => mval'[p] = mval[p]
    BY DEF SetAttr, TypeOK, Attributes
  <1>5. \A b \in Attrs : mval'[o][b] = IF b = a THEN v ELSE mval[o][b]
    BY DEF SetAttr, TypeOK, Attributes
  <1>6. DiskInv'
    BY <1>1, <1>4 DEF SetAttr, CoreInv, DiskInv, TypeOK
  <1>7. MemoryInv'
    <2>1. ConsistentButFor(mstore', mval', midx', queue')
      <3> SUFFICES ASSUME NEW u \in Uids
                   PROVE  /\ mstore[u] = NoObj => midx[u] = Unindexed
                          /\ mstore[u] # NoObj => \A i \in Indexes :
                                \/ midx[u][i] = mval'[mstore[u]][i]
                                \/ <<mstore[u], i>> \in queue'
        BY DEF SetAttr, ConsistentButFor
      <3>1. /\ mstore[u] = NoObj => midx[u] = Unindexed
            /\ mstore[u] # NoObj => \A i \in Indexes :
                    \/ midx[u][i] = mval[mstore[u]][i]
                    \/ <<mstore[u], i>> \in queue
        BY DEF CoreInv, MemoryInv, ConsistentButFor
      <3>2. mstore[u] = o => puid[o] # NoUid
        BY <1>1 DEF Keys
      <3>3. \A i \in Indexes : i \in Attrs
        BY SourceType DEF CarefulUse
      <3>4. mstore[u] \in Objs \cup {NoObj}
        BY DEF TypeOK, Store
      <3>5. QED
        BY <1>3, <1>4, <1>5, <3>1, <3>2, <3>3, <3>4
    <2>2. NoNone(mval')
      BY <1>1, <1>4, <1>5 DEF CoreInv, MemoryInv, NoNone
    <2>3. QED
      BY <2>1, <2>2 DEF SetAttr, CoreInv, MemoryInv
  <1>8. HookInv'
    BY <1>1 DEF SetAttr, CoreInv, HookInv, Notify, QueueReindex, Register
  <1>9. \A e, st : Settled(e[1], st) =>
            \E u \in Uids : dstore'[u] = e[1] /\ mstore'[u] = e[1] /\ st[u] = e[1]
    BY DEF SetAttr, Settled
  <1>12. QueueInv'
    <2>1. UNCHANGED <<puid, mstore, jar>> /\ touched \subseteq touched'
      BY <1>1 DEF SetAttr
    <2>2. <<o, a>> \in queue' \ queue =>
            /\ o \in touched' \/ (o \notin jar /\ puid[o] # NoUid)
            /\ puid[o] # NoUid => mstore[puid[o]] = o
      BY <1>1, <1>3
    <2>3. \A e \in queue : Settled(e[1], mstore) => Settled(e[1], mstore)'
      BY <2>1, <1>9 DEF Settled
    <2>4. QED
      BY <1>3, <2>1, <2>2, <2>3 DEF CoreInv, QueueInv
  <1>13. LeftInv'
    <2>1. UNCHANGED <<sp, mstore, midx, txn>>
      BY DEF SetAttr
    <2>2. tmhook' # "registered" => queue' = queue /\ tmhook # "registered"
      BY <1>1 DEF Notify, QueueReindex, Register
    <2>3. ~joined' => queue' = queue /\ ~joined
      BY <1>1 DEF CoreInv, HookInv, Notify, QueueReindex, Register
    <2>4. ASSUME tmhook' # "registered" PROVE ConsistentButFor(mstore, mval', midx, {})
      <3>1. o \notin Stored(mstore) \/ a \notin Indexes
        BY <1>1, <1>2, <2>4 DEF Notify, Notifies, QueueReindex, Register, Stored
      <3>2. \A u \in Uids : mstore[u] \in Objs \cup {NoObj}
        BY DEF TypeOK, Store
      <3>3. \A u \in Uids, i \in Indexes :
                mstore[u] # NoObj => mval'[mstore[u]][i] = mval[mstore[u]][i]
        BY <1>4, <1>5, <3>1, <3>2, SourceType DEF Stored, Keys, CarefulUse
      <3>4. ConsistentButFor(mstore, mval, midx, {})
        BY <2>2, <2>4 DEF CoreInv, LeftInv
      <3>5. QED
        BY <3>3, <3>4 DEF ConsistentButFor
    <2>5. \A e : /\ Settled(e[1], mstore) => Settled(e[1], mstore)'
                 /\ Settled(e[1], sp.store) => Settled(e[1], sp.store)'
      BY <1>9, <2>1 DEF Settled
    <2>6. QED
      BY <1>1, <2>1, <2>2, <2>3, <2>4, <2>5 DEF CoreInv, LeftInv
  <1>10. SavepointInv'
    <2>1. UNCHANGED <<sp, jar, saved, dval>>
      BY DEF SetAttr
    <2>2. tmhook = "registered" => tmhook' = "registered"
      BY <1>1 DEF Notify, QueueReindex, Register
    <2>3. \A p \in jar \ touched' : p \in jar \ touched /\ mval'[p] = mval[p]
      BY <1>1, <1>4 DEF TypeOK
    <2>4. \A e : Settled(e[1], sp.store) => Settled(e[1], sp.store)'
      BY <1>9, <2>1 DEF Settled
    <2>5. UNCHANGED txn
      BY DEF SetAttr
    <2>6. QED
      BY <1>1, <1>3, <2>1, <2>2, <2>3, <2>4, <2>5 DEF CoreInv, SavepointInv
  <1>11. QED
    BY <1>6, <1>7, <1>8, <1>10, <1>12, <1>13 DEF CoreInv

\* DbModel.add keeps it: the new object is indexed at once under a free uid.
LEMMA InvAdd ==
    ASSUME TypeOK, CarefulUse, CoreInv,
           NEW o \in Objs, NEW u \in Uids, Add(o, u)
    PROVE  CoreInv'
  <1> USE DEF disk, machinery
  <1>1. /\ \A w \in Uids : mstore[w] # o
        /\ mstore[u] = NoObj
        /\ \A w \in Uids : mstore'[w] = IF w = u THEN o ELSE mstore[w]
        /\ \A w \in Uids : midx'[w] = IF w = u THEN IndexedValues(mval[o]) ELSE midx[w]
        /\ \A p \in Objs : puid'[p] = IF p = o THEN u ELSE puid[p]
        /\ mval' = mval /\ queue' = queue
    BY DEF Add, Keys, TypeOK, Store, Index
  <1>2. MemoryInv'
    <2>1. \A i \in Indexes : IndexedValues(mval[o])[i] = mval[o][i]
      BY DEF IndexedValues, CarefulUse
    <2>2. ConsistentButFor(mstore', mval', midx', queue')
      BY <1>1, <2>1, SentinelsDiffer DEF CoreInv, MemoryInv, ConsistentButFor
    <2>3. StoredOnce(mstore')
      BY <1>1 DEF CoreInv, MemoryInv, StoredOnce
    <2>4. QED
      BY <1>1, <2>2, <2>3 DEF CoreInv, MemoryInv
  <1>3. \A p \in Objs : \A st : Settled(p, st) =>
            \E w \in Uids : dstore'[w] = p /\ mstore'[w] = p /\ st[w] = p
    BY <1>1, SentinelsDiffer DEF Add, Settled
  <1>4. \A e \in queue : e[1] \in Objs
    BY DEF TypeOK
  <1>5. \A e \in queue : /\ Settled(e[1], mstore) => Settled(e[1], mstore)'
                         /\ Settled(e[1], sp.store) => Settled(e[1], sp.store)'
    BY <1>3, <1>4 DEF Settled, Add
  <1>6. QueueInv'
    <2> SUFFICES ASSUME NEW e \in queue
                 PROVE  /\ \/ e[1] \in touched'
                           \/ e[1] \notin jar' /\ puid'[e[1]] # NoUid
                           \/ Settled(e[1], mstore)'
                        /\ puid'[e[1]] # NoUid => mstore'[puid'[e[1]]] = e[1]
      BY <1>1 DEF QueueInv
    <2>1. e[1] \in Objs
      BY <1>4
    <2>2. /\ \/ e[1] \in touched
             \/ e[1] \notin jar /\ puid[e[1]] # NoUid
             \/ Settled(e[1], mstore)
          /\ puid[e[1]] # NoUid => mstore[puid[e[1]]] = e[1]
      BY DEF CoreInv, QueueInv
    <2>3. puid[e[1]] \in Uids \cup {NoUid}
      BY <2>1 DEF TypeOK
    <2>4. puid'[e[1]] # NoUid => mstore'[puid'[e[1]]] = e[1]
      BY <1>1, <2>1, <2>2, <2>3, SentinelsDiffer
    <2>5. puid[e[1]] # NoUid => puid'[e[1]] # NoUid
      BY <1>1, <2>1, SentinelsDiffer
    <2>6. UNCHANGED <<touched, jar>>
      BY DEF Add
    <2>7. QED
      BY <1>5, <2>2, <2>4, <2>5, <2>6
  <1>7. LeftInv'
    <2>1. tmhook # "registered" => ConsistentButFor(mstore', mval', midx', {})
      <3>1. \A i \in Indexes : IndexedValues(mval[o])[i] = mval[o][i]
        BY DEF IndexedValues, CarefulUse
      <3>2. QED
        BY <1>1, <3>1, SentinelsDiffer DEF CoreInv, LeftInv, ConsistentButFor
    <2>2. UNCHANGED <<tmhook, joined, sp, queue, txn>> /\ txn = "active"
      BY DEF Add
    <2>3. QED
      BY <1>5, <2>1, <2>2 DEF CoreInv, LeftInv
  <1>8. SavepointInv'
    <2>1. UNCHANGED <<sp, queue, jar, saved, touched, mval, dval, txn, tmhook>>
      BY DEF Add
    <2>2. sp.kind # "none" =>
            \A e \in sp.queue : Settled(e[1], sp.store) => Settled(e[1], sp.store)'
      BY <1>5 DEF CoreInv, SavepointInv
    <2>3. QED
      BY <2>1, <2>2 DEF CoreInv, SavepointInv
  <1>9. DiskInv' /\ HookInv'
    BY DEF Add, CoreInv, DiskInv, HookInv
  <1>10. QED
    BY <1>2, <1>6, <1>7, <1>8, <1>9 DEF CoreInv

\* DbModel.remove keeps it, for an object that has nothing in the queue.
LEMMA InvRemove ==
    ASSUME TypeOK, CarefulUse, CoreInv, NEW o \in Objs, Remove(o)
    PROVE  CoreInv'
  <1> USE DEF disk, machinery
  <1> DEFINE u == puid[o]
  <1>1. u \in Uids /\ mstore[u] = o
    BY DEF Remove, CarefulUse, CarefulUid, TypeOK
  <1>2. /\ \A w \in Uids : mstore'[w] = IF w = u THEN NoObj ELSE mstore[w]
        /\ \A w \in Uids : midx'[w] = IF w = u THEN Unindexed ELSE midx[w]
        /\ UNCHANGED <<mval, queue, puid, touched, jar>>
    BY DEF Remove, TypeOK, Store, Index
  <1>3. \A e \in queue : e[1] # o
    BY DEF Remove, CarefulUse, TypeOK
  <1>4. MemoryInv'
    <2>1. ConsistentButFor(mstore', mval', midx', queue')
      BY <1>2 DEF CoreInv, MemoryInv, ConsistentButFor
    <2>2. StoredOnce(mstore')
      BY <1>2 DEF CoreInv, MemoryInv, StoredOnce
    <2>3. QED
      BY <1>2, <2>1, <2>2 DEF CoreInv, MemoryInv
  <1>5. \A e \in queue : \A st : Settled(e[1], st) =>
            \E w \in Uids : dstore'[w] = e[1] /\ mstore'[w] = e[1] /\ st[w] = e[1]
    BY <1>1, <1>2, <1>3 DEF Remove, Settled
  <1>6. \A e \in queue : /\ Settled(e[1], mstore) => Settled(e[1], mstore)'
                         /\ Settled(e[1], sp.store) => Settled(e[1], sp.store)'
    BY <1>5 DEF Settled, Remove
  <1>7. QueueInv'
    <2> SUFFICES ASSUME NEW e \in queue, puid[e[1]] # NoUid
                 PROVE  mstore'[puid[e[1]]] = e[1]
      BY <1>2, <1>6 DEF CoreInv, QueueInv
    <2>1. mstore[puid[e[1]]] = e[1] /\ puid[e[1]] \in Uids
      BY DEF CoreInv, QueueInv, TypeOK
    <2>2. QED
      BY <1>1, <1>2, <1>3, <2>1
  <1>8. LeftInv'
    <2>1. tmhook # "registered" => ConsistentButFor(mstore', mval', midx', {})
      BY <1>2 DEF CoreInv, LeftInv, ConsistentButFor
    <2>2. UNCHANGED <<tmhook, joined, sp, queue, txn>> /\ txn = "active"
      BY DEF Remove
    <2>3. QED
      BY <1>6, <2>1, <2>2 DEF CoreInv, LeftInv
  <1>9. SavepointInv'
    <2>1. UNCHANGED <<sp, queue, jar, saved, touched, mval, dval, txn, tmhook>>
      BY DEF Remove
    <2>2. sp.kind # "none" =>
            \A e \in sp.queue : Settled(e[1], sp.store) => Settled(e[1], sp.store)'
      BY <1>6 DEF CoreInv, SavepointInv
    <2>3. QED
      BY <2>1, <2>2 DEF CoreInv, SavepointInv
  <1>10. DiskInv' /\ HookInv'
    BY DEF Remove, CoreInv, DiskInv, HookInv
  <1>11. QED
    BY <1>4, <1>7, <1>8, <1>9, <1>10 DEF CoreInv

\* What is neither stored nor removed stays settled.
LEMMA SettledStays ==
    ASSUME UNCHANGED <<dstore, mstore, sp>>, NEW o
    PROVE  /\ Settled(o, mstore)' <=> Settled(o, mstore)
           /\ Settled(o, sp.store)' <=> Settled(o, sp.store)
  BY DEF Settled

\* DbModel.reindex keeps it: an entry is only brought up to date.
LEMMA InvReindex ==
    ASSUME TypeOK, CarefulUse, CoreInv, NEW o \in Objs, Reindex(o)
    PROVE  CoreInv'
  <1> USE DEF disk, machinery
  <1>1. puid[o] \in Uids /\ mstore[puid[o]] = o
    BY DEF Reindex, CarefulUse, CarefulUid, TypeOK
  <1>2. \A w \in Uids :
            midx'[w] = IF w = puid[o] THEN IndexedValues(mval[o]) ELSE midx[w]
    BY DEF Reindex, TypeOK, Index
  <1>3. \A i \in Indexes : IndexedValues(mval[o])[i] = mval[o][i]
    BY DEF IndexedValues, CarefulUse
  <1>4. UNCHANGED <<dstore, dval, didx, saved, mstore, mval, jar, touched, puid,
                    queue, tmhook, joined, hooks, txn, sp>>
    BY DEF Reindex
  <1>5. \A q : ConsistentButFor(mstore, mval, midx, q) =>
               ConsistentButFor(mstore', mval', midx', q)
    BY <1>1, <1>2, <1>3, <1>4, SentinelsDiffer DEF ConsistentButFor
  <1>6. MemoryInv'
    BY <1>4, <1>5 DEF CoreInv, MemoryInv
  <1>7. LeftInv' /\ QueueInv' /\ SavepointInv'
    BY <1>4, <1>5, SettledStays DEF CoreInv, LeftInv, QueueInv, SavepointInv
  <1>8. QED
    BY <1>4, <1>6, <1>7 DEF CoreInv, DiskInv, HookInv

\* Fetching an object keeps it: the handle gets the uid of its object.
LEMMA InvFetch ==
    ASSUME TypeOK, CarefulUse, CoreInv, NEW o \in Objs, NEW u \in Uids, Fetch(o, u)
    PROVE  CoreInv'
  <1> USE DEF disk, memory, machinery
  <1>1. \A p \in Objs : puid'[p] = IF p = o THEN u ELSE puid[p]
    BY DEF Fetch, TypeOK
  <1>2. UNCHANGED <<dstore, dval, didx, saved, mstore, mval, midx, jar, touched,
                    queue, tmhook, joined, hooks, txn, sp>>
    BY DEF Fetch
  <1>3. \A e \in queue : e[1] \in Objs
    BY DEF TypeOK
  <1>4. QueueInv'
    BY <1>1, <1>2, <1>3, SettledStays, SentinelsDiffer DEF Fetch, CoreInv, QueueInv
  <1>5. LeftInv' /\ SavepointInv'
    BY <1>2, SettledStays DEF CoreInv, LeftInv, SavepointInv
  <1>6. QED
    BY <1>2, <1>4, <1>5 DEF CoreInv, MemoryInv, DiskInv, HookInv

\* Between transactions what is still queued is settled, with or without a uid.
LEMMA InvDeactivate ==
    ASSUME TypeOK, CarefulUse, CoreInv, NEW o \in Objs, Deactivate(o)
    PROVE  CoreInv'
  <1> USE DEF disk, memory, machinery
  <1>1. tmhook # "registered"
    BY DEF Deactivate, CoreInv, HookInv
  <1>2. UNCHANGED <<dstore, dval, didx, saved, mstore, mval, midx, jar, touched,
                    queue, tmhook, joined, hooks, txn, sp>>
    BY DEF Deactivate
  <1>3. \A e \in queue : puid'[e[1]] # NoUid => puid'[e[1]] = puid[e[1]]
    BY DEF Deactivate, Ghosts, TypeOK
  <1>4. QueueInv'
    BY <1>1, <1>2, <1>3, SettledStays DEF CoreInv, LeftInv, QueueInv
  <1>5. LeftInv' /\ SavepointInv'
    BY <1>2, SettledStays DEF CoreInv, LeftInv, SavepointInv
  <1>6. QED
    BY <1>2, <1>4, <1>5 DEF CoreInv, MemoryInv, DiskInv, HookInv

\* Using a transaction that failed keeps it: nothing is registered as changed, and
\* what is queued is an object that is stored as it was.
LEMMA InvSetAttrFailed ==
    ASSUME TypeOK, CarefulUse, CoreInv,
           NEW o \in Objs, NEW a \in Attrs, NEW v \in Values, SetAttrFailed(o, a, v)
    PROVE  CoreInv'
  <1> USE DEF disk, machinery
  <1>1. /\ txn = "failed" /\ sp.kind = "none" /\ tmhook # "registered"
        /\ mstore = dstore /\ v # None
        /\ UNCHANGED <<dstore, dval, didx, saved, mstore, midx, jar, touched, puid, txn, sp>>
    BY SentinelsDiffer
       DEF SetAttrFailed, CoreInv, HookInv, LeftInv, SavepointInv
  <1>2. Notify(o, a) /\ CarefulHandle(o)
    BY DEF SetAttrFailed
  <1>3. /\ tmhook' # "registered" /\ UNCHANGED <<joined, hooks>>
        /\ queue \subseteq queue' /\ queue' \subseteq queue \cup {<<o, a>>}
        /\ <<o, a>> \in queue' => <<o, a>> \in queue \/ puid[o] # NoUid
    BY <1>1, <1>2 DEF Notify, Notifies, QueueReindex, Register
  <1>4. puid[o] # NoUid => Settled(o, mstore) /\ mstore[puid[o]] = o
    BY <1>1, <1>2 DEF CarefulHandle, CarefulUse, Keys, Settled
  <1>5. \A e \in queue' : /\ Settled(e[1], mstore)
                          /\ puid[e[1]] # NoUid => mstore[puid[e[1]]] = e[1]
    BY <1>1, <1>3, <1>4 DEF CoreInv, LeftInv, QueueInv
  <1>6. /\ \A p \in jar : mval'[p] = mval[p]
        /\ \A p \in Objs, b \in Attrs : mval'[p][b] \in {mval[p][b], v}
    BY DEF SetAttrFailed, TypeOK, Attributes
  <1>7. \A u \in Uids : mstore[u] # NoObj => mstore[u] \in jar
    BY <1>1 DEF CoreInv, DiskInv, TypeOK
  <1>8. ConsistentButFor(mstore', mval', midx', {})
    BY <1>1, <1>6, <1>7 DEF CoreInv, LeftInv, ConsistentButFor
  <1>9. DiskInv'
    BY <1>1, <1>6 DEF CoreInv, DiskInv, TypeOK
  <1>10. MemoryInv'
    <2>1. ConsistentButFor(mstore', mval', midx', queue')
      BY <1>8 DEF ConsistentButFor
    <2>2. NoNone(mval')
      BY <1>1, <1>6 DEF CoreInv, MemoryInv, NoNone
    <2>3. QED
      BY <1>1, <2>1, <2>2 DEF CoreInv, MemoryInv
  <1>11. HookInv' /\ SavepointInv'
    <2>1. ~hooks
      BY <1>1 DEF CoreInv, HookInv
    <2>2. QED
      BY <1>1, <1>3, <2>1 DEF CoreInv, HookInv, SavepointInv
  <1>12. LeftInv' /\ QueueInv'
    BY <1>1, <1>5, <1>8, SettledStays DEF LeftInv, QueueInv
  <1>13. QED
    BY <1>9, <1>10, <1>11, <1>12 DEF CoreInv

\* Under careful use every step of the client keeps disk, memory, hook, queue and
\* savepoint in agreement (Model.__setattr__, IndexQueue, QueueTM, DbModel).
THEOREM CoreInvariance ==
    ASSUME CarefulUse
    PROVE  Spec => []CoreInv
  <1>1. Init => CoreInv
    <2> SUFFICES ASSUME Init PROVE CoreInv
      OBVIOUS
    <2>1. NoNone(dval)
      BY SentinelsDiffer DEF Init, NoNone, CarefulUse
    <2>2. StoredOnce(dstore) /\ ConsistentButFor(dstore, dval, didx, {})
      BY DEF Init, StoredOnce, ConsistentButFor
    <2>3. DiskInv
      BY <2>1, <2>2 DEF Init, DiskInv
    <2>4. MemoryInv
      BY <2>1, <2>2 DEF Init, MemoryInv
    <2>5. HookInv /\ QueueInv /\ SavepointInv
      BY DEF Init, HookInv, QueueInv, SavepointInv, NoSavepoint
    <2>7. LeftInv
      BY <2>2 DEF Init, LeftInv, NoSavepoint, ConsistentButFor
    <2>6. QED
      BY <2>3, <2>4, <2>5, <2>7 DEF CoreInv
  <1>2. TypeOK /\ CoreInv /\ [Next]_vars => CoreInv'
    <2> SUFFICES ASSUME TypeOK, CoreInv, [Next]_vars PROVE CoreInv'
      OBVIOUS
    <2>1. CASE Begin
      <3>1. /\ UNCHANGED <<dstore, dval, didx, saved, mstore, mval, midx, jar, touched>>
            /\ UNCHANGED <<puid, queue, tmhook, joined, hooks, sp>>
            /\ txn = "none" /\ txn' = "active"
        BY <2>1 DEF Begin, disk, memory, machinery
      <3>2. QED
        BY <3>1, SettledStays DEF CoreInv, MemoryInv, DiskInv, HookInv, LeftInv,
           QueueInv, SavepointInv
    <2>4. CASE UNCHANGED vars
      <3>1. /\ UNCHANGED <<dstore, dval, didx, saved, mstore, mval, midx, jar, touched>>
            /\ UNCHANGED <<puid, queue, tmhook, joined, hooks, sp, txn>>
        BY <2>4 DEF vars, disk, memory, machinery
      <3>2. QED
        BY <3>1, SettledStays DEF CoreInv, MemoryInv, DiskInv, HookInv, LeftInv,
           QueueInv, SavepointInv
    <2>5. QED
      BY <2>1, <2>4, InvAbort, InvCommit, InvCommitConflict, InvHookRaises,
         InvSavepoint, InvRollback, InvSetAttr, InvSetAttrFailed, InvAdd, InvRemove,
         InvReindex, InvFetch, InvDeactivate DEF Next
  <1>3. QED
    BY <1>1, <1>2, Typing, PTL DEF Spec

\* Under careful use, for any number of objects, uids, attributes and values,
\* no modification is forgotten in memory (Model.__setattr__, QueueTM).
THEOREM NothingForgotten ==
    ASSUME CarefulUse
    PROVE  Spec => []NoLostReindex
  <1>1. TypeOK /\ CoreInv => NoLostReindex
    BY DEF CoreInv, MemoryInv, ConsistentButFor, NoLostReindex, OutOfDate, CarefulUse
  <1>2. QED
    BY <1>1, Typing, CoreInvariance, PTL

\* Under careful use an entry that is out of date is covered by a hook of a
\* transaction that can still commit (IndexQueue.hook, QueueTM.register).
THEOREM HookHolds ==
    ASSUME CarefulUse
    PROVE  Spec => []OutOfDateIsHooked
  <1>1. TypeOK /\ CoreInv => OutOfDateIsHooked
    <2> SUFFICES ASSUME TypeOK, CoreInv, NEW u \in Uids, NEW i \in Indexes,
                        OutOfDate(u, i)
                 PROVE  txn = "active" /\ joined /\ hooks /\ tmhook = "registered"
      BY DEF OutOfDateIsHooked
    <2>1. <<mstore[u], i>> \in queue
      BY DEF CoreInv, MemoryInv, ConsistentButFor, OutOfDate, CarefulUse
    <2>2. tmhook = "registered"
      <3> SUFFICES ASSUME tmhook # "registered" PROVE FALSE
        OBVIOUS
      <3>1. ConsistentButFor(mstore, mval, midx, {})
        BY DEF CoreInv, LeftInv
      <3>2. QED
        BY <3>1 DEF ConsistentButFor, OutOfDate, CarefulUse
    <2>3. QED
      BY <2>2 DEF CoreInv, HookInv
  <1>2. QED
    BY <1>1, Typing, CoreInvariance, PTL

\* Under careful use, for any number of objects, uids, attributes and values,
\* what is committed is consistent: queries see exactly the stored objects and
\* their present values (DbModel.add, remove, the before-commit hook).
THEOREM IndexIsKept ==
    ASSUME CarefulUse
    PROVE  Spec => []IndexMatchesObjects
  <1>1. TypeOK /\ CoreInv => IndexMatchesObjects
    <2> SUFFICES ASSUME TypeOK, CoreInv, NEW u \in Uids
                 PROVE  didx[u] = IF dstore[u] = NoObj THEN Unindexed
                                  ELSE IndexedValues(dval[dstore[u]])
      BY DEF IndexMatchesObjects, Consistent
    <2>1. /\ dstore[u] = NoObj => didx[u] = Unindexed
          /\ dstore[u] # NoObj => \A i \in Indexes : didx[u][i] = dval[dstore[u]][i]
      BY DEF CoreInv, DiskInv, ConsistentButFor
    <2>2. didx[u] \in [Indexes -> Values \cup {NoEntry}]
      BY DEF TypeOK, Index
    <2>3. \A vs : IndexedValues(vs) = [i \in Indexes |-> vs[i]]
      BY DEF IndexedValues, CarefulUse
    <2>4. QED
      BY <2>1, <2>2, <2>3
  <1>2. QED
    BY <1>1, Typing, CoreInvariance, PTL

-----------------------------------------------------------------------------
(* The client implements IndexedStore.  The committed table is read from the *)
(* index, and the working table from the objects.                           *)

\* What queries answer from an index
Table(ix) == [u \in Uids |-> IF ix[u] = Unindexed THEN NoObj ELSE ix[u]]

Mark == IF sp.kind = "none" THEN NoUid ELSE RecordsOf(sp.store, sp.val)

\* An index entry of an object is one of its record (IndexedValues).
LEMMA RecordOf ==
    ASSUME NEW vs \in [Attrs -> Values]
    PROVE  IndexedValues(vs) \in [Indexes -> Values]
  BY SourceType DEF IndexedValues

\* The objects of a store make a table of records.
LEMMA RecordsTyping ==
    ASSUME NEW st \in Store, NEW vs \in Attributes
    PROVE  RecordsOf(st, vs) \in [Uids -> [Indexes -> Values] \cup {NoObj}]
  <1>1. ASSUME NEW u \in Uids, st[u] # NoObj
        PROVE  IndexedValues(vs[st[u]]) \in [Indexes -> Values]
    <2>1. vs[st[u]] \in [Attrs -> Values]
      BY <1>1 DEF Store, Attributes
    <2>2. QED
      BY <2>1, RecordOf
  <1>2. QED
    BY <1>1 DEF RecordsOf

\* Tables are those of the attributes of the objects in the store.
LEMMA SameRecords ==
    ASSUME NEW st, NEW vs, NEW ws, \A u \in Uids : st[u] # NoObj => vs[st[u]] = ws[st[u]]
    PROVE  RecordsOf(st, vs) = RecordsOf(st, ws)
  BY DEF RecordsOf

\* A consistent index answers as the objects do, if there is a field to ask for.
LEMMA Answers ==
    ASSUME CarefulUse, Indexes # {}, NEW st \in Store, NEW vs \in Attributes,
           NEW ix \in Index, ConsistentButFor(st, vs, ix, {})
    PROVE  Table(ix) = RecordsOf(st, vs)
  <1> SUFFICES ASSUME NEW u \in Uids
               PROVE  (IF ix[u] = Unindexed THEN NoObj ELSE ix[u])
                        = (IF st[u] = NoObj THEN NoObj ELSE IndexedValues(vs[st[u]]))
    BY DEF Table, RecordsOf
  <1>1. CASE st[u] = NoObj
    BY <1>1 DEF ConsistentButFor
  <1>2. CASE st[u] # NoObj
    <2>1. vs[st[u]] \in [Attrs -> Values]
      BY <1>2 DEF Store, Attributes
    <2>2. IndexedValues(vs[st[u]]) = [i \in Indexes |-> vs[st[u]][i]]
      BY DEF IndexedValues, CarefulUse
    <2>3. \A i \in Indexes : ix[u][i] = vs[st[u]][i]
      BY <1>2 DEF ConsistentButFor
    <2>4. ix[u] = IndexedValues(vs[st[u]])
      BY <2>2, <2>3 DEF Index
    <2>5. IndexedValues(vs[st[u]]) # Unindexed
      <3>1. PICK i \in Indexes : TRUE
        OBVIOUS
      <3>2. IndexedValues(vs[st[u]])[i] # NoEntry
        BY <2>1, RecordOf, SentinelsDiffer
      <3>3. QED
        BY <3>2 DEF Unindexed
    <2>6. QED
      BY <1>2, <2>4, <2>5
  <1>3. QED
    BY <1>1, <1>2

\* What queries answer is what the committed objects say.
LEMMA CommittedTable ==
    ASSUME TypeOK, CarefulUse, Indexes # {}, CoreInv
    PROVE  Table(didx) = RecordsOf(dstore, dval)
  BY Answers DEF TypeOK, CoreInv, DiskInv

\* A store that is committed makes the tables the same.
LEMMA CommitRefines ==
    ASSUME TypeOK, TypeOK', CarefulUse, Indexes # {}, CoreInv, Commit
    PROVE  Ideal!Commit
  <1>1. Table(didx') = RecordsOf(mstore, mval)
    <2>1. ConsistentButFor(mstore, mval, midx', {})
      BY CommittedIndex
    <2>2. QED
      BY <2>1, Answers DEF Commit, TypeOK
  <1>2. RecordsOf(mstore', mval') = RecordsOf(mstore, mval)
    BY DEF Commit
  <1>3. sp'.kind = "none" /\ txn = "active" /\ txn' = "none"
    BY DEF Commit, NoSavepoint
  <1>4. QED
    BY <1>1, <1>2, <1>3 DEF Ideal!Commit, Table

\* An abort, of whatever transaction, takes all of its work back.
LEMMA DiscardRefines ==
    ASSUME TypeOK, CarefulUse, Indexes # {}, CoreInv,
           ConnectionAbort, UNCHANGED <<dstore, dval, didx, saved>>,
           \/ txn = "active" /\ txn' \in {"none", "failed"}
           \/ txn = "failed" /\ txn' = "none"
    PROVE  Ideal!Discard
  <1>1. RecordsOf(mstore', mval') = RecordsOf(dstore, dval)
    <2>1. \A u \in Uids : dstore[u] # NoObj => mval'[dstore[u]] = dval[dstore[u]]
      BY DEF ConnectionAbort, CoreInv, DiskInv, TypeOK
    <2>2. mstore' = dstore
      BY DEF ConnectionAbort
    <2>3. QED
      BY <2>1, <2>2, SameRecords
  <1>2. sp'.kind = "none"
    BY DEF ConnectionAbort, NoSavepoint
  <1>3. QED
    BY <1>1, <1>2, CommittedTable DEF Ideal!Discard, Table

\* A savepoint marks the table that the objects make now.
LEMMA SavepointRefines ==
    ASSUME TypeOK, Savepoint PROVE Ideal!Savepoint
  <1>1. /\ sp'.kind # "none" /\ sp'.store = mstore /\ sp'.val = mval
        /\ UNCHANGED <<mstore, mval, didx, txn>> /\ txn = "active"
    BY DEF Savepoint, disk
  <1>2. QED
    BY <1>1 DEF Ideal!Savepoint

\* A rollback brings the marked table back, from what was stored aside and from
\* objects that have not changed since.
LEMMA RollbackRefines ==
    ASSUME TypeOK, CoreInv, Rollback PROVE Ideal!Rollback
  <1>1. sp.kind # "none" /\ SavepointInv /\ sp \in Savepoints /\ txn = "active"
    BY DEF Rollback, CoreInv, TypeOK
  <1>2. RecordsOf(mstore', mval') = RecordsOf(sp.store, sp.val)
    <2>1. \A o \in jar : mval'[o] = sp.val[o]
      BY <1>1 DEF Rollback, SavepointInv, TypeOK
    <2>2. mstore' = sp.store
      BY DEF Rollback
    <2>3. \A u \in Uids : sp.store[u] # NoObj => mval'[sp.store[u]] = sp.val[sp.store[u]]
      BY <1>1, <2>1 DEF SavepointInv
    <2>4. QED
      BY <2>2, <2>3, SameRecords
  <1>3. sp'.kind = sp.kind /\ sp'.store = sp.store /\ sp'.val = sp.val
    BY <1>1 DEF Rollback, Savepoints
  <1>4. RecordsOf(sp.store, sp.val) # NoUid
    BY <1>1, RecordsTyping, NoUidIsNoTable DEF Savepoints
  <1>5. UNCHANGED <<didx, txn>>
    BY DEF Rollback, disk
  <1>6. QED
    BY <1>1, <1>2, <1>3, <1>4, <1>5 DEF Ideal!Rollback

\* A change of one entry of the working table, and of nothing else
LEMMA ChangeRefines ==
    ASSUME txn = "active", UNCHANGED <<didx, sp, txn>>, NEW u \in Uids,
           NEW r \in [Indexes -> Values] \cup {NoObj},
           \A w \in Uids : RecordsOf(mstore', mval')[w]
                               = IF w = u THEN r ELSE RecordsOf(mstore, mval)[w]
    PROVE  Ideal!Change(u)
  <1>1. RecordsOf(mstore', mval') = [RecordsOf(mstore, mval) EXCEPT ![u] = r]
    BY DEF RecordsOf
  <1>2. QED
    BY <1>1 DEF Ideal!Change

\* DbModel.add puts the record of the object into the table.
LEMMA AddRefines ==
    ASSUME TypeOK, NEW o \in Objs, NEW u \in Uids, Add(o, u)
    PROVE  Ideal!Change(u)
  <1> DEFINE r == IndexedValues(mval[o])
  <1>1. r \in [Indexes -> Values] \cup {NoObj}
    BY RecordOf DEF TypeOK, Attributes
  <1>2. /\ \A w \in Uids : mstore'[w] = IF w = u THEN o ELSE mstore[w]
        /\ mval' = mval /\ txn = "active" /\ UNCHANGED <<didx, sp, txn>>
    BY DEF Add, TypeOK, Store, disk
  <1>3. \A w \in Uids : RecordsOf(mstore', mval')[w]
                            = IF w = u THEN r ELSE RecordsOf(mstore, mval)[w]
    BY <1>2, SentinelsDiffer DEF RecordsOf
  <1> QED
    BY <1>1, <1>2, <1>3, ChangeRefines

\* DbModel.remove takes it out.
LEMMA RemoveRefines ==
    ASSUME TypeOK, NEW o \in Objs, Remove(o)
    PROVE  \E u \in Uids : Ideal!Change(u)
  <1> DEFINE u == puid[o]
  <1>1. /\ u \in Uids
        /\ \A w \in Uids : mstore'[w] = IF w = u THEN NoObj ELSE mstore[w]
        /\ mval' = mval /\ txn = "active" /\ UNCHANGED <<didx, sp, txn>>
    BY DEF Remove, TypeOK, Store, disk
  <1>2. \A w \in Uids : RecordsOf(mstore', mval')[w]
                            = IF w = u THEN NoObj ELSE RecordsOf(mstore, mval)[w]
    BY <1>1 DEF RecordsOf
  <1>3. Ideal!Change(u)
    BY <1>1, <1>2, ChangeRefines
  <1> QED
    BY <1>1, <1>3

\* Setting an attribute changes the one record of a stored object, or none.
LEMMA SetAttrRefines ==
    ASSUME TypeOK, CoreInv, NEW o \in Objs, NEW a \in Attrs, NEW v \in Values,
           SetAttr(o, a, v)
    PROVE  [\E u \in Uids : Ideal!Change(u)]_Ideal!vars
  <1>1. /\ txn = "active" /\ UNCHANGED <<didx, mstore, sp, txn>>
        /\ mval' \in Attributes /\ \A p \in Objs \ {o} : mval'[p] = mval[p]
    BY DEF SetAttr, TypeOK, Attributes, disk
  <1>2. CASE o \in Stored(mstore)
    <2> DEFINE r == IndexedValues(mval'[o])
    <2>1. PICK u \in Uids : mstore[u] = o
      BY <1>2 DEF Stored, Keys
    <2>2. r \in [Indexes -> Values] \cup {NoObj}
      BY <1>1, RecordOf DEF Attributes
    <2>3. \A w \in Uids : mstore[w] = o => w = u
      BY <2>1, SentinelsDiffer DEF CoreInv, MemoryInv, StoredOnce
    <2>4. \A w \in Uids : mstore[w] \in Objs \cup {NoObj}
      BY DEF TypeOK, Store
    <2>5. \A w \in Uids : RecordsOf(mstore', mval')[w]
                              = IF w = u THEN r ELSE RecordsOf(mstore, mval)[w]
      BY <1>1, <2>1, <2>3, <2>4, SentinelsDiffer DEF RecordsOf
    <2>6. QED
      BY <1>1, <2>2, <2>5, ChangeRefines
  <1>3. CASE o \notin Stored(mstore)
    <2>1. \A w \in Uids : mstore[w] # NoObj => mval'[mstore[w]] = mval[mstore[w]]
      BY <1>1, <1>3 DEF Stored, Keys, TypeOK, Store
    <2>2. RecordsOf(mstore', mval') = RecordsOf(mstore, mval)
      BY <1>1, <2>1, SameRecords
    <2>3. QED
      BY <1>1, <2>2 DEF Ideal!vars
  <1> QED
    BY <1>2, <1>3

\* A failed transaction changes no record, whatever the application sets.
LEMMA SetAttrFailedRefines ==
    ASSUME TypeOK, CoreInv, NEW o \in Objs, NEW a \in Attrs, NEW v \in Values,
           SetAttrFailed(o, a, v)
    PROVE  UNCHANGED Ideal!vars
  <1>1. /\ UNCHANGED <<didx, mstore, sp, txn>>
        /\ \A p \in jar : mval'[p] = mval[p]
    BY DEF SetAttrFailed, TypeOK, Attributes, disk
  <1>2. \A u \in Uids : mstore[u] # NoObj => mstore[u] \in jar
    BY DEF SetAttrFailed, CoreInv, LeftInv, DiskInv, TypeOK
  <1>3. RecordsOf(mstore', mval') = RecordsOf(mstore, mval)
    BY <1>1, <1>2, SameRecords
  <1> QED
    BY <1>1, <1>3 DEF Ideal!vars

\* Seen through its index, if it has one, the client is a transactional table,
\* for any numbers of objects, uids, attributes and values: a commit publishes
\* what the objects say, aborts and rollbacks take back exactly what they should,
\* and queue, hook and reindexing change no answer (the before-commit hook,
\* QueueTM, QueueSavepoint, DbModel).
THEOREM Refinement ==
    ASSUME CarefulUse, Indexes # {}
    PROVE  Spec => ImplementsIndexedStore
  <1>1. Init => Ideal!Init
    <2> SUFFICES ASSUME Init PROVE Ideal!Init
      OBVIOUS
    <2>1. \A u \in Uids : dstore[u] = NoObj /\ mstore[u] = NoObj /\ didx[u] = Unindexed
      BY DEF Init
    <2>2. Table(didx) = [u \in Uids |-> NoObj]
      BY <2>1 DEF Table
    <2>3. RecordsOf(mstore, mval) = [u \in Uids |-> NoObj]
      BY <2>1 DEF RecordsOf
    <2>4. sp.kind = "none" /\ txn = "none"
      BY DEF Init, NoSavepoint
    <2>5. QED
      BY <2>2, <2>3, <2>4 DEF Ideal!Init, Table
  <1>2. TypeOK /\ TypeOK' /\ CoreInv /\ [Next]_vars => [Ideal!Next]_Ideal!vars
    <2> SUFFICES ASSUME TypeOK, TypeOK', CoreInv, [Next]_vars
                 PROVE  [Ideal!Next]_Ideal!vars
      OBVIOUS
    <2>1. CASE Begin
      <3>1. txn = "none" /\ txn' = "active" /\ UNCHANGED <<didx, mstore, mval, sp>>
        BY <2>1 DEF Begin, disk, memory
      <3>2. Ideal!Begin
        BY <3>1 DEF Ideal!Begin
      <3>3. QED
        BY <3>2 DEF Ideal!Next
    <2>2. CASE Abort
      <3>1. Ideal!Discard
        BY <2>2, DiscardRefines DEF Abort, TypeOK, disk
      <3>2. QED
        BY <3>1 DEF Ideal!Next
    <2>3. CASE Commit
      BY <2>3, CommitRefines DEF Ideal!Next
    <2>4. CASE CommitConflict
      <3>1. Ideal!Discard
        BY <2>4, DiscardRefines DEF CommitConflict, disk
      <3>2. QED
        BY <3>1 DEF Ideal!Next
    <2>5. CASE HookRaises
      <3>1. sp'.kind = "none" /\ UNCHANGED <<didx, mstore, mval, txn>>
        BY <2>5 DEF HookRaises, NoSavepoint, disk
      <3>2. Ideal!DropMark
        BY <3>1 DEF Ideal!DropMark
      <3>3. QED
        BY <3>2 DEF Ideal!Next
    <2>6. CASE Savepoint
      BY <2>6, SavepointRefines DEF Ideal!Next
    <2>7. CASE Rollback
      BY <2>7, RollbackRefines DEF Ideal!Next
    <2>8. ASSUME NEW o \in Objs, Remove(o) PROVE [Ideal!Next]_Ideal!vars
      BY <2>8, RemoveRefines DEF Ideal!Next
    <2>9. ASSUME NEW o \in Objs, Reindex(o) PROVE UNCHANGED Ideal!vars
      BY <2>9 DEF Reindex, disk, Ideal!vars
    <2>10. ASSUME NEW o \in Objs, Deactivate(o) PROVE UNCHANGED Ideal!vars
      BY <2>10 DEF Deactivate, disk, memory, Ideal!vars
    <2>11. ASSUME NEW o \in Objs, NEW u \in Uids, Add(o, u)
           PROVE  [Ideal!Next]_Ideal!vars
      BY <2>11, AddRefines DEF Ideal!Next
    <2>12. ASSUME NEW o \in Objs, NEW u \in Uids, Fetch(o, u) PROVE UNCHANGED Ideal!vars
      BY <2>12 DEF Fetch, disk, memory, Ideal!vars
    <2>13. ASSUME NEW o \in Objs, NEW a \in Attrs, NEW v \in Values, SetAttr(o, a, v)
           PROVE  [Ideal!Next]_Ideal!vars
      BY <2>13, SetAttrRefines DEF Ideal!Next
    <2>14. ASSUME NEW o \in Objs, NEW a \in Attrs, NEW v \in Values,
                  SetAttrFailed(o, a, v)
           PROVE  UNCHANGED Ideal!vars
      BY <2>14, SetAttrFailedRefines
    <2>15. CASE UNCHANGED vars
      BY <2>15 DEF vars, disk, memory, Ideal!vars
    <2>16. QED
      BY <2>1, <2>2, <2>3, <2>4, <2>5, <2>6, <2>7, <2>8, <2>9, <2>10, <2>11,
         <2>12, <2>13, <2>14, <2>15 DEF Next
  <1>3. QED
    BY <1>1, <1>2, Typing, CoreInvariance, PTL DEF Spec, ImplementsIndexedStore, Ideal!Spec
=============================================================================
