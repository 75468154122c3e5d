----------------------------- MODULE IndexQueue -----------------------------
(***************************************************************************)
(* The indexing queue of collective.indexing as a list of operations: how  *)
(* optimize() reduces it, how process() applies it to the registered       *)
(* processor, and how threads share processQueue()'s guard.                *)
(*                                                                         *)
(* IndexQueue derives from threading.local: each thread has its own list,  *)
(* but all threads share the one queue object that the module-level set    *)
(* "processing" remembers.  Each thread's processor works on the           *)
(* connection of that thread, hence on an index content of its own.        *)
(*                                                                         *)
(* The processor recomputes what a REINDEX names and does nothing for the  *)
(* two other operations, which zerodb itself never queues.  It is a named  *)
(* utility of the process: that of the DB made last, which need not be the *)
(* one whose objects are queued.  It can be switched off.                  *)
(***************************************************************************)
EXTENDS Integers, Sequences, FiniteSets, SequencesExt, ProcessThreads

CONSTANTS
    Objs,
    Attrs,
    AllFields,    \* attributes=None, which stands for all fields
    Regimes,      \* sets of liberties, one of which the application takes
    MixedArgs,    \* bound on what a REINDEX names where INDEX and UNINDEX, which
                  \* name all fields, are queued too
    MaxQueue      \* bound on the total length of the queues

INDEX == 1
REINDEX == 0
UNINDEX == -1

AttrArgs == (SUBSET Attrs) \cup {AllFields}

Entry == [op : {INDEX, REINDEX, UNINDEX}, obj : Objs, attrs : AttrArgs]

\* A careful application has one DB, leaves automatic reindexing on, and leaves
\* index() and unindex() of the queue alone, as zerodb does.
AllLiberties == {"index_ops", "switch_off", "second_db"}

ASSUME AllFieldsDiffers == \A as \in SUBSET Attrs : as # AllFields
ASSUME MixedArgsType == MixedArgs \subseteq AttrArgs
ASSUME RegimesKnown == Regimes \subseteq SUBSET AllLiberties
ASSUME MaxQueueType == MaxQueue \in Nat

VARIABLES
    queue,        \* IndexQueue.queue of each thread
    stale,        \* (object, attribute) pairs that each thread has changed
                  \* since its index was given their values
    pc,           \* where each thread is in processQueue
    processing,   \* whether the queue object is in the set "processing"
    unserved,     \* threads whose processQueue returned or raised with work undone
    taken,        \* the liberties of this application
    indexer,      \* whose processor is the utility "zerodb-indexer"
    enabled,      \* AutoReindexQueueProcessor.enabled of our own
    foreign       \* our objects that another DB's catalog has reindexed

guard == <<pc, processing, unserved>>
utility == <<taken, indexer, enabled>>
vars == <<queue, stale, guard, utility, foreign>>

TypeOK ==
    /\ \A t \in Threads : \A k \in DOMAIN queue[t] : queue[t][k] \in Entry
    /\ stale \in [Threads -> SUBSET (Objs \X Attrs)]
    /\ pc \in [Threads -> {"idle", "checked", "processing"}]
    /\ processing \in BOOLEAN
    /\ unserved \subseteq Threads
    /\ taken \in Regimes
    /\ indexer \in {"own", "other"}
    /\ enabled \in BOOLEAN
    /\ foreign \subseteq Objs

Init ==
    /\ queue = [t \in Threads |-> <<>>]
    /\ taken \in Regimes
    /\ stale = [t \in Threads |-> {}]
    /\ pc = [t \in Threads |-> "idle"]
    /\ processing = FALSE
    /\ unserved = {}
    /\ indexer = "own" /\ enabled = TRUE /\ foreign = {}

-----------------------------------------------------------------------------
(* optimize() *)

Clamp(n) == IF n > INDEX THEN INDEX ELSE IF n < UNINDEX THEN UNINDEX ELSE n

\* None takes precedence over any list of attributes.
UniteAttrs(x, y) == IF AllFields \in {x, y} THEN AllFields ELSE x \cup y

\* res.get(oid, (0, obj, iattr)): no entry yet counts as a REINDEX.
Known(res, e) == {f \in res : f.obj = e.obj}
Previous(res, e) ==
    IF Known(res, e) = {} THEN [e EXCEPT !.op = REINDEX]
                          ELSE CHOOSE f \in Known(res, e) : TRUE

\* Mutant of Reduce: the attributes of the later operation are forgotten.
ReduceFirstAttrs(res, e) ==
    LET f == Previous(res, e) IN
    (res \ Known(res, e)) \cup
        (IF f.op = INDEX /\ e.op = UNINDEX THEN {}
         ELSE {[op |-> Clamp(f.op + e.op), obj |-> e.obj, attrs |-> f.attrs]})

\* One turn of the loop: an object indexed and unindexed again is forgotten,
\* otherwise the operations are added up and the attributes united.
Reduce(res, e) ==
    LET f == Previous(res, e) IN
    (res \ Known(res, e)) \cup
        (IF f.op = INDEX /\ e.op = UNINDEX THEN {}
         ELSE {[op |-> Clamp(f.op + e.op), obj |-> e.obj,
                attrs |-> UniteAttrs(f.attrs, e.attrs)]})

\* Mutant of Optimize: sorted the other way round.
OptimizeIndexFirst(q) ==
    LET res == FoldLeft(Reduce, {}, q)
        With(op) == SetToSeq({e \in res : e.op = op})
    IN With(INDEX) \o With(REINDEX) \o With(UNINDEX)

Optimize(q) ==
    LET res == FoldLeft(Reduce, {}, q)
        With(op) == SetToSeq({e \in res : e.op = op})
    IN With(UNINDEX) \o With(REINDEX) \o With(INDEX)

-----------------------------------------------------------------------------
(* Queueing. *)

Queued == Cardinality({p \in Threads \X (1 .. MaxQueue) : p[2] <= Len(queue[p[1]])})

\* A bound: applications that take one of the last two liberties fill the queues
\* with one entry only.
Room == IF taken \cap {"switch_off", "second_db"} = {} THEN MaxQueue ELSE 1

Append1(t, op, o, as) ==
    /\ pc[t] = "idle" /\ Queued < Room
    /\ queue' = [queue EXCEPT ![t] =
                    Append(@, [op |-> op, obj |-> o, attrs |-> as])]
    /\ UNCHANGED <<guard, utility, foreign>>

\* The pairs that an entry names, None standing for all fields
Named(e) == {<<e.obj, a>> : a \in IF e.attrs = AllFields THEN Attrs ELSE e.attrs}

\* What a modification may name
Modified == IF "index_ops" \in taken THEN MixedArgs ELSE AttrArgs

\* objectAutoReindex: some attributes of an object have been modified.
Reindex(t, o, as) ==
    /\ Append1(t, REINDEX, o, as)
    /\ stale' = [stale EXCEPT ![t] =
                    @ \cup Named([op |-> REINDEX, obj |-> o, attrs |-> as])]

\* index() and unindex(), which only an application calls
IndexOrUnindex(t, op, o) ==
    /\ "index_ops" \in taken /\ op \in {INDEX, UNINDEX}
    /\ Append1(t, op, o, AllFields)
    /\ UNCHANGED stale

-----------------------------------------------------------------------------
(* Processing. *)

\* The entries that the processor does anything at, and may raise at:
\* AutoReindexQueueProcessor has a reindex of its own, the base class's methods
\* are empty.
Acting(q) == {k \in DOMAIN q : q[k].op = REINDEX}

\* What becomes fresh when the first n entries have reached the processor
Refreshed(q, n) == UNION {Named(q[k]) : k \in {j \in Acting(q) : j <= n}}

\* How many entries have been applied when the processor raises.
DoneWhenRaised(q) == {k - 1 : k \in Acting(q)}

\* Whether the registered processor does anything at all.
Indexing == indexer = "other" \/ enabled

\* The first n entries of q reach the processor.  Another DB's looks the object
\* of a REINDEX up by class and uid in its own catalog and makes an entry there.
Serve(t, q, n) ==
    /\ stale' = IF indexer = "own" /\ enabled
                THEN [stale EXCEPT ![t] = @ \ Refreshed(q, n)]
                ELSE stale
    /\ foreign' = IF indexer = "other"
                  THEN foreign \cup {q[k].obj : k \in {j \in Acting(q) : j <= n}}
                  ELSE foreign

\* Mutant of Process: the queue is cleared although the processor raised.
ProcessClearsAlways(t) ==
    LET q == Optimize(queue[t]) IN
    /\ \E n \in DoneWhenRaised(q) \cup {Len(q)} : Serve(t, q, n)
    /\ queue' = [queue EXCEPT ![t] = <<>>]

\* IndexQueue.process: optimize, apply every entry, clear.  If the processor
\* raises, the entries before have been applied and the queue stays optimized.
Process(t) ==
    LET q == Optimize(queue[t]) IN
    \/ /\ Serve(t, q, Len(q))
       /\ queue' = [queue EXCEPT ![t] = <<>>]
    \/ /\ Indexing
       /\ \E n \in DoneWhenRaised(q) : Serve(t, q, n)
       /\ queue' = [queue EXCEPT ![t] = q]

\* QueueTM.before_commit calls process() directly.
BeforeCommit(t) ==
    /\ pc[t] = "idle" /\ queue[t] # <<>>
    /\ Process(t)
    /\ UNCHANGED <<guard, utility>>

\* processQueue: the test of the guard ...
CheckProcessing(t) ==
    /\ pc[t] = "idle" /\ queue[t] # <<>> /\ ~processing
    /\ pc' = [pc EXCEPT ![t] = "checked"]
    /\ UNCHANGED <<queue, stale, processing, unserved, utility, foreign>>

\* ... which sends a thread away while any thread is processing ...
SkipProcessing(t) ==
    /\ pc[t] = "idle" /\ queue[t] # <<>> /\ processing
    /\ unserved' = unserved \cup {t}
    /\ UNCHANGED <<queue, stale, pc, processing, utility, foreign>>

\* ... processing.add(queue) ...
EnterProcessing(t) ==
    /\ pc[t] = "checked"
    /\ processing' = TRUE
    /\ pc' = [pc EXCEPT ![t] = "processing"]
    /\ UNCHANGED <<queue, stale, unserved, utility, foreign>>

\* ... and process() with processing.remove(queue) in the finally clause, a
\* KeyError when another thread has removed the shared queue object before.
LeaveProcessing(t) ==
    /\ pc[t] = "processing"
    /\ Process(t)
    /\ unserved' = IF processing THEN unserved ELSE unserved \cup {t}
    /\ processing' = FALSE
    /\ pc' = [pc EXCEPT ![t] = "idle"]
    /\ UNCHANGED utility

\* DB.__init__ of a second DB: its processor takes the name "zerodb-indexer".
OpenOtherDB ==
    /\ "second_db" \in taken /\ indexer = "own"
    /\ indexer' = "other"
    /\ UNCHANGED <<queue, stale, guard, taken, enabled, foreign>>

\* DB.enableAutoReindex, with either argument.
EnableAutoReindex ==
    /\ "switch_off" \in taken
    /\ enabled' = ~enabled
    /\ UNCHANGED <<queue, stale, guard, taken, indexer, foreign>>

Next ==
    \/ OpenOtherDB \/ EnableAutoReindex
    \/ \E t \in Threads :
        \/ BeforeCommit(t) \/ CheckProcessing(t) \/ SkipProcessing(t)
        \/ EnterProcessing(t) \/ LeaveProcessing(t)
        \/ \E o \in Objs :
            \/ \E op \in {INDEX, UNINDEX} : IndexOrUnindex(t, op, o)
            \/ \E as \in Modified : Reindex(t, o, as)

Spec == Init /\ [][Next]_vars

-----------------------------------------------------------------------------
(* Properties. *)

\* Reducing the queue loses nothing: with one DB, automatic reindexing on and
\* nothing but modifications queued, a thread whose queue is empty has an index
\* with the present values of its objects, whatever was modified when and
\* wherever the processor raised (optimize, process, AutoReindexQueueProcessor).
ProcessedIsFresh ==
    taken = {} => \A t \in Threads : queue[t] = <<>> => stale[t] = {}

\* The same whatever liberty the application takes.
AlwaysFresh == \A t \in Threads : queue[t] = <<>> => stale[t] = {}

\* No catalog indexes an object that is not in its database (DB.__init__,
\* AutoReindexQueueProcessor.reindex).
OwnCatalogOnly == foreign = {}

\* Queues are well formed, and what is applied of one has at most one operation
\* per object and all UNINDEX operations before the others ("Sort so unindex
\* operations come first").
OptimizedShape ==
    /\ TypeOK
    /\ \A t \in Threads : LET q == Optimize(queue[t]) IN
        \A j, k \in DOMAIN q : j < k => q[j].obj # q[k].obj /\ q[j].op <= q[k].op

\* For REINDEX operations alone, the reduced queue asks for the same attributes of
\* the same objects as the list it came from: the queue may be seen as a set of
\* pairs, which is how module AutoReindex keeps it.
Pairs(q) == UNION {Named(q[k]) : k \in DOMAIN q}
SamePairs ==
    \A t \in Threads :
        (\A k \in DOMAIN queue[t] : queue[t][k].op = REINDEX) =>
            Pairs(Optimize(queue[t])) = Pairs(queue[t])

\* "process the queue (for this thread) immediately": processQueue neither
\* leaves this thread's queue unprocessed nor raises because of another thread.
ProcessesThisThread == unserved = {}
=============================================================================
