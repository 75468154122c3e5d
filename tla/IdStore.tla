------------------------------ MODULE IdStore ------------------------------
(***************************************************************************)
(* The store of a model's objects: a BTree from uids to objects and a      *)
(* Length.  Every connection draws uids by itself, from a _v_nextid that   *)
(* outlives its transactions; what keeps connections apart is insert() on  *)
(* the connection's own view and the merge of concurrent changes when a    *)
(* transaction commits.  The store comes into being when a DB object is    *)
(* first asked for the model, in the transaction at hand or, outside of    *)
(* one, in a transaction of its own.                                       *)
(***************************************************************************)
EXTENDS Integers, FiniteSets

CONSTANTS
    Clients,    \* connections, each of a process of its own
    Objs,
    NoObj,      \* nothing under a uid, no add() under way
    maxint,     \* family.maxint
    NoId,       \* None
    NoTxn,      \* the connection is outside of a transaction
    Liberties   \* what the application does beyond careful use

ASSUME MaxintAssumption == maxint \in Nat /\ NoId \notin 0 .. maxint
Ids == 0 .. maxint
Store == [made : BOOLEAN, tree : [Ids -> Objs \cup {NoObj}], length : Int]

ASSUME NoObjAssumption == NoObj \notin Objs /\ NoTxn \notin Store
AllLiberties == {"kept_handle"}
ASSUME LibertiesAssumption == Liberties \subseteq AllLiberties

VARIABLES
    committed,  \* the store in the database
    base,       \* what each transaction started from
    view,       \* and what it sees with its own changes
    nextid,     \* _v_nextid of each connection's IdStore
    adding,     \* the object whose add() is under way
    held,       \* the object last added in the transaction and its _p_uid
    meant,      \* the objects that the transaction was to remove
    cached,     \* whether _models has the model
    creating    \* DbModel.__init__ is under way in a transaction of its own

txns == <<base, view, meant>>
vars == <<committed, txns, nextid, adding, held, cached, creating>>

NoStore == [made |-> FALSE, tree |-> [i \in Ids |-> NoObj], length |-> 0]
NoHandle == [obj |-> NoObj, uid |-> NoId]

TypeOK ==
    /\ committed \in Store
    /\ \A c \in Clients : /\ base[c] = NoTxn <=> view[c] = NoTxn
                          /\ creating[c] \/ adding[c] # NoObj => view[c] # NoTxn
                          /\ creating[c] => adding[c] = NoObj
    /\ base \in [Clients -> Store \cup {NoTxn}]
    /\ view \in [Clients -> Store \cup {NoTxn}]
    /\ nextid \in [Clients -> Ids \cup {NoId}]
    /\ adding \in [Clients -> Objs \cup {NoObj}]
    /\ held \in [Clients -> [obj : Objs, uid : Ids] \cup {NoHandle}]
    /\ meant \in [Clients -> SUBSET Objs]
    /\ cached \in [Clients -> BOOLEAN] /\ creating \in [Clients -> BOOLEAN]

Init ==
    /\ committed = NoStore
    /\ base = [c \in Clients |-> NoTxn] /\ view = [c \in Clients |-> NoTxn]
    /\ nextid = [c \in Clients |-> NoId]
    /\ adding = [c \in Clients |-> NoObj]
    /\ held = [c \in Clients |-> NoHandle]
    /\ meant = [c \in Clients |-> {}]
    /\ cached = [c \in Clients |-> FALSE]
    /\ creating = [c \in Clients |-> FALSE]

-----------------------------------------------------------------------------
(* The BTrees. *)

Stored(s) == {i \in Ids : s.tree[i] # NoObj}
Contents(s) == {s.tree[i] : i \in Stored(s)}

\* The keys that two states of a tree differ in
Changed(s, t) == {i \in Ids : s.tree[i] # t.tree[i]}

\* Conflict resolution: a bucket merges changes of different keys and refuses
\* two of the same key, Length adds up, the root object refuses two changes.
Mergeable(c) ==
    /\ Changed(base[c], view[c]) \cap Changed(base[c], committed) = {}
    /\ view[c].made = base[c].made \/ committed.made = base[c].made

Merge(b, v, k) ==
    [made |-> v.made \/ k.made,
     tree |-> [i \in Ids |-> IF i \in Changed(b, v) THEN v.tree[i] ELSE k.tree[i]],
     length |-> k.length + (v.length - b.length)]

\* insert of a free uid, del of one that is there, with their length.change
WithObj(s, uid, o) ==
    [s EXCEPT !.tree = [@ EXCEPT ![uid] = o], !.length = @ + 1]
WithoutObj(s, uid) ==
    [s EXCEPT !.tree = [@ EXCEPT ![uid] = NoObj], !.length = @ - 1]

-----------------------------------------------------------------------------
(* Transactions. *)

\* Between two calls of the application
Idle(c) == adding[c] = NoObj /\ ~creating[c]
InTxn(c) == view[c] # NoTxn /\ Idle(c)

BeginTxn(c) ==
    /\ base' = [base EXCEPT ![c] = committed]
    /\ meant' = [meant EXCEPT ![c] = {}]

Begin(c) ==
    /\ view[c] = NoTxn
    /\ BeginTxn(c)
    /\ view' = [view EXCEPT ![c] = committed]
    /\ UNCHANGED <<committed, nextid, adding, held, cached, creating>>

EndTxn(c) ==
    /\ base' = [base EXCEPT ![c] = NoTxn]
    /\ view' = [view EXCEPT ![c] = NoTxn]
    /\ meant' = [meant EXCEPT ![c] = {}]
    /\ held' = IF "kept_handle" \in Liberties THEN held ELSE [held EXCEPT ![c] = NoHandle]

Save(c) ==
    /\ Mergeable(c)
    /\ committed' = Merge(base[c], view[c], committed)
    /\ EndTxn(c)

Commit(c) ==
    /\ InTxn(c)
    /\ Save(c)
    /\ UNCHANGED <<nextid, adding, cached, creating>>

\* Abort by the application, or after a ConflictError of the commit, which the
\* split of a bucket can raise for keys that do not conflict.  _v_nextid and
\* _p_uid stay as they are, unless the IdStore itself was new.
Abort(c) ==
    /\ InTxn(c)
    /\ EndTxn(c)
    /\ nextid' = IF view[c].made # base[c].made THEN [nextid EXCEPT ![c] = NoId] ELSE nextid
    /\ UNCHANGED <<committed, adding, cached, creating>>

\* The connection's cache turns the IdStore into a ghost.
Deactivate(c) ==
    /\ view[c] = NoTxn /\ nextid[c] # NoId
    /\ nextid' = [nextid EXCEPT ![c] = NoId]
    /\ UNCHANGED <<committed, txns, adding, held, cached, creating>>

-----------------------------------------------------------------------------
(* DB.__getitem__ and DbModel.__init__ *)

Made(s) == [s EXCEPT !.made = TRUE]

\* In a transaction the new store belongs to it, and _models keeps the DbModel
\* whatever becomes of the transaction.
GetModel(c) ==
    /\ InTxn(c) /\ ~cached[c]
    /\ view' = [view EXCEPT ![c] = Made(@)]
    /\ cached' = [cached EXCEPT ![c] = TRUE]
    /\ UNCHANGED <<committed, base, meant, nextid, adding, held, creating>>

\* Outside of one it gets a transaction of its own.
CreateModel(c) ==
    /\ view[c] = NoTxn /\ ~cached[c] /\ ~committed.made
    /\ BeginTxn(c)
    /\ view' = [view EXCEPT ![c] = Made(committed)]
    /\ creating' = [creating EXCEPT ![c] = TRUE]
    /\ UNCHANGED <<committed, nextid, adding, held, cached>>

CommitModel(c) ==
    /\ creating[c]
    /\ Save(c)
    /\ creating' = [creating EXCEPT ![c] = FALSE]
    /\ cached' = [cached EXCEPT ![c] = TRUE]
    /\ UNCHANGED <<nextid, adding>>

\* The commit raises a ConflictError: the constructor has not returned.
CreateFails(c) ==
    /\ creating[c] /\ ~Mergeable(c)
    /\ EndTxn(c)
    /\ creating' = [creating EXCEPT ![c] = FALSE]
    /\ UNCHANGED <<committed, nextid, adding, cached>>

-----------------------------------------------------------------------------
(* The operations. *)

\* The store can be used; where the transaction does not see it, _objects
\* raises KeyError.
Usable(c) == InTxn(c) /\ cached[c] /\ view[c].made

\* An object that no connection has in hand
New(o) ==
    /\ o \notin Contents(committed)
    /\ \A c \in Clients : adding[c] # o /\ o \notin meant[c]
    /\ \A c \in Clients : view[c] # NoTxn =>
            o \notin Contents(view[c]) \cup Contents(base[c])

Add(c, o) ==
    /\ Usable(c) /\ New(o)
    /\ adding' = [adding EXCEPT ![c] = o]
    /\ UNCHANGED <<committed, txns, nextid, held, cached, creating>>

\* Mutant of Insert: the uid is neither looked up nor inserted with insert().
InsertAnywhere(c, uid) ==
    /\ view' = [view EXCEPT ![c] = WithObj(@, uid, adding[c])]
    /\ nextid' = [nextid EXCEPT ![c] = IF uid + 1 > maxint THEN NoId ELSE uid + 1]
    /\ held' = [held EXCEPT ![c] = [obj |-> adding[c], uid |-> uid]]
    /\ adding' = [adding EXCEPT ![c] = NoObj]
    /\ UNCHANGED <<committed, base, meant, cached, creating>>

\* _generateId returns uid, which is free, and add() inserts the object there.
Insert(c, uid) ==
    /\ view[c].tree[uid] = NoObj
    /\ view' = [view EXCEPT ![c] = WithObj(@, uid, adding[c])]
    /\ nextid' = [nextid EXCEPT ![c] = IF uid + 1 > maxint THEN NoId ELSE uid + 1]
    /\ held' = [held EXCEPT ![c] = [obj |-> adding[c], uid |-> uid]]
    /\ adding' = [adding EXCEPT ![c] = NoObj]
    /\ UNCHANGED <<committed, base, meant, cached, creating>>

\* _generateId goes on from the last uid of this connection ...
TakeNext(c) ==
    /\ adding[c] # NoObj /\ nextid[c] # NoId
    /\ Insert(c, nextid[c])

\* Mutant of NextTaken: it goes on with the next uid and stays at the last.
NextTakenGoesOn(c) ==
    /\ adding[c] # NoObj /\ nextid[c] # NoId
    /\ view[c].tree[nextid[c]] # NoObj
    /\ nextid' = [nextid EXCEPT ![c] = IF @ < maxint THEN @ + 1 ELSE @]
    /\ UNCHANGED <<committed, txns, adding, held, cached, creating>>

\* ... and when that is taken starts anew,
NextTaken(c) ==
    /\ adding[c] # NoObj /\ nextid[c] # NoId
    /\ view[c].tree[nextid[c]] # NoObj
    /\ nextid' = [nextid EXCEPT ![c] = NoId]
    /\ UNCHANGED <<committed, txns, adding, held, cached, creating>>

\* drawing random uids, below maxint, until one is free.
Draw(c) ==
    /\ adding[c] # NoObj /\ nextid[c] = NoId
    /\ \E uid \in 0 .. maxint - 1 : Insert(c, uid)

\* Mutant of RemoveUid: a missing object is passed over but counted.
RemoveUidAlways(c, uid, o) ==
    /\ view' = [view EXCEPT ![c] = WithoutObj(@, uid)]
    /\ meant' = [meant EXCEPT ![c] = @ \cup {o}]
    /\ UNCHANGED <<committed, base, nextid, adding, held, cached, creating>>

\* remove(uid), meant for object o; a missing uid raises KeyError
RemoveUid(c, uid, o) ==
    /\ view[c].tree[uid] # NoObj
    /\ view' = [view EXCEPT ![c] = WithoutObj(@, uid)]
    /\ meant' = [meant EXCEPT ![c] = @ \cup {o}]
    /\ UNCHANGED <<committed, base, nextid, adding, held, cached, creating>>

\* The application removes what it has found in this transaction.
Remove(c) ==
    /\ Usable(c)
    /\ \E uid \in Stored(view[c]) : RemoveUid(c, uid, view[c].tree[uid])

\* It removes the object it added last, by the _p_uid that add() has set; with
\* care no handle is kept beyond the transaction.
RemoveHeld(c) ==
    /\ Usable(c) /\ held[c] # NoHandle
    /\ RemoveUid(c, held[c].uid, held[c].obj)

Next ==
    \E c \in Clients :
        \/ Begin(c) \/ Commit(c) \/ Abort(c) \/ Deactivate(c)
        \/ GetModel(c) \/ CreateModel(c) \/ CommitModel(c) \/ CreateFails(c)
        \/ TakeNext(c) \/ NextTaken(c) \/ Draw(c) \/ Remove(c) \/ RemoveHeld(c)
        \/ \E o \in Objs : Add(c, o)

\* A call of add() goes on, and random draws hit a free uid in the end.
Fairness == \A c \in Clients : WF_vars(TakeNext(c) \/ NextTaken(c) \/ Draw(c))

Spec == Init /\ [][Next]_vars /\ Fairness

-----------------------------------------------------------------------------
(* Properties. *)

Counts(s) == s.length = Cardinality(Stored(s))

\* len() of the store is the number of its objects, in the database however
\* commits interleave and in what every transaction sees (IdStore.add, remove).
LengthCounts ==
    /\ TypeOK /\ Counts(committed)
    /\ \A c \in Clients : view[c] # NoTxn => Counts(view[c]) /\ Counts(base[c])

\* A commit adds to the database the objects that its transaction has added and
\* takes away those it was to remove, and no other: two connections that draw
\* the same uid, or a uid that is removed and used again meanwhile, never cost
\* an object (IdStore._generateId, add, remove).
NothingLost ==
    [][committed' # committed =>
        \E c \in Clients :
            /\ view[c] # NoTxn /\ view'[c] = NoTxn
            /\ Contents(committed') =
                (Contents(committed) \cup (Contents(view[c]) \ Contents(base[c])))
                    \ (meant[c] \ Contents(view[c]))]_vars

\* add() returns as long as a uid is free (the loop of _generateId).
AddFinishes ==
    \A c \in Clients :
        (adding[c] # NoObj /\ Cardinality(Stored(view[c])) < maxint)
            ~> (adding[c] = NoObj)

\* "return or create db entry for": what db[Model] gives has a store to use.
EntryExists == \A c \in Clients : InTxn(c) /\ cached[c] => view[c].made

\* add() returns, come what may.
AddAlwaysFinishes == \A c \in Clients : (adding[c] # NoObj) ~> (adding[c] = NoObj)
=============================================================================
