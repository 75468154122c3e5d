--------------------------- MODULE IdStoreProofs ---------------------------
(***************************************************************************)
(* For every number of connections, objects and uids the Length of an      *)
(* IdStore is right, and a commit brings in what its transaction has added *)
(* and takes out what it was to remove, and nothing else.                  *)
(***************************************************************************)
EXTENDS IdStore, FiniteSetTheorems, TLAPS

\* The uids that hold an object are finitely many.
LEMMA StoredFinite ==
    ASSUME NEW s
    PROVE  IsFiniteSet(Stored(s)) /\ Cardinality(Stored(s)) \in Nat
<1>1. IsFiniteSet(Ids)
  BY FS_Interval, MaxintAssumption DEF Ids
<1>2. Stored(s) \subseteq Ids
  BY DEF Stored
<1> QED
  BY <1>1, <1>2, FS_Subset, FS_CardinalityType

\* A set of uids is counted in two parts.
LEMMA Split ==
    ASSUME NEW s, NEW Q
    PROVE  /\ Cardinality(Stored(s) \cap Q) \in Nat
           /\ Cardinality(Stored(s) \ Q) \in Nat
           /\ Cardinality(Stored(s)) =
                Cardinality(Stored(s) \cap Q) + Cardinality(Stored(s) \ Q)
<1> DEFINE S == Stored(s) \cap Q
           T == Stored(s) \ Q
<1>1. IsFiniteSet(S) /\ IsFiniteSet(T)
  BY StoredFinite, FS_Subset
<1>2. S \cap T = {} /\ S \cup T = Stored(s)
  OBVIOUS
<1>3. Cardinality(S \cup T) = Cardinality(S) + Cardinality(T) - Cardinality(S \cap T)
  BY <1>1, FS_Union
<1>4. Cardinality(S \cap T) = 0
  BY <1>2, FS_EmptySet
<1>5. Cardinality(S) \in Nat /\ Cardinality(T) \in Nat
  BY <1>1, FS_CardinalityType
<1> QED
  BY <1>2, <1>3, <1>4, <1>5

\* insert() under a free uid, _generateId and add: one more.
LEMMA InsertCounts ==
    ASSUME NEW s \in Store, Counts(s), NEW o \in Objs,
           NEW uid \in Ids, s.tree[uid] = NoObj
    PROVE  WithObj(s, uid, o) \in Store /\ Counts(WithObj(s, uid, o))
<1> DEFINE t == WithObj(s, uid, o)
<1>1. t \in Store
  <2>1. [s.tree EXCEPT ![uid] = o] \in [Ids -> Objs \cup {NoObj}]
    BY DEF Store
  <2>2. s.length + 1 \in Int
    BY DEF Store
  <2> QED
    BY <2>1, <2>2, ZenonT(30) DEF Store, WithObj
<1>2. t.length = s.length + 1 /\ t.tree = [s.tree EXCEPT ![uid] = o]
  BY DEF Store, WithObj
<1>3. Stored(t) = Stored(s) \cup {uid} /\ uid \notin Stored(s)
  BY <1>2, NoObjAssumption DEF Store, Stored
<1>4. Cardinality(Stored(t)) = Cardinality(Stored(s)) + 1
  BY <1>3, StoredFinite, FS_AddElement
<1> HIDE DEF t
<1>5. t \in Store /\ Counts(t)
  BY <1>1, <1>2, <1>4 DEF Counts
<1> QED
  BY <1>5 DEF t

\* del of a uid that is there, remove: one less.
LEMMA RemoveCounts ==
    ASSUME NEW s \in Store, Counts(s), NEW uid \in Ids, s.tree[uid] # NoObj
    PROVE  WithoutObj(s, uid) \in Store /\ Counts(WithoutObj(s, uid))
<1> DEFINE t == WithoutObj(s, uid)
<1>1. t \in Store
  <2>1. [s.tree EXCEPT ![uid] = NoObj] \in [Ids -> Objs \cup {NoObj}]
    BY DEF Store
  <2>2. s.length - 1 \in Int
    BY DEF Store
  <2> QED
    BY <2>1, <2>2, ZenonT(30) DEF Store, WithoutObj
<1>2. t.length = s.length - 1 /\ t.tree = [s.tree EXCEPT ![uid] = NoObj]
  BY DEF Store, WithoutObj
<1>3. Stored(t) = Stored(s) \ {uid} /\ uid \in Stored(s)
  BY <1>2 DEF Store, Stored
<1>4. Cardinality(Stored(t)) = Cardinality(Stored(s)) - 1
  BY <1>3, StoredFinite, FS_RemoveElement
<1> HIDE DEF t
<1>5. t \in Store /\ Counts(t)
  BY <1>1, <1>2, <1>4 DEF Counts
<1> QED
  BY <1>5 DEF t

\* The merge of changes to different keys adds up the changes of the Length.
LEMMA MergeCounts ==
    ASSUME NEW b \in Store, NEW v \in Store, NEW k \in Store,
           Counts(b), Counts(v), Counts(k),
           Changed(b, v) \cap Changed(b, k) = {}
    PROVE  Merge(b, v, k) \in Store /\ Counts(Merge(b, v, k))
<1> DEFINE m == Merge(b, v, k)
           Q == Changed(b, v)
<1>1. m \in Store
  BY DEF Store, Merge
<1>2. Stored(m) \cap Q = Stored(v) \cap Q /\ Stored(m) \ Q = Stored(k) \ Q
  BY DEF Stored, Merge
<1>3. Stored(v) \ Q = Stored(b) \ Q
  BY DEF Stored, Changed
<1>4. Stored(k) \cap Q = Stored(b) \cap Q
  BY DEF Stored, Changed
<1>5. Cardinality(Stored(m)) =
        Cardinality(Stored(k)) + (Cardinality(Stored(v)) - Cardinality(Stored(b)))
  <2> DEFINE vQ == Cardinality(Stored(v) \cap Q)
             bQ == Cardinality(Stored(b) \cap Q)
             kR == Cardinality(Stored(k) \ Q)
             bR == Cardinality(Stored(b) \ Q)
  <2>1. vQ \in Nat /\ bQ \in Nat /\ kR \in Nat /\ bR \in Nat
    BY Split
  <2>2. Cardinality(Stored(m)) = vQ + kR
    BY <1>2, Split
  <2>3. Cardinality(Stored(k)) = bQ + kR
    BY <1>4, Split
  <2>4. Cardinality(Stored(v)) = vQ + bR
    BY <1>3, Split
  <2>5. Cardinality(Stored(b)) = bQ + bR
    BY Split
  <2> HIDE DEF m, Q, vQ, bQ, kR, bR
  <2> QED
    BY <2>1, <2>2, <2>3, <2>4, <2>5
<1>6. m.length = k.length + (v.length - b.length)
  BY DEF Merge
<1> HIDE DEF m
<1>7. Counts(m)
  BY <1>5, <1>6 DEF Counts
<1> QED
  BY <1>1, <1>7 DEF m

-----------------------------------------------------------------------------

\* Types and counts of what every transaction sees, LengthCounts.
LEMMA InitCounts == Init => LengthCounts
<1> SUFFICES ASSUME Init PROVE LengthCounts
  OBVIOUS
<1>1. NoStore \in Store
  BY DEF NoStore, Store
<1>2. Stored(NoStore) = {} /\ NoStore.length = 0
  BY DEF NoStore, Stored
<1>3. Counts(NoStore)
  BY <1>2, FS_EmptySet DEF Counts
<1> QED
  BY <1>1, <1>3 DEF Init, LengthCounts, TypeOK

\* The variables that LengthCounts only gives a type
Rest ==
    /\ nextid \in [Clients -> Ids \cup {NoId}]
    /\ adding \in [Clients -> Objs \cup {NoObj}]
    /\ held \in [Clients -> [obj : Objs, uid : Ids] \cup {NoHandle}]
    /\ meant \in [Clients -> SUBSET Objs]
    /\ cached \in [Clients -> BOOLEAN] /\ creating \in [Clients -> BOOLEAN]

\* Every step changes the transaction of one connection, and with it the
\* database only when it commits.
LEMMA TxnStep ==
    ASSUME LengthCounts, NEW c \in Clients,
           NEW b \in Store \cup {NoTxn}, NEW v \in Store \cup {NoTxn},
           b = NoTxn <=> v = NoTxn,
           v # NoTxn => Counts(v) /\ Counts(b),
           base' = [base EXCEPT ![c] = b], view' = [view EXCEPT ![c] = v],
           committed' \in Store, Counts(committed)', Rest',
           creating'[c] \/ adding'[c] # NoObj => v # NoTxn,
           creating'[c] => adding'[c] = NoObj,
           \A e \in Clients \ {c} : creating'[e] = creating[e] /\ adding'[e] = adding[e]
    PROVE  LengthCounts'
<1>1. /\ base' \in [Clients -> Store \cup {NoTxn}]
      /\ view' \in [Clients -> Store \cup {NoTxn}]
  BY DEF LengthCounts, TypeOK
<1>2. \A e \in Clients : /\ base'[e] = NoTxn <=> view'[e] = NoTxn
                         /\ creating'[e] \/ adding'[e] # NoObj => view'[e] # NoTxn
                         /\ creating'[e] => adding'[e] = NoObj
  BY DEF LengthCounts, TypeOK
<1>3. ASSUME NEW e \in Clients, view'[e] # NoTxn
      PROVE  Counts(view'[e]) /\ Counts(base'[e])
  BY <1>3 DEF LengthCounts, TypeOK
<1>4. TypeOK'
  BY <1>1, <1>2 DEF TypeOK, Rest
<1> QED
  BY <1>3, <1>4 DEF LengthCounts, Counts, Stored

\* A transaction that ends without a commit, abort or ConflictError
LEMMA EndKeeps ==
    ASSUME LengthCounts, NEW c \in Clients, EndTxn(c), adding[c] = NoObj,
           committed' \in Store, Counts(committed)',
           nextid' \in [Clients -> Ids \cup {NoId}], UNCHANGED adding,
           cached' \in [Clients -> BOOLEAN], creating' = [creating EXCEPT ![c] = FALSE]
    PROVE  LengthCounts'
<1>1. Rest'
  BY DEF Rest, EndTxn, LengthCounts, TypeOK
<1>2. ~creating'[c] /\ adding'[c] = NoObj
  BY DEF LengthCounts, TypeOK
<1>3. \A e \in Clients \ {c} : creating'[e] = creating[e] /\ adding'[e] = adding[e]
  BY DEF LengthCounts, TypeOK
<1> QED
  BY <1>1, <1>2, <1>3, TxnStep DEF EndTxn

\* A commit merges what the transaction has changed.
LEMMA SaveKeeps ==
    ASSUME LengthCounts, NEW c \in Clients, view[c] # NoTxn, Save(c), adding[c] = NoObj,
           UNCHANGED <<nextid, adding>>,
           cached' \in [Clients -> BOOLEAN], creating' = [creating EXCEPT ![c] = FALSE]
    PROVE  LengthCounts'
<1>1. base[c] \in Store /\ view[c] \in Store /\ committed \in Store
  BY DEF LengthCounts, TypeOK
<1>2. Counts(base[c]) /\ Counts(view[c]) /\ Counts(committed)
  BY DEF LengthCounts
<1>3. committed' \in Store /\ Counts(committed')
  BY <1>1, <1>2, MergeCounts DEF Save, Mergeable
<1> QED
  BY <1>3, EndKeeps DEF Save, LengthCounts, TypeOK, Counts, Stored

\* A change of the transaction's own view
LEMMA ViewKeeps ==
    ASSUME LengthCounts, NEW c \in Clients, view[c] # NoTxn,
           NEW v \in Store, Counts(v), view' = [view EXCEPT ![c] = v],
           UNCHANGED <<committed, base>>, Rest', creating'[c] => adding'[c] = NoObj,
           \A e \in Clients \ {c} : creating'[e] = creating[e] /\ adding'[e] = adding[e]
    PROVE  LengthCounts'
<1>1. base[c] \in Store /\ Counts(base[c]) /\ base' = [base EXCEPT ![c] = base[c]]
  BY DEF LengthCounts, TypeOK
<1>2. committed' \in Store /\ Counts(committed)'
  BY DEF LengthCounts, TypeOK, Counts, Stored
<1>3. base[c] # NoTxn /\ v # NoTxn
  BY <1>1, NoObjAssumption
<1> QED
  BY <1>1, <1>2, <1>3, TxnStep

\* A step that touches no store
LEMMA StoresKeep ==
    ASSUME LengthCounts, UNCHANGED <<committed, txns>>, Rest',
           \A e \in Clients : /\ creating'[e] \/ adding'[e] # NoObj => view[e] # NoTxn
                              /\ creating'[e] => adding'[e] = NoObj
    PROVE  LengthCounts'
<1>1. committed' = committed /\ base' = base /\ view' = view
  BY DEF txns
<1>2. /\ committed \in Store /\ \A e \in Clients : base[e] = NoTxn <=> view[e] = NoTxn
      /\ base \in [Clients -> Store \cup {NoTxn}]
      /\ view \in [Clients -> Store \cup {NoTxn}]
  BY DEF LengthCounts, TypeOK
<1>3. TypeOK'
  BY <1>1, <1>2 DEF TypeOK, Rest
<1>4. /\ Counts(committed)
      /\ \A e \in Clients : view[e] # NoTxn => Counts(view[e]) /\ Counts(base[e])
  BY DEF LengthCounts
<1>5. /\ Counts(committed')
      /\ \A e \in Clients : view'[e] # NoTxn => Counts(view'[e]) /\ Counts(base'[e])
  BY <1>1, <1>4
<1> QED
  BY <1>3, <1>5 DEF LengthCounts, Counts, Stored

\* The store that a transaction makes is empty or the one it sees.
LEMMA MadeCounts ==
    ASSUME NEW s \in Store, Counts(s)
    PROVE  Made(s) \in Store /\ Counts(Made(s))
<1>1. Made(s) \in Store
  BY DEF Store, Made
<1>2. Made(s).tree = s.tree /\ Made(s).length = s.length
  BY DEF Store, Made
<1>3. Stored(Made(s)) = Stored(s)
  BY <1>2 DEF Stored
<1> QED
  BY <1>1, <1>2, <1>3 DEF Counts

\* insert(), under the uid that the generator went on to or drew
LEMMA InsertKeeps ==
    ASSUME LengthCounts, NEW c \in Clients, view[c] # NoTxn, adding[c] # NoObj,
           NEW uid \in Ids, Insert(c, uid)
    PROVE  LengthCounts'
<1>1. view[c] \in Store /\ Counts(view[c]) /\ adding[c] \in Objs
  BY DEF LengthCounts, TypeOK
<1>2. /\ WithObj(view[c], uid, adding[c]) \in Store
      /\ Counts(WithObj(view[c], uid, adding[c]))
  BY <1>1, InsertCounts DEF Insert
<1>3. (IF uid + 1 > maxint THEN NoId ELSE uid + 1) \in Ids \cup {NoId}
  BY MaxintAssumption DEF Ids
<1>4. Rest'
  <2>1. nextid' \in [Clients -> Ids \cup {NoId}]
    BY <1>3 DEF Insert, LengthCounts, TypeOK
  <2>2. held' \in [Clients -> [obj : Objs, uid : Ids] \cup {NoHandle}]
    BY <1>1 DEF Insert, LengthCounts, TypeOK
  <2> QED
    BY <2>1, <2>2 DEF Insert, LengthCounts, TypeOK, Rest
<1>5. /\ adding'[c] = NoObj
      /\ \A e \in Clients \ {c} : creating'[e] = creating[e] /\ adding'[e] = adding[e]
  BY DEF Insert, LengthCounts, TypeOK
<1> QED
  BY <1>2, <1>4, <1>5, ViewKeeps DEF Insert

\* del of a uid, by the one found or by the object's _p_uid
LEMMA RemoveKeeps ==
    ASSUME LengthCounts, NEW c \in Clients, view[c] # NoTxn,
           NEW uid \in Ids, NEW o \in Objs, RemoveUid(c, uid, o)
    PROVE  LengthCounts'
<1>1. view[c] \in Store /\ Counts(view[c])
  BY DEF LengthCounts, TypeOK
<1>2. WithoutObj(view[c], uid) \in Store /\ Counts(WithoutObj(view[c], uid))
  BY <1>1, RemoveCounts DEF RemoveUid
<1>3. Rest' /\ (creating'[c] => adding'[c] = NoObj)
  BY DEF RemoveUid, LengthCounts, TypeOK, Rest
<1> QED
  BY <1>2, <1>3, ViewKeeps DEF RemoveUid

-----------------------------------------------------------------------------

\* Every step keeps the types and the counts, one case per action.
LEMMA NextKeeps == LengthCounts /\ [Next]_vars => LengthCounts'
<1> SUFFICES ASSUME LengthCounts, [Next]_vars PROVE LengthCounts'
  OBVIOUS
<1>types. /\ committed \in Store /\ Counts(committed) /\ Rest
          /\ \A c \in Clients : view[c] # NoTxn => /\ view[c] \in Store /\ Counts(view[c])
                                                  /\ base[c] \in Store /\ Counts(base[c])
  BY DEF LengthCounts, TypeOK, Rest
<1>adds. \A c \in Clients : adding[c] # NoObj => view[c] # NoTxn
  BY DEF LengthCounts, TypeOK
<1>creates. ASSUME NEW c \in Clients, creating[c]
            PROVE  view[c] # NoTxn /\ adding[c] = NoObj
  BY <1>creates DEF LengthCounts, TypeOK
<1>1. ASSUME NEW c \in Clients, Begin(c) PROVE LengthCounts'
  <2>1. committed' \in Store /\ Counts(committed)' /\ Rest'
    BY <1>1, <1>types DEF Begin, BeginTxn, Rest, Counts, Stored
  <2>2. ~creating[c] /\ adding[c] = NoObj
    BY <1>1, <1>adds, <1>creates DEF Begin
  <2>3. UNCHANGED creating /\ UNCHANGED adding
    BY <1>1 DEF Begin
  <2> QED
    BY <1>1, <2>1, <2>2, <2>3, <1>types, TxnStep, NoObjAssumption DEF Begin, BeginTxn
<1>2. ASSUME NEW c \in Clients, Commit(c) PROVE LengthCounts'
  BY <1>2, <1>types, SaveKeeps DEF Commit, InTxn, Idle, Rest
<1>3. ASSUME NEW c \in Clients, Abort(c) PROVE LengthCounts'
  <2>1. nextid' \in [Clients -> Ids \cup {NoId}]
    BY <1>3, <1>types DEF Abort, Rest
  <2>2. committed' \in Store /\ Counts(committed)'
    BY <1>3, <1>types DEF Abort, Counts, Stored
  <2> QED
    BY <1>3, <2>1, <2>2, <1>types, EndKeeps DEF Abort, InTxn, Idle, Rest
<1>4. ASSUME NEW c \in Clients, Deactivate(c) PROVE LengthCounts'
  <2>1. Rest'
    BY <1>4, <1>types DEF Deactivate, txns, Rest
  <2>2. UNCHANGED <<committed, txns, adding, creating>>
    BY <1>4 DEF Deactivate
  <2> QED
    BY <2>1, <2>2, <1>adds, <1>creates, StoresKeep
<1>5. ASSUME NEW c \in Clients, GetModel(c) PROVE LengthCounts'
  <2>1. Made(view[c]) \in Store /\ Counts(Made(view[c]))
    BY <1>5, <1>types, MadeCounts DEF GetModel, InTxn
  <2>2. Rest'
    BY <1>5, <1>types DEF GetModel, Rest
  <2> QED
    BY <1>5, <2>1, <2>2, ViewKeeps DEF GetModel, InTxn, Idle
<1>6. ASSUME NEW c \in Clients, CreateModel(c) PROVE LengthCounts'
  <2>1. Made(committed) \in Store /\ Counts(Made(committed))
    BY <1>types, MadeCounts
  <2>2. committed' \in Store /\ Counts(committed)' /\ Rest'
    BY <1>6, <1>types DEF CreateModel, BeginTxn, Rest, Counts, Stored
  <2>3. adding'[c] = NoObj /\ \A e \in Clients \ {c} : adding'[e] = adding[e]
    BY <1>6, <1>adds DEF CreateModel
  <2>4. \A e \in Clients \ {c} : creating'[e] = creating[e]
    BY <1>6, <1>types DEF CreateModel, Rest
  <2> QED
    BY <1>6, <2>1, <2>2, <2>3, <2>4, <1>types, TxnStep, NoObjAssumption DEF CreateModel, BeginTxn
<1>7. ASSUME NEW c \in Clients, CommitModel(c) PROVE LengthCounts'
  <2>1. view[c] # NoTxn /\ adding[c] = NoObj
    BY <1>7, <1>creates DEF CommitModel
  <2> QED
    BY <1>7, <2>1, <1>types, SaveKeeps DEF CommitModel, Rest
<1>8. ASSUME NEW c \in Clients, CreateFails(c) PROVE LengthCounts'
  <2>1. committed' \in Store /\ Counts(committed)'
    BY <1>8, <1>types DEF CreateFails, Counts, Stored
  <2>2. adding[c] = NoObj
    BY <1>8, <1>creates DEF CreateFails
  <2> QED
    BY <1>8, <2>1, <2>2, <1>types, EndKeeps DEF CreateFails, Rest
<1>9. ASSUME NEW c \in Clients, NEW o \in Objs, Add(c, o) PROVE LengthCounts'
  <2>1. view[c] # NoTxn /\ ~creating[c]
    BY <1>9 DEF Add, Usable, InTxn, Idle
  <2>2. /\ adding' = [adding EXCEPT ![c] = o]
        /\ UNCHANGED <<committed, txns, nextid, held, cached, creating>>
    BY <1>9 DEF Add
  <2>3. Rest'
    BY <2>2, <1>types DEF txns, Rest
  <2>4. \A e \in Clients \ {c} : adding'[e] = adding[e]
    BY <2>2, <1>types DEF Rest
  <2>5. \A e \in Clients : /\ creating'[e] \/ adding'[e] # NoObj => view[e] # NoTxn
                           /\ creating'[e] => adding'[e] = NoObj
    BY <2>1, <2>2, <2>4, <1>adds, <1>creates
  <2> QED
    BY <2>2, <2>3, <2>5, StoresKeep
<1>10. ASSUME NEW c \in Clients, TakeNext(c) PROVE LengthCounts'
  <2>1. nextid[c] \in Ids /\ view[c] # NoTxn
    BY <1>10, <1>types, <1>adds DEF TakeNext, Rest
  <2> QED
    BY <1>10, <2>1, InsertKeeps DEF TakeNext
<1>11. ASSUME NEW c \in Clients, NextTaken(c) PROVE LengthCounts'
  <2>1. Rest'
    BY <1>11, <1>types DEF NextTaken, txns, Rest
  <2>2. UNCHANGED <<committed, txns, adding, creating>>
    BY <1>11 DEF NextTaken
  <2> QED
    BY <2>1, <2>2, <1>adds, <1>creates, StoresKeep
<1>12. ASSUME NEW c \in Clients, Draw(c) PROVE LengthCounts'
  <2>1. PICK uid \in 0 .. maxint - 1 : Insert(c, uid)
    BY <1>12 DEF Draw
  <2>2. uid \in Ids
    BY MaxintAssumption DEF Ids
  <2>3. view[c] # NoTxn
    BY <1>12, <1>adds DEF Draw
  <2> QED
    BY <1>12, <2>1, <2>2, <2>3, InsertKeeps DEF Draw
<1>13. ASSUME NEW c \in Clients, Remove(c) PROVE LengthCounts'
  <2>1. PICK uid \in Stored(view[c]) : RemoveUid(c, uid, view[c].tree[uid])
    BY <1>13 DEF Remove
  <2>2. uid \in Ids /\ view[c].tree[uid] \in Objs /\ view[c] # NoTxn
    BY <1>13, <1>types DEF Remove, Usable, InTxn, Stored, Store
  <2> QED
    BY <2>1, <2>2, RemoveKeeps
<1>14. ASSUME NEW c \in Clients, RemoveHeld(c) PROVE LengthCounts'
  <2>1. held[c].uid \in Ids /\ held[c].obj \in Objs /\ view[c] # NoTxn
    BY <1>14, <1>types DEF RemoveHeld, Usable, InTxn, Rest
  <2> QED
    BY <1>14, <2>1, RemoveKeeps DEF RemoveHeld
<1>15. ASSUME UNCHANGED vars PROVE LengthCounts'
  BY <1>15 DEF vars, txns, LengthCounts, TypeOK, Counts, Stored
<1> QED
  BY <1>1, <1>2, <1>3, <1>4, <1>5, <1>6, <1>7, <1>8, <1>9, <1>10, <1>11, <1>12,
     <1>13, <1>14, <1>15 DEF Next

\* However the commits of any number of connections interleave, and whatever is
\* merged, aborted or drawn, len() of the store is the number of its objects
\* (IdStore.add, remove, __len__).
THEOREM LengthIsRight == Spec => []LengthCounts
<1>1. Init => LengthCounts
  BY InitCounts
<1>2. LengthCounts /\ [Next]_vars => LengthCounts'
  BY NextKeeps
<1> QED
  BY <1>1, <1>2, PTL DEF Spec

-----------------------------------------------------------------------------
(* Nothing is lost: the invariant. *)

\* An object that is in both trees is under the same uid.
SameUids(s, t) ==
    \A i, j \in Ids : s.tree[i] = t.tree[j] /\ t.tree[j] # NoObj => i = j

\* What the transaction of c has added, and what it has had to do with
Added(c) == IF view[c] = NoTxn THEN {} ELSE Contents(view[c]) \ Contents(base[c])
Seen(c) == IF view[c] = NoTxn THEN {}
           ELSE Contents(view[c]) \cup Contents(base[c]) \cup meant[c]

\* What one transaction makes of its base, while k is committed
TxnInv(b, v, m, k) ==
    /\ SameUids(b, v) /\ SameUids(b, k) /\ SameUids(v, v)
    /\ Contents(b) \ Contents(v) \subseteq m
    /\ (m \ Contents(b)) \cap Contents(k) = {}

\* Objects have one uid, what is gone from a view was to be removed, ...
UidInv ==
    /\ SameUids(committed, committed)
    /\ \A c \in Clients : view[c] # NoTxn => TxnInv(base[c], view[c], meant[c], committed)

\* ... what is added, or about to be, is nowhere else, ...
OwnInv ==
    \A c \in Clients :
        /\ Added(c) \cap Contents(committed) = {}
        /\ \A e \in Clients \ {c} : Added(c) \cap Seen(e) = {}
HandInv ==
    \A c \in Clients : adding[c] # NoObj =>
        /\ adding[c] \notin Contents(committed)
        /\ \A e \in Clients : adding[c] \notin Seen(e)
        /\ \A e \in Clients \ {c} : adding[c] # adding[e]

\* ... and a _p_uid leads to its object or to nothing.
HeldInv ==
    \A c \in Clients : held[c] # NoHandle =>
        view[c] # NoTxn /\ view[c].tree[held[c].uid] \in {NoObj, held[c].obj}

StoreInv == LengthCounts /\ UidInv /\ OwnInv /\ HandInv /\ HeldInv

-----------------------------------------------------------------------------
(* Lemmas about trees. *)

LEMMA ContentsWithObj ==
    ASSUME NEW s \in Store, NEW o \in Objs, NEW uid \in Ids, s.tree[uid] = NoObj
    PROVE  /\ \A i \in Ids : WithObj(s, uid, o).tree[i] = IF i = uid THEN o ELSE s.tree[i]
           /\ Contents(WithObj(s, uid, o)) = Contents(s) \cup {o}
<1>1. WithObj(s, uid, o).tree = [s.tree EXCEPT ![uid] = o]
  BY DEF Store, WithObj
<1>2. \A i \in Ids : WithObj(s, uid, o).tree[i] = IF i = uid THEN o ELSE s.tree[i]
  BY <1>1 DEF Store
<1>3. o # NoObj
  BY NoObjAssumption
<1> HIDE DEF WithObj
<1>4. Contents(WithObj(s, uid, o)) = Contents(s) \cup {o}
  BY <1>2, <1>3 DEF Contents, Stored
<1> QED
  BY <1>2, <1>4

LEMMA ContentsWithoutObj ==
    ASSUME NEW s \in Store, NEW uid \in Ids, s.tree[uid] # NoObj, SameUids(s, s)
    PROVE  /\ \A i \in Ids : WithoutObj(s, uid).tree[i] = IF i = uid THEN NoObj ELSE s.tree[i]
           /\ Contents(WithoutObj(s, uid)) = Contents(s) \ {s.tree[uid]}
<1>1. WithoutObj(s, uid).tree = [s.tree EXCEPT ![uid] = NoObj]
  BY DEF Store, WithoutObj
<1>2. \A i \in Ids : WithoutObj(s, uid).tree[i] = IF i = uid THEN NoObj ELSE s.tree[i]
  BY <1>1 DEF Store
<1> HIDE DEF WithoutObj
<1>3. Contents(WithoutObj(s, uid)) = Contents(s) \ {s.tree[uid]}
  BY <1>2 DEF Contents, Stored, SameUids
<1> QED
  BY <1>2, <1>3

\* A merge brings the added objects in and takes the removed ones out.
LEMMA MergeContents ==
    ASSUME NEW b \in Store, NEW v \in Store, NEW k \in Store, NEW m,
           TxnInv(b, v, m, k), Changed(b, v) \cap Changed(b, k) = {}
    PROVE  Contents(Merge(b, v, k)) =
             (Contents(k) \cup (Contents(v) \ Contents(b))) \ (m \ Contents(v))
<1> DEFINE t == Merge(b, v, k)
           Q == Changed(b, v)
<1>1. \A i \in Ids : t.tree[i] = IF i \in Q THEN v.tree[i] ELSE k.tree[i]
  BY DEF Merge
<1>2. \A i \in Ids : /\ i \in Q => v.tree[i] # b.tree[i] /\ k.tree[i] = b.tree[i]
                     /\ i \notin Q => v.tree[i] = b.tree[i]
  BY DEF Changed
<1> HIDE DEF t, Q
<1>3. ASSUME NEW i \in Ids, t.tree[i] # NoObj
      PROVE  t.tree[i] \in (Contents(k) \cup (Contents(v) \ Contents(b))) \ (m \ Contents(v))
  <2>1. CASE i \in Q
    <3>1. v.tree[i] \in Contents(v)
      BY <1>1, <1>3, <2>1 DEF Contents, Stored
    <3>2. v.tree[i] \notin Contents(b)
      BY <1>1, <1>2, <1>3, <2>1 DEF Contents, Stored, TxnInv, SameUids
    <3> QED
      BY <1>1, <2>1, <3>1, <3>2
  <2>2. CASE i \notin Q
    <3>1. k.tree[i] \in Contents(k)
      BY <1>1, <1>3, <2>2 DEF Contents, Stored
    <3>2. ASSUME k.tree[i] \in m, k.tree[i] \in Contents(b)
          PROVE  k.tree[i] \in Contents(v)
      <4>1. b.tree[i] = k.tree[i]
        BY <1>1, <1>3, <2>2, <3>2 DEF Contents, Stored, TxnInv, SameUids
      <4> QED
        BY <1>1, <1>2, <1>3, <2>2, <4>1 DEF Contents, Stored
    <3> QED
      BY <1>1, <2>2, <3>1, <3>2 DEF TxnInv
  <2> QED
    BY <2>1, <2>2
<1>4. ASSUME NEW i \in Ids, v.tree[i] # NoObj, v.tree[i] \notin Contents(b)
      PROVE  t.tree[i] = v.tree[i]
  BY <1>1, <1>2, <1>4 DEF Contents, Stored
<1>5. ASSUME NEW i \in Ids, k.tree[i] # NoObj, k.tree[i] \notin m \ Contents(v)
      PROVE  t.tree[i] = k.tree[i]
  <2>1. CASE i \in Q
    <3>1. k.tree[i] \in Contents(b)
      BY <1>2, <1>5, <2>1 DEF Contents, Stored
    <3>2. k.tree[i] \in Contents(v)
      BY <1>5, <3>1 DEF TxnInv
    <3>3. v.tree[i] = b.tree[i]
      BY <1>2, <1>5, <2>1, <3>2 DEF Contents, Stored, TxnInv, SameUids
    <3> QED
      BY <1>2, <2>1, <3>3
  <2>2. CASE i \notin Q
    BY <1>1, <2>2
  <2> QED
    BY <2>1, <2>2
<1>6. Contents(t) \subseteq (Contents(k) \cup (Contents(v) \ Contents(b))) \ (m \ Contents(v))
  BY <1>3 DEF Contents, Stored
<1>7. Contents(v) \ Contents(b) \subseteq Contents(t)
  BY <1>4 DEF Contents, Stored
<1>8. Contents(k) \ (m \ Contents(v)) \subseteq Contents(t)
  BY <1>5 DEF Contents, Stored
<1>9. Contents(t) = (Contents(k) \cup (Contents(v) \ Contents(b))) \ (m \ Contents(v))
  BY <1>6, <1>7, <1>8
<1> QED
  BY <1>9 DEF t

\* The objects of another tree stay under their uids, where the transaction has
\* added none of them.
LEMMA MergeSameUids ==
    ASSUME NEW b \in Store, NEW v \in Store, NEW k \in Store, NEW s,
           SameUids(b, v), SameUids(s, k),
           (Contents(v) \ Contents(b)) \cap Contents(s) = {}
    PROVE  SameUids(s, Merge(b, v, k))
<1> DEFINE t == Merge(b, v, k)
           Q == Changed(b, v)
<1>1. \A i \in Ids : t.tree[i] = IF i \in Q THEN v.tree[i] ELSE k.tree[i]
  BY DEF Merge
<1>2. \A i \in Ids : i \in Q => v.tree[i] # b.tree[i]
  BY DEF Changed
<1> HIDE DEF t, Q
<1>3. ASSUME NEW i \in Ids, NEW j \in Ids, s.tree[i] = t.tree[j], t.tree[j] # NoObj
      PROVE  i = j
  <2>1. CASE j \in Q
    <3>1. v.tree[j] \in Contents(v) \ Contents(b)
      BY <1>1, <1>2, <1>3, <2>1 DEF Contents, Stored, SameUids
    <3>2. v.tree[j] \in Contents(s)
      BY <1>1, <1>3, <2>1 DEF Contents, Stored
    <3> QED
      BY <3>1, <3>2
  <2>2. CASE j \notin Q
    BY <1>1, <1>3, <2>2 DEF SameUids
  <2> QED
    BY <2>1, <2>2
<1>4. SameUids(s, t)
  BY <1>3 DEF SameUids
<1> QED
  BY <1>4 DEF t

\* Nothing is twice in what is committed.
LEMMA MergeOnce ==
    ASSUME NEW b \in Store, NEW v \in Store, NEW k \in Store,
           SameUids(b, v), SameUids(v, v), SameUids(k, k),
           (Contents(v) \ Contents(b)) \cap Contents(k) = {}
    PROVE  SameUids(Merge(b, v, k), Merge(b, v, k))
<1> DEFINE t == Merge(b, v, k)
           Q == Changed(b, v)
<1>1. \A i \in Ids : t.tree[i] = IF i \in Q THEN v.tree[i] ELSE k.tree[i]
  BY DEF Merge
<1>2. \A i \in Ids : i \in Q => v.tree[i] # b.tree[i]
  BY DEF Changed
<1> HIDE DEF t, Q
<1>3. ASSUME NEW i \in Q, i \in Ids, v.tree[i] # NoObj
      PROVE  v.tree[i] \notin Contents(k)
  <2>1. v.tree[i] \in Contents(v)
    BY <1>3 DEF Contents, Stored
  <2>2. v.tree[i] \notin Contents(b)
    <3>1. ASSUME NEW j \in Ids, b.tree[j] = v.tree[i] PROVE FALSE
      <4>1. i = j
        BY <1>3, <3>1 DEF SameUids
      <4> QED
        BY <1>2, <1>3, <3>1, <4>1
    <3> QED
      BY <3>1 DEF Contents, Stored
  <2> QED
    BY <2>1, <2>2
<1>4. ASSUME NEW i \in Ids, NEW j \in Ids, t.tree[i] = t.tree[j], t.tree[j] # NoObj
      PROVE  i = j
  <2>1. CASE i \in Q /\ j \in Q
    BY <1>1, <1>4, <2>1 DEF SameUids
  <2>2. CASE i \notin Q /\ j \notin Q
    BY <1>1, <1>4, <2>2 DEF SameUids
  <2>3. CASE i \in Q /\ j \notin Q
    BY <1>1, <1>3, <1>4, <2>3 DEF Contents, Stored
  <2>4. CASE i \notin Q /\ j \in Q
    BY <1>1, <1>3, <1>4, <2>4 DEF Contents, Stored
  <2> QED
    BY <2>1, <2>2, <2>3, <2>4
<1>5. SameUids(t, t)
  BY <1>4 DEF SameUids
<1> QED
  BY <1>5 DEF t

-----------------------------------------------------------------------------
(* Lemmas about steps. *)

\* The object whose add() is under way
Hand(c) == IF adding[c] = NoObj THEN {} ELSE {adding[c]}

\* A step of one connection leaves the others what they have.
OthersKeep(c) ==
    \A e \in Clients \ {c} :
        /\ base'[e] = base[e] /\ view'[e] = view[e]
        /\ meant'[e] = meant[e] /\ held'[e] = held[e]

LEMMA OthersSame ==
    ASSUME NEW c \in Clients, OthersKeep(c), NEW e \in Clients \ {c}
    PROVE  Added(e)' = Added(e) /\ Seen(e)' = Seen(e)
<1>1. view'[e] = view[e] /\ base'[e] = base[e] /\ meant'[e] = meant[e]
  BY DEF OthersKeep
<1>2. Contents(view[e])' = Contents(view[e]) /\ Contents(base[e])' = Contents(base[e])
  BY <1>1 DEF Contents, Stored
<1> QED
  BY <1>1, <1>2 DEF Added, Seen

\* What a transaction has added, it has seen.
LEMMA AddedSeen == \A c \in Clients : Added(c) \subseteq Seen(c)
BY DEF Added, Seen

\* The end of a transaction: what others have committed and what they have in
\* hand stays apart from what this one brings into the database.
LEMMA EndKeepsStore ==
    ASSUME StoreInv, LengthCounts', Liberties = {}, NEW c \in Clients, EndTxn(c),
           UNCHANGED adding,
           SameUids(committed', committed'),
           Contents(committed') \subseteq Contents(committed) \cup Added(c),
           \A e \in Clients \ {c} : view[e] # NoTxn => SameUids(base[e], committed')
    PROVE  StoreInv'
<1>1. OthersKeep(c) /\ view'[c] = NoTxn /\ held'[c] = NoHandle
  BY DEF EndTxn, OthersKeep, StoreInv, LengthCounts, TypeOK
<1>2. \A e \in Clients \ {c} : Added(e)' = Added(e) /\ Seen(e)' = Seen(e)
  BY <1>1, OthersSame
<1>3. Added(c)' = {} /\ Seen(c)' = {}
  BY <1>1 DEF Added, Seen
<1>4. Contents(committed)' = Contents(committed')
  BY DEF Contents, Stored
<1>5. UidInv'
  <2>1. ASSUME NEW e \in Clients, view'[e] # NoTxn
        PROVE  TxnInv(base'[e], view'[e], meant'[e], committed')
    <3>1. e # c /\ view[e] # NoTxn
      BY <1>1, <2>1 DEF OthersKeep
    <3>2. TxnInv(base[e], view[e], meant[e], committed)
      BY <3>1 DEF StoreInv, UidInv
    <3>3. meant[e] \cap Added(c) = {}
      BY <3>1 DEF StoreInv, OwnInv, Seen
    <3>4. TxnInv(base[e], view[e], meant[e], committed')
      BY <3>1, <3>2, <3>3 DEF TxnInv
    <3> QED
      BY <1>1, <3>1, <3>4 DEF OthersKeep
  <2> QED
    BY <2>1 DEF UidInv
<1>6. OwnInv'
  <2>1. ASSUME NEW e \in Clients \ {c}, NEW d \in Clients \ {e}
        PROVE  /\ Added(e)' \cap Contents(committed)' = {}
               /\ Added(e)' \cap Seen(d)' = {}
    <3>1. Added(e) \cap Added(c) = {}
      BY AddedSeen DEF StoreInv, OwnInv
    <3> QED
      BY <1>2, <1>3, <1>4, <3>1 DEF StoreInv, OwnInv
  <2>2. \A e \in Clients \ {c} : Added(e)' \cap Contents(committed)' = {}
    BY <2>1
  <2> QED
    BY <1>3, <2>1, <2>2 DEF OwnInv
<1>7. HandInv'
  <2>1. ASSUME NEW e \in Clients, adding[e] # NoObj
        PROVE  /\ adding[e] \notin Contents(committed)'
               /\ \A d \in Clients : adding[e] \notin Seen(d)'
    BY <1>2, <1>3, <1>4, <2>1, AddedSeen DEF StoreInv, HandInv
  <2> QED
    BY <2>1 DEF StoreInv, HandInv
<1>8. HeldInv'
  <2>1. ASSUME NEW e \in Clients, held'[e] # NoHandle
        PROVE  view'[e] # NoTxn /\ view'[e].tree[held'[e].uid] \in {NoObj, held'[e].obj}
    BY <1>1, <2>1 DEF OthersKeep, StoreInv, HeldInv
  <2> QED
    BY <2>1 DEF HeldInv
<1> QED
  BY <1>5, <1>6, <1>7, <1>8 DEF StoreInv

\* A change of one view: the object in hand may come in, what is committed may
\* be seen, and nothing else.
LEMMA ViewKeepsStore ==
    ASSUME StoreInv, LengthCounts', NEW c \in Clients, OthersKeep(c),
           UNCHANGED committed, view'[c] # NoTxn,
           TxnInv(base'[c], view'[c], meant'[c], committed),
           Added(c)' \subseteq Added(c) \cup Hand(c),
           Seen(c)' \subseteq Seen(c) \cup Contents(committed) \cup Hand(c),
           adding'[c] = NoObj,
           \A e \in Clients \ {c} : adding'[e] = adding[e],
           held'[c] # NoHandle => view'[c].tree[held'[c].uid] \in {NoObj, held'[c].obj}
    PROVE  StoreInv'
<1>1. \A e \in Clients \ {c} : Added(e)' = Added(e) /\ Seen(e)' = Seen(e)
  BY OthersSame
<1>2. Contents(committed)' = Contents(committed)
  BY DEF Contents, Stored
<1>3. /\ Hand(c) \cap Contents(committed) = {}
      /\ \A e \in Clients : Hand(c) \cap Seen(e) = {}
  BY DEF Hand, StoreInv, HandInv
<1>4. UidInv'
  <2>1. ASSUME NEW e \in Clients, view'[e] # NoTxn
        PROVE  TxnInv(base'[e], view'[e], meant'[e], committed)
    BY <2>1 DEF OthersKeep, StoreInv, UidInv
  <2>2. SameUids(committed, committed)
    BY DEF StoreInv, UidInv
  <2> QED
    BY <2>1, <2>2 DEF UidInv
<1>5. OwnInv'
  <2>1. Added(c)' \cap Contents(committed)' = {}
    BY <1>2, <1>3 DEF StoreInv, OwnInv
  <2>2. ASSUME NEW e \in Clients \ {c}
        PROVE  Added(c)' \cap Seen(e)' = {}
    BY <1>1, <1>3 DEF StoreInv, OwnInv
  <2>3. ASSUME NEW e \in Clients \ {c}
        PROVE  Added(e)' \cap Contents(committed)' = {}
    BY <1>1, <1>2 DEF StoreInv, OwnInv
  <2>4. ASSUME NEW e \in Clients \ {c}
        PROVE  Added(e)' \cap Seen(c)' = {}
    BY <1>1, <1>3, AddedSeen DEF StoreInv, OwnInv
  <2>5. ASSUME NEW e \in Clients \ {c}, NEW d \in Clients \ {c, e}
        PROVE  Added(e)' \cap Seen(d)' = {}
    BY <1>1 DEF StoreInv, OwnInv
  <2> QED
    BY <2>1, <2>2, <2>3, <2>4, <2>5 DEF OwnInv
<1>6. HandInv'
  <2>1. ASSUME NEW e \in Clients, adding'[e] # NoObj
        PROVE  /\ e # c /\ adding'[e] = adding[e]
               /\ adding[e] \notin Contents(committed)
               /\ \A d \in Clients : adding[e] \notin Seen(d)
               /\ \A d \in Clients \ {e} : adding[e] # adding[d]
    BY <2>1 DEF StoreInv, HandInv
  <2>2. ASSUME NEW e \in Clients, adding'[e] # NoObj
        PROVE  adding'[e] \notin Seen(c)'
    BY <2>1, <2>2 DEF Hand
  <2>3. ASSUME NEW e \in Clients, adding'[e] # NoObj, NEW d \in Clients
        PROVE  adding'[e] \notin Seen(d)'
    BY <1>1, <2>1, <2>2, <2>3
  <2>4. ASSUME NEW e \in Clients, adding'[e] # NoObj, NEW d \in Clients \ {e}
        PROVE  adding'[e] # adding'[d]
    BY <2>1, <2>4
  <2> QED
    BY <1>2, <2>1, <2>3, <2>4 DEF HandInv
<1>7. HeldInv'
  <2>1. ASSUME NEW e \in Clients, held'[e] # NoHandle
        PROVE  view'[e] # NoTxn /\ view'[e].tree[held'[e].uid] \in {NoObj, held'[e].obj}
    BY <2>1 DEF OthersKeep, StoreInv, HeldInv
  <2> QED
    BY <2>1 DEF HeldInv
<1> QED
  BY <1>4, <1>5, <1>6, <1>7 DEF StoreInv

\* insert() brings in the object in hand.
LEMMA InsertKeepsStore ==
    ASSUME StoreInv, LengthCounts', NEW c \in Clients, view[c] # NoTxn,
           adding[c] # NoObj, NEW uid \in Ids, Insert(c, uid)
    PROVE  StoreInv'
<1> DEFINE b == base[c]
           v == view[c]
           o == adding[c]
           w == WithObj(v, uid, o)
<1>1. /\ b \in Store /\ v \in Store /\ o \in Objs /\ v.tree[uid] = NoObj
      /\ TxnInv(b, v, meant[c], committed)
      /\ o \notin Contents(v) /\ o \notin Contents(b) /\ o \notin Contents(committed)
  BY DEF StoreInv, LengthCounts, TypeOK, UidInv, HandInv, Seen, Insert
<1>2. /\ \A i \in Ids : w.tree[i] = IF i = uid THEN o ELSE v.tree[i]
      /\ Contents(w) = Contents(v) \cup {o}
  BY <1>1, ContentsWithObj
<1>3. view'[c] = w /\ base'[c] = b /\ meant'[c] = meant[c] /\ w # NoTxn
  BY <1>1, InsertCounts, NoObjAssumption DEF Insert, StoreInv, LengthCounts, TypeOK
<1>4. held'[c].uid = uid
  BY DEF Insert, StoreInv, LengthCounts, TypeOK
<1>5. held'[c].obj = o
  BY DEF Insert, StoreInv, LengthCounts, TypeOK
<1>6. Contents(view[c])' = Contents(v) \cup {o} /\ Contents(base[c])' = Contents(b)
  BY <1>2, <1>3 DEF Contents, Stored
<1>7. OthersKeep(c) /\ UNCHANGED committed
  BY DEF Insert, OthersKeep, StoreInv, LengthCounts, TypeOK
<1>8. adding'[c] = NoObj /\ \A e \in Clients \ {c} : adding'[e] = adding[e]
  BY DEF Insert, StoreInv, LengthCounts, TypeOK
<1> HIDE DEF w, b, v, o
<1>9. o # NoObj
  BY DEF o
<1>10. TxnInv(b, w, meant[c], committed)
  <2>1. SameUids(b, w)
    BY <1>1, <1>2 DEF SameUids, TxnInv, Contents, Stored
  <2>2. SameUids(w, w)
    BY <1>1, <1>2 DEF SameUids, TxnInv, Contents, Stored
  <2> QED
    BY <1>1, <1>2, <2>1, <2>2 DEF TxnInv
<1>11. Added(c)' \subseteq Added(c) \cup Hand(c)
  BY <1>6 DEF Added, Hand, b, v, o
<1>12. Seen(c)' \subseteq Seen(c) \cup Hand(c)
  BY <1>3, <1>6 DEF Seen, Hand, b, v, o
<1>13. view'[c].tree[held'[c].uid] \in {NoObj, held'[c].obj}
  BY <1>2, <1>3, <1>4, <1>5
<1> QED
  BY <1>3, <1>7, <1>8, <1>10, <1>11, <1>12, <1>13, ViewKeepsStore

\* del of a uid takes away what is there.
LEMMA RemoveKeepsStore ==
    ASSUME StoreInv, LengthCounts', NEW c \in Clients, view[c] # NoTxn, adding[c] = NoObj,
           NEW uid \in Ids, RemoveUid(c, uid, view[c].tree[uid])
    PROVE  StoreInv'
<1> DEFINE b == base[c]
           v == view[c]
           o == v.tree[uid]
           w == WithoutObj(v, uid)
<1>1. /\ b \in Store /\ v \in Store /\ o # NoObj
      /\ TxnInv(b, v, meant[c], committed)
      /\ (Contents(v) \ Contents(b)) \cap Contents(committed) = {}
  BY DEF StoreInv, LengthCounts, TypeOK, UidInv, OwnInv, Added, RemoveUid
<1>2. /\ \A i \in Ids : w.tree[i] = IF i = uid THEN NoObj ELSE v.tree[i]
      /\ Contents(w) = Contents(v) \ {o}
  BY <1>1, ContentsWithoutObj DEF TxnInv
<1>3. /\ view'[c] = w /\ base'[c] = b /\ meant'[c] = meant[c] \cup {o}
      /\ held'[c] = held[c]
  BY DEF RemoveUid, StoreInv, LengthCounts, TypeOK
<1>4. w # NoTxn
  BY <1>1, RemoveCounts, NoObjAssumption DEF StoreInv, LengthCounts
<1>5. o \in Contents(v)
  BY <1>1 DEF Contents, Stored
<1>6. Contents(view[c])' = Contents(v) \ {o} /\ Contents(base[c])' = Contents(b)
  BY <1>2, <1>3 DEF Contents, Stored
<1>7. OthersKeep(c) /\ UNCHANGED <<committed, adding>>
  BY DEF RemoveUid, OthersKeep, StoreInv, LengthCounts, TypeOK
<1>8. held[c] # NoHandle => held[c].uid \in Ids /\ v.tree[held[c].uid] \in {NoObj, held[c].obj}
  BY DEF StoreInv, HeldInv, LengthCounts, TypeOK
<1> HIDE DEF w, b, v, o
<1>9. TxnInv(b, w, meant[c] \cup {o}, committed)
  <2>1. SameUids(b, w)
    BY <1>1, <1>2 DEF SameUids, TxnInv
  <2>2. SameUids(w, w)
    BY <1>1, <1>2 DEF SameUids, TxnInv
  <2>3. ((meant[c] \cup {o}) \ Contents(b)) \cap Contents(committed) = {}
    BY <1>1, <1>5 DEF TxnInv
  <2> QED
    BY <1>1, <1>2, <2>1, <2>2, <2>3 DEF TxnInv
<1>10. Added(c)' \subseteq Added(c)
  BY <1>6 DEF Added, b, v
<1>11. Seen(c)' \subseteq Seen(c)
  BY <1>3, <1>5, <1>6 DEF Seen, b, v
<1>12. held'[c] # NoHandle => view'[c].tree[held'[c].uid] \in {NoObj, held'[c].obj}
  BY <1>2, <1>3, <1>8
<1> QED
  BY <1>3, <1>4, <1>7, <1>9, <1>10, <1>11, <1>12, ViewKeepsStore

\* A transaction begins with what is committed; the constructor's makes a store.
LEMMA BeginKeepsStore ==
    ASSUME StoreInv, LengthCounts', NEW c \in Clients, view[c] = NoTxn, BeginTxn(c),
           NEW s \in Store, s.tree = committed.tree, view' = [view EXCEPT ![c] = s],
           UNCHANGED <<committed, adding, held>>
    PROVE  StoreInv'
<1>1. base'[c] = committed /\ view'[c] = s /\ meant'[c] = {} /\ held'[c] = held[c]
  BY DEF BeginTxn, StoreInv, LengthCounts, TypeOK
<1>2. OthersKeep(c)
  BY DEF BeginTxn, OthersKeep, StoreInv, LengthCounts, TypeOK
<1>3. adding[c] = NoObj /\ held[c] = NoHandle
  BY DEF StoreInv, LengthCounts, TypeOK, HeldInv
<1>4. s # NoTxn /\ SameUids(committed, committed)
  BY NoObjAssumption DEF StoreInv, UidInv
<1>5. TxnInv(committed, s, {}, committed) /\ Contents(s) = Contents(committed)
  BY <1>4 DEF TxnInv, SameUids, Contents, Stored
<1>6. Added(c)' = {} /\ Seen(c)' \subseteq Contents(committed)
  <2>1. Contents(view[c])' = Contents(committed) /\ Contents(base[c])' = Contents(committed)
    BY <1>1, <1>5 DEF Contents, Stored
  <2> QED
    BY <1>1, <2>1 DEF Added, Seen
<1> QED
  BY <1>1, <1>2, <1>3, <1>4, <1>5, <1>6, ViewKeepsStore

\* The merge of a commit
LEMMA SaveKeepsStore ==
    ASSUME StoreInv, LengthCounts', Liberties = {}, NEW c \in Clients, view[c] # NoTxn,
           Save(c), UNCHANGED adding
    PROVE  StoreInv'
<1> DEFINE t == Merge(base[c], view[c], committed)
<1>1. /\ base[c] \in Store /\ view[c] \in Store /\ committed \in Store
      /\ TxnInv(base[c], view[c], meant[c], committed) /\ SameUids(committed, committed)
      /\ Added(c) = Contents(view[c]) \ Contents(base[c])
      /\ Added(c) \cap Contents(committed) = {}
  BY DEF StoreInv, LengthCounts, TypeOK, UidInv, OwnInv, Added
<1>2. Contents(t) \subseteq Contents(committed) \cup Added(c)
  BY <1>1, MergeContents DEF Save, Mergeable
<1>3. SameUids(t, t)
  BY <1>1, MergeOnce DEF TxnInv
<1>4. ASSUME NEW e \in Clients \ {c}, view[e] # NoTxn
      PROVE  SameUids(base[e], t)
  <2>1. SameUids(base[e], committed)
    BY <1>4 DEF StoreInv, UidInv, TxnInv
  <2>2. Added(c) \cap Contents(base[e]) = {}
    BY <1>4 DEF StoreInv, OwnInv, Seen
  <2> QED
    BY <1>1, <2>1, <2>2, MergeSameUids DEF TxnInv
<1> QED
  BY <1>2, <1>3, <1>4, EndKeepsStore DEF Save

\* An abort, or a commit that fails
LEMMA UndoneKeepsStore ==
    ASSUME StoreInv, LengthCounts', Liberties = {}, NEW c \in Clients, EndTxn(c),
           UNCHANGED <<committed, adding>>
    PROVE  StoreInv'
BY EndKeepsStore DEF StoreInv, UidInv, TxnInv

-----------------------------------------------------------------------------

LEMMA InitStore == Init => StoreInv
<1> SUFFICES ASSUME Init PROVE StoreInv
  OBVIOUS
<1>1. LengthCounts
  BY InitCounts
<1>2. UidInv
  BY DEF Init, NoStore, UidInv, SameUids
<1>3. OwnInv /\ HandInv
  BY DEF Init, NoStore, OwnInv, HandInv, Added, Contents, Stored
<1>4. HeldInv
  BY DEF Init, HeldInv
<1> QED
  BY <1>1, <1>2, <1>3, <1>4 DEF StoreInv

\* A step that changes neither a tree nor what is in hand
LEMMA SameKeepsStore ==
    ASSUME StoreInv, LengthCounts', UNCHANGED <<committed, base, view, meant, held, adding>>
    PROVE  StoreInv'
<1>1. \A c \in Clients : Added(c)' = Added(c) /\ Seen(c)' = Seen(c)
  BY DEF Added, Seen, Contents, Stored
<1>2. Contents(committed)' = Contents(committed)
  BY DEF Contents, Stored
<1> QED
  BY <1>1, <1>2 DEF StoreInv, UidInv, OwnInv, HandInv, HeldInv

\* add() is called with an object that is nowhere yet.
LEMMA AddKeepsStore ==
    ASSUME StoreInv, LengthCounts', NEW c \in Clients, NEW o \in Objs, Add(c, o)
    PROVE  StoreInv'
<1>1. UNCHANGED <<committed, base, view, meant, held>>
  BY DEF Add, txns
<1>2. \A e \in Clients : Added(e)' = Added(e) /\ Seen(e)' = Seen(e)
  BY <1>1 DEF Added, Seen, Contents, Stored
<1>3. Contents(committed)' = Contents(committed)
  BY <1>1 DEF Contents, Stored
<1>4. \A e \in Clients : adding'[e] = IF e = c THEN o ELSE adding[e]
  BY DEF Add, StoreInv, LengthCounts, TypeOK
<1>5. /\ o \notin Contents(committed)
      /\ \A e \in Clients : o \notin Seen(e) /\ adding[e] # o
  BY DEF Add, New, Seen
<1>6. HandInv'
  BY <1>2, <1>3, <1>4, <1>5 DEF HandInv, StoreInv
<1> QED
  BY <1>1, <1>2, <1>3, <1>6 DEF StoreInv, UidInv, OwnInv, HeldInv

\* Every step keeps the invariant, one case per action.
LEMMA NextKeepsStore ==
    ASSUME Liberties = {}, StoreInv, [Next]_vars
    PROVE  StoreInv'
<1>1. LengthCounts'
  BY NextKeeps DEF StoreInv
<1>2. \A c \in Clients : adding[c] # NoObj => view[c] # NoTxn
  BY DEF StoreInv, LengthCounts, TypeOK
<1>3. ASSUME NEW c \in Clients, Begin(c) PROVE StoreInv'
  BY <1>1, <1>3, BeginKeepsStore DEF Begin, StoreInv, LengthCounts, TypeOK
<1>4. ASSUME NEW c \in Clients, Commit(c) PROVE StoreInv'
  BY <1>1, <1>4, SaveKeepsStore DEF Commit, InTxn
<1>5. ASSUME NEW c \in Clients, Abort(c) PROVE StoreInv'
  BY <1>1, <1>5, UndoneKeepsStore DEF Abort
<1>6. ASSUME NEW c \in Clients, Deactivate(c) PROVE StoreInv'
  BY <1>1, <1>6, SameKeepsStore DEF Deactivate, txns
<1>7. ASSUME NEW c \in Clients, GetModel(c) PROVE StoreInv'
  <2>1. /\ view[c] # NoTxn /\ view[c] \in Store /\ adding[c] = NoObj
        /\ TxnInv(base[c], view[c], meant[c], committed)
    BY <1>7 DEF GetModel, InTxn, Idle, StoreInv, LengthCounts, TypeOK, UidInv
  <2>2. /\ view'[c] = Made(view[c]) /\ base'[c] = base[c] /\ meant'[c] = meant[c]
        /\ held'[c] = held[c] /\ OthersKeep(c) /\ UNCHANGED <<committed, adding>>
    BY <1>7 DEF GetModel, OthersKeep, StoreInv, LengthCounts, TypeOK
  <2>3. view'[c] \in Store /\ view'[c] # NoTxn
    BY <2>1, <2>2, MadeCounts, NoObjAssumption DEF StoreInv, LengthCounts
  <2>4. view'[c].tree = view[c].tree
    BY <2>1, <2>2 DEF Made, Store
  <2>5. TxnInv(base'[c], view'[c], meant'[c], committed)
    BY <2>1, <2>2, <2>4 DEF TxnInv, SameUids, Contents, Stored
  <2>6. Contents(view[c])' = Contents(view[c]) /\ Contents(base[c])' = Contents(base[c])
    BY <2>2, <2>4 DEF Contents, Stored
  <2>7. Added(c)' = Added(c) /\ Seen(c)' = Seen(c)
    BY <2>1, <2>2, <2>3, <2>6 DEF Added, Seen
  <2>8. held'[c] # NoHandle => view'[c].tree[held'[c].uid] \in {NoObj, held'[c].obj}
    BY <2>2, <2>4 DEF StoreInv, HeldInv
  <2> QED
    BY <1>1, <2>1, <2>2, <2>3, <2>5, <2>7, <2>8, ViewKeepsStore
<1>8. ASSUME NEW c \in Clients, CreateModel(c) PROVE StoreInv'
  <2>1. Made(committed) \in Store /\ Made(committed).tree = committed.tree
    BY MadeCounts DEF StoreInv, LengthCounts, TypeOK, Made, Store
  <2> QED
    BY <1>1, <1>8, <2>1, BeginKeepsStore DEF CreateModel
<1>9. ASSUME NEW c \in Clients, CommitModel(c) PROVE StoreInv'
  <2>1. view[c] # NoTxn
    BY <1>9 DEF CommitModel, StoreInv, LengthCounts, TypeOK
  <2> QED
    BY <1>1, <1>9, <2>1, SaveKeepsStore DEF CommitModel
<1>10. ASSUME NEW c \in Clients, CreateFails(c) PROVE StoreInv'
  BY <1>1, <1>10, UndoneKeepsStore DEF CreateFails
<1>11. ASSUME NEW c \in Clients, NEW o \in Objs, Add(c, o) PROVE StoreInv'
  BY <1>1, <1>11, AddKeepsStore
<1>12. ASSUME NEW c \in Clients, TakeNext(c) PROVE StoreInv'
  <2>1. nextid[c] \in Ids
    BY <1>12 DEF TakeNext, StoreInv, LengthCounts, TypeOK
  <2> QED
    BY <1>1, <1>2, <1>12, <2>1, InsertKeepsStore DEF TakeNext
<1>13. ASSUME NEW c \in Clients, NextTaken(c) PROVE StoreInv'
  BY <1>1, <1>13, SameKeepsStore DEF NextTaken, txns
<1>14. ASSUME NEW c \in Clients, Draw(c) PROVE StoreInv'
  <2>1. PICK uid \in 0 .. maxint - 1 : Insert(c, uid)
    BY <1>14 DEF Draw
  <2>2. uid \in Ids
    BY MaxintAssumption DEF Ids
  <2> QED
    BY <1>1, <1>2, <1>14, <2>1, <2>2, InsertKeepsStore DEF Draw
<1>15. ASSUME NEW c \in Clients, Remove(c) PROVE StoreInv'
  <2>1. PICK uid \in Stored(view[c]) : RemoveUid(c, uid, view[c].tree[uid])
    BY <1>15 DEF Remove
  <2>2. uid \in Ids /\ view[c] # NoTxn /\ adding[c] = NoObj
    BY <1>15 DEF Remove, Usable, InTxn, Idle, Stored
  <2> QED
    BY <1>1, <2>1, <2>2, RemoveKeepsStore
<1>16. ASSUME NEW c \in Clients, RemoveHeld(c) PROVE StoreInv'
  <2>1. /\ held[c] # NoHandle /\ view[c] # NoTxn /\ adding[c] = NoObj
        /\ RemoveUid(c, held[c].uid, held[c].obj)
    BY <1>16 DEF RemoveHeld, Usable, InTxn, Idle
  <2>2. held[c].uid \in Ids
    BY <2>1 DEF StoreInv, LengthCounts, TypeOK
  <2>3. held[c].obj = view[c].tree[held[c].uid]
    BY <2>1 DEF RemoveUid, StoreInv, HeldInv
  <2> QED
    BY <1>1, <2>1, <2>2, <2>3, RemoveKeepsStore
<1>17. ASSUME UNCHANGED vars PROVE StoreInv'
  BY <1>1, <1>17, SameKeepsStore DEF vars, txns
<1> QED
  BY <1>3, <1>4, <1>5, <1>6, <1>7, <1>8, <1>9, <1>10, <1>11, <1>12, <1>13, <1>14,
     <1>15, <1>16, <1>17 DEF Next

\* What a commit makes of the database, as NothingLost states it
Brings(c) ==
    /\ view[c] # NoTxn /\ view'[c] = NoTxn
    /\ Contents(committed') =
        (Contents(committed) \cup (Contents(view[c]) \ Contents(base[c])))
            \ (meant[c] \ Contents(view[c]))

LEMMA SaveBrings ==
    ASSUME StoreInv, NEW c \in Clients, view[c] # NoTxn, Save(c)
    PROVE  Brings(c)
<1>1. /\ base[c] \in Store /\ view[c] \in Store /\ committed \in Store
      /\ TxnInv(base[c], view[c], meant[c], committed)
  BY DEF StoreInv, LengthCounts, TypeOK, UidInv
<1>2. Changed(base[c], view[c]) \cap Changed(base[c], committed) = {}
  BY DEF Save, Mergeable
<1>3. view'[c] = NoTxn
  BY DEF Save, EndTxn, StoreInv, LengthCounts, TypeOK
<1> QED
  BY <1>1, <1>2, <1>3, MergeContents DEF Save, Brings

\* Only a commit changes the database.
LEMMA NextBrings ==
    ASSUME StoreInv, [Next]_vars, committed' # committed
    PROVE  \E c \in Clients : Brings(c)
<1>1. ASSUME NEW c \in Clients, Commit(c) PROVE Brings(c)
  BY <1>1, SaveBrings DEF Commit, InTxn
<1>2. ASSUME NEW c \in Clients, CommitModel(c) PROVE Brings(c)
  <2>1. view[c] # NoTxn
    BY <1>2 DEF CommitModel, StoreInv, LengthCounts, TypeOK
  <2> QED
    BY <1>2, <2>1, SaveBrings DEF CommitModel
<1>3. ASSUME NEW c \in Clients, ~Commit(c), ~CommitModel(c),
             \/ Begin(c) \/ Abort(c) \/ Deactivate(c) \/ GetModel(c) \/ CreateModel(c)
             \/ CreateFails(c) \/ TakeNext(c) \/ NextTaken(c) \/ Draw(c) \/ Remove(c)
             \/ RemoveHeld(c) \/ \E o \in Objs : Add(c, o)
      PROVE  FALSE
  BY <1>3 DEF Begin, Abort, Deactivate, GetModel, CreateModel, CreateFails, TakeNext,
     NextTaken, Draw, Insert, Remove, RemoveHeld, RemoveUid, Add
<1>4. committed' = committed \/ Next
  BY DEF vars
<1> QED
  BY <1>1, <1>2, <1>3, <1>4 DEF Next

\* Where the application keeps no handle beyond its transaction, a commit of any
\* number of connections brings in what its transaction has added, takes out
\* what it was to remove, and touches nothing else (IdStore._generateId, add,
\* remove).
THEOREM NothingIsLost == Liberties = {} => (Spec => NothingLost)
<1> SUFFICES ASSUME Liberties = {} PROVE Spec => NothingLost
  OBVIOUS
<1>1. Init => StoreInv
  BY InitStore
<1>2. StoreInv /\ [Next]_vars => StoreInv'
  BY NextKeepsStore
<1>3. StoreInv /\ [Next]_vars =>
        [committed' # committed => \E c \in Clients : Brings(c)]_vars
  BY NextBrings
<1>4. NothingLost <=> [][committed' # committed => \E c \in Clients : Brings(c)]_vars
  BY DEF NothingLost, Brings
<1> QED
  BY <1>1, <1>2, <1>3, <1>4, PTL DEF Spec

=============================================================================
