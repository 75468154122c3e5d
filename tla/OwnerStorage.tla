---------------------------- MODULE OwnerStorage ----------------------------
(***************************************************************************)
(* The storage server with OwnerStorage: every record ends with the id of  *)
(* the user who stored it, a user's id is the oid of the user's root       *)
(* folder, and invalidations go only to the sessions of the same user.     *)
(* Clients keep records in their cache, lose their connection and verify   *)
(* the cache against the bounded invalidation queue when they are back.    *)
(***************************************************************************)
EXTENDS Integers, Sequences

CONSTANTS
    Oids,
    Zero,        \* z64, the database root
    Users,       \* the oids that are root folders of users
    Root,        \* the user who wrote the initial records
    Sessions,
    UserOf,      \* the user of each session, from ZEOStorage.register
    NoOwner,
    invq_bound,  \* length of the invalidation queue
    MaxTid       \* bound on the number of transactions

ASSUME UsersAssumption == Users \subseteq Oids /\ Zero \in Oids \ Users /\ Root \in Users
ASSUME SessionsAssumption == UserOf \in [Sessions -> Users]
ASSUME NoOwnerAssumption == NoOwner \notin Users
ASSUME BoundsAssumption == invq_bound \in Nat \ {0} /\ MaxTid \in Nat

VARIABLES
    owner,      \* the user id at the end of each record, NoOwner: no record
    serial,     \* the transaction that wrote each record
    tid,        \* the last transaction
    invq,       \* StorageServer.invq: (tid, oid), the newest first
    up,         \* sessions that are connected
    cache,      \* serial of the copy each client has of each record, -1: none
    seen,       \* the last transaction the client knows of
    inflight    \* invalidations on their way to each client

server == <<owner, serial, tid, invq>>
client == <<up, cache, seen, inflight>>
vars == <<server, client>>

Invalidation == [tid : 1 .. MaxTid, oid : Oids]

TypeOK ==
    /\ owner \in [Oids -> Users \cup {NoOwner}]
    /\ serial \in [Oids -> 0 .. MaxTid] /\ tid \in 0 .. MaxTid
    /\ Len(invq) <= invq_bound /\ \A k \in DOMAIN invq : invq[k] \in Invalidation
    /\ up \subseteq Sessions
    /\ cache \in [Sessions -> [Oids -> -1 .. MaxTid]]
    /\ seen \in [Sessions -> 0 .. MaxTid]
    /\ \A z \in Sessions : \A k \in DOMAIN inflight[z] : inflight[z][k] \in Invalidation

\* init_db and add_user have stored the root and the root folders.
Init ==
    /\ owner = [o \in Oids |-> IF o \in Users \cup {Zero} THEN Root ELSE NoOwner]
    /\ serial = [o \in Oids |-> 0]
    /\ tid = 0 /\ invq = <<>>
    /\ up = Sessions
    /\ cache = [z \in Sessions |-> [o \in Oids |-> -1]]
    /\ seen = [z \in Sessions |-> 0]
    /\ inflight = [z \in Sessions |-> <<>>]

-----------------------------------------------------------------------------

\* _check_permissions: the own records, the own root folder, and object 0
Permitted(u, o) == owner[o] = u \/ o = u \/ o = Zero

\* loadBefore
Load(z, o) ==
    /\ z \in up /\ owner[o] # NoOwner
    /\ Permitted(UserOf[z], o)
    /\ cache' = [cache EXCEPT ![z][o] = serial[o]]
    /\ UNCHANGED <<server, up, seen, inflight>>

\* Mutant of Queued: a full queue loses its newest entry.
QueuedLosesNewest(q, i) ==
    <<i>> \o (IF Len(q) >= invq_bound THEN Tail(q) ELSE q)

\* StorageServer.invalidate, the queue: a full one loses its oldest entry ...
Queued(q, i) ==
    <<i>> \o (IF Len(q) >= invq_bound THEN SubSeq(q, 1, Len(q) - 1) ELSE q)

\* ... and the messages: to the other sessions of the same user.
Notified(z) == {y \in up \ {z} : UserOf[y] = UserOf[z]}

\* store in a transaction of its own: permission on the record as it is, the
\* serial must be current (else ConflictError), the user's id at the end.
\* What was on its way to the client has arrived before the answer.
StoreRecord(z, o) ==
    /\ z \in up /\ tid < MaxTid
    /\ owner[o] = NoOwner \/ (Permitted(UserOf[z], o) /\ cache[z][o] = serial[o])
    /\ inflight[z] = <<>>
    /\ LET i == [tid |-> tid + 1, oid |-> o] IN
        /\ owner' = [owner EXCEPT ![o] = UserOf[z]]
        /\ serial' = [serial EXCEPT ![o] = tid + 1]
        /\ tid' = tid + 1
        /\ invq' = Queued(invq, i)
        /\ cache' = [cache EXCEPT ![z][o] = tid + 1]
        /\ seen' = [seen EXCEPT ![z] = tid + 1]
        /\ inflight' = [y \in Sessions |-> IF y \in Notified(z) THEN Append(inflight[y], i)
                                                               ELSE inflight[y]]
    /\ UNCHANGED up

\* The client handles an invalidation.
Deliver(z) ==
    /\ inflight[z] # <<>>
    /\ cache' = [cache EXCEPT ![z][Head(inflight[z]).oid] = -1]
    /\ seen' = [seen EXCEPT ![z] = Head(inflight[z]).tid]
    /\ inflight' = [inflight EXCEPT ![z] = Tail(@)]
    /\ UNCHANGED <<server, up>>

\* The connection breaks, messages on their way are lost; the client keeps its
\* cache.
Lose(z) ==
    /\ z \in up
    /\ up' = up \ {z}
    /\ inflight' = [inflight EXCEPT ![z] = <<>>]
    /\ UNCHANGED <<server, cache, seen>>

\* Cache verification: what the queue has since the last transaction seen, or
\* everything when the queue does not reach back that far.
Reconnect(z) ==
    /\ z \notin up
    /\ up' = up \cup {z}
    /\ LET reaches == invq # <<>> /\ invq[Len(invq)].tid <= seen[z]
           since == {invq[k].oid : k \in {j \in DOMAIN invq : invq[j].tid > seen[z]}}
       IN cache' = [cache EXCEPT ![z] = [o \in Oids |->
                        IF seen[z] = tid \/ (reaches /\ o \notin since) THEN @[o] ELSE -1]]
    /\ seen' = [seen EXCEPT ![z] = tid]
    /\ UNCHANGED <<server, inflight>>

Next ==
    \E z \in Sessions :
        \/ Deliver(z) \/ Lose(z) \/ Reconnect(z)
        \/ \E o \in Oids : Load(z, o) \/ StoreRecord(z, o)

Spec == Init /\ [][Next]_vars

-----------------------------------------------------------------------------
(* Properties. *)

\* A connected client's copy of a record is current, or its invalidation is on
\* the way, or another user stored the record last ("invalidations aren't sent
\* accross users"), whatever was lost and however short the queue is.
CacheCoherent ==
    /\ TypeOK
    /\ \A z \in up, o \in Oids :
        \/ cache[z][o] \in {-1, serial[o]}
        \/ \E k \in DOMAIN inflight[z] : inflight[z][k].oid = o
        \/ owner[o] # UserOf[z]
=============================================================================
